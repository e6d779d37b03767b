---------------------------- MODULE CpuRuntimeProofs ----------------------------
(***************************************************************************)
(* Proofs about the CPU runtime.                                           *)
(*                                                                         *)
(* GuestMemory, for memory, blocks, slots and modes of any size:           *)
(* reservations do not survive the stores that should end them, but for    *)
(* the two gaps of the code, and an access that faults leaves memory, the  *)
(* reservation and the locked cache alone.  GuestExceptions: a handler     *)
(* that leaves SRR0 and SRR1 alone returns to the instruction it           *)
(* interrupted, in its machine state.  FloatStatus: after any sequence of  *)
(* instructions the LLVM backend emits, FPSCR's summaries and the host's   *)
(* rounding are those of the bits in it.                                   *)
(***************************************************************************)
EXTENDS GuestMemory, GuestExceptions, FloatStatus, TLAPS

-----------------------------------------------------------------------------
(* GuestMemory                                                             *)

(* The reservation is a record of three fields.                             *)
ReserveOK == reserve \in [valid : BOOLEAN, alias : Aliases, at : Units \cup {Mapped}]

MemoryInv == ReserveOK /\ ReservationExclusive

LEMMA WithValid ==
    ASSUME ReserveOK, NEW b \in BOOLEAN, reserve' = [reserve EXCEPT !.valid = b]
    PROVE  ReserveOK' /\ reserve'.valid = b
BY DEF ReserveOK

(* An aligned access lies in one block.                                     *)
LEMMA OneBlock ==
    ASSUME NEW at \in Int, NEW n \in {1, 2, 4}, at % n = 0, NEW u \in Span(at, n)
    PROVE  Block(u) = Block(at)
<1> DEFINE B == BlockUnits
           q == at \div B
           r == at % B
<1>1. B \in Nat \ {0} /\ B % 4 = 0 BY MemoryAssumption
<1> HIDE DEF B
<1>2. at = B * q + r /\ r \in 0 .. B - 1 /\ q \in Int BY <1>1
<1> HIDE DEF q, r
<1>3. PICK k \in Nat : B = 4 * k BY <1>1
<1>4. PICK z \in Int : z = k * q BY <1>2
<1>5. at = 4 * z + r
  <2>1. B * q = 4 * (k * q) BY <1>2, <1>3
  <2> QED BY <1>2, <1>4, <2>1
<1>6. r + n <= B
  <2>1. CASE n = 1 BY <1>1, <1>2, <2>1
  <2>2. CASE n = 2 BY <1>1, <1>2, <1>3, <1>5, <2>2
  <2>3. CASE n = 4 BY <1>1, <1>2, <1>3, <1>5, <2>3
  <2> QED BY <2>1, <2>2, <2>3
<1>7. u \in Int /\ at <= u /\ u < at + n BY DEF Span
<1> DEFINE s == r + (u - at)
<1>8. u = B * q + s /\ s \in 0 .. B - 1 BY <1>1, <1>2, <1>6, <1>7
<1> HIDE DEF s
<1>9. u \div B = q
  <2> DEFINE p == u \div B
             t == u % B
  <2>1. u = B * p + t /\ t \in 0 .. B - 1 /\ p \in Int BY <1>1, <1>7
  <2> HIDE DEF p, t
  <2>2. B * (p - q) = s - t BY <1>1, <1>2, <1>8, <2>1
  <2>3. CASE p > q
    <3>1. B * (p - q) >= B BY <1>1, <1>2, <2>1, <2>3
    <3> QED BY <1>1, <1>8, <2>1, <2>2, <3>1
  <2>4. CASE p < q
    <3>1. B * (p - q) <= 0 - B BY <1>1, <1>2, <2>1, <2>4
    <3> QED BY <1>1, <1>8, <2>1, <2>2, <3>1
  <2>5. CASE p = q BY <2>5 DEF p
  <2> QED BY <1>2, <2>1, <2>3, <2>4, <2>5
<1> QED BY <1>9 DEF Block, B, q

(* An aligned store that touches an aligned reserved word, or its block,    *)
(* begins in the block.                                                     *)
LEMMA TouchesInside ==
    ASSUME ReserveOK, NEW at \in Int, NEW n \in {1, 2, 4}, Touches(at, n),
           at % n = 0, reserve.at % 2 = 0
    PROVE  Block(at) = Block(reserve.at)
<1>1. PICK u \in Span(at, n) : Block(u) = Block(reserve.at) \/ u \in Span(reserve.at, 2)
      BY DEF Touches
<1>2. Block(u) = Block(at) BY OneBlock
<1>3. reserve.at \in Int BY MemoryAssumption DEF ReserveOK, Units
<1>4. u \in Span(reserve.at, 2) => Block(u) = Block(reserve.at) BY <1>3, OneBlock
<1> QED BY <1>1, <1>2, <1>4

(* Whatever stores an instruction makes, and however: if the reservation is *)
(* left standing, each of them went through one of the two gaps.            *)
LEMMA StoresKeep ==
    ASSUME MemoryInv, NEW path, NEW alias, NEW starts \in SUBSET Int, NEW n \in {1, 2, 4},
           Stores(path, alias, starts, n)
    PROVE  MemoryInv'
<1> DEFINE kept == reserve.valid /\ \A at \in starts : StoreKeeps(path, alias, at, n)
<1>1. reserve' = [reserve EXCEPT !.valid = kept]
  <2>1. reserve' = [reserve EXCEPT !.valid =
                       @ /\ \A at \in starts : StoreKeeps(path, alias, at, n)]
        BY DEF Stores
  <2> QED BY <2>1, Zenon
<1>2. kept \in BOOLEAN OBVIOUS
<1>3. kept => reserve.valid /\ \A at \in starts : StoreKeeps(path, alias, at, n)
      OBVIOUS
<1> HIDE DEF kept
<1>4. ReserveOK' /\ reserve'.valid = kept /\ reserve'.at = reserve.at
      BY <1>1, <1>2, WithValid DEF MemoryInv
<1> DEFINE Gap(s) == (s.inline /\ s.mirror)
                        \/ (~s.inside /\ (~s.aligned \/ reserve.at % 2 # 0))
<1> SUFFICES ASSUME kept, NEW s \in stored' PROVE Gap(s)
    BY <1>4 DEF MemoryInv, ReservationExclusive
<1>5. CASE s \in stored BY <1>3, <1>5 DEF MemoryInv, ReservationExclusive
<1>6. CASE s \notin stored
  <2>1. PICK at \in starts : Touches(at, n) /\ s = Kind(path, alias, at, n)
        BY <1>4, <1>6 DEF Stores
  <2>2. Resolved(at, n) /\ StoreKeeps(path, alias, at, n) BY <1>3, <2>1 DEF Touches
  <2>3. /\ s.inline <=> path = "inline"
        /\ s.mirror <=> alias # reserve.alias
        /\ s.inside <=> Block(at) = Block(reserve.at)
        /\ s.aligned <=> at % n = 0
        BY <2>1 DEF Kind
  <2>4. CASE Block(at) = Block(reserve.at)
    <3>1. path = "inline" /\ alias # reserve.alias
          BY <2>2, <2>4 DEF StoreKeeps, Clears, ClearsInline
    <3> QED BY <2>3, <3>1
  <2>5. CASE Block(at) # Block(reserve.at)
    <3>1. at % n # 0 \/ reserve.at % 2 # 0 BY <2>1, <2>5, TouchesInside DEF MemoryInv
    <3> QED BY <2>3, <2>5, <3>1
  <2> QED BY <2>4, <2>5
<1> QED BY <1>5, <1>6

LEMMA NoStoreKeeps == MemoryInv /\ NoStore => MemoryInv'
BY DEF MemoryInv, ReserveOK, ReservationExclusive, NoStore

LEMMA GivenUpKeeps ==
    ASSUME MemoryInv, reserve' = [reserve EXCEPT !.valid = FALSE] PROVE MemoryInv'
<1>1. ReserveOK' /\ reserve'.valid = FALSE BY WithValid DEF MemoryInv
<1> QED BY <1>1 DEF MemoryInv, ReservationExclusive

LEMMA BlockStartsAre == \A at : BlockStarts(at) \in SUBSET Int
BY DEF BlockStarts

LEMMA MemoryNextKeeps == MemoryInv /\ [MemNext]_memVars => MemoryInv'
<1> SUFFICES ASSUME MemoryInv, [MemNext]_memVars PROVE MemoryInv'
    OBVIOUS
<1>1. ASSUME NEW alias \in Aliases, NEW at \in Units,
             NEW path \in {"helper", "inline"}, NEW n \in {1, 2, 4}, Store(path, alias, at, n)
      PROVE  MemoryInv'
      BY <1>1, StoresKeep DEF Store, Units
<1>2. ASSUME NEW alias \in Aliases, NEW at \in Units, Lwarx(alias, at)
      PROVE  MemoryInv'
      BY <1>2 DEF Lwarx, MemoryInv, ReserveOK, ReservationExclusive
<1>3. ASSUME NEW alias \in Aliases, NEW at \in Units,
             StwcxHelper(alias, at) \/ StwcxInC(alias, at)
      PROVE  MemoryInv'
  <2>1. NoStore \/ reserve' = [reserve EXCEPT !.valid = FALSE]
        BY <1>3, Zenon DEF StwcxHelper, StwcxInC
  <2> QED BY <2>1, NoStoreKeeps, GivenUpKeeps
<1>4. ASSUME NEW alias \in Aliases, NEW at \in Units, Dcbz(alias, at)
      PROVE  MemoryInv'
      BY <1>4, BlockStartsAre, StoresKeep DEF Dcbz
<1>5. ASSUME NEW alias \in Aliases, NEW at \in Units, DcbzL(alias, at)
      PROVE  MemoryInv'
  <2>1. NoStore \/ Stores("helper", alias, BlockStarts(at), 2) BY <1>5, Zenon DEF DcbzL
  <2> QED BY <2>1, BlockStartsAre, NoStoreKeeps, StoresKeep
<1>6. ASSUME NEW alias \in Aliases, NEW at \in Units, NEW float \in BOOLEAN,
             NEW known \in BOOLEAN, NEW single \in BOOLEAN,
             PsqStore(alias, at, float, known, single)
      PROVE  MemoryInv'
  <2>1. \/ NoStore
        \/ Stores("helper", alias, {at}, PsqUnits(float))
        \/ Stores("helper", alias, {at, at + PsqUnits(float)}, PsqUnits(float))
        BY <1>6, Zenon DEF PsqStore
  <2>2. /\ PsqUnits(float) \in {1, 2, 4}
        /\ {at} \subseteq Int /\ {at, at + PsqUnits(float)} \subseteq Int
        BY DEF PsqUnits, Units
  <2> QED BY <2>1, <2>2, NoStoreKeeps, StoresKeep
<1>7. ASSUME NEW m \in Modes, SetMode(m) PROVE MemoryInv'
      BY <1>7, NoStoreKeeps DEF SetMode
<1>8. CASE CpuReset BY <1>8 DEF CpuReset, MemoryInv, ReserveOK, ReservationExclusive, Aliases
<1>9. CASE UNCHANGED memVars BY <1>9 DEF memVars, MemoryInv, ReserveOK, ReservationExclusive
<1> QED BY <1>1, <1>2, <1>3, <1>4, <1>5, <1>6, <1>7, <1>8, <1>9 DEF MemNext

(* No reservation outlives a store to its word or block, whatever the sizes *)
(* of memory and blocks, except through the two gaps of the code: an inline *)
(* store through the other alias (clearReservation), and an access that is  *)
(* not aligned and crosses a block boundary (clear_matching_reservation).   *)
THEOREM ReservationsAreExclusive == MemSpec => []ReservationExclusive
<1>1. MemInit => MemoryInv BY DEF MemInit, MemoryInv, ReserveOK, ReservationExclusive, Aliases
<1>2. MemoryInv => ReservationExclusive BY DEF MemoryInv
<1> QED BY <1>1, <1>2, MemoryNextKeeps, PTL DEF MemSpec

-----------------------------------------------------------------------------

(* The second half of a pair has the alignment of the first.                *)
LEMMA HalvesAlike ==
    ASSUME NEW float \in BOOLEAN, NEW at \in Int
    PROVE  PsqValid(float, at) <=> PsqValid(float, at + PsqUnits(float))
<1>1. CASE float
  <2>1. (at + 2) % 2 = at % 2 OBVIOUS
  <2> QED BY <1>1, <2>1 DEF PsqValid, PsqUnits
<1>2. CASE ~float BY <1>2 DEF PsqValid
<1> QED BY <1>1, <1>2

FaultStep == fault' \notin {"none", "machine"} => ~wrote' /\ UNCHANGED << reserve, locked >>

LEMMA FaultsStepwise == [MemNext]_memVars => [FaultStep]_memVars
<1> SUFFICES ASSUME MemNext PROVE FaultStep
    OBVIOUS
<1>1. ASSUME Quiet \/ (NoStore /\ UNCHANGED locked) \/ fault' = "machine" PROVE FaultStep
      BY <1>1 DEF Quiet, NoStore, FaultStep
<1>2. ASSUME NEW alias \in Aliases, NEW at \in Units,
             \/ \E path \in {"helper", "inline"}, n \in {1, 2, 4} : Store(path, alias, at, n)
             \/ Lwarx(alias, at)
             \/ StwcxHelper(alias, at)
             \/ StwcxInC(alias, at)
             \/ Dcbz(alias, at)
      PROVE  FaultStep
  <2>1. Quiet \/ (NoStore /\ UNCHANGED locked)
        BY <1>2, Zenon DEF Store, Lwarx, StwcxHelper, StwcxInC, Dcbz
  <2> QED BY <1>1, <2>1
<1>3. ASSUME NEW alias \in Aliases, NEW at \in Units, DcbzL(alias, at)
      PROVE  FaultStep
  <2>1. (NoStore /\ UNCHANGED locked) \/ fault' = "machine" \/ fault' = "none"
        BY <1>3 DEF DcbzL
  <2> QED BY <1>1, <2>1 DEF Quiet
<1>4. ASSUME NEW alias \in Aliases, NEW at \in Units, NEW float \in BOOLEAN,
             NEW known \in BOOLEAN, NEW single \in BOOLEAN,
             PsqStore(alias, at, float, known, single)
      PROVE  FaultStep
  <2>1. at \in Int BY DEF Units
  <2>2. PsqValid(float, at) => PsqValid(float, at + PsqUnits(float)) BY <2>1, HalvesAlike
  <2>3. Quiet \/ (NoStore /\ UNCHANGED locked) BY <1>4, <2>2 DEF PsqStore
  <2> QED BY <1>1, <2>3
<1>5. ASSUME (\E m \in Modes : SetMode(m)) \/ CpuReset PROVE FaultStep
      BY <1>1, <1>5 DEF SetMode, CpuReset
<1> QED BY <1>2, <1>3, <1>4, <1>5 DEF MemNext

(* A fault leaves memory, the reservation and the locked cache as they      *)
(* were, the check of a pair's second half after the first was stored       *)
(* (ppc_psq_store) included; only the machine check of a second dcbz_l of a *)
(* block comes with the block's zeroing (ppc_dcbz_l).                       *)
THEOREM FaultsWriteNothing == MemSpec => FaultsKeepMemory
<1> QED BY FaultsStepwise, PTL DEF MemSpec, FaultsKeepMemory, FaultStep

-----------------------------------------------------------------------------
(* GuestExceptions                                                         *)

Addresses == [page : {"code"} \cup Kinds, high : BOOLEAN, at : 0 .. Space - 1]
Instructions == { a \in Addresses : a.at % 2 = 0 }

(* pc is always at an instruction, SRR0 need not be; until one of the two   *)
(* is written, SRR0 and SRR1 are what the last exception saved.             *)
PcAtInstruction == pc \in Instructions
Srr0IsAddress == srr0 \in Addresses
InterruptedIsRecord ==
    interrupted = [known |-> interrupted.known, pc |-> interrupted.pc, msr |-> interrupted.msr]
SavedIsInterrupted ==
    interrupted.known => /\ srr0 = interrupted.pc
                         /\ interrupted.pc \in Instructions
                         /\ srr1 \cap RfiMask = interrupted.msr \cap RfiMask
ExceptionInv == PcAtInstruction /\ Srr0IsAddress /\ InterruptedIsRecord /\ SavedIsInterrupted

-----------------------------------------------------------------------------
(* Addresses                                                               *)

(* The modulus is applied at most once past the end of a page.              *)
LEMMA OffsetWraps ==
    ASSUME NEW n \in Nat \ {0}, NEW x \in 0 .. n
    PROVE  x % n = IF x = n THEN 0 ELSE x
<1>1. CASE x = n
  <2>1. n % n = 0 BY Z3
  <2> QED BY <1>1, <2>1
<1>2. CASE x # n
  <2>1. x \in 0 .. n - 1 BY <1>2
  <2>2. x % n = x BY <2>1, Z3
  <2> QED BY <1>2, <2>2
<1> QED BY <1>1, <1>2

(* Code is at addresses, and at instructions for an even offset.            *)
LEMMA CodeAddresses ==
    ASSUME Space \in Nat \ {0}, Space % 2 = 0
    PROVE  /\ Code(0) \in Instructions /\ Code(2) \in Instructions
           /\ Code(0) \in Addresses /\ Code(1) \in Addresses
<1>1. 0 \in 0 .. Space /\ 1 \in 0 .. Space /\ 2 \in 0 .. Space OBVIOUS
<1>2. \A x \in 0 .. Space : x % Space = IF x = Space THEN 0 ELSE x BY OffsetWraps
<1>3. \A x \in 0 .. Space : x % Space \in 0 .. Space - 1 BY <1>2
<1>4. \A x \in 0 .. Space : Code(x) \in Addresses
      BY <1>3 DEF Code, Addresses
<1>5. (0 % Space) % 2 = 0 /\ (2 % Space) % 2 = 0 BY <1>1, <1>2
<1>6. Code(0).at = 0 % Space /\ Code(2).at = 2 % Space BY DEF Code
<1> QED BY <1>1, <1>4, <1>5, <1>6 DEF Instructions

(* The instruction after an instruction.                                    *)
LEMMA AfterInstruction ==
    ASSUME Space \in Nat \ {0}, Space % 2 = 0, NEW a \in Instructions
    PROVE  After(a) \in Instructions
<1>1. a \in Addresses /\ a.at \in 0 .. Space - 1 /\ a.at % 2 = 0
      BY DEF Instructions, Addresses
<1> DEFINE next == (a.at + 2) % Space
<1>2. a.at + 2 \in 0 .. Space BY <1>1
<1>3. next = IF a.at + 2 = Space THEN 0 ELSE a.at + 2 BY <1>2, OffsetWraps
<1>4. next \in 0 .. Space - 1 /\ next % 2 = 0 BY <1>1, <1>2, <1>3
<1> HIDE DEF next
<1>5. [a EXCEPT !.at = next] \in Addresses /\ [a EXCEPT !.at = next].at = next
      BY <1>1, <1>4 DEF Addresses
<1>6. After(a) = [a EXCEPT !.at = next] BY DEF After, next
<1> QED BY <1>4, <1>5, <1>6 DEF Instructions

(* Dropping the low bit of an address gives an instruction, and an          *)
(* instruction is left as it is.                                            *)
LEMMA LowBitDropped ==
    ASSUME Space \in Nat \ {0}, NEW a \in Addresses
    PROVE  /\ [a EXCEPT !.at = @ - (@ % 2)] \in Instructions
           /\ a \in Instructions => [a EXCEPT !.at = @ - (@ % 2)] = a
<1> DEFINE low == a.at - (a.at % 2)
<1>1. a.at \in 0 .. Space - 1 BY DEF Addresses
<1>2. low \in 0 .. Space - 1 /\ low % 2 = 0 BY <1>1
<1>3. a.at % 2 = 0 => low = a.at BY <1>1
<1> HIDE DEF low
<1>4. [a EXCEPT !.at = low] \in Addresses /\ [a EXCEPT !.at = low].at = low
      BY <1>2 DEF Addresses
<1>5. low = a.at => [a EXCEPT !.at = low] = a BY DEF Addresses
<1>6. [a EXCEPT !.at = @ - (@ % 2)] = [a EXCEPT !.at = low] BY DEF low
<1> QED BY <1>2, <1>3, <1>4, <1>5, <1>6 DEF Instructions

-----------------------------------------------------------------------------
(* Steps                                                                   *)

(* A step keeps the invariant and, if it is a return, what is claimed of it.*)
GoodStep == ExceptionInv' /\ Returning

LEMMA TakeIsGood ==
    ASSUME Space \in Nat \ {0}, Space % 2 = 0, ExceptionInv,
           NEW kind \in Kinds, NEW resume \in Instructions, Take(kind, resume)
    PROVE  GoodStep
<1>1. srr0' = resume /\ srr1' = msr \cap RfiMask /\ pc' = Vector(kind, msr')
      /\ interrupted' = [known |-> TRUE, pc |-> resume, msr |-> msr]
      /\ last' = "exception"
      BY DEF Take, SavedMsr
<1>2. 0 \in 0 .. Space - 1 /\ 0 % 2 = 0 OBVIOUS
<1>3. Vector(kind, msr') \in Instructions BY <1>2 DEF Vector, Instructions, Addresses
<1>4. resume \in Addresses BY DEF Instructions
<1>5. InterruptedIsRecord' BY <1>1 DEF InterruptedIsRecord
<1>6. SavedIsInterrupted' BY <1>1 DEF SavedIsInterrupted
<1>7. Returning BY <1>1 DEF Returning
<1> QED BY <1>1, <1>3, <1>4, <1>5, <1>6, <1>7
       DEF GoodStep, ExceptionInv, PcAtInstruction, Srr0IsAddress

(* A step to another instruction that leaves what was saved alone.          *)
LEMMA AloneIsGood ==
    ASSUME ExceptionInv, pc' \in Instructions, last' # "return",
           UNCHANGED << srr0, srr1, interrupted >>
    PROVE  GoodStep
BY DEF GoodStep, ExceptionInv, PcAtInstruction, Srr0IsAddress, InterruptedIsRecord,
       SavedIsInterrupted, Returning

(* A step after which nothing is claimed of what was interrupted.           *)
LEMMA ForgottenIsGood ==
    ASSUME ExceptionInv, pc' \in Instructions, srr0' \in Addresses, Returning,
           interrupted' = [interrupted EXCEPT !.known = FALSE]
    PROVE  GoodStep
<1>1. interrupted' = [known |-> FALSE, pc |-> interrupted.pc, msr |-> interrupted.msr]
      BY DEF ExceptionInv, InterruptedIsRecord
<1> QED BY <1>1 DEF GoodStep, ExceptionInv, PcAtInstruction, Srr0IsAddress, InterruptedIsRecord,
       SavedIsInterrupted

LEMMA PlainIsGood ==
    ASSUME Space \in Nat \ {0}, Space % 2 = 0, ExceptionInv, Plain
    PROVE  GoodStep
<1>1. pc' = After(pc) /\ last' = "instruction" /\ UNCHANGED << srr0, srr1, interrupted >>
      BY DEF Plain, Complete, Keep
<1>2. pc \in Instructions BY DEF ExceptionInv, PcAtInstruction
<1>3. pc' \in Instructions BY <1>1, <1>2, AfterInstruction
<1> QED BY <1>1, <1>3, AloneIsGood

LEMMA RfiIsGood ==
    ASSUME Space \in Nat \ {0}, Space % 2 = 0, ExceptionInv, Rfi
    PROVE  GoodStep
<1>0. pc \in Instructions BY DEF ExceptionInv, PcAtInstruction
<1>1. CASE "PR" \in msr
  <2>1. Take("program", pc) BY <1>1 DEF Rfi
  <2> QED BY <2>1, <1>0, TakeIsGood DEF Kinds
<1>2. CASE "PR" \notin msr
  <2>1. /\ msr' = ((msr \ RfiMask) \cup (srr1 \cap RfiMask)) \ {"POW"}
        /\ pc' = [srr0 EXCEPT !.at = @ - (@ % 2)]
        /\ interrupted' = [interrupted EXCEPT !.known = FALSE]
        /\ srr0' = srr0
        BY <1>2 DEF Rfi
  <2>2. srr0 \in Addresses BY DEF ExceptionInv, Srr0IsAddress
  <2>3. pc' \in Instructions /\ (srr0 \in Instructions => pc' = srr0)
        BY <2>1, <2>2, LowBitDropped
  <2>4. "POW" \notin RfiMask BY DEF RfiMask
  <2>5. msr' \cap RfiMask = srr1 \cap RfiMask BY <2>1, <2>4
  <2>6. interrupted.known => /\ srr0 = interrupted.pc /\ srr0 \in Instructions
                             /\ srr1 \cap RfiMask = interrupted.msr \cap RfiMask
        BY DEF ExceptionInv, SavedIsInterrupted
  <2>7. Returning BY <2>3, <2>5, <2>6 DEF Returning
  <2> QED BY <2>1, <2>2, <2>3, <2>7, ForgottenIsGood
<1> QED BY <1>1, <1>2

LEMMA WriteSpecialIsGood ==
    ASSUME Space \in Nat \ {0}, Space % 2 = 0, ExceptionInv,
           NEW register \in {"srr0", "srr1", "ear", "user", "unknown"},
           NEW address \in Addresses, NEW value, WriteSpecial(register, address, value)
    PROVE  GoodStep
<1>0. pc \in Instructions /\ After(pc) \in Instructions
      BY AfterInstruction DEF ExceptionInv, PcAtInstruction
<1>1. CASE "PR" \in msr /\ register # "user"
  <2>1. Take("program", pc) BY <1>1 DEF WriteSpecial
  <2> QED BY <2>1, <1>0, TakeIsGood DEF Kinds
<1>2. CASE ~("PR" \in msr /\ register # "user")
  <2>1. CASE register = "srr0"
    <3>1. /\ srr0' = address /\ interrupted' = [interrupted EXCEPT !.known = FALSE]
          /\ Complete(After(pc))
          BY <1>2, <2>1, Zenon DEF WriteSpecial
    <3>2. pc' = After(pc) /\ last' = "instruction" BY <3>1 DEF Complete
    <3>3. Returning BY <3>2 DEF Returning
    <3> QED BY <3>1, <3>2, <3>3, <1>0, ForgottenIsGood
  <2>2. CASE register = "srr1"
    <3>1. /\ srr0' = srr0 /\ interrupted' = [interrupted EXCEPT !.known = FALSE]
          /\ Complete(After(pc))
          BY <1>2, <2>2 DEF WriteSpecial
    <3>2. pc' = After(pc) /\ last' = "instruction" BY <3>1 DEF Complete
    <3>3. Returning BY <3>2 DEF Returning
    <3>4. srr0 \in Addresses BY DEF ExceptionInv, Srr0IsAddress
    <3> QED BY <3>1, <3>2, <3>3, <3>4, <1>0, ForgottenIsGood
  <2>3. CASE register = "ear"
    <3>1. Complete(After(pc)) /\ UNCHANGED << srr0, srr1, interrupted >>
          BY <1>2, <2>3 DEF WriteSpecial
    <3>2. pc' = After(pc) /\ last' = "instruction" BY <3>1 DEF Complete
    <3> QED BY <3>1, <3>2, <1>0, AloneIsGood
  <2>4. CASE register = "unknown"
    <3>1. Take("program", pc) BY <1>2, <2>4 DEF WriteSpecial
    <3> QED BY <3>1, <1>0, TakeIsGood DEF Kinds
  <2>5. CASE register = "user"
    <3>1. Plain BY <1>2, <2>5 DEF WriteSpecial
    <3> QED BY <3>1, PlainIsGood
  <2> QED BY <2>1, <2>2, <2>3, <2>4, <2>5
<1> QED BY <1>1, <1>2

LEMMA MoveToMsrIsGood ==
    ASSUME Space \in Nat \ {0}, Space % 2 = 0, ExceptionInv, NEW value, MoveToMsr(value)
    PROVE  GoodStep
<1>1. pc' = After(pc) /\ last' = "instruction" /\ UNCHANGED << srr0, srr1, interrupted >>
      BY DEF MoveToMsr, Complete
<1>2. pc' \in Instructions BY <1>1, AfterInstruction DEF ExceptionInv, PcAtInstruction
<1> QED BY <1>1, <1>2, AloneIsGood

(* Every instruction.                                                       *)
LEMMA InstructionIsGood ==
    ASSUME Space \in Nat \ {0}, Space % 2 = 0, ExceptionInv, Instruction
    PROVE  GoodStep
<1>0. pc \in Instructions /\ After(pc) \in Instructions
      BY AfterInstruction DEF ExceptionInv, PcAtInstruction
<1>1. ASSUME NEW kind \in Kinds, Take(kind, pc) PROVE GoodStep
      BY <1>0, <1>1, TakeIsGood
<1>2. Plain => GoodStep BY PlainIsGood
<1>3. ASSUME NEW offset \in {0, 2}, Branch(offset) PROVE GoodStep
  <2>1. pc' = Code(offset) /\ last' = "instruction" /\ UNCHANGED << srr0, srr1, interrupted >>
        BY <1>3 DEF Branch, Complete, Keep
  <2>2. pc' \in Instructions BY <2>1, CodeAddresses
  <2> QED BY <2>1, <2>2, AloneIsGood
<1>4. Float => GoodStep BY <1>1, <1>2 DEF Float, Kinds
<1>5. SystemCall => GoodStep BY <1>0, TakeIsGood DEF SystemCall, Kinds
<1>6. Trap => GoodStep BY <1>1 DEF Trap, Kinds
<1>7. LockAgain => GoodStep BY <1>1, <1>2 DEF LockAgain, Kinds
<1>8. Rfi => GoodStep BY RfiIsGood
<1>9. ASSUME NEW yes \in BOOLEAN, Fallback(yes) \/ External(yes) PROVE GoodStep
  <2>1. Plain \/ Take("program", pc) \/ Take("dsi", pc) \/ Take("alignment", pc)
        BY <1>9, Zenon DEF Fallback, External
  <2> QED BY <2>1, <1>1, <1>2 DEF Kinds
<1>10. ASSUME NEW legal \in BOOLEAN, NEW aligned \in BOOLEAN, Access(legal, aligned) PROVE GoodStep
  <2>1. Plain \/ Take("program", pc) \/ Take("alignment", pc)
        BY <1>10, Zenon DEF Access
  <2> QED BY <2>1, <1>1, <1>2 DEF Kinds
<1>11. ASSUME NEW user \in BOOLEAN, NEW exists \in BOOLEAN, ReadSpecial(user, exists) PROVE GoodStep
  <2>1. Plain \/ Take("program", pc) BY <1>11, Zenon DEF ReadSpecial
  <2> QED BY <2>1, <1>1, <1>2 DEF Kinds
<1>12. ASSUME NEW offset \in {0, 1}, WriteSpecial("srr0", Code(offset), {}) PROVE GoodStep
  <2>1. Code(offset) \in Addresses BY CodeAddresses
  <2> QED BY <1>12, <2>1, WriteSpecialIsGood
<1>13. ASSUME NEW register \in {"ear", "user", "unknown"}, WriteSpecial(register, Code(0), {})
       PROVE  GoodStep
       BY <1>13, CodeAddresses, WriteSpecialIsGood
<1>14. ASSUME NEW value \in MsrValues, WriteSpecial("srr1", Code(0), value) \/ MoveToMsr(value)
       PROVE  GoodStep
       BY <1>14, CodeAddresses, WriteSpecialIsGood, MoveToMsrIsGood
<1> QED BY <1>2, <1>3, <1>4, <1>5, <1>6, <1>7, <1>8, <1>9, <1>10, <1>11, <1>12, <1>13, <1>14
       DEF Instruction

-----------------------------------------------------------------------------
(* A handler that leaves SRR0 and SRR1 alone returns to the instruction it  *)
(* interrupted, in its machine state, for a program of any even number of   *)
(* units and whatever values the guest moves to MSR.                        *)
THEOREM HandlersReturn ==
    ASSUME Space \in Nat \ {0}, Space % 2 = 0
    PROVE  ExcSpec => ReturnsToInterrupted
<1>1. ExcInit => ExceptionInv
  <2> SUFFICES ASSUME ExcInit PROVE ExceptionInv OBVIOUS
  <2>1. pc = Code(0) /\ srr0 = Code(0)
        /\ interrupted = [known |-> FALSE, pc |-> Code(0), msr |-> {}]
        BY DEF ExcInit
  <2>2. InterruptedIsRecord /\ SavedIsInterrupted
        BY <2>1 DEF InterruptedIsRecord, SavedIsInterrupted
  <2> QED BY <2>1, <2>2, CodeAddresses DEF ExceptionInv, PcAtInstruction, Srr0IsAddress
<1>2. ExceptionInv /\ ExcNext => GoodStep
  <2> SUFFICES ASSUME ExceptionInv, ExcNext PROVE GoodStep OBVIOUS
  <2>1. CASE exception = {} /\ Instruction BY <2>1, InstructionIsGood
  <2>2. CASE Acknowledge
    <3>1. last' = "host" /\ UNCHANGED << pc, srr0, srr1, interrupted >>
          BY <2>2 DEF Acknowledge
    <3> QED BY <3>1, AloneIsGood DEF ExceptionInv, PcAtInstruction
  <2> QED BY <2>1, <2>2 DEF ExcNext
<1>3. ExceptionInv /\ UNCHANGED excVars => ExceptionInv'
      BY DEF excVars, ExceptionInv, PcAtInstruction, Srr0IsAddress, InterruptedIsRecord,
             SavedIsInterrupted
<1>4. ExceptionInv /\ [ExcNext]_excVars => ExceptionInv' BY <1>2, <1>3 DEF GoodStep
<1>5. ExceptionInv /\ [ExcNext]_excVars => [Returning]_excVars BY <1>2 DEF GoodStep
<1> QED BY <1>1, <1>4, <1>5, PTL DEF ExcSpec, ReturnsToInterrupted

-----------------------------------------------------------------------------
(* FloatStatus                                                             *)

(* The summary bits of f sum up the others.                                 *)
Sound(f) == f \cap Summary = Summaries(f)
SameRounding(f, g) == f \cap {"RN"} = g \cap {"RN"}

(* Summing up is done once and for all: the summaries are not summed up.    *)
LEMMA UpdatedIsSound ==
    ASSUME NEW f PROVE Sound(Updated(f)) /\ SameRounding(Updated(f), f)
<1>1. Summaries(f) \subseteq Summary BY DEF Summaries, Summary, Raise
<1>2. \A b : b \notin Summary => (b \in Updated(f) <=> b \in f)
      BY <1>1 DEF Updated
<1>3. Invalid \cap Summary = {} /\ {"ZX", "ZE", "XX", "XE", "VE", "RN"} \cap Summary = {}
      BY DEF Invalid, Summary
<1>4. Updated(f) \cap Invalid = f \cap Invalid BY <1>2, <1>3
<1>5. /\ "VE" \in Updated(f) <=> "VE" \in f
      /\ {"ZX", "ZE"} \subseteq Updated(f) <=> {"ZX", "ZE"} \subseteq f
      /\ {"XX", "XE"} \subseteq Updated(f) <=> {"XX", "XE"} \subseteq f
      BY <1>2, <1>3
<1>6. Summaries(Updated(f)) = Summaries(f) BY <1>4, <1>5 DEF Summaries, Raise
<1>7. Updated(f) \cap Summary = Summaries(f) BY <1>1 DEF Updated
<1>8. SameRounding(Updated(f), f) BY <1>2, <1>3 DEF SameRounding
<1> QED BY <1>6, <1>7, <1>8 DEF Sound

LEMMA ExceptionIsSound ==
    ASSUME NEW f, Sound(f), NEW bits, "RN" \notin bits
    PROVE  Sound(WithException(f, bits)) /\ SameRounding(WithException(f, bits), f)
<1>1. CASE bits = {} BY <1>1 DEF WithException, SameRounding
<1>2. CASE bits # {}
  <2>1. WithException(f, bits) = Updated(f \cup bits) BY <1>2 DEF WithException
  <2>2. Sound(Updated(f \cup bits)) /\ SameRounding(Updated(f \cup bits), f \cup bits)
        BY UpdatedIsSound
  <2>3. SameRounding(f \cup bits, f) BY DEF SameRounding
  <2> QED BY <2>1, <2>2, <2>3 DEF SameRounding
<1> QED BY <1>1, <1>2

(* The bits an arithmetic instruction raises.                               *)
Raised == Invalid \cup {"ZX", "XX"}

LEMMA StatusMoves ==
    ASSUME StatusInForce, NEW bits \in SUBSET Raised, NEW g,
           g = fpscr \/ g = WithException(fpscr, bits),
           fpscr' = g, UNCHANGED << backend, rounding, cleared >>
    PROVE  StatusInForce'
<1> SUFFICES ASSUME backend = "llvm" PROVE StatusInForce'
    BY DEF StatusInForce
<1>1. Sound(fpscr) BY DEF StatusInForce, Sound
<1>2. "RN" \notin bits BY DEF Raised, Invalid
<1>3. Sound(g) /\ SameRounding(g, fpscr)
      BY <1>1, <1>2, ExceptionIsSound DEF SameRounding
<1> QED BY <1>3 DEF StatusInForce, Sound, SameRounding

LEMMA DeliverKeeps ==
    ASSUME StatusInForce, NEW bits \in SUBSET Raised, Deliver(bits)
    PROVE  StatusInForce'
BY StatusMoves DEF Deliver

LEMMA SignalsAreRaised ==
    ASSUME NEW operands, NEW raises \in BOOLEAN, NEW bit \in Raised
    PROVE  Signals(operands) \subseteq Raised /\ Raise(raises, bit) \subseteq Raised
BY DEF Signals, Raise, Raised, Invalid

LEMMA ApplyKeeps == ASSUME NEW f, Apply(f) PROVE StatusInForce'
<1>1. Sound(Updated(f)) /\ SameRounding(Updated(f), f) BY UpdatedIsSound
<1> QED BY <1>1 DEF Apply, StatusInForce, Sound, SameRounding

(* Only the C emitter pokes bits.                                           *)
LEMMA InC == ASSUME backend = "c", backend' = backend PROVE StatusInForce'
BY DEF StatusInForce

LEMMA MoveKeeps == ASSUME NEW f, Move(f) PROVE StatusInForce'
BY ApplyKeeps, InC DEF Move

LEMMA ArithmeticKeeps ==
    ASSUME StatusInForce, NEW x \in Operands, NEW y \in Operands,
           NEW operands \in SUBSET Operands,
           NEW root \in BOOLEAN, NEW invalid \in BOOLEAN, NEW divides \in BOOLEAN,
           NEW inexact \in BOOLEAN, NEW overflow \in BOOLEAN, NEW ordered \in BOOLEAN,
           \/ Estimate(root, x)
           \/ PairEstimate(root, operands)
           \/ MultiplyAdd(operands, invalid)
           \/ Binary(x, y, invalid, divides, inexact)
           \/ Convert(x, overflow, inexact)
           \/ Compare(x, y, ordered)
    PROVE  StatusInForce'
<1> USE DEF Raised, Invalid
<1>1. CASE Estimate(root, x) BY <1>1, DeliverKeeps DEF Estimate, Raise, Signals
<1>2. CASE PairEstimate(root, operands)
      BY <1>2, StatusMoves DEF PairEstimate, Raise, Signals
<1>3. CASE MultiplyAdd(operands, invalid)
      BY <1>3, DeliverKeeps DEF MultiplyAdd, Raise, Signals
<1>4. CASE Binary(x, y, invalid, divides, inexact)
      BY <1>4, DeliverKeeps DEF Binary, Raise, Signals
<1>5. CASE Convert(x, overflow, inexact)
      BY <1>5, DeliverKeeps DEF Convert, Raise, Signals
<1>6. CASE Compare(x, y, ordered)
  <2> DEFINE more == ordered /\ Nan({x, y}) /\ ("snan" \notin {x, y} \/ "VE" \notin fpscr)
             first == WithException(fpscr, Signals({x, y}))
  <2>1. fpscr' = WithException(first, Raise(more, "VXVC")) /\
        UNCHANGED << backend, rounding, cleared >>
        BY <1>6 DEF Compare
  <2>2. "RN" \notin Signals({x, y}) /\ "RN" \notin Raise(more, "VXVC")
        BY DEF Signals, Raise
  <2>3. ASSUME Sound(fpscr)
        PROVE  Sound(fpscr') /\ SameRounding(fpscr', fpscr)
    <3>1. Sound(first) /\ SameRounding(first, fpscr) BY <2>2, <2>3, ExceptionIsSound
    <3> HIDE DEF first, more
    <3>2. Sound(fpscr') /\ SameRounding(fpscr', first)
          BY <2>1, <2>2, <3>1, ExceptionIsSound
    <3> QED BY <3>1, <3>2 DEF SameRounding
  <2> QED BY <2>1, <2>3 DEF StatusInForce, Sound, SameRounding
<1> QED BY <1>1, <1>2, <1>3, <1>4, <1>5, <1>6

LEMMA StatusNextKeeps == StatusInForce /\ [FpNext]_fpVars => StatusInForce'
<1> SUFFICES ASSUME StatusInForce, [FpNext]_fpVars PROVE StatusInForce' OBVIOUS
<1>1. ASSUME NEW root \in BOOLEAN, NEW x \in Operands, Estimate(root, x)
      PROVE  StatusInForce'
      BY <1>1, ArithmeticKeeps
<1>2. ASSUME NEW root \in BOOLEAN, NEW operands \in Together(2), PairEstimate(root, operands)
      PROVE  StatusInForce'
      BY <1>2, ArithmeticKeeps DEF Together, Operands
<1>3. ASSUME NEW operands \in Together(3), NEW invalid \in BOOLEAN,
             MultiplyAdd(operands, invalid)
      PROVE  StatusInForce'
      BY <1>3, ArithmeticKeeps DEF Together, Operands
<1>4. ASSUME NEW x \in Operands, NEW y \in Operands, NEW invalid \in BOOLEAN,
             NEW divides \in BOOLEAN, NEW inexact \in BOOLEAN,
             Binary(x, y, invalid, divides, inexact)
      PROVE  StatusInForce'
      BY <1>4, ArithmeticKeeps
<1>5. ASSUME NEW x \in Operands, NEW overflow \in BOOLEAN, NEW inexact \in BOOLEAN,
             Convert(x, overflow, inexact)
      PROVE  StatusInForce'
      BY <1>5, ArithmeticKeeps
<1>6. ASSUME NEW x \in Operands, NEW y \in Operands, NEW ordered \in BOOLEAN,
             Compare(x, y, ordered)
      PROVE  StatusInForce'
      BY <1>6, ArithmeticKeeps
<1>7. CASE Paired BY <1>7 DEF Paired, StatusInForce
<1>8. CASE FpReset BY <1>8 DEF FpReset, StatusInForce, Summaries, Raise, Summary, Invalid
<1>9. ASSUME NEW bit \in Bits, ClearBit(bit) \/ SetBit(bit) PROVE StatusInForce'
  <2>1. CASE backend = "llvm"
    <3>1. \E f : Apply(f) BY <1>9, <2>1 DEF ClearBit, SetBit
    <3> QED BY <3>1, ApplyKeeps
  <2>2. CASE backend = "c" BY <1>9, <2>2, InC DEF ClearBit, SetBit, Poke
  <2>3. CASE backend \notin {"c", "llvm"}
        BY <1>9, <2>3, ApplyKeeps DEF ClearBit, SetBit, Poke, StatusInForce
  <2> QED BY <2>1, <2>2, <2>3
<1>10. ASSUME NEW field \in Fields, CopyField(field) PROVE StatusInForce'
       BY <1>10, MoveKeeps DEF CopyField
<1>11. ASSUME NEW field \in Fields, NEW source \in SUBSET field, MoveField(field, source)
       PROVE  StatusInForce'
       BY <1>11, MoveKeeps DEF MoveField
<1>12. CASE UNCHANGED fpVars BY <1>12 DEF fpVars, StatusInForce, Summaries
<1> QED BY <1>1, <1>2, <1>3, <1>4, <1>5, <1>6, <1>7, <1>8, <1>9, <1>10, <1>11, <1>12
        DEF FpNext

(* The summaries and the host's rounding follow FPSCR through every helper  *)
(* and move of the LLVM backend (ppc_fpscr_control_updated,                 *)
(* set_fp_exception), for every sequence of them.                           *)
THEOREM StatusStaysInForce == FpSpec => []StatusInForce
<1>1. FpInit => StatusInForce
      BY DEF FpInit, StatusInForce, Summaries, Raise, Summary, Invalid
<1> QED BY <1>1, StatusNextKeeps, PTL DEF FpSpec
================================================================================
