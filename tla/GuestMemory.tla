------------------------------ MODULE GuestMemory ------------------------------
(***************************************************************************)
(* The guest's memory as translated code sees it: the two mapped regions,  *)
(* each reached through a cached and an uncached alias, the reservation of *)
(* lwarx and stwcx., the write journal, the cache block operations and the *)
(* quantised pair accesses (src/src/cpu/cpu.c), with the store the LLVM    *)
(* backend emits inline (src/src/backend/llvm/memory_store.cpp).           *)
(*                                                                         *)
(* An address is an alias and an offset in units of two bytes; a word is   *)
(* two units and a cache block BlockUnits.  Main RAM is the offsets below  *)
(* RamUnits, MEM2 the ones from there below Mapped.  Values are left out, *)
(* and so is the journal call that goes with each store to main RAM.          *)
(***************************************************************************)
EXTENDS Integers, FiniteSets

CONSTANTS
    RamUnits,    \* units of main RAM
    Mapped,      \* units of main RAM and MEM2 together
    BlockUnits,  \* units of one cache block
    Slots,       \* slots of the locked cache
    Modes        \* modes the guest and the host set

\* A block holds whole doublewords
ASSUME MemoryAssumption == BlockUnits \in Nat \ {0} /\ BlockUnits % 4 = 0 /\ Mapped \in Nat

VARIABLES
    reserve,    \* [valid, alias, at]: reserve_valid and reserve_addr
    stored,     \* what the stores to the reserved word or its block were that the
                \* reservation outlived (history)
    wrote,      \* the last instruction stored to mapped memory (history)
    fault,      \* exception the last instruction raised, "none" without one
    mode,       \* the privilege and cache-lock bits the helpers read
    locked      \* locked cache: slot -> block held there, or NoBlock

memVars == << reserve, stored, wrote, fault, mode, locked >>

Aliases == {"cached", "uncached"}
Units == 0 .. Mapped           \* the last one stands for every unmapped offset
NoBlock == -1
Block(u) == u \div BlockUnits
Region(u) == IF u < RamUnits THEN "ram" ELSE IF u < Mapped THEN "mem2" ELSE "none"
Span(at, n) == at .. at + n - 1

\* resolve_addr and its callers' test of avail: the whole access lies in one region
Resolved(at, n) ==
    /\ Region(at) # "none"
    /\ Region(at + n - 1) = Region(at)

\* clear_matching_reservation: the block of the store's first byte, either alias
\* (Mutant: the alias is compared too)
ClearsExactAlias(alias, at) ==
    reserve.alias = alias /\ Block(reserve.at) = Block(at)
Clears(alias, at) == Block(reserve.at) = Block(at)

\* FunctionEmitter::clearReservation compares the addresses as they are
ClearsInline(alias, at) == reserve.alias = alias /\ Block(reserve.at) = Block(at)

\* A store of n units that reaches memory in the reserved word or its block
Touches(at, n) ==
    /\ Resolved(at, n)
    /\ \E u \in Span(at, n) : Block(u) = Block(reserve.at) \/ u \in Span(reserve.at, 2)

\* What such a store is: emitted inline or a helper's, through the other alias than
\* the lwarx, begun in the reserved block, aligned to its size
Kind(path, alias, at, n) ==
    [ inline |-> path = "inline", mirror |-> alias # reserve.alias,
      inside |-> Block(at) = Block(reserve.at), aligned |-> at % n = 0 ]

\* mem_write8 .. mem_write64, and emitGuestStore: an access outside goes to the host
StoreKeeps(path, alias, at, n) ==
    IF path = "inline" THEN ~ClearsInline(alias, at)
    ELSE ~(Resolved(at, n) /\ Clears(alias, at))

\* One instruction's stores of n units at each of the offsets of a set
Stores(path, alias, starts, n) ==
    /\ reserve' = [reserve EXCEPT !.valid =
                      @ /\ \A at \in starts : StoreKeeps(path, alias, at, n)]
    /\ stored' = IF reserve'.valid
                 THEN stored \cup
                        { Kind(path, alias, at, n) : at \in { a \in starts : Touches(a, n) } }
                 ELSE {}
    /\ wrote' = \E at \in starts : Resolved(at, n)

NoStore == wrote' = FALSE /\ UNCHANGED << reserve, stored >>
Fails(kind) == fault' = kind
Quiet == fault' = "none"

\* A guest store of one to eight bytes, from a helper or emitted inline
Store(path, alias, at, n) ==
    /\ Stores(path, alias, {at}, n)
    /\ Quiet /\ UNCHANGED << mode, locked >>

\* LWARX: read32, then the address is reserved whatever memory it is in
Lwarx(alias, at) ==
    /\ reserve' = [valid |-> TRUE, alias |-> alias, at |-> at]
    /\ stored' = {}
    /\ wrote' = FALSE
    /\ Quiet /\ UNCHANGED << mode, locked >>

StwcxSucceeds(alias, at) == reserve.valid /\ reserve.alias = alias /\ reserve.at = at

\* ppc_stwcx_op: a failure keeps the reservation, a success gives it up
StwcxHelper(alias, at) ==
    IF at % 2 # 0
    THEN /\ NoStore /\ Fails("alignment") /\ UNCHANGED << mode, locked >>
    ELSE /\ Quiet /\ UNCHANGED << mode, locked >>
         /\ IF StwcxSucceeds(alias, at)
            THEN /\ wrote' = Resolved(at, 2)
                 /\ reserve' = [reserve EXCEPT !.valid = FALSE]
                 /\ stored' = {}
            ELSE NoStore

\* The C emitter's STWCX has no alignment test
StwcxInC(alias, at) ==
    /\ Quiet /\ UNCHANGED << mode, locked >>
    /\ IF StwcxSucceeds(alias, at)
       THEN /\ wrote' = Resolved(at, 2)
            /\ reserve' = [reserve EXCEPT !.valid = FALSE]
            /\ stored' = {}
       ELSE NoStore

BlockStarts(at) == { u \in (Block(at) * BlockUnits) .. (Block(at) * BlockUnits + BlockUnits - 1) :
                        u % 2 = 0 }

\* emit_dcbz: the block of the address, one word store after another
Dcbz(alias, at) ==
    /\ Stores("helper", alias, BlockStarts(at), 2)
    /\ Quiet /\ UNCHANGED << mode, locked >>

\* ppc_dcbz_l: refused in user mode or without the locked cache; a second lock of
\* a block raises a machine check when enabled, and the block is zeroed all the same
DcbzL(alias, at) ==
    LET slot == Block(at) % Slots
        hit == locked[slot] = Block(at)
        firstError == hit /\ ~mode.hitError
    IN IF ~mode.supervisor \/ ~mode.lockEnabled
       THEN /\ NoStore /\ Fails("program") /\ UNCHANGED << mode, locked >>
       ELSE /\ Stores("helper", alias, BlockStarts(at), 2)
            /\ mode' = [mode EXCEPT !.hitError = @ \/ hit]
            /\ fault' = IF firstError /\ mode.checkEnabled THEN "machine" ELSE "none"
            /\ locked' = [locked EXCEPT ![slot] = Block(at)]

\* psq_access_is_valid: single floats must be word-aligned
\* (Mutant: doubleword-aligned)
PsqValidDouble(float, at) == ~float \/ at % 4 = 0
PsqValid(float, at) == ~float \/ at % 2 = 0
PsqUnits(float) == IF float THEN 2 ELSE 1

\* ppc_psq_store: the first half is stored before the second one is checked
PsqStore(alias, at, float, known, single) ==
    LET n == PsqUnits(float)
        second == at + n
    IN /\ UNCHANGED << mode, locked >>
       /\ IF ~mode.pairs \/ ~known
          THEN NoStore /\ Fails("program")
          ELSE IF ~PsqValid(float, at)
          THEN NoStore /\ Fails("alignment")
          ELSE IF single
          THEN Stores("helper", alias, {at}, n) /\ Quiet
          ELSE IF ~PsqValid(float, second)
          THEN Stores("helper", alias, {at}, n) /\ Fails("alignment")
          ELSE Stores("helper", alias, {at, second}, n) /\ Quiet

\* MTMSR and MTSPR of the bits above, by the guest or the host
SetMode(m) ==
    /\ mode' = m
    /\ NoStore /\ Quiet /\ UNCHANGED locked

\* cpu_reset keeps the memory, the callbacks and nothing else
CpuReset ==
    /\ reserve' = [valid |-> FALSE, alias |-> "uncached", at |-> Mapped]
    /\ stored' = {} /\ wrote' = FALSE
    /\ mode' = [supervisor |-> TRUE, lockEnabled |-> FALSE, hitError |-> FALSE,
                checkEnabled |-> FALSE, pairs |-> FALSE]
    /\ locked' = [s \in 0 .. Slots - 1 |-> NoBlock]
    /\ Quiet

MemInit ==
    /\ reserve = [valid |-> FALSE, alias |-> "uncached", at |-> Mapped]
    /\ stored = {} /\ wrote = FALSE /\ fault = "none"
    /\ mode = [supervisor |-> TRUE, lockEnabled |-> FALSE, hitError |-> FALSE,
               checkEnabled |-> FALSE, pairs |-> FALSE]
    /\ locked = [s \in 0 .. Slots - 1 |-> NoBlock]

MemNext ==
    \/ \E alias \in Aliases, at \in Units :
        \/ \E path \in {"helper", "inline"}, n \in {1, 2, 4} : Store(path, alias, at, n)
        \/ Lwarx(alias, at)
        \/ StwcxHelper(alias, at)
        \/ StwcxInC(alias, at)
        \/ Dcbz(alias, at)
        \/ DcbzL(alias, at)
        \/ \E float, single \in BOOLEAN : PsqStore(alias, at, float, TRUE, single)
        \/ PsqStore(alias, at, FALSE, FALSE, FALSE)
    \/ \E m \in Modes : SetMode(m)
    \/ CpuReset

MemSpec == MemInit /\ [][MemNext]_memVars

-----------------------------------------------------------------------------
(* A reservation that stands has outlived no store to its word or block,    *)
(* through either alias, whichever helper or inline code made it.  The code *)
(* leaves two gaps, and these are all of them: an inline LLVM store through *)
(* the other alias (clearReservation compares the addresses with the alias  *)
(* bit in them), and an access across a block boundary, where only the      *)
(* blocks of the first bytes are compared: an unaligned store into the      *)
(* block from below, or a store behind the block an unaligned lwarx began   *)
(* in.                                                                      *)
ReservationExclusive ==
    reserve.valid =>
        \A s \in stored : (s.inline /\ s.mirror)
                          \/ (~s.inside /\ (~s.aligned \/ reserve.at % 2 # 0))

(* An instruction that faults has stored nothing and changed neither the    *)
(* reservation nor the locked cache.  A quantised pair store checks its     *)
(* second half after storing the first, so its faults must all be on the    *)
(* first half.  The one exception is the machine check of dcbz_l for a      *)
(* block that is locked already: the block is zeroed all the same.          *)
FaultsKeepMemory ==
    [][fault' \notin {"none", "machine"} => ~wrote' /\ UNCHANGED << reserve, locked >>]_memVars
=============================================================================
