-------------------------- MODULE AddressAnalysis --------------------------
(***************************************************************************)
(* dolir_analyze_addresses: intervals of register values along the blocks  *)
(* of a range, the domain of each guest address, and the accesses that     *)
(* provenMemoryPointer lets through without a check.                       *)
(*                                                                         *)
(* One register, and addresses of Bits bits; a block is one instruction.   *)
(* After the analysis the emitted code walks through the range.            *)
(***************************************************************************)
EXTENDS Integers

CONSTANTS
    Final,          \* the last block
    Instructions,   \* records [op, k, to] a block may hold
    RegisterBits,   \* width of a register
    Alias,          \* the address bit that selects the uncached alias
    WindowBase, WindowSize,     \* the memory window
    Fifo,           \* addresses of the FIFO
    AccessWidth,    \* width of an access
    Entered,        \* register values a range is entered with
    NativeServices, \* ModernGekko runtime and native ABI: services for the interpreter
    EntryPointSets  \* the configured entry points that may lie in a range

Position == 0 .. Final

\* 2 ^ k
Power ==
    LET power[k \in 0 .. RegisterBits] == IF k = 0 THEN 1 ELSE power[k - 1] * 2
    IN  power

Maximum == Power[RegisterBits] - 1
Value == 0 .. Maximum

\* The alias bit is clear all over the window; masks have the form 2 ^ n - 1, and
\* shifts are shorter than the register.
ASSUME AddressAssumption ==
    /\ Final \in Nat /\ RegisterBits \in Nat /\ Alias \in Nat \ {0}
    /\ WindowBase \in Nat /\ WindowSize \in Nat /\ AccessWidth \in Nat
    /\ \A address \in WindowBase .. WindowBase + WindowSize - 1 : (address \div Alias) % 2 = 0
    /\ Entered \subseteq Value
    /\ \A i \in Instructions :
         /\ i.k \in Value
         /\ i.op \in {"branch", "cond"} => i.to \in Position
         /\ i.op \in {"lshr", "shl"} => i.k < RegisterBits
         /\ i.op = "and" => \E n \in 0 .. RegisterBits : i.k = Power[n] - 1

VARIABLES
    code,       \* the instruction of each block
    knows,      \* what the analysis knows of the register before each block
    analysed,   \* the analysis is done
    pos,        \* the block about to execute; -1 outside
    reg,        \* the register
    entryPoints,    \* the configured entry points in the range
    resumed     \* entered at a block that is no leader for the analysis (history)

aaVars == <<code, knows, analysed, pos, reg, entryPoints, resumed>>

(***************************************************************************)
(* Abstract values: an interval, or Unknown                                *)
(***************************************************************************)

Unknown == [lower |-> 0, upper |-> 0, bounded |-> FALSE]

RangeValue(lower, upper) ==
    IF lower > upper \/ upper > Maximum THEN Unknown
    ELSE [lower |-> lower, upper |-> upper, bounded |-> TRUE]

Known(bits) == RangeValue(bits % (Maximum + 1), bits % (Maximum + 1))
Exact(v) == v.bounded /\ v.lower = v.upper

\* The masks used here have the form 2^n - 1
Masked(x, mask) == x % (mask + 1)

\* What the instruction does to the values
Compute(op, x, y) ==
    CASE op = "add" -> (x + y) % (Maximum + 1)
      [] op = "sub" -> (x - y) % (Maximum + 1)
      [] op = "and" -> Masked(x, y)
      [] op = "lshr" -> x \div Power[y]
      [] op = "shl" -> (x * Power[y]) % (Maximum + 1)

\* The second operand of "and" is exact in this model
BinaryValue(op, left, right) ==
    IF Exact(left) /\ Exact(right) THEN Known(Compute(op, left.lower, right.lower))
    ELSE IF op = "and" /\ Exact(right) THEN RangeValue(0, right.lower)
    ELSE IF ~(left.bounded /\ right.bounded) THEN Unknown
    ELSE CASE op = "add" /\ left.upper <= Maximum - right.upper ->
                  RangeValue(left.lower + right.lower, left.upper + right.upper)
           [] op = "sub" /\ left.lower >= right.upper ->
                  RangeValue(left.lower - right.upper, left.upper - right.lower)
           [] op = "lshr" /\ Exact(right) /\ right.lower < RegisterBits ->
                  RangeValue(left.lower \div Power[right.lower],
                             left.upper \div Power[right.lower])
           [] op = "shl" /\ Exact(right) /\ right.lower < RegisterBits
                  /\ left.upper <= Maximum \div Power[right.lower] ->
                  RangeValue(left.lower * Power[right.lower], left.upper * Power[right.lower])
           [] OTHER -> Unknown

\* SELECT with an unknown condition
SelectValue(yes, no) ==
    IF yes.bounded /\ no.bounded
    THEN RangeValue(IF yes.lower < no.lower THEN yes.lower ELSE no.lower,
                    IF yes.upper > no.upper THEN yes.upper ELSE no.upper)
    ELSE Unknown

(***************************************************************************)
(* Domains                                                                 *)
(***************************************************************************)

\* Without the alias bit
Normalized(address) == address - ((address \div Alias) % 2) * Alias
InWindow(address, alias) == address - (WindowBase + alias) \in 0 .. WindowSize - 1

\* classify_address, classify_range
Domain(v) ==
    IF ~v.bounded THEN "unknown"
    ELSE IF Exact(v) /\ v.lower \in Fifo THEN "fifo"
    ELSE IF \E alias \in {0, Alias} : InWindow(v.lower, alias) /\ InWindow(v.upper, alias)
    THEN "mem" ELSE "unknown"

\* nativeMemoryAccess, and provenMemoryPointer under a fixed memory layout
Proven(v) ==
    /\ Domain(v) = "mem"
    /\ AccessWidth <= WindowSize
    /\ Normalized(v.lower) >= WindowBase
    /\ Normalized(v.upper) >= Normalized(v.lower)
    /\ Normalized(v.upper) - WindowBase <= WindowSize - AccessWidth

(***************************************************************************)
(* The analysis                                                            *)
(***************************************************************************)

FallsThrough(b) == code[b].op \notin {"branch", "cond", "indirect", "fallback"}
Jumps(b) == IF code[b].op \in {"branch", "cond"} THEN {code[b].to} ELSE {}

\* find_region_leaders
Leaders ==
    {0} \cup {b \in Position : \/ code[b].op = "fallback"
                               \/ b > 0 /\ ~FallsThrough(b - 1)
                               \/ \E p \in Position : b \in Jumps(p)}

\* needsInterpreter: an exact float instruction runs as an instruction service
RunsAsService(b) == NativeServices /\ code[b].op = "interpret"

\* collectRegionLeaders: also the block behind one that writes the MSR, those of an
\* instruction service and behind it, and the configured entry points
RegionLeaders ==
    Leaders \cup {b \in Position : \/ b > 0 /\ code[b - 1].op = "msr"
                                   \/ RunsAsService(b)
                                   \/ b > 0 /\ RunsAsService(b - 1)
                                   \/ b \in entryPoints}

\* The entry switch, and the one behind a fallback, leave the fallbacks out
SwitchEntries == {b \in RegionLeaders : code[b].op # "fallback"}

Arithmetic == {"add", "sub", "and", "lshr", "shl"}

\* instruction_value, and the state defined without a STATE_WRITE
AfterOp(b, v) ==
    CASE code[b].op = "const" -> Known(code[b].k)
      [] code[b].op \in Arithmetic -> BinaryValue(code[b].op, v, Known(code[b].k))
      [] code[b].op = "double" -> BinaryValue("add", v, v)
      [] code[b].op = "select" -> SelectValue(v, Known(code[b].k))
      [] code[b].op \in {"unknown", "fallback"} -> Unknown
      [] OTHER -> v

(* Mutant: what is known is carried into leaders too.                       *)
AnalysedWithoutLeaders ==
    LET state[b \in Position] == IF b = 0 THEN Unknown ELSE AfterOp(b - 1, state[b - 1])
    IN  state

Analysed ==
    LET state[b \in Position] == IF b \in Leaders THEN Unknown ELSE AfterOp(b - 1, state[b - 1])
    IN  state

AccessAddress(b) == BinaryValue("add", knows[b], Known(code[b].k))

AddressInit ==
    /\ code \in [Position -> Instructions]
    /\ knows = [b \in Position |-> Unknown]
    /\ analysed = FALSE
    /\ pos = -1
    /\ reg = 0
    /\ entryPoints \in EntryPointSets
    /\ resumed = FALSE

Analyze ==
    /\ ~analysed
    /\ analysed' = TRUE
    /\ knows' = Analysed
    /\ UNCHANGED <<code, pos, reg, entryPoints, resumed>>

(***************************************************************************)
(* The emitted code                                                        *)
(***************************************************************************)

\* The entry switch takes every one of its cases, with any register value; so does
\* the code that resumes behind a fallback
EnterBlock(b, v) ==
    /\ analysed
    /\ pos = -1
    /\ b \in SwitchEntries
    /\ pos' = b
    /\ reg' = v
    /\ resumed' = (b \notin Leaders)
    /\ UNCHANGED <<code, knows, analysed, entryPoints>>

Results ==
    CASE code[pos].op = "const" -> {code[pos].k}
      [] code[pos].op \in Arithmetic -> {Compute(code[pos].op, reg, code[pos].k)}
      [] code[pos].op = "double" -> {Compute("add", reg, reg)}
      [] code[pos].op = "select" -> {reg, code[pos].k}
      [] code[pos].op \in {"unknown", "fallback"} -> Entered
      [] OTHER -> {reg}

\* An instruction that may leave the range: what it calls yields, or goes elsewhere
MayLeave(b) == code[b].op \in {"access", "indirect", "fallback", "interpret"}

ExecuteOp ==
    LET next == IF pos < Final THEN pos + 1 ELSE -1
        targets == Jumps(pos) \cup (IF code[pos].op = "branch" THEN {} ELSE {next})
                     \cup (IF MayLeave(pos) THEN {-1} ELSE {})
    IN  /\ pos \in Position
        /\ pos' \in targets
        /\ reg' \in Results
        /\ resumed' = (resumed /\ pos' \notin Leaders)
        /\ UNCHANGED <<code, knows, analysed, entryPoints>>

AddressNext ==
    \/ Analyze
    \/ \E b \in Position, v \in Entered : EnterBlock(b, v)
    \/ ExecuteOp

AddressSpec == AddressInit /\ [][AddressNext]_aaVars

(***************************************************************************)
(* Properties                                                              *)
(***************************************************************************)

\* An access compiled without a range check is inside the memory, and a store
\* compiled as a FIFO write goes to the FIFO.  The code has one exception: the entry
\* switch takes blocks the analysis has no leader at - behind an MSR write, an
\* instruction service and the block behind it, a configured entry point - and code
\* entered there runs, up to the next leader, with accesses compiled for what other
\* ways had left in the registers.  Where the analysis has all of the switch's
\* leaders, nothing is exempt.
AccessIsWhereProven ==
    LET address == Compute("add", reg, code[pos].k)
        exempt == resumed /\ ~(SwitchEntries \subseteq Leaders)
    IN  pos \in Position /\ code[pos].op = "access" /\ ~exempt =>
            /\ Proven(AccessAddress(pos)) =>
                   Normalized(address) - WindowBase \in 0 .. WindowSize - AccessWidth
            /\ Domain(AccessAddress(pos)) = "fifo" => address \in Fifo
=============================================================================
