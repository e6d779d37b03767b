------------------------------ MODULE CallSites ------------------------------
(***************************************************************************)
(* The analyses of one range that decide, at each call of another range,   *)
(* which registers the caller must stage (may_dirty_before) and which it   *)
(* has certainly written (defined_before), and the code they are for.      *)
(*                                                                         *)
(* Every mask is computed bit by bit, so one register is followed.  A      *)
(* block is one guest instruction.  After the analyses the emitted code    *)
(* walks through the range, entered at any block: which blocks are region  *)
(* leaders depends on more than the graph (MSR writes, instruction         *)
(* services, configured entry points).                                     *)
(***************************************************************************)
EXTENDS Integers

CONSTANTS
    LastBlock,      \* the last block of the range
    Terminators,    \* records [kind, to, linked] a block may end with
    Behind,         \* what lies behind the range: Native or Other
    CalleeDefines   \* the register is in output_state of the native callee

Blocks == 0 .. LastBlock

\* A target is a block of the range, another native range or any other address
Native == -1
Other == -2

ASSUME CallsAssumption ==
    /\ LastBlock \in Nat
    /\ \A t \in Terminators : t.to \in Blocks \cup {Native, Other} /\ t.linked \in BOOLEAN
    /\ Behind \in {Native, Other}
    /\ CalleeDefines \in BOOLEAN

VARIABLES
    term,           \* the terminator of each block
    defs,           \* the blocks that define the register
    phase,          \* "definite", "dirty": the analysis at work; "walk"
    definite,       \* blocks with the register in definiteOut
    dirty,          \* blocks with the register in dirtyOut
    start,          \* where the walk began
    at,             \* the block about to execute, or Other outside the range
    unpublished,    \* the local may be newer than every published copy
    defined,        \* the register was written since the entry
    way             \* "known" to the analyses so far; "served": past an interpreted
                    \* instruction; "strayed": into a continuation they do not see

csVars == <<term, defs, phase, definite, dirty, start, at, unpublished, defined, way>>

(***************************************************************************)
(* The graph the analyses see                                              *)
(***************************************************************************)

NextAddress(b) == IF b < LastBlock THEN b + 1 ELSE Behind

\* target_addresses, as far as targetCount reads them
Targets(b) ==
    CASE term[b].kind = "fall" -> {NextAddress(b)}
      [] term[b].kind = "branch" -> {term[b].to}
      [] term[b].kind = "cond" -> {term[b].to, NextAddress(b)}
      [] term[b].kind = "indirect" -> {NextAddress(b)}
      [] OTHER -> {}

Continuation(b) == IF term[b].linked /\ b < LastBlock THEN {b + 1} ELSE {}

Successors(b) == (Targets(b) \cap Blocks) \cup Continuation(b)
Predecessors(b) == {p \in Blocks : b \in Successors(p)}

(* Mutant: the dirty masks of the first pass, before the callees are known.  *)
NoPostCallDefs == {}

\* buildPostCallDefs
PostCallDefs == {b \in Blocks : term[b].linked /\ Native \in Targets(b) /\ CalleeDefines}

(***************************************************************************)
(* The analyses: sweeps over the blocks, in order, until nothing changes   *)
(***************************************************************************)

(* Mutant: the entry block is met with its predecessors like any other.     *)
DefiniteMeetsAll(b, out) == Predecessors(b) # {} /\ Predecessors(b) \subseteq out

DefiniteIn(b, out) == b # 0 /\ Predecessors(b) # {} /\ Predecessors(b) \subseteq out

DirtyIn(b, out) == Predecessors(b) \cap out # {}

DefiniteVisit(b, out) ==
    IF DefiniteIn(b, out) \/ b \in defs THEN out \cup {b} ELSE out \ {b}

DirtyVisit(b, out) ==
    IF DirtyIn(b, out) \/ b \in defs \cup PostCallDefs THEN out \cup {b} ELSE out \ {b}

DefiniteSweep(out) ==
    LET visited[k \in 0 .. LastBlock + 1] ==
            IF k = 0 THEN out ELSE DefiniteVisit(k - 1, visited[k - 1])
    IN  visited[LastBlock + 1]

DirtySweep(out) ==
    LET visited[k \in 0 .. LastBlock + 1] ==
            IF k = 0 THEN out ELSE DirtyVisit(k - 1, visited[k - 1])
    IN  visited[LastBlock + 1]

MayDirtyBefore(b) == DirtyIn(b, dirty) \/ b \in defs

(***************************************************************************)
(* Where the emitted code goes                                             *)
(***************************************************************************)

\* scanContinuations
Continuations == UNION {Continuation(b) : b \in Blocks}

CallsInit ==
    /\ term \in [Blocks -> Terminators]
    /\ defs \in SUBSET Blocks
    /\ phase = "definite"
    /\ definite = {}
    /\ dirty = {}
    /\ start = 0
    /\ at = Other
    /\ unpublished = FALSE
    /\ defined = FALSE
    /\ way = "known"

\* dolllvm_analyze_function_abi and analyze_callsite_states: definiteIn
SweepDefinite ==
    /\ phase = "definite"
    /\ definite' = DefiniteSweep(definite)
    /\ phase' = IF DefiniteSweep(definite) = definite THEN "dirty" ELSE phase
    /\ UNCHANGED <<term, defs, dirty, start, at, unpublished, defined, way>>

\* dolllvm_analyze_callsite_dirty, with the callees' outputs
SweepDirty ==
    /\ phase = "dirty"
    /\ dirty' = DirtySweep(dirty)
    /\ phase' = IF DirtySweep(dirty) = dirty THEN "walk" ELSE phase
    /\ UNCHANGED <<term, defs, definite, start, at, unpublished, defined, way>>

\* The body is entered at b, by its switch or, at a fallback, by its cold entry
EnterAt(b) ==
    /\ phase = "walk"
    /\ at = Other
    /\ start' = b
    /\ at' = b
    /\ unpublished' = FALSE
    /\ defined' = FALSE
    /\ way' = "known"
    /\ UNCHANGED <<term, defs, phase, definite, dirty>>

Walking == phase = "walk" /\ at \in Blocks

Leave ==
    /\ at' = Other
    /\ start' = 0
    /\ unpublished' = FALSE
    /\ defined' = FALSE
    /\ way' = "known"

Goto(b) ==
    /\ at' = b
    /\ unpublished' = (unpublished \/ at \in defs)
    /\ defined' = (defined \/ at \in defs)
    /\ way' = IF b \in Successors(at) THEN way ELSE "strayed"
    /\ UNCHANGED start

\* emitTerminator, directDestination: a jump inside the range or a side exit
Jump ==
    /\ Walking
    /\ \E b \in Targets(at) : IF b \in Blocks THEN Goto(b) ELSE Leave
    /\ UNCHANGED <<term, defs, phase, definite, dirty>>

\* A taken indirect branch: the switch over the continuations, or out
JumpIndirect ==
    /\ Walking
    /\ term[at].kind = "indirect"
    /\ (\E b \in Continuations : Goto(b)) \/ Leave
    /\ UNCHANGED <<term, defs, phase, definite, dirty>>

\* externalDestination: the native callee returns to the continuation.  Its
\* results make the local newer again
CallNative ==
    /\ Walking
    /\ Native \in Targets(at)
    /\ Continuation(at) # {}
    /\ at' = at + 1
    /\ unpublished' = (unpublished \/ at \in defs \/ CalleeDefines)
    /\ defined' = (defined \/ at \in defs)
    /\ UNCHANGED <<term, defs, phase, definite, dirty, start, way>>

\* Everything is published, the host executes the instruction, the locals are
\* read again
Interpret ==
    /\ Walking
    /\ term[at].kind = "fallback"
    /\ at < LastBlock
    /\ at' = at + 1
    /\ unpublished' = FALSE
    /\ way' = IF way = "known" THEN "served" ELSE way
    /\ UNCHANGED <<term, defs, phase, definite, dirty, start, defined>>

\* SC, RFI, an instruction the host does not execute here, and a service,
\* budget, depth or structured exit after a block
SideExit ==
    /\ Walking
    /\ Leave
    /\ UNCHANGED <<term, defs, phase, definite, dirty>>

CallsNext ==
    \/ SweepDefinite
    \/ SweepDirty
    \/ \E b \in Blocks : EnterAt(b)
    \/ Jump
    \/ JumpIndirect
    \/ CallNative
    \/ Interpret
    \/ SideExit

CallsSpec == CallsInit /\ [][CallsNext]_csVars

(***************************************************************************)
(* Properties                                                              *)
(***************************************************************************)

\* At a call of a native range the mask names the register whenever the local
\* may be newer than the published copies: stageStateMask loses nothing.  The
\* one exception are walks along a way the analyses do not see, a taken
\* indirect branch into another call's continuation.
MasksCoverCalls ==
    (Walking /\ way # "strayed" /\ Native \in Targets(at) /\ unpublished)
        => MayDirtyBefore(at)

\* What the analyses call definitely defined was written on every way from the
\* range's first instruction, so leaving it out of the callee's inputs is right.
DefiniteIsDefined ==
    (Walking /\ way = "known" /\ start = 0 /\ DefiniteIn(at, definite)) => defined
=============================================================================
