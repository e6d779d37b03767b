--------------------------- MODULE AbiPropagation ---------------------------
(***************************************************************************)
(* How the register summaries of the ranges reach their callers.           *)
(*                                                                         *)
(* Every mask is merged bit by bit, so one register is followed: a summary *)
(* is the set of ranges that have the register in it.  The worklist is a   *)
(* set here: the results hold for any order of work, the code's            *)
(* first-in-first-out order among them.                                    *)
(***************************************************************************)
CONSTANT Fn         \* the ranges

VARIABLES
    native,     \* ranges with DOLLLVM_FUNCTION_ABI_NATIVE
    calls,      \* <<caller, callee>> with an edge between them
    known,      \* the calls with the register in defined_before at every edge
    ownInput,   \* input_state and may_def_state as the analysis of each
    ownOutput,  \* range left them
    input,      \* input_state (semantic_input_state is merged alike)
    output,     \* output_state, which is may_def_state
    escape,     \* escape_state
    step,       \* "callers", "callees": the worklist at work; then "done"
    round,      \* 1, or 2 once the dirty masks know the callees' outputs
    work        \* the worklist, with its queued flags

graph == <<native, calls, known, ownInput, ownOutput>>
apVars == <<graph, input, output, escape, step, round, work>>

\* The relations kept: the callee is native, and not the caller itself
Relation == {c \in calls : c[2] \in native}
Callers(g) == {f \in Fn : <<f, g>> \in Relation}
Callees(f) == {g \in Fn : f \in native /\ <<f, g>> \in Relation}

AbiInit ==
    /\ native \in SUBSET Fn
    /\ calls \in SUBSET {c \in Fn \X Fn : c[1] # c[2]}
    /\ known \in SUBSET calls
    /\ ownInput \in SUBSET Fn
    /\ ownOutput \in SUBSET Fn
    /\ input = ownInput
    /\ output = ownOutput
    /\ escape = {}
    /\ step = "callers"
    /\ round = 1
    /\ work = Fn

(* Mutant: callers are merged into but not visited again.                   *)
MergeOnce(g) ==
    LET needs == {f \in Callers(g) : g \in input /\ <<f, g>> \notin known}
        writes == {f \in Callers(g) : g \in output}
    IN  /\ step = "callers"
        /\ g \in work
        /\ input' = input \cup needs
        /\ output' = output \cup writes
        /\ work' = work \ {g}
        /\ UNCHANGED <<graph, escape, step, round>>

\* One callee is taken from the worklist and merged into its callers
MergeIntoCallers(g) ==
    LET needs == {f \in Callers(g) : g \in input /\ <<f, g>> \notin known}
        writes == {f \in Callers(g) : g \in output}
    IN  /\ step = "callers"
        /\ g \in work
        /\ input' = input \cup needs
        /\ output' = output \cup writes
        /\ work' = (work \ {g}) \cup (needs \ input) \cup (writes \ output)
        /\ UNCHANGED <<graph, escape, step, round>>

\* The second worklist: what callers hold while a callee runs
StartCallees ==
    /\ step = "callers"
    /\ work = {}
    /\ step' = "callees"
    /\ work' = Fn
    /\ UNCHANGED <<graph, input, output, escape, round>>

MergeIntoCallees(f) ==
    LET held == {g \in Callees(f) : f \in escape \cup output}
    IN  /\ step = "callees"
        /\ f \in work
        /\ escape' = escape \cup held
        /\ work' = (work \ {f}) \cup (held \ escape)
        /\ UNCHANGED <<graph, input, output, step, round>>

\* prepare_llvm_function_abis, prepareModuleABIs: the dirty masks are computed
\* again with the callees' outputs, and everything is propagated once more
SecondRound ==
    /\ step = "callees"
    /\ work = {}
    /\ round = 1
    /\ round' = 2
    /\ step' = "callers"
    /\ work' = Fn
    /\ UNCHANGED <<graph, input, output, escape>>

\* The modern runtime drops the escapes; a policy may take ranges out of the
\* native ABI after that
Finish(kept, modern) ==
    /\ step = "callees"
    /\ work = {}
    /\ round = 2
    /\ step' = "done"
    /\ escape' = IF modern THEN {} ELSE escape
    /\ native' = kept
    /\ UNCHANGED <<calls, known, ownInput, ownOutput, input, output, round, work>>

AbiNext ==
    \/ \E g \in Fn : MergeIntoCallers(g)
    \/ StartCallees
    \/ \E f \in Fn : MergeIntoCallees(f)
    \/ SecondRound
    \/ \E kept \in SUBSET native, modern \in BOOLEAN : Finish(kept, modern)

AbiSpec == AbiInit /\ [][AbiNext]_apVars

(***************************************************************************)
(* Properties                                                              *)
(***************************************************************************)

ClosedOver(S, T) == \A c \in Relation : c[2] \in S /\ c \notin T => c[1] \in S
EscapesDown(S) == \A f \in Fn : f \in S \cup output => Callees(f) \subseteq S

\* When the propagation ends, a caller hands back whatever a native callee may
\* write and is passed whatever one needs and it has not surely written, through
\* any chain or cycle of calls; and a callee's escapes hold what its callers
\* hold.  StagedState takes the first for granted.
SummariesClosed ==
    /\ step # "callers" => ClosedOver(output, {}) /\ ClosedOver(input, known)
    /\ step = "done" /\ escape # {} => EscapesDown(escape)

\* Nothing is in a summary without a reason: every set of ranges that holds the
\* starting summary and is closed over the calls holds the result, so no
\* register is passed or handed back for nothing.
SummariesLeast ==
    step # "done" => \A S \in SUBSET Fn :
        /\ ownOutput \subseteq S /\ ClosedOver(S, {}) => output \subseteq S
        /\ ownInput \subseteq S /\ ClosedOver(S, known) => input \subseteq S

\* Together: the summaries are the least ones that are closed over the calls.
SummariesExact == SummariesClosed /\ SummariesLeast
=============================================================================
