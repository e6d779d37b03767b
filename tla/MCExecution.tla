------------------------------ MODULE MCExecution ------------------------------
(***************************************************************************)
(* What gives the host its thread back: the run loops that hand the        *)
(* processor to translated code (the native module's chain of LLVM bodies, *)
(* the dispatcher of the C chunks), and the calls of the validity runtime. *)
(* They share no state, so one run explores them side by side: `active`    *)
(* names the one a behaviour is of, and the variables of the others stay   *)
(* as they are.                                                            *)
(***************************************************************************)
EXTENDS ChainBudget, ChunkRuntime

VARIABLES
    active,
    status, gen, unavailable, needsValidation, loaded, changed, written, label, op, mode,
    target, last, idx, seenGen, pos, matches, home

(* ChainBudget: bodies of two blocks, one renewal; Cap is never reached     *)
TwoBudgets == {1, 3}
SomeRemainders == {0, 3}

(* ChunkRuntime: a chunk of three instructions and one of a single one      *)
Simple(op_) == [op |-> op_, target |-> 0, link |-> FALSE]
Jump(op_, to, link) == [op |-> op_, target |-> to, link |-> link]
SomePrograms ==
    { [ i \in 0 .. 3 |-> CASE i = 0 -> w [] i = 1 -> x [] i = 2 -> y [] i = 3 -> z ] :
        w \in { Simple("plain"), Simple("access"), Simple("timebase"), Simple("fallback"),
                Simple("data"), Jump("b", 2, TRUE), Jump("bc", 2, FALSE) },
        x \in { Simple("plain"), Simple("helper"), Simple("sc"),
                Jump("bc", 0, TRUE), Jump("b", 3, TRUE), Jump("bc", 0, FALSE) },
        y \in { Simple("plain"), Simple("data"), Simple("blr"), Jump("bc", 0, FALSE),
                Jump("b", 0, TRUE), Jump("b", 3, TRUE) },
        z \in { Simple("blr"), Jump("bc", 0, TRUE), Jump("bc", 3, FALSE),
                Jump("b", 2, FALSE), Jump("bc", 4, TRUE) } }

(* NativeModule: two threads, one range of one word                         *)
Thread == {"t1", "t2"}
NM == INSTANCE NativeModule
        WITH RangeCount <- 1, WordCount <- 1, Mapped <- {1}, GenMod <- 3, CounterMod <- 8,
             pending <- written, pc <- label

nmVars == << status, gen, unavailable, needsValidation, loaded, changed, written, label, op,
             mode, target, last, idx, seenGen, pos, matches, home >>

CBOff == edges = 0 /\ inResult = 0 /\ control = "" /\ frames = 0 /\ stage = 0 /\ base = 0 /\
         cycles = 0 /\ pending = 0 /\ budget = 0 /\ nesting = 0 /\ reason = 0 /\
         prior = 0 /\ remaining = 0 /\ renewals = 0 /\ executed = 0 /\ told = 0
CKOff == /\ program = 0 /\ at = 0 /\ pc = 0 /\ lr = 0 /\ exception = FALSE /\ downcount = 0
         /\ depth = 0 /\ hostFrames = << >> /\ running = "host" /\ exact = TRUE

NMOff == status = 0 /\ gen = 0 /\ unavailable = 0 /\ needsValidation = 0 /\ loaded = 0 /\
         changed = 0 /\ written = 0 /\ label = [t \in Thread |-> ""] /\ op = 0 /\ mode = 0 /\
         target = 0 /\ last = 0 /\ idx = 0 /\ seenGen = 0 /\ pos = 0 /\ matches = 0 /\ home = 0

Init ==
    /\ active \in {"chain", "chunks", "native"}
    /\ IF active = "chain" THEN ChainInit ELSE CBOff
    /\ IF active = "chunks" THEN ChunkInit ELSE CKOff
    /\ IF active = "native" THEN NM!Init ELSE NMOff

BodiesNext == active = "chain" /\ ChainNext /\ UNCHANGED << active, ckVars, nmVars >>
ChunksNext == active = "chunks" /\ ChunkNext /\ UNCHANGED << active, cbVars, nmVars >>
ChunksStep == active = "chunks" /\ ChunkStep /\ UNCHANGED << active, cbVars, nmVars >>
NativeNext == active = "native" /\ NM!Next /\ UNCHANGED << active, cbVars, ckVars >>
Inside(t) ==
    /\ active = "native"
    /\ NM!Validating(t) \/ NM!Guard(t) \/ NM!Invalidating(t)
    /\ UNCHANGED << active, cbVars, ckVars >>
Exchanges(t) == active = "native" /\ NM!CasSucceeds(t) /\ UNCHANGED << active, cbVars, ckVars >>

Next == BodiesNext \/ ChunksNext \/ NativeNext

\* The fairness of ChainSpec, ChunkSpec and NativeModule's FairSpec: a thread in
\* translated code, or inside the module, goes on running it, and a weak
\* compare-exchange on an unmoved word does not fail for ever.
ExecutionSpec ==
    /\ Init /\ [][Next]_<< active, cbVars, ckVars, nmVars >>
    /\ WF_cbVars(BodiesNext) /\ WF_ckVars(ChunksStep)
    /\ \A t \in Thread : WF_nmVars(Inside(t)) /\ SF_nmVars(Exchanges(t))

\* The view keeps a local of a thread of the native module only while the
\* thread can still read it.
Checking(t) == label[t] \in {"load", "hash", "cas", "sub"}
Walking(t) == label[t] \in {"inv", "add"}
LiveLocals(t) ==
    << label[t],
       IF label[t] \in {"idle", "exec"} THEN 0 ELSE idx[t],
       IF Checking(t) THEN << mode[t], op[t] >> ELSE << >>,
       IF Checking(t) /\ mode[t] \in {"all", "query"} THEN target[t] ELSE 0,
       IF Walking(t) \/ label[t] = "guard" \/ (Checking(t) /\ mode[t] = "query")
       THEN last[t] ELSE 0,
       IF label[t] \in {"hash", "cas"} THEN << seenGen[t], pos[t], matches[t] >> ELSE << >>,
       IF Walking(t) THEN home[t] ELSE "idle" >>
LiveState ==
    << active, cbVars, ckVars,
       IF active = "native"
       THEN << NM!shared, NM!memory, [t \in Thread |-> LiveLocals(t)] >> ELSE << >> >>

-----------------------------------------------------------------------------
(* The properties of ChainBudget and ChunkRuntime are stated there.         *)

\* NativeModule: a call of the validity runtime comes back to its caller.
CallsReturn ==
    \A t \in Thread :
        label[t] \notin {"", "idle", "exec"} ~> label[t] \in {"idle", "exec"}
=============================================================================
