---------------------------- MODULE ExecutionProofs ----------------------------
(***************************************************************************)
(* Proofs about what runs translated code.  ChainBudget: the cycles of     *)
(* native code, for bodies of any number of blocks, any cost of a block,   *)
(* any budgets and grants and any depth of calls.  ChunkRuntime: the pc of *)
(* C chunks, for any program and any division into chunks.                 *)
(***************************************************************************)
EXTENDS ChainBudget, ChunkRuntime, TLAPS

-----------------------------------------------------------------------------
(* ChainBudget.  While native code runs, what the run loop has summed up   *)
(* is the base of the chain, and nothing else has to be settled.           *)

Numbers ==
    /\ base \in Int /\ cycles \in Int /\ pending \in Int
    /\ prior \in Int /\ executed \in Int

ChainInv ==
    /\ Numbers
    /\ Native => base = prior
    /\ control = "host" => executed = 0
    /\ CyclesAccounted

(* What a step of native code does to the sums: either it stays inside and  *)
(* pays for what it executes, or it leaves and owes all of it.              *)
Settled ==
    /\ base' = base /\ prior' = prior /\ told' = 0
    /\ \E paid, ran \in {0, Cost} :
         /\ executed' = executed + ran
         /\ \/ /\ control' = "native" /\ paid = ran
               /\ cycles' = cycles + paid /\ pending' \in {pending, cycles, cycles'}
            \/ /\ control' = "exited" /\ cycles' = 0
               /\ pending' = cycles + paid
               /\ paid = ran \/ (reason' = Fallback /\ ran = 0)

LEMMA Settling ==
    ASSUME ChainInv, Native, Settled PROVE ChainInv'
<1>1. Cost \in Nat BY CostAssumption
<1>2. PICK paid \in {0, Cost}, ran \in {0, Cost} :
         /\ executed' = executed + ran
         /\ \/ /\ control' = "native" /\ paid = ran
               /\ cycles' = cycles + paid /\ pending' \in {pending, cycles, cycles'}
            \/ /\ control' = "exited" /\ cycles' = 0
               /\ pending' = cycles + paid
               /\ paid = ran \/ (reason' = Fallback /\ ran = 0)
      BY DEF Settled
<1>3. paid \in Int /\ ran \in Int BY <1>1
<1>4. /\ base' = base /\ prior' = prior /\ told' = 0 /\ base = prior
      /\ base + cycles = executed
      /\ base \in Int /\ cycles \in Int /\ pending \in Int /\ executed \in Int
      BY DEF ChainInv, Numbers, CyclesAccounted, Elapsed, Settled
<1>5. Numbers' BY <1>1, <1>2, <1>3, <1>4 DEF Numbers
<1>6. CASE control' = "native" /\ paid = ran /\ cycles' = cycles + paid
  <2>1. base' + cycles' = executed' BY <1>2, <1>3, <1>4, <1>6
  <2> QED BY <1>4, <1>5, <1>6, <2>1 DEF ChainInv, CyclesAccounted, Native, Elapsed
<1>7. CASE control' = "exited" /\ pending' = cycles + paid /\ paid = ran
  <2>1. prior' + pending' = executed' BY <1>2, <1>3, <1>4, <1>7
  <2> QED BY <1>4, <1>5, <1>7, <2>1 DEF ChainInv, CyclesAccounted, Native
<1>8. CASE control' = "exited" /\ pending' = cycles + paid /\ reason' = Fallback /\ ran = 0
  <2>1. prior' + pending' = executed' \/ prior' + pending' = executed' + Cost
        BY <1>1, <1>2, <1>3, <1>4, <1>8
  <2> QED BY <1>4, <1>5, <1>8, <2>1 DEF ChainInv, CyclesAccounted, Native
<1> QED BY <1>2, <1>6, <1>7, <1>8

-----------------------------------------------------------------------------
(* Guards, blocks and calls                                                *)

LEMMA Sums ==
    ASSUME ChainInv, Native
    PROVE  /\ control = "native" /\ told = 0 /\ Cost \in Nat /\ 0 \in {0, Cost}
           /\ cycles + 0 = cycles /\ executed + 0 = executed
           /\ base + cycles = executed
           /\ base \in Int /\ cycles \in Int /\ pending \in Int /\ executed \in Int
           /\ base + (cycles + Cost) - Cost = executed
           /\ (base + (cycles + Cost) - Cost) - base = cycles
           /\ (base + (cycles + Cost) - Cost) - executed = 0
<1>1. /\ control = "native" /\ told = 0 /\ base + cycles = executed
      /\ base \in Int /\ cycles \in Int /\ pending \in Int /\ executed \in Int
      BY DEF ChainInv, Numbers, CyclesAccounted, Native, Elapsed
<1> QED BY <1>1, CostAssumption

LEMMA GuardsSettle ==
    ASSUME ChainInv, PassGuard \/ (\E r \in Remainders : RenewBudget(r)) \/ GuardExit
    PROVE  Native /\ Settled
<1>1. Native BY DEF PassGuard, RenewBudget, GuardExit, AtGuard
<1>2. UNCHANGED <<base, prior, executed, told>>
      BY DEF PassGuard, RenewBudget, GuardExit, runLoop
<1>3. CASE Passed /\ control' = control
  <2>1. cycles' = cycles /\ pending' \in {pending, cycles} BY <1>3 DEF Passed
  <2> QED BY <1>1, <1>2, <1>3, <2>1, Sums DEF Settled
<1>4. CASE SideExit BY <1>1, <1>2, <1>4, Sums DEF Settled, SideExit, Leave
<1> QED BY <1>3, <1>4 DEF PassGuard, RenewBudget, GuardExit

LEMMA BlocksSettle ==
    ASSUME ChainInv,
           \/ RunBlock \/ (\E to \in Block : RunJump(to))
           \/ \E linked \in BOOLEAN : RunCall(linked)
    PROVE  Native /\ Settled
<1>1. Native BY DEF RunBlock, RunJump, RunCall, Ready
<1>2. UNCHANGED <<base, prior, told>> /\ executed' = executed + Cost
      BY DEF RunBlock, RunJump, RunCall, InnerUnchanged, runLoop, Charged
<1>3. \/ control' = control /\ cycles' = cycles + Cost /\ pending' = pending
      \/ Leave(Budget, cycles + Cost)
      BY DEF RunBlock, RunJump, RunCall, Charged
<1> QED BY <1>1, <1>2, <1>3, Sums DEF Settled, Leave

LEMMA ReturnsSettle ==
    ASSUME ChainInv, (\E matches \in BOOLEAN : RunReturn(matches)) \/ ForwardReturn
    PROVE  Native /\ Settled
<1>1. Native BY DEF RunReturn, ForwardReturn, Ready
<1>2. UNCHANGED <<base, prior, told>> BY DEF RunReturn, ForwardReturn, runLoop
<1>3. PICK paid \in {0, Cost} :
         /\ executed' = executed + paid
         /\ ReturnToCaller(cycles + paid) \/ Leave(Budget, cycles + paid)
      BY <1>1, Sums DEF RunReturn, ForwardReturn
<1>4. CASE ReturnToCaller(cycles + paid)
  <2>1. control' = control /\ cycles' = cycles + paid /\ pending' \in {pending, cycles'}
        BY <1>4 DEF ReturnToCaller
  <2> QED BY <1>1, <1>2, <1>3, <2>1, Sums DEF Settled
<1>5. CASE Leave(Budget, cycles + paid)
      BY <1>1, <1>2, <1>3, <1>5, Sums DEF Settled, Leave
<1> QED BY <1>3, <1>4, <1>5

LEMMA RefusalsSettle ==
    ASSUME ChainInv,
           LeavePrivileged \/ \E why \in {Fallback, Intercept, Invalidated} : LeaveBefore(why)
    PROVE  Native /\ Settled
<1>1. Native BY DEF LeavePrivileged, LeaveBefore, Ready
<1>2. UNCHANGED <<base, prior, told, executed>>
      BY DEF LeavePrivileged, LeaveBefore, InnerUnchanged, runLoop
<1>3. CASE LeavePrivileged
      BY <1>1, <1>2, <1>3, Sums DEF Settled, LeavePrivileged, Leave
<1>4. ASSUME NEW why, LeaveBefore(why) PROVE Settled
      BY <1>1, <1>2, <1>4, Sums DEF Settled, LeaveBefore, Leave
<1> QED BY <1>1, <1>3, <1>4

-----------------------------------------------------------------------------
(* Services                                                                *)

LEMMA AccessSettles ==
    ASSUME ChainInv, NEW status, NEW r, Access(status, r)
    PROVE  Native /\ Settled
<1>1. Native BY DEF Access, Ready
<1>2. base' = base /\ prior' = prior /\ told' = 0
      BY <1>1, Sums DEF Access, runLoop
<1>3. CASE status \in {"continue", "yield"}
  <2>1. /\ executed' = executed + Cost
        /\ \/ control' = control /\ cycles' = cycles + Cost /\ pending' = cycles + Cost
           \/ Leave(Budget, cycles + Cost)
        BY <1>3 DEF Access, NextOrExit
  <2> QED BY <1>1, <1>2, <2>1, Sums DEF Settled, Leave
<1>4. CASE status \notin {"continue", "yield"}
  <2>1. executed' = executed /\ Leave(FailureReason(status), cycles)
        BY <1>1, <1>4, Sums DEF Access
  <2> QED BY <1>1, <1>2, <2>1, Sums DEF Settled, Leave
<1> QED BY <1>1, <1>3, <1>4

Status == {"continue", "yield", "exception", "stop", "fallback"}

LEMMA InterpretersSettle ==
    ASSUME ChainInv, NEW status \in Status, Interpret(status) \/ InterpretFallback(status)
    PROVE  Native /\ Settled
<1>1. Native BY DEF Interpret, InterpretFallback, Ready
<1>2. base' = base /\ prior' = prior /\ told' = 0
      BY <1>1, Sums DEF Interpret, InterpretFallback, InnerUnchanged, runLoop
<1>3. CASE /\ executed' = executed + Cost
           /\ \/ \E yields \in BOOLEAN : NextOrExit(yields)
              \/ Leave(FailureReason(status), cycles + Cost)
  <2>1. \/ control' = control /\ cycles' = cycles + Cost /\ pending' = cycles + Cost
        \/ \E why : Leave(why, cycles + Cost)
        BY <1>3 DEF NextOrExit
  <2> QED BY <1>1, <1>2, <1>3, <2>1, Sums DEF Settled, Leave
<1>4. CASE /\ executed' = executed /\ FailureReason(status) = Fallback
           /\ Leave(FailureReason(status), cycles) \/ Leave(FailureReason(status), cycles + Cost)
      BY <1>1, <1>2, <1>4, Sums DEF Settled, Leave
<1>5. CASE Interpret(status)
  <2>1. CASE status \in {"continue", "exception", "stop"}
    <3>1. executed' = executed + Cost BY <1>5, <2>1 DEF Interpret
    <3>2. NextOrExit(FALSE) \/ Leave(FailureReason(status), cycles + Cost)
          BY <1>5 DEF Interpret
    <3> QED BY <1>1, <1>3, <3>1, <3>2
  <2>2. CASE status \in {"yield", "fallback"}
    <3>1. executed' = executed /\ FailureReason(status) = Fallback
          BY <1>5, <2>2 DEF Interpret, FailureReason
    <3>2. Leave(FailureReason(status), cycles + Cost) BY <1>5, <2>2 DEF Interpret
    <3> QED BY <1>1, <1>4, <3>1, <3>2
  <2> QED BY <2>1, <2>2 DEF Status
<1>6. CASE InterpretFallback(status)
  <2>1. CASE status = "fallback"
    <3>1. executed' = executed /\ FailureReason(status) = Fallback
          BY <1>6, <2>1 DEF InterpretFallback, FailureReason
    <3>2. Leave(FailureReason(status), cycles)
          BY <1>1, <1>6, <2>1, Sums DEF InterpretFallback
    <3> QED BY <1>1, <1>4, <3>1, <3>2
  <2>2. CASE status # "fallback"
    <3>1. executed' = executed + Cost BY <1>6, <2>2 DEF InterpretFallback
    <3>2. \/ NextOrExit(FALSE) \/ NextOrExit(TRUE)
          \/ Leave(FailureReason(status), cycles + Cost)
          BY <1>6, <2>2 DEF InterpretFallback
    <3> QED BY <1>1, <1>3, <3>1, <3>2
  <2> QED BY <2>1, <2>2
<1> QED BY <1>1, <1>5, <1>6

-----------------------------------------------------------------------------
(* The run loop                                                            *)

LEMMA RunLoopSettles ==
    ASSUME ChainInv,
           \/ \E b \in Block, limit \in Budgets : Run(b, limit)
           \/ \E b \in Block : Chain(b)
           \/ Return
    PROVE  ChainInv'
<1>1. /\ Numbers /\ CyclesAccounted /\ told = 0
      /\ control = "host" => executed = 0
      BY DEF ChainInv, CyclesAccounted
<1>2. ASSUME NEW b, NEW limit, Run(b, limit) PROVE ChainInv'
  <2>1. /\ control' = "native" /\ base' = 0 /\ cycles' = 0 /\ pending' = 0 /\ prior' = 0
        /\ executed' = executed /\ told' = told /\ executed = 0
        BY <1>1, <1>2 DEF Run, EnterChain
  <2>2. base' + cycles' = executed' BY <2>1
  <2> QED BY <1>1, <2>1, <2>2 DEF ChainInv, Numbers, CyclesAccounted, Native, Elapsed
<1>3. ASSUME NEW b, Chain(b) PROVE ChainInv'
  <2>1. /\ control' = "native" /\ base' = prior + pending /\ cycles' = 0 /\ pending' = 0
        /\ prior' = prior + pending /\ executed' = executed /\ told' = told
        /\ control = "exited" /\ reason = Budget
        BY <1>3 DEF Chain, EnterChain
  <2>2. prior + pending = executed
        BY <1>1, <2>1 DEF CyclesAccounted, Budget, Fallback
  <2>3. Numbers' BY <1>1, <2>1 DEF Numbers
  <2>4. base' + cycles' = executed' BY <2>1, <2>2, <1>1 DEF Numbers
  <2> QED BY <1>1, <2>1, <2>3, <2>4 DEF ChainInv, CyclesAccounted, Native, Elapsed
<1>4. CASE Return
  <2>1. /\ control' = "done" /\ UNCHANGED <<base, cycles, pending, executed, told>>
        /\ prior' = prior + pending
        BY <1>4 DEF Return
  <2>2. Numbers' BY <1>1, <2>1 DEF Numbers
  <2> QED BY <1>1, <2>1, <2>2 DEF ChainInv, CyclesAccounted, Native
<1> QED BY <1>2, <1>3, <1>4

-----------------------------------------------------------------------------
(* The theorem                                                             *)

(* Through nested calls, tail calls, guards, services, failed accesses,     *)
(* fallbacks and chained entries, the cycles told to services and to the    *)
(* host are those of the instructions that were executed.                   *)
THEOREM CyclesAreAccounted == ChainSpec => []CyclesAccounted
<1>1. ChainInit => ChainInv
      BY DEF ChainInit, ChainInv, Numbers, CyclesAccounted, Native
<1>2. ASSUME ChainInv, [ChainNext]_cbVars PROVE ChainInv'
  <2>1. CASE UNCHANGED cbVars
        BY <1>2, <2>1 DEF ChainInv, Numbers, CyclesAccounted, Native, Elapsed, cbVars, runLoop
  <2>2. CASE Native /\ Settled BY <1>2, <2>2, Settling
  <2>3. CASE PassGuard \/ (\E r \in Remainders : RenewBudget(r)) \/ GuardExit
        BY <1>2, <2>2, <2>3, GuardsSettle
  <2>4. CASE \/ RunBlock \/ (\E to \in Block : RunJump(to))
             \/ \E linked \in BOOLEAN : RunCall(linked)
        BY <1>2, <2>2, <2>4, BlocksSettle
  <2>5. CASE (\E matches \in BOOLEAN : RunReturn(matches)) \/ ForwardReturn
        BY <1>2, <2>2, <2>5, ReturnsSettle
  <2>6. CASE LeavePrivileged \/ \E why \in {Fallback, Intercept, Invalidated} : LeaveBefore(why)
        BY <1>2, <2>2, <2>6, RefusalsSettle
  <2>7. ASSUME NEW status, NEW r, Access(status, r) PROVE ChainInv'
        BY <1>2, <2>2, <2>7, AccessSettles
  <2>8. ASSUME NEW status \in Status, Interpret(status) \/ InterpretFallback(status)
        PROVE  ChainInv'
        BY <1>2, <2>2, <2>8, InterpretersSettle
  <2>9. CASE \/ \E b \in Block, limit \in Budgets : Run(b, limit)
             \/ \E b \in Block : Chain(b)
             \/ Return
        BY <1>2, <2>9, RunLoopSettles
  <2> QED BY <1>2, <2>1, <2>3, <2>4, <2>5, <2>6, <2>7, <2>8, <2>9
          DEF ChainNext, Step, Status, ExternalRead, ExternalWrite, ExternalFifoWrite
<1>3. ChainInv => CyclesAccounted BY DEF ChainInv
<1> QED BY <1>1, <1>2, <1>3, PTL DEF ChainSpec

-----------------------------------------------------------------------------
(* ChunkRuntime                                                            *)

(* An instruction that shows its pc to somebody has stored it: only plain   *)
(* instructions and branches are let off.                                   *)
LEMMA HelpersSeeTheirPc ==
    ASSUME Op(at) \notin {"plain"} \cup Branches PROVE Shown = at
BY DEF Transparent, Materialized, Shown

(* Where the emitted code may go from an instruction.                       *)
Moves ==
    \/ \E next : LeaveChunk(next)
    \/ running' = "code"
    \/ pc' = at'

LEMMA FallsMove == Fall => Moves BY DEF Fall, Moves, MoveTo

LEMMA RaisesMove == Raise => Moves BY DEF Raise, Moves

LEMMA TakenMoves == ASSUME NEW target, Taken(target) PROVE Moves
<1>1. CASE CrossCall(target) BY <1>1 DEF CrossCall, Moves
<1>2. CASE LeaveChunk(target) BY <1>2 DEF Moves
<1>3. CASE MoveTo(target) BY <1>3 DEF MoveTo, Moves
<1> QED BY <1>1, <1>2, <1>3 DEF Taken

LEMMA MovingKeeps == ASSUME PcIsExact, Moves, exact' PROVE PcIsExact'
BY DEF PcIsExact, Moves, LeaveChunk

LEMMA ExecuteKeeps == PcIsExact /\ Execute => PcIsExact'
<1> SUFFICES ASSUME PcIsExact, Execute PROVE PcIsExact' OBVIOUS
<1>1. running = "code" /\ exact BY DEF Execute, PcIsExact
<1>2. CASE EnterLoop BY <1>1, <1>2 DEF EnterLoop, PcIsExact
<1>3. CASE Ordinary
  <2>1. Moves BY <1>3, FallsMove, RaisesMove DEF Ordinary
  <2>2. exact'
    <3>1. CASE Op(at) \in {"plain", "data"} BY <1>1, <1>3, <3>1 DEF Ordinary
    <3>2. CASE Op(at) \notin {"plain", "data"}
      <4>1. Helper /\ Op(at) \in {"access", "helper", "timebase"} BY <1>3, <3>2 DEF Ordinary
      <4>2. Shown = at BY <4>1, HelpersSeeTheirPc DEF Branches
      <4> QED BY <1>1, <4>1, <4>2 DEF Helper
    <3> QED BY <3>1, <3>2
  <2> QED BY <2>1, <2>2, MovingKeeps
<1>4. CASE RunFallback
  <2>1. Moves BY <1>4, RaisesMove DEF RunFallback, Moves
  <2>2. Shown = at BY <1>4, HelpersSeeTheirPc DEF RunFallback, Branches
  <2>3. exact' BY <1>1, <1>4, <2>2 DEF RunFallback, Helper
  <2> QED BY <2>1, <2>3, MovingKeeps
<1>5. CASE SystemCall
  <2>1. Moves /\ exact' BY <1>1, <1>5, RaisesMove DEF SystemCall
  <2> QED BY <2>1, MovingKeeps
<1>6. CASE Branch
  <2>1. Moves BY <1>6, TakenMoves, FallsMove DEF Branch
  <2>2. exact' BY <1>1, <1>6 DEF Branch
  <2> QED BY <2>1, <2>2, MovingKeeps
<1>7. CASE ReturnBranch
  <2>1. Moves BY <1>7 DEF ReturnBranch, Moves
  <2>2. exact' BY <1>1, <1>7 DEF ReturnBranch
  <2> QED BY <2>1, <2>2, MovingKeeps
<1> QED BY <1>2, <1>3, <1>4, <1>5, <1>6, <1>7 DEF Execute

LEMMA PcSteps == PcIsExact /\ [ChunkNext]_ckVars => PcIsExact'
<1> SUFFICES ASSUME PcIsExact, [ChunkNext]_ckVars PROVE PcIsExact' OBVIOUS
<1>1. CASE Execute BY <1>1, ExecuteKeeps
<1>2. CASE Unwind
  <2>1. running = "return" /\ pc = at /\ exact /\ pc' = pc /\ exact' = exact
        BY <1>2 DEF Unwind, PcIsExact
  <2>2. at' = at \/ at' = pc BY <1>2 DEF Unwind
  <2> QED BY <2>1, <2>2 DEF PcIsExact
<1>3. CASE DispatchChunk BY <1>3 DEF DispatchChunk, Enter, PcIsExact
<1>4. CASE DispatchHost BY <1>4 DEF DispatchHost, PcIsExact
<1>5. CASE StopRunning BY <1>5 DEF StopRunning, PcIsExact
<1>6. CASE HostRuns BY <1>6 DEF HostRuns, PcIsExact
<1>7. CASE UNCHANGED ckVars BY <1>7 DEF ckVars, PcIsExact
<1> QED BY <1>1, <1>2, <1>3, <1>4, <1>5, <1>6, <1>7 DEF ChunkNext, ChunkStep

(* Whatever program was translated and however it is cut into chunks, pc is *)
(* exact where a function returns and where a helper looks at it.           *)
THEOREM PcStaysExact == ChunkSpec => []PcIsExact
<1>1. ChunkInit => PcIsExact BY DEF ChunkInit, PcIsExact
<1> QED BY <1>1, PcSteps, PTL DEF ChunkSpec
=============================================================================
