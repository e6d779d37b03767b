----------------------------- MODULE ChainBudget -----------------------------
(***************************************************************************)
(* Cycles and budget of native code: the run loop of the native module,    *)
(* the wrapper's chain, bodies that call each other, budget guards, and    *)
(* the services a body calls while it runs.                                *)
(*                                                                         *)
(* All bodies share one shape: blocks 0 .. Last of Cost cycles each, with  *)
(* the edges chosen at the start.  What a block holds, and what services   *)
(* answer, is chosen when it runs.  Nothing happens any more beyond Cap    *)
(* cycles, so HostGetsControl shows that no run gets there.                *)
(***************************************************************************)
EXTENDS Integers, Sequences, FiniteSets

CONSTANTS
    Last,           \* the last block of a body
    Cost,           \* cycle_cost of a block
    Budgets,        \* cycle budgets of the host
    Remainders,     \* cycles a service or a checkpoint may grant
    DepthLimit,     \* nested calls, 64 in the code
    MostRenewals,   \* times a checkpoint or a service grants more cycles, at most
    Cap             \* bound on the cycles of a run

ASSUME CostAssumption == Cost \in Nat

Block == 0 .. Last

\* MG_NATIVE_EXIT_*
Budget == 0
Exception == 1
Fallback == 2
Intercept == 3
Invalidated == 4
Stop == 5

VARIABLES
    edges,      \* jumps inside a body: <<from, to>>
    inResult,   \* nativeCyclesInResult
    control,    \* "host", "native", "exited", "done"
    frames,     \* the block each active body is at, the innermost last
    stage,      \* "block", "guarded", "call"
    base,       \* chain[1], copied to guard_cycles_local_
    cycles,     \* cycles_ of the innermost body
    pending,    \* chain[3]: pending_cycles_
    budget,     \* chain[4]
    nesting,    \* chain[2]: guard_steps_
    reason,     \* chain[7]
    prior,      \* prior_cycles of the run loop; exit.cycles when done
    remaining,  \* what the run loop has left
    renewals,   \* grants of more cycles than were left, so far
    executed,   \* cycles of the instructions that were executed
    told        \* elapsed cycles the last service was told, less executed

shape == <<edges, inResult>>
runLoop == <<prior, remaining>>
cbVars == <<shape, control, frames, stage, base, cycles, pending, budget, nesting,
            reason, runLoop, renewals, executed, told>>

\* Where a body stands that made a tail call
Forwarding == -1

Top == frames[Len(frames)]
Elapsed == base + cycles

\* findLoopHeaders: targets of jumps that do not go forward
LoopHeaders == {t \in Block : \E i \in Block : <<i, t>> \in edges /\ t <= i}

ChainInit ==
    /\ edges \in {E \in SUBSET (Block \X Block) : Cardinality(E) <= 2}
    /\ inResult \in BOOLEAN
    /\ control = "host"
    /\ frames = <<>>
    /\ stage = "block"
    /\ base = 0
    /\ cycles = 0
    /\ pending = 0
    /\ budget = 0
    /\ nesting = 0
    /\ reason = Budget
    /\ prior = 0
    /\ remaining = 0
    /\ renewals = 0
    /\ executed = 0
    /\ told = 0

\* emitModernWrapper: the chain of one entry
EnterChain(b, from, left) ==
    /\ control' = "native"
    /\ frames' = <<b>>
    /\ stage' = "block"
    /\ base' = from
    /\ cycles' = 0
    /\ pending' = 0
    /\ budget' = from + left
    /\ nesting' = 0
    /\ reason' = Budget

\* moderngekko_native_run with a range that is there and valid
Run(b, limit) ==
    /\ control = "host"
    /\ EnterChain(b, 0, limit)
    /\ prior' = 0
    /\ remaining' = limit
    /\ UNCHANGED <<shape, renewals, executed, told>>

(***************************************************************************)
(* Leaving native code.  Every caller on the stack sees the exit flag and  *)
(* returns at once.                                                        *)
(***************************************************************************)

Leave(why, owed) ==
    /\ control' = "exited"
    /\ frames' = <<>>
    /\ stage' = "block"
    /\ reason' = why
    /\ pending' = owed
    /\ cycles' = 0

\* sideExit: materialize settles the cycles
SideExit == Leave(Budget, cycles)

(***************************************************************************)
(* Guards                                                                  *)
(***************************************************************************)

Native == control = "native"

\* emitBudgetGuard stands before a loop header and before every call
AtGuard == Native /\ (stage = "call" \/ (stage = "block" /\ Top \in LoopHeaders))

\* Behind the guard a call looks at its depth
Passed ==
    IF stage = "block" THEN stage' = "guarded" /\ UNCHANGED <<frames, nesting, cycles, pending>>
    ELSE /\ nesting < DepthLimit
         /\ nesting' = nesting + 1
         /\ frames' = Append(frames, 0)
         /\ stage' = "block"
         /\ pending' = IF inResult THEN pending ELSE cycles
         /\ cycles' = IF inResult THEN cycles ELSE pending'

PassGuard ==
    /\ AtGuard
    /\ Elapsed < budget
    /\ Passed
    /\ UNCHANGED <<shape, control, base, budget, reason, runLoop, renewals, executed, told>>

\* The checkpoint's callback grants more cycles
RenewBudget(r) ==
    /\ AtGuard
    /\ Elapsed >= budget
    /\ renewals < MostRenewals
    /\ r > 0
    /\ renewals' = renewals + 1
    /\ budget' = Elapsed + r
    /\ Passed
    /\ UNCHANGED <<shape, control, base, reason, runLoop, executed, told>>

\* No callback, no more cycles, or too many calls
GuardExit ==
    /\ AtGuard
    /\ Elapsed >= budget \/ (stage = "call" /\ nesting >= DepthLimit)
    /\ SideExit
    /\ UNCHANGED <<shape, base, budget, nesting, runLoop, renewals, executed, told>>

(***************************************************************************)
(* Blocks                                                                  *)
(***************************************************************************)

Ready ==
    /\ Native
    /\ Top \in Block
    /\ stage = "guarded" \/ (stage = "block" /\ Top \notin LoopHeaders)

Goto(b) ==
    /\ frames' = [frames EXCEPT ![Len(frames)] = b]
    /\ stage' = "block"

\* chargeCycles, and the instruction runs
Charged ==
    /\ cycles' = cycles + Cost
    /\ executed' = executed + Cost

InnerUnchanged == UNCHANGED <<shape, base, budget, nesting, runLoop, renewals, told>>

\* An instruction without a service, or a FIFO write that is only buffered; behind
\* the last block the range is left
RunBlock ==
    /\ Ready
    /\ executed' = executed + Cost
    /\ IF Top < Last
       THEN /\ cycles' = cycles + Cost
            /\ Goto(Top + 1)
            /\ UNCHANGED <<control, pending, reason>>
       ELSE Leave(Budget, cycles + Cost)
    /\ InnerUnchanged

RunJump(to) ==
    /\ Ready
    /\ <<Top, to>> \in edges
    /\ Charged
    /\ Goto(to)
    /\ UNCHANGED <<control, pending, reason>>
    /\ InnerUnchanged

\* A call of another native range, linked or not; the guard is next
RunCall(linked) ==
    /\ Ready
    /\ Top < Last
    /\ Charged
    /\ stage' = "call"
    /\ frames' = IF linked THEN frames ELSE [frames EXCEPT ![Len(frames)] = Forwarding]
    /\ UNCHANGED <<control, pending, reason>>
    /\ InnerUnchanged

\* returnNative with the expected target.  The caller goes on behind its call.
ReturnToCaller(total) ==
    LET caller == Len(frames) - 1
        behind(b) == IF b = Forwarding THEN Forwarding ELSE b + 1
    IN  /\ pending' = IF inResult THEN pending ELSE total
        /\ cycles' = IF inResult THEN total ELSE pending'
        /\ frames' = [k \in 1 .. caller |->
                         IF k = caller THEN behind(frames[k]) ELSE frames[k]]
        /\ nesting' = nesting - 1
        /\ stage' = "block"
        /\ UNCHANGED <<control, reason>>

\* A return: to the caller, to the wrapper, or nowhere expected (an exit)
RunReturn(matches) ==
    /\ Ready
    /\ executed' = executed + Cost
    /\ IF Len(frames) > 1 /\ matches
       THEN ReturnToCaller(cycles + Cost)
       ELSE Leave(Budget, cycles + Cost) /\ UNCHANGED nesting
    /\ UNCHANGED <<shape, base, budget, runLoop, renewals, told>>

\* What a body that made a tail call does when the callee returns
ForwardReturn ==
    /\ Native
    /\ stage = "block"
    /\ Top = Forwarding
    /\ IF Len(frames) > 1 THEN ReturnToCaller(cycles)
       ELSE Leave(Budget, cycles) /\ UNCHANGED nesting
    /\ UNCHANGED <<shape, base, budget, runLoop, renewals, executed, told>>

\* SC, RFI and a write of the time base are left to the host, after their cost
LeavePrivileged ==
    /\ Ready
    /\ Leave(Fallback, cycles + Cost)
    /\ UNCHANGED executed
    /\ InnerUnchanged

\* A fallback block that is not serviced, or an intercepted or invalid region
LeaveBefore(why) ==
    /\ Native
    /\ stage = "block"
    /\ Top \in Block
    /\ why \in {Fallback, Intercept, Invalidated}
    /\ Leave(why, cycles)
    /\ UNCHANGED executed
    /\ InnerUnchanged

(***************************************************************************)
(* Services                                                                *)
(***************************************************************************)

FailureReason(status) ==
    CASE status = "exception" -> Exception
      [] status = "stop" -> Stop
      [] OTHER -> Fallback

\* Behind the access: on to the next block, or out of the last one
NextOrExit(yields) ==
    IF yields \/ Top = Last THEN Leave(Budget, cycles + Cost)
    ELSE /\ Goto(Top + 1)
         /\ cycles' = cycles + Cost
         /\ pending' = cycles + Cost
         /\ UNCHANGED <<control, reason>>

(* Mutant: a failed access leaves the cost of its block charged.            *)
AccessKeepingCost(status, r) ==
    LET elapsed == base + (cycles + Cost) - Cost
        newBudget == elapsed + r
        completed == status \in {"continue", "yield"}
        grants == completed /\ newBudget > budget
    IN  /\ Ready
        /\ grants => renewals < MostRenewals
        /\ renewals' = IF grants THEN renewals + 1 ELSE renewals
        /\ told' = elapsed - executed
        /\ IF completed
           THEN /\ budget' = newBudget
                /\ executed' = executed + Cost
                /\ NextOrExit(status = "yield" \/ base + cycles + Cost >= newBudget)
           ELSE /\ Leave(FailureReason(status), cycles + Cost)
                /\ UNCHANGED <<budget, executed>>
        /\ UNCHANGED <<shape, base, nesting, runLoop>>

\* An access that leaves emitted code: the block is charged, the
\* service is told the cycles before it, and grants a new budget from there
Access(status, r) ==
    LET elapsed == base + (cycles + Cost) - Cost
        newBudget == elapsed + r
        completed == status \in {"continue", "yield"}
        grants == completed /\ newBudget > budget
    IN  /\ Ready
        /\ grants => renewals < MostRenewals
        /\ renewals' = IF grants THEN renewals + 1 ELSE renewals
        /\ told' = elapsed - executed
        /\ IF completed
           THEN /\ budget' = newBudget
                /\ executed' = executed + Cost
                /\ NextOrExit(status = "yield" \/ base + cycles + Cost >= newBudget)
           ELSE /\ Leave(FailureReason(status), elapsed - base)
                /\ UNCHANGED <<budget, executed>>
        /\ UNCHANGED <<shape, base, nesting, runLoop>>

\* The three are the same to the cycles; a FIFO write that its buffer takes is RunBlock
ExternalRead(status, r) == Access(status, r)
ExternalWrite(status, r) == Access(status, r)
ExternalFifoWrite(status, r) == Access(status, r)

\* emitInstructionService for an instruction inside a region, charged before.  An
\* instruction that raises an exception was executed; one that yields is handed
\* back like one the service does not know.
Interpret(status) ==
    /\ Ready
    /\ IF status = "continue" THEN NextOrExit(FALSE)
       ELSE Leave(FailureReason(status), cycles + Cost)
    /\ executed' = IF status \in {"continue", "exception", "stop"} THEN executed + Cost
                   ELSE executed
    /\ InnerUnchanged

\* emitFallbackHandler: charged behind the service, unless it hands it back
InterpretFallback(status) ==
    LET ran == status # "fallback"
        owed == cycles + (IF ran THEN Cost ELSE 0)
    IN  /\ Ready
        /\ CASE status = "continue" -> NextOrExit(FALSE)
             [] status = "yield" -> NextOrExit(TRUE)
             [] OTHER -> Leave(FailureReason(status), owed)
        /\ executed' = IF ran THEN executed + Cost ELSE executed
        /\ InnerUnchanged

(***************************************************************************)
(* The run loop                                                            *)
(***************************************************************************)

(* Mutant: the run loop does not take the cycles off what remains.          *)
ChainUnpaid(b) ==
    /\ control = "exited"
    /\ reason = Budget
    /\ pending > 0
    /\ pending < remaining
    /\ EnterChain(b, prior + pending, remaining)
    /\ prior' = prior + pending
    /\ remaining' = remaining
    /\ UNCHANGED <<shape, renewals, executed, told>>

\* An exit for the budget that left some, at an entry of a valid range; the
\* wrapper never counts instructions, so only cycles make progress
Chain(b) ==
    /\ control = "exited"
    /\ reason = Budget
    /\ pending > 0
    /\ pending < remaining
    /\ EnterChain(b, prior + pending, remaining - pending)
    /\ prior' = prior + pending
    /\ remaining' = remaining - pending
    /\ UNCHANGED <<shape, renewals, executed, told>>

\* Any other exit, or one at no entry
Return ==
    /\ control = "exited"
    /\ control' = "done"
    /\ prior' = prior + pending
    /\ UNCHANGED <<shape, frames, stage, base, cycles, pending, budget, nesting, reason,
                   remaining, renewals, executed, told>>

Step ==
    \/ \E b \in Block, limit \in Budgets : Run(b, limit)
    \/ PassGuard
    \/ \E r \in Remainders : RenewBudget(r)
    \/ GuardExit
    \/ RunBlock
    \/ \E to \in Block : RunJump(to)
    \/ \E linked \in BOOLEAN : RunCall(linked)
    \/ \E matches \in BOOLEAN : RunReturn(matches)
    \/ ForwardReturn
    \/ LeavePrivileged
    \/ \E why \in {Fallback, Intercept, Invalidated} : LeaveBefore(why)
    \/ \E status \in {"continue", "yield", "exception", "stop", "fallback"},
          r \in Remainders :
          ExternalRead(status, r) \/ ExternalWrite(status, r) \/ ExternalFifoWrite(status, r)
    \/ \E status \in {"continue", "yield", "exception", "stop", "fallback"} :
          Interpret(status)
    \/ \E status \in {"continue", "yield", "exception", "stop", "fallback"} :
          InterpretFallback(status)
    \/ \E b \in Block : Chain(b)
    \/ Return

ChainNext == Elapsed <= Cap /\ Step

\* A thread that runs native code goes on running it
ChainSpec == ChainInit /\ [][ChainNext]_cbVars /\ WF_cbVars(ChainNext)

(***************************************************************************)
(* Properties                                                              *)
(***************************************************************************)

\* No cycle is lost or counted twice, through nested calls, services, failed
\* accesses, fallbacks and chained entries.  Only an exit for the fallback may
\* carry the cost of the instruction it hands back.
CyclesAccounted ==
    /\ Native => Elapsed = executed
    /\ control = "exited" =>
          \/ prior + pending = executed
          \/ reason = Fallback /\ prior + pending = executed + Cost
    /\ told = 0

\* A host that enters native code gets control back, unless it grants more cycles
\* for ever at checkpoints or in services.
HostGetsControl == (control = "native") ~> (control = "done")
=============================================================================
