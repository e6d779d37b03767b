---------------------------- MODULE StagedState ----------------------------
(***************************************************************************)
(* Where the guest's registers are while native code runs.                 *)
(*                                                                         *)
(* The host keeps the architectural state.  moderngekko_native_run lends   *)
(* the ranges a staging array with a dirty and a valid mask, and a running *)
(* range keeps the slots it uses in locals of its own.  A slot is thus in  *)
(* up to three kinds of place, and only some hold its latest value.  The   *)
(* model abstracts values to that: `host`, `vals` and the `cur` of a frame *)
(* are the sets of slots whose copy there is the latest one.               *)
(*                                                                         *)
(* Cacheable slots (GPR, FPR, PS1) may stay staged from one range to the   *)
(* next; Control slots (CR, XER, LR, MSR, ...) are published at its end.   *)
(***************************************************************************)
EXTENDS Naturals

CONSTANTS
    Cacheable,      \* the slots modernStateCacheable accepts
    Control,        \* all other slots
    Published,      \* MSR, SR0..SR15 and EXCEPTION: published before a memory service
    Exception,      \* the slot a FIFO service may write
    Fn,             \* native ranges
    OwnDefs,        \* [Fn -> slots]: what the range's own instructions define
    Used,           \* used_: the slots the range keeps in locals
    Input,          \* input_state: the slots passed to the range
    Output,         \* output_state: the slots a return hands back; also dirty_
    Calls,          \* [Fn -> ranges]: the ranges it calls natively
    MemFn,          \* ranges with accesses that may need the memory service; FIFO
                    \* writers too where the host has no partial FIFO write
    FifoFn,         \* ranges that write the FIFO of a host that has one
    ServicedFn,     \* ranges with instructions the host interprets
    ServiceDefs,    \* [Fn -> slots]: what these instructions may write
    CallDepth       \* 64 in externalDestination

Slot == Cacheable \cup Control

ASSUME SlotAssumption ==
    /\ Cacheable \cap Control = {}
    /\ Published \subseteq Control
    /\ Exception \in Published
    /\ CallDepth \in Nat

\* What analyze_function_abi and the propagation over call edges establish:
\* a range hands back whatever it or a callee may define.  That interpreted
\* instructions write no other slot is an assumption: see the README.
ASSUME ABIAssumption ==
    /\ OwnDefs \in [Fn -> SUBSET Slot]
    /\ Used \in [Fn -> SUBSET Slot]
    /\ Input \in [Fn -> SUBSET Slot]
    /\ Output \in [Fn -> SUBSET Slot]
    /\ ServiceDefs \in [Fn -> SUBSET Slot]
    /\ Calls \in [Fn -> SUBSET Fn]
    /\ \A f \in Fn :
          /\ OwnDefs[f] \cup ServiceDefs[f] \subseteq Output[f]
          /\ Input[f] \cup Output[f] \subseteq Used[f]
          /\ \A g \in Calls[f] : Output[g] \subseteq Output[f]

VARIABLES
    mode,       \* "host": outside; "between": in run, between two entries; "body"
    host,       \* slots whose latest value the host has
    vals,       \* slots whose latest value is in state_values
    dirty,      \* dirty_mask
    valid,      \* valid_mask
    depth,      \* number of active frames: guard_steps_ + 1 inside a body
    frame,      \* the active frames, outermost first
    chainable,  \* the exit allows run to go on with another range
    lost        \* history: slots whose latest value was dropped, by which steps
                \* see ReturnNative, MemoryFailed and FifoCompleted

vars == <<mode, host, vals, dirty, valid, depth, frame, chainable, lost>>

Level == 1 .. CallDepth + 1
\* touched: the slots defined on the frame's path since they were last published
Frame == [fn : Fn, cur : SUBSET Slot, touched : SUBSET Slot]
NoFrame == [fn |-> "none", cur |-> {}, touched |-> {}]
NoFrames == [k \in Level |-> NoFrame]

Top == frame[depth]
InBody == mode = "body"

(***************************************************************************)
(* Staging, committing and entering                                        *)
(***************************************************************************)

\* state_values once the locals in `slots` are stored there (stageStateMask)
StagedVals(slots) == (vals \ slots) \cup (slots \cap Top.cur)

\* valid_mask then: only slots modernStateCacheable accepts
Validated(slots) == valid \cup (slots \cap Cacheable)

\* stageStateMask, then moderngekko_commit_state; both masks are cleared
StageAndCommit(slots) ==
    LET staged == dirty \cup slots
    IN  /\ host' = (host \ staged) \cup (staged \cap StagedVals(slots))
        /\ vals' = StagedVals(slots)
        /\ dirty' = {}
        /\ valid' = {}

(* Mutant: what is not passed is read from the host, staged or not.          *)
EntryFrameFromHost(f, arguments, staged, values) ==
    [fn |-> f,
     cur |-> (Input[f] \cap arguments) \cup ((Used[f] \ Input[f]) \cap host),
     touched |-> {}]

\* The locals of a body: inputs from the arguments, every other used slot from
\* the staging array if it is dirty there and from the host if not
EntryFrame(f, arguments, staged, values) ==
    [fn |-> f,
     cur |-> (Input[f] \cap arguments)
               \cup ((Used[f] \ Input[f])
                       \cap ((staged \cap values) \cup (host \ staged))),
     touched |-> {}]

\* The frames once the running one has `cur` and `touched`, and the copies of
\* `old` further out are no longer the latest
FramesAfter(cur, touched, old) ==
    [k \in Level |->
        IF k = depth THEN [fn |-> Top.fn, cur |-> cur, touched |-> touched]
        ELSE IF k < depth THEN [frame[k] EXCEPT !.cur = @ \ old]
        ELSE frame[k]]

\* A structured exit: every frame returns at once, undefined results unread
Unwind(chains) ==
    /\ mode' = "between"
    /\ depth' = 0
    /\ frame' = NoFrames
    /\ chainable' \in chains

Init ==
    /\ mode = "host"
    /\ host = Slot
    /\ vals = {}
    /\ dirty = {}
    /\ valid = {}
    /\ depth = 0
    /\ frame = NoFrames
    /\ chainable = FALSE
    /\ lost = {}

(***************************************************************************)
(* moderngekko_native_run                                                  *)
(***************************************************************************)

\* The host calls run: its state is the state, the masks are cleared
Run ==
    /\ mode = "host"
    /\ mode' = "between"
    /\ host' = Slot
    /\ vals' = {}
    /\ dirty' = {}
    /\ valid' = {}
    /\ chainable' = TRUE
    /\ lost' = {}
    /\ UNCHANGED <<depth, frame>>

\* moderngekko_native_prepare_state, the wrapper's arguments, the body's entry
Enter(f) ==
    LET missing == (Input[f] \cap Cacheable) \ (dirty \cup valid)
        values == (vals \ missing) \cup (missing \cap host)
    IN  /\ mode = "between"
        /\ chainable
        /\ mode' = "body"
        /\ vals' = values
        /\ valid' = valid \cup missing
        /\ depth' = 1
        /\ frame' = [NoFrames EXCEPT ![1] =
                        EntryFrame(f, (values \cap Cacheable) \cup (host \cap Control),
                                   dirty, values)]
        /\ UNCHANGED <<host, dirty, chainable, lost>>

\* run commits what is still staged and returns to the host
Finish ==
    /\ mode = "between"
    /\ mode' = "host"
    /\ host' = (host \ dirty) \cup (dirty \cap vals)
    /\ chainable' = FALSE
    /\ UNCHANGED <<vals, dirty, valid, depth, frame, lost>>

(***************************************************************************)
(* A body                                                                  *)
(***************************************************************************)

\* An instruction defines slot s
Execute(s) ==
    /\ InBody
    /\ s \in OwnDefs[Top.fn]
    /\ host' = host \ {s}
    /\ vals' = vals \ {s}
    /\ frame' = FramesAfter(Top.cur \cup {s}, Top.touched \cup {s}, {s})
    /\ UNCHANGED <<mode, dirty, valid, depth, chainable, lost>>

\* A native call.  may_dirty_before is some superset of the slots defined on
\* the way to it, or all of dirty_ when the call has no edge record.
Call(g, mask) ==
    /\ InBody
    /\ g \in Calls[Top.fn]
    /\ depth <= CallDepth
    /\ Input[g] \subseteq Used[Top.fn]
    /\ Top.touched \subseteq mask
    /\ mask \subseteq Output[Top.fn]
    /\ vals' = StagedVals(mask)
    /\ dirty' = dirty \cup mask
    /\ valid' = Validated(mask)
    /\ depth' = depth + 1
    /\ frame' = [frame EXCEPT ![depth + 1] =
                    EntryFrame(g, Top.cur, dirty \cup mask, StagedVals(mask))]
    /\ UNCHANGED <<mode, host, chainable, lost>>

\* A nested body returns: acceptNativeResult, retainModernPersistentDirty.
\* The dirty bits dropped are meant to be the caller's, whose locals count from
\* now on; those of frames further out go with them.
ReturnNative ==
    LET caller == frame[depth - 1]
        outputs == Output[Top.fn]
        touched == caller.touched \cup outputs
    IN  /\ InBody
        /\ depth > 1
        /\ dirty' = dirty \cap Cacheable
        /\ depth' = depth - 1
        /\ frame' = [frame EXCEPT
                       ![depth] = NoFrame,
                       ![depth - 1] = [fn |-> caller.fn,
                                       cur |-> (caller.cur \ outputs)
                                                  \cup (outputs \cap Top.cur),
                                       touched |-> touched]]
        /\ lost' = lost \cup ((dirty \cap Control) \ touched)
        /\ UNCHANGED <<mode, host, vals, valid, chainable>>

(* Mutant: results are staged and not marked dirty.                          *)
ReturnToRunClean ==
    LET staged == Output[Top.fn] \cap Cacheable
        written == Output[Top.fn] \cap Control
    IN  /\ InBody
        /\ depth = 1
        /\ vals' = (vals \ staged) \cup (staged \cap Top.cur)
        /\ host' = (host \ written) \cup (written \cap Top.cur)
        /\ dirty' = dirty \cap Cacheable
        /\ valid' = Validated(staged)
        /\ Unwind({TRUE})
        /\ UNCHANGED lost

\* The outermost body returns: the wrapper stages the cacheable outputs and
\* writes the others to the host; run keeps the persistent dirty bits
ReturnToRun ==
    LET outputs == Output[Top.fn]
        staged == outputs \cap Cacheable
        written == outputs \cap Control
    IN  /\ InBody
        /\ depth = 1
        /\ vals' = (vals \ staged) \cup (staged \cap Top.cur)
        /\ host' = (host \ written) \cup (written \cap Top.cur)
        /\ dirty' = (dirty \cup staged) \cap Cacheable
        /\ valid' = Validated(staged)
        /\ Unwind({TRUE})
        /\ UNCHANGED lost

(* Mutant: what only callees define is not staged.                           *)
SideExitOwn ==
    /\ InBody
    /\ StageAndCommit(OwnDefs[Top.fn])
    /\ Unwind(BOOLEAN)
    /\ UNCHANGED lost

\* Every exit through materialize: budget guard, call depth, an address outside
\* the native ranges, a return elsewhere, an interception, an unavailable
\* region, an expired service.  Only reason BUDGET lets run chain.
SideExit ==
    /\ InBody
    /\ StageAndCommit(Output[Top.fn])
    /\ Unwind(BOOLEAN)
    /\ UNCHANGED lost

(***************************************************************************)
(* Services                                                                *)
(***************************************************************************)

\* materializeMemoryService, a service that completes
MemoryCompleted ==
    /\ InBody
    /\ Top.fn \in MemFn
    /\ StageAndCommit(Output[Top.fn] \cap Published)
    /\ UNCHANGED <<mode, depth, frame, chainable, lost>>

(* Mutant: a failed service stages what a completed one does.                *)
MemoryFailedUnstaged ==
    /\ InBody
    /\ Top.fn \in MemFn
    /\ StageAndCommit(Output[Top.fn] \cap Published)
    /\ Unwind({FALSE})
    /\ lost' = lost \cup ((Top.touched \cap Control) \ Published)

\* A service that does not: emitMemoryServiceFailure stages the registers too,
\* and leaves.  Control slots outside Published are not staged by either.
MemoryFailed ==
    /\ InBody
    /\ Top.fn \in MemFn
    /\ StageAndCommit(Output[Top.fn] \cap (Published \cup Cacheable))
    /\ Unwind({FALSE})
    /\ lost' = lost \cup ((Top.touched \cap Control) \ Published)

\* A FIFO write that the host does not simply buffer: materializeFifoService,
\* then write_fifo_partial, or the full write after its fallback.  The partial
\* write may raise an exception, which is reloaded if the range uses the slot;
\* the locals of its callers keep the old one.
FifoCompleted(raised) ==
    /\ InBody
    /\ Top.fn \in FifoFn
    /\ raised \subseteq {Exception}
    /\ LET staged == dirty \cup (Output[Top.fn] \cap Control)
           values == StagedVals(Output[Top.fn] \cap Control)
       IN  /\ host' = ((host \ staged) \cup (staged \cap values)) \cup raised
           /\ vals' = values \ raised
    /\ dirty' = {}
    /\ valid' = {}
    /\ frame' = FramesAfter((Top.cur \ raised) \cup (Used[Top.fn] \cap raised),
                            Top.touched, raised)
    /\ lost' = lost \cup
         {s \in raised \ Output[Top.fn] :
            \E k \in 1 .. depth - 1 : s \in Used[frame[k].fn]}
    /\ UNCHANGED <<mode, depth, chainable>>

\* The FIFO service fails: emitMemoryServiceFailure stages the registers, the
\* control slots have been published before
FifoFailed ==
    /\ InBody
    /\ Top.fn \in FifoFn
    /\ StageAndCommit(Output[Top.fn])
    /\ Unwind({FALSE})
    /\ UNCHANGED lost

\* emitInstructionService: materialize, the host executes the instruction and
\* writes `changed`; on success all used slots are reloaded
InstructionDone(changed) ==
    /\ InBody
    /\ Top.fn \in ServicedFn
    /\ changed \subseteq ServiceDefs[Top.fn]
    /\ LET staged == dirty \cup Output[Top.fn]
           values == StagedVals(Output[Top.fn])
           used == Used[Top.fn]
           after == ((host \ staged) \cup (staged \cap values)) \cup changed
       IN  /\ host' = after
           /\ vals' = ((values \ changed) \ used) \cup (used \cap after)
           /\ valid' = used \cap Cacheable
           /\ frame' = FramesAfter(used \cap after, {}, changed)
    /\ dirty' = {}
    /\ UNCHANGED <<mode, depth, chainable, lost>>

\* ... and without: an exception, a fallback or a stop leaves without reloading
InstructionFailed ==
    /\ InBody
    /\ Top.fn \in ServicedFn
    /\ StageAndCommit(Output[Top.fn])
    /\ Unwind({FALSE})
    /\ UNCHANGED lost

Next ==
    \/ Run
    \/ \E f \in Fn : Enter(f)
    \/ Finish
    \/ \E s \in Slot : Execute(s)
    \/ \E g \in Fn, mask \in SUBSET Slot : Call(g, mask)
    \/ ReturnNative
    \/ ReturnToRun
    \/ SideExit
    \/ MemoryCompleted
    \/ MemoryFailed
    \/ \E raised \in SUBSET {Exception} : FifoCompleted(raised)
    \/ FifoFailed
    \/ \E changed \in SUBSET Slot : InstructionDone(changed)
    \/ InstructionFailed

Spec == Init /\ [][Next]_vars

(***************************************************************************)
(* Properties                                                              *)
(***************************************************************************)

TypeOK ==
    /\ mode \in {"host", "between", "body"}
    /\ host \subseteq Slot
    /\ vals \subseteq Slot
    /\ dirty \subseteq Slot
    /\ valid \subseteq Cacheable
    /\ depth \in 0 .. CallDepth + 1
    /\ InBody <=> depth > 0
    /\ frame \in [Level -> Frame \cup {NoFrame}]
    /\ \A k \in 1 .. depth : frame[k] \in Frame
    /\ chainable \in BOOLEAN
    /\ lost \subseteq Control

\* When run returns, the host has the latest value of every general and
\* floating-point register, whatever calls, services, exits and chained ranges
\* there were (commit_state, retainModernPersistentDirty, prepare_state).
RegistersPublished == mode = "host" => Cacheable \subseteq host

\* A body computes with the latest value of every slot it uses: arguments,
\* results of calls, reloads after services and the entry's choice between
\* host and staging array leave no old copy, slots already lost excepted
\* (emitEntry, acceptNativeResult, reloadModernState).
LocalsCurrent == InBody => Used[Top.fn] \subseteq Top.cur \cup lost

\* Between two ranges the masks tell the truth: a dirty slot is a register and
\* is latest in the staging array, a clean one is latest at the host, and a
\* valid one may be read from the array (moderngekko_native_run).
MasksTellTruth ==
    mode = "between" =>
        /\ dirty \subseteq vals \cap Cacheable
        /\ Slot \ dirty \subseteq host \cup lost
        /\ valid \subseteq vals

\* Nothing is lost but at three places: control slots of outer frames when the
\* dirty bits are cut down after a nested call, control slots outside Published
\* when a memory service fails, and an exception raised by a FIFO service
\* below a range that keeps a copy of the slot.  Every other exit, commit and
\* return leaves the host with the latest value of every slot.
OnlyKnownLosses == mode = "host" => Slot \subseteq host \cup lost

\* What src/src/backend/README.md:21 says: architectural state is materialized
\* at runtime boundaries, all of it.
StateMaterialized == mode = "host" => host = Slot
=============================================================================
