------------------------- MODULE StagedStateProofs -------------------------
(***************************************************************************)
(* Proofs about StagedState, for any slots, ranges, ABI and call depth:    *)
(* registers reach the host, bodies compute with the latest values, the    *)
(* masks tell the truth, and nothing is lost but at the known places.      *)
(***************************************************************************)
EXTENDS StagedState, TLAPS

\* Slots whose latest value is not where an entry or a commit would look for it
Unbacked == {s \in Slot : IF s \in dirty THEN s \notin vals ELSE s \notin host}

\* A frame keeps what its range uses and has defined what its range hands back;
\* whatever a range hands back, every range further out does
FramesFit ==
    /\ \A k \in 1 .. depth :
          /\ frame[k].cur \subseteq Used[frame[k].fn]
          /\ frame[k].touched \subseteq Output[frame[k].fn]
    /\ \A j, k \in 1 .. depth :
          j <= k => Output[frame[k].fn] \subseteq Output[frame[j].fn]

\* Control slots are dirty in the array only while a nested call is active
DirtyFits == mode = "between" \/ (InBody /\ depth = 1) => dirty \subseteq Cacheable

\* A slot that is not backed has been defined by the running body
BackedOrTouched ==
    /\ InBody => Unbacked \subseteq Top.touched \cup lost
    /\ mode = "between" => Unbacked \subseteq lost
    /\ mode = "host" => Slot \subseteq host \cup lost

ValidFits == valid \subseteq vals \cup Unbacked

\* A waiting frame has the latest value of all it uses but what its callee
\* hands back
WaitingFit ==
    \A k \in 1 .. depth - 1 :
       Used[frame[k].fn] \subseteq frame[k].cur \cup Output[frame[k + 1].fn] \cup lost

StateInv ==
    /\ TypeOK
    /\ FramesFit
    /\ DirtyFits
    /\ BackedOrTouched
    /\ ValidFits
    /\ LocalsCurrent
    /\ WaitingFit

USE DEF InBody

LEMMA InitInv == Init => StateInv
<1> SUFFICES ASSUME Init PROVE StateInv
  OBVIOUS
<1> USE SlotAssumption DEF Init
<1>1. TypeOK
  <2>1. frame \in [Level -> Frame \cup {NoFrame}]
    BY DEF NoFrames
  <2>2. depth \in 0 .. CallDepth + 1 /\ \A k \in 1 .. depth : frame[k] \in Frame
    OBVIOUS
  <2>3. mode \in {"host", "between", "body"} /\ (InBody <=> depth > 0)
    OBVIOUS
  <2>4. chainable \in BOOLEAN
    BY Zenon
  <2>5. host \subseteq Slot /\ vals \subseteq Slot /\ dirty \subseteq Slot
    OBVIOUS
  <2>6. valid \subseteq Cacheable /\ lost \subseteq Control
    OBVIOUS
  <2>7. QED
    BY <2>1, <2>2, <2>3, <2>4, <2>5, <2>6, Zenon DEF TypeOK
<1>2. FramesFit /\ DirtyFits /\ BackedOrTouched /\ LocalsCurrent /\ WaitingFit
  BY DEF FramesFit, DirtyFits, BackedOrTouched, LocalsCurrent, WaitingFit
<1>3. ValidFits
  BY DEF ValidFits
<1>4. QED
  BY <1>1, <1>2, <1>3 DEF StateInv

(* Outside a body there is nothing to show about frames.                   *)
LEMMA OutsideInv ==
  ASSUME TypeOK', depth' = 0, DirtyFits', BackedOrTouched', ValidFits'
  PROVE  StateInv'
<1>1. ~InBody'
  BY DEF TypeOK
<1>2. FramesFit' /\ WaitingFit' /\ LocalsCurrent'
  BY <1>1 DEF FramesFit, WaitingFit, LocalsCurrent
<1>3. QED
  BY <1>2 DEF StateInv

(* The running frame, by name.                                             *)
LEMMA TopFrame ==
  ASSUME StateInv, InBody
  PROVE  /\ depth \in Level
         /\ Top = frame[depth]
         /\ Top \in Frame
         /\ Top.fn \in Fn
         /\ Top.cur \subseteq Used[Top.fn]
         /\ Top.touched \subseteq Output[Top.fn]
         /\ Output[Top.fn] \subseteq Used[Top.fn]
         /\ Used[Top.fn] \subseteq Slot
         /\ Used[Top.fn] \subseteq Top.cur \cup lost
         /\ Unbacked \subseteq Top.touched \cup lost
<1> USE SlotAssumption
<1>1. depth \in Level /\ depth \in 1 .. depth
  BY DEF StateInv, TypeOK, Level
<1>2. Top = frame[depth] /\ Top \in Frame
  BY <1>1 DEF StateInv, TypeOK, Top
<1>3. Top.fn \in Fn
  BY <1>2 DEF Frame
<1>4. Top.cur \subseteq Used[Top.fn] /\ Top.touched \subseteq Output[Top.fn]
  BY <1>1 DEF StateInv, FramesFit, Top
<1>5. Output[Top.fn] \subseteq Used[Top.fn] /\ Used[Top.fn] \subseteq Slot
  BY <1>3, ABIAssumption
<1>6. QED
  BY <1>1, <1>2, <1>3, <1>4, <1>5 DEF StateInv, LocalsCurrent, BackedOrTouched

(* Staging and committing: what the host has afterwards.                   *)
LEMMA CommittedHost ==
  ASSUME StateInv, InBody, NEW S \in SUBSET Slot, S \subseteq Output[Top.fn]
  PROVE  LET staged == dirty \cup S
             after == (host \ staged) \cup (staged \cap StagedVals(S))
         IN  /\ after \subseteq Slot
             /\ StagedVals(S) \subseteq Slot
             /\ Slot \ after \subseteq (Top.touched \ S) \cup lost
<1>1. vals \subseteq Slot /\ host \subseteq Slot /\ dirty \subseteq Slot
  BY DEF StateInv, TypeOK
<1>2. StagedVals(S) \subseteq Slot
  BY <1>1 DEF StagedVals
<1> DEFINE staged == dirty \cup S
           after == (host \ staged) \cup (staged \cap StagedVals(S))
<1>3. ASSUME NEW s \in Slot, s \notin after, s \notin lost
      PROVE  s \in Top.touched \ S
  <2>1. CASE s \in S
    <3>1. s \notin Top.cur
      BY <1>3, <2>1 DEF StagedVals
    <3>2. s \in Top.cur \cup lost
      BY <2>1, TopFrame
    <3>3. QED
      BY <3>1, <3>2, <1>3
  <2>2. CASE s \notin S
    <3>1. s \in Unbacked
      BY <1>3, <2>2 DEF Unbacked, StagedVals
    <3>2. QED
      BY <3>1, <2>2, <1>3, TopFrame
  <2>3. QED
    BY <2>1, <2>2
<1>4. QED
  BY <1>1, <1>2, <1>3

(* Every structured exit: what it does not stage must be lost or published. *)
LEMMA ExitInv ==
  ASSUME StateInv, InBody, NEW S \in SUBSET Slot, S \subseteq Output[Top.fn],
         NEW chains \in SUBSET BOOLEAN,
         StageAndCommit(S), Unwind(chains),
         lost \subseteq lost', lost' \subseteq Control,
         Top.touched \ S \subseteq lost'
  PROVE  StateInv'
<1>1. host' \subseteq Slot /\ vals' \subseteq Slot /\ Slot \ host' \subseteq lost'
  BY CommittedHost DEF StageAndCommit
<1>2. dirty' = {} /\ valid' = {}
  BY DEF StageAndCommit
<1>3. mode' = "between" /\ depth' = 0 /\ frame' = NoFrames
  BY DEF Unwind
<1>4. chainable' \in BOOLEAN
  BY Zenon DEF Unwind
<1>5. frame' \in [Level -> Frame \cup {NoFrame}]
  BY <1>3 DEF NoFrames
<1>6. depth' \in 0 .. CallDepth + 1 /\ (mode' = "body" <=> depth' > 0)
      /\ \A k \in 1 .. depth' : frame'[k] \in Frame
  BY <1>3, SlotAssumption
<1>7. TypeOK'
  <2>1. mode' \in {"host", "between", "body"}
    BY <1>3
  <2>2. dirty' \subseteq Slot /\ valid' \subseteq Cacheable
    BY <1>2
  <2>3. QED
    BY <1>1, <2>1, <2>2, <1>4, <1>5, <1>6, Zenon DEF TypeOK
<1>8. DirtyFits' /\ ValidFits'
  BY <1>2 DEF DirtyFits, ValidFits
<1>9. BackedOrTouched'
  BY <1>1, <1>2, <1>3 DEF BackedOrTouched, Unbacked
<1>10. QED
  BY <1>3, <1>7, <1>8, <1>9, OutsideInv

LEMMA SideExitInv == StateInv /\ SideExit => StateInv'
<1> SUFFICES ASSUME StateInv, SideExit PROVE StateInv'
  OBVIOUS
<1>1. InBody /\ StageAndCommit(Output[Top.fn]) /\ Unwind(BOOLEAN) /\ lost' = lost
  BY DEF SideExit
<1>2. Output[Top.fn] \in SUBSET Slot /\ Top.touched \subseteq Output[Top.fn]
  BY <1>1, TopFrame
<1>3. lost \subseteq Control
  BY DEF StateInv, TypeOK
<1>4. QED
  BY <1>1, <1>2, <1>3, ExitInv

LEMMA MemoryFailedInv == StateInv /\ MemoryFailed => StateInv'
<1> SUFFICES ASSUME StateInv, MemoryFailed PROVE StateInv'
  OBVIOUS
<1> DEFINE S == Output[Top.fn] \cap (Published \cup Cacheable)
<1>1. /\ InBody
      /\ StageAndCommit(S)
      /\ Unwind({FALSE})
      /\ lost' = lost \cup ((Top.touched \cap Control) \ Published)
  BY DEF MemoryFailed
<1>2. S \in SUBSET Slot /\ S \subseteq Output[Top.fn]
      /\ Top.touched \subseteq Output[Top.fn] /\ Output[Top.fn] \subseteq Slot
  BY <1>1, TopFrame
<1>3. lost \subseteq lost' /\ lost' \subseteq Control
  BY <1>1 DEF StateInv, TypeOK
<1>4. Top.touched \ S \subseteq lost'
  BY <1>1, <1>2 DEF Slot
<1>5. {FALSE} \in SUBSET BOOLEAN
  OBVIOUS
<1> HIDE DEF S
<1>6. QED
  BY <1>1, <1>2, <1>3, <1>4, <1>5, ExitInv

LEMMA ServiceFailedInv == StateInv /\ (FifoFailed \/ InstructionFailed) => StateInv'
<1> SUFFICES ASSUME StateInv, FifoFailed \/ InstructionFailed PROVE StateInv'
  OBVIOUS
<1>1. InBody /\ StageAndCommit(Output[Top.fn]) /\ Unwind({FALSE}) /\ lost' = lost
  BY DEF FifoFailed, InstructionFailed
<1>2. Output[Top.fn] \in SUBSET Slot /\ Top.touched \subseteq Output[Top.fn]
  BY <1>1, TopFrame
<1>3. lost \subseteq Control
  BY DEF StateInv, TypeOK
<1>4. {FALSE} \in SUBSET BOOLEAN
  OBVIOUS
<1>5. QED
  BY <1>1, <1>2, <1>3, <1>4, ExitInv

(* Steps that only read the frames.                                        *)
LEMMA MemoryCompletedInv == StateInv /\ MemoryCompleted => StateInv'
<1> SUFFICES ASSUME StateInv, MemoryCompleted PROVE StateInv'
  OBVIOUS
<1> DEFINE S == Output[Top.fn] \cap Published
<1>1. InBody /\ StageAndCommit(S) /\ UNCHANGED <<mode, depth, frame, chainable, lost>>
  BY DEF MemoryCompleted
<1>2. S \in SUBSET Slot /\ S \subseteq Output[Top.fn]
  BY <1>1, TopFrame
<1> HIDE DEF S
<1>3. /\ host' \subseteq Slot
      /\ vals' \subseteq Slot
      /\ Slot \ host' \subseteq Top.touched \cup lost
      /\ dirty' = {}
      /\ valid' = {}
  BY <1>1, <1>2, CommittedHost DEF StageAndCommit
<1>4. TypeOK'
  BY <1>1, <1>3 DEF StateInv, TypeOK
<1>5. FramesFit' /\ LocalsCurrent' /\ WaitingFit'
  BY <1>1 DEF StateInv, FramesFit, LocalsCurrent, WaitingFit, Top
<1>6. DirtyFits' /\ ValidFits'
  BY <1>3 DEF DirtyFits, ValidFits
<1>7. Top' = Top
  BY <1>1 DEF Top
<1>8. BackedOrTouched'
  <2>1. mode' = "body"
    BY <1>1
  <2>2. Unbacked' \subseteq Top'.touched \cup lost'
    BY <1>1, <1>3, <1>7 DEF Unbacked
  <2>3. QED
    BY <2>1, <2>2 DEF BackedOrTouched
<1>9. QED
  BY <1>4, <1>5, <1>6, <1>8 DEF StateInv

(* Outside a body, with the frames gone.                                   *)
LEMMA RunInv == StateInv /\ Run => StateInv'
<1> SUFFICES ASSUME StateInv, Run PROVE StateInv'
  OBVIOUS
<1>1. depth' = 0
  BY DEF StateInv, TypeOK, Run
<1>2. TypeOK'
  BY DEF StateInv, TypeOK, Run
<1>3. DirtyFits' /\ BackedOrTouched' /\ ValidFits'
  BY DEF Run, DirtyFits, BackedOrTouched, ValidFits, Unbacked
<1>4. QED
  BY <1>1, <1>2, <1>3, OutsideInv

LEMMA FinishInv == StateInv /\ Finish => StateInv'
<1> SUFFICES ASSUME StateInv, Finish PROVE StateInv'
  OBVIOUS
<1>1. depth' = 0
  BY DEF StateInv, TypeOK, Finish
<1>2. TypeOK'
  BY DEF StateInv, TypeOK, Finish
<1>3. Unbacked' = Unbacked /\ Unbacked \subseteq lost
  BY DEF StateInv, Finish, Unbacked, BackedOrTouched
<1>4. Slot \ host' = Unbacked
  BY DEF StateInv, TypeOK, Finish, Unbacked
<1>5. DirtyFits' /\ BackedOrTouched' /\ ValidFits'
  BY <1>3, <1>4 DEF StateInv, Finish, DirtyFits, BackedOrTouched, ValidFits
<1>6. QED
  BY <1>1, <1>2, <1>5, OutsideInv

LEMMA ReturnToRunInv == StateInv /\ ReturnToRun => StateInv'
<1> SUFFICES ASSUME StateInv, ReturnToRun PROVE StateInv'
  OBVIOUS
<1> DEFINE outputs == Output[Top.fn]
           staged == outputs \cap Cacheable
           written == outputs \cap Control
<1>1. /\ InBody
      /\ depth = 1
      /\ vals' = (vals \ staged) \cup (staged \cap Top.cur)
      /\ host' = (host \ written) \cup (written \cap Top.cur)
      /\ dirty' = (dirty \cup staged) \cap Cacheable
      /\ valid' = valid \cup staged
      /\ lost' = lost
      /\ mode' = "between"
      /\ depth' = 0
      /\ frame' = NoFrames
      /\ chainable' \in {TRUE}
  BY DEF ReturnToRun, Unwind, Validated
<1>2. /\ outputs \subseteq Slot
      /\ outputs \subseteq Top.cur \cup lost
      /\ Top.cur \subseteq Slot
      /\ Top.touched \subseteq outputs
      /\ Unbacked \subseteq outputs \cup lost
  BY <1>1, TopFrame
<1> HIDE DEF outputs
<1>3. host \subseteq Slot /\ vals \subseteq Slot /\ dirty \subseteq Cacheable
      /\ valid \subseteq Cacheable /\ lost \subseteq Control
  BY <1>1 DEF StateInv, TypeOK, DirtyFits
<1>4. TypeOK'
  <2>1. frame' \in [Level -> Frame \cup {NoFrame}]
    BY <1>1 DEF NoFrames
  <2>2. depth' \in 0 .. CallDepth + 1 /\ (mode' = "body" <=> depth' > 0)
        /\ \A k \in 1 .. depth' : frame'[k] \in Frame
    BY <1>1, SlotAssumption
  <2>3. chainable' \in BOOLEAN
    BY <1>1, Zenon
  <2>4. mode' \in {"host", "between", "body"}
    BY <1>1
  <2>5. /\ host' \subseteq Slot /\ vals' \subseteq Slot /\ dirty' \subseteq Slot
        /\ valid' \subseteq Cacheable /\ lost' \subseteq Control
    BY <1>1, <1>2, <1>3 DEF Slot
  <2>6. QED
    BY <2>1, <2>2, <2>3, <2>4, <2>5, Zenon DEF TypeOK
<1>5. Unbacked' \subseteq lost'
  BY <1>1, <1>2, <1>3, SlotAssumption DEF Unbacked, Slot
<1>6. DirtyFits' /\ BackedOrTouched'
  BY <1>1, <1>5 DEF DirtyFits, BackedOrTouched
<1>7. ValidFits'
  <2>1. ASSUME NEW s \in valid', s \notin vals'
        PROVE  s \in Unbacked'
    <3>1. CASE s \in staged
      BY <1>1, <1>2, <2>1, <3>1 DEF Unbacked
    <3>2. CASE s \notin staged
      <4>1. s \in valid /\ s \notin vals /\ s \in Cacheable
        BY <1>1, <1>3, <2>1, <3>2
      <4>2. s \in Unbacked
        BY <4>1 DEF StateInv, ValidFits
      <4>3. QED
        BY <1>1, <3>2, <4>1, <4>2, SlotAssumption DEF Unbacked
    <3>3. QED
      BY <3>1, <3>2
  <2>2. QED
    BY <2>1 DEF ValidFits
<1>8. QED
  BY <1>1, <1>4, <1>6, <1>7, OutsideInv

(* What every step inside a body may rely on.                              *)
LEMMA BodyFacts ==
  ASSUME StateInv, InBody
  PROVE  /\ host \subseteq Slot /\ vals \subseteq Slot /\ dirty \subseteq Slot
         /\ valid \subseteq Cacheable
         /\ lost \subseteq Control
         /\ depth \in Level
         /\ frame \in [Level -> Frame \cup {NoFrame}]
         /\ \A k \in 1 .. depth :
               /\ k \in Level
               /\ frame[k] \in Frame
               /\ frame[k].cur \subseteq Used[frame[k].fn]
               /\ frame[k].touched \subseteq Output[frame[k].fn]
         /\ \A j, k \in 1 .. depth :
               j <= k => Output[frame[k].fn] \subseteq Output[frame[j].fn]
<1>1. CallDepth \in Nat
  BY SlotAssumption
<1>2. depth \in Level
  BY TopFrame
<1>3. \A k \in 1 .. depth : k \in Level
  BY <1>1, <1>2 DEF Level
<1>4. QED
  BY <1>2, <1>3 DEF StateInv, TypeOK, FramesFit

(* The frames after a step that leaves their number alone, drops the copies *)
(* of `old` further out and replaces the running frame.                     *)
LEMMA FramesKept ==
  ASSUME StateInv, InBody, NEW old \in SUBSET Slot,
         NEW cur \in SUBSET Slot, NEW touched \in SUBSET Slot,
         cur \subseteq Used[Top.fn], touched \subseteq Output[Top.fn],
         Used[Top.fn] \subseteq cur \cup lost',
         mode' = mode, depth' = depth, lost \subseteq lost',
         frame' = FramesAfter(cur, touched, old),
         old \subseteq Output[Top.fn]
           \/ \A k \in 1 .. depth - 1 : old \cap Used[frame[k].fn]
                                         \subseteq Output[Top.fn] \cup lost'
  PROVE  /\ frame' \in [Level -> Frame \cup {NoFrame}]
         /\ \A k \in 1 .. depth' : frame'[k] \in Frame
         /\ FramesFit' /\ LocalsCurrent' /\ WaitingFit'
         /\ Top'.fn = Top.fn /\ Top'.cur = cur /\ Top'.touched = touched
<1> DEFINE top == [fn |-> Top.fn, cur |-> cur, touched |-> touched]
<1>1. Top \in Frame /\ Top = frame[depth] /\ depth \in Level /\ depth \in 1 .. depth
  BY TopFrame, SlotAssumption DEF Level
<1>2. top \in Frame
  BY <1>1 DEF Frame
<1>3. \A k \in 1 .. depth - 1 :
         /\ k \in Level /\ k \in 1 .. depth /\ k + 1 \in 1 .. depth /\ k < depth
  BY <1>1, BodyFacts, SlotAssumption DEF Level
<1>4. \A k \in 1 .. depth :
         /\ frame[k] \in Frame
         /\ frame[k].cur \subseteq Used[frame[k].fn]
         /\ frame[k].touched \subseteq Output[frame[k].fn]
  BY BodyFacts
<1>5. \A k \in 1 .. depth :
         /\ frame'[k] \in Frame
         /\ frame'[k].fn = frame[k].fn
         /\ frame'[k].cur \subseteq Used[frame[k].fn]
         /\ frame'[k].touched \subseteq Output[frame[k].fn]
         /\ k < depth => frame'[k].cur = frame[k].cur \ old
  <2> SUFFICES ASSUME NEW k \in 1 .. depth
               PROVE  /\ frame'[k] \in Frame
                      /\ frame'[k].fn = frame[k].fn
                      /\ frame'[k].cur \subseteq Used[frame[k].fn]
                      /\ frame'[k].touched \subseteq Output[frame[k].fn]
                      /\ k < depth => frame'[k].cur = frame[k].cur \ old
    OBVIOUS
  <2>1. CASE k = depth
    <3>1. frame'[k] = top
      BY <1>1, <2>1 DEF FramesAfter
    <3>2. QED
      BY <1>1, <1>2, <2>1, <3>1
  <2>2. CASE k # depth
    <3>1. k < depth /\ k \in Level
      BY <1>1, <2>2, SlotAssumption DEF Level
    <3>2. frame'[k] = [frame[k] EXCEPT !.cur = @ \ old]
      BY <2>2, <3>1 DEF FramesAfter
    <3>3. QED
      BY <1>4, <3>2 DEF Frame
  <2>3. QED
    BY <2>1, <2>2
<1>6. frame' \in [Level -> Frame \cup {NoFrame}]
  <2>1. ASSUME NEW k \in Level PROVE frame'[k] \in Frame \cup {NoFrame}
    <3>1. CASE k \in 1 .. depth
      BY <1>5, <3>1
    <3>2. CASE k \notin 1 .. depth
      <4>1. k # depth /\ ~ k < depth
        BY <1>1, <3>2, SlotAssumption DEF Level
      <4>2. frame'[k] = frame[k]
        BY <4>1 DEF FramesAfter
      <4>3. QED
        BY <4>2, BodyFacts
    <3>3. QED
      BY <3>1, <3>2
  <2>2. QED
    BY <2>1 DEF FramesAfter
<1>7. FramesFit'
  BY <1>5, BodyFacts DEF FramesFit
<1>8. Top' = top
  BY <1>1 DEF Top, FramesAfter
<1>9. LocalsCurrent'
  BY <1>8 DEF LocalsCurrent
<1>10. WaitingFit'
  <2> SUFFICES ASSUME NEW k \in 1 .. depth - 1, NEW s \in Used[frame[k].fn],
                      s \notin lost', s \notin Output[frame[k + 1].fn]
               PROVE  s \in frame'[k].cur
    BY <1>3, <1>5 DEF WaitingFit
  <2>1. s \in frame[k].cur
    BY DEF StateInv, WaitingFit
  <2>2. Output[Top.fn] \subseteq Output[frame[k + 1].fn]
    BY <1>1, <1>3, BodyFacts
  <2>3. s \notin old
    BY <2>2
  <2>4. frame'[k].cur = frame[k].cur \ old
    BY <1>3, <1>5
  <2>5. QED
    BY <2>1, <2>3, <2>4
<1>11. QED
  BY <1>5, <1>6, <1>7, <1>8, <1>9, <1>10

LEMMA ExecuteInv == \A s \in Slot : StateInv /\ Execute(s) => StateInv'
<1> SUFFICES ASSUME NEW s \in Slot, StateInv, Execute(s) PROVE StateInv'
  OBVIOUS
<1> DEFINE cur == Top.cur \cup {s}
           touched == Top.touched \cup {s}
<1>1. /\ InBody
      /\ s \in OwnDefs[Top.fn]
      /\ host' = host \ {s}
      /\ vals' = vals \ {s}
      /\ frame' = FramesAfter(cur, touched, {s})
      /\ UNCHANGED <<mode, dirty, valid, depth, chainable, lost>>
  BY DEF Execute
<1>2. s \in Output[Top.fn]
  BY <1>1, TopFrame, ABIAssumption
<1>3. /\ cur \in SUBSET Slot
      /\ touched \in SUBSET Slot
      /\ cur \subseteq Used[Top.fn]
      /\ touched \subseteq Output[Top.fn]
      /\ Used[Top.fn] \subseteq cur \cup lost
  BY <1>1, <1>2, TopFrame
<1> HIDE DEF cur, touched
<1>4. /\ frame' \in [Level -> Frame \cup {NoFrame}]
      /\ \A k \in 1 .. depth' : frame'[k] \in Frame
      /\ FramesFit' /\ LocalsCurrent' /\ WaitingFit'
      /\ Top'.touched = touched
  <2>1. {s} \in SUBSET Slot /\ {s} \subseteq Output[Top.fn]
    BY <1>2
  <2>2. lost' = lost /\ mode' = mode /\ depth' = depth
    BY <1>1
  <2>3. QED
    BY <1>1, <1>3, <2>1, <2>2, FramesKept
<1>5. TypeOK'
  <2>1. host' \subseteq Slot /\ vals' \subseteq Slot
    BY <1>1, BodyFacts
  <2>2. QED
    BY <1>1, <1>4, <2>1 DEF StateInv, TypeOK
<1>6. Unbacked \subseteq Unbacked' /\ Unbacked' \subseteq Unbacked \cup {s}
      /\ s \in Unbacked'
  BY <1>1 DEF Unbacked
<1>7. BackedOrTouched'
  <2>1. Unbacked' \subseteq Top'.touched \cup lost'
    BY <1>1, <1>4, <1>6, TopFrame DEF touched
  <2>2. mode' = "body"
    BY <1>1
  <2>3. QED
    BY <2>1, <2>2 DEF BackedOrTouched
<1>8. DirtyFits' /\ ValidFits'
  BY <1>1, <1>6 DEF StateInv, DirtyFits, ValidFits
<1>9. QED
  BY <1>4, <1>5, <1>7, <1>8 DEF StateInv

LEMMA FifoCompletedInv ==
  \A raised \in SUBSET {Exception} : StateInv /\ FifoCompleted(raised) => StateInv'
<1> SUFFICES ASSUME NEW raised \in SUBSET {Exception}, StateInv, FifoCompleted(raised)
             PROVE  StateInv'
  OBVIOUS
<1> DEFINE S == Output[Top.fn] \cap Control
           after == (host \ (dirty \cup S)) \cup ((dirty \cup S) \cap StagedVals(S))
           cur == (Top.cur \ raised) \cup (Used[Top.fn] \cap raised)
           gone == {s \in raised \ Output[Top.fn] :
                      \E k \in 1 .. depth - 1 : s \in Used[frame[k].fn]}
<1>1. /\ InBody
      /\ host' = after \cup raised
      /\ vals' = StagedVals(S) \ raised
      /\ dirty' = {}
      /\ valid' = {}
      /\ frame' = FramesAfter(cur, Top.touched, raised)
      /\ lost' = lost \cup gone
      /\ UNCHANGED <<mode, depth, chainable>>
  BY DEF FifoCompleted
<1>2. raised \in SUBSET Slot /\ gone \subseteq Control
  BY SlotAssumption DEF Slot
<1>3. S \in SUBSET Slot /\ S \subseteq Output[Top.fn]
  BY <1>1, TopFrame
<1>4. /\ after \subseteq Slot
      /\ StagedVals(S) \subseteq Slot
      /\ Slot \ after \subseteq Top.touched \cup lost
  <2> HIDE DEF S
  <2>1. QED
    BY <1>1, <1>3, CommittedHost
<1>5. /\ cur \in SUBSET Slot
      /\ Top.touched \in SUBSET Slot
      /\ cur \subseteq Used[Top.fn]
      /\ Top.touched \subseteq Output[Top.fn]
      /\ Used[Top.fn] \subseteq cur \cup lost'
  BY <1>1, TopFrame
<1>6. \A k \in 1 .. depth - 1 :
         raised \cap Used[frame[k].fn] \subseteq Output[Top.fn] \cup lost'
  BY <1>1
<1>7. lost \subseteq lost' /\ lost' \subseteq Control
  BY <1>1, <1>2, BodyFacts
<1>8. host' \subseteq Slot /\ vals' \subseteq Slot
      /\ Slot \ host' \subseteq Top.touched \cup lost'
  BY <1>1, <1>2, <1>4, <1>7
<1> HIDE DEF S, after, cur, gone
<1>9. /\ frame' \in [Level -> Frame \cup {NoFrame}]
      /\ \A k \in 1 .. depth' : frame'[k] \in Frame
      /\ FramesFit' /\ LocalsCurrent' /\ WaitingFit'
      /\ Top'.touched = Top.touched
  <2>1. mode' = mode /\ depth' = depth
    BY <1>1
  <2>2. QED
    BY <1>1, <1>2, <1>5, <1>6, <1>7, <2>1, FramesKept
<1>10. TypeOK'
  BY <1>1, <1>7, <1>8, <1>9 DEF StateInv, TypeOK
<1>11. BackedOrTouched'
  <2>1. Unbacked' \subseteq Top'.touched \cup lost'
    BY <1>1, <1>8, <1>9 DEF Unbacked
  <2>2. mode' = "body"
    BY <1>1
  <2>3. QED
    BY <2>1, <2>2 DEF BackedOrTouched
<1>12. DirtyFits' /\ ValidFits'
  BY <1>1 DEF DirtyFits, ValidFits
<1>13. QED
  BY <1>9, <1>10, <1>11, <1>12 DEF StateInv

LEMMA InstructionDoneInv ==
  \A changed \in SUBSET Slot : StateInv /\ InstructionDone(changed) => StateInv'
<1> SUFFICES ASSUME NEW changed \in SUBSET Slot, StateInv, InstructionDone(changed)
             PROVE  StateInv'
  OBVIOUS
<1> DEFINE S == Output[Top.fn]
           values == StagedVals(S)
           used == Used[Top.fn]
           committed == (host \ (dirty \cup S)) \cup ((dirty \cup S) \cap values)
           after == committed \cup changed
<1>1. /\ InBody
      /\ changed \subseteq ServiceDefs[Top.fn]
      /\ host' = after
      /\ vals' = ((values \ changed) \ used) \cup (used \cap after)
      /\ valid' = used \cap Cacheable
      /\ dirty' = {}
      /\ frame' = FramesAfter(used \cap after, {}, changed)
      /\ UNCHANGED <<mode, depth, chainable, lost>>
  BY DEF InstructionDone
<1>2. changed \subseteq S /\ used \subseteq Slot /\ S \in SUBSET Slot
  BY <1>1, TopFrame, ABIAssumption
<1>3. /\ after \subseteq Slot
      /\ values \subseteq Slot
      /\ Slot \ after \subseteq lost
  <2>1. /\ committed \subseteq Slot
        /\ values \subseteq Slot
        /\ Slot \ committed \subseteq (Top.touched \ S) \cup lost
    <3>1. S \in SUBSET Slot /\ S \subseteq Output[Top.fn]
      BY <1>2
    <3>2. QED
      BY <1>1, <3>1, CommittedHost
  <2>2. Top.touched \subseteq S
    BY <1>1, TopFrame
  <2> HIDE DEF committed
  <2>3. QED
    BY <2>1, <2>2
<1> HIDE DEF values, committed, after
<1>4. /\ frame' \in [Level -> Frame \cup {NoFrame}]
      /\ \A k \in 1 .. depth' : frame'[k] \in Frame
      /\ FramesFit' /\ LocalsCurrent' /\ WaitingFit'
      /\ Top'.touched = {}
  <2>1. /\ used \cap after \in SUBSET Slot
        /\ used \cap after \subseteq Used[Top.fn]
        /\ Used[Top.fn] \subseteq (used \cap after) \cup lost'
    BY <1>1, <1>2, <1>3
  <2>2. {} \in SUBSET Slot /\ {} \subseteq Output[Top.fn]
    OBVIOUS
  <2>3. lost' = lost /\ mode' = mode /\ depth' = depth
    BY <1>1
  <2> DEFINE cur == used \cap after
  <2>4. frame' = FramesAfter(cur, {}, changed)
    BY <1>1
  <2> HIDE DEF cur
  <2>5. QED
    BY <1>1, <1>2, <2>1, <2>2, <2>3, <2>4, FramesKept DEF cur
<1>5. host' \subseteq Slot /\ vals' \subseteq Slot /\ valid' \subseteq Cacheable
      /\ Slot \ host' \subseteq lost'
  BY <1>1, <1>2, <1>3
<1>6. TypeOK'
  BY <1>1, <1>4, <1>5 DEF StateInv, TypeOK
<1>7. BackedOrTouched'
  BY <1>1, <1>5 DEF BackedOrTouched, Unbacked
<1>8. DirtyFits' /\ ValidFits'
  BY <1>1, <1>2 DEF DirtyFits, ValidFits, Unbacked
<1>9. QED
  BY <1>4, <1>6, <1>7, <1>8 DEF StateInv

(* A body starts with the latest value of all it uses, given arguments that *)
(* have its inputs and a staging array that truly backs the host.          *)
LEMMA EntryCurrent ==
  ASSUME NEW f \in Fn, NEW arguments, NEW staged, NEW values, NEW gone,
         Input[f] \subseteq arguments \cup gone,
         {s \in Slot : IF s \in staged THEN s \notin values ELSE s \notin host}
           \subseteq gone
  PROVE  LET entered == EntryFrame(f, arguments, staged, values)
         IN  /\ entered \in Frame
             /\ entered.fn = f
             /\ entered.cur \subseteq Used[f]
             /\ entered.touched = {}
             /\ Used[f] \subseteq entered.cur \cup gone
<1> DEFINE entered == EntryFrame(f, arguments, staged, values)
<1>1. Input[f] \subseteq Used[f] /\ Used[f] \subseteq Slot
  BY ABIAssumption
<1>2. /\ entered.fn = f
      /\ entered.touched = {}
      /\ entered.cur = (Input[f] \cap arguments)
                          \cup ((Used[f] \ Input[f])
                                  \cap ((staged \cap values) \cup (host \ staged)))
  BY DEF EntryFrame
<1>3. entered.cur \subseteq Used[f]
  BY <1>1, <1>2
<1>4. entered \in Frame
  BY <1>1, <1>3 DEF EntryFrame, Frame
<1>5. Used[f] \subseteq entered.cur \cup gone
  <2> HIDE DEF entered
  <2>1. QED
    BY <1>1, <1>2
<1>6. QED
  BY <1>2, <1>3, <1>4, <1>5

LEMMA EnterInv == \A f \in Fn : StateInv /\ Enter(f) => StateInv'
<1> SUFFICES ASSUME NEW f \in Fn, StateInv, Enter(f) PROVE StateInv'
  OBVIOUS
<1> USE SlotAssumption
<1> DEFINE missing == (Input[f] \cap Cacheable) \ (dirty \cup valid)
           values == (vals \ missing) \cup (missing \cap host)
           arguments == (values \cap Cacheable) \cup (host \cap Control)
           entered == EntryFrame(f, arguments, dirty, values)
<1>1. /\ mode = "between"
      /\ mode' = "body"
      /\ vals' = values
      /\ valid' = valid \cup missing
      /\ depth' = 1
      /\ frame' = [NoFrames EXCEPT ![1] = entered]
      /\ UNCHANGED <<host, dirty, chainable, lost>>
  BY DEF Enter
<1>2. /\ host \subseteq Slot /\ vals \subseteq Slot /\ dirty \subseteq Cacheable
      /\ valid \subseteq Cacheable /\ lost \subseteq Control
      /\ Unbacked \subseteq lost /\ valid \subseteq vals \cup Unbacked
  BY <1>1 DEF StateInv, TypeOK, DirtyFits, BackedOrTouched, ValidFits
<1>3. valid \subseteq vals
  BY <1>2
<1>4. missing \subseteq host /\ missing \cap dirty = {} /\ missing \subseteq Cacheable
  BY <1>2 DEF Unbacked, Slot
<1>5. Input[f] \subseteq Slot
  BY ABIAssumption
<1>6. {s \in Slot : IF s \in dirty THEN s \notin values ELSE s \notin host} \subseteq lost
  BY <1>2, <1>4 DEF Unbacked
<1>7. Input[f] \subseteq arguments \cup lost
  <2>1. ASSUME NEW s \in Input[f], s \in Cacheable PROVE s \in values
    BY <1>2, <1>3, <1>4, <2>1 DEF Unbacked, Slot
  <2>2. ASSUME NEW s \in Input[f], s \in Control PROVE s \in host \cup lost
    BY <1>2, <2>2 DEF Unbacked, Slot
  <2>3. QED
    BY <1>5, <2>1, <2>2 DEF Slot
<1>8. values \subseteq Slot
  BY <1>2
<1> HIDE DEF arguments, values
<1>9. /\ entered \in Frame
      /\ entered.fn = f
      /\ entered.cur \subseteq Used[f]
      /\ entered.touched = {}
      /\ Used[f] \subseteq entered.cur \cup lost
  BY <1>6, <1>7, EntryCurrent
<1> HIDE DEF entered
<1>10. 1 \in Level
  BY DEF Level
<1>11. frame' \in [Level -> Frame \cup {NoFrame}] /\ frame'[1] = entered
  BY <1>1, <1>9, <1>10 DEF NoFrames
<1>12. \A k \in 1 .. depth' : k = 1
  BY <1>1
<1>13. TypeOK'
  <2>1. /\ mode' \in {"host", "between", "body"}
        /\ depth' \in 0 .. CallDepth + 1
        /\ mode' = "body" <=> depth' > 0
    BY <1>1
  <2>2. \A k \in 1 .. depth' : frame'[k] \in Frame
    BY <1>9, <1>11, <1>12
  <2>3. /\ host' \subseteq Slot /\ vals' \subseteq Slot /\ dirty' \subseteq Slot
        /\ valid' \subseteq Cacheable /\ lost' \subseteq Control
    BY <1>1, <1>2, <1>4, <1>8 DEF Slot
  <2>4. chainable' \in BOOLEAN
    BY <1>1 DEF StateInv, TypeOK
  <2>5. QED
    BY <1>11, <2>1, <2>2, <2>3, <2>4, Zenon DEF TypeOK
<1>14. FramesFit' /\ WaitingFit'
  BY <1>1, <1>9, <1>11, <1>12 DEF FramesFit, WaitingFit
<1>15. Top' = entered
  BY <1>1, <1>11 DEF Top
<1>16. LocalsCurrent' /\ DirtyFits'
  BY <1>1, <1>2, <1>9, <1>15 DEF LocalsCurrent, DirtyFits
<1>17. BackedOrTouched' /\ ValidFits'
  BY <1>1, <1>3, <1>4, <1>6 DEF BackedOrTouched, ValidFits, Unbacked, values
<1>18. QED
  BY <1>13, <1>14, <1>16, <1>17 DEF StateInv

LEMMA CallInv ==
  \A g \in Fn, mask \in SUBSET Slot : StateInv /\ Call(g, mask) => StateInv'
<1> SUFFICES ASSUME NEW g \in Fn, NEW mask \in SUBSET Slot, StateInv, Call(g, mask)
             PROVE  StateInv'
  OBVIOUS
<1> USE SlotAssumption
<1> DEFINE staged == dirty \cup mask
           values == StagedVals(mask)
           entered == EntryFrame(g, Top.cur, staged, values)
<1>1. /\ InBody
      /\ g \in Calls[Top.fn]
      /\ depth <= CallDepth
      /\ Input[g] \subseteq Used[Top.fn]
      /\ Top.touched \subseteq mask
      /\ mask \subseteq Output[Top.fn]
      /\ vals' = values
      /\ dirty' = staged
      /\ valid' = valid \cup (mask \cap Cacheable)
      /\ depth' = depth + 1
      /\ frame' = [frame EXCEPT ![depth + 1] = entered]
      /\ UNCHANGED <<mode, host, chainable, lost>>
  BY DEF Call, Validated
<1>2. /\ depth \in Level
      /\ Top = frame[depth]
      /\ Top.fn \in Fn
      /\ Output[Top.fn] \subseteq Used[Top.fn]
      /\ Used[Top.fn] \subseteq Slot
      /\ Used[Top.fn] \subseteq Top.cur \cup lost
      /\ Unbacked \subseteq Top.touched \cup lost
  BY <1>1, TopFrame
<1>3. Output[g] \subseteq Output[Top.fn]
  BY <1>1, <1>2, ABIAssumption
<1>4. values = (vals \ mask) \cup (mask \cap Top.cur)
  BY DEF StagedVals
<1>5. {s \in Slot : IF s \in staged THEN s \notin values ELSE s \notin host} \subseteq lost
  BY <1>1, <1>2, <1>4 DEF Unbacked
<1>6. Input[g] \subseteq Top.cur \cup lost
  BY <1>1, <1>2
<1>7. values \subseteq Slot /\ staged \subseteq Slot
  BY <1>1, <1>4, BodyFacts
<1> HIDE DEF values, staged
<1>8. /\ entered \in Frame
      /\ entered.fn = g
      /\ entered.cur \subseteq Used[g]
      /\ entered.touched = {}
      /\ Used[g] \subseteq entered.cur \cup lost
  BY <1>5, <1>6, EntryCurrent
<1> HIDE DEF entered
<1>9. /\ depth \in Nat
      /\ depth > 0
      /\ depth + 1 \in Level
      /\ \A k \in 1 .. depth : k \in Level /\ k # depth + 1
      /\ \A k \in 1 .. depth' : k \in 1 .. depth \/ k = depth + 1
  BY <1>1, <1>2 DEF Level
<1>10. /\ frame' \in [Level -> Frame \cup {NoFrame}]
       /\ frame'[depth + 1] = entered
       /\ \A k \in 1 .. depth : frame'[k] = frame[k]
  <2>1. frame \in [Level -> Frame \cup {NoFrame}]
    BY <1>1, BodyFacts
  <2>2. QED
    BY <1>1, <1>8, <1>9, <2>1
<1>11. TypeOK'
  <2>1. \A k \in 1 .. depth' : frame'[k] \in Frame
    BY <1>1, <1>8, <1>9, <1>10, BodyFacts
  <2>2. depth' \in 0 .. CallDepth + 1 /\ (mode' = "body" <=> depth' > 0)
    BY <1>1, <1>9
  <2>3. /\ host' \subseteq Slot /\ vals' \subseteq Slot /\ dirty' \subseteq Slot
        /\ valid' \subseteq Cacheable /\ lost' \subseteq Control
    BY <1>1, <1>7, BodyFacts
  <2>4. chainable' \in BOOLEAN /\ mode' \in {"host", "between", "body"}
    BY <1>1 DEF StateInv, TypeOK
  <2>5. QED
    BY <1>10, <2>1, <2>2, <2>3, <2>4, Zenon DEF TypeOK
<1>12. FramesFit'
  <2>1. \A k \in 1 .. depth' : /\ frame'[k].cur \subseteq Used[frame'[k].fn]
                              /\ frame'[k].touched \subseteq Output[frame'[k].fn]
    BY <1>1, <1>8, <1>9, <1>10, BodyFacts
  <2>2. \A j \in 1 .. depth : Output[g] \subseteq Output[frame[j].fn]
    BY <1>1, <1>2, <1>3, <1>9, BodyFacts
  <2>3. ASSUME NEW j \in 1 .. depth', NEW k \in 1 .. depth', j <= k
        PROVE  Output[frame'[k].fn] \subseteq Output[frame'[j].fn]
    <3>1. CASE k \in 1 .. depth
      <4>1. j \in 1 .. depth
        BY <1>9, <2>3, <3>1
      <4>2. QED
        BY <1>1, <1>10, <2>3, <3>1, <4>1, BodyFacts
    <3>2. CASE k = depth + 1
      BY <1>8, <1>9, <1>10, <2>2, <3>2
    <3>3. QED
      BY <1>9, <3>1, <3>2
  <2>4. QED
    BY <2>1, <2>3 DEF FramesFit
<1>13. Top' = entered
  BY <1>1, <1>10 DEF Top
<1>14. LocalsCurrent' /\ DirtyFits'
  BY <1>1, <1>8, <1>9, <1>13 DEF LocalsCurrent, DirtyFits
<1>15. BackedOrTouched'
  BY <1>1, <1>5 DEF BackedOrTouched, Unbacked
<1>16. ValidFits'
  BY <1>1, <1>4 DEF StateInv, ValidFits, Unbacked, staged
<1>17. WaitingFit'
  <2> SUFFICES ASSUME NEW k \in 1 .. depth
               PROVE  Used[frame[k].fn]
                        \subseteq frame[k].cur \cup Output[frame'[k + 1].fn] \cup lost
    BY <1>1, <1>9, <1>10 DEF WaitingFit
  <2>1. CASE k = depth
    BY <1>2, <2>1
  <2>2. CASE k # depth
    <3>1. k \in 1 .. depth - 1 /\ k + 1 \in 1 .. depth
      BY <1>9, <2>2
    <3>2. frame'[k + 1] = frame[k + 1]
      BY <1>10, <3>1
    <3>3. QED
      BY <3>1, <3>2 DEF StateInv, WaitingFit
  <2>3. QED
    BY <2>1, <2>2
<1>18. QED
  BY <1>11, <1>12, <1>14, <1>15, <1>16, <1>17 DEF StateInv

LEMMA ReturnNativeInv == StateInv /\ ReturnNative => StateInv'
<1> SUFFICES ASSUME StateInv, ReturnNative PROVE StateInv'
  OBVIOUS
<1> USE SlotAssumption
<1> DEFINE caller == frame[depth - 1]
           outputs == Output[Top.fn]
           touched == caller.touched \cup outputs
           cur == (caller.cur \ outputs) \cup (outputs \cap Top.cur)
           back == [fn |-> caller.fn, cur |-> cur, touched |-> touched]
<1>1. /\ InBody
      /\ depth > 1
      /\ dirty' = dirty \cap Cacheable
      /\ depth' = depth - 1
      /\ frame' = [frame EXCEPT ![depth] = NoFrame, ![depth - 1] = back]
      /\ lost' = lost \cup ((dirty \cap Control) \ touched)
      /\ UNCHANGED <<mode, host, vals, valid, chainable>>
  BY DEF ReturnNative
<1>2. /\ depth \in Level
      /\ Top = frame[depth]
      /\ Top.fn \in Fn
      /\ outputs \subseteq Top.cur \cup lost
      /\ Top.touched \subseteq outputs
      /\ Unbacked \subseteq Top.touched \cup lost
  BY <1>1, TopFrame
<1>3. /\ depth \in Nat
      /\ depth - 1 \in 1 .. depth
      /\ depth - 1 \in Level
      /\ \A k \in 1 .. depth' : k \in 1 .. depth /\ k \in Level /\ k # depth
  BY <1>1, <1>2 DEF Level
<1>4. /\ caller \in Frame
      /\ caller.fn \in Fn
      /\ caller.cur \subseteq Used[caller.fn]
      /\ caller.touched \subseteq Output[caller.fn]
      /\ outputs \subseteq Output[caller.fn]
  <2>1. caller \in Frame /\ caller.cur \subseteq Used[caller.fn]
        /\ caller.touched \subseteq Output[caller.fn]
    BY <1>1, <1>3, BodyFacts
  <2>2. outputs \subseteq Output[caller.fn]
    BY <1>1, <1>2, <1>3, BodyFacts
  <2>3. QED
    BY <2>1, <2>2 DEF Frame
<1>5. /\ Output[caller.fn] \subseteq Used[caller.fn]
      /\ Used[caller.fn] \subseteq Slot
      /\ Used[caller.fn] \subseteq caller.cur \cup outputs \cup lost
  <2>1. depth - 1 \in 1 .. depth - 1 /\ (depth - 1) + 1 = depth
    BY <1>1, <1>3
  <2>2. Used[caller.fn] \subseteq caller.cur \cup outputs \cup lost
    BY <1>2, <2>1 DEF StateInv, WaitingFit
  <2>3. QED
    BY <1>4, <2>2, ABIAssumption
<1>6. lost \subseteq lost' /\ lost' \subseteq Control
  BY <1>1, BodyFacts
<1> HIDE DEF caller, outputs
<1>7. /\ cur \subseteq Used[caller.fn]
      /\ touched \subseteq Output[caller.fn]
      /\ Used[caller.fn] \subseteq cur \cup lost'
  BY <1>2, <1>4, <1>5, <1>6
<1> HIDE DEF cur, touched
<1>8. back \in Frame
  BY <1>4, <1>5, <1>7 DEF Frame
<1>9. back.fn = caller.fn /\ back.cur = cur /\ back.touched = touched
  OBVIOUS
<1> HIDE DEF back
<1>10. /\ frame' \in [Level -> Frame \cup {NoFrame}]
       /\ frame'[depth - 1] = back
       /\ \A k \in 1 .. depth - 2 : frame'[k] = frame[k]
  <2>1. frame \in [Level -> Frame \cup {NoFrame}]
    BY <1>1, BodyFacts
  <2>2. \A k \in 1 .. depth - 2 : k \in Level /\ k # depth /\ k # depth - 1
    BY <1>1, <1>3 DEF Level
  <2>3. QED
    BY <1>1, <1>2, <1>3, <1>8, <2>1, <2>2
<1>11. \A k \in 1 .. depth' :
          \/ k = depth - 1
          \/ k \in 1 .. depth - 2 /\ k \in 1 .. depth /\ k \in 1 .. depth - 1
  BY <1>1, <1>3
<1>12. \A k \in 1 .. depth' : /\ frame'[k] \in Frame
                             /\ frame'[k].fn = frame[k].fn
                             /\ frame'[k].cur \subseteq Used[frame[k].fn]
                             /\ frame'[k].touched \subseteq Output[frame[k].fn]
  <2> SUFFICES ASSUME NEW k \in 1 .. depth'
               PROVE  /\ frame'[k] \in Frame
                      /\ frame'[k].fn = frame[k].fn
                      /\ frame'[k].cur \subseteq Used[frame[k].fn]
                      /\ frame'[k].touched \subseteq Output[frame[k].fn]
    OBVIOUS
  <2>1. CASE k = depth - 1
    BY <1>7, <1>8, <1>9, <1>10, <2>1 DEF caller
  <2>2. CASE k \in 1 .. depth - 2 /\ k \in 1 .. depth
    BY <1>1, <1>10, <2>2, BodyFacts
  <2>3. QED
    BY <1>11, <2>1, <2>2
<1>13. TypeOK'
  <2>1. depth' \in 0 .. CallDepth + 1 /\ (mode' = "body" <=> depth' > 0)
    BY <1>1, <1>3 DEF Level
  <2>2. /\ host' \subseteq Slot /\ vals' \subseteq Slot /\ dirty' \subseteq Slot
        /\ valid' \subseteq Cacheable /\ lost' \subseteq Control
    BY <1>1, <1>6, BodyFacts
  <2>3. chainable' \in BOOLEAN /\ mode' \in {"host", "between", "body"}
    BY <1>1 DEF StateInv, TypeOK
  <2>4. QED
    BY <1>10, <1>12, <2>1, <2>2, <2>3, Zenon DEF TypeOK
<1>14. FramesFit'
  BY <1>1, <1>3, <1>12, BodyFacts DEF FramesFit
<1>15. Top' = back
  BY <1>1, <1>10 DEF Top
<1>16. LocalsCurrent' /\ DirtyFits'
  BY <1>1, <1>7, <1>9, <1>15, <1>4 DEF LocalsCurrent, DirtyFits, back
<1>17. BackedOrTouched'
  <2>1. Unbacked' \subseteq touched \cup lost'
    <3> SUFFICES ASSUME NEW s \in Unbacked', s \notin lost' PROVE s \in touched
      OBVIOUS
    <3>1. CASE s \in dirty /\ s \in Control
      BY <1>1, <3>1
    <3>2. CASE ~(s \in dirty /\ s \in Control)
      <4>1. s \in Unbacked
        BY <1>1, <3>2 DEF Unbacked, Slot
      <4>2. QED
        BY <1>2, <1>6, <4>1 DEF touched
    <3>3. QED
      BY <3>1, <3>2
  <2>2. mode' = "body"
    BY <1>1
  <2>3. QED
    BY <1>9, <1>15, <2>1, <2>2 DEF BackedOrTouched
<1>18. ValidFits'
  <2>1. valid \subseteq Cacheable /\ valid \subseteq vals \cup Unbacked
    BY <1>1, BodyFacts DEF StateInv, ValidFits
  <2>2. Unbacked \cap Cacheable \subseteq Unbacked'
    BY <1>1 DEF Unbacked
  <2>3. QED
    BY <1>1, <2>1, <2>2 DEF ValidFits
<1>19. WaitingFit'
  <2> SUFFICES ASSUME NEW k \in 1 .. depth' - 1
               PROVE  Used[frame'[k].fn]
                        \subseteq frame'[k].cur \cup Output[frame'[k + 1].fn] \cup lost'
    BY DEF WaitingFit
  <2>1. k \in 1 .. depth - 2 /\ k \in 1 .. depth - 1 /\ k + 1 \in 1 .. depth'
    BY <1>1, <1>3
  <2>2. frame'[k] = frame[k] /\ frame'[k + 1].fn = frame[k + 1].fn
    BY <1>10, <1>12, <2>1
  <2>3. QED
    BY <1>6, <2>1, <2>2 DEF StateInv, WaitingFit
<1>20. QED
  BY <1>13, <1>14, <1>16, <1>17, <1>18, <1>19 DEF StateInv

LEMMA StutterInv == StateInv /\ UNCHANGED vars => StateInv'
<1> SUFFICES ASSUME StateInv, UNCHANGED vars PROVE StateInv'
  OBVIOUS
<1> USE DEF vars
<1>1. TypeOK' /\ FramesFit' /\ DirtyFits'
  BY DEF StateInv, TypeOK, FramesFit, DirtyFits
<1>2. Top' = Top /\ Unbacked' = Unbacked
  BY DEF Top, Unbacked
<1>3. BackedOrTouched' /\ ValidFits' /\ LocalsCurrent' /\ WaitingFit'
  BY <1>2 DEF StateInv, BackedOrTouched, ValidFits, LocalsCurrent, WaitingFit
<1>4. QED
  BY <1>1, <1>3 DEF StateInv

THEOREM Invariance == Spec => []StateInv
<1>1. Init => StateInv
  BY InitInv
<1>2. StateInv /\ [Next]_vars => StateInv'
  <2> SUFFICES ASSUME StateInv, [Next]_vars PROVE StateInv'
    OBVIOUS
  <2>1. CASE Run \/ Finish
    BY <2>1, RunInv, FinishInv
  <2>2. CASE \E f \in Fn : Enter(f)
    BY <2>2, EnterInv
  <2>3. CASE \E s \in Slot : Execute(s)
    BY <2>3, ExecuteInv
  <2>4. CASE \E g \in Fn, mask \in SUBSET Slot : Call(g, mask)
    BY <2>4, CallInv
  <2>5. CASE ReturnNative \/ ReturnToRun
    BY <2>5, ReturnNativeInv, ReturnToRunInv
  <2>6. CASE SideExit \/ MemoryFailed \/ FifoFailed \/ InstructionFailed
    BY <2>6, SideExitInv, MemoryFailedInv, ServiceFailedInv
  <2>7. CASE MemoryCompleted
    BY <2>7, MemoryCompletedInv
  <2>8. CASE \E raised \in SUBSET {Exception} : FifoCompleted(raised)
    BY <2>8, FifoCompletedInv
  <2>9. CASE \E changed \in SUBSET Slot : InstructionDone(changed)
    BY <2>9, InstructionDoneInv
  <2>10. CASE UNCHANGED vars
    BY <2>10, StutterInv
  <2>11. QED
    BY <2>1, <2>2, <2>3, <2>4, <2>5, <2>6, <2>7, <2>8, <2>9, <2>10 DEF Next
<1>3. QED
  BY <1>1, <1>2, PTL DEF Spec

(* The types, for any slots, ranges and call depth.                        *)
THEOREM Types == Spec => []TypeOK
<1>1. StateInv => TypeOK
  BY DEF StateInv
<1>2. QED
  BY <1>1, Invariance, PTL

(* Whatever calls, services, exits and chained ranges run goes through, it *)
(* returns with every register's latest value at the host.                 *)
THEOREM RegistersReachHost == Spec => []RegistersPublished
<1>1. StateInv => RegistersPublished
  BY SlotAssumption DEF StateInv, TypeOK, BackedOrTouched, RegistersPublished, Slot
<1>2. QED
  BY <1>1, Invariance, PTL

(* No body computes with an old copy of a slot that was not lost before.   *)
THEOREM LocalsAreCurrent == Spec => []LocalsCurrent
<1>1. StateInv => LocalsCurrent
  BY DEF StateInv
<1>2. QED
  BY <1>1, Invariance, PTL

(* The dirty and valid masks describe the staging array between ranges.    *)
THEOREM MasksAreTrue == Spec => []MasksTellTruth
<1>1. StateInv => MasksTellTruth
  BY SlotAssumption DEF StateInv, TypeOK, DirtyFits, BackedOrTouched, ValidFits,
     MasksTellTruth, Unbacked, Slot
<1>2. QED
  BY <1>1, Invariance, PTL

(* Apart from the three losses the history variable names, run returns with *)
(* the whole state at the host.                                            *)
THEOREM LossesAreKnown == Spec => []OnlyKnownLosses
<1>1. StateInv => OnlyKnownLosses
  BY DEF StateInv, BackedOrTouched, OnlyKnownLosses
<1>2. QED
  BY <1>1, Invariance, PTL
=============================================================================
