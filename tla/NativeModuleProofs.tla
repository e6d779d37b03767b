------------------------- MODULE NativeModuleProofs -------------------------
(***************************************************************************)
(* What NativeModule promises for every number of threads, ranges and      *)
(* words, every generation width and every counter wide enough.            *)
(***************************************************************************)
EXTENDS NativeModule, FiniteSetTheorems, TLAPS

(* The values the actions start their variables from fit the variables.    *)
LEMMA Widths ==
  /\ 0 \in 0..GenMod - 1
  /\ 0 \in 0..CounterMod - 1
  /\ RangeCount \in 0..CounterMod - 1
  /\ 1 \in 1..WordCount + 1
  /\ 1 \in Index
  /\ RangeCount \in Nat \ {0} /\ GenMod \in Nat \ {0} /\ CounterMod \in Nat
BY SizeAssumption, WidthAssumption, ThreadAssumption, FS_CardinalityType DEF Index

(* The zeroed storage of a freshly loaded module is well typed.            *)
LEMMA InitTypeOK == ASSUME Init PROVE TypeOK
<1>1. SharedTypeOK
  BY Widths DEF Init, SharedTypeOK
<1>2. MemoryTypeOK
  BY DEF Init, MemoryTypeOK
<1>3. ControlTypeOK
  BY DEF Init, ControlTypeOK, Labels
<1>4. CursorTypeOK
  BY Widths DEF Init, CursorTypeOK
<1>5. HashTypeOK
  BY Widths DEF Init, HashTypeOK
<1> QED
  BY <1>1, <1>2, <1>3, <1>4, <1>5 DEF TypeOK

(* The hash loop, entered and stepped.                                     *)
LEMMA ObserveHash ==
  ASSUME TypeOK, NEW t \in Thread, Observe(t) PROVE HashTypeOK'
<1>1. idx[t] \in Index /\ gen[idx[t]] \in 0..GenMod - 1
  BY DEF TypeOK, CursorTypeOK, SharedTypeOK
<1>2. CASE UNCHANGED hashing
  BY <1>2 DEF TypeOK, HashTypeOK, hashing
<1>3. CASE /\ seenGen' = [seenGen EXCEPT ![t] = gen[idx[t]]]
           /\ pos' = [pos EXCEPT ![t] = 1]
           /\ matches' = [matches EXCEPT ![t] = idx[t] \in Mapped]
  <2>1. seenGen' \in [Thread -> 0..GenMod - 1]
    BY <1>1, <1>3 DEF TypeOK, HashTypeOK
  <2>2. pos' \in [Thread -> 1..WordCount + 1]
    BY <1>3, Widths DEF TypeOK, HashTypeOK
  <2>3. matches' \in [Thread -> BOOLEAN]
    BY <1>3 DEF TypeOK, HashTypeOK
  <2> QED
    BY <2>1, <2>2, <2>3 DEF HashTypeOK
<1> QED
  BY <1>2, <1>3 DEF Observe

(* Reading one word of a range keeps the locals of the hash well typed.    *)
LEMMA HashWordHash ==
  ASSUME TypeOK, NEW t \in Thread, HashWord(t) PROVE HashTypeOK'
<1>1. seenGen' \in [Thread -> 0..GenMod - 1]
  BY DEF TypeOK, HashTypeOK, HashWord
<1>2. pos' \in [Thread -> 1..WordCount + 1]
  BY SizeAssumption DEF TypeOK, HashTypeOK, HashWord
<1>3. matches' \in [Thread -> BOOLEAN]
  BY DEF TypeOK, HashTypeOK, HashWord
<1> QED
  BY <1>1, <1>2, <1>3 DEF HashTypeOK

(* The statuses, the generations, the counter and the flags. *)
LEMMA SharedStep == ASSUME TypeOK, [Next]_vars PROVE SharedTypeOK'
<1>1. ASSUME Reset PROVE SharedTypeOK'
  BY <1>1, Widths DEF TypeOK, SharedTypeOK, CursorTypeOK, Reset
<1>2. ASSUME NEW t \in Thread, NEW e \in {"run", "validate"},
             NEW i \in Index \cup {NoIndex}, Call(t, e, i)
      PROVE SharedTypeOK'
  BY <1>2 DEF TypeOK, SharedTypeOK, CursorTypeOK, Call
<1>3. ASSUME NEW t \in Thread, CasSucceeds(t) PROVE SharedTypeOK'
  BY <1>3 DEF TypeOK, SharedTypeOK, CursorTypeOK, CasSucceeds, Continue,
     ContinueAll, ContinueEntry, ContinueQuery
<1>4. ASSUME NEW t \in Thread, FetchSub(t) PROVE SharedTypeOK'
  BY <1>4, Widths DEF TypeOK, SharedTypeOK, CursorTypeOK, FetchSub,
     Continue, ContinueAll, ContinueEntry, ContinueQuery, Decrement
<1>5. ASSUME NEW t \in Thread, InvalidateRange(t) PROVE SharedTypeOK'
  BY <1>5, Widths DEF TypeOK, SharedTypeOK, CursorTypeOK,
     InvalidateRange, NextRange
<1>6. ASSUME NEW t \in Thread, FetchAdd(t) PROVE SharedTypeOK'
  BY <1>6, Widths DEF TypeOK, SharedTypeOK, CursorTypeOK, FetchAdd,
     NextRange, Increment
<1>7. CASE UNCHANGED shared
  BY <1>7 DEF TypeOK, SharedTypeOK, shared
<1> QED
  BY <1>1, <1>2, <1>3, <1>4, <1>5, <1>6, <1>7 DEF Next, Validating,
     Invalidating, vars, shared, memory, frame, hashing, GuestWrite,
     Load, HashWord, CasFails, Guard, CallRegion, Chain, LeaveRun,
     StartInvalidate

(* What a step may do to the statuses, the memory and the hash loops.       *)
LEMMA Moves ==
  ASSUME [Next]_vars
  PROVE  \/ Reset
         \/ \E i \in Mapped, w \in Word : GuestWrite(i, w)
         \/ \E t \in Thread : CasSucceeds(t)
         \/ \E t \in Thread : InvalidateRange(t)
         \/ \E t \in Thread : /\ Load(t) \/ HashWord(t) \/ CasFails(t)
                            /\ UNCHANGED <<status, memory>>
         \/ UNCHANGED <<status, memory, hashing>>
<1> DEFINE Still == UNCHANGED <<status, memory, hashing>>
<1>1. ASSUME NEW t \in Thread, Load(t) \/ HashWord(t) \/ CasFails(t)
      PROVE  UNCHANGED <<status, memory>>
  BY <1>1 DEF Load, HashWord, CasFails, shared, memory
<1>2. ASSUME NEW t \in Thread, FetchSub(t) \/ FetchAdd(t) PROVE Still
  BY <1>2 DEF FetchSub, FetchAdd, memory, hashing
<1>3. ASSUME NEW t \in Thread, NEW e \in {"run", "validate"},
             NEW i \in Index \cup {NoIndex}, Call(t, e, i)
      PROVE  Still
  BY <1>3 DEF Call, memory, hashing
<1>4. ASSUME NEW t \in Thread, Guard(t) \/ LeaveRun(t) PROVE Still
  BY <1>4 DEF Guard, LeaveRun, shared, memory, hashing
<1>5. ASSUME NEW t \in Thread, NEW i \in Index, NEW j \in Index,
             CallRegion(t, i, j) \/ StartInvalidate(t, i, j) \/ Chain(t, i)
      PROVE  Still
  BY <1>5 DEF CallRegion, StartInvalidate, Chain, shared, memory, hashing
<1>6. CASE UNCHANGED vars
  BY <1>6 DEF vars, shared
<1> HIDE DEF Still
<1> QED
  BY <1>1, <1>2, <1>3, <1>4, <1>5, <1>6
  DEF Next, Validating, Invalidating, Still

(* Guest memory. *)
LEMMA MemoryStep == ASSUME TypeOK, [Next]_vars PROVE MemoryTypeOK'
<1>1. ASSUME Reset PROVE MemoryTypeOK'
  BY <1>1, SizeAssumption DEF TypeOK, MemoryTypeOK, CursorTypeOK, Reset
<1>2. ASSUME NEW i \in Mapped, NEW w \in Word, GuestWrite(i, w)
      PROVE MemoryTypeOK'
  BY <1>2, SizeAssumption DEF TypeOK, MemoryTypeOK, CursorTypeOK,
     GuestWrite
<1>3. ASSUME NEW t \in Thread, InvalidateRange(t) PROVE MemoryTypeOK'
  BY <1>3, SizeAssumption DEF TypeOK, MemoryTypeOK, CursorTypeOK,
     InvalidateRange, NextRange
<1>4. CASE UNCHANGED memory
  BY <1>4 DEF TypeOK, MemoryTypeOK, memory
<1> QED
  BY <1>1, <1>2, <1>3, <1>4, Moves DEF CasSucceeds, memory

(* The threads' labels and callers. *)
LEMMA ControlStep == ASSUME TypeOK, [Next]_vars PROVE ControlTypeOK'
<1>1. ASSUME Reset PROVE ControlTypeOK'
  BY <1>1 DEF TypeOK, ControlTypeOK, Labels, Reset, frame
<1>2. ASSUME NEW i \in Mapped, NEW w \in Word, GuestWrite(i, w)
      PROVE ControlTypeOK'
  BY <1>2 DEF TypeOK, ControlTypeOK, Labels, GuestWrite, frame
<1>3. ASSUME NEW t \in Thread, NEW e \in {"run", "validate"},
             NEW i \in Index \cup {NoIndex}, Call(t, e, i)
      PROVE ControlTypeOK'
  BY <1>3 DEF TypeOK, ControlTypeOK, Labels, Call
<1>4. ASSUME NEW t \in Thread, Load(t) PROVE ControlTypeOK'
  BY <1>4 DEF TypeOK, ControlTypeOK, Labels, Load, Observe, Continue,
     ContinueAll, ContinueEntry, ContinueQuery, frame
<1>5. ASSUME NEW t \in Thread, HashWord(t) PROVE ControlTypeOK'
  BY <1>5 DEF TypeOK, ControlTypeOK, Labels, HashWord, frame
<1>6. ASSUME NEW t \in Thread, CasSucceeds(t) PROVE ControlTypeOK'
  BY <1>6 DEF TypeOK, ControlTypeOK, Labels, CasSucceeds, Continue,
     ContinueAll, ContinueEntry, ContinueQuery, frame
<1>7. ASSUME NEW t \in Thread, CasFails(t) PROVE ControlTypeOK'
  BY <1>7 DEF TypeOK, ControlTypeOK, Labels, CasFails, Observe,
     Continue, ContinueAll, ContinueEntry, ContinueQuery, frame
<1>8. ASSUME NEW t \in Thread, FetchSub(t) PROVE ControlTypeOK'
  BY <1>8 DEF TypeOK, ControlTypeOK, Labels, FetchSub, Continue,
     ContinueAll, ContinueEntry, ContinueQuery, Decrement
<1>9. ASSUME NEW t \in Thread, Guard(t) PROVE ControlTypeOK'
  BY <1>9 DEF TypeOK, ControlTypeOK, Labels, Guard
<1>10. ASSUME NEW t \in Thread, NEW i \in Index, NEW j \in Index, CallRegion(t, i, j)
      PROVE ControlTypeOK'
  BY <1>10 DEF TypeOK, ControlTypeOK, Labels, CallRegion
<1>11. ASSUME NEW t \in Thread, NEW i \in Index, Chain(t, i)
      PROVE ControlTypeOK'
  BY <1>11 DEF TypeOK, ControlTypeOK, Labels, Chain
<1>12. ASSUME NEW t \in Thread, LeaveRun(t) PROVE ControlTypeOK'
  BY <1>12 DEF TypeOK, ControlTypeOK, Labels, LeaveRun, frame
<1>13. ASSUME NEW t \in Thread, NEW i \in Index, NEW j \in Index, StartInvalidate(t, i, j)
      PROVE ControlTypeOK'
  BY <1>13 DEF TypeOK, ControlTypeOK, Labels, StartInvalidate
<1>14. ASSUME NEW t \in Thread, InvalidateRange(t) PROVE ControlTypeOK'
  BY <1>14 DEF TypeOK, ControlTypeOK, Labels, InvalidateRange,
     NextRange, frame
<1>15. ASSUME NEW t \in Thread, FetchAdd(t) PROVE ControlTypeOK'
  BY <1>15 DEF TypeOK, ControlTypeOK, Labels, FetchAdd, NextRange,
     Increment, frame
<1>16. CASE UNCHANGED <<pc, op, mode, home>>
  BY <1>16 DEF TypeOK, ControlTypeOK
<1> QED
  BY <1>1, <1>2, <1>3, <1>4, <1>5, <1>6, <1>7, <1>8, <1>9, <1>10, <1>11,
     <1>12, <1>13, <1>14, <1>15, <1>16 DEF Next, Validating,
     Invalidating, vars, shared, memory, frame, hashing

(* The ranges the threads' loops have reached. *)
LEMMA CursorStep == ASSUME TypeOK, [Next]_vars PROVE CursorTypeOK'
<1>1. ASSUME Reset PROVE CursorTypeOK'
  BY <1>1, Widths DEF TypeOK, CursorTypeOK, NoIndex, Index, Reset, frame
<1>2. ASSUME NEW i \in Mapped, NEW w \in Word, GuestWrite(i, w)
      PROVE CursorTypeOK'
  BY <1>2, Widths DEF TypeOK, CursorTypeOK, NoIndex, Index, GuestWrite,
     frame
<1>3. ASSUME NEW t \in Thread, NEW e \in {"run", "validate"},
             NEW i \in Index \cup {NoIndex}, Call(t, e, i)
      PROVE CursorTypeOK'
  BY <1>3, Widths DEF TypeOK, CursorTypeOK, NoIndex, Index, Call
<1>4. ASSUME NEW t \in Thread, Load(t) PROVE CursorTypeOK'
  BY <1>4, Widths DEF TypeOK, CursorTypeOK, NoIndex, Index, Load,
     Observe, Continue, ContinueAll, ContinueEntry, ContinueQuery, frame
<1>5. ASSUME NEW t \in Thread, HashWord(t) PROVE CursorTypeOK'
  BY <1>5, Widths DEF TypeOK, CursorTypeOK, NoIndex, Index, HashWord,
     frame
<1>6. ASSUME NEW t \in Thread, CasSucceeds(t) PROVE CursorTypeOK'
  BY <1>6, Widths DEF TypeOK, CursorTypeOK, NoIndex, Index, CasSucceeds,
     Continue, ContinueAll, ContinueEntry, ContinueQuery, frame
<1>7. ASSUME NEW t \in Thread, CasFails(t) PROVE CursorTypeOK'
  BY <1>7, Widths DEF TypeOK, CursorTypeOK, NoIndex, Index, CasFails,
     Observe, Continue, ContinueAll, ContinueEntry, ContinueQuery, frame
<1>8. ASSUME NEW t \in Thread, FetchSub(t) PROVE CursorTypeOK'
  BY <1>8, Widths DEF TypeOK, CursorTypeOK, NoIndex, Index, FetchSub,
     Continue, ContinueAll, ContinueEntry, ContinueQuery, Decrement
<1>9. ASSUME NEW t \in Thread, Guard(t) PROVE CursorTypeOK'
  BY <1>9, Widths DEF TypeOK, CursorTypeOK, NoIndex, Index, Guard
<1>10. ASSUME NEW t \in Thread, NEW i \in Index, NEW j \in Index, CallRegion(t, i, j)
      PROVE CursorTypeOK'
  BY <1>10, Widths DEF TypeOK, CursorTypeOK, NoIndex, Index, CallRegion
<1>11. ASSUME NEW t \in Thread, NEW i \in Index, Chain(t, i)
      PROVE CursorTypeOK'
  BY <1>11, Widths DEF TypeOK, CursorTypeOK, NoIndex, Index, Chain
<1>12. ASSUME NEW t \in Thread, LeaveRun(t) PROVE CursorTypeOK'
  BY <1>12, Widths DEF TypeOK, CursorTypeOK, NoIndex, Index, LeaveRun,
     frame
<1>13. ASSUME NEW t \in Thread, NEW i \in Index, NEW j \in Index, StartInvalidate(t, i, j)
      PROVE CursorTypeOK'
  BY <1>13, Widths DEF TypeOK, CursorTypeOK, NoIndex, Index,
     StartInvalidate
<1>14. ASSUME NEW t \in Thread, InvalidateRange(t) PROVE CursorTypeOK'
  BY <1>14, Widths DEF TypeOK, CursorTypeOK, NoIndex, Index,
     InvalidateRange, NextRange, frame
<1>15. ASSUME NEW t \in Thread, FetchAdd(t) PROVE CursorTypeOK'
  BY <1>15, Widths DEF TypeOK, CursorTypeOK, NoIndex, Index, FetchAdd,
     NextRange, Increment, frame
<1>16. CASE UNCHANGED <<target, last, idx>>
  BY <1>16 DEF TypeOK, CursorTypeOK
<1> QED
  BY <1>1, <1>2, <1>3, <1>4, <1>5, <1>6, <1>7, <1>8, <1>9, <1>10, <1>11,
     <1>12, <1>13, <1>14, <1>15, <1>16 DEF Next, Validating,
     Invalidating, vars, shared, memory, frame, hashing

(* The hash loop. *)
LEMMA HashStep == ASSUME TypeOK, [Next]_vars PROVE HashTypeOK'
<1>1. ASSUME NEW t \in Thread, Load(t) PROVE HashTypeOK'
  BY <1>1, ObserveHash DEF Load
<1>2. ASSUME NEW t \in Thread, HashWord(t) PROVE HashTypeOK'
  BY <1>2, HashWordHash
<1>3. ASSUME NEW t \in Thread, CasFails(t) PROVE HashTypeOK'
  BY <1>3, ObserveHash DEF CasFails
<1>4. CASE UNCHANGED hashing
  BY <1>4 DEF TypeOK, HashTypeOK, hashing
<1> QED
  BY <1>1, <1>2, <1>3, <1>4, Moves
  DEF Reset, GuestWrite, CasSucceeds, InvalidateRange

(* Every step keeps every variable well typed.                             *)
LEMMA NextTypeOK == TypeOK /\ [Next]_vars => TypeOK'
BY SharedStep, MemoryStep, ControlStep, CursorStep, HashStep DEF TypeOK

(* Every variable keeps its type; in particular the generation and the     *)
(* counter stay within the widths of their atomic words.                   *)
THEOREM TypeCorrect == Spec => []TypeOK
BY InitTypeOK, NextTypeOK, PTL DEF Spec
-----------------------------------------------------------------------------
(***************************************************************************)
(* A VALID range holds the recompiled bytes, but for pending words.        *)
(***************************************************************************)

(* Threads other than t keep their locals.                                 *)
OthersKeep(t) ==
  \A u \in Thread \ {t} :
    /\ pc'[u] = pc[u] /\ idx'[u] = idx[u]
    /\ seenGen'[u] = seenGen[u] /\ pos'[u] = pos[u] /\ matches'[u] = matches[u]

(* A step of t that touches neither statuses nor memory and does not leave *)
(* t in the middle of a hash.                                              *)
LEMMA Elsewhere ==
  ASSUME ValidityInv, NEW t \in Thread, OthersKeep(t),
         UNCHANGED <<status, gen, changed, pending>>,
         pc'[t] \notin {"hash", "cas"}
  PROVE  ValidityInv'
<1>1. ValidMeansUnchanged'
  BY DEF ValidityInv, ValidMeansUnchanged
<1>2. ASSUME NEW u \in Thread PROVE HashIsCurrent(u)'
  BY DEF ValidityInv, HashIsCurrent, OthersKeep, Unmoved
<1> QED
  BY <1>1, <1>2 DEF ValidityInv

(* Wherever validate_index returns to, it is not inside a hash.            *)
LEMMA ContinueElsewhere ==
  ASSUME TypeOK, NEW t \in Thread, NEW ok \in BOOLEAN, Continue(t, ok),
         UNCHANGED hashing
  PROVE  OthersKeep(t) /\ pc'[t] \notin {"hash", "cas", "sub", "add"}
BY DEF TypeOK, ControlTypeOK, CursorTypeOK, Continue, ContinueAll,
   ContinueEntry, ContinueQuery, OthersKeep, hashing, frame

(* A thread that loads a range's word, and starts to hash or answers, keeps*)
(* the validity invariant.                                                 *)
LEMMA ObserveValidity ==
  ASSUME TypeOK, ValidityInv, NEW t \in Thread, Observe(t),
         UNCHANGED <<shared, memory>>
  PROVE  ValidityInv'
<1>1. CASE /\ status[idx[t]] # "DIRTY"
           /\ Continue(t, status[idx[t]] = "VALID")
           /\ UNCHANGED hashing
  <2>1. OthersKeep(t) /\ pc'[t] \notin {"hash", "cas"}
    BY <1>1, ContinueElsewhere
  <2> QED
    BY <2>1, Elsewhere DEF shared, memory
<1>2. CASE /\ status[idx[t]] = "DIRTY"
           /\ seenGen' = [seenGen EXCEPT ![t] = gen[idx[t]]]
           /\ pos' = [pos EXCEPT ![t] = 1]
           /\ matches' = [matches EXCEPT ![t] = idx[t] \in Mapped]
           /\ pc' = [pc EXCEPT ![t] = "hash"]
           /\ UNCHANGED <<frame, idx>>
  <2>1. ValidMeansUnchanged'
    BY DEF ValidityInv, ValidMeansUnchanged, shared, memory
  <2>2. HashIsCurrent(t)'
    <3>1. /\ pc'[t] = "hash" /\ pos'[t] = 1 /\ seenGen'[t] = gen[idx[t]]
          /\ idx'[t] = idx[t] /\ gen' = gen
      BY <1>2 DEF TypeOK, ControlTypeOK, HashTypeOK, shared
    <3>2. gen[idx[t]] \in Nat /\ changed'[idx[t]] \subseteq 1..WordCount
      BY Widths DEF TypeOK, SharedTypeOK, CursorTypeOK, MemoryTypeOK, memory, Word
    <3> QED
      BY <3>1, <3>2, SizeAssumption DEF HashIsCurrent
  <2>3. ASSUME NEW u \in Thread, u # t PROVE HashIsCurrent(u)'
    BY <1>2, <2>3 DEF ValidityInv, HashIsCurrent, Unmoved, shared, memory,
       TypeOK, ControlTypeOK, HashTypeOK
  <2> QED
    BY <2>1, <2>2, <2>3 DEF ValidityInv
<1> QED
  BY <1>1, <1>2 DEF Observe

(* Reading one word extends what the thread knows about the range it       *)
(* hashes.                                                                 *)
LEMMA HashWordValidity ==
  ASSUME TypeOK, ValidityInv, NEW t \in Thread, HashWord(t)
  PROVE  ValidityInv'
<1>1. ValidMeansUnchanged'
  BY DEF ValidityInv, ValidMeansUnchanged, HashWord, shared, memory
<1>2. HashIsCurrent(t)'
  <2>1. /\ changed[idx[t]] \subseteq 1..WordCount
        /\ pos[t] \in 1..WordCount + 1 /\ WordCount \in Nat
    BY SizeAssumption DEF TypeOK, MemoryTypeOK, CursorTypeOK, HashTypeOK, Word
  <2>2. HashIsCurrent(t) /\ pc[t] = "hash"
    BY DEF ValidityInv, HashWord
  <2>3. UNCHANGED <<status, gen, changed, pending, idx, seenGen>>
    BY DEF HashWord, shared, memory
  <2>4. CASE /\ pos[t] <= WordCount
             /\ matches' = [matches EXCEPT ![t] = @ /\ pos[t] \notin changed[idx[t]]]
             /\ pos' = [pos EXCEPT ![t] = @ + 1]
             /\ UNCHANGED pc
    <3>1. pos'[t] = pos[t] + 1 /\ pc'[t] = "hash"
      BY <2>2, <2>4 DEF TypeOK, HashTypeOK
    <3>2. matches'[t] => matches[t] /\ pos[t] \notin changed[idx[t]]
      BY <2>4 DEF TypeOK, HashTypeOK
    <3> QED
      BY <2>1, <2>2, <2>3, <3>1, <3>2 DEF HashIsCurrent, Unmoved
  <2>5. CASE /\ pos[t] = WordCount + 1
             /\ pc' = [pc EXCEPT ![t] = "cas"]
             /\ UNCHANGED <<matches, pos>>
    BY <2>2, <2>3, <2>5 DEF HashIsCurrent, Unmoved, TypeOK, ControlTypeOK
  <2> QED
    BY <2>4, <2>5 DEF HashWord
<1>3. ASSUME NEW u \in Thread, u # t PROVE HashIsCurrent(u)'
  BY <1>3 DEF ValidityInv, HashIsCurrent, Unmoved, HashWord, shared, memory,
     TypeOK, ControlTypeOK, HashTypeOK
<1> QED
  BY <1>1, <1>2, <1>3 DEF ValidityInv

(* A successful exchange makes VALID only a range whose differing words are*)
(* all pending.                                                            *)
LEMMA CasValidity ==
  ASSUME TypeOK, ValidityInv, NEW t \in Thread, CasSucceeds(t)
  PROVE  ValidityInv'
<1>1. /\ HashIsCurrent(t) /\ pc[t] = "cas" /\ Unmoved(t)
      /\ UNCHANGED <<gen, changed, pending, hashing>>
      /\ status' = [status EXCEPT ![idx[t]] =
                      IF matches[t] THEN "VALID" ELSE "CHANGED"]
  BY DEF ValidityInv, CasSucceeds, memory
<1>2. idx[t] \in Index /\ changed[idx[t]] \subseteq 1..WordCount /\ WordCount \in Nat
  BY SizeAssumption DEF TypeOK, MemoryTypeOK, CursorTypeOK, Word
<1>3. matches[t] => changed[idx[t]] \subseteq pending[idx[t]]
  BY <1>1, <1>2 DEF HashIsCurrent
<1>4. ValidMeansUnchanged'
  BY <1>1, <1>2, <1>3 DEF ValidityInv, ValidMeansUnchanged, TypeOK, SharedTypeOK
<1>5. OthersKeep(t) /\ pc'[t] \notin {"hash", "cas"}
  <2>1. CASE /\ matches[t]
             /\ pc' = [pc EXCEPT ![t] = "sub"]
             /\ UNCHANGED <<frame, idx>>
    BY <1>1, <2>1 DEF OthersKeep, hashing, TypeOK, ControlTypeOK
  <2>2. CASE Continue(t, FALSE)
    BY <1>1, <2>2, ContinueElsewhere
  <2> QED
    BY <2>1, <2>2 DEF CasSucceeds
<1>6. ASSUME NEW u \in Thread PROVE HashIsCurrent(u)'
  <2>1. HashIsCurrent(u)
    BY DEF ValidityInv
  <2>2. Unmoved(u)' /\ u # t => Unmoved(u)
    BY <1>1, <1>2, <1>5 DEF Unmoved, OthersKeep, TypeOK, SharedTypeOK
  <2> QED
    BY <1>1, <1>5, <2>1, <2>2 DEF HashIsCurrent, OthersKeep
<1> QED
  BY <1>4, <1>6 DEF ValidityInv

(* An invalidation makes the observations other threads hold of the range  *)
(* stale.                                                                  *)
LEMMA InvalidateValidity ==
  ASSUME TypeOK, ValidityInv, NEW t \in Thread, InvalidateRange(t)
  PROVE  ValidityInv'
<1>1. /\ status' = [status EXCEPT ![idx[t]] = "DIRTY"]
      /\ gen' = [gen EXCEPT ![idx[t]] = @ + 1]
      /\ pending' = [pending EXCEPT ![idx[t]] = {}]
      /\ UNCHANGED <<changed, hashing>>
  BY DEF InvalidateRange
<1>2. idx[t] \in Index /\ gen \in [Index -> Int]
  BY Widths DEF TypeOK, CursorTypeOK, SharedTypeOK
<1>3. ValidMeansUnchanged'
  BY <1>1, <1>2 DEF ValidityInv, ValidMeansUnchanged, TypeOK, SharedTypeOK,
     MemoryTypeOK
<1>4. OthersKeep(t) /\ pc'[t] \notin {"hash", "cas"}
  BY DEF InvalidateRange, NextRange, OthersKeep, hashing, TypeOK, ControlTypeOK,
     CursorTypeOK
<1>5. ASSUME NEW u \in Thread, u # t PROVE HashIsCurrent(u)'
  <2>1. /\ HashIsCurrent(u) /\ idx[u] \in Index /\ seenGen[u] \in Int
    BY Widths DEF ValidityInv, TypeOK, CursorTypeOK, HashTypeOK
  <2>2. CASE idx[u] = idx[t]
    BY <1>1, <1>2, <1>4, <1>5, <2>1, <2>2 DEF HashIsCurrent, Unmoved, OthersKeep
  <2>3. CASE idx[u] # idx[t]
    BY <1>1, <1>2, <1>4, <1>5, <2>1, <2>3 DEF HashIsCurrent, Unmoved, OthersKeep,
       TypeOK, SharedTypeOK, MemoryTypeOK
  <2> QED
    BY <2>2, <2>3
<1>6. HashIsCurrent(t)'
  BY <1>4 DEF HashIsCurrent
<1> QED
  BY <1>3, <1>5, <1>6 DEF ValidityInv

(* A write adds its word to the pending ones, so what a thread has read    *)
(* stays explained.                                                        *)
LEMMA WriteValidity ==
  ASSUME TypeOK, ValidityInv, NEW i \in Mapped, NEW w \in Word, GuestWrite(i, w)
  PROVE  ValidityInv'
<1>1. /\ UNCHANGED <<status, gen, pc, idx, hashing>>
      /\ \A k \in Index : changed'[k] \subseteq changed[k] \cup (pending'[k])
      /\ \A k \in Index : pending[k] \subseteq pending'[k]
  BY SizeAssumption DEF GuestWrite, shared, TypeOK, MemoryTypeOK
<1>2. ValidMeansUnchanged'
  BY <1>1 DEF ValidityInv, ValidMeansUnchanged
<1>3. ASSUME NEW u \in Thread PROVE HashIsCurrent(u)'
  BY <1>1 DEF ValidityInv, HashIsCurrent, Unmoved, hashing, TypeOK, CursorTypeOK
<1> QED
  BY <1>2, <1>3 DEF ValidityInv

(* Every step keeps the validity invariant.                                *)
LEMMA NextValidity == TypeOK /\ ValidityInv /\ [Next]_vars => ValidityInv'
<1> SUFFICES ASSUME TypeOK, ValidityInv, [Next]_vars PROVE ValidityInv'
  OBVIOUS
<1>1. CASE Reset
  BY <1>1 DEF Reset, ValidityInv, ValidMeansUnchanged, HashIsCurrent
<1>2. ASSUME NEW t \in Thread, NEW e \in {"run", "validate"},
             NEW i \in Index \cup {NoIndex}, Call(t, e, i)
      PROVE ValidityInv'
  <2>1. OthersKeep(t) /\ pc'[t] \notin {"hash", "cas"}
    BY <1>2 DEF Call, OthersKeep, hashing, TypeOK, ControlTypeOK, CursorTypeOK
  <2> QED
    BY <1>2, <2>1, Elsewhere DEF Call, memory
<1>3. ASSUME NEW t \in Thread, FetchSub(t) PROVE ValidityInv'
  <2>1. OthersKeep(t) /\ pc'[t] \notin {"hash", "cas"}
    BY <1>3, ContinueElsewhere DEF FetchSub
  <2> QED
    BY <1>3, <2>1, Elsewhere DEF FetchSub, memory
<1>4. ASSUME NEW t \in Thread,
             \/ Guard(t) \/ LeaveRun(t)
             \/ \E i, j \in Index : CallRegion(t, i, j) \/ StartInvalidate(t, i, j)
             \/ \E i \in Index : Chain(t, i)
      PROVE ValidityInv'
  <2>1. OthersKeep(t) /\ pc'[t] \notin {"hash", "cas"}
    BY <1>4 DEF Guard, LeaveRun, CallRegion, StartInvalidate, Chain, OthersKeep,
       hashing, frame, TypeOK, ControlTypeOK, CursorTypeOK
  <2>2. UNCHANGED <<status, gen, changed, pending>>
    BY <1>4 DEF Guard, LeaveRun, CallRegion, StartInvalidate, Chain, shared, memory
  <2> QED
    BY <2>1, <2>2, Elsewhere
<1>5. ASSUME NEW t \in Thread, FetchAdd(t) PROVE ValidityInv'
  <2>1. OthersKeep(t) /\ pc'[t] \notin {"hash", "cas"}
    BY <1>5 DEF FetchAdd, NextRange, OthersKeep, hashing, TypeOK, ControlTypeOK,
       CursorTypeOK
  <2> QED
    BY <1>5, <2>1, Elsewhere DEF FetchAdd, memory
<1>6. CASE UNCHANGED vars
  BY <1>6 DEF vars, shared, memory, hashing, ValidityInv, ValidMeansUnchanged,
     HashIsCurrent, Unmoved
<1> QED
  BY <1>1, <1>2, <1>3, <1>4, <1>5, <1>6, ObserveValidity, HashWordValidity,
     CasValidity, InvalidateValidity, WriteValidity
  DEF Next, Validating, Invalidating, Load, CasFails

(* The invariant behind it, and the property.                              *)
LEMMA ValidityInvariant == Spec => []ValidityInv
<1>1. Init => ValidityInv
  BY DEF Init, ValidityInv, ValidMeansUnchanged, HashIsCurrent
<1> QED
  BY <1>1, NextValidity, TypeCorrect, PTL DEF Spec

(* A VALID range holds the bytes it was recompiled from in every word that *)
(* was not written after its last invalidation, whatever the interleaving. *)
THEOREM ValidIsUnchanged == Spec => []ValidMeansUnchanged
BY ValidityInvariant, PTL DEF ValidityInv

(* A CHANGED range does not become VALID without passing through DIRTY.    *)
THEOREM ChangedStays == Spec => ChangedUntilInvalidated
<1>1. TypeOK /\ [Next]_vars =>
        [\A i \in Index : status[i] = "CHANGED" => status'[i] # "VALID"]_status
  <2> SUFFICES ASSUME TypeOK, [Next]_vars, NEW i \in Index,
                      status[i] = "CHANGED", status'[i] = "VALID"
               PROVE FALSE
    OBVIOUS
  <2>1. ASSUME NEW t \in Thread, CasSucceeds(t) PROVE FALSE
    BY <2>1 DEF CasSucceeds, Unmoved, TypeOK, SharedTypeOK, CursorTypeOK
  <2>2. ASSUME NEW t \in Thread, InvalidateRange(t) PROVE FALSE
    BY <2>2 DEF InvalidateRange, TypeOK, SharedTypeOK, CursorTypeOK
  <2>3. CASE Reset
    BY <2>3 DEF Reset
  <2>4. CASE status' = status
    BY <2>4
  <2> QED
    BY <2>1, <2>2, <2>3, <2>4, Moves DEF GuestWrite, shared
<1> QED
  BY <1>1, TypeCorrect, PTL DEF Spec, ChangedUntilInvalidated
-----------------------------------------------------------------------------
(***************************************************************************)
(* The counter of unavailable ranges.                                      *)
(***************************************************************************)

(* The sets that the balance counts are finite.                            *)
LEMMA Finite ==
  /\ IsFiniteSet(NotValid) /\ IsFiniteSet(At("sub")) /\ IsFiniteSet(At("add"))
  /\ Cardinality(NotValid) \in 0..RangeCount
  /\ Cardinality(At("sub")) \in 0..Cardinality(Thread)
  /\ Cardinality(At("add")) \in 0..Cardinality(Thread)
  /\ Cardinality(Thread) \in Nat
  /\ Cardinality(Index) = RangeCount
<1>1. IsFiniteSet(Index) /\ Cardinality(Index) = RangeCount
  BY FS_Interval, SizeAssumption DEF Index
<1>2. NotValid \subseteq Index /\ At("sub") \subseteq Thread /\ At("add") \subseteq Thread
  BY DEF NotValid, At
<1> QED
  BY <1>1, <1>2, FS_Subset, FS_CardinalityType, ThreadAssumption, SizeAssumption

(* The range of the balance, which no counter as wide as CounterMod can    *)
(* confuse with another.                                                   *)
LEMMA BalanceRange ==
  /\ Balance \in Int
  /\ -Cardinality(Thread) <= Balance /\ Balance <= RangeCount + Cardinality(Thread)
  /\ CounterMod \in Int /\ CounterMod > RangeCount + 2 * Cardinality(Thread)
  /\ RangeCount \in Nat /\ Cardinality(Thread) \in Nat
BY Finite, WidthAssumption, SizeAssumption DEF Balance

(* A step that moves neither the statuses' validity nor a thread between   *)
(* an exchange and its counting.                                           *)
LEMMA SameBalance ==
  ASSUME AccountingInv, UNCHANGED <<unavailable, loaded>>, loaded,
         NotValid' = NotValid, At("sub")' = At("sub"), At("add")' = At("add")
  PROVE  AccountingInv'
BY DEF AccountingInv, UnavailableAccounting, Balance

(* Labels other than sub and add.                                          *)
LEMMA SameLabels ==
  ASSUME TypeOK, NEW t \in Thread, OthersKeep(t),
         pc[t] \notin {"sub", "add"}, pc'[t] \notin {"sub", "add"}
  PROVE  At("sub")' = At("sub") /\ At("add")' = At("add")
BY DEF At, OthersKeep

(* Loading a word moves no thread to or from the labels that the balance   *)
(* counts.                                                                 *)
LEMMA ObserveAccounting ==
  ASSUME TypeOK, AccountingInv, NEW t \in Thread, pc[t] \in {"load", "cas"},
         Observe(t), UNCHANGED <<shared, memory>>
  PROVE  AccountingInv'
<1>1. pc'[t] \notin {"sub", "add"} /\ OthersKeep(t)
  <2>1. CASE /\ status[idx[t]] # "DIRTY"
             /\ Continue(t, status[idx[t]] = "VALID")
             /\ UNCHANGED hashing
    BY <2>1, ContinueElsewhere
  <2>2. CASE /\ status[idx[t]] = "DIRTY"
             /\ seenGen' = [seenGen EXCEPT ![t] = gen[idx[t]]]
             /\ pos' = [pos EXCEPT ![t] = 1]
             /\ matches' = [matches EXCEPT ![t] = idx[t] \in Mapped]
             /\ pc' = [pc EXCEPT ![t] = "hash"]
             /\ UNCHANGED <<frame, idx>>
    BY <2>2 DEF OthersKeep, TypeOK, ControlTypeOK, HashTypeOK
  <2> QED
    BY <2>1, <2>2 DEF Observe
<1>2. NotValid' = NotValid
  BY DEF NotValid, shared
<1>3. loaded /\ UNCHANGED <<unavailable, loaded>>
  BY DEF AccountingInv, shared
<1> QED
  BY <1>1, <1>2, <1>3, SameLabels, SameBalance

(* A successful exchange turns one range VALID and puts its thread before  *)
(* the fetch_sub, or neither.                                              *)
LEMMA CasAccounting ==
  ASSUME TypeOK, AccountingInv, NEW t \in Thread, CasSucceeds(t)
  PROVE  AccountingInv'
<1>1. /\ loaded /\ UNCHANGED <<unavailable, loaded>> /\ pc[t] = "cas"
      /\ idx[t] \in Index /\ status[idx[t]] = "DIRTY"
      /\ UNCHANGED hashing
  BY DEF CasSucceeds, Unmoved, AccountingInv, TypeOK, CursorTypeOK
<1>2. CASE matches[t]
  <2>1. /\ pc' = [pc EXCEPT ![t] = "sub"]
        /\ status' = [status EXCEPT ![idx[t]] = "VALID"]
    BY <1>2 DEF CasSucceeds
  <2>2. NotValid' = NotValid \ {idx[t]} /\ idx[t] \in NotValid
    BY <1>1, <2>1 DEF NotValid, TypeOK, SharedTypeOK
  <2>3. At("sub")' = At("sub") \cup {t} /\ t \notin At("sub")
    BY <1>1, <2>1 DEF At, TypeOK, ControlTypeOK
  <2>4. At("add")' = At("add")
    BY <1>1, <2>1 DEF At, TypeOK, ControlTypeOK
  <2>5. /\ Cardinality(NotValid') = Cardinality(NotValid) - 1
        /\ Cardinality(At("sub")') = Cardinality(At("sub")) + 1
    BY <2>2, <2>3, Finite, FS_RemoveElement, FS_AddElement
  <2>6. Balance' = Balance
    BY <2>4, <2>5, Finite DEF Balance
  <2> QED
    BY <1>1, <2>6 DEF AccountingInv, UnavailableAccounting
<1>3. CASE ~matches[t]
  <2>1. OthersKeep(t) /\ pc'[t] \notin {"sub", "add"}
    BY <1>1, <1>3, ContinueElsewhere DEF CasSucceeds
  <2>2. NotValid' = NotValid
    BY <1>1, <1>3 DEF CasSucceeds, NotValid, TypeOK, SharedTypeOK
  <2> QED
    BY <1>1, <2>1, <2>2, SameLabels, SameBalance
<1> QED
  BY <1>2, <1>3

(* The fetch_sub takes its thread out of the balance and one off the       *)
(* counter.                                                                *)
LEMMA SubAccounting ==
  ASSUME TypeOK, AccountingInv, NEW t \in Thread, FetchSub(t)
  PROVE  AccountingInv'
<1>1. /\ loaded /\ UNCHANGED <<status, loaded, hashing>> /\ pc[t] = "sub"
      /\ unavailable' = Decrement(unavailable)
  BY DEF FetchSub, AccountingInv
<1>2. OthersKeep(t) /\ pc'[t] \notin {"sub", "add"}
  BY ContinueElsewhere DEF FetchSub
<1>3. /\ At("sub")' = At("sub") \ {t} /\ t \in At("sub")
      /\ At("add")' = At("add") /\ NotValid' = NotValid
  <2>1. At("sub")' = At("sub") \ {t} /\ t \in At("sub")
    BY <1>1, <1>2 DEF At, OthersKeep
  <2>2. At("add")' = At("add")
    BY <1>1, <1>2 DEF At, OthersKeep
  <2>3. NotValid' = NotValid
    BY <1>1 DEF NotValid
  <2> QED
    BY <2>1, <2>2, <2>3
<1>4. Balance' = Balance - 1
  <2>1. Cardinality(At("sub")') = Cardinality(At("sub")) - 1
    BY <1>3, Finite, FS_RemoveElement
  <2> QED
    BY <1>3, <2>1, Finite DEF Balance
<1>5. -Cardinality(Thread) <= Balance - 1
  <2>1. Cardinality(At("sub")) >= 1
    BY <1>3, Finite, FS_EmptySet
  <2> QED
    BY <2>1, Finite DEF Balance
<1> QED
  BY <1>1, <1>4, <1>5, BalanceRange
  DEF AccountingInv, UnavailableAccounting, Decrement

(* An invalidation of a VALID range puts its thread before the fetch_add.  *)
LEMMA InvalidateAccounting ==
  ASSUME TypeOK, AccountingInv, NEW t \in Thread, InvalidateRange(t)
  PROVE  AccountingInv'
<1>1. /\ loaded /\ UNCHANGED <<unavailable, loaded, hashing>> /\ pc[t] = "inv"
      /\ idx[t] \in Index
      /\ status' = [status EXCEPT ![idx[t]] = "DIRTY"]
  BY DEF InvalidateRange, AccountingInv, TypeOK, CursorTypeOK
<1>2. CASE status[idx[t]] = "VALID"
  <2>1. pc' = [pc EXCEPT ![t] = "add"]
    BY <1>2 DEF InvalidateRange
  <2>2. NotValid' = NotValid \cup {idx[t]} /\ idx[t] \notin NotValid
    BY <1>1, <1>2 DEF NotValid, TypeOK, SharedTypeOK
  <2>3. At("add")' = At("add") \cup {t} /\ t \notin At("add")
    BY <1>1, <2>1 DEF At, TypeOK, ControlTypeOK
  <2>4. At("sub")' = At("sub")
    BY <1>1, <2>1 DEF At, TypeOK, ControlTypeOK
  <2>5. /\ Cardinality(NotValid') = Cardinality(NotValid) + 1
        /\ Cardinality(At("add")') = Cardinality(At("add")) + 1
    BY <2>2, <2>3, Finite, FS_AddElement
  <2>6. Balance' = Balance
    BY <2>4, <2>5, Finite DEF Balance
  <2> QED
    BY <1>1, <2>6 DEF AccountingInv, UnavailableAccounting
<1>3. CASE status[idx[t]] # "VALID"
  <2>1. OthersKeep(t) /\ pc'[t] \notin {"sub", "add"}
    BY <1>1, <1>3 DEF InvalidateRange, NextRange, OthersKeep, hashing, TypeOK,
       ControlTypeOK, CursorTypeOK
  <2>2. NotValid' = NotValid
    BY <1>1, <1>3 DEF NotValid, TypeOK, SharedTypeOK
  <2> QED
    BY <1>1, <2>1, <2>2, SameLabels, SameBalance
<1> QED
  BY <1>2, <1>3

(* The fetch_add takes its thread out of the balance and adds one to the   *)
(* counter.                                                                *)
LEMMA AddAccounting ==
  ASSUME TypeOK, AccountingInv, NEW t \in Thread, FetchAdd(t)
  PROVE  AccountingInv'
<1>1. /\ loaded /\ UNCHANGED <<status, loaded, hashing>> /\ pc[t] = "add"
      /\ unavailable' = Increment(unavailable)
  BY DEF FetchAdd, AccountingInv
<1>2. OthersKeep(t) /\ pc'[t] \notin {"sub", "add"}
  BY DEF FetchAdd, NextRange, OthersKeep, hashing, TypeOK, ControlTypeOK, CursorTypeOK
<1>3. /\ At("add")' = At("add") \ {t} /\ t \in At("add")
      /\ At("sub")' = At("sub") /\ NotValid' = NotValid
  <2>1. At("add")' = At("add") \ {t} /\ t \in At("add")
    BY <1>1, <1>2 DEF At, OthersKeep
  <2>2. At("sub")' = At("sub")
    BY <1>1, <1>2 DEF At, OthersKeep
  <2>3. NotValid' = NotValid
    BY <1>1 DEF NotValid
  <2> QED
    BY <2>1, <2>2, <2>3
<1>4. Balance' = Balance + 1
  <2>1. Cardinality(At("add")') = Cardinality(At("add")) - 1
    BY <1>3, Finite, FS_RemoveElement
  <2> QED
    BY <1>3, <2>1, Finite DEF Balance
<1>5. unavailable = IF Balance >= 0 THEN Balance ELSE Balance + CounterMod
  BY <1>1 DEF AccountingInv, UnavailableAccounting
<1>6. unavailable' = IF Balance + 1 >= 0 THEN Balance + 1
                     ELSE Balance + 1 + CounterMod
  <2>0. Cardinality(Thread) # 0
    BY FS_EmptySet, ThreadAssumption
  <2>1. CASE Balance >= 0
    BY <1>1, <1>5, <2>0, <2>1, BalanceRange DEF Increment
  <2>2. CASE Balance = -1
    BY <1>1, <1>5, <2>2, BalanceRange DEF Increment
  <2>3. CASE Balance < -1
    BY <1>1, <1>5, <2>3, BalanceRange DEF Increment
  <2> QED
    BY <2>1, <2>2, <2>3, BalanceRange
<1> QED
  BY <1>1, <1>4, <1>6 DEF AccountingInv, UnavailableAccounting

(* reset makes the counter right, because no thread is inside the module.  *)
LEMMA ResetAccounting == ASSUME TypeOK, Reset PROVE AccountingInv'
<1>1. NotValid' = Index
  BY DEF Reset, NotValid
<1>2. At("sub")' = {} /\ At("add")' = {}
  BY DEF Reset, At
<1>3. Balance' = RangeCount
  BY <1>1, <1>2, Finite, FS_EmptySet, SizeAssumption DEF Balance
<1> QED
  BY <1>3, SizeAssumption DEF AccountingInv, UnavailableAccounting, Reset

(* Every step keeps the counter and the balance equal.                     *)
LEMMA NextAccounting == TypeOK /\ AccountingInv /\ [Next]_vars => AccountingInv'
<1> SUFFICES ASSUME TypeOK, AccountingInv, [Next]_vars PROVE AccountingInv'
  OBVIOUS
<1>1. ASSUME NEW t \in Thread, NEW e \in {"run", "validate"},
             NEW i \in Index \cup {NoIndex}, Call(t, e, i)
      PROVE AccountingInv'
  <2>1. /\ OthersKeep(t) /\ pc[t] = "idle" /\ pc'[t] = "load"
        /\ loaded /\ UNCHANGED <<unavailable, loaded, status>>
    BY <1>1 DEF Call, OthersKeep, hashing, TypeOK, ControlTypeOK, CursorTypeOK
  <2>2. NotValid' = NotValid
    BY <2>1 DEF NotValid
  <2> QED
    BY <2>1, <2>2, SameLabels, SameBalance
<1>2. ASSUME NEW t \in Thread,
             \/ HashWord(t) \/ Guard(t) \/ LeaveRun(t)
             \/ \E i, j \in Index : CallRegion(t, i, j) \/ StartInvalidate(t, i, j)
             \/ \E i \in Index : Chain(t, i)
      PROVE AccountingInv'
  <2>1. OthersKeep(t) /\ pc[t] \notin {"sub", "add"} /\ pc'[t] \notin {"sub", "add"}
    BY <1>2 DEF HashWord, Guard, LeaveRun, CallRegion, StartInvalidate, Chain,
       OthersKeep, hashing, frame, TypeOK, ControlTypeOK, CursorTypeOK, HashTypeOK
  <2>2. loaded /\ UNCHANGED <<unavailable, loaded, status>>
    BY <1>2 DEF HashWord, Guard, LeaveRun, CallRegion, StartInvalidate, Chain,
       shared, AccountingInv
  <2>3. NotValid' = NotValid
    BY <2>2 DEF NotValid
  <2> QED
    BY <2>1, <2>2, <2>3, SameLabels, SameBalance
<1>3. CASE UNCHANGED <<shared, pc>>
  BY <1>3 DEF shared, AccountingInv, UnavailableAccounting, Balance, NotValid, At
<1> QED
  BY <1>1, <1>2, <1>3, ObserveAccounting, CasAccounting, SubAccounting,
     InvalidateAccounting, AddAccounting, ResetAccounting
  DEF Next, Validating, Invalidating, Load, CasFails, GuestWrite, vars

(* The accounting invariant holds in every reachable state.                *)
LEMMA AccountingInvariant == Spec => []AccountingInv
<1>1. Init => AccountingInv
  BY DEF Init, AccountingInv, UnavailableAccounting
<1> QED
  BY <1>1, NextAccounting, TypeCorrect, PTL DEF Spec

(* The counter equals the ranges that are not VALID, corrected by the      *)
(* threads that are between an exchange and its counting, for any number   *)
(* of threads and modulo the width of the counter.                         *)
THEOREM CounterAccounts == Spec => []UnavailableAccounting
BY AccountingInvariant, PTL DEF AccountingInv

(* A zero counter lets the guard admit every region: then every range is   *)
(* VALID, or an invalidation is between its exchange and its fetch_add.    *)
THEOREM FastPathIsSound == Spec => []FastPathSound
<1>1. UnavailableAccounting => FastPathSound
  <2> SUFFICES ASSUME UnavailableAccounting, loaded, unavailable = 0,
                      NotValid # {}
               PROVE At("add") # {}
    BY DEF FastPathSound
  <2>1. Balance = 0
    BY BalanceRange DEF UnavailableAccounting
  <2>2. Cardinality(NotValid) >= 1
    BY Finite, FS_EmptySet
  <2>3. Cardinality(At("add")) # 0
    BY <2>1, <2>2, Finite DEF Balance
  <2> QED
    BY <2>3, FS_EmptySet
<1> QED
  BY <1>1, CounterAccounts, PTL
-----------------------------------------------------------------------------
(***************************************************************************)
(* The interleaved checks implement the instantaneous ones.                *)
(***************************************************************************)
LEMMA CasImplements ==
  ASSUME TypeOK, ValidityInv, NEW t \in Thread, CasSucceeds(t)
  PROVE  \E i \in Index : Validity!Accept(i) \/ Validity!Refuse(i)
<1>0. PICK i \in Index : i = idx[t]
  BY DEF TypeOK, CursorTypeOK
<1>1. /\ status[i] = "DIRTY" /\ UNCHANGED <<changed, pending>>
      /\ status' = [status EXCEPT ![i] = IF matches[t] THEN "VALID" ELSE "CHANGED"]
  BY <1>0 DEF CasSucceeds, Unmoved, memory
<1>2. matches[t] => changed[i] \subseteq pending[i]
  BY <1>0, <1>1, SizeAssumption DEF CasSucceeds, ValidityInv, HashIsCurrent, TypeOK,
     MemoryTypeOK, Word
<1>3. CASE matches[t]
  BY <1>1, <1>2, <1>3 DEF Validity!Accept, TypeOK, SharedTypeOK
<1>4. CASE ~matches[t]
  BY <1>1, <1>4 DEF Validity!Refuse, TypeOK, SharedTypeOK
<1> QED
  BY <1>3, <1>4

(* Invalidating a range is the abstract Invalidate.                        *)
LEMMA InvalidateImplements ==
  ASSUME TypeOK, NEW t \in Thread, InvalidateRange(t)
  PROVE  \E i \in Index : Validity!Invalidate(i)
<1>1. PICK i \in Index : i = idx[t]
  BY DEF TypeOK, CursorTypeOK
<1> QED
  BY <1>1 DEF InvalidateRange, Validity!Invalidate, TypeOK, SharedTypeOK

(* Every behaviour of the module, with the VALID ranges taken as usable and*)
(* the CHANGED ones as refused, is one of RegionValidity.                  *)
THEOREM ModuleImplementsValidity == Spec => ImplementsValidity
<1>1. Init => Validity!Init
  BY DEF Init, Validity!Init
<1>2. TypeOK /\ ValidityInv /\ [Next]_vars => [Validity!Next]_(Validity!rvars)
  <2> SUFFICES ASSUME TypeOK, ValidityInv, [Next]_vars
               PROVE [Validity!Next]_(Validity!rvars)
    OBVIOUS
  <2>1. CASE Reset
    BY <2>1 DEF Reset, Validity!Next, Validity!Forget
  <2>2. ASSUME NEW i \in Mapped, NEW w \in Word, GuestWrite(i, w)
        PROVE Validity!Next
    <3>1. Validity!Write(i, w)
      BY <2>2 DEF GuestWrite, Validity!Write, shared
    <3> QED
      BY <3>1, SizeAssumption DEF Validity!Next
  <2>3. ASSUME NEW t \in Thread, CasSucceeds(t) PROVE Validity!Next
    BY <2>3, CasImplements DEF Validity!Next
  <2>4. ASSUME NEW t \in Thread, InvalidateRange(t) PROVE Validity!Next
    BY <2>4, InvalidateImplements DEF Validity!Next
  <2>5. CASE UNCHANGED <<status, changed, pending>>
    BY <2>5 DEF Validity!rvars
  <2> QED
    BY <2>1, <2>2, <2>3, <2>4, <2>5, Moves DEF memory
<1> QED
  BY <1>1, <1>2, TypeCorrect, ValidityInvariant, PTL
  DEF Spec, ImplementsValidity, Validity!Spec
-----------------------------------------------------------------------------
(***************************************************************************)
(* One thread enters only regions whose differing words are all pending.   *)
(***************************************************************************)
Alone == \A t, u \in Thread : t = u

(* Where the only thread has got to: what it has accepted is still VALID,   *)
(* and so is every range of the region that its query has passed.          *)
Passed(t) ==
  /\ pc[t] = "sub" => status[idx[t]] = "VALID"
  /\ pc[t] \in {"load", "hash", "cas", "sub"} /\ mode[t] = "query" =>
       /\ target[t] \in Index
       /\ \A i \in target[t]..idx[t] - 1 : status[i] = "VALID"

PassedInv == \A t \in Thread : Passed(t)

(* A query that goes on, after a range that is VALID, has passed it too.   *)
LEMMA ContinuePassed ==
  ASSUME TypeOK, NEW t \in Thread, NEW ok \in BOOLEAN, Continue(t, ok), Passed(t),
         pc[t] \in {"load", "cas", "sub"}, ok => status[idx[t]] = "VALID",
         UNCHANGED status
  PROVE  Passed(t)'
<1>1. UNCHANGED target /\ idx[t] \in Index /\ pc'[t] # "sub"
  BY DEF Continue, ContinueAll, ContinueEntry, ContinueQuery, TypeOK, CursorTypeOK,
     ControlTypeOK
<1>2. CASE mode'[t] # "query"
  BY <1>1, <1>2 DEF Passed
<1>3. CASE mode'[t] = "query" /\ pc'[t] \in {"load", "hash", "cas", "sub"}
  <2>1. mode[t] = "query" /\ ok /\ idx'[t] = idx[t] + 1
    BY <1>3 DEF Continue, ContinueAll, ContinueEntry, ContinueQuery, TypeOK,
       CursorTypeOK, ControlTypeOK
  <2>2. /\ target[t] \in Index
        /\ \A i \in target[t]..idx[t] - 1 : status[i] = "VALID"
    BY <2>1 DEF Passed
  <2>3. \A i \in target[t]..idx'[t] - 1 : i = idx[t] \/ i \in target[t]..idx[t] - 1
    BY <1>1, <2>1, <2>2, SizeAssumption DEF Index
  <2> QED
    BY <1>1, <2>1, <2>2, <2>3 DEF Passed
<1> QED
  BY <1>1, <1>2, <1>3 DEF Passed

(* A load or a failed exchange answers from the status it reads.           *)
LEMMA ObservePassed ==
  ASSUME TypeOK, NEW t \in Thread, Observe(t), Passed(t), pc[t] \in {"load", "cas"},
         UNCHANGED shared
  PROVE  Passed(t)'
<1>1. CASE Continue(t, status[idx[t]] = "VALID")
  BY <1>1, ContinuePassed DEF shared
<1>2. CASE UNCHANGED <<frame, idx>> /\ pc' = [pc EXCEPT ![t] = "hash"]
  BY <1>2 DEF Passed, frame, shared, TypeOK, ControlTypeOK
<1> QED
  BY <1>1, <1>2 DEF Observe

(* The exchange accepts the range of the loop and leaves those before it.  *)
LEMMA CasPassed ==
  ASSUME TypeOK, NEW t \in Thread, CasSucceeds(t), Passed(t)
  PROVE  Passed(t)'
<1>1. /\ idx[t] \in Index /\ pc[t] = "cas" /\ idx[t] \in Int
      /\ status' = [status EXCEPT ![idx[t]] = IF matches[t] THEN "VALID" ELSE "CHANGED"]
  BY SizeAssumption DEF CasSucceeds, TypeOK, CursorTypeOK, Index
<1>2. CASE matches[t] /\ pc' = [pc EXCEPT ![t] = "sub"] /\ UNCHANGED <<frame, idx>>
  <2>1. /\ status'[idx[t]] = "VALID"
        /\ \A i \in Index : status[i] = "VALID" => status'[i] = "VALID"
    BY <1>1, <1>2 DEF TypeOK, SharedTypeOK
  <2>2. target[t] \in Index => target[t]..idx[t] - 1 \subseteq Index
    BY <1>1, SizeAssumption DEF Index
  <2> QED
    BY <1>1, <1>2, <2>1, <2>2 DEF Passed, frame
<1>3. CASE Continue(t, FALSE)
  BY <1>1, <1>3 DEF Continue, ContinueAll, ContinueEntry, ContinueQuery, Passed, TypeOK,
     ControlTypeOK
<1> QED
  BY <1>2, <1>3 DEF CasSucceeds

(* No step but its own takes the thread out of where it is.                *)
LEMMA NextPassed ==
  ASSUME Alone, TypeOK, PassedInv, [Next]_vars
  PROVE  PassedInv'
<1> SUFFICES ASSUME NEW t \in Thread PROVE Passed(t)'
  BY DEF PassedInv
<1>1. Passed(t)
  BY DEF PassedInv
<1>2. CASE Reset
  BY <1>2 DEF Reset, Passed
<1>3. ASSUME NEW i \in Mapped, NEW w \in Word, GuestWrite(i, w) PROVE Passed(t)'
  BY <1>1, <1>3 DEF GuestWrite, Passed, shared, frame
<1>4. CASE Load(t) \/ CasFails(t)
  BY <1>1, <1>4, ObservePassed DEF Load, CasFails
<1>5. CASE HashWord(t)
  BY <1>1, <1>5 DEF HashWord, Passed, shared, frame, TypeOK, ControlTypeOK
<1>6. CASE CasSucceeds(t)
  BY <1>1, <1>6, CasPassed
<1>7. CASE FetchSub(t)
  BY <1>1, <1>7, ContinuePassed DEF FetchSub, Passed
<1>8. ASSUME NEW e \in {"run", "validate"}, NEW i \in Index \cup {NoIndex}, Call(t, e, i)
      PROVE  Passed(t)'
  BY <1>8 DEF Call, Passed, TypeOK, ControlTypeOK
<1>9. CASE Guard(t)
  <2>1. target'[t] = idx[t] /\ idx'[t] = idx[t] /\ idx[t] \in Index /\ pc'[t] # "sub"
    BY <1>9 DEF Guard, TypeOK, CursorTypeOK, ControlTypeOK
  <2>2. idx[t]..idx[t] - 1 = {}
    BY <2>1, SizeAssumption DEF Index
  <2> QED
    BY <2>1, <2>2 DEF Passed
<1>10. ASSUME NEW i \in Index, NEW j \in Index,
              CallRegion(t, i, j) \/ StartInvalidate(t, i, j) \/ Chain(t, i)
       PROVE  Passed(t)'
  BY <1>10 DEF CallRegion, StartInvalidate, Chain, Passed, TypeOK, ControlTypeOK
<1>11. CASE LeaveRun(t)
  BY <1>11 DEF LeaveRun, Passed, TypeOK, ControlTypeOK
<1>12. CASE InvalidateRange(t) \/ FetchAdd(t)
  <2>1. home[t] \in {"idle", "exec"} /\ pc \in [Thread -> Labels]
    BY DEF TypeOK, ControlTypeOK
  <2> QED
    BY <1>12, <2>1 DEF InvalidateRange, FetchAdd, NextRange, Passed
<1>13. CASE UNCHANGED vars
  BY <1>1, <1>13 DEF vars, shared, frame, Passed
<1> QED
  BY <1>2, <1>3, <1>4, <1>5, <1>6, <1>7, <1>8, <1>9, <1>10, <1>11, <1>12, <1>13
  DEF Next, Validating, Invalidating, Alone

(* Through the fast path every range is VALID; through a query every range *)
(* of the region is; and a VALID range differs only in pending words.      *)
LEMMA EnterCurrent ==
  ASSUME Alone, TypeOK, PassedInv, ValidMeansUnchanged, AccountingInv, FastPathSound,
         [Next]_vars, NEW t \in Thread, pc[t] \in {"guard", "load", "sub"},
         pc'[t] = "exec", NEW i \in target'[t]..last[t]
  PROVE  changed[i] \subseteq pending[i]
<1>0. last[t] \in Index /\ idx[t] \in Index /\ Passed(t)
  BY DEF TypeOK, CursorTypeOK, PassedInv
<1>1. CASE Guard(t)
  <2>1. unavailable = 0 /\ loaded /\ At("add") = {}
    BY <1>1 DEF Guard, AccountingInv, At, Alone, TypeOK, ControlTypeOK
  <2>2. NotValid = {}
    BY <2>1 DEF FastPathSound
  <2>3. target'[t] = idx[t]
    BY <1>1 DEF Guard, TypeOK, CursorTypeOK
  <2>4. i \in Index
    BY <1>0, <2>3, SizeAssumption DEF Index
  <2> QED
    BY <2>2, <2>4 DEF NotValid, ValidMeansUnchanged
<1>2. CASE Load(t) \/ FetchSub(t)
  <2>1. /\ mode[t] = "query" /\ idx[t] >= last[t] /\ UNCHANGED target
        /\ status[idx[t]] = "VALID" /\ pc[t] \in {"load", "sub"}
    BY <1>0, <1>2 DEF Load, FetchSub, Observe, Continue, ContinueAll, ContinueEntry,
       ContinueQuery, Passed, frame, TypeOK, ControlTypeOK, CursorTypeOK
  <2>2. /\ target[t] \in Index
        /\ \A k \in target[t]..idx[t] - 1 : status[k] = "VALID"
    BY <1>0, <2>1 DEF Passed
  <2>3. i \in Index /\ (i = idx[t] \/ i \in target[t]..idx[t] - 1)
    BY <1>0, <2>1, <2>2, SizeAssumption DEF Index
  <2> QED
    BY <2>1, <2>2, <2>3 DEF ValidMeansUnchanged
<1>3. Guard(t) \/ Load(t) \/ FetchSub(t)
  <2>1. pc'[t] # pc[t]
    OBVIOUS
  <2>2. ~UNCHANGED pc
    BY <2>1
  <2>3. ~UNCHANGED vars
    BY <2>2 DEF vars
  <2>4. ~Reset /\ \A k \in Mapped, w \in Word : ~GuestWrite(k, w)
    BY <2>2 DEF Reset, GuestWrite
  <2>5. ~HashWord(t) /\ ~CasSucceeds(t) /\ ~CasFails(t) /\ ~Invalidating(t) /\ ~LeaveRun(t)
    BY DEF HashWord, CasSucceeds, CasFails, Invalidating, InvalidateRange, FetchAdd, LeaveRun
  <2>6. \A e \in {"run", "validate"}, k \in Index \cup {NoIndex} : ~Call(t, e, k)
    BY DEF Call
  <2>7. \A k, j \in Index : /\ ~CallRegion(t, k, j) /\ ~StartInvalidate(t, k, j)
                           /\ ~Chain(t, k)
    BY DEF CallRegion, StartInvalidate, Chain
  <2> QED
    BY <2>3, <2>4, <2>5, <2>6, <2>7 DEF Next, Validating, Alone
<1> QED
  BY <1>1, <1>2, <1>3

(* With one thread in the module, whichever way native code is entered -   *)
(* the guard's fast path or its query, after a call, a direct call or a    *)
(* chained exit - every changed word of the region is one that was written *)
(* and not yet announced.                                                  *)
THEOREM OneThreadEntersCurrent == ASSUME Alone PROVE Spec => EntryIsCurrent
<1>1. Init => PassedInv
  BY DEF Init, PassedInv, Passed
<1>2. TypeOK /\ PassedInv /\ [Next]_vars => PassedInv'
  BY NextPassed
<1>3. TypeOK /\ PassedInv /\ ValidMeansUnchanged /\ AccountingInv /\ FastPathSound
      /\ [Next]_vars =>
      [\A t \in Thread : pc[t] \in {"guard", "load", "sub"} /\ pc'[t] = "exec" =>
         \A i \in target'[t]..last[t] : changed[i] \subseteq pending[i]]_vars
  BY EnterCurrent
<1> QED
  BY <1>1, <1>2, <1>3, TypeCorrect, ValidIsUnchanged, AccountingInvariant,
     FastPathIsSound, PTL DEF Spec, EntryIsCurrent
=============================================================================
