------------------------- MODULE ObjectStoreProofs -------------------------
(***************************************************************************)
(* Proofs about ObjectStore, for any versions and any outputs.  The        *)
(* invariants the run checks are not inductive: at each step of a build    *)
(* one has to know what the steps before it have left (Progress).          *)
(***************************************************************************)
EXTENDS ObjectStore, TLAPS

(* What a build may rely on at each of its steps.                          *)
BitcodeReady(o) == ver[o] \in Thin => bc[o] = Whole(ver[o])

Progress(o) ==
  /\ pc[o] \in {"object", "bitcode"} => Cached(ver[o])
  /\ pc[o] = "bitcode" => obj[o] = Whole(ver[o])
  /\ pc[o] \in {"emitObj", "publish"} => BitcodeReady(o)
  /\ pc[o] \in {"stamp", "restamp", "store", "storeBc"} => Right(o, ver[o])
  /\ pc[o] = "storeBc" => ver[o] \in Thin

StoreInv ==
  /\ CacheIsWhole
  /\ MadeIsRight
  /\ StampIsHonest
  /\ \A o \in Output : Progress(o)

(* The contents written by a build are file contents.                      *)
LEMMA Contents ==
  ASSUME NEW v \in Version
  PROVE  Whole(v) \in Content /\ Cut(v) \in Content /\ None \in Content
  BY DEF Whole, Cut, Content

(* The parts of the type invariant: the files of the outputs, and where    *)
(* the builds are.                                                         *)
OutputTypes ==
  /\ obj \in [Output -> Content]
  /\ bc \in [Output -> Content]
  /\ unstamped \in [Output -> BOOLEAN]

BuildTypes ==
  /\ pc \in [Output -> Steps]
  /\ ver \in [Output -> Version]
  /\ copied \in [Output -> BOOLEAN]
  /\ result \in [Output -> {"none", "resumed", "made", "failed"}]

(* Replacing an object or a bitcode file keeps the files well typed.       *)
LEMMA TouchTypes ==
  ASSUME TypeOK, NEW o \in Output, NEW c \in Content
  PROVE  /\ SetObj(o, c) => obj' \in [Output -> Content]
         /\ SetObj(o, c) => unstamped' \in [Output -> BOOLEAN]
         /\ SetBc(o, c) => bc' \in [Output -> Content]
         /\ SetBc(o, c) => unstamped' \in [Output -> BOOLEAN]
  BY DEF TypeOK, SetObj, SetBc

(* Moving a build to its next step, or ending it, keeps the build well     *)
(* typed.                                                                  *)
LEMMA MoveTypes ==
  ASSUME TypeOK, NEW o \in Output
  PROVE  /\ \A step \in Steps : Go(o, step) => BuildTypes'
         /\ \A how \in {"resumed", "made", "failed"} : End(o, how) => BuildTypes'
         /\ Emitting(o) => BuildTypes'
<1>1. ASSUME NEW step \in Steps, Go(o, step) PROVE BuildTypes'
  BY <1>1 DEF TypeOK, BuildTypes, Go
<1>2. ASSUME NEW how \in {"resumed", "made", "failed"}, End(o, how)
      PROVE  BuildTypes'
  BY <1>2 DEF TypeOK, BuildTypes, End, Steps
<1>3. ASSUME Emitting(o) PROVE BuildTypes'
  BY <1>3 DEF TypeOK, BuildTypes, Emitting, Steps
<1>4. QED
  BY <1>1, <1>2, <1>3

(* Every variable keeps its type, whatever the builds do.                  *)
LEMMA NextTypeOK ==
  ASSUME TypeOK, NEW o \in Output, Step(o)
  PROVE  TypeOK'
<1>0. /\ ver[o] \in Version
      /\ \A v \in Version : Whole(v) \in Content /\ Cut(v) \in Content
      /\ None \in Content
      /\ \A v \in Version : cacheObj[v] \in Content /\ cacheBc[v] \in Content
      /\ obj[o] \in Content /\ bc[o] \in Content
  BY Contents DEF TypeOK
<1>1. ASSUME NEW v \in Version, Begin(o, v) PROVE TypeOK'
  <2>1. BuildTypes'
    BY <1>1 DEF Begin, TypeOK, BuildTypes, Steps
  <2>2. OutputTypes'
    <3>1. CASE UNCHANGED <<obj, unstamped>>
      BY <3>1, <1>1 DEF Begin, TypeOK, OutputTypes
    <3>2. CASE \E c \in {None, Cut(v)} : SetObj(o, c)
      BY <3>2, <1>0, <1>1, TouchTypes DEF Begin, TypeOK, OutputTypes
    <3>3. QED
      BY <3>1, <3>2, <1>1 DEF Begin
  <2>3. QED
    BY <1>1, <2>1, <2>2 DEF Begin, TypeOK, BuildTypes, OutputTypes, cache
<1>2. CASE CopyObject(o)
  <2>1. BuildTypes'
    BY <1>2, MoveTypes DEF CopyObject, Steps
  <2>2. OutputTypes'
    BY <1>0, <1>2, TouchTypes DEF CopyObject, TypeOK, OutputTypes
  <2>3. QED
    BY <1>2, <2>1, <2>2 DEF CopyObject, TypeOK, BuildTypes, OutputTypes, cache
<1>3. CASE CopyBitcode(o)
  <2>1. BuildTypes'
    BY <1>3, MoveTypes DEF CopyBitcode, Steps
  <2>2. OutputTypes'
    BY <1>0, <1>3, TouchTypes DEF CopyBitcode, TypeOK, OutputTypes
  <2>3. QED
    BY <1>3, <2>1, <2>2 DEF CopyBitcode, TypeOK, BuildTypes, OutputTypes, cache
<1>4. CASE Emit(o)
  <2>1. BuildTypes'
    BY <1>4, MoveTypes DEF Emit, Steps
  <2>2. OutputTypes'
    BY <1>0, <1>4, TouchTypes DEF Emit, TypeOK, OutputTypes
  <2>3. QED
    BY <1>4, <2>1, <2>2 DEF Emit, TypeOK, BuildTypes, OutputTypes, cache
<1>5. CASE EmitBitcode(o)
  <2>1. BuildTypes'
    BY <1>5, MoveTypes DEF EmitBitcode, Steps
  <2>2. OutputTypes'
    BY <1>0, <1>5, TouchTypes DEF EmitBitcode, TypeOK, OutputTypes
  <2>3. QED
    BY <1>5, <2>1, <2>2 DEF EmitBitcode, TypeOK, BuildTypes, OutputTypes, cache
<1>6. CASE EmitObject(o)
  <2>1. BuildTypes'
    BY <1>6, MoveTypes DEF EmitObject, Steps
  <2>2. OutputTypes'
    BY <1>0, <1>6, TouchTypes DEF EmitObject, TypeOK, OutputTypes
  <2>3. QED
    BY <1>6, <2>1, <2>2 DEF EmitObject, TypeOK, BuildTypes, OutputTypes, cache
<1>7. CASE Publish(o)
  <2>1. BuildTypes'
    BY <1>7, MoveTypes DEF Publish, Steps
  <2>2. OutputTypes'
    BY <1>0, <1>7, TouchTypes DEF Publish, TypeOK, OutputTypes
  <2>3. QED
    BY <1>7, <2>1, <2>2 DEF Publish, TypeOK, BuildTypes, OutputTypes, cache
<1>8. CASE RemoveStamp(o)
  <2>1. BuildTypes'
    BY <1>8, MoveTypes DEF RemoveStamp, AfterStamp, Steps
  <2>2. QED
    BY <1>8, <2>1 DEF RemoveStamp, TypeOK, BuildTypes, cache
<1>9. CASE WriteStamp(o)
  <2>1. BuildTypes'
    BY <1>9, MoveTypes DEF WriteStamp, AfterStamp, Steps
  <2>2. QED
    BY <1>9, <2>1 DEF WriteStamp, TypeOK, BuildTypes, cache
<1>10. CASE StoreObject(o)
  <2>1. BuildTypes'
    BY <1>10, MoveTypes DEF StoreObject, Steps
  <2>2. cacheObj' \in [Version -> Content]
    BY <1>0, <1>10 DEF StoreObject, TypeOK
  <2>3. QED
    BY <1>10, <2>1, <2>2 DEF StoreObject, TypeOK, BuildTypes, files
<1>11. CASE StoreBitcode(o)
  <2>1. BuildTypes'
    BY <1>11, MoveTypes DEF StoreBitcode
  <2>2. cacheBc' \in [Version -> Content]
    BY <1>0, <1>11 DEF StoreBitcode, TypeOK
  <2>3. QED
    BY <1>11, <2>1, <2>2 DEF StoreBitcode, TypeOK, BuildTypes, files
<1>12. CASE Kill(o)
  <2>1. BuildTypes'
    BY <1>12, MoveTypes DEF Kill
  <2>2. QED
    BY <1>12, <2>1 DEF Kill, TypeOK, BuildTypes, files, cache
<1>13. QED
  BY <1>1, <1>2, <1>3, <1>4, <1>5, <1>6, <1>7, <1>8, <1>9, <1>10, <1>11, <1>12
  DEF Step

(* The files, versions and temporary steps of a build are of their types.  *)
THEOREM TypeCorrect == Spec => []TypeOK
<1>1. Init => TypeOK
  BY DEF Init, TypeOK, Content, Steps
<1>2. TypeOK /\ [Next]_vars => TypeOK'
  <2>1. CASE Next
    BY <2>1, NextTypeOK DEF Next
  <2>2. CASE UNCHANGED vars
    BY <2>2 DEF TypeOK, vars, files, cache, build
  <2>3. QED
    BY <2>1, <2>2
<1>3. QED
  BY <1>1, <1>2, PTL DEF Spec

(* A step keeps what the builds rely on.                                   *)
LEMMA NextStoreInv ==
  ASSUME TypeOK, StoreInv, NEW o \in Output, Step(o)
  PROVE  StoreInv'
<1>0. /\ \A v \in Version : Whole(v) # None
      /\ \A v, w \in Version : Whole(v) = Whole(w) => v = w
  <2>1. \A v \in Version : Whole(v) \in [ver : Version, cut : BOOLEAN]
    BY DEF Whole
  <2>2. \A v, w \in Version : Whole(v) = Whole(w) => Whole(v).ver = Whole(w).ver
    OBVIOUS
  <2>3. \A v \in Version : Whole(v).ver = v
    BY DEF Whole
  <2>4. QED
    BY <2>1, <2>2, <2>3, StoreAssumption
<1> USE StoreAssumption
    DEF TypeOK, StoreInv, CacheIsWhole, MadeIsRight, StampIsHonest, Progress,
        BitcodeReady, Right, Cached
<1>1. ASSUME NEW v \in Version, Begin(o, v) PROVE StoreInv'
  BY <1>0, <1>1 DEF Begin, SetObj, cache, Resumable
<1>2. CASE CopyObject(o)
  BY <1>0, <1>2 DEF CopyObject, SetObj, Go, Emitting, cache
<1>3. CASE CopyBitcode(o)
  BY <1>0, <1>3 DEF CopyBitcode, SetBc, Go, Emitting, cache
<1>4. CASE Emit(o)
  BY <1>0, <1>4 DEF Emit, SetBc, Go, End, cache
<1>5. CASE EmitBitcode(o)
  BY <1>0, <1>5 DEF EmitBitcode, SetBc, Go, cache
<1>6. CASE EmitObject(o)
  BY <1>0, <1>6 DEF EmitObject, SetObj, Go, End, cache
<1>7. CASE Publish(o)
  BY <1>0, <1>7 DEF Publish, SetObj, Go, End, cache
<1>8. CASE RemoveStamp(o)
  BY <1>0, <1>8 DEF RemoveStamp, AfterStamp, Go, End, cache
<1>9. CASE WriteStamp(o)
  <2>1. Right(o, ver[o]) /\ UNCHANGED <<obj, bc, cacheObj, cacheBc, ver>>
    BY <1>9 DEF WriteStamp, AfterStamp, Go, End, cache
  <2>2. StampIsHonest'
    BY <1>9, <2>1 DEF WriteStamp
  <2>3. MadeIsRight' /\ \A p \in Output : Progress(p)'
    <3>1. CASE copied[o]
      BY <1>9, <2>1, <3>1 DEF WriteStamp, AfterStamp, End
    <3>2. CASE ~copied[o]
      BY <1>9, <2>1, <3>2 DEF WriteStamp, AfterStamp, Go
    <3>3. QED
      BY <3>1, <3>2
  <2>4. QED
    BY <2>1, <2>2, <2>3
<1>10. CASE StoreObject(o)
  BY <1>0, <1>10 DEF StoreObject, Go, End, files
<1>11. CASE StoreBitcode(o)
  BY <1>0, <1>11 DEF StoreBitcode, End, files
<1>12. CASE Kill(o)
  BY <1>0, <1>12 DEF Kill, End, files, cache
<1>13. QED
  BY <1>1, <1>2, <1>3, <1>4, <1>5, <1>6, <1>7, <1>8, <1>9, <1>10, <1>11, <1>12
  DEF Step

(* The inductive invariant holds throughout.                               *)
LEMMA StoreInvariant == Spec => []StoreInv
<1>1. Init => StoreInv
  BY StoreAssumption DEF Init, StoreInv, CacheIsWhole, MadeIsRight,
     StampIsHonest, Progress, BitcodeReady, Right, Cached
<1>2. TypeOK /\ StoreInv /\ [Next]_vars => StoreInv'
  <2>1. CASE Next
    BY <2>1, NextStoreInv DEF Next
  <2>2. CASE UNCHANGED vars
    BY <2>2 DEF StoreInv, CacheIsWhole, MadeIsRight, StampIsHonest, Progress,
       BitcodeReady, Right, Cached, vars, files, cache, build
  <2>3. QED
    BY <2>1, <2>2
<1>3. QED
  BY <1>1, <1>2, TypeCorrect, PTL DEF Spec

(* The cache holds only whole files of the version they are filed under,   *)
(* for any number of builds and kills.                                     *)
THEOREM CacheWhole == Spec => []CacheIsWhole
<1>1. StoreInv => CacheIsWhole
  BY DEF StoreInv
<1>2. QED
  BY <1>1, StoreInvariant, PTL

(* A build that says it made an object delivers the version asked for.     *)
THEOREM MadeRight == Spec => []MadeIsRight
<1>1. StoreInv => MadeIsRight
  BY DEF StoreInv
<1>2. QED
  BY <1>1, StoreInvariant, PTL

(* A stamp whose files were not touched since speaks for them.             *)
THEOREM StampHonest == Spec => []StampIsHonest
<1>1. StoreInv => StampIsHonest
  BY DEF StoreInv
<1>2. QED
  BY <1>1, StoreInvariant, PTL
=============================================================================
