-------------------------- MODULE Training_proof --------------------------
(***************************************************************************)
(* The way from labelled people to a classifier.                           *)
(*                                                                         *)
(* Labels stay with their clicks, and only expired ones are removed.  The  *)
(* one step that needs thought is an erasure: it moves everything behind   *)
(* the erased index, and is harmless because the indices still to come are *)
(* before it.                                                              *)
(*                                                                         *)
(* Then what a model that is not torn can be relied on for, for any sizes  *)
(* of images and any history of learning, failing, saving and loading.     *)
(* Two facts carry it: a model that is not torn has the dimensions of its  *)
(* components, in memory and in its file; and all parameter vectors of one *)
(* training, wherever they are kept, have one length.                      *)
(***************************************************************************)
EXTENDS SilhouetteTraining, ImageModel, SequenceTheorems, TLAPS

LEMMA ErasedType ==
  ASSUME NEW S, NEW s \in Seq(S), NEW i \in 1..Len(s)
  PROVE  /\ Erased(s, i) \in Seq(S)
         /\ Len(Erased(s, i)) = Len(s) - 1
         /\ \A j \in 1..Len(s) - 1 : Erased(s, i)[j] = IF j < i THEN s[j] ELSE s[j + 1]
<1>1. Len(s) - 1 \in Nat
  OBVIOUS
<1>2. \A j \in 1..Len(s) - 1 : (IF j < i THEN s[j] ELSE s[j + 1]) \in S
  OBVIOUS
<1> QED BY <1>1, <1>2 DEF Erased

\* What the type invariant says of one point.
LEMMA PointType ==
  ASSUME TypeOK
  PROVE  /\ Points = 1..Len(pointsToTrack) /\ Len(pointsToTrack) \in Nat
         /\ \A i \in Points : /\ pointsToTrack[i] \in Position
                              /\ pointsFlag[i] \in BOOLEAN
                              /\ pointsMissCounter[i] \in Nat
                              /\ clicks[i] \in Nat
<1>1. pointsToTrack \in Seq(Position) /\ pointsFlag \in Seq(BOOLEAN)
  BY DEF TypeOK
<1>2. pointsMissCounter \in Seq(Nat) /\ clicks \in Seq(Nat)
  BY DEF TypeOK
<1>3. /\ Len(pointsFlag) = Len(pointsToTrack)
      /\ Len(pointsMissCounter) = Len(pointsToTrack)
      /\ Len(clicks) = Len(pointsToTrack)
  BY DEF TypeOK
<1>4. Points = 1..Len(pointsToTrack) /\ Len(pointsToTrack) \in Nat
  BY <1>1 DEF Points
<1>5. \A S : \A s \in Seq(S) : \A i \in 1..Len(s) : s[i] \in S
  OBVIOUS
<1> QED BY <1>1, <1>2, <1>3, <1>4, <1>5

\* A function on the points is a sequence as long as theirs.
LEMMA MapType ==
  ASSUME NEW S, NEW n \in Nat, NEW s \in [1..n -> S]
  PROVE  s \in Seq(S) /\ Len(s) = n
OBVIOUS

LEMMA InitInv == Init => TrainingInv
BY TrainingAssumption
DEF Init, TrainingInv, TypeOK, Ordered, Due, ExpiredAreGone, Points

LEMMA OnMouseInv ==
  ASSUME TrainingInv, NEW p \in Position, NEW positive \in BOOLEAN, OnMouse(p, positive)
  PROVE  TrainingInv'
<1> USE TrainingAssumption DEF TrainingInv
<1> DEFINE n == Len(pointsToTrack)
<1>1. n \in Nat /\ Points = 1..n /\ Points' = 1..n + 1
  BY DEF Points, TypeOK, OnMouse
<1>2. TypeOK'
  <2>1. toDelete' \subseteq Points'
    BY <1>1 DEF TypeOK, OnMouse
  <2>2. /\ pointsToTrack \in Seq(Position) /\ labels \in Seq(BOOLEAN)
        /\ pointsFlag \in Seq(BOOLEAN) /\ Len(pointsFlag) = n
    BY DEF TypeOK
  <2>3. /\ pointsMissCounter \in Seq(Nat) /\ Len(pointsMissCounter) = n
        /\ clicks \in Seq(Nat) /\ Len(clicks) = n
        /\ matchedAt \in Seq(Nat) /\ Len(matchedAt) = n
        /\ asOf \in Seq(Nat) /\ Len(asOf) = n
    BY DEF TypeOK
  <2>4. looks \in Nat /\ shown \in Nat /\ Len(labels) + 1 \in Nat
    BY <2>2 DEF TypeOK
  <2>5. \A S : \A s \in Seq(S), e \in S :
          Append(s, e) \in Seq(S) /\ Len(Append(s, e)) = Len(s) + 1
    OBVIOUS
  <2>6. /\ pointsToTrack' \in Seq(Position) /\ Len(pointsToTrack') = n + 1
        /\ pointsFlag' \in Seq(BOOLEAN) /\ Len(pointsFlag') = n + 1
        /\ labels' \in Seq(BOOLEAN)
    BY <2>2, <2>5 DEF OnMouse
  <2>7. /\ pointsMissCounter' \in Seq(Nat) /\ Len(pointsMissCounter') = n + 1
        /\ clicks' \in Seq(Nat) /\ Len(clicks') = n + 1
    BY <2>3, <2>4, <2>5 DEF OnMouse
  <2>8. /\ matchedAt' \in Seq(Nat) /\ Len(matchedAt') = n + 1
        /\ asOf' \in Seq(Nat) /\ Len(asOf') = n + 1
    <3>1. matchedAt' = Append(matchedAt, looks) /\ asOf' = Append(asOf, shown)
      BY DEF OnMouse
    <3> QED BY <2>3, <2>4, <2>5, <3>1
  <2>9. UNCHANGED <<lastDetect, trainDataFlags, prevFrame, frame, pc, toDelete, det,
                    shown, looks>>
    BY DEF OnMouse
  <2> QED BY <2>1, <2>6, <2>7, <2>8, <2>9 DEF TypeOK
<1>3. Ordered'
  <2>1. labels \in Seq(BOOLEAN) /\ labels' = Append(labels, positive)
    BY DEF TypeOK, OnMouse
  <2>2. /\ DOMAIN labels = 1..Len(labels) /\ DOMAIN labels' = 1..Len(labels) + 1
        /\ \A c \in DOMAIN labels : labels'[c] = labels[c]
        /\ labels'[Len(labels) + 1] = positive /\ Len(labels) \in Nat
    BY <2>1, AppendProperties, LenProperties
  <2>3. /\ \A i \in Points : pointsFlag'[i] = pointsFlag[i]
        /\ pointsFlag'[n + 1] = positive
    <3>1. pointsFlag \in Seq(BOOLEAN) /\ Len(pointsFlag) = n
      BY DEF TypeOK
    <3> QED BY <1>1, <3>1, AppendProperties DEF OnMouse
  <2>4. /\ \A i \in Points : clicks'[i] = clicks[i]
        /\ clicks'[n + 1] = Len(labels) + 1
    <3>1. clicks \in Seq(Nat) /\ Len(clicks) = n /\ Len(labels) + 1 \in Nat
      BY <2>2 DEF TypeOK
    <3> QED BY <1>1, <3>1, AppendProperties DEF OnMouse
  <2>5. \A i \in Points : clicks[i] \in 1..Len(labels) /\ pointsFlag[i] = labels[clicks[i]]
    BY <2>2 DEF Ordered
  <2>6. ASSUME NEW i \in Points', NEW j \in Points', i < j PROVE clicks'[i] < clicks'[j]
    <3>1. i \in Points
      BY <1>1, <2>6
    <3>2. CASE j \in Points
      BY <2>4, <2>6, <3>1, <3>2 DEF Ordered
    <3>3. CASE j = n + 1
      BY <2>2, <2>4, <2>5, <3>1, <3>3
    <3> QED BY <1>1, <3>2, <3>3
  <2>7. ASSUME NEW i \in Points'
        PROVE  clicks'[i] \in DOMAIN labels' /\ pointsFlag'[i] = labels'[clicks'[i]]
    <3>1. CASE i \in Points
      BY <2>2, <2>3, <2>4, <2>5, <3>1
    <3>2. CASE i = n + 1
      BY <2>2, <2>3, <2>4, <3>2
    <3> QED BY <1>1, <3>1, <3>2
  <2> QED BY <2>6, <2>7 DEF Ordered
<1>4. Due' /\ ExpiredAreGone'
  BY DEF OnMouse, Due, ExpiredAreGone
<1> QED BY <1>2, <1>3, <1>4

LEMMA DetectAndTrackInv ==
  ASSUME TrainingInv, DetectAndTrack
  PROVE  TrainingInv'
<1> USE TrainingAssumption DEF TrainingInv
<1>1. Points' = Points /\ Points = 1..Len(pointsToTrack) /\ Len(pointsToTrack) \in Nat
  BY PointType DEF Points, DetectAndTrack
<1>2. TypeOK'
  <2>1. pointsToTrack' \in Seq(Position) /\ Len(pointsToTrack') = Len(pointsToTrack)
    <3>1. PICK flow \in [Position -> Position] :
             pointsToTrack' = [i \in Points |-> flow[pointsToTrack[i]]]
      BY DEF DetectAndTrack
    <3>2. pointsToTrack' \in [1..Len(pointsToTrack) -> Position]
      BY <1>1, <3>1, PointType
    <3> QED BY <1>1, <3>2, MapType
  <2>2. asOf' \in Seq(Nat) /\ Len(asOf') = Len(pointsToTrack)
    <3>1. asOf' \in [1..Len(pointsToTrack) -> Nat]
      BY <1>1 DEF DetectAndTrack, TypeOK
    <3> QED BY <1>1, <3>1, MapType
  <2>3. lastDetect' \in Seq(Detection) /\ det' \in 1..Len(lastDetect') + 1
    BY DEF DetectAndTrack
  <2>4. toDelete' \subseteq Points'
    BY <1>1 DEF DetectAndTrack, Expired
  <2> QED BY <2>1, <2>2, <2>3, <2>4 DEF TypeOK, DetectAndTrack
<1>3. Ordered'
  BY <1>1 DEF Ordered, DetectAndTrack
<1>4. Due' /\ ExpiredAreGone'
  <2>1. \A i \in Points : pointsMissCounter[i] \in Nat
    BY PointType
  <2> QED BY <1>1, <2>1 DEF DetectAndTrack, Due, Expired, ExpiredAreGone
<1> QED BY <1>2, <1>3, <1>4

LEMMA ErasePointInv ==
  ASSUME TrainingInv, ErasePoint
  PROVE  TrainingInv'
<1> USE TrainingAssumption DEF TrainingInv
<1> DEFINE n == Len(pointsToTrack)
<1>1. PICK i \in toDelete : IsNext(i) /\ Erase(i) /\ toDelete' = toDelete \ {i}
  BY DEF ErasePoint
<1>2. n \in Nat /\ Points = 1..n /\ i \in 1..n
  BY <1>1 DEF Points, TypeOK
<1>3. /\ pointsToTrack' \in Seq(Position) /\ Len(pointsToTrack') = n - 1
      /\ pointsFlag' \in Seq(BOOLEAN) /\ Len(pointsFlag') = n - 1
      /\ pointsMissCounter' \in Seq(Nat) /\ Len(pointsMissCounter') = n - 1
      /\ clicks' \in Seq(Nat) /\ Len(clicks') = n - 1
      /\ matchedAt' \in Seq(Nat) /\ Len(matchedAt') = n - 1
      /\ asOf' \in Seq(Nat) /\ Len(asOf') = n - 1
  <2>1. pointsToTrack' \in Seq(Position) /\ Len(pointsToTrack') = n - 1
    <3>1. pointsToTrack \in Seq(Position) /\ Len(pointsToTrack) = n
      BY DEF TypeOK
    <3> QED BY <1>1, <1>2, <3>1, ErasedType DEF Erase
  <2>2. pointsFlag' \in Seq(BOOLEAN) /\ Len(pointsFlag') = n - 1
    <3>1. pointsFlag \in Seq(BOOLEAN) /\ Len(pointsFlag) = n
      BY DEF TypeOK
    <3> QED BY <1>1, <1>2, <3>1, ErasedType DEF Erase
  <2>3. pointsMissCounter' \in Seq(Nat) /\ Len(pointsMissCounter') = n - 1
    <3>1. pointsMissCounter \in Seq(Nat) /\ Len(pointsMissCounter) = n
      BY DEF TypeOK
    <3> QED BY <1>1, <1>2, <3>1, ErasedType DEF Erase
  <2>4. clicks' \in Seq(Nat) /\ Len(clicks') = n - 1
    <3>1. clicks \in Seq(Nat) /\ Len(clicks) = n
      BY DEF TypeOK
    <3> QED BY <1>1, <1>2, <3>1, ErasedType DEF Erase
  <2>5. matchedAt' \in Seq(Nat) /\ Len(matchedAt') = n - 1
    <3>1. matchedAt \in Seq(Nat) /\ Len(matchedAt) = n
      BY DEF TypeOK
    <3> QED BY <1>1, <1>2, <3>1, ErasedType DEF Erase
  <2>6. asOf' \in Seq(Nat) /\ Len(asOf') = n - 1
    <3>1. asOf \in Seq(Nat) /\ Len(asOf) = n
      BY DEF TypeOK
    <3> QED BY <1>1, <1>2, <3>1, ErasedType DEF Erase
  <2> QED BY <2>1, <2>2, <2>3, <2>4, <2>5, <2>6
<1>4. Points' = 1..n - 1
  BY <1>2, <1>3 DEF Points
<1>5. \A j \in 1..n - 1 :
        /\ clicks'[j] = IF j < i THEN clicks[j] ELSE clicks[j + 1]
        /\ pointsFlag'[j] = IF j < i THEN pointsFlag[j] ELSE pointsFlag[j + 1]
        /\ pointsMissCounter'[j] = IF j < i THEN pointsMissCounter[j]
                                            ELSE pointsMissCounter[j + 1]
  <2>1. \A j \in 1..n - 1 : clicks'[j] = IF j < i THEN clicks[j] ELSE clicks[j + 1]
    <3>1. clicks \in Seq(Nat) /\ Len(clicks) = n
      BY DEF TypeOK
    <3> QED BY <1>1, <1>2, <3>1 DEF Erase, Erased
  <2>2. \A j \in 1..n - 1 : pointsFlag'[j] = IF j < i THEN pointsFlag[j] ELSE pointsFlag[j + 1]
    <3>1. pointsFlag \in Seq(BOOLEAN) /\ Len(pointsFlag) = n
      BY DEF TypeOK
    <3> QED BY <1>1, <1>2, <3>1 DEF Erase, Erased
  <2>3. \A j \in 1..n - 1 : pointsMissCounter'[j] = IF j < i THEN pointsMissCounter[j]
                                                   ELSE pointsMissCounter[j + 1]
    <3>1. pointsMissCounter \in Seq(Nat) /\ Len(pointsMissCounter) = n
      BY DEF TypeOK
    <3> QED BY <1>1, <1>2, <3>1 DEF Erase, Erased
  <2> QED BY <2>1, <2>2, <2>3
<1>6. \A j \in toDelete' : j \in 1..n /\ j < i
  BY <1>1, <1>2 DEF IsNext, TypeOK
<1>7. TypeOK'
  BY <1>3, <1>4, <1>6, <1>2 DEF TypeOK, ErasePoint
<1>8. Ordered'
  <2>1. labels' = labels
    BY DEF ErasePoint
  <2> DEFINE From(j) == IF j < i THEN j ELSE j + 1
  <2>2. \A j \in 1..n - 1 : /\ From(j) \in Points
                            /\ clicks'[j] = clicks[From(j)]
                            /\ pointsFlag'[j] = pointsFlag[From(j)]
    BY <1>2, <1>5
  <2>3. \A j, k \in 1..n - 1 : j < k => From(j) < From(k)
    BY <1>2
  <2> HIDE DEF From
  <2>4. \A j, k \in Points' : j < k => clicks'[j] < clicks'[k]
    BY <1>4, <2>2, <2>3 DEF Ordered
  <2>5. \A j \in Points' : clicks'[j] \in DOMAIN labels /\ pointsFlag'[j] = labels[clicks'[j]]
    BY <1>4, <2>2 DEF Ordered
  <2> QED BY <2>1, <2>4, <2>5 DEF Ordered
<1>9. Due'
  <2>1. \A j \in toDelete' : pointsMissCounter'[j] >= MissLimit
    BY <1>1, <1>2, <1>5, <1>6 DEF Due
  <2>2. pc = "clean"
    BY DEF ErasePoint
  <2>3. ASSUME NEW j \in Points' \ toDelete' PROVE pointsMissCounter'[j] < MissLimit
    <3>1. CASE j < i
      BY <1>1, <1>2, <1>4, <1>5, <2>2, <2>3, <3>1 DEF Due
    <3>2. CASE j >= i
      <4>1. j + 1 \in Points /\ j + 1 \notin toDelete
        BY <1>1, <1>2, <1>4, <2>3, <3>2 DEF IsNext, TypeOK
      <4> QED BY <1>2, <1>4, <1>5, <2>2, <3>2, <4>1 DEF Due
    <3> QED BY <1>2, <1>4, <3>1, <3>2
  <2> QED BY <2>1, <2>2, <2>3 DEF Due, ErasePoint
<1>10. ExpiredAreGone'
  BY DEF ExpiredAreGone, ErasePoint
<1> QED BY <1>7, <1>8, <1>9, <1>10

LEMMA LabelInv ==
  ASSUME TrainingInv, SkipWeak \/ TakeSample \/ NoLabel
  PROVE  TrainingInv'
<1> USE TrainingAssumption DEF TrainingInv
<1>1. /\ Points' = Points /\ NextDetection /\ Labelling
      /\ Points = 1..Len(pointsToTrack) /\ Len(pointsToTrack) \in Nat
  BY PointType DEF Points, SkipWeak, TakeSample, NoLabel, NextDetection
<1>2. /\ pointsMissCounter' \in Seq(Nat) /\ Len(pointsMissCounter') = Len(pointsToTrack)
      /\ matchedAt' \in Seq(Nat) /\ Len(matchedAt') = Len(pointsToTrack)
      /\ trainDataFlags' \in Seq(BOOLEAN) /\ looks' \in Nat
  <2>1. CASE SkipWeak
    BY <2>1 DEF SkipWeak, TypeOK
  <2>2. CASE TakeSample
    <3>1. PICK i \in Points :
            /\ pointsMissCounter' = MissesUntil(i)
            /\ matchedAt' = [matchedAt EXCEPT ![i] = looks + 1]
            /\ trainDataFlags' = Append(trainDataFlags, pointsFlag[i])
      BY <2>2 DEF TakeSample
    <3>2. MissesUntil(i) \in [1..Len(pointsToTrack) -> Nat]
      BY <1>1, PointType DEF MissesUntil
    <3>3. MissesUntil(i) \in Seq(Nat) /\ Len(MissesUntil(i)) = Len(pointsToTrack)
      BY <1>1, <3>2, MapType
    <3>4. pointsFlag[i] \in BOOLEAN /\ trainDataFlags \in Seq(BOOLEAN)
      BY PointType DEF TypeOK
    <3>5. trainDataFlags' \in Seq(BOOLEAN)
      BY <3>1, <3>4, AppendProperties
    <3>6. matchedAt' \in Seq(Nat) /\ Len(matchedAt') = Len(pointsToTrack)
      BY <1>1, <3>1 DEF TypeOK
    <3> QED BY <2>2, <3>1, <3>3, <3>5, <3>6 DEF TakeSample, TypeOK
  <2>3. CASE NoLabel
    <3>1. pointsMissCounter' \in [1..Len(pointsToTrack) -> Nat]
      BY <1>1, <2>3, PointType DEF NoLabel
    <3>2. pointsMissCounter' \in Seq(Nat) /\ Len(pointsMissCounter') = Len(pointsToTrack)
      BY <1>1, <3>1, MapType
    <3> QED BY <2>3, <3>2 DEF NoLabel, TypeOK
  <2> QED BY <2>1, <2>2, <2>3
<1>3. det \in 1..Len(lastDetect) /\ det' = det + 1
  BY <1>1 DEF NextDetection, Labelling, TypeOK
<1>4. TypeOK'
  BY <1>1, <1>2, <1>3 DEF TypeOK, NextDetection
<1>5. Ordered'
  BY <1>1 DEF Ordered, NextDetection
<1>6. Due' /\ ExpiredAreGone'
  BY <1>1, <1>3 DEF Due, ExpiredAreGone, NextDetection, Labelling
<1> QED BY <1>4, <1>5, <1>6

\* The steps that move no point.
LEMMA QuietInv ==
  ASSUME TrainingInv, ReadFrame \/ Stop \/ CleanPointsDone \/ ShowFrame
  PROVE  TrainingInv'
<1> USE TrainingAssumption DEF TrainingInv
<1>1. UNCHANGED vectors /\ Points' = Points
  BY DEF ReadFrame, Stop, CleanPointsDone, ShowFrame, vectors, Points
<1>2. TypeOK'
  BY <1>1 DEF ReadFrame, Stop, CleanPointsDone, ShowFrame, vectors, TypeOK, Prev
<1>3. Ordered'
  BY <1>1 DEF ReadFrame, Stop, CleanPointsDone, ShowFrame, vectors, Ordered
<1>4. Due'
  BY <1>1 DEF ReadFrame, Stop, CleanPointsDone, ShowFrame, vectors, Due
<1>5. ExpiredAreGone'
  BY <1>1 DEF ReadFrame, Stop, CleanPointsDone, ShowFrame, vectors, Due, ExpiredAreGone
<1> QED BY <1>2, <1>3, <1>4, <1>5

LEMMA StepInv == TrainingInv /\ [Next]_vars => TrainingInv'
<1> SUFFICES ASSUME TrainingInv, [Next]_vars PROVE TrainingInv'
  OBVIOUS
<1>1. CASE ReadFrame \/ Stop \/ CleanPointsDone \/ ShowFrame
  BY <1>1, QuietInv
<1>2. CASE DetectAndTrack
  BY <1>2, DetectAndTrackInv
<1>3. CASE ErasePoint
  BY <1>3, ErasePointInv
<1>4. CASE SkipWeak \/ TakeSample \/ NoLabel
  BY <1>4, LabelInv
<1>5. CASE \E p \in Position, positive \in BOOLEAN : OnMouse(p, positive)
  BY <1>5, OnMouseInv
<1>6. CASE UNCHANGED vars
  BY <1>6 DEF vars, vectors, TrainingInv, TypeOK, Ordered, Due, ExpiredAreGone, Points
<1> QED BY <1>1, <1>2, <1>3, <1>4, <1>5, <1>6 DEF Next

LEMMA InvHolds == Spec => []TrainingInv
BY InitInv, StepInv, PTL DEF Spec

\* No point that was due when cleaning began is left when labelling begins,
\* and the three vectors are aligned at every step.
THEOREM TrainingIsClean == Spec => [](TypeOK /\ ExpiredAreGone)
<1>1. TrainingInv => TypeOK /\ ExpiredAreGone
  BY DEF TrainingInv
<1> QED BY <1>1, InvHolds, PTL

\* A sample's label is that of the earliest living click in the detection.
THEOREM LabelsStayOldest == Spec => OldestLabelWins
<1> DEFINE A == trainDataFlags' # trainDataFlags =>
                  \E i \in Inside :
                    /\ \A j \in Inside : clicks[i] <= clicks[j]
                    /\ trainDataFlags' = Append(trainDataFlags, labels[clicks[i]])
<1>1. TrainingInv /\ [Next]_vars => [A]_vars
  <2> SUFFICES ASSUME TrainingInv, Next, trainDataFlags' # trainDataFlags PROVE A
    OBVIOUS
  <2>1. TakeSample
    BY DEF Next, ReadFrame, Stop, DetectAndTrack, ErasePoint, CleanPointsDone, SkipWeak,
           NoLabel, ShowFrame, OnMouse
  <2>2. PICK i \in Points : /\ IsFirstInside(i)
                            /\ trainDataFlags' = Append(trainDataFlags, pointsFlag[i])
    BY <2>1 DEF TakeSample
  <2>3. ASSUME NEW j \in Inside PROVE clicks[i] <= clicks[j]
    <3>1. i <= j /\ i \in Points /\ j \in Points
      BY <2>2, <2>3 DEF IsFirstInside, Inside
    <3>2. clicks[i] \in Nat /\ clicks[j] \in Nat /\ i \in Nat /\ j \in Nat
      BY <3>1, PointType DEF TrainingInv
    <3> QED BY <3>1, <3>2 DEF TrainingInv, Ordered
  <2>4. pointsFlag[i] = labels[clicks[i]]
    BY <2>2 DEF TrainingInv, Ordered
  <2> QED BY <2>2, <2>3, <2>4 DEF IsFirstInside
<1> QED BY <1>1, InvHolds, PTL DEF Spec, OldestLabelWins

\* A point that disappears had missed MissLimit detections itself.
THEOREM RemovalIsDeserved == Spec => ForgetsOnlyExpired
<1> DEFINE A == \A i \in Points :
                  (\A j \in DOMAIN clicks' : clicks'[j] # clicks[i])
                    => pointsMissCounter[i] >= MissLimit
<1>1. TrainingInv /\ [Next]_vars => [A]_vars
  <2> SUFFICES ASSUME TrainingInv, Next, NEW i \in Points,
                      \A j \in DOMAIN clicks' : clicks'[j] # clicks[i]
               PROVE  pointsMissCounter[i] >= MissLimit
    OBVIOUS
  <2>1. clicks \in Seq(Nat) /\ i \in DOMAIN clicks /\ i \in 1..Len(clicks)
    BY DEF TrainingInv, TypeOK, Points
  <2>2. CASE ErasePoint
    <3>1. PICK k \in toDelete : IsNext(k) /\ Erase(k)
      BY <2>2 DEF ErasePoint
    <3>2. k \in 1..Len(clicks)
      BY <3>1 DEF TrainingInv, TypeOK, Points
    <3>3. /\ clicks' \in Seq(Nat) /\ Len(clicks') = Len(clicks) - 1
          /\ \A j \in 1..Len(clicks) - 1 :
               clicks'[j] = IF j < k THEN clicks[j] ELSE clicks[j + 1]
      BY <2>1, <3>1, <3>2, ErasedType DEF Erase
    <3>4. CASE i < k
      <4>1. i \in 1..Len(clicks) - 1
        BY <2>1, <3>2, <3>4
      <4>2. i \in DOMAIN clicks' /\ clicks'[i] = clicks[i]
        BY <3>3, <3>4, <4>1
      <4> QED BY <4>2
    <3>5. CASE i > k
      <4>1. i - 1 \in 1..Len(clicks) - 1 /\ ~(i - 1 < k) /\ (i - 1) + 1 = i
        BY <2>1, <3>2, <3>5
      <4>2. i - 1 \in DOMAIN clicks' /\ clicks'[i - 1] = clicks[i]
        BY <3>3, <4>1
      <4> QED BY <4>2
    <3>6. CASE i = k
      BY <3>1, <3>6 DEF TrainingInv, Due
    <3> QED BY <2>1, <3>2, <3>4, <3>5, <3>6
  <2>3. CASE \E p \in Position, positive \in BOOLEAN : OnMouse(p, positive)
    <3>1. clicks' = Append(clicks, Len(labels) + 1)
      BY <2>3 DEF OnMouse
    <3>2. i \in DOMAIN clicks' /\ clicks'[i] = clicks[i]
      BY <2>1, <3>1 DEF TrainingInv, TypeOK
    <3> QED BY <3>2
  <2>4. CASE clicks' = clicks
    BY <2>1, <2>4
  <2> QED BY <2>2, <2>3, <2>4
       DEF Next, ReadFrame, Stop, DetectAndTrack, CleanPointsDone, SkipWeak, TakeSample,
           NoLabel, NextDetection, ShowFrame, vectors
<1> QED BY <1>1, InvHolds, PTL DEF Spec, ForgetsOnlyExpired

-----------------------------------------------------------------------------
(* Where points come from, and how long they live.                         *)

\* Losing points disturbs none of this.
LEMMA EraseLife ==
  ASSUME LifeInv, ErasePoint
  PROVE  Aligned' /\ MissesBounded' /\ OlderGoesFirst'
<1> USE TrainingAssumption DEF LifeInv, TrainingInv
<1>1. PICK i \in toDelete : Erase(i)
  BY DEF ErasePoint
<1>2. Len(pointsToTrack) \in Nat /\ Points = 1..Len(pointsToTrack) /\ i \in 1..Len(pointsToTrack)
  BY <1>1 DEF Points, TypeOK
<1>3. Points' = 1..Len(pointsToTrack) - 1
  <2>1. pointsToTrack \in Seq(Position)
    BY DEF TypeOK
  <2> QED BY <1>1, <1>2, <2>1, ErasedType DEF Erase, Points
<1> DEFINE Before(j) == IF j < i THEN j ELSE j + 1
<1>4. ASSUME NEW j \in Points'
      PROVE  /\ Before(j) \in Points
             /\ asOf'[j] = asOf[Before(j)]
             /\ matchedAt'[j] = matchedAt[Before(j)]
             /\ pointsMissCounter'[j] = pointsMissCounter[Before(j)]
  <2>1. Before(j) \in Points
    BY <1>2, <1>3
  <2>2. asOf'[j] = asOf[Before(j)]
    BY <1>1, <1>2, <1>3 DEF Erase, Erased, TypeOK
  <2>3. matchedAt'[j] = matchedAt[Before(j)]
    BY <1>1, <1>2, <1>3 DEF Erase, Erased, TypeOK
  <2>4. pointsMissCounter'[j] = pointsMissCounter[Before(j)]
    BY <1>1, <1>2, <1>3 DEF Erase, Erased, TypeOK
  <2> QED BY <2>1, <2>2, <2>3, <2>4
<1>5. \A j, k \in Points' : j < k => Before(j) < Before(k)
  BY <1>2, <1>3
<1> HIDE DEF Before
<1>6. Aligned'
  BY <1>4 DEF ErasePoint, Aligned, TrackedFromShownFrame
<1>7. MissesBounded'
  BY <1>4 DEF ErasePoint, MissesBounded
<1>8. OlderGoesFirst'
  BY <1>4, <1>5 DEF ErasePoint, OlderGoesFirst
<1> QED BY <1>6, <1>7, <1>8

\* Everything after the points were moved to the new frame keeps them there,
\* and ReadFrame makes that frame the previous one.
LEMMA AlignedStep ==
  ASSUME LifeInv, [Next]_vars
  PROVE  Aligned'
<1> USE TrainingAssumption DEF LifeInv, TrainingInv
<1>1. CASE ReadFrame
  BY <1>1 DEF ReadFrame, Prev, vectors, Aligned, TrackedFromShownFrame, Points, TypeOK
<1>2. CASE Stop \/ CleanPointsDone \/ ShowFrame
  BY <1>2 DEF Stop, CleanPointsDone, ShowFrame, vectors, Aligned, TrackedFromShownFrame, Points
<1>3. CASE DetectAndTrack
  <2>1. Points' = Points /\ asOf' = [i \in Points |-> frame] /\ pc' = "clean" /\ frame' = frame
    BY <1>3, PointType DEF DetectAndTrack, Points
  <2> QED BY <2>1 DEF Aligned, TrackedFromShownFrame
<1>4. CASE ErasePoint
  BY <1>4, EraseLife
<1>5. CASE SkipWeak \/ TakeSample \/ NoLabel
  BY <1>5 DEF SkipWeak, TakeSample, NoLabel, Labelling, NextDetection, Aligned,
     TrackedFromShownFrame, Points
<1>6. CASE \E p \in Position, positive \in BOOLEAN : OnMouse(p, positive)
  <2>1. pc = "wait" /\ UNCHANGED <<pc, prevFrame, frame, shown>> /\ asOf' = Append(asOf, shown)
    BY <1>6 DEF OnMouse
  <2>2. shown \in {0, prevFrame} /\ shown \in Nat /\ asOf \in Seq(Nat)
    BY <2>1 DEF Aligned, TypeOK
  <2>3. Points = 1..Len(asOf) /\ Points' = 1..Len(asOf) + 1
    BY <1>6 DEF OnMouse, Points, TypeOK
  <2>4. \A i \in Points' : (i \in Points /\ asOf'[i] = asOf[i]) \/ asOf'[i] = shown
    BY <2>1, <2>2, <2>3, AppendProperties, LenProperties
  <2> QED BY <2>1, <2>2, <2>4 DEF Aligned, TrackedFromShownFrame
<1>7. CASE UNCHANGED vars
  BY <1>7 DEF vars, vectors, Aligned, TrackedFromShownFrame, Points
<1> QED BY <1>1, <1>2, <1>3, <1>4, <1>5, <1>6, <1>7 DEF Next

\* What is known of one point.
LEMMA BoundOf ==
  ASSUME LifeInv, NEW i \in Points
  PROVE  /\ looks \in Nat /\ matchedAt[i] \in Nat /\ matchedAt[i] <= looks
         /\ pointsMissCounter[i] \in Nat
         /\ pointsMissCounter[i] <= looks - matchedAt[i]
<1>1. looks \in Nat /\ matchedAt \in Seq(Nat) /\ Len(matchedAt) = Len(pointsToTrack)
  BY DEF LifeInv, TrainingInv, TypeOK
<1>2. matchedAt[i] \in Nat
  <2>1. i \in 1..Len(matchedAt)
    BY <1>1, PointType DEF LifeInv, TrainingInv
  <2> QED BY <1>1, <2>1
<1>3. pointsMissCounter[i] \in Nat
  BY PointType DEF LifeInv, TrainingInv
<1> QED BY <1>1, <1>2, <1>3 DEF LifeInv, MissesBounded

\* A detection that finds a point: those before it miss, those behind it do not.
LEMMA SampleLife ==
  ASSUME LifeInv, TakeSample
  PROVE  MissesBounded' /\ OlderGoesFirst'
<1> USE DEF LifeInv, TrainingInv
<1>1. PICK k \in Points : /\ pointsMissCounter' = MissesUntil(k)
                          /\ matchedAt' = [matchedAt EXCEPT ![k] = looks + 1]
  BY DEF TakeSample
<1>2. /\ Points' = Points /\ looks' = looks + 1
      /\ Points \subseteq Nat /\ DOMAIN matchedAt = Points
  BY PointType DEF TakeSample, NextDetection, Points, TypeOK
<1>3. \A i \in Points :
        /\ matchedAt'[i] = IF i = k THEN looks + 1 ELSE matchedAt[i]
        /\ pointsMissCounter'[i] = IF i = k THEN 0
                                   ELSE IF i < k THEN pointsMissCounter[i] + 1
                                   ELSE pointsMissCounter[i]
  BY <1>1, <1>2 DEF MissesUntil
<1>4. MissesBounded'
  BY <1>2, <1>3, BoundOf DEF MissesBounded
<1>5. ASSUME NEW i \in Points, NEW j \in Points, i < j, matchedAt'[i] <= matchedAt'[j]
      PROVE  pointsMissCounter'[i] >= pointsMissCounter'[j]
  <2>1. CASE j = k
    BY <1>2, <1>3, <1>5, <2>1, BoundOf
  <2>2. CASE j # k
    <3>1. i # k /\ matchedAt[i] <= matchedAt[j]
      BY <1>3, <1>5, <2>2, BoundOf
    <3>2. pointsMissCounter[i] >= pointsMissCounter[j]
      BY <1>5, <3>1 DEF OlderGoesFirst
    <3> QED BY <1>2, <1>3, <1>5, <2>2, <3>1, <3>2, BoundOf
  <2> QED BY <2>1, <2>2
<1> QED BY <1>2, <1>4, <1>5 DEF OlderGoesFirst

LEMMA MissesStep ==
  ASSUME LifeInv, [Next]_vars
  PROVE  MissesBounded' /\ OlderGoesFirst'
<1> USE TrainingAssumption DEF LifeInv, TrainingInv
<1>1. CASE ReadFrame \/ Stop \/ CleanPointsDone \/ ShowFrame \/ SkipWeak \/ UNCHANGED vars
  BY <1>1 DEF ReadFrame, Stop, CleanPointsDone, ShowFrame, SkipWeak, NextDetection, vars,
     vectors, MissesBounded, OlderGoesFirst, Points
<1>2. CASE DetectAndTrack
  <2>1. Points' = Points /\ UNCHANGED <<matchedAt, pointsMissCounter, looks>>
    BY <1>2, PointType DEF DetectAndTrack, Points
  <2> QED BY <2>1 DEF MissesBounded, OlderGoesFirst
<1>3. CASE ErasePoint
  BY <1>3, EraseLife
<1>4. CASE TakeSample
  BY <1>4, SampleLife
<1>5. CASE NoLabel
  <2>1. /\ Points' = Points /\ looks' = looks + 1 /\ matchedAt' = matchedAt
        /\ \A i \in Points : pointsMissCounter'[i] = pointsMissCounter[i] + 1
    BY <1>5 DEF NoLabel, NextDetection, Points
  <2> QED BY <2>1, BoundOf DEF MissesBounded, OlderGoesFirst
<1>6. CASE \E p \in Position, positive \in BOOLEAN : OnMouse(p, positive)
  <2>1. /\ looks' = looks
        /\ matchedAt' = Append(matchedAt, looks)
        /\ pointsMissCounter' = Append(pointsMissCounter, 0)
    BY <1>6 DEF OnMouse
  <2>2. /\ Points = 1..Len(matchedAt) /\ Points' = 1..Len(matchedAt) + 1
        /\ matchedAt \in Seq(Nat) /\ pointsMissCounter \in Seq(Nat)
        /\ Len(pointsMissCounter) = Len(matchedAt)
    BY <1>6 DEF OnMouse, Points, TypeOK
  <2>3. Len(matchedAt) \in Nat /\ looks \in Nat
    BY <2>2 DEF TypeOK
  <2>4. \A i \in Points' : \/ /\ i \in Points /\ matchedAt'[i] = matchedAt[i]
                              /\ pointsMissCounter'[i] = pointsMissCounter[i]
                           \/ /\ i = Len(matchedAt) + 1
                              /\ matchedAt'[i] = looks /\ pointsMissCounter'[i] = 0
    BY <2>1, <2>2, <2>3, AppendProperties, LenProperties
  <2>5. ASSUME NEW i \in Points'
        PROVE  matchedAt'[i] <= looks /\ pointsMissCounter'[i] <= looks - matchedAt'[i]
    <3>1. CASE /\ i \in Points /\ matchedAt'[i] = matchedAt[i]
               /\ pointsMissCounter'[i] = pointsMissCounter[i]
      BY <3>1, BoundOf
    <3>2. CASE matchedAt'[i] = looks /\ pointsMissCounter'[i] = 0
      BY <2>3, <3>2
    <3> QED BY <2>4, <3>1, <3>2
  <2>6. ASSUME NEW i \in Points', NEW j \in Points', i < j, matchedAt'[i] <= matchedAt'[j]
        PROVE  pointsMissCounter'[i] >= pointsMissCounter'[j]
    <3>1. i \in Points
      BY <2>2, <2>3, <2>6
    <3>2. matchedAt'[i] = matchedAt[i] /\ pointsMissCounter'[i] = pointsMissCounter[i]
      BY <2>2, <2>3, <2>4, <3>1
    <3>3. CASE j \in Points
      BY <2>2, <2>3, <2>4, <2>6, <3>1, <3>2, <3>3 DEF OlderGoesFirst
    <3>4. CASE pointsMissCounter'[j] = 0
      BY <3>1, <3>2, <3>4, BoundOf
    <3> QED BY <2>4, <3>3, <3>4
  <2> QED BY <2>1, <2>5, <2>6 DEF MissesBounded, OlderGoesFirst
<1> QED BY <1>1, <1>2, <1>3, <1>4, <1>5, <1>6 DEF Next

LEMMA LifeHolds == Spec => []LifeInv
<1>1. Init => LifeInv
  BY InitInv, TrainingAssumption
  DEF Init, LifeInv, Aligned, TrackedFromShownFrame, MissesBounded, OlderGoesFirst, Points
<1>2. LifeInv /\ [Next]_vars => LifeInv'
  BY StepInv, AlignedStep, MissesStep DEF LifeInv
<1> QED BY <1>1, <1>2, PTL DEF Spec

\* Although the callback runs when the next frame has been read, a click is
\* tracked from the frame the user saw.
THEOREM ClicksAreTrackedFromScreen == Spec => []TrackedFromShownFrame
<1>1. LifeInv => TrackedFromShownFrame
  BY DEF LifeInv, Aligned
<1> QED BY <1>1, LifeHolds, PTL

\* However crowded the video, a point is kept until getFlag was asked about
\* MissLimit detections since its click or its last match.
THEOREM LabelsLiveLongEnough == Spec => []NotRemovedSoon
<1>1. LifeInv => NotRemovedSoon
  <2> SUFFICES ASSUME LifeInv, pc = "clean", NEW i \in toDelete
               PROVE  looks - matchedAt[i] >= MissLimit
    BY DEF NotRemovedSoon
  <2>1. i \in Points /\ pointsMissCounter[i] >= MissLimit
    BY DEF LifeInv, TrainingInv, TypeOK, Due
  <2> QED BY <2>1, BoundOf, TrainingAssumption
<1> QED BY <1>1, LifeHolds, PTL

\* However clicks, matches and erasures follow each other, a point never has
\* fewer misses than a younger one that was matched or clicked after it was.
THEOREM OldestIsForgottenFirst == Spec => []OlderGoesFirst
<1>1. LifeInv => OlderGoesFirst
  BY DEF LifeInv
<1> QED BY <1>1, LifeHolds, PTL

-----------------------------------------------------------------------------
(* ImageModel.                                                             *)

\* The dimensions of images are positive, and None is not the size of one.
LEMMA SizeFacts ==
  /\ \A size \in Sizes : /\ size.w \in Nat \ {0} /\ size.h \in Nat \ {0}
                         /\ size # None
                         /\ Area(size) \in Nat \ {0}
  /\ None.w = 0 /\ None.h = 0
<1>1. ASSUME NEW size \in Sizes
      PROVE  /\ size.w \in Nat \ {0} /\ size.h \in Nat \ {0} /\ size # None
             /\ Area(size) \in Nat \ {0}
  <2>1. size.w \in Nat \ {0} /\ size.h \in Nat \ {0}
    BY ModelAssumption
  <2>2. size # None
    BY <2>1 DEF None
  <2>3. \A a, b \in Nat \ {0} : a * b \in Nat \ {0}
    OBVIOUS
  <2> QED BY <2>1, <2>2, <2>3 DEF Area
<1> QED BY <1>1 DEF None

\* A product divides by its factors.
LEMMA Division ==
  ASSUME NEW w \in Nat \ {0}, NEW h \in Nat \ {0}
  PROVE  (w * h) \div h = w
OBVIOUS

\* A batch is a sequence of images; its first has a size.
LEMMA BatchFacts ==
  ASSUME NEW batch \in Batches, batch # <<>>
  PROVE  batch[1].size \in Sizes /\ Len(batch) \in Nat \ {0}
<1>1. batch \in Seq(Images)
  BY ModelAssumption
<1>2. batch[1] \in Images /\ Len(batch) \in Nat \ {0}
  BY <1>1
<1> QED BY <1>2 DEF Images

\* Vectors that were there before are consistent still.
LEMMA FewerVectors ==
  ASSUME Consistent, Vectors' \subseteq Vectors, learns' = learns
  PROVE  Consistent'
BY DEF Consistent

-----------------------------------------------------------------------------
(* What is remembered.                                                     *)

Memory == <<model, samples, svm, modelFile, svmFile, learns>>

Core == /\ ModelOK(model) /\ (modelFile # Missing => ModelOK(modelFile))
        /\ learns \in Nat /\ samples \in Seq(Vector) /\ Consistent

LEMMA InitCore == ModelInit => Core
<1> SUFFICES ASSUME ModelInit PROVE Core
  OBVIOUS
<1>1. PICK size \in Sizes \cup {None} : model = [Blank EXCEPT !.size = size]
  BY DEF ModelInit
<1>2. /\ model = [size |-> size, shape |-> None, comps |-> 0, batch |-> 0, torn |-> FALSE]
      /\ model \in Model
  BY <1>1 DEF Blank, Model
<1>3. ModelOK(model) /\ VectorOf(model) = [length |-> 0, batch |-> 0]
  BY <1>2 DEF ModelOK, VectorOf
<1>4. ModelOK(Blank) /\ VectorOf(Blank) = [length |-> 0, batch |-> 0]
  BY DEF Blank, Model, ModelOK, VectorOf
<1>5. Vectors \subseteq {[length |-> 0, batch |-> 0]}
  <2>1. \A m \in {modelFile} \ {Missing} : VectorOf(m) = [length |-> 0, batch |-> 0]
    BY <1>4 DEF ModelInit
  <2>2. {svmFile} \ {Missing} = {} /\ DOMAIN samples = {} /\ svm = [length |-> 0, batch |-> 0]
    BY DEF ModelInit
  <2> QED BY <1>3, <2>1, <2>2 DEF Vectors
<1>6. Consistent
  BY <1>5 DEF Consistent, Vector, ModelInit
<1> QED BY <1>3, <1>4, <1>6 DEF Core, ModelInit

LEMMA LearnCore ==
  ASSUME Core, NEW batch \in Batches, Learn(batch)
  PROVE  Core'
<1> DEFINE n == Lesser(Len(batch), Area(batch[1].size))
           v == [length |-> n, batch |-> learns + 1]
<1>1. batch[1].size \in Sizes /\ batch[1].size # None /\ n \in Nat \ {0} /\ learns \in Nat
  BY BatchFacts, SizeFacts DEF Learn, Lesser, Core
<1> HIDE DEF n
<1>2. /\ model' = [size |-> batch[1].size, shape |-> batch[1].size, comps |-> n,
                   batch |-> learns + 1, torn |-> FALSE]
      /\ learns' = learns + 1 /\ UNCHANGED <<samples, svm, modelFile, svmFile>>
  BY DEF Learn, SizeLearnt, n
<1>3. ModelOK(model') /\ VectorOf(model') = v
  BY <1>1, <1>2 DEF ModelOK, Model, VectorOf
<1>4. Vectors' \subseteq Vectors \cup {v}
  BY <1>2, <1>3 DEF Vectors
<1>5. v \in Vector /\ v.batch = learns + 1 /\ v.length = n
  BY <1>1 DEF Vector
<1> HIDE DEF v
<1>6. /\ Vectors \subseteq Vector
      /\ \A u \in Vectors : u.batch \in Nat /\ u.batch <= learns /\ (u.batch = 0 <=> u.length = 0)
  BY DEF Core, Consistent, Vector
<1>7. Vectors' \subseteq Vector
  BY <1>4, <1>5, <1>6
<1>8. \A u \in Vectors' : u.batch <= learns' /\ (u.batch = 0 <=> u.length = 0)
  BY <1>1, <1>2, <1>4, <1>5, <1>6
<1>9. \A u \in Vectors : u.batch # v.batch
  BY <1>1, <1>5, <1>6
<1>10. \A u, z \in Vectors' : u.batch = z.batch => u.length = z.length
  BY <1>4, <1>9 DEF Core, Consistent
<1>11. Consistent'
  BY <1>7, <1>8, <1>10 DEF Consistent
<1> QED BY <1>1, <1>2, <1>3, <1>11 DEF Core

LEMMA LearnFailsCore ==
  ASSUME Core, NEW batch \in Batches, LearnFails(batch)
  PROVE  Core'
<1>1. batch[1].size \in Sizes
  <2>1. batch # <<>>
    BY DEF LearnFails
  <2> QED BY <2>1, BatchFacts
<1>2. model' = [model EXCEPT !.size = batch[1].size, !.torn = TRUE] /\ model \in Model
  BY DEF LearnFails, Core, ModelOK
<1>3. model' \in Model /\ model'.torn = TRUE /\ model'.batch = model.batch
      /\ model'.shape = model.shape /\ model'.comps = model.comps
  BY <1>1, <1>2 DEF Model
<1>4. ModelOK(model') /\ VectorOf(model') = VectorOf(model)
  BY <1>3 DEF Core, ModelOK, VectorOf
<1>5. UNCHANGED <<samples, svm, modelFile, svmFile, learns>>
  BY DEF LearnFails
<1>6. Vectors' = Vectors
  BY <1>4, <1>5 DEF Vectors
<1> QED BY <1>4, <1>5, <1>6, FewerVectors DEF Core

LEMMA GetParamsCore == ASSUME Core, NEW image, GetParams(image) PROVE Core'
<1>1. UNCHANGED <<model, svm, modelFile, svmFile, learns>>
  BY DEF GetParams
<1>2. CASE UNCHANGED samples
  BY <1>1, <1>2, FewerVectors DEF Core, Vectors
<1>3. CASE samples' = Append(samples, VectorOf(model))
  <2>1. VectorOf(model) \in Vector /\ samples \in Seq(Vector)
    BY DEF Core, ModelOK, Model, VectorOf, Vector
  <2>2. samples' \in Seq(Vector)
    BY <1>3, <2>1
  <2>3. \A i \in DOMAIN samples' : (i \in DOMAIN samples /\ samples'[i] = samples[i])
                                   \/ samples'[i] = VectorOf(model)
    BY <1>3, <2>1
  <2>4. Vectors' \subseteq Vectors
    BY <1>1, <2>3 DEF Vectors
  <2> QED BY <1>1, <2>2, <2>4, FewerVectors DEF Core
<1> QED BY <1>2, <1>3 DEF GetParams, VectorOf

LEMMA SvmLearnCore == ASSUME Core, SvmLearn PROVE Core'
<1>1. samples # <<>> /\ svm' = [length |-> SampleLength, batch |-> samples[1].batch]
      /\ UNCHANGED <<model, samples, modelFile, svmFile, learns>>
  BY DEF SvmLearn
<1>2. 1 \in DOMAIN samples /\ samples[1] \in Vector
  BY <1>1 DEF Core
<1>3. svm' = samples[1]
  BY <1>1, <1>2 DEF SampleLength, Vector
<1>4. Vectors' \subseteq Vectors
  BY <1>1, <1>2, <1>3 DEF Vectors
<1> QED BY <1>1, <1>4, FewerVectors DEF Core

\* An untrained classifier is of no batch, as the model before its first learn.
LEMMA TrainOneClassCore == ASSUME Core, TrainOneClass PROVE Core'
<1> DEFINE v == [length |-> 0, batch |-> 0]
<1>1. svm' = v /\ UNCHANGED <<model, samples, modelFile, svmFile, learns>>
  BY DEF TrainOneClass
<1>2. Vectors' \subseteq Vectors \cup {v}
  BY <1>1 DEF Vectors
<1>3. v \in Vector /\ v.batch = 0 /\ v.length = 0
  BY DEF Vector
<1> HIDE DEF v
<1>4. learns \in Nat /\ learns' = learns
  BY <1>1 DEF Core
<1>5. Consistent'
  BY <1>2, <1>3, <1>4 DEF Core, Consistent
<1> QED BY <1>1, <1>5 DEF Core

\* Files, and a new training set.
LEMMA FilesCore ==
  ASSUME Core, \/ ForgetSamples \/ SerializeModel \/ DeserializeModel
               \/ SerializeSvm \/ DeserializeSvm
  PROVE  Core'
<1>1. CASE ForgetSamples
  <2>1. samples' = <<>> /\ UNCHANGED <<model, svm, modelFile, svmFile, learns>>
    BY <1>1 DEF ForgetSamples
  <2>2. Vectors' \subseteq Vectors
    BY <2>1 DEF Vectors
  <2> QED BY <2>1, <2>2, FewerVectors DEF Core
<1>2. CASE SerializeModel
  <2>1. modelFile' = model /\ UNCHANGED <<model, samples, svm, svmFile, learns>>
    BY <1>2 DEF SerializeModel
  <2>2. Vectors' \subseteq Vectors
    BY <2>1 DEF Vectors
  <2> QED BY <2>1, <2>2, FewerVectors DEF Core
<1>3. CASE DeserializeModel
  <2>1. /\ modelFile # Missing /\ model' = modelFile
        /\ UNCHANGED <<samples, svm, modelFile, svmFile, learns>>
    BY <1>3 DEF DeserializeModel, Loaded
  <2>2. VectorOf(modelFile) \in Vectors
    BY <2>1 DEF Vectors
  <2>3. Vectors' \subseteq Vectors
    BY <2>1, <2>2 DEF Vectors
  <2> QED BY <2>1, <2>3, FewerVectors DEF Core
<1>4. CASE SerializeSvm
  <2>1. svmFile' = svm /\ UNCHANGED <<model, samples, svm, modelFile, learns>>
    BY <1>4 DEF SerializeSvm
  <2>2. Vectors' \subseteq Vectors
    BY <2>1 DEF Vectors
  <2> QED BY <2>1, <2>2, FewerVectors DEF Core
<1>5. CASE DeserializeSvm
  <2>1. /\ svmFile # Missing /\ svm' = svmFile
        /\ UNCHANGED <<model, samples, modelFile, svmFile, learns>>
    BY <1>5 DEF DeserializeSvm
  <2>2. svmFile \in Vectors
    BY <2>1 DEF Vectors
  <2>3. Vectors' \subseteq Vectors
    BY <2>1, <2>2 DEF Vectors
  <2> QED BY <2>1, <2>3, FewerVectors DEF Core
<1> QED BY <1>1, <1>2, <1>3, <1>4, <1>5

LEMMA QuietCore == ASSUME Core, UNCHANGED Memory PROVE Core'
BY DEF Core, Memory, Consistent, Vectors

LEMMA StepCore == ASSUME Core, [ModelNext]_modelVars PROVE Core'
<1>1. CASE \E batch \in Batches : LearnNothing(batch) \/ LearnFails(batch) \/ Learn(batch)
  <2>1. PICK batch \in Batches : LearnNothing(batch) \/ LearnFails(batch) \/ Learn(batch)
    BY <1>1
  <2>2. CASE LearnNothing(batch)
    BY <2>2, QuietCore DEF LearnNothing, Refuse, RefuseImage, Memory
  <2> QED BY <2>1, <2>2, LearnFailsCore, LearnCore
<1>2. CASE \E length \in {model.comps, model.comps + 1} : Generate(length) \/ GenerateFails(length)
  BY <1>2, QuietCore DEF Generate, GenerateFails, Refuse, RefuseImage, Memory
<1>3. CASE SvmLearnFails \/ StorageNotOpened \/ UNCHANGED modelVars
  BY <1>3, QuietCore DEF SvmLearnFails, StorageNotOpened, Refuse, RefuseImage, Memory, modelVars
<1>4. ASSUME NEW image, GetParamsFails(image) \/ Classify(image) \/ ClassifyFails(image)
      PROVE  Core'
  BY <1>4, QuietCore DEF GetParamsFails, Classify, ClassifyFails, RefuseImage, Memory
<1> QED BY <1>1, <1>2, <1>3, <1>4, GetParamsCore, SvmLearnCore, TrainOneClassCore, FilesCore
       DEF ModelNext

-----------------------------------------------------------------------------
(* What each call answers.                                                 *)

\* A model that is whole projects all images but views of its own size.
LEMMA WholeProjects ==
  ASSUME Core, model.shape # None, ~model.torn
  PROVE  /\ model.size = model.shape /\ model.shape \in Sizes
         /\ \A image : Projects(image) <=> (image.size = model.shape => Reshapes(image))
BY DEF Core, ModelOK, Model, Projects

Safe == WholeModelAnswers /\ NoReadPastSample /\ PairClassifies

\* A call that is neither of the four, and one that throws but should.
LEMMA OtherCall ==
  ASSUME call'.op \notin {"params", "classify", "image", "svm"}
  PROVE  Safe'
BY DEF Safe, WholeModelAnswers, NoReadPastSample, PairClassifies

LEMMA LearnSafe ==
  ASSUME NEW batch \in Batches, LearnNothing(batch) \/ LearnFails(batch) \/ Learn(batch)
  PROVE  Safe'
<1>1. call'.op = "learn"
  BY DEF LearnNothing, LearnFails, Learn, Refuse, RefuseImage, Did, Answered
<1> QED BY <1>1, OtherCall

LEMMA FilesSafe ==
  ASSUME \/ ForgetSamples \/ StorageNotOpened \/ SerializeModel \/ DeserializeModel
         \/ SerializeSvm \/ DeserializeSvm
  PROVE  Safe'
<1>1. call'.op \in {"forget", "storage", "save", "load"}
  BY DEF ForgetSamples, StorageNotOpened, SerializeModel, DeserializeModel, SerializeSvm,
         DeserializeSvm, Refuse, RefuseImage, Did, Answered
<1> QED BY <1>1, OtherCall

LEMMA ParamsSafe ==
  ASSUME Core, NEW image, GetParams(image) \/ GetParamsFails(image)
  PROVE  Safe'
<1>1. model' = model /\ call'.op = "params" /\ call'.image = image
  BY DEF GetParams, GetParamsFails, RefuseImage, Answered
<1>2. Projects(image) => call'.outcome = "done" /\ call'.size = model.size
  BY DEF GetParams, GetParamsFails, Answered
<1>3. ~Projects(image) => call'.outcome = "throws"
  BY DEF GetParams, GetParamsFails, RefuseImage, Answered
<1>4. ASSUME model.shape # None, ~model.torn
      PROVE  /\ call'.outcome = "done" => call'.size = model.shape
             /\ call'.outcome = "throws" <=> Refused'
  BY <1>1, <1>2, <1>3, <1>4, WholeProjects DEF Refused, Reshapes
<1> QED BY <1>1, <1>4 DEF Safe, WholeModelAnswers, NoReadPastSample, PairClassifies

LEMMA GenerateSafe ==
  ASSUME Core, NEW length, Generate(length) \/ GenerateFails(length)
  PROVE  Safe'
<1>1. model' = model /\ call'.op = "image"
  BY DEF Generate, GenerateFails, Refuse, RefuseImage, Did, Answered
<1>2. ASSUME model.shape # None, ~model.torn, call'.outcome = "done"
      PROVE  call'.size = model.shape
  <2>1. model.size = model.shape /\ model.shape \in Sizes
    BY <1>2, WholeProjects
  <2>2. call'.size = [w |-> Area(model.shape) \div model.size.h, h |-> model.size.h]
    BY <1>2 DEF Generate, GenerateFails, Refuse, RefuseImage, Did, Answered
  <2>3. Area(model.shape) \div model.shape.h = model.shape.w
    BY <2>1, SizeFacts, Division DEF Area
  <2>4. model.shape = [w |-> model.shape.w, h |-> model.shape.h]
    BY <2>1, ModelAssumption
  <2> QED BY <2>1, <2>2, <2>3, <2>4
<1> QED BY <1>1, <1>2 DEF Safe, WholeModelAnswers, NoReadPastSample, PairClassifies

\* Samples of one training are as long as the first of them.
LEMMA SvmSafe ==
  ASSUME Core, SvmLearn \/ TrainOneClass \/ SvmLearnFails
  PROVE  Safe'
<1>1. samples' = samples /\ call'.op = "svm"
  BY DEF SvmLearn, TrainOneClass, SvmLearnFails, Refuse, RefuseImage, Did, Answered
<1>2. ASSUME call'.outcome = "overread"
      PROVE  \E i \in DOMAIN samples : samples[i].batch # samples[1].batch
  <2>1. samples # <<>> /\ \E i \in DOMAIN samples : samples[i].length < SampleLength
    BY <1>2 DEF SvmLearn, TrainOneClass, SvmLearnFails, Refuse, RefuseImage, Did, Answered,
       Copied
  <2>2. PICK i \in DOMAIN samples : samples[i].length < samples[1].length
    BY <2>1 DEF SampleLength
  <2>3. samples[i] \in Vectors /\ samples[1] \in Vectors
    BY <2>1 DEF Vectors, Core
  <2>4. samples[i].length \in Nat /\ samples[1].length \in Nat
    BY <2>3 DEF Core, Consistent, Vector
  <2>5. samples[i].length # samples[1].length
    BY <2>2, <2>4
  <2> QED BY <2>3, <2>5 DEF Core, Consistent
<1> QED BY <1>1, <1>2 DEF Safe, WholeModelAnswers, NoReadPastSample, PairClassifies

LEMMA ClassifySafe ==
  ASSUME Core, NEW image, Classify(image) \/ ClassifyFails(image)
  PROVE  Safe'
<1>1. model' = model /\ svm' = svm /\ call'.op = "classify" /\ call'.image = image
  BY DEF Classify, ClassifyFails, RefuseImage, Answered
<1>2. Classify(image) => call'.outcome = "done" /\ call'.size = model.size
  BY DEF Classify, Answered
<1>3. ClassifyFails(image) => call'.outcome = "throws"
  BY DEF ClassifyFails, RefuseImage, Answered
<1>4. ASSUME model.shape # None, ~model.torn, call'.outcome = "done"
      PROVE  call'.size = model.shape
  BY <1>2, <1>3, <1>4, WholeProjects
<1>5. ASSUME svm.batch = model.batch, svm.batch # 0, ~model.torn
      PROVE  call'.outcome = "done" \/ Refused'
  <2>1. model.shape # None
    BY <1>5 DEF Core, ModelOK
  <2>2. Projects(image) \/ Refused'
    BY <1>1, <1>5, <2>1, WholeProjects DEF Refused, Reshapes
  <2>3. svm \in Vectors /\ VectorOf(model) \in Vectors
    BY DEF Vectors
  <2>4. svm.length = model.comps /\ svm.length # 0
    BY <1>5, <2>3 DEF Core, Consistent, VectorOf
  <2> QED BY <1>2, <2>2, <2>4 DEF ClassifyFails, Classifies
<1> QED BY <1>1, <1>4, <1>5 DEF Safe, WholeModelAnswers, NoReadPastSample, PairClassifies

LEMMA StepSafe == ASSUME Core, Safe, [ModelNext]_modelVars PROVE Safe'
<1>1. CASE UNCHANGED modelVars
  BY <1>1 DEF modelVars, Safe, WholeModelAnswers, NoReadPastSample, PairClassifies, Refused
<1> QED BY <1>1, LearnSafe, FilesSafe, ParamsSafe, GenerateSafe, SvmSafe, ClassifySafe DEF ModelNext

LEMMA ModelHolds == ModelSpec => [](Core /\ Safe)
<1>1. ModelInit => Core /\ Safe
  <2>1. ModelInit => call.op = "new"
    BY DEF ModelInit
  <2> QED BY <2>1, InitCore DEF Safe, WholeModelAnswers, NoReadPastSample, PairClassifies
<1>2. Core /\ Safe /\ [ModelNext]_modelVars => (Core /\ Safe)'
  BY StepCore, StepSafe
<1> QED BY <1>1, <1>2, PTL DEF ModelSpec

\* A trained model of which no learn() has failed since answers in the shape it
\* was trained on, and takes every image except a view of just that shape whose
\* rows are not continuous.
THEOREM WholeModelsAnswer == ModelSpec => []WholeModelAnswers
<1>1. Core /\ Safe => WholeModelAnswers
  BY DEF Safe
<1> QED BY <1>1, ModelHolds, PTL

\* SVM::learn reads past the end of no sample if all are parameters of one
\* training.
THEOREM OneTrainingIsReadable == ModelSpec => []NoReadPastSample
<1>1. Core /\ Safe => NoReadPastSample
  BY DEF Safe
<1> QED BY <1>1, ModelHolds, PTL

\* A model and the classifier that was trained with it fit each other, also
\* when both, or one of them, come from their files.
THEOREM PairsClassify == ModelSpec => []PairClassifies
<1>1. Core /\ Safe => PairClassifies
  BY DEF Safe
<1> QED BY <1>1, ModelHolds, PTL
=============================================================================
