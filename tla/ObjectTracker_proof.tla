------------------------ MODULE ObjectTracker_proof ------------------------
EXTENDS ObjectTracker, FiniteSetTheorems, SequenceTheorems, TLAPS

(***************************************************************************)
(* Facts about the operators the handler is built from.                    *)
(***************************************************************************)

\* Appending keeps what was there and adds one element at the end.
LEMMA AppendFacts ==
  ASSUME NEW S, NEW s \in Seq(S), NEW x \in S
  PROVE  /\ Append(s, x) \in Seq(S)
         /\ Len(Append(s, x)) = Len(s) + 1
         /\ DOMAIN Append(s, x) = 1..Len(s) + 1
         /\ \A i \in 1..Len(s) : Append(s, x)[i] = s[i]
         /\ Append(s, x)[Len(s) + 1] = x
  OBVIOUS

\* Replacing an element keeps the length.
LEMMA ExceptFacts ==
  ASSUME NEW S, NEW s \in Seq(S), NEW x \in S, NEW i \in DOMAIN s
  PROVE  /\ [s EXCEPT ![i] = x] \in Seq(S)
         /\ Len([s EXCEPT ![i] = x]) = Len(s)
         /\ \A j \in DOMAIN s : [s EXCEPT ![i] = x][j] = IF j = i THEN x ELSE s[j]
  OBVIOUS

\* Storing a trajectory keeps the Result well typed.
LEMMA SetTrajectoryType ==
  ASSUME ResultOK, NEW id \in Nat, NEW t \in Trajectory, SetTrajectory(id, t)
  PROVE  /\ IsFiniteSet(DOMAIN trajectories)'
         /\ (DOMAIN trajectories)' \subseteq Nat
         /\ trajectories' \in [DOMAIN trajectories' -> Trajectory]
<1>1. DOMAIN trajectories' = DOMAIN trajectories \cup {id}
  BY DEF SetTrajectory
<1>2. IsFiniteSet(DOMAIN trajectories \cup {id})
  BY FS_AddElement DEF ResultOK
<1>3. trajectories' \in [DOMAIN trajectories' -> Trajectory]
  BY <1>1 DEF SetTrajectory, ResultOK
<1> QED BY <1>1, <1>2, <1>3 DEF ResultOK

LEMMA PushPointType ==
  ASSUME ResultOK, NEW id \in Nat, NEW p \in Position, PushPoint(id, p)
  PROVE  /\ IsFiniteSet(DOMAIN trajectories)'
         /\ (DOMAIN trajectories)' \subseteq Nat
         /\ trajectories' \in [DOMAIN trajectories' -> Trajectory]
<1>1. TrajectoryOf(id) \in Trajectory
  BY DEF TrajectoryOf, Trajectory, ResultOK
<1>2. [TrajectoryOf(id) EXCEPT !.points = Append(@, p)] \in Trajectory
  BY <1>1 DEF Trajectory
<1> QED BY <1>2, SetTrajectoryType DEF PushPoint

\* Reporting an object keeps the frames well typed.
LEMMA PushObjectType ==
  ASSUME ResultOK, LocalsOK, frameIndex <= MaxFrame, NEW e \in Entry, PushObject(e)
  PROVE  /\ objectsPerFrame' \in [0..MaxFrame -> Seq(Entry)]
         /\ \A f \in 0..MaxFrame :
              objectsPerFrame'[f] = IF f = frameIndex THEN Append(objectsPerFrame[f], e)
                                                      ELSE objectsPerFrame[f]
<1>1. frameIndex \in 0..MaxFrame
  BY BoundsAssumption DEF LocalsOK
<1>2. Append(objectsPerFrame[frameIndex], e) \in Seq(Entry)
  BY <1>1 DEF ResultOK
<1> QED BY <1>1, <1>2 DEF PushObject, ResultOK

\* The detection the handler is at.
LEMMA CurrentObject ==
  ASSUME LocalsOK, obj <= Len(currentFrameObjects)
  PROVE  obj \in DOMAIN currentFrameObjects /\ currentFrameObjects[obj].centre \in Position
<1>1. obj \in DOMAIN currentFrameObjects
  BY DEF LocalsOK
<1>2. currentFrameObjects[obj] \in Detection
  BY <1>1, ElementOfSeq DEF LocalsOK
<1> QED BY <1>1, <1>2 DEF Detection

\* A listing of kept indices is a sequence of indices.
LEMMA ListingFacts ==
  ASSUME MembersOK, NEW e \in Listings(Points \ toRemove)
  PROVE  /\ e \in Seq(Points \ toRemove)
         /\ Len(e) \in Nat
         /\ DOMAIN e = 1..Len(e)
         /\ \A j \in DOMAIN e : e[j] \in Points \ toRemove
<1>1. Points = 1..Len(trackingPoints) /\ Len(trackingPoints) \in Nat
  BY DEF Points, MembersOK
<1>2. IsFiniteSet(Points)
  BY <1>1, FS_Interval
<1>3. IsFiniteSet(Points \ toRemove)
  BY <1>2, FS_Subset
<1>4. Cardinality(Points \ toRemove) \in Nat
  BY <1>3, FS_CardinalityType
<1>5. e \in [1..Cardinality(Points \ toRemove) -> Points \ toRemove]
  BY DEF Listings
<1>6. ASSUME NEW S, NEW n \in Nat, NEW q \in [1..n -> S]
      PROVE  q \in Seq(S) /\ Len(q) = n /\ DOMAIN q = 1..n /\ \A j \in 1..n : q[j] \in S
  OBVIOUS
<1> QED BY <1>4, <1>5, <1>6

\* Keeping the listed elements of a vector gives a vector of the same kind, as
\* long as the listing.
LEMMA KeptFacts ==
  ASSUME NEW S, NEW s \in Seq(S), NEW e \in Seq(DOMAIN s)
  PROVE  /\ [j \in DOMAIN e |-> s[e[j]]] \in Seq(S)
         /\ Len([j \in DOMAIN e |-> s[e[j]]]) = Len(e)
<1>1. \A j \in 1..Len(e) : s[e[j]] \in S
  OBVIOUS
<1>2. DOMAIN e = 1..Len(e) /\ Len(e) \in Nat
  OBVIOUS
<1> QED BY <1>1, <1>2

-----------------------------------------------------------------------------
(* Type correctness.                                                       *)

LEMMA InitType == Init => TypeOK
<1> SUFFICES ASSUME Init PROVE TypeOK
  OBVIOUS
<1>1. MembersOK
  <2>1. \A S : <<>> \in Seq(S)
    BY EmptySeq
  <2> QED BY <2>1 DEF Init, MembersOK
<1>2. ResultOK
  <2>1. DOMAIN trajectories = {}
    BY DEF Init
  <2>2. IsFiniteSet({})
    BY FS_EmptySet
  <2>3. trajectories \in [DOMAIN trajectories -> Trajectory]
    BY <2>1 DEF Init
  <2>4. objectsPerFrame \in [0..MaxFrame -> Seq(Entry)]
    BY DEF Init
  <2> QED BY <2>1, <2>2, <2>3, <2>4 DEF ResultOK
<1>3. LocalsOK
  BY BoundsAssumption DEF Init, LocalsOK
<1> QED BY <1>1, <1>2, <1>3 DEF TypeOK

\* The steps that only move between frames and phases.
LEMMA ControlType ==
  ASSUME TypeOK,
         StartRun \/ ReadFrame \/ EndOfVideo \/ Cancel \/ Canceled \/ ObjectsDone
  PROVE  TypeOK'
<1> USE BoundsAssumption DEF TypeOK, members, result, locals
<1>1. CASE StartRun
  <2>1. MembersOK'
    BY <1>1 DEF StartRun, MembersOK
  <2>2. ResultOK'
    <3>1. DOMAIN trajectories' = {} /\ IsFiniteSet({})
      BY <1>1, FS_EmptySet DEF StartRun
    <3>2. trajectories' \in [DOMAIN trajectories' -> Trajectory]
      BY <1>1, <3>1 DEF StartRun
    <3>3. objectsPerFrame' \in [0..MaxFrame -> Seq(Entry)]
      BY <1>1 DEF StartRun
    <3> QED BY <3>1, <3>2, <3>3 DEF ResultOK
  <2>3. LocalsOK'
    BY <1>1 DEF StartRun, LocalsOK
  <2> QED BY <2>1, <2>2, <2>3
<1>2. CASE ReadFrame
  BY <1>2 DEF ReadFrame, MembersOK, ResultOK, LocalsOK
<1>3. CASE EndOfVideo
  BY <1>3 DEF EndOfVideo, MembersOK, ResultOK, LocalsOK
<1>4. CASE Cancel
  BY <1>4 DEF Cancel, MembersOK, ResultOK, LocalsOK
<1>5. CASE Canceled
  BY <1>5 DEF Canceled, MembersOK, ResultOK, LocalsOK
<1>6. CASE ObjectsDone
  BY <1>6 DEF ObjectsDone, MembersOK, ResultOK, LocalsOK
<1> QED BY <1>1, <1>2, <1>3, <1>4, <1>5, <1>6

LEMMA BeginFrameType ==
  ASSUME TypeOK, BeginFrame
  PROVE  TypeOK'
<1> USE DEF TypeOK, BeginFrame, result
<1>1. PICK flow \in Flows : trackingPoints' = [i \in Points |-> flow[trackingPoints[i]]]
  OBVIOUS
<1>2. trackingPoints' \in Seq(Position) /\ Len(trackingPoints') = Len(trackingPoints)
  BY <1>1, FlowAssumption DEF MembersOK, Points
<1>3. MembersOK'
  BY <1>2 DEF MembersOK
<1>4. ResultOK'
  BY DEF ResultOK
<1>5. LocalsOK'
  BY DetectionAssumption DEF LocalsOK
<1> QED BY <1>3, <1>4, <1>5

LEMMA RegisteredType ==
  ASSUME TypeOK, ObjectRegistered
  PROVE  TypeOK'
<1> USE DEF TypeOK
<1> DEFINE o == currentFrameObjects[obj]
<1>1. obj \in DOMAIN currentFrameObjects /\ o.centre \in Position
  BY CurrentObject DEF ObjectRegistered, MovePoint
<1>2. PICK i \in Points :
        /\ PushObject([id |-> pointIds[i], point |-> o.centre])
        /\ PushPoint(pointIds[i], o.centre)
        /\ trackingPoints' = [trackingPoints EXCEPT ![i] = o.centre]
        /\ missCounter' = [missCounter EXCEPT ![i] = 0]
        /\ lastSeen' = [lastSeen EXCEPT ![i] = frameIndex]
  BY DEF ObjectRegistered, MovePoint
<1>3. pointIds[i] \in Nat /\ i \in DOMAIN trackingPoints /\ i \in DOMAIN missCounter
      /\ i \in DOMAIN lastSeen
  BY DEF MembersOK, Points
<1>4. frameIndex \in Nat /\ frameIndex <= MaxFrame
  BY BoundsAssumption DEF LocalsOK, ObjectRegistered, MovePoint
<1>5. MembersOK'
  <2>1. trackingPoints' \in Seq(Position) /\ Len(trackingPoints') = Len(trackingPoints)
    BY <1>1, <1>2, <1>3, ExceptFacts DEF MembersOK
  <2>2. missCounter' \in Seq(Nat) /\ Len(missCounter') = Len(missCounter)
    BY <1>2, <1>3, ExceptFacts DEF MembersOK
  <2>3. lastSeen' \in Seq(Nat) /\ Len(lastSeen') = Len(lastSeen)
    BY <1>2, <1>3, <1>4, ExceptFacts DEF MembersOK
  <2> QED BY <2>1, <2>2, <2>3 DEF MembersOK, ObjectRegistered, MovePoint
<1>6. ResultOK'
  <2>1. [id |-> pointIds[i], point |-> o.centre] \in Entry
    BY <1>1, <1>3 DEF Entry
  <2> QED BY <1>1, <1>2, <1>3, <1>4, <2>1, PushPointType, PushObjectType DEF ResultOK
<1>7. LocalsOK'
  BY DEF LocalsOK, ObjectRegistered, MovePoint
<1> QED BY <1>5, <1>6, <1>7

LEMMA AppearedType ==
  ASSUME TypeOK, ObjectAppeared
  PROVE  TypeOK'
<1> USE DEF TypeOK
<1> DEFINE o == currentFrameObjects[obj]
           newId == Cardinality(DOMAIN trajectories)
<1>1. obj \in DOMAIN currentFrameObjects /\ o.centre \in Position
  BY CurrentObject DEF ObjectAppeared, AddPoint, NewId
<1>2. newId \in Nat
  BY FS_CardinalityType DEF ResultOK
<1>3. frameIndex \in Nat /\ frameIndex <= MaxFrame
  BY BoundsAssumption DEF LocalsOK, ObjectAppeared, AddPoint, NewId
<1>4. MembersOK'
  <2>1. trackingPoints' \in Seq(Position) /\ Len(trackingPoints') = Len(trackingPoints) + 1
    BY <1>1, AppendFacts DEF MembersOK, ObjectAppeared, AddPoint, NewId
  <2>2. pointIds' \in Seq(Nat) /\ Len(pointIds') = Len(pointIds) + 1
    BY <1>2, AppendFacts DEF MembersOK, ObjectAppeared, AddPoint, NewId
  <2>3. missCounter' \in Seq(Nat) /\ Len(missCounter') = Len(missCounter) + 1
    BY AppendFacts DEF MembersOK, ObjectAppeared, AddPoint, NewId
  <2>4. lastSeen' \in Seq(Nat) /\ Len(lastSeen') = Len(lastSeen) + 1
    BY <1>3, AppendFacts DEF MembersOK, ObjectAppeared, AddPoint, NewId
  <2> QED BY <2>1, <2>2, <2>3, <2>4 DEF MembersOK, ObjectAppeared, AddPoint, NewId
<1>5. ResultOK'
  <2>1. [id |-> newId, point |-> o.centre] \in Entry
    BY <1>1, <1>2 DEF Entry
  <2>2. [frameStart |-> frameIndex, points |-> <<o.centre>>] \in Trajectory
    BY <1>1, <1>3 DEF Trajectory
  <2>3. SetTrajectory(newId, [frameStart |-> frameIndex, points |-> <<o.centre>>])
        /\ PushObject([id |-> newId, point |-> o.centre])
    BY DEF ObjectAppeared, AddPoint, NewId
  <2>4. /\ IsFiniteSet(DOMAIN trajectories)'
        /\ (DOMAIN trajectories)' \subseteq Nat
        /\ trajectories' \in [DOMAIN trajectories' -> Trajectory]
    BY <1>2, <2>2, <2>3, SetTrajectoryType
  <2>5. objectsPerFrame' \in [0..MaxFrame -> Seq(Entry)]
    BY <1>3, <2>1, <2>3, PushObjectType
  <2> QED BY <2>4, <2>5 DEF ResultOK
<1>6. LocalsOK'
  BY DEF LocalsOK, ObjectAppeared, AddPoint, NewId
<1> QED BY <1>4, <1>5, <1>6

\* What every pass of the sweep does to the members and the locals.
LEMMA NextPointType ==
  ASSUME MembersOK, LocalsOK, pc = "sweep", pIndex \in Points,
         NEW misses \in Nat, NextPoint(misses), pc' \in {"sweep", "crashed"}
  PROVE  MembersOK' /\ LocalsOK'
<1>1. pIndex \in DOMAIN missCounter
  BY DEF MembersOK, Points
<1>2. missCounter' \in Seq(Nat) /\ Len(missCounter') = Len(missCounter)
  BY <1>1, ExceptFacts DEF MembersOK, NextPoint
<1>3. MembersOK'
  BY <1>2 DEF MembersOK, NextPoint
<1>4. pIndex + 1 <= Len(trackingPoints) + 1
  BY DEF Points, MembersOK
<1>5. LocalsOK'
  BY <1>4 DEF LocalsOK, NextPoint
<1> QED BY <1>3, <1>5

\* What a miss records is well typed, whatever object it was given.
LEMMA RecordMissType ==
  ASSUME MembersOK, ResultOK, LocalsOK, frameIndex <= MaxFrame, pIndex \in Points,
         NEW object \in Entry, RecordMiss(object)
  PROVE  ResultOK'
<1> DEFINE p    == trackingPoints[pIndex]
           near == Dist[object.point][p] < MaxMoveThreshold
           here == IF near THEN [object EXCEPT !.point = ReadBack[p]] ELSE object
<1>1. p \in Position /\ pointIds[pIndex] \in Nat
  BY DEF MembersOK, Points
<1>2. ReadBack[p] \in Position
  BY <1>1, GeometryAssumption
<1>3. here \in Entry /\ here.point \in Position
  BY <1>2 DEF Entry
<1>4. PushPoint(pointIds[pIndex], here.point) /\ PushObject(here)
  BY DEF RecordMiss
<1> QED BY <1>1, <1>3, <1>4, PushPointType, PushObjectType DEF ResultOK

LEMMA SweepType ==
  ASSUME TypeOK, PointHit \/ PointMissed \/ FindResultFails
  PROVE  TypeOK'
<1> USE DEF TypeOK
<1>1. pc = "sweep" /\ pIndex \in Points /\ frameIndex <= MaxFrame
      /\ frameIndex - 1 \in 0..MaxFrame
  BY BoundsAssumption DEF PointHit, PointMissed, FindResultFails, LocalsOK
<1>2. missCounter[pIndex] \in Nat
  BY <1>1 DEF MembersOK, Points
<1>3. CASE PointHit
  <2>1. MembersOK' /\ LocalsOK'
    BY <1>1, <1>2, <1>3, NextPointType DEF PointHit
  <2>2. ResultOK'
    BY <1>3 DEF PointHit, ResultOK, result
  <2> QED BY <2>1, <2>2
<1>4. CASE PointMissed
  <2>1. MembersOK' /\ LocalsOK'
    BY <1>1, <1>2, <1>4, NextPointType DEF PointMissed
  <2>2. PICK k \in DOMAIN objectsPerFrame[frameIndex - 1] :
          RecordMiss(objectsPerFrame[frameIndex - 1][k])
    BY <1>4 DEF PointMissed
  <2>3. objectsPerFrame[frameIndex - 1][k] \in Entry
    BY <1>1, <2>2 DEF ResultOK
  <2>4. ResultOK'
    BY <1>1, <2>2, <2>3, RecordMissType
  <2> QED BY <2>1, <2>4
<1>5. CASE FindResultFails
  <2>1. MembersOK' /\ LocalsOK'
    BY <1>1, <1>2, <1>5, NextPointType DEF FindResultFails
  <2>2. ResultOK'
    <3>1. CASE UNCHANGED result
      BY <3>1 DEF ResultOK, result
    <3>2. CASE \E object \in [id: GarbageIds, point: Position] : RecordMiss(object)
      <4>1. PICK object \in [id: GarbageIds, point: Position] : RecordMiss(object)
        BY <3>2
      <4>2. object \in Entry
        BY BoundsAssumption DEF Entry
      <4> QED BY <1>1, <4>1, <4>2, RecordMissType
    <3> QED BY <1>5, <3>1, <3>2 DEF FindResultFails
  <2> QED BY <2>1, <2>2
<1> QED BY <1>3, <1>4, <1>5

LEMMA CleanUpType ==
  ASSUME TypeOK, CleanUpPoints
  PROVE  TypeOK'
<1> USE DEF TypeOK
<1>1. PICK e \in Listings(Points \ toRemove) :
        /\ trackingPoints' = [j \in DOMAIN e |-> trackingPoints[e[j]]]
        /\ missCounter' = [j \in DOMAIN e |-> missCounter[e[j]]]
        /\ pointIds' = [j \in DOMAIN e |-> pointIds[e[j]]]
        /\ lastSeen' = [j \in DOMAIN e |-> lastSeen[e[j]]]
  BY DEF CleanUpPoints
<1>2. e \in Seq(Points)
  <2>1. Len(e) \in Nat /\ e \in [1..Len(e) -> Points]
    <3>1. e \in Seq(Points \ toRemove)
      BY ListingFacts
    <3>2. Len(e) \in Nat /\ e \in [1..Len(e) -> Points \ toRemove]
      BY <3>1, LenProperties
    <3> QED BY <3>2
  <2> QED BY <2>1
<1>3. /\ e \in Seq(DOMAIN trackingPoints) /\ e \in Seq(DOMAIN missCounter)
      /\ e \in Seq(DOMAIN pointIds) /\ e \in Seq(DOMAIN lastSeen)
  <2>1. /\ Points = DOMAIN trackingPoints /\ Points = DOMAIN missCounter
        /\ Points = DOMAIN pointIds /\ Points = DOMAIN lastSeen
    BY DEF MembersOK, Points
  <2> QED BY <1>2, <2>1
<1>4. /\ trackingPoints' \in Seq(Position) /\ Len(trackingPoints') = Len(e)
      /\ missCounter' \in Seq(Nat) /\ Len(missCounter') = Len(e)
      /\ pointIds' \in Seq(Nat) /\ Len(pointIds') = Len(e)
      /\ lastSeen' \in Seq(Nat) /\ Len(lastSeen') = Len(e)
  BY <1>1, <1>3, KeptFacts DEF MembersOK
<1>5. MembersOK'
  BY <1>4 DEF MembersOK, CleanUpPoints
<1>6. ResultOK'
  BY DEF ResultOK, CleanUpPoints, result
<1>7. LocalsOK'
  BY BoundsAssumption DEF LocalsOK, CleanUpPoints
<1> QED BY <1>5, <1>6, <1>7

LEMMA StutterType ==
  ASSUME TypeOK, UNCHANGED vars
  PROVE  TypeOK'
BY DEF TypeOK, MembersOK, ResultOK, LocalsOK, vars, members, result, locals

LEMMA StepType == TypeOK /\ [Next]_vars => TypeOK'
BY ControlType, BeginFrameType, RegisteredType, AppearedType, SweepType,
   CleanUpType, StutterType DEF Next

\* The three vectors of the tracker stay aligned and every index in range, for
\* every geometry, detector, optical flow, thresholds and use of the tracker.
THEOREM TypeCorrect == Spec => []TypeOK
<1>1. Init => TypeOK
  BY InitType
<1>2. TypeOK /\ [Next]_vars => TypeOK'
  BY StepType
<1> QED BY <1>1, <1>2, PTL DEF Spec

(***************************************************************************)
(* A tracker that is used once, on separated detections, never looks up an *)
(* object that is not there, and reports every live object in every frame. *)
(***************************************************************************)

\* The ids of a frame with one more report.
LEMMA AppendIds ==
  ASSUME NEW s \in Seq(Entry), NEW e \in Entry
  PROVE  Ids(Append(s, e)) = Ids(s) \cup {e.id}
<1>1. /\ DOMAIN s = 1..Len(s) /\ Len(s) \in Nat
      /\ DOMAIN Append(s, e) = 1..Len(s) + 1
      /\ \A j \in 1..Len(s) : Append(s, e)[j] = s[j]
      /\ Append(s, e)[Len(s) + 1] = e
  BY AppendFacts
<1>2. DOMAIN Append(s, e) = DOMAIN s \cup {Len(s) + 1}
  BY <1>1
<1>3. ASSUME NEW x \in Ids(Append(s, e))
      PROVE  x \in Ids(s) \cup {e.id}
  <2>1. PICK j \in DOMAIN Append(s, e) : x = Append(s, e)[j].id
    BY DEF Ids
  <2> QED BY <1>1, <1>2, <2>1 DEF Ids
<1>4. ASSUME NEW x \in Ids(s)
      PROVE  x \in Ids(Append(s, e))
  <2>1. PICK j \in DOMAIN s : x = s[j].id
    BY DEF Ids
  <2> QED BY <1>1, <1>2, <2>1 DEF Ids
<1>5. e.id \in Ids(Append(s, e))
  BY <1>1, <1>2 DEF Ids
<1> QED BY <1>3, <1>4, <1>5

\* Reporting an object adds its id to this frame's and leaves the frame before
\* alone.
LEMMA PushObjectIds ==
  ASSUME TypeOK, InFrame, NEW e \in Entry, PushObject(e), frameIndex' = frameIndex
  PROVE  /\ Now' = Now \cup {e.id}
         /\ Before' = Before
         /\ \A f \in 0..MaxFrame \ {frameIndex} : objectsPerFrame'[f] = objectsPerFrame[f]
<1>1. frameIndex \in 1..MaxFrame /\ frameIndex - 1 \in 0..MaxFrame
      /\ frameIndex \in 0..MaxFrame /\ frameIndex - 1 # frameIndex
  BY BoundsAssumption DEF TypeOK, LocalsOK, InFrame
<1>2. \A f \in 0..MaxFrame :
        objectsPerFrame'[f] = IF f = frameIndex THEN Append(objectsPerFrame[f], e)
                                                ELSE objectsPerFrame[f]
  BY <1>1, PushObjectType DEF TypeOK
<1>3. objectsPerFrame[frameIndex] \in Seq(Entry)
  BY <1>1 DEF TypeOK, ResultOK
<1>4. Ids(Append(objectsPerFrame[frameIndex], e)) = Ids(objectsPerFrame[frameIndex]) \cup {e.id}
  BY <1>3, AppendIds
<1> QED BY <1>1, <1>2, <1>4 DEF Now, Before

\* A detection's own centre is in its rectangle, truncated or rounded, and an
\* earlier detection's centre is not.
LEMMA CentreFacts ==
  ASSUME Separated, NEW list \in DetectionLists, NEW k \in DOMAIN list
  PROVE  /\ list[k].centre \in Position
         /\ list[k].centre \in list[k].region
         /\ Trunc[list[k].centre] = list[k].centre
         /\ Round[list[k].centre] = list[k].centre
         /\ \A j \in DOMAIN list : j < k => /\ list[j].centre \notin list[k].region
                                            /\ list[j].centre # list[k].centre
<1>1. list \in Seq(Detection)
  BY DetectionAssumption
<1>2. list[k] \in Detection
  BY <1>1, ElementOfSeq, LenProperties
<1>3. list[k].centre \in Position
  BY <1>2 DEF Detection
<1>4. list[k].centre \in list[k].region /\ Trunc[list[k].centre] = list[k].centre
      /\ Round[list[k].centre] = list[k].centre
  BY DetectionAssumption
<1>5. \A j \in DOMAIN list : j < k => list[j].centre \notin list[k].region
  BY DEF Separated
<1> QED BY <1>3, <1>4, <1>5

-----------------------------------------------------------------------------
\* The heart of the argument: a missed point is in the frame before, because a
\* point this frame created sits alone on its detection's centre and is hit.
LEMMA MissedIsRooted ==
  ASSUME Separated, TypeOK, FollowInv
  PROVE  LookupSafe
<1> SUFFICES ASSUME pc = "sweep", pIndex \in Points, ~Hit(pIndex)
             PROVE  pointIds[pIndex] \in Before
  BY DEF LookupSafe, Before
<1>1. CASE \E k \in 1..obj - 1 : Alone(pIndex, k)
  <2>1. PICK k \in 1..obj - 1 : Alone(pIndex, k)
    BY <1>1
  <2>2. currentFrameObjects \in DetectionLists /\ k \in DOMAIN currentFrameObjects
    BY DEF FollowInv, Covered, Swept, InFrame, TypeOK, LocalsOK
  <2> DEFINE c == currentFrameObjects[k].centre
  <2>3. c \in Position /\ c \in currentFrameObjects[k].region /\ Round[c] = c
    BY <2>2, CentreFacts
  <2>4. \A j \in Points \ {pIndex} : trackingPoints[j] \in Position /\ trackingPoints[j] # c
    BY <2>1 DEF Alone, TypeOK, MembersOK, Points
  <2>5. Dist[c][c] = 0 /\ \A j \in Points \ {pIndex} : Dist[trackingPoints[j]][c] > 0
    BY <2>3, <2>4, GeometryAssumption
  <2>6. trackingPoints[pIndex] = c
    BY <2>1 DEF Alone
  <2>7. Hit(pIndex)
    BY <2>2, <2>3, <2>5, <2>6 DEF Hit
  <2> QED BY <2>7
<1>2. CASE pointIds[pIndex] \in Before
  BY <1>2
<1> QED BY <1>1, <1>2 DEF FollowInv, Rooted, InFrame

\* A point the sweep takes for hit is the one its detection was matched to.
LEMMA HitIsReported ==
  ASSUME Separated, TypeOK, FollowInv, pc = "sweep", pIndex \in Points, Hit(pIndex)
  PROVE  pointIds[pIndex] \in Now
<1>1. PICK k \in DOMAIN currentFrameObjects :
        \A j \in Points \ {pIndex} :
          Dist[trackingPoints[pIndex]][currentFrameObjects[k].centre]
            < Dist[trackingPoints[j]][currentFrameObjects[k].centre]
  BY DEF Hit
<1> DEFINE c == currentFrameObjects[k].centre
<1>2. currentFrameObjects \in DetectionLists /\ k \in 1..obj - 1
  BY DEF FollowInv, Covered, Swept, InFrame, TypeOK, LocalsOK
<1>3. PICK i \in Points : trackingPoints[i] = c /\ pointIds[i] \in Now
  BY <1>2 DEF FollowInv, Covered, InFrame
<1>4. c \in Position /\ trackingPoints[pIndex] \in Position
  BY <1>2, CentreFacts DEF TypeOK, MembersOK, Points
<1>5. Dist[c][c] = 0 /\ Dist[trackingPoints[pIndex]][c] \in Nat
  BY <1>4, GeometryAssumption
<1>6. i = pIndex
  BY <1>1, <1>3, <1>5
<1> QED BY <1>3, <1>6

-----------------------------------------------------------------------------
(* FollowInv is inductive.                                                 *)

LEMMA InitFollow == Init => FollowInv
<1> SUFFICES ASSUME Init PROVE FollowInv
  OBVIOUS
<1>1. Fresh
  BY DEF Init, Fresh
<1>2. KnownBetween /\ Covered /\ Rooted /\ Swept
  BY DEF Init, KnownBetween, BetweenFrames, Covered, Rooted, InFrame, Swept
<1> QED BY <1>1, <1>2 DEF FollowInv

\* A call cannot start twice, so it starts on an untouched tracker.
LEMMA ControlFollow ==
  ASSUME MaxRuns = 1, TypeOK, FollowInv,
         StartRun \/ ReadFrame \/ EndOfVideo \/ Cancel \/ Canceled
  PROVE  FollowInv'
<1> USE DEF FollowInv, members, result, locals
<1>1. CASE StartRun
  <2>1. runs = 0 /\ runs' = 1
    BY <1>1 DEF StartRun, TypeOK, LocalsOK
  <2>2. Points' = {}
    BY <1>1, <2>1 DEF StartRun, Fresh, Points
  <2>3. KnownBetween'
    BY <2>2 DEF KnownBetween
  <2> QED BY <1>1, <2>1, <2>3 DEF StartRun, Fresh, Covered, Rooted, InFrame, Swept
<1>2. CASE ReadFrame \/ EndOfVideo \/ Canceled
  <2>1. /\ pc \in {"read", "check"} /\ pc' \in {"idle", "check"}
        /\ pc' = "check" => pc = "read"
        /\ UNCHANGED <<members, result, frameIndex, runs>>
    BY <1>2 DEF ReadFrame, EndOfVideo, Canceled
  <2>2. Fresh'
    BY <2>1 DEF Fresh
  <2>3. KnownBetween'
    BY <2>1 DEF KnownBetween, BetweenFrames, Before, Points
  <2> QED BY <2>1, <2>2, <2>3 DEF Covered, Rooted, InFrame, Swept
<1>3. CASE Cancel
  <2>1. UNCHANGED <<members, result, locals, runs>>
    BY <1>3 DEF Cancel
  <2>2. Fresh' /\ KnownBetween'
    BY <2>1 DEF Fresh, KnownBetween, BetweenFrames, Before, Points
  <2>3. Covered' /\ Rooted' /\ Swept'
    BY <2>1 DEF Covered, Rooted, InFrame, Swept, Now, Before, Points, Alone
  <2> QED BY <2>2, <2>3
<1> QED BY <1>1, <1>2, <1>3

LEMMA BeginFrameFollow ==
  ASSUME TypeOK, FollowInv, BeginFrame
  PROVE  FollowInv'
<1> USE DEF FollowInv, BeginFrame, result
<1>1. Points' = Points
  BY DEF Points
<1>2. Fresh'
  BY DEF Fresh
<1>3. Rooted'
  BY <1>1 DEF Rooted, KnownBetween, BetweenFrames, Before
<1>4. Covered'
  BY DEF Covered
<1> QED BY <1>2, <1>3, <1>4 DEF KnownBetween, BetweenFrames, Swept

\* A matched point leaves no earlier detection's centre: none of those centres
\* is in this detection's rectangle.
LEMMA RegisteredFollow ==
  ASSUME Separated, TypeOK, FollowInv, ObjectRegistered
  PROVE  FollowInv'
<1> USE DEF FollowInv
<1> DEFINE o == currentFrameObjects[obj]
<1>1. /\ InFrame /\ pc = "assign" /\ pc' = "assign" /\ obj \in Nat /\ obj' = obj + 1
      /\ UNCHANGED <<pointIds, frameIndex, currentFrameObjects, runs>>
  BY DEF ObjectRegistered, MovePoint, InFrame, TypeOK, LocalsOK
<1>2. currentFrameObjects \in DetectionLists /\ obj \in DOMAIN currentFrameObjects
      /\ \A k \in 1..obj - 1 : k \in DOMAIN currentFrameObjects /\ k < obj
  BY <1>1 DEF Covered, ObjectRegistered, MovePoint, TypeOK, LocalsOK
<1>3. PICK i \in Points :
        /\ IsTrackedPointIndex(o, i)
        /\ PushObject([id |-> pointIds[i], point |-> o.centre])
        /\ trackingPoints' = [trackingPoints EXCEPT ![i] = o.centre]
  BY DEF ObjectRegistered, MovePoint
<1>4. /\ o.centre \in Position /\ Trunc[trackingPoints[i]] \in o.region
      /\ \A k \in 1..obj - 1 :
           /\ currentFrameObjects[k].centre # o.centre
           /\ trackingPoints[i] # currentFrameObjects[k].centre
  <2>1. Trunc[trackingPoints[i]] \in o.region
    BY <1>3 DEF IsTrackedPointIndex, Candidates
  <2>2. o.centre \in Position
    BY <1>2, CentreFacts
  <2>3. ASSUME NEW k \in 1..obj - 1
        PROVE  /\ currentFrameObjects[k].centre # o.centre
               /\ trackingPoints[i] # currentFrameObjects[k].centre
    <3>1. currentFrameObjects[k].centre # o.centre /\ currentFrameObjects[k].centre \notin o.region
      BY <1>2, CentreFacts
    <3>2. Trunc[currentFrameObjects[k].centre] = currentFrameObjects[k].centre
      BY <1>2, CentreFacts
    <3> QED BY <2>1, <3>1, <3>2
  <2> QED BY <2>1, <2>2, <2>3
<1>5. Points' = Points /\ \A j \in Points :
        trackingPoints'[j] = IF j = i THEN o.centre ELSE trackingPoints[j]
  BY <1>3, <1>4 DEF Points
<1>6. Now' = Now \cup {pointIds[i]} /\ Before' = Before
  <2>1. [id |-> pointIds[i], point |-> o.centre] \in Entry
    BY <1>4 DEF Entry, TypeOK, MembersOK, Points
  <2> QED BY <1>1, <1>3, <2>1, PushObjectIds
<1>7. Covered'
  <2> SUFFICES ASSUME NEW k \in 1..obj
               PROVE  \E j \in Points : /\ trackingPoints'[j] = currentFrameObjects[k].centre
                                        /\ pointIds[j] \in Now'
    BY <1>1, <1>2, <1>5 DEF Covered
  <2>1. CASE k = obj
    BY <1>5, <1>6, <2>1
  <2>2. CASE k \in 1..obj - 1
    <3>1. PICK j \in Points : /\ trackingPoints[j] = currentFrameObjects[k].centre
                             /\ pointIds[j] \in Now
      BY <1>1, <2>2 DEF Covered
    <3>2. j # i
      BY <1>4, <2>2, <3>1
    <3> QED BY <1>5, <1>6, <3>1, <3>2
  <2> QED BY <1>1, <2>1, <2>2
<1>8. Rooted'
  <2> SUFFICES ASSUME NEW j \in Points, pointIds[j] \notin Before
               PROVE  \E k \in 1..obj : Alone(j, k)'
    BY <1>1, <1>5, <1>6 DEF Rooted
  <2>1. PICK k \in 1..obj - 1 : Alone(j, k)
    BY <1>1 DEF Rooted
  <2>2. j # i
    BY <1>4, <2>1 DEF Alone
  <2>3. Alone(j, k)'
    BY <1>1, <1>4, <1>5, <2>1, <2>2 DEF Alone
  <2> QED BY <1>1, <2>1, <2>3
<1>9. Fresh' /\ KnownBetween' /\ Swept'
  BY <1>1 DEF Fresh, KnownBetween, BetweenFrames, Swept
<1> QED BY <1>7, <1>8, <1>9

\* A new point is alone on its centre: any other point there would have been
\* in the detection's rectangle.
LEMMA AppearedFollow ==
  ASSUME Separated, TypeOK, FollowInv, ObjectAppeared
  PROVE  FollowInv'
<1> USE DEF FollowInv
<1> DEFINE o     == currentFrameObjects[obj]
           newId == Cardinality(DOMAIN trajectories)
           n     == Len(trackingPoints)
<1>1. /\ InFrame /\ pc = "assign" /\ pc' = "assign" /\ obj \in Nat /\ obj' = obj + 1
      /\ UNCHANGED <<frameIndex, currentFrameObjects, runs>>
  BY DEF ObjectAppeared, AddPoint, NewId, InFrame, TypeOK, LocalsOK
<1>2. currentFrameObjects \in DetectionLists /\ obj \in DOMAIN currentFrameObjects
      /\ \A k \in 1..obj - 1 : k \in DOMAIN currentFrameObjects /\ k < obj
  BY <1>1 DEF Covered, ObjectAppeared, AddPoint, NewId, TypeOK, LocalsOK
<1>3. /\ o.centre \in Position
      /\ \A k \in 1..obj - 1 : currentFrameObjects[k].centre # o.centre
      /\ \A j \in Points : trackingPoints[j] # o.centre
  <2>1. o.centre \in Position /\ o.centre \in o.region /\ Trunc[o.centre] = o.centre
    BY <1>2, CentreFacts
  <2>2. \A j \in Points : Trunc[trackingPoints[j]] \notin o.region
    BY DEF ObjectAppeared, AddPoint, NewId, Candidates
  <2>3. \A k \in 1..obj - 1 : currentFrameObjects[k].centre # o.centre
    BY <1>2, CentreFacts
  <2> QED BY <2>1, <2>2, <2>3
<1>4. /\ Points = 1..n /\ n \in Nat /\ Points' = 1..n + 1
      /\ \A j \in Points : /\ trackingPoints'[j] = trackingPoints[j]
                          /\ pointIds'[j] = pointIds[j]
      /\ trackingPoints'[n + 1] = o.centre /\ pointIds'[n + 1] = newId
  <2>1. newId \in Nat
    BY FS_CardinalityType DEF TypeOK, ResultOK
  <2>2. /\ n \in Nat /\ Len(pointIds) = n
        /\ trackingPoints \in Seq(Position) /\ pointIds \in Seq(Nat)
    BY DEF TypeOK, MembersOK
  <2>3. trackingPoints' = Append(trackingPoints, o.centre) /\ pointIds' = Append(pointIds, newId)
    BY DEF ObjectAppeared, AddPoint, NewId
  <2> QED BY <1>3, <2>1, <2>2, <2>3, AppendFacts DEF Points
<1>5. Now' = Now \cup {newId} /\ Before' = Before
  <2>1. [id |-> newId, point |-> o.centre] \in Entry
    BY <1>3, FS_CardinalityType DEF Entry, TypeOK, ResultOK
  <2>2. PushObject([id |-> newId, point |-> o.centre])
    BY DEF ObjectAppeared, AddPoint, NewId
  <2> QED BY <1>1, <2>1, <2>2, PushObjectIds
<1>6. Covered'
  <2> SUFFICES ASSUME NEW k \in 1..obj
               PROVE  \E j \in Points' : /\ trackingPoints'[j] = currentFrameObjects[k].centre
                                         /\ pointIds'[j] \in Now'
    BY <1>1, <1>2 DEF Covered
  <2>1. CASE k = obj
    <3>1. n + 1 \in Points'
      BY <1>4
    <3> QED BY <1>4, <1>5, <2>1, <3>1
  <2>2. CASE k \in 1..obj - 1
    <3>1. PICK j \in Points : /\ trackingPoints[j] = currentFrameObjects[k].centre
                             /\ pointIds[j] \in Now
      BY <1>1, <2>2 DEF Covered
    <3>2. j \in Points'
      BY <1>4
    <3> QED BY <1>4, <1>5, <3>1, <3>2
  <2> QED BY <1>1, <2>1, <2>2
<1>7. Rooted'
  <2> SUFFICES ASSUME NEW j \in Points', pointIds'[j] \notin Before
               PROVE  \E k \in 1..obj : Alone(j, k)'
    BY <1>1, <1>5 DEF Rooted
  <2>1. CASE j = n + 1
    <3>1. \A m \in Points' \ {j} : m \in Points
      BY <1>4, <2>1
    <3>2. PICK k \in 1..obj : k = obj
      BY <1>1, <1>2 DEF TypeOK, LocalsOK
    <3>3. Alone(j, k)'
      BY <1>1, <1>3, <1>4, <2>1, <3>1, <3>2 DEF Alone
    <3> QED BY <3>3
  <2>2. CASE j \in Points
    <3>1. PICK k \in 1..obj - 1 : Alone(j, k)
      BY <1>1, <1>4, <2>2 DEF Rooted
    <3>2. \A m \in Points' : m \in Points \/ m = n + 1
      BY <1>4
    <3>3. Alone(j, k)'
      BY <1>1, <1>3, <1>4, <2>2, <3>1, <3>2 DEF Alone
    <3> QED BY <1>1, <3>1, <3>3
  <2> QED BY <1>4, <2>1, <2>2
<1>8. Fresh' /\ KnownBetween' /\ Swept'
  BY <1>1 DEF Fresh, KnownBetween, BetweenFrames, Swept
<1> QED BY <1>6, <1>7, <1>8

LEMMA ObjectsDoneFollow ==
  ASSUME TypeOK, FollowInv, ObjectsDone
  PROVE  FollowInv'
<1> USE DEF FollowInv, ObjectsDone, members, result
<1>1. Fresh' /\ KnownBetween' /\ Covered' /\ Rooted'
  BY DEF Fresh, KnownBetween, BetweenFrames, Covered, Rooted, InFrame, Now, Before,
         Points, Alone
<1>2. Swept'
  BY DEF Swept, TypeOK, MembersOK, Points
<1> QED BY <1>1, <1>2

\* The sweep goes past a point, whose object is reported by then.
LEMMA SweptOne ==
  ASSUME TypeOK, FollowInv, pc = "sweep", pc' = "sweep", pIndex \in Points,
         pIndex' = pIndex + 1,
         UNCHANGED <<trackingPoints, pointIds, frameIndex, currentFrameObjects, obj, runs>>,
         Now \subseteq Now', Before' = Before, pointIds[pIndex] \in Now'
  PROVE  FollowInv'
<1> USE DEF FollowInv
<1>1. Points' = Points /\ InFrame /\ InFrame'
  BY DEF Points, InFrame
<1>2. Fresh' /\ KnownBetween'
  BY DEF Fresh, KnownBetween, BetweenFrames
<1>3. Covered' /\ Rooted'
  BY <1>1 DEF Covered, Rooted, Alone
<1>4. Swept'
  <2> SUFFICES ASSUME NEW i \in Points, i < pIndex + 1 PROVE pointIds[i] \in Now'
    BY <1>1 DEF Swept
  <2>1. i < pIndex \/ i = pIndex
    BY DEF Points, TypeOK, MembersOK, LocalsOK
  <2> QED BY <2>1 DEF Swept
<1> QED BY <1>2, <1>3, <1>4

LEMMA SweepFollow ==
  ASSUME Separated, TypeOK, FollowInv, PointHit \/ PointMissed \/ FindResultFails
  PROVE  FollowInv'
<1>1. pc = "sweep" /\ pIndex \in Points /\ InFrame /\ pointIds[pIndex] \in Nat
  BY DEF PointHit, PointMissed, FindResultFails, InFrame, TypeOK, MembersOK, Points
<1>2. /\ pIndex' = pIndex + 1
      /\ UNCHANGED <<trackingPoints, pointIds, frameIndex, currentFrameObjects, obj, runs>>
  BY DEF PointHit, PointMissed, FindResultFails, NextPoint
<1>3. CASE PointHit
  <2>1. pc' = "sweep" /\ Now' = Now /\ Before' = Before
    BY <1>1, <1>2, <1>3 DEF PointHit, Now, Before, result
  <2>2. pointIds[pIndex] \in Now
    BY <1>1, <1>3, HitIsReported DEF PointHit
  <2> QED BY <1>1, <1>2, <2>1, <2>2, SweptOne
<1>4. CASE PointMissed
  <2>1. pc' = "sweep"
    BY <1>1, <1>4 DEF PointMissed
  <2>2. PICK k \in DOMAIN objectsPerFrame[frameIndex - 1] :
          /\ IsFound(objectsPerFrame[frameIndex - 1], pointIds[pIndex], k)
          /\ RecordMiss(objectsPerFrame[frameIndex - 1][k])
    BY <1>4 DEF PointMissed
  <2> DEFINE object == objectsPerFrame[frameIndex - 1][k]
             p      == trackingPoints[pIndex]
             here   == IF Dist[object.point][p] < MaxMoveThreshold
                       THEN [object EXCEPT !.point = ReadBack[p]] ELSE object
  <2>3. object \in Entry /\ object.id = pointIds[pIndex]
    <3>1. frameIndex - 1 \in 0..MaxFrame
      BY <1>1, BoundsAssumption DEF TypeOK, LocalsOK
    <3> QED BY <2>2, <3>1 DEF IsFound, TypeOK, ResultOK
  <2>4. here \in Entry /\ here.id = pointIds[pIndex]
    <3>1. ReadBack[p] \in Position
      BY <1>1, GeometryAssumption DEF TypeOK, MembersOK, Points
    <3> QED BY <2>3, <3>1 DEF Entry
  <2>5. PushObject(here)
    BY <2>2 DEF RecordMiss
  <2>6. Now' = Now \cup {pointIds[pIndex]} /\ Before' = Before
    BY <1>1, <1>2, <2>4, <2>5, PushObjectIds
  <2> QED BY <1>1, <1>2, <2>1, <2>6, SweptOne
<1>5. CASE FindResultFails
  <2>1. pointIds[pIndex] \in Before
    BY <1>1, <1>5, MissedIsRooted DEF FindResultFails, LookupSafe, Before
  <2> QED BY <1>5, <2>1 DEF FindResultFails, Before
<1> QED BY <1>3, <1>4, <1>5

\* A frame ends with every point reported, so the points that stay are known to
\* the next one.
LEMMA CleanUpFollow ==
  ASSUME TypeOK, FollowInv, CleanUpPoints
  PROVE  FollowInv'
<1> USE DEF FollowInv
<1>1. PICK e \in Listings(Points \ toRemove) :
        /\ trackingPoints' = [j \in DOMAIN e |-> trackingPoints[e[j]]]
        /\ pointIds' = [j \in DOMAIN e |-> pointIds[e[j]]]
  BY DEF CleanUpPoints
<1>2. \A i \in Points : pointIds[i] \in Now
  <2>1. \A i \in Points : i < pIndex
    BY DEF CleanUpPoints, Points, TypeOK, MembersOK
  <2> QED BY <2>1 DEF CleanUpPoints, Swept
<1>3. Points' = DOMAIN e /\ \A j \in DOMAIN e : e[j] \in Points
  BY <1>1, ListingFacts DEF TypeOK, Points
<1>4. Before' = Now
  BY DEF CleanUpPoints, Before, Now, result, TypeOK, LocalsOK
<1>5. KnownBetween'
  BY <1>1, <1>2, <1>3, <1>4 DEF KnownBetween
<1>6. Fresh' /\ Covered' /\ Rooted' /\ Swept'
  BY DEF CleanUpPoints, Fresh, Covered, Rooted, InFrame, Swept
<1> QED BY <1>5, <1>6

LEMMA StutterFollow ==
  ASSUME FollowInv, UNCHANGED vars
  PROVE  FollowInv'
BY DEF FollowInv, Fresh, KnownBetween, BetweenFrames, Covered, Rooted, InFrame, Swept,
       Now, Before, Points, Alone, vars, members, result, locals

LEMMA StepFollow ==
  ASSUME MaxRuns = 1, Separated, TypeOK, FollowInv, [Next]_vars
  PROVE  FollowInv'
BY ControlFollow, BeginFrameFollow, RegisteredFollow, AppearedFollow, ObjectsDoneFollow,
   SweepFollow, CleanUpFollow, StutterFollow DEF Next

\* A tracker that makes one call on separated detections keeps the inductive
\* invariant: every point is known from the frame before, or alone where it
\* was just born, and whatever the sweep has passed is reported.
THEOREM FollowCorrect ==
  ASSUME MaxRuns = 1, Separated
  PROVE  Spec => [](TypeOK /\ FollowInv)
<1>1. Init => TypeOK /\ FollowInv
  BY InitType, InitFollow
<1>2. TypeOK /\ FollowInv /\ [Next]_vars => (TypeOK /\ FollowInv)'
  BY StepType, StepFollow
<1> QED BY <1>1, <1>2, PTL DEF Spec

\* The sweep never asks findResult for an object the frame before does not
\* have, so the search cannot run off its end.
THEOREM LookupIsSafe ==
  ASSUME MaxRuns = 1, Separated
  PROVE  Spec => []LookupSafe
<1>1. TypeOK /\ FollowInv => LookupSafe
  BY MissedIsRooted
<1> QED BY <1>1, FollowCorrect, PTL

(***************************************************************************)
(* Identities: a tracker that is used once never gives an id twice, and on *)
(* separated detections it implements TrackLog.                            *)
(***************************************************************************)

-----------------------------------------------------------------------------
(* IdsInv is inductive, whatever the detections.                           *)

\* Adding a point to a trajectory that exists adds no id.
LEMMA PushKnown ==
  ASSUME NEW id \in DOMAIN trajectories, NEW p, PushPoint(id, p)
  PROVE  DOMAIN trajectories' = DOMAIN trajectories
BY DEF PushPoint, SetTrajectory

LEMMA InitIds == Init => IdsInv
<1> SUFFICES ASSUME Init PROVE IdsInv
  OBVIOUS
<1>1. DOMAIN trajectories = {} /\ Cardinality({}) = 0
  BY FS_EmptySet DEF Init
<1>2. DOMAIN trajectories = 0..Cardinality(DOMAIN trajectories) - 1
  BY <1>1
<1>3. Points = {}
  BY DEF Init, Points
<1> QED BY <1>2, <1>3 DEF IdsInv, Init, Fresh, UniqueIds

LEMMA QuietIds ==
  ASSUME MaxRuns = 1, TypeOK, IdsInv,
         \/ StartRun \/ ReadFrame \/ EndOfVideo \/ Cancel \/ Canceled
         \/ BeginFrame \/ ObjectsDone \/ PointHit \/ UNCHANGED vars
  PROVE  IdsInv'
<1> USE DEF IdsInv
<1>1. pointIds' = pointIds /\ Points' = Points
  BY DEF StartRun, ReadFrame, EndOfVideo, Cancel, Canceled, BeginFrame, ObjectsDone,
         PointHit, NextPoint, members, vars, Points
<1>2. CASE StartRun
  <2>1. runs = 0 /\ runs' = 1
    BY <1>2 DEF StartRun, TypeOK, LocalsOK
  <2>2. trajectories' = trajectories
    BY <1>2, <2>1 DEF StartRun, Fresh
  <2> QED BY <1>1, <2>1, <2>2 DEF Fresh, UniqueIds
<1>3. CASE ~StartRun
  <2>1. trajectories' = trajectories
    BY <1>3 DEF ReadFrame, EndOfVideo, Cancel, Canceled, BeginFrame, ObjectsDone,
                PointHit, result, vars
  <2>2. Fresh'
    BY <1>3 DEF Fresh, ReadFrame, EndOfVideo, Cancel, Canceled, BeginFrame, ObjectsDone,
                PointHit, NextPoint, members, result, locals, vars
  <2> QED BY <1>1, <2>1, <2>2 DEF UniqueIds
<1> QED BY <1>2, <1>3

LEMMA ReportIds ==
  ASSUME TypeOK, IdsInv, ObjectRegistered \/ PointMissed \/ FindResultFails
  PROVE  IdsInv'
<1> USE DEF IdsInv
<1>1. pointIds' = pointIds /\ Points' = Points /\ runs' = runs /\ runs # 0
  BY DEF ObjectRegistered, MovePoint, PointMissed, FindResultFails, NextPoint, Points, Fresh,
         TypeOK, MembersOK
<1>2. \/ UNCHANGED result
      \/ \E i \in Points : \E p \in Position : PushPoint(pointIds[i], p)
  <2>1. CASE ObjectRegistered
    <3>1. currentFrameObjects[obj].centre \in Position
      BY <2>1, CurrentObject DEF ObjectRegistered, MovePoint, TypeOK
    <3> QED BY <2>1, <3>1 DEF ObjectRegistered, MovePoint
  <2>2. ASSUME pIndex \in Points, NEW object \in Entry, RecordMiss(object)
        PROVE  \E i \in Points : \E p \in Position : PushPoint(pointIds[i], p)
    <3> DEFINE p    == trackingPoints[pIndex]
               here == IF Dist[object.point][p] < MaxMoveThreshold
                       THEN [object EXCEPT !.point = ReadBack[p]] ELSE object
    <3>1. here.point \in Position
      BY <2>2, GeometryAssumption DEF Entry, TypeOK, MembersOK, Points
    <3>2. PushPoint(pointIds[pIndex], here.point)
      BY <2>2 DEF RecordMiss
    <3> QED BY <2>2, <3>1, <3>2
  <2>3. CASE PointMissed
    <3>1. frameIndex - 1 \in 0..MaxFrame
      BY <2>3, BoundsAssumption DEF PointMissed, TypeOK, LocalsOK
    <3>2. PICK k \in DOMAIN objectsPerFrame[frameIndex - 1] :
            RecordMiss(objectsPerFrame[frameIndex - 1][k])
      BY <2>3 DEF PointMissed
    <3>3. objectsPerFrame[frameIndex - 1][k] \in Entry
      BY <3>1, <3>2 DEF TypeOK, ResultOK
    <3> QED BY <2>2, <2>3, <3>2, <3>3 DEF PointMissed
  <2>4. CASE FindResultFails
    <3>1. [id: GarbageIds, point: Position] \subseteq Entry
      BY BoundsAssumption DEF Entry
    <3> QED BY <2>2, <2>4, <3>1 DEF FindResultFails
  <2> QED BY <2>1, <2>3, <2>4
<1>3. DOMAIN trajectories' = DOMAIN trajectories
  BY <1>2, PushKnown DEF result
<1> QED BY <1>1, <1>3 DEF Fresh, UniqueIds

\* The size of the map is an id that is not in it yet.
LEMMA NewIdFacts ==
  ASSUME TypeOK, IdsInv
  PROVE  /\ Cardinality(DOMAIN trajectories) \in Nat
         /\ Cardinality(DOMAIN trajectories) \notin DOMAIN trajectories
         /\ Cardinality(DOMAIN trajectories \cup {Cardinality(DOMAIN trajectories)})
              = Cardinality(DOMAIN trajectories) + 1
<1>1. IsFiniteSet(DOMAIN trajectories)
  BY DEF TypeOK, ResultOK
<1>2. Cardinality(DOMAIN trajectories) \in Nat
  BY <1>1, FS_CardinalityType
<1>3. Cardinality(DOMAIN trajectories) \notin DOMAIN trajectories
  BY <1>2 DEF IdsInv
<1> QED BY <1>1, <1>2, <1>3, FS_AddElement

LEMMA AppearedIds ==
  ASSUME TypeOK, IdsInv, ObjectAppeared
  PROVE  /\ IdsInv'
         /\ Cardinality(DOMAIN trajectories') = Cardinality(DOMAIN trajectories) + 1
         /\ {pointIds'[i] : i \in Points'}
              = {pointIds[i] : i \in Points} \cup {Cardinality(DOMAIN trajectories)}
<1> DEFINE newId == Cardinality(DOMAIN trajectories)
           n     == Len(trackingPoints)
<1>1. DOMAIN trajectories' = DOMAIN trajectories \cup {newId}
  BY DEF ObjectAppeared, AddPoint, NewId, SetTrajectory
<1>2. /\ newId \in Nat /\ newId \notin DOMAIN trajectories
      /\ Cardinality(DOMAIN trajectories') = newId + 1
  BY <1>1, NewIdFacts
<1>3. DOMAIN trajectories' = 0..Cardinality(DOMAIN trajectories') - 1
  BY <1>1, <1>2 DEF IdsInv
<1>4. /\ Points = 1..n /\ n \in Nat /\ Points' = 1..n + 1
      /\ \A j \in Points : pointIds'[j] = pointIds[j]
      /\ pointIds'[n + 1] = newId
  <2>1. /\ n \in Nat /\ Len(pointIds) = n
        /\ trackingPoints \in Seq(Position) /\ pointIds \in Seq(Nat)
    BY DEF TypeOK, MembersOK
  <2>2. currentFrameObjects[obj].centre \in Position
    BY CurrentObject DEF ObjectAppeared, AddPoint, NewId, TypeOK
  <2>3. /\ trackingPoints' = Append(trackingPoints, currentFrameObjects[obj].centre)
        /\ pointIds' = Append(pointIds, newId)
    BY DEF ObjectAppeared, AddPoint, NewId
  <2>4. Points' = 1..n + 1
    BY <2>1, <2>2, <2>3, AppendFacts DEF Points
  <2>5. \A j \in 1..n : pointIds'[j] = pointIds[j]
    BY <1>2, <2>1, <2>3, AppendFacts
  <2>6. pointIds'[n + 1] = newId
    BY <1>2, <2>1, <2>3, AppendFacts
  <2> QED BY <2>1, <2>4, <2>5, <2>6 DEF Points
<1>5. \A j \in Points' : j \in Points \/ j = n + 1
  BY <1>4
<1>6. \A j \in Points' : pointIds'[j] \in DOMAIN trajectories'
  BY <1>1, <1>4, <1>5 DEF IdsInv
<1>7. UniqueIds'
  BY <1>2, <1>4, <1>5 DEF UniqueIds, IdsInv
<1>8. Fresh'
  BY DEF Fresh, IdsInv, ObjectAppeared, AddPoint, NewId
<1>9. {pointIds'[i] : i \in Points'} = {pointIds[i] : i \in Points} \cup {newId}
  <2>1. n + 1 \in Points' /\ \A j \in Points : j \in Points'
    BY <1>4
  <2> QED BY <1>4, <1>5, <2>1
<1> QED BY <1>2, <1>3, <1>6, <1>7, <1>8, <1>9 DEF IdsInv

LEMMA CleanUpIds ==
  ASSUME TypeOK, IdsInv, CleanUpPoints
  PROVE  IdsInv' /\ {pointIds'[i] : i \in Points'} \subseteq {pointIds[i] : i \in Points}
<1>1. PICK e \in Listings(Points \ toRemove) :
        /\ trackingPoints' = [j \in DOMAIN e |-> trackingPoints[e[j]]]
        /\ pointIds' = [j \in DOMAIN e |-> pointIds[e[j]]]
  BY DEF CleanUpPoints
<1>2. /\ Points' = DOMAIN e
      /\ \A j \in DOMAIN e : e[j] \in Points /\ pointIds'[j] = pointIds[e[j]]
  BY <1>1, ListingFacts DEF TypeOK, Points
<1>3. \A j, k \in DOMAIN e : e[j] = e[k] => j = k
  <2> SUFFICES ASSUME NEW j \in DOMAIN e, NEW k \in DOMAIN e, j # k PROVE e[j] # e[k]
    OBVIOUS
  <2>1. j \in Nat /\ k \in Nat
    BY ListingFacts DEF TypeOK
  <2>2. e[j] \in Nat /\ e[k] \in Nat
    BY <1>2 DEF Points, TypeOK, MembersOK
  <2>3. e[j] < e[k] \/ e[k] < e[j]
    <3>1. j < k \/ k < j
      BY <2>1
    <3>2. \A a, b \in DOMAIN e : a < b => e[a] < e[b]
      BY DEF Listings
    <3> QED BY <3>1, <3>2
  <2> QED BY <2>2, <2>3
<1>4. UniqueIds'
  BY <1>2, <1>3 DEF UniqueIds, IdsInv
<1>5. trajectories' = trajectories /\ Fresh'
  BY DEF CleanUpPoints, result, IdsInv, Fresh
<1> QED BY <1>2, <1>4, <1>5 DEF IdsInv

LEMMA StepIds ==
  ASSUME MaxRuns = 1, TypeOK, IdsInv, [Next]_vars
  PROVE  IdsInv'
BY QuietIds, ReportIds, AppearedIds, CleanUpIds DEF Next

\* With a tracker that makes one call, no two points share an id, also when
\* detections overlap and the search for a missed object has failed.
THEOREM IdsAreUnique ==
  ASSUME MaxRuns = 1
  PROVE  Spec => [](TypeOK /\ IdsInv /\ UniqueIds)
<1>1. Init => TypeOK /\ IdsInv
  BY InitType, InitIds
<1>2. TypeOK /\ IdsInv /\ [Next]_vars => (TypeOK /\ IdsInv)'
  BY StepType, StepIds
<1>3. IdsInv => UniqueIds
  BY DEF IdsInv
<1> QED BY <1>1, <1>2, <1>3, PTL DEF Spec

\* Only a new object adds a point, and its id is not in the map yet.
LEMMA NoneReused ==
  ASSUME MaxRuns = 1, TypeOK, IdsInv, [Next]_vars, NEW i \in DOMAIN pointIds',
         pointIds'[i] \in DOMAIN trajectories
  PROVE  \E j \in Points : pointIds[j] = pointIds'[i]
<1>1. DOMAIN pointIds = Points
  BY DEF TypeOK, MembersOK, Points
<1>2. CASE ObjectAppeared
  <2>1. Cardinality(DOMAIN trajectories) \notin DOMAIN trajectories
    BY NewIdFacts
  <2>2. {pointIds'[j] : j \in Points'}
          = {pointIds[j] : j \in Points} \cup {Cardinality(DOMAIN trajectories)}
    BY <1>2, AppearedIds
  <2>3. i \in Points'
    BY StepType DEF TypeOK, MembersOK, Points
  <2> QED BY <2>1, <2>2, <2>3
<1>3. CASE CleanUpPoints
  <2>1. {pointIds'[j] : j \in Points'} \subseteq {pointIds[j] : j \in Points}
    BY <1>3, CleanUpIds
  <2>2. i \in Points'
    BY StepType DEF TypeOK, MembersOK, Points
  <2> QED BY <2>1, <2>2
<1>4. CASE pointIds' = pointIds
  BY <1>1, <1>4
<1>5. ObjectAppeared \/ CleanUpPoints \/ pointIds' = pointIds
  BY DEF Next, StartRun, ReadFrame, EndOfVideo, Cancel, Canceled, BeginFrame, ObjectRegistered,
         ObjectsDone, PointHit, PointMissed, FindResultFails, NextPoint, members, vars
<1> QED BY <1>2, <1>3, <1>4, <1>5

\* Within a call the id of a forgotten object never comes back, however often
\* the number of tracked points shrinks.
THEOREM IdsAreNeverReused ==
  ASSUME MaxRuns = 1
  PROVE  Spec => IdsNotReused
<1> DEFINE A == \A i \in DOMAIN pointIds' :
                  pointIds'[i] \in DOMAIN trajectories =>
                    \E j \in Points : pointIds[j] = pointIds'[i]
<1>1. TypeOK /\ IdsInv /\ [Next]_vars => [A]_vars
  BY NoneReused
<1> QED BY <1>1, IdsAreUnique, PTL DEF Spec, IdsNotReused

-----------------------------------------------------------------------------
(* Refinement: every step of the tracker is a step of TrackLog or none.    *)

Log  == [f \in 0..MaxFrame |-> Ids(objectsPerFrame[f])]
Live == {pointIds[i] : i \in Points}

LEMMA LogIsFunction ==
  /\ Log = [f \in 0..MaxFrame |-> Log[f]]
  /\ Log' = [f \in 0..MaxFrame |-> Log'[f]]
BY DEF Log

LEMMA InitPromise == Init => Promise!LogInit
<1> SUFFICES ASSUME Init PROVE Promise!LogInit
  OBVIOUS
<1>1. Cardinality(DOMAIN trajectories) = 0
  BY FS_EmptySet DEF Init
<1>2. \A f \in 0..MaxFrame : Ids(objectsPerFrame[f]) = {}
  BY DEF Init, Ids
<1>3. Live = {}
  BY DEF Init, Points, Live
<1> QED BY <1>1, <1>2, <1>3 DEF Promise!LogInit, Init, Live

\* Reporting an object adds its id to the log of this frame.
LEMMA PushObjectLog ==
  ASSUME TypeOK, InFrame, frameIndex \in 0..MaxFrame, frameIndex' = frameIndex,
         NEW e \in Entry, PushObject(e)
  PROVE  Log' = [Log EXCEPT ![frameIndex] = @ \cup {e.id}]
<1>1. \A f \in 0..MaxFrame : /\ Log[f] = Ids(objectsPerFrame[f])
                           /\ Log'[f] = Ids(objectsPerFrame'[f])
  BY DEF Log, Ids
<1>2. Ids(objectsPerFrame'[frameIndex]) = Ids(objectsPerFrame[frameIndex]) \cup {e.id}
  BY PushObjectIds DEF Now, Ids
<1>3. \A f \in 0..MaxFrame \ {frameIndex} :
        Ids(objectsPerFrame'[f]) = Ids(objectsPerFrame[f])
  BY PushObjectIds
<1>4. \A f \in 0..MaxFrame :
        Log'[f] = IF f = frameIndex THEN Log[f] \cup {e.id} ELSE Log[f]
  BY <1>1, <1>2, <1>3
<1> QED BY <1>4, LogIsFunction

\* Reporting a live object is TrackLog's Report.
LEMMA ReportStep ==
  ASSUME TypeOK, IdsInv, InFrame, frameIndex' = frameIndex,
         pointIds' = pointIds, Points' = Points,
         NEW i \in Points, NEW e \in Entry, e.id = pointIds[i], PushObject(e),
         NEW p \in Position, PushPoint(pointIds[i], p)
  PROVE  Promise!Report(pointIds[i]) /\ pointIds[i] \in Live
<1>1. frameIndex <= MaxFrame /\ frameIndex \in 0..MaxFrame
  BY BoundsAssumption DEF InFrame, TypeOK, LocalsOK
<1>2. DOMAIN trajectories' = DOMAIN trajectories
  BY PushKnown DEF IdsInv
<1>3. Log' = [Log EXCEPT ![frameIndex] = @ \cup {pointIds[i]}]
  BY <1>1, PushObjectLog
<1>4. Live' = Live /\ pointIds[i] \in Live
  BY DEF Live
<1> QED BY <1>1, <1>2, <1>3, <1>4 DEF Promise!Report, Log, Live

LEMMA RegisteredStep ==
  ASSUME TypeOK, IdsInv, ObjectRegistered
  PROVE  \E id \in Live : Promise!Report(id)
<1>1. InFrame /\ frameIndex' = frameIndex /\ pointIds' = pointIds /\ Points' = Points
  BY DEF ObjectRegistered, MovePoint, InFrame, Points, TypeOK, MembersOK
<1>2. currentFrameObjects[obj].centre \in Position
  BY CurrentObject DEF ObjectRegistered, MovePoint, TypeOK
<1>3. PICK i \in Points :
        /\ PushObject([id |-> pointIds[i], point |-> currentFrameObjects[obj].centre])
        /\ PushPoint(pointIds[i], currentFrameObjects[obj].centre)
  BY DEF ObjectRegistered, MovePoint
<1>4. [id |-> pointIds[i], point |-> currentFrameObjects[obj].centre] \in Entry
  BY <1>2 DEF Entry, TypeOK, MembersOK, Points
<1> QED BY <1>1, <1>2, <1>3, <1>4, ReportStep

LEMMA MissedStep ==
  ASSUME TypeOK, IdsInv, PointMissed
  PROVE  \E id \in Live : Promise!Report(id)
<1>1. /\ InFrame /\ frameIndex' = frameIndex /\ pointIds' = pointIds /\ Points' = Points
      /\ pIndex \in Points /\ frameIndex - 1 \in 0..MaxFrame
  BY BoundsAssumption DEF PointMissed, NextPoint, InFrame, Points, TypeOK, LocalsOK
<1>2. PICK k \in DOMAIN objectsPerFrame[frameIndex - 1] :
        /\ IsFound(objectsPerFrame[frameIndex - 1], pointIds[pIndex], k)
        /\ RecordMiss(objectsPerFrame[frameIndex - 1][k])
  BY DEF PointMissed
<1> DEFINE object == objectsPerFrame[frameIndex - 1][k]
           p      == trackingPoints[pIndex]
           here   == IF Dist[object.point][p] < MaxMoveThreshold
                     THEN [object EXCEPT !.point = ReadBack[p]] ELSE object
<1>3. object \in Entry /\ object.id = pointIds[pIndex]
  BY <1>1, <1>2 DEF IsFound, TypeOK, ResultOK
<1>4. here \in Entry /\ here.id = pointIds[pIndex] /\ here.point \in Position
  <2>1. ReadBack[p] \in Position
    BY <1>1, GeometryAssumption DEF TypeOK, MembersOK, Points
  <2> QED BY <1>3, <2>1 DEF Entry
<1>5. PushObject(here) /\ PushPoint(pointIds[pIndex], here.point)
  BY <1>2 DEF RecordMiss
<1> QED BY <1>1, <1>4, <1>5, ReportStep

\* A new object is TrackLog's Issue.
LEMMA AppearedStep ==
  ASSUME TypeOK, IdsInv, ObjectAppeared
  PROVE  Promise!Issue
<1> DEFINE newId == Cardinality(DOMAIN trajectories)
<1>1. InFrame /\ frameIndex <= MaxFrame /\ frameIndex \in 0..MaxFrame /\ frameIndex' = frameIndex
  BY BoundsAssumption DEF ObjectAppeared, AddPoint, NewId, InFrame, TypeOK, LocalsOK
<1>2. newId \in Nat
  BY NewIdFacts
<1>3. Cardinality(DOMAIN trajectories') = newId + 1 /\ Live' = Live \cup {newId}
  BY AppearedIds DEF Live
<1>4. PICK e \in Entry : e.id = newId /\ PushObject(e)
  <2>1. currentFrameObjects[obj].centre \in Position
    BY CurrentObject DEF ObjectAppeared, AddPoint, NewId, TypeOK
  <2>2. [id |-> newId, point |-> currentFrameObjects[obj].centre] \in Entry
    BY <1>2, <2>1 DEF Entry
  <2> QED BY <2>2 DEF ObjectAppeared, AddPoint, NewId
<1>5. Log' = [Log EXCEPT ![frameIndex] = @ \cup {newId}]
  BY <1>1, <1>4, PushObjectLog
<1> QED BY <1>1, <1>2, <1>3, <1>5 DEF Promise!Issue, Log, Live

\* The end of the sweep is TrackLog's EndFrame: every live object has been
\* reported.
LEMMA CleanUpStep ==
  ASSUME TypeOK, IdsInv, FollowInv, CleanUpPoints
  PROVE  Promise!EndFrame
<1>1. /\ InFrame /\ frameIndex <= MaxFrame /\ frameIndex \in 0..MaxFrame
      /\ frameIndex' = frameIndex + 1
  BY BoundsAssumption DEF CleanUpPoints, InFrame, TypeOK, LocalsOK
<1>2. \A i \in Points : i < pIndex
  BY DEF CleanUpPoints, Points, TypeOK, MembersOK
<1>3. Live \subseteq Now
  BY <1>2 DEF CleanUpPoints, FollowInv, Swept, Live
<1>4. Log[frameIndex] = Now
  BY <1>1 DEF Log, Now
<1>5. Live' \in SUBSET Live
  BY CleanUpIds DEF Live
<1>6. Log' = Log /\ trajectories' = trajectories
  BY DEF CleanUpPoints, result, Log
<1> QED BY <1>1, <1>3, <1>4, <1>5, <1>6 DEF Promise!EndFrame, Log, Live

\* Every other step is invisible to TrackLog.
LEMMA QuietStep ==
  ASSUME MaxRuns = 1, TypeOK, IdsInv,
         \/ StartRun \/ ReadFrame \/ EndOfVideo \/ Cancel \/ Canceled
         \/ BeginFrame \/ ObjectsDone \/ PointHit \/ UNCHANGED vars
  PROVE  UNCHANGED Promise!logVars
<1>1. pointIds' = pointIds /\ Points' = Points
  BY DEF StartRun, ReadFrame, EndOfVideo, Cancel, Canceled, BeginFrame, ObjectsDone,
         PointHit, NextPoint, members, vars, Points
<1>2. CASE StartRun
  <2>1. runs = 0
    BY <1>2 DEF StartRun, TypeOK, LocalsOK
  <2>2. UNCHANGED <<frameIndex, trajectories, objectsPerFrame>>
    BY <1>2, <2>1 DEF StartRun, IdsInv, Fresh
  <2> QED BY <1>1, <2>2 DEF Promise!logVars
<1>3. CASE ~StartRun
  <2>1. UNCHANGED <<frameIndex, trajectories, objectsPerFrame>>
    BY <1>3 DEF ReadFrame, EndOfVideo, Cancel, Canceled, BeginFrame, ObjectsDone,
                PointHit, NextPoint, result, locals, vars
  <2> QED BY <1>1, <2>1 DEF Promise!logVars
<1> QED BY <1>2, <1>3

\* On separated detections a tracker that makes one call implements TrackLog:
\* it issues ids in order, reports every live object in every frame and never
\* brings a forgotten one back.
THEOREM TrackerKeepsPromise ==
  ASSUME MaxRuns = 1, Separated
  PROVE  Spec => KeepsPromise
<1> DEFINE I == TypeOK /\ FollowInv /\ IdsInv
<1>1. Init => Promise!LogInit
  BY InitPromise
<1>2. I /\ [Next]_vars => [Promise!LogNext]_(Promise!logVars)
  <2> SUFFICES ASSUME I, [Next]_vars PROVE [Promise!LogNext]_(Promise!logVars)
    OBVIOUS
  <2>1. CASE ObjectRegistered \/ PointMissed
    BY <2>1, RegisteredStep, MissedStep DEF Promise!LogNext, Live
  <2>2. CASE ObjectAppeared
    BY <2>2, AppearedStep DEF Promise!LogNext
  <2>3. CASE CleanUpPoints
    BY <2>3, CleanUpStep DEF Promise!LogNext
  <2>4. CASE FindResultFails
    <3>1. LookupSafe
      BY MissedIsRooted
    <3> QED BY <2>4, <3>1 DEF FindResultFails, LookupSafe
  <2>5. CASE \/ StartRun \/ ReadFrame \/ EndOfVideo \/ Cancel \/ Canceled
             \/ BeginFrame \/ ObjectsDone \/ PointHit \/ UNCHANGED vars
    BY <2>5, QuietStep
  <2> QED BY <2>1, <2>2, <2>3, <2>4, <2>5 DEF Next
<1>3. Spec => []I
  BY FollowCorrect, IdsAreUnique, PTL
<1> QED BY <1>1, <1>2, <1>3, PTL DEF Spec, KeepsPromise, Promise!LogSpec

-----------------------------------------------------------------------------
(* What TrackLog guarantees, the tracker's Result shows.                   *)

PromiseProof == INSTANCE TrackLog_proof WITH
  IdBound <- Nat,
  frame  <- frameIndex,
  issued <- Cardinality(DOMAIN trajectories),
  live   <- {pointIds[i] : i \in Points},
  log    <- [f \in 0..MaxFrame |-> Ids(objectsPerFrame[f])]

\* An object is reported in every frame between two frames it is reported in:
\* neither a missed detection nor a lost point makes a hole, and a forgotten
\* object does not return.
THEOREM ReportsHaveNoHoles ==
  ASSUME MaxRuns = 1, Separated
  PROVE  Spec => []NoHoles
<1>1. Promise!LogInit => PromiseProof!LogInit
  BY DEF Promise!LogInit, PromiseProof!LogInit
<1>2. [Promise!LogNext]_(Promise!logVars) => [PromiseProof!LogNext]_(PromiseProof!logVars)
  BY DEF Promise!LogNext, PromiseProof!LogNext, Promise!logVars, PromiseProof!logVars,
         Promise!Report, PromiseProof!Report, Promise!Issue, PromiseProof!Issue,
         Promise!EndFrame, PromiseProof!EndFrame
<1>3. Spec => PromiseProof!LogSpec
  BY <1>1, <1>2, TrackerKeepsPromise, PTL
     DEF KeepsPromise, Promise!LogSpec, PromiseProof!LogSpec
<1>4. PromiseProof!LogSpec => []PromiseProof!LogInv
  <2>1. PromiseProof!LogBounds
    BY BoundsAssumption DEF PromiseProof!LogBounds
  <2> QED BY <2>1, PromiseProof!LogIsUnbroken
<1>5. PromiseProof!LogInv => NoHoles
  BY DEF PromiseProof!LogInv, PromiseProof!Unbroken, NoHoles
<1> QED BY <1>3, <1>4, <1>5, PTL

-----------------------------------------------------------------------------
(* Together with Born, this leaves no gap in what is still followed.       *)

\* A report takes none back.
LEMMA PushObjectGrows ==
  ASSUME TypeOK, InFrame, NEW e \in Entry, PushObject(e), frameIndex' = frameIndex
  PROVE  /\ \A f \in 0..MaxFrame : Ids(objectsPerFrame[f]) \subseteq Ids(objectsPerFrame'[f])
         /\ frameIndex \in 0..MaxFrame /\ e.id \in Ids(objectsPerFrame'[frameIndex])
<1>1. frameIndex \in 0..MaxFrame
  BY BoundsAssumption DEF InFrame, TypeOK, LocalsOK
<1>2. Ids(objectsPerFrame'[frameIndex]) = Ids(objectsPerFrame[frameIndex]) \cup {e.id}
  BY PushObjectIds DEF Now, Ids
<1>3. \A f \in 0..MaxFrame \ {frameIndex} :
        Ids(objectsPerFrame'[f]) = Ids(objectsPerFrame[f])
  BY PushObjectIds
<1> QED BY <1>1, <1>2, <1>3

\* A point added to a trajectory leaves every beginning where it was.
LEMMA PushPointStart ==
  ASSUME TypeOK, NEW id \in DOMAIN trajectories, NEW p \in Position, PushPoint(id, p)
  PROVE  /\ DOMAIN trajectories' = DOMAIN trajectories
         /\ \A k \in DOMAIN trajectories : trajectories'[k].frameStart = trajectories[k].frameStart
<1>1. trajectories[id] \in Trajectory
  BY DEF TypeOK, ResultOK
<1>2. trajectories' = [k \in DOMAIN trajectories |->
                         IF k = id THEN [trajectories[id] EXCEPT !.points = Append(@, p)]
                                   ELSE trajectories[k]]
  BY DEF PushPoint, SetTrajectory, TrajectoryOf
<1> QED BY <1>1, <1>2 DEF Trajectory

LEMMA ReportBorn ==
  ASSUME TypeOK, Born, IdsInv, InFrame, frameIndex' = frameIndex,
         NEW i \in Points, NEW e \in Entry, PushObject(e),
         NEW p \in Position, PushPoint(pointIds[i], p)
  PROVE  Born'
<1>1. /\ DOMAIN trajectories' = DOMAIN trajectories
      /\ \A k \in DOMAIN trajectories : trajectories'[k].frameStart = trajectories[k].frameStart
  BY PushPointStart DEF IdsInv
<1>2. \A f \in 0..MaxFrame : Ids(objectsPerFrame[f]) \subseteq Ids(objectsPerFrame'[f])
  BY PushObjectGrows
<1>3. ASSUME NEW id \in DOMAIN trajectories
      PROVE  /\ trajectories'[id].frameStart \in 0..MaxFrame
             /\ id \in Ids(objectsPerFrame'[trajectories'[id].frameStart])
  <2>1. /\ trajectories[id].frameStart \in 0..MaxFrame
        /\ id \in Ids(objectsPerFrame[trajectories[id].frameStart])
    BY DEF Born
  <2> QED BY <1>1, <1>2, <2>1
<1> QED BY <1>1, <1>3 DEF Born, Ids

LEMMA RegisteredBorn ==
  ASSUME TypeOK, Born, IdsInv, ObjectRegistered
  PROVE  Born'
<1>1. InFrame /\ frameIndex' = frameIndex
  BY DEF ObjectRegistered, InFrame
<1>2. currentFrameObjects[obj].centre \in Position
  BY CurrentObject DEF ObjectRegistered, TypeOK
<1>3. PICK i \in Points :
        /\ PushObject([id |-> pointIds[i], point |-> currentFrameObjects[obj].centre])
        /\ PushPoint(pointIds[i], currentFrameObjects[obj].centre)
  BY DEF ObjectRegistered
<1>4. [id |-> pointIds[i], point |-> currentFrameObjects[obj].centre] \in Entry
  BY <1>2 DEF Entry, TypeOK, MembersOK, Points
<1> QED BY <1>1, <1>2, <1>3, <1>4, ReportBorn

LEMMA MissedBorn ==
  ASSUME TypeOK, Born, IdsInv, PointMissed \/ FindResultFails
  PROVE  Born'
<1>1. /\ InFrame /\ frameIndex' = frameIndex /\ pIndex \in Points
      /\ frameIndex - 1 \in 0..MaxFrame
  BY BoundsAssumption DEF PointMissed, FindResultFails, NextPoint, InFrame, TypeOK, LocalsOK
<1>2. CASE UNCHANGED result
  BY <1>2 DEF result, Born
<1>3. ASSUME NEW object \in Entry, RecordMiss(object)
      PROVE  Born'
  <2> DEFINE p    == trackingPoints[pIndex]
             here == IF Dist[object.point][p] < MaxMoveThreshold
                     THEN [object EXCEPT !.point = ReadBack[p]] ELSE object
  <2>1. ReadBack[p] \in Position
    BY <1>1, GeometryAssumption DEF TypeOK, MembersOK, Points
  <2>2. here \in Entry /\ here.point \in Position
    BY <2>1 DEF Entry
  <2>3. PushObject(here) /\ PushPoint(pointIds[pIndex], here.point)
    BY <1>3 DEF RecordMiss
  <2> QED BY <1>1, <2>2, <2>3, ReportBorn
<1>4. CASE PointMissed
  <2>1. PICK k \in DOMAIN objectsPerFrame[frameIndex - 1] :
          RecordMiss(objectsPerFrame[frameIndex - 1][k])
    BY <1>4 DEF PointMissed
  <2>2. objectsPerFrame[frameIndex - 1][k] \in Entry
    BY <1>1, <2>1 DEF TypeOK, ResultOK
  <2> QED BY <1>3, <2>1, <2>2
<1>5. CASE FindResultFails
  <2>1. [id: GarbageIds, point: Position] \subseteq Entry
    BY BoundsAssumption DEF Entry
  <2>2. UNCHANGED result \/ \E object \in [id: GarbageIds, point: Position] : RecordMiss(object)
    BY <1>5 DEF FindResultFails
  <2> QED BY <1>2, <1>3, <2>1, <2>2
<1> QED BY <1>4, <1>5

LEMMA AppearedBorn ==
  ASSUME TypeOK, Born, IdsInv, ObjectAppeared
  PROVE  Born'
<1> DEFINE newId  == Cardinality(DOMAIN trajectories)
           centre == currentFrameObjects[obj].centre
           e      == [id |-> newId, point |-> centre]
           t      == [frameStart |-> frameIndex, points |-> <<centre>>]
<1>1. InFrame /\ frameIndex' = frameIndex
  BY DEF ObjectAppeared, InFrame
<1>2. newId \in Nat /\ newId \notin DOMAIN trajectories
  BY NewIdFacts
<1>3. PushObject(e) /\ SetTrajectory(newId, t)
  BY DEF ObjectAppeared, NewId
<1>4. e \in Entry
  <2>1. centre \in Position
    BY CurrentObject DEF ObjectAppeared, TypeOK
  <2> QED BY <1>2, <2>1 DEF Entry
<1>5. /\ \A f \in 0..MaxFrame : Ids(objectsPerFrame[f]) \subseteq Ids(objectsPerFrame'[f])
      /\ frameIndex \in 0..MaxFrame /\ newId \in Ids(objectsPerFrame'[frameIndex])
  BY <1>1, <1>3, <1>4, PushObjectGrows
<1>6. /\ DOMAIN trajectories' = DOMAIN trajectories \cup {newId}
      /\ trajectories'[newId].frameStart = frameIndex
      /\ \A id \in DOMAIN trajectories : trajectories'[id] = trajectories[id]
  BY <1>2, <1>3 DEF SetTrajectory
<1>7. ASSUME NEW id \in DOMAIN trajectories'
      PROVE  /\ trajectories'[id].frameStart \in 0..MaxFrame
             /\ id \in Ids(objectsPerFrame'[trajectories'[id].frameStart])
  <2>1. CASE id = newId
    BY <1>5, <1>6, <2>1
  <2>2. CASE id \in DOMAIN trajectories
    <3>1. /\ trajectories[id].frameStart \in 0..MaxFrame
          /\ id \in Ids(objectsPerFrame[trajectories[id].frameStart])
      BY <2>2 DEF Born
    <3> QED BY <1>5, <1>6, <2>2, <3>1
  <2> QED BY <1>6, <2>1, <2>2
<1> QED BY <1>7 DEF Born, Ids

LEMMA StepBorn ==
  ASSUME TypeOK, Born, IdsInv, [Next]_vars
  PROVE  Born'
<1>1. CASE StartRun
  BY <1>1 DEF StartRun, Born
<1>2. CASE ObjectRegistered
  BY <1>2, RegisteredBorn
<1>3. CASE ObjectAppeared
  BY <1>3, AppearedBorn
<1>4. CASE PointMissed \/ FindResultFails
  BY <1>4, MissedBorn
<1>5. CASE UNCHANGED result
  BY <1>5 DEF result, Born
<1>6. \/ StartRun \/ ObjectRegistered \/ ObjectAppeared \/ PointMissed \/ FindResultFails
      \/ UNCHANGED result
  BY DEF Next, ReadFrame, EndOfVideo, Cancel, Canceled, BeginFrame, ObjectsDone, PointHit,
         CleanUpPoints, vars
<1> QED BY <1>1, <1>2, <1>3, <1>4, <1>5, <1>6

\* On separated detections a tracker that makes one call has reported every
\* object it still follows in each frame since the one it appeared in.
THEOREM FollowedWithoutGap ==
  ASSUME MaxRuns = 1, Separated
  PROVE  Spec => []NoGaps
<1>1. Spec => []Born
  <2>1. Init => Born
    BY DEF Init, Born
  <2>2. TypeOK /\ IdsInv /\ Born /\ [Next]_vars => Born'
    BY StepBorn
  <2> QED BY <2>1, <2>2, IdsAreUnique, PTL DEF Spec
<1>2. TypeOK /\ FollowInv /\ IdsInv /\ NoHoles /\ Born => NoGaps
  <2> SUFFICES ASSUME TypeOK, FollowInv, IdsInv, NoHoles, Born, BetweenFrames, NEW i \in Points,
                      NEW f \in trajectories[pointIds[i]].frameStart..(frameIndex - 1)
               PROVE  pointIds[i] \in Ids(objectsPerFrame[f])
    BY DEF NoGaps
  <2> DEFINE start == trajectories[pointIds[i]].frameStart
  <2>1. start \in 0..MaxFrame /\ pointIds[i] \in Ids(objectsPerFrame[start])
    BY DEF Born, IdsInv
  <2>2. pointIds[i] \in Ids(objectsPerFrame[frameIndex - 1])
    BY DEF FollowInv, KnownBetween, Before
  <2>3. frameIndex - 1 \in 0..MaxFrame
    BY BoundsAssumption DEF TypeOK, LocalsOK
  <2> HIDE DEF start
  <2>4. CASE start < f /\ f < frameIndex - 1
    <3>1. f \in 0..MaxFrame
      BY <2>1, <2>3, <2>4, BoundsAssumption DEF start
    <3> QED BY <2>1, <2>2, <2>3, <2>4, <3>1 DEF NoHoles
  <2>5. CASE f = start \/ f = frameIndex - 1
    BY <2>1, <2>2, <2>5
  <2>6. (start < f /\ f < frameIndex - 1) \/ f = start \/ f = frameIndex - 1
    BY <2>1, <2>3 DEF start
  <2> QED BY <2>4, <2>5, <2>6
<1> QED BY <1>1, <1>2, FollowCorrect, IdsAreUnique, ReportsHaveNoHoles, PTL
(***************************************************************************)
(* Forgetting: on separated detections every detection has a point of its  *)
(* own, what the sweep takes for hit was matched in this very frame, and   *)
(* the miss counters count the frames since.                               *)
(***************************************************************************)

\* A matched point was on no earlier detection's centre, and this detection has
\* a centre of its own.
LEMMA MatchedElsewhere ==
  ASSUME Separated, TypeOK, currentFrameObjects \in DetectionLists,
         obj \in DOMAIN currentFrameObjects, NEW i \in Points,
         IsTrackedPointIndex(currentFrameObjects[obj], i), NEW k \in 1..obj - 1
  PROVE  /\ currentFrameObjects[k].centre # currentFrameObjects[obj].centre
         /\ trackingPoints[i] # currentFrameObjects[k].centre
<1>1. k \in DOMAIN currentFrameObjects /\ k < obj
  BY DEF TypeOK, LocalsOK
<1>2. /\ currentFrameObjects[k].centre # currentFrameObjects[obj].centre
      /\ currentFrameObjects[k].centre \notin currentFrameObjects[obj].region
      /\ Trunc[currentFrameObjects[k].centre] = currentFrameObjects[k].centre
  BY <1>1, CentreFacts
<1>3. Trunc[trackingPoints[i]] \in currentFrameObjects[obj].region
  BY DEF IsTrackedPointIndex, Candidates
<1> QED BY <1>2, <1>3

\* A miss reports one object and adds its point to a trajectory.
LEMMA RecordMissReports ==
  ASSUME TypeOK, pIndex \in Points, NEW object \in Entry, RecordMiss(object)
  PROVE  \E p \in Position : /\ PushPoint(pointIds[pIndex], p)
                             /\ PushObject([id |-> object.id, point |-> p])
<1> DEFINE q    == trackingPoints[pIndex]
           here == IF Dist[object.point][q] < MaxMoveThreshold
                   THEN [object EXCEPT !.point = ReadBack[q]] ELSE object
<1>1. ReadBack[q] \in Position
  BY GeometryAssumption DEF TypeOK, MembersOK, Points
<1>2. here.point \in Position /\ here = [id |-> object.id, point |-> here.point]
  BY <1>1 DEF Entry
<1>3. PushPoint(pointIds[pIndex], here.point) /\ PushObject(here)
  BY DEF RecordMiss
<1> QED BY <1>2, <1>3

LEMMA MissReports ==
  ASSUME TypeOK, PointMissed
  PROVE  \E p \in Position : /\ PushPoint(pointIds[pIndex], p)
                             /\ PushObject([id |-> pointIds[pIndex], point |-> p])
<1>1. frameIndex - 1 \in 0..MaxFrame /\ pIndex \in Points
  BY BoundsAssumption DEF PointMissed, TypeOK, LocalsOK
<1>2. PICK k \in DOMAIN objectsPerFrame[frameIndex - 1] :
        /\ IsFound(objectsPerFrame[frameIndex - 1], pointIds[pIndex], k)
        /\ RecordMiss(objectsPerFrame[frameIndex - 1][k])
  BY DEF PointMissed
<1>3. /\ objectsPerFrame[frameIndex - 1][k] \in Entry
      /\ objectsPerFrame[frameIndex - 1][k].id = pointIds[pIndex]
  BY <1>1, <1>2 DEF IsFound, TypeOK, ResultOK
<1> QED BY <1>1, <1>2, <1>3, RecordMissReports

\* The steps that report an object report it in the frame they are in.
LEMMA ReportingSteps ==
  ASSUME TypeOK, ObjectRegistered \/ ObjectAppeared \/ PointMissed \/ FindResultFails
  PROVE  /\ InFrame /\ frameIndex' = frameIndex
         /\ UNCHANGED result \/ \E e \in Entry : PushObject(e)
<1>1. InFrame /\ frameIndex' = frameIndex
  BY DEF ObjectRegistered, ObjectAppeared, PointMissed, FindResultFails, NextPoint, InFrame
<1>2. CASE ObjectRegistered
  <2>1. PICK i \in Points :
          PushObject([id |-> pointIds[i], point |-> currentFrameObjects[obj].centre])
    BY <1>2 DEF ObjectRegistered
  <2>2. currentFrameObjects[obj].centre \in Position
    BY <1>2, CurrentObject DEF ObjectRegistered, TypeOK
  <2>3. pointIds[i] \in Int
    BY DEF TypeOK, MembersOK, Points
  <2>4. [id |-> pointIds[i], point |-> currentFrameObjects[obj].centre] \in Entry
    BY <2>2, <2>3 DEF Entry
  <2> QED BY <1>1, <2>1, <2>4
<1>3. CASE ObjectAppeared
  <2>1. PushObject([id |-> NewId, point |-> currentFrameObjects[obj].centre])
    BY <1>3 DEF ObjectAppeared
  <2>2. NewId \in Nat
    BY FS_CardinalityType DEF NewId, TypeOK, ResultOK
  <2>3. [id |-> NewId, point |-> currentFrameObjects[obj].centre] \in Entry
    BY <1>3, <2>2, CurrentObject DEF ObjectAppeared, Entry, TypeOK
  <2> QED BY <1>1, <2>1, <2>3
<1>4. CASE PointMissed
  <2>1. PICK p \in Position : PushObject([id |-> pointIds[pIndex], point |-> p])
    BY <1>4, MissReports
  <2>2. [id |-> pointIds[pIndex], point |-> p] \in Entry
    BY <1>4 DEF PointMissed, Entry, TypeOK, MembersOK, Points
  <2> QED BY <1>1, <2>1, <2>2
<1>5. CASE FindResultFails
  <2>1. ASSUME NEW object \in [id: GarbageIds, point: Position], RecordMiss(object)
        PROVE  \E e \in Entry : PushObject(e)
    <3>1. object \in Entry
      BY BoundsAssumption DEF Entry
    <3>2. PICK p \in Position : PushObject([id |-> object.id, point |-> p])
      BY <1>5, <2>1, <3>1, RecordMissReports DEF FindResultFails
    <3>3. [id |-> object.id, point |-> p] \in Entry
      BY <3>1 DEF Entry
    <3> QED BY <3>2, <3>3
  <2> QED BY <1>1, <1>5, <2>1 DEF FindResultFails
<1> QED BY <1>2, <1>3, <1>4, <1>5

\* What a report does to the frames.
LEMMA ReportedInFrame ==
  ASSUME TypeOK, InFrame, NEW e \in Entry, PushObject(e)
  PROVE  /\ frameIndex \in 0..MaxFrame
         /\ \A f \in 0..MaxFrame :
              objectsPerFrame'[f] = IF f = frameIndex THEN Append(objectsPerFrame[f], e)
                                                      ELSE objectsPerFrame[f]
         /\ objectsPerFrame[frameIndex] \in Seq(Entry)
<1>1. frameIndex <= MaxFrame /\ frameIndex \in 0..MaxFrame
  BY BoundsAssumption DEF TypeOK, LocalsOK, InFrame
<1> QED BY <1>1, PushObjectType DEF TypeOK, ResultOK

-----------------------------------------------------------------------------
(* MatchInv is inductive on separated detections, however often the        *)
(* tracker is used.                                                        *)

LEMMA StepAhead ==
  ASSUME TypeOK, NothingAhead, [Next]_vars
  PROVE  NothingAhead'
<1>1. CASE StartRun
  BY <1>1 DEF StartRun, NothingAhead
<1>2. CASE ObjectRegistered \/ ObjectAppeared \/ PointMissed \/ FindResultFails
  <2>1. /\ InFrame /\ frameIndex' = frameIndex
        /\ UNCHANGED result \/ \E e \in Entry : PushObject(e)
    BY <1>2, ReportingSteps
  <2>2. ~BetweenFrames'
    BY <1>2 DEF ObjectRegistered, ObjectAppeared, PointMissed, FindResultFails, BetweenFrames
  <2>3. frameIndex \in Nat
    BY DEF TypeOK, LocalsOK
  <2>4. ASSUME NEW f \in 0..MaxFrame, f > frameIndex
        PROVE  objectsPerFrame'[f] = <<>>
    <3>1. objectsPerFrame[f] = <<>> /\ f # frameIndex
      BY <2>3, <2>4 DEF NothingAhead
    <3>2. CASE UNCHANGED result
      BY <3>1, <3>2 DEF result
    <3>3. ASSUME NEW e \in Entry, PushObject(e)
          PROVE  objectsPerFrame'[f] = <<>>
      BY <2>1, <3>1, <3>3, ReportedInFrame
    <3> QED BY <2>1, <3>2, <3>3
  <2> QED BY <2>1, <2>2, <2>4 DEF NothingAhead
<1>3. CASE CleanUpPoints
  <2>1. frameIndex' = frameIndex + 1 /\ frameIndex \in Nat /\ objectsPerFrame' = objectsPerFrame
    BY <1>3 DEF CleanUpPoints, result, TypeOK, LocalsOK
  <2>2. \A f \in 0..MaxFrame : f > frameIndex' \/ f = frameIndex' => f > frameIndex
    BY <2>1
  <2> QED BY <2>1, <2>2 DEF NothingAhead
<1>4. CASE /\ UNCHANGED <<objectsPerFrame, frameIndex>>
           /\ BetweenFrames' => BetweenFrames
  BY <1>4 DEF NothingAhead
<1>5. \/ StartRun \/ ObjectRegistered \/ ObjectAppeared \/ PointMissed \/ FindResultFails
      \/ CleanUpPoints
      \/ UNCHANGED <<objectsPerFrame, frameIndex>> /\ (BetweenFrames' => BetweenFrames)
  BY DEF Next, ReadFrame, EndOfVideo, Cancel, Canceled, BeginFrame, ObjectsDone, PointHit,
         NextPoint, BetweenFrames, vars, members, result, locals
<1> QED BY <1>1, <1>2, <1>3, <1>4, <1>5

LEMMA RegisteredMatched ==
  ASSUME Separated, TypeOK, MatchInv, ObjectRegistered
  PROVE  Matched'
<1> USE DEF MatchInv
<1> DEFINE o   == currentFrameObjects[obj]
           now == objectsPerFrame[frameIndex]
<1>1. /\ InFrame /\ pc = "assign" /\ pc' = "assign" /\ obj \in Nat /\ obj' = obj + 1
      /\ UNCHANGED <<pointIds, frameIndex, currentFrameObjects>>
  BY DEF ObjectRegistered, InFrame, TypeOK, LocalsOK
<1>2. currentFrameObjects \in DetectionLists /\ obj \in DOMAIN currentFrameObjects
      /\ o.centre \in Position /\ Len(now) = obj - 1
  BY <1>1, CurrentObject DEF Matched, ObjectRegistered, TypeOK
<1>3. PICK i \in Points :
        /\ IsTrackedPointIndex(o, i)
        /\ PushObject([id |-> pointIds[i], point |-> o.centre])
        /\ trackingPoints' = [trackingPoints EXCEPT ![i] = o.centre]
        /\ lastSeen' = [lastSeen EXCEPT ![i] = frameIndex]
  BY DEF ObjectRegistered, MovePoint
<1> DEFINE e == [id |-> pointIds[i], point |-> o.centre]
<1>4. /\ Points' = Points
      /\ \A j \in Points : /\ trackingPoints'[j] = IF j = i THEN o.centre ELSE trackingPoints[j]
                           /\ lastSeen'[j] = IF j = i THEN frameIndex ELSE lastSeen[j]
  BY <1>3 DEF Points, TypeOK, MembersOK
<1>5. /\ objectsPerFrame'[frameIndex] = Append(now, e) /\ now \in Seq(Entry) /\ e \in Entry
  <2>1. e \in Entry
    BY <1>2 DEF Entry, TypeOK, MembersOK, Points
  <2> QED BY <1>1, <1>3, <2>1, ReportedInFrame
<1>6. /\ Len(objectsPerFrame'[frameIndex]) = obj
      /\ \A k \in 1..obj - 1 : objectsPerFrame'[frameIndex][k] = now[k]
      /\ objectsPerFrame'[frameIndex][obj] = e
  BY <1>1, <1>2, <1>5, AppendFacts
<1>7. ASSUME NEW k \in 1..obj
      PROVE  \E j \in Points : /\ trackingPoints'[j] = currentFrameObjects[k].centre
                               /\ pointIds[j] = objectsPerFrame'[frameIndex][k].id
                               /\ lastSeen'[j] = frameIndex
  <2>1. CASE k = obj
    BY <1>4, <1>6, <2>1
  <2>2. CASE k \in 1..obj - 1
    <3>1. PICK j \in Points : /\ trackingPoints[j] = currentFrameObjects[k].centre
                              /\ pointIds[j] = now[k].id
                              /\ lastSeen[j] = frameIndex
      BY <1>1, <2>2 DEF Matched
    <3>2. j # i
      BY <1>2, <1>3, <2>2, <3>1, MatchedElsewhere
    <3> QED BY <1>4, <1>6, <2>2, <3>1, <3>2
  <2> QED BY <1>1, <2>1, <2>2
<1>8. \A k \in 1..obj' - 1 : \E j \in Points' :
         /\ trackingPoints'[j] = currentFrameObjects'[k].centre
         /\ pointIds'[j] = objectsPerFrame'[frameIndex'][k].id
         /\ lastSeen'[j] = frameIndex'
  BY <1>1, <1>4, <1>7
<1>9. obj' - 1 <= Len(objectsPerFrame'[frameIndex']) /\ Len(objectsPerFrame'[frameIndex']) = obj' - 1
  BY <1>1, <1>6
<1> QED BY <1>1, <1>2, <1>8, <1>9 DEF Matched

LEMMA AppearedMatched ==
  ASSUME Separated, TypeOK, MatchInv, ObjectAppeared
  PROVE  Matched'
<1> USE DEF MatchInv
<1> DEFINE o   == currentFrameObjects[obj]
           now == objectsPerFrame[frameIndex]
           n   == Len(trackingPoints)
           e   == [id |-> NewId, point |-> o.centre]
<1>1. /\ InFrame /\ pc = "assign" /\ pc' = "assign" /\ obj \in Nat /\ obj' = obj + 1
      /\ UNCHANGED <<frameIndex, currentFrameObjects>> /\ frameIndex \in Nat
  BY DEF ObjectAppeared, InFrame, TypeOK, LocalsOK
<1>2. currentFrameObjects \in DetectionLists /\ obj \in DOMAIN currentFrameObjects
      /\ o.centre \in Position /\ Len(now) = obj - 1
  BY <1>1, CurrentObject DEF Matched, ObjectAppeared, TypeOK
<1>3. NewId \in Nat /\ e \in Entry
  BY <1>2, FS_CardinalityType DEF NewId, Entry, TypeOK, ResultOK
<1>4. /\ Points = 1..n /\ n \in Nat /\ Points' = 1..n + 1
      /\ \A j \in Points : /\ trackingPoints'[j] = trackingPoints[j]
                           /\ pointIds'[j] = pointIds[j]
                           /\ lastSeen'[j] = lastSeen[j]
      /\ trackingPoints'[n + 1] = o.centre /\ pointIds'[n + 1] = NewId
      /\ lastSeen'[n + 1] = frameIndex
  <2>1. /\ n \in Nat /\ Len(pointIds) = n /\ Len(lastSeen) = n
        /\ trackingPoints \in Seq(Position) /\ pointIds \in Seq(Nat) /\ lastSeen \in Seq(Nat)
    BY DEF TypeOK, MembersOK
  <2>2. /\ trackingPoints' = Append(trackingPoints, o.centre)
        /\ pointIds' = Append(pointIds, NewId)
        /\ lastSeen' = Append(lastSeen, frameIndex)
    BY DEF ObjectAppeared, AddPoint
  <2> QED BY <1>1, <1>2, <1>3, <2>1, <2>2, AppendFacts DEF Points
<1>5. objectsPerFrame'[frameIndex] = Append(now, e) /\ now \in Seq(Entry)
  BY <1>1, <1>3, ReportedInFrame DEF ObjectAppeared
<1>6. /\ Len(objectsPerFrame'[frameIndex]) = obj
      /\ \A k \in 1..obj - 1 : objectsPerFrame'[frameIndex][k] = now[k]
      /\ objectsPerFrame'[frameIndex][obj] = e
  BY <1>1, <1>2, <1>3, <1>5, AppendFacts
<1>7. ASSUME NEW k \in 1..obj
      PROVE  \E j \in Points' : /\ trackingPoints'[j] = currentFrameObjects[k].centre
                                /\ pointIds'[j] = objectsPerFrame'[frameIndex][k].id
                                /\ lastSeen'[j] = frameIndex
  <2>1. CASE k = obj
    <3>1. n + 1 \in Points'
      BY <1>4
    <3> QED BY <1>4, <1>6, <2>1, <3>1
  <2>2. CASE k \in 1..obj - 1
    <3>1. PICK j \in Points : /\ trackingPoints[j] = currentFrameObjects[k].centre
                              /\ pointIds[j] = now[k].id
                              /\ lastSeen[j] = frameIndex
      BY <1>1, <2>2 DEF Matched
    <3>2. j \in Points'
      BY <1>4
    <3> QED BY <1>4, <1>6, <2>2, <3>1, <3>2
  <2> QED BY <1>1, <2>1, <2>2
<1> QED BY <1>1, <1>2, <1>6, <1>7 DEF Matched

\* The sweep leaves the matched points alone and adds reports behind theirs.
LEMMA SweepMatched ==
  ASSUME TypeOK, MatchInv, PointHit \/ PointMissed \/ FindResultFails
  PROVE  Matched'
<1> USE DEF MatchInv
<1> DEFINE now == objectsPerFrame[frameIndex]
<1>1. /\ pc = "sweep" /\ InFrame /\ pc' \in {"sweep", "crashed"}
      /\ UNCHANGED <<trackingPoints, pointIds, lastSeen, frameIndex, currentFrameObjects, obj>>
  BY DEF PointHit, PointMissed, FindResultFails, NextPoint, InFrame
<1>2. Points' = Points
  BY <1>1 DEF Points
<1>3. frameIndex \in 0..MaxFrame /\ now \in Seq(Entry) /\ obj \in Nat
  BY <1>1, BoundsAssumption DEF TypeOK, LocalsOK, ResultOK
<1>4. obj - 1 <= Len(objectsPerFrame'[frameIndex])
      /\ \A k \in 1..obj - 1 : objectsPerFrame'[frameIndex][k] = now[k]
  <2>1. obj - 1 <= Len(now)
    BY <1>1 DEF Matched
  <2>2. CASE UNCHANGED result
    BY <2>1, <2>2 DEF result
  <2>3. ASSUME NEW e \in Entry, PushObject(e)
        PROVE  <1>4!:
    <3>1. objectsPerFrame'[frameIndex] = Append(now, e)
      BY <1>1, <2>3, ReportedInFrame
    <3>2. Len(Append(now, e)) = Len(now) + 1 /\ \A k \in 1..Len(now) : Append(now, e)[k] = now[k]
      BY <1>3, AppendFacts
    <3>3. \A k \in 1..obj - 1 : k \in 1..Len(now)
      BY <1>3, <2>1
    <3> QED BY <1>3, <2>1, <3>1, <3>2, <3>3
  <2>4. UNCHANGED result \/ \E e \in Entry : PushObject(e)
    BY ReportingSteps DEF PointHit
  <2> QED BY <2>2, <2>3, <2>4
<1> QED BY <1>1, <1>2, <1>4 DEF Matched, InFrame

LEMMA StepMatched ==
  ASSUME Separated, TypeOK, MatchInv, [Next]_vars
  PROVE  Matched'
<1>1. CASE BeginFrame
  <2>1. /\ frameIndex \in 0..MaxFrame /\ BetweenFrames /\ pc' = "assign" /\ obj' = 1
        /\ currentFrameObjects' \in DetectionLists
        /\ UNCHANGED <<objectsPerFrame, frameIndex>>
    BY <1>1, BoundsAssumption DEF BeginFrame, BetweenFrames, result, TypeOK, LocalsOK
  <2>2. objectsPerFrame[frameIndex] = <<>>
    BY <2>1 DEF MatchInv, NothingAhead
  <2> QED BY <2>1, <2>2 DEF Matched
<1>2. CASE ObjectRegistered
  BY <1>2, RegisteredMatched
<1>3. CASE ObjectAppeared
  BY <1>3, AppearedMatched
<1>4. CASE ObjectsDone
  BY <1>4 DEF ObjectsDone, MatchInv, Matched, InFrame, Points, members, result
<1>5. CASE PointHit \/ PointMissed \/ FindResultFails
  BY <1>5, SweepMatched
<1>6. CASE StartRun \/ ReadFrame \/ EndOfVideo \/ Canceled \/ CleanUpPoints
  BY <1>6 DEF StartRun, ReadFrame, EndOfVideo, Canceled, CleanUpPoints, Matched, InFrame
<1>7. CASE Cancel \/ UNCHANGED vars
  BY <1>7 DEF Cancel, vars, members, result, locals, MatchInv, Matched, InFrame, Points
<1> QED BY <1>1, <1>2, <1>3, <1>4, <1>5, <1>6, <1>7 DEF Next

LEMMA MatchCorrect ==
  ASSUME Separated
  PROVE  Spec => [](TypeOK /\ MatchInv)
<1>1. Init => TypeOK /\ MatchInv
  <2>1. Init => MatchInv
    BY DEF Init, MatchInv, NothingAhead, Matched, InFrame
  <2> QED BY <2>1, InitType
<1>2. TypeOK /\ MatchInv /\ [Next]_vars => (TypeOK /\ MatchInv)'
  BY StepType, StepAhead, StepMatched DEF MatchInv
<1> QED BY <1>1, <1>2, PTL DEF Spec

\* When the sweep begins, each detection of the frame has a point at its centre
\* that was matched in this frame, under the id the detection was reported with:
\* no two detections of a frame were given to one object.
THEOREM DetectionsAreCovered ==
  ASSUME Separated
  PROVE  Spec => []DetectionsCovered
<1>1. TypeOK /\ MatchInv => DetectionsCovered
  <2> SUFFICES ASSUME TypeOK, MatchInv, pc = "sweep"
               PROVE  DetectionsCovered
    BY DEF DetectionsCovered
  <2>1. \A k \in DOMAIN currentFrameObjects : k \in 1..obj - 1
    BY DEF MatchInv, Matched, InFrame, TypeOK, LocalsOK
  <2> QED BY <2>1 DEF DetectionsCovered, MatchInv, Matched, InFrame
<1> QED BY <1>1, MatchCorrect, PTL

-----------------------------------------------------------------------------
(* What the sweep reports a second time.                                   *)

\* A matched point stands on its detection; no other point has its id.
LEMMA RegisteredStanding ==
  ASSUME TypeOK, IdsInv, Standing, ObjectRegistered
  PROVE  Standing'
<1> DEFINE o == currentFrameObjects[obj]
<1>1. /\ InFrame /\ pc = "assign" /\ pc' = "assign" /\ obj \in Nat \ {0} /\ obj' = obj + 1
      /\ UNCHANGED <<pointIds, frameIndex, currentFrameObjects>> /\ o.centre \in Position
  BY CurrentObject DEF ObjectRegistered, InFrame, TypeOK, LocalsOK
<1>2. PICK i \in Points :
        /\ PushObject([id |-> pointIds[i], point |-> o.centre])
        /\ trackingPoints' = [trackingPoints EXCEPT ![i] = o.centre]
  BY DEF ObjectRegistered, MovePoint
<1>3. /\ Points' = Points
      /\ \A j \in Points : trackingPoints'[j] = IF j = i THEN o.centre ELSE trackingPoints[j]
  BY <1>2 DEF Points, TypeOK, MembersOK
<1>4. Now' = Now \cup {pointIds[i]}
  <2>1. [id |-> pointIds[i], point |-> o.centre] \in Entry
    BY <1>1 DEF Entry, TypeOK, MembersOK, Points
  <2> QED BY <1>1, <1>2, <2>1, PushObjectIds
<1>5. ASSUME NEW j \in Points, pointIds[j] \in Now'
      PROVE  \E k \in 1..obj : trackingPoints'[j] = currentFrameObjects[k].centre
  <2>1. CASE j = i
    BY <1>1, <1>3, <2>1
  <2>2. CASE j # i
    <3>1. pointIds[j] \in Now
      BY <1>4, <1>5, <2>2 DEF IdsInv, UniqueIds
    <3>2. PICK k \in 1..obj - 1 : trackingPoints[j] = currentFrameObjects[k].centre
      BY <1>1, <3>1 DEF Standing
    <3> QED BY <1>1, <1>3, <2>2, <3>2
  <2> QED BY <2>1, <2>2
<1> QED BY <1>1, <1>3, <1>5 DEF Standing

\* A new point stands on its detection; its id was in no report.
LEMMA AppearedStanding ==
  ASSUME TypeOK, IdsInv, Standing, ObjectAppeared
  PROVE  Standing'
<1> DEFINE o == currentFrameObjects[obj]
           n == Len(trackingPoints)
<1>1. /\ InFrame /\ pc = "assign" /\ pc' = "assign" /\ obj \in Nat \ {0} /\ obj' = obj + 1
      /\ UNCHANGED <<frameIndex, currentFrameObjects>> /\ o.centre \in Position
  BY CurrentObject DEF ObjectAppeared, InFrame, TypeOK, LocalsOK
<1>2. NewId \in Nat /\ NewId \notin DOMAIN trajectories
  BY NewIdFacts DEF NewId
<1>3. /\ Points = 1..n /\ n \in Nat /\ Points' = 1..n + 1
      /\ \A j \in Points : trackingPoints'[j] = trackingPoints[j] /\ pointIds'[j] = pointIds[j]
      /\ trackingPoints'[n + 1] = o.centre
  <2>1. /\ n \in Nat /\ Len(pointIds) = n
        /\ trackingPoints \in Seq(Position) /\ pointIds \in Seq(Nat)
    BY DEF TypeOK, MembersOK
  <2>2. trackingPoints' = Append(trackingPoints, o.centre) /\ pointIds' = Append(pointIds, NewId)
    BY DEF ObjectAppeared, AddPoint
  <2> QED BY <1>1, <1>2, <2>1, <2>2, AppendFacts DEF Points
<1>4. Now' = Now \cup {NewId}
  <2>1. [id |-> NewId, point |-> o.centre] \in Entry
    BY <1>1, <1>2 DEF Entry
  <2>2. PushObject([id |-> NewId, point |-> o.centre])
    BY DEF ObjectAppeared
  <2> QED BY <1>1, <2>1, <2>2, PushObjectIds
<1>5. ASSUME NEW j \in Points', pointIds'[j] \in Now'
      PROVE  \E k \in 1..obj : trackingPoints'[j] = currentFrameObjects[k].centre
  <2>1. CASE j = n + 1
    BY <1>1, <1>3, <2>1
  <2>2. CASE j \in Points
    <3>1. pointIds[j] \in Now
      BY <1>2, <1>3, <1>4, <1>5, <2>2 DEF IdsInv
    <3>2. PICK k \in 1..obj - 1 : trackingPoints[j] = currentFrameObjects[k].centre
      BY <1>1, <2>2, <3>1 DEF Standing
    <3> QED BY <1>1, <1>3, <2>2, <3>2
  <2> QED BY <1>3, <2>1, <2>2
<1> QED BY <1>1, <1>5 DEF Standing

\* A pass of the sweep reports the id of the point it leaves behind, or nothing.
LEMMA SweepStanding ==
  ASSUME TypeOK, IdsInv, Standing, PointHit \/ PointMissed
  PROVE  Standing'
<1>1. /\ pc = "sweep" /\ pc' = "sweep" /\ InFrame /\ pIndex \in Points /\ pIndex' = pIndex + 1
      /\ UNCHANGED <<trackingPoints, pointIds, frameIndex, currentFrameObjects, obj>>
      /\ Points \subseteq Int /\ Points' = Points /\ pointIds[pIndex] \in Nat
  BY DEF PointHit, PointMissed, NextPoint, InFrame, TypeOK, MembersOK, Points
<1>2. Now' \subseteq Now \cup {pointIds[pIndex]}
  <2>1. CASE PointHit
    BY <1>1, <2>1 DEF PointHit, result, Now
  <2>2. CASE PointMissed
    <3>1. PICK p \in Position : PushObject([id |-> pointIds[pIndex], point |-> p])
      BY <2>2, MissReports
    <3>2. [id |-> pointIds[pIndex], point |-> p] \in Entry
      BY <1>1 DEF Entry
    <3> QED BY <1>1, <3>1, <3>2, PushObjectIds
  <2> QED BY <2>1, <2>2
<1>3. ASSUME NEW j \in Points, pointIds[j] \in Now', pIndex + 1 <= j
      PROVE  \E k \in 1..obj - 1 : trackingPoints[j] = currentFrameObjects[k].centre
  <2>1. j # pIndex /\ pIndex <= j
    BY <1>1, <1>3
  <2>2. pointIds[j] \in Now
    BY <1>1, <1>2, <1>3, <2>1 DEF IdsInv, UniqueIds
  <2> QED BY <1>1, <2>1, <2>2 DEF Standing
<1> QED BY <1>1, <1>3 DEF Standing

LEMMA StepStanding ==
  ASSUME TypeOK, IdsInv, NothingAhead, LookupSafe, Standing, [Next]_vars
  PROVE  Standing'
<1>1. CASE BeginFrame
  <2>1. /\ frameIndex \in 0..MaxFrame /\ BetweenFrames
        /\ UNCHANGED <<objectsPerFrame, frameIndex>>
    BY <1>1, BoundsAssumption DEF BeginFrame, BetweenFrames, result, TypeOK, LocalsOK
  <2>2. objectsPerFrame[frameIndex] = <<>>
    BY <2>1 DEF NothingAhead
  <2>3. Now' = {}
    BY <2>1, <2>2 DEF Now, Ids
  <2> QED BY <2>3 DEF Standing
<1>2. CASE ObjectRegistered
  BY <1>2, RegisteredStanding
<1>3. CASE ObjectAppeared
  BY <1>3, AppearedStanding
<1>4. CASE ObjectsDone
  BY <1>4 DEF ObjectsDone, Standing, InFrame, Now, Points, members, result
<1>5. CASE PointHit \/ PointMissed
  BY <1>5, SweepStanding
<1>6. CASE FindResultFails
  BY <1>6 DEF FindResultFails, LookupSafe
<1>7. CASE StartRun \/ ReadFrame \/ EndOfVideo \/ Canceled \/ CleanUpPoints
  BY <1>7 DEF StartRun, ReadFrame, EndOfVideo, Canceled, CleanUpPoints, Standing, InFrame
<1>8. CASE Cancel \/ UNCHANGED vars
  BY <1>8 DEF Cancel, vars, members, result, locals, Standing, InFrame, Now, Points
<1> QED BY <1>1, <1>2, <1>3, <1>4, <1>5, <1>6, <1>7, <1>8 DEF Next

\* A matched point is missed only when another point stands where it does.
LEMMA MissedOnCentre ==
  ASSUME Separated, TypeOK, FollowInv, Standing
  PROVE  TwiceOnlyIfCoinciding
<1> SUFFICES ASSUME pc = "sweep", pIndex \in Points, ~Hit(pIndex), pointIds[pIndex] \in Now
             PROVE  \E j \in Points \ {pIndex} : trackingPoints[j] = trackingPoints[pIndex]
  BY DEF TwiceOnlyIfCoinciding, Now
<1>1. PICK k \in 1..obj - 1 : trackingPoints[pIndex] = currentFrameObjects[k].centre
  BY DEF Standing, InFrame, TypeOK, LocalsOK
<1>2. currentFrameObjects \in DetectionLists /\ k \in DOMAIN currentFrameObjects
  BY DEF FollowInv, Covered, InFrame, TypeOK, LocalsOK
<1> DEFINE c == currentFrameObjects[k].centre
<1>3. c \in Position /\ Round[c] \in currentFrameObjects[k].region
  BY <1>2, CentreFacts
<1>4. PICK j \in Points \ {pIndex} : ~(Dist[c][c] < Dist[trackingPoints[j]][c])
  BY <1>1, <1>2, <1>3 DEF Hit
<1>5. trackingPoints[j] \in Position
  BY DEF TypeOK, MembersOK, Points
<1> HIDE DEF c
<1>6. trackingPoints[j] = c
  <2>1. Dist[c][c] = 0 /\ Dist[trackingPoints[j]][c] \in Nat
    BY <1>3, <1>5, GeometryAssumption
  <2> QED BY <1>3, <1>4, <1>5, <2>1, GeometryAssumption
<1> QED BY <1>1, <1>6 DEF c

\* The sweep adds a second report of an object to a frame only where two points
\* have come to stand on one spot, the centre of the object's detection.
THEOREM SecondReportNeedsTwoPoints ==
  ASSUME MaxRuns = 1, Separated
  PROVE  Spec => []TwiceOnlyIfCoinciding
<1>1. Init => Standing
  BY DEF Init, Standing, InFrame
<1>2. TypeOK /\ IdsInv /\ MatchInv /\ LookupSafe /\ Standing /\ [Next]_vars => Standing'
  BY StepStanding DEF MatchInv
<1>3. TypeOK /\ FollowInv /\ Standing => TwiceOnlyIfCoinciding
  BY MissedOnCentre
<1> QED BY <1>1, <1>2, <1>3, IdsAreUnique, MatchCorrect, FollowCorrect, LookupIsSafe, PTL DEF Spec

-----------------------------------------------------------------------------
(* The miss counters.                                                      *)

\* A point the sweep takes for hit was matched in this frame: the detection that
\* hits it has a point on its centre, and no point is strictly nearer than that.
LEMMA HitWasMatched ==
  ASSUME Separated, TypeOK, MatchInv, pc = "sweep", pIndex \in Points, Hit(pIndex)
  PROVE  lastSeen[pIndex] = frameIndex
<1>1. PICK k \in DOMAIN currentFrameObjects :
        \A j \in Points \ {pIndex} :
          Dist[trackingPoints[pIndex]][currentFrameObjects[k].centre]
            < Dist[trackingPoints[j]][currentFrameObjects[k].centre]
  BY DEF Hit
<1> DEFINE c == currentFrameObjects[k].centre
<1>2. currentFrameObjects \in DetectionLists /\ k \in 1..obj - 1
  BY DEF MatchInv, Matched, InFrame, TypeOK, LocalsOK
<1>3. PICK i \in Points : trackingPoints[i] = c /\ lastSeen[i] = frameIndex
  BY <1>2 DEF MatchInv, Matched, InFrame
<1>4. c \in Position /\ trackingPoints[pIndex] \in Position
  BY <1>2, CentreFacts DEF TypeOK, MembersOK, Points
<1>5. Dist[c][c] = 0 /\ Dist[trackingPoints[pIndex]][c] \in Nat
  BY <1>4, GeometryAssumption
<1>6. i = pIndex
  BY <1>1, <1>3, <1>5
<1> QED BY <1>3, <1>6

\* The frame a call is at, and what the counters of a point range over.
LEMMA CounterTypes ==
  ASSUME TypeOK
  PROVE  /\ frameIndex \in Nat
         /\ \A i \in Points : missCounter[i] \in Nat /\ lastSeen[i] \in Nat
<1>1. frameIndex \in Nat
  BY DEF TypeOK, LocalsOK
<1>2. /\ missCounter \in Seq(Nat) /\ lastSeen \in Seq(Nat) /\ trackingPoints \in Seq(Position)
      /\ Len(missCounter) = Len(trackingPoints) /\ Len(lastSeen) = Len(trackingPoints)
  BY DEF TypeOK, MembersOK
<1>3. Points = 1..Len(missCounter) /\ Points = 1..Len(lastSeen)
  BY <1>2 DEF Points
<1>4. \A s \in Seq(Nat) : \A i \in 1..Len(s) : s[i] \in Nat
  OBVIOUS
<1> QED BY <1>1, <1>2, <1>3, <1>4

\* What a step other than a new call does to the counter of each point there is
\* after it: the point was matched, or nothing happened to it, or the sweep
\* passed it.
LEMMA CounterSteps ==
  ASSUME TypeOK, [Next]_vars, ~StartRun, NEW j \in Points'
  PROVE  \/ /\ missCounter'[j] = 0 /\ lastSeen'[j] = frameIndex
            /\ CountedTo(j)' = frameIndex - 1
         \/ \E i \in Points :
              /\ lastSeen'[j] = lastSeen[i]
              /\ \/ missCounter'[j] = missCounter[i] /\ CountedTo(j)' = CountedTo(i)
                 \/ missCounter'[j] = missCounter[i] + 1 /\ CountedTo(j)' = CountedTo(i) + 1
                 \/ /\ missCounter'[j] = missCounter[i] /\ CountedTo(j)' = CountedTo(i) + 1
                    /\ PointHit /\ i = pIndex
<1> DEFINE n == Len(trackingPoints)
<1>1. /\ n \in Nat /\ Points = 1..n /\ frameIndex \in Nat /\ pIndex \in Nat
      /\ missCounter \in Seq(Nat) /\ Len(missCounter) = n
      /\ lastSeen \in Seq(Nat) /\ Len(lastSeen) = n
      /\ trackingPoints \in Seq(Position)
  BY DEF TypeOK, MembersOK, LocalsOK, Points
<1>2. CASE /\ Points' = Points
           /\ UNCHANGED <<missCounter, lastSeen>>
           /\ CountedTo(j)' = CountedTo(j)
  BY <1>2
<1>3. CASE ReadFrame \/ EndOfVideo \/ Canceled \/ Cancel \/ BeginFrame \/ UNCHANGED vars
  <2>1. UNCHANGED <<missCounter, lastSeen, frameIndex>> /\ Points' = Points
    BY <1>1, <1>3 DEF ReadFrame, EndOfVideo, Canceled, Cancel, BeginFrame, vars, members,
                      locals, Points
  <2>2. CountedTo(j)' = CountedTo(j)
    BY <1>3, <2>1 DEF ReadFrame, EndOfVideo, Canceled, Cancel, BeginFrame, vars, locals,
                      CountedTo
  <2> QED BY <1>2, <2>1, <2>2
<1>4. CASE ObjectsDone
  <2>1. CountedTo(j)' = CountedTo(j)
    BY <1>1, <1>4 DEF ObjectsDone, CountedTo, Points, members
  <2> QED BY <1>2, <1>4, <2>1 DEF ObjectsDone, members, Points
<1>5. CASE ObjectRegistered
  <2>1. PICK i \in Points : MovePoint(i, currentFrameObjects[obj].centre)
    BY <1>5 DEF ObjectRegistered
  <2>2. /\ Points' = Points /\ CountedTo(j)' = frameIndex - 1 /\ CountedTo(j) = frameIndex - 1
    BY <1>5, <2>1 DEF ObjectRegistered, MovePoint, CountedTo, Points
  <2>3. CASE j = i
    BY <1>1, <2>1, <2>2, <2>3 DEF MovePoint
  <2>4. CASE j # i
    BY <1>1, <2>1, <2>2, <2>4 DEF MovePoint
  <2> QED BY <2>3, <2>4
<1>6. CASE ObjectAppeared
  <2>1. CountedTo(j)' = frameIndex - 1 /\ \A i \in Points : CountedTo(i) = frameIndex - 1
    BY <1>6 DEF ObjectAppeared, CountedTo
  <2>2. /\ trackingPoints' = Append(trackingPoints, currentFrameObjects[obj].centre)
        /\ missCounter' = Append(missCounter, 0)
        /\ lastSeen' = Append(lastSeen, frameIndex)
    BY <1>6 DEF ObjectAppeared, AddPoint
  <2>3. /\ \A i \in 1..n : missCounter'[i] = missCounter[i] /\ lastSeen'[i] = lastSeen[i]
        /\ missCounter'[n + 1] = 0 /\ lastSeen'[n + 1] = frameIndex
    <3>1. (\A i \in 1..n : missCounter'[i] = missCounter[i]) /\ missCounter'[n + 1] = 0
      BY <1>1, <2>2, AppendFacts
    <3>2. (\A i \in 1..n : lastSeen'[i] = lastSeen[i]) /\ lastSeen'[n + 1] = frameIndex
      BY <1>1, <2>2, AppendFacts
    <3> QED BY <3>1, <3>2
  <2>4. j \in 1..n \/ j = n + 1
    <3>1. currentFrameObjects[obj].centre \in Position
      BY <1>6, CurrentObject DEF ObjectAppeared, TypeOK
    <3>2. Points' = 1..n + 1
      BY <1>1, <2>2, <3>1, AppendFacts DEF Points
    <3> QED BY <1>1, <3>2
  <2> QED BY <1>1, <2>1, <2>3, <2>4
<1>7. CASE PointHit \/ PointMissed \/ FindResultFails
  <2>1. pc = "sweep" /\ pIndex \in Points /\ pc' \in {"sweep", "crashed"}
    BY <1>7 DEF PointHit, PointMissed, FindResultFails
  <2>2. \/ PointHit /\ NextPoint(missCounter[pIndex])
        \/ NextPoint(missCounter[pIndex] + 1)
    BY <1>7 DEF PointHit, PointMissed, FindResultFails
  <2>3. Points' = Points /\ lastSeen' = lastSeen /\ pIndex' = pIndex + 1
        /\ frameIndex' = frameIndex
    BY <2>2 DEF NextPoint, Points
  <2>4. \A misses \in Nat : NextPoint(misses) =>
          missCounter'[j] = IF j = pIndex THEN misses ELSE missCounter[j]
    BY <1>1, <2>1, <2>3 DEF NextPoint
  <2>5. missCounter[pIndex] \in Nat
    BY <1>1, <2>1
  <2>6. CASE j # pIndex
    <3>1. CountedTo(j)' = CountedTo(j)
      BY <1>1, <2>1, <2>3, <2>6 DEF CountedTo
    <3> QED BY <2>2, <2>3, <2>4, <2>5, <2>6, <3>1
  <2>7. CASE j = pIndex
    <3>1. CountedTo(j)' = CountedTo(j) + 1
      BY <1>1, <2>1, <2>3, <2>7 DEF CountedTo
    <3>2. \/ PointHit /\ missCounter'[j] = missCounter[j]
          \/ missCounter'[j] = missCounter[j] + 1
      BY <2>2, <2>4, <2>5, <2>7
    <3> QED BY <2>1, <2>3, <2>7, <3>1, <3>2
  <2> QED BY <2>6, <2>7
<1>8. CASE CleanUpPoints
  <2>1. PICK e \in Listings(Points \ toRemove) :
          /\ trackingPoints' = [l \in DOMAIN e |-> trackingPoints[e[l]]]
          /\ missCounter' = [l \in DOMAIN e |-> missCounter[e[l]]]
          /\ lastSeen' = [l \in DOMAIN e |-> lastSeen[e[l]]]
    BY <1>8 DEF CleanUpPoints
  <2>2. j \in DOMAIN e /\ e[j] \in Points
    BY <2>1, ListingFacts DEF TypeOK, Points
  <2>3. CountedTo(j)' = frameIndex /\ CountedTo(e[j]) = frameIndex
    BY <1>1, <1>8, <2>2 DEF CleanUpPoints, CountedTo
  <2> QED BY <2>1, <2>2, <2>3
<1> QED BY <1>3, <1>4, <1>5, <1>6, <1>7, <1>8 DEF Next

\* A counter keeps up with the frames: a step that counts a frame counts a miss
\* as well, unless the point is hit, and then it was matched in this frame.
LEMMA StepCounted ==
  ASSUME Separated, TypeOK, MatchInv, MissesCounted, [Next]_vars
  PROVE  MissesCounted'
<1> SUFFICES ASSUME NEW j \in Points'
             PROVE  CountedTo(j)' - lastSeen'[j] <= missCounter'[j]
  BY DEF MissesCounted
<1>1. CASE StartRun
  <2>1. Points' = Points /\ CountedTo(j)' = 0 /\ UNCHANGED <<missCounter, lastSeen>>
    BY <1>1 DEF StartRun, CountedTo, Points, members
  <2>2. missCounter[j] \in Nat /\ lastSeen[j] \in Nat
    BY <2>1, CounterTypes
  <2> QED BY <2>1, <2>2
<1>2. CASE ~StartRun
  <2>1. frameIndex \in Nat
    BY DEF TypeOK, LocalsOK
  <2>2. \A i \in Points : /\ missCounter[i] \in Nat /\ lastSeen[i] \in Nat
                          /\ CountedTo(i) \in Int
                          /\ CountedTo(i) - lastSeen[i] <= missCounter[i]
    <3>1. \A i \in Points : CountedTo(i) \in Int
      BY <2>1 DEF CountedTo
    <3> QED BY <3>1, CounterTypes DEF MissesCounted
  <2>3. PointHit => lastSeen[pIndex] = frameIndex /\ CountedTo(pIndex) = frameIndex - 1
    BY HitWasMatched DEF PointHit, CountedTo, TypeOK, LocalsOK
  <2> QED BY <1>2, <2>1, <2>2, <2>3, CounterSteps
<1> QED BY <1>1, <1>2

\* A counter never gets more than a frame ahead.
LEMMA StepDeserved ==
  ASSUME MaxRuns = 1, TypeOK, Fresh, MissesDeserved, [Next]_vars
  PROVE  MissesDeserved'
<1> SUFFICES ASSUME NEW j \in Points'
             PROVE  missCounter'[j] <= CountedTo(j)' + 1 - lastSeen'[j]
  BY DEF MissesDeserved
<1>1. CASE StartRun
  <2>1. Points' = {}
    BY <1>1 DEF StartRun, Points, members, Fresh, TypeOK, LocalsOK
  <2> QED BY <2>1
<1>2. CASE ~StartRun
  <2>1. frameIndex \in Nat
    BY DEF TypeOK, LocalsOK
  <2>2. \A i \in Points : /\ missCounter[i] \in Nat /\ lastSeen[i] \in Nat
                          /\ CountedTo(i) \in Int
                          /\ missCounter[i] <= CountedTo(i) + 1 - lastSeen[i]
    <3>1. \A i \in Points : CountedTo(i) \in Int
      BY <2>1 DEF CountedTo
    <3> QED BY <3>1, CounterTypes DEF MissesDeserved
  <2> QED BY <1>2, <2>1, <2>2, CounterSteps
<1> QED BY <1>1, <1>2

\* What the sweep has marked so far has reached the threshold, and nothing that
\* has is left behind.
LEMMA StepMarked ==
  ASSUME TypeOK, Marked, [Next]_vars
  PROVE  Marked'
<1>1. CASE StartRun \/ ReadFrame \/ EndOfVideo \/ Canceled
  <2>1. /\ UNCHANGED <<missCounter, trackingPoints>>
        /\ pc \in {"idle", "read", "check"} /\ pc' \in {"idle", "read", "check"}
    BY <1>1 DEF StartRun, ReadFrame, EndOfVideo, Canceled, members
  <2> QED BY <2>1 DEF Marked, Points
<1>2. CASE Cancel \/ UNCHANGED vars
  BY <1>2 DEF Cancel, Marked, Points, vars, members, locals
<1>3. CASE BeginFrame
  BY <1>3 DEF BeginFrame, Marked
<1>4. CASE ObjectRegistered \/ ObjectAppeared
  BY <1>4 DEF ObjectRegistered, ObjectAppeared, Marked
<1>5. CASE ObjectsDone
  <2>1. pc' = "sweep" /\ pIndex' = 1 /\ toRemove' = {}
    BY <1>5 DEF ObjectsDone, Marked
  <2>2. 1..pIndex' - 1 = {}
    BY <2>1
  <2> QED BY <2>1, <2>2 DEF Marked
<1>6. ASSUME NEW misses \in Nat, NextPoint(misses), pc = "sweep", pIndex \in Points,
             pc' \in {"sweep", "crashed"}
      PROVE  Marked'
  <2>1. /\ pIndex \in 1..Len(missCounter) /\ missCounter \in Seq(Nat)
        /\ missCounter' = [missCounter EXCEPT ![pIndex] = misses]
        /\ pIndex' = pIndex + 1
    BY <1>6 DEF NextPoint, TypeOK, MembersOK, Points
  <2>2. toRemove = {i \in 1..pIndex - 1 : missCounter[i] >= ForgetThreshold}
    BY <1>6 DEF Marked
  <2>3. \A i \in 1..pIndex : missCounter'[i] = IF i = pIndex THEN misses ELSE missCounter[i]
    BY <2>1
  <2>4. toRemove' = IF misses >= ForgetThreshold THEN toRemove \cup {pIndex} ELSE toRemove
    BY <1>6 DEF NextPoint
  <2>5. 1..pIndex' - 1 = 1..pIndex /\ 1..pIndex = (1..pIndex - 1) \cup {pIndex}
        /\ pIndex \notin 1..pIndex - 1
    BY <2>1
  <2>6. toRemove' = {i \in 1..pIndex' - 1 : missCounter'[i] >= ForgetThreshold}
    BY <2>2, <2>3, <2>4, <2>5
  <2> QED BY <1>6, <2>6 DEF Marked
<1>7. CASE PointHit \/ PointMissed \/ FindResultFails
  <2>1. pc = "sweep" /\ pIndex \in Points /\ pc' \in {"sweep", "crashed"}
    BY <1>7 DEF PointHit, PointMissed, FindResultFails
  <2>2. missCounter[pIndex] \in Nat /\ missCounter[pIndex] + 1 \in Nat
    BY <2>1 DEF TypeOK, MembersOK, Points
  <2>3. NextPoint(missCounter[pIndex]) \/ NextPoint(missCounter[pIndex] + 1)
    BY <1>7 DEF PointHit, PointMissed, FindResultFails
  <2> QED BY <1>6, <2>1, <2>2, <2>3
<1>8. CASE CleanUpPoints
  <2>1. PICK e \in Listings(Points \ toRemove) :
          /\ trackingPoints' = [l \in DOMAIN e |-> trackingPoints[e[l]]]
          /\ missCounter' = [l \in DOMAIN e |-> missCounter[e[l]]]
    BY <1>8 DEF CleanUpPoints
  <2>2. Points' = DOMAIN e /\ \A l \in DOMAIN e : e[l] \in Points \ toRemove
    BY <2>1, ListingFacts DEF TypeOK, Points
  <2>3. \A i \in Points \ toRemove : missCounter[i] < ForgetThreshold
    <3> SUFFICES ASSUME NEW i \in Points, i \notin toRemove PROVE missCounter[i] < ForgetThreshold
      OBVIOUS
    <3>1. i \in 1..pIndex - 1 /\ missCounter[i] \in Nat
      BY <1>8 DEF CleanUpPoints, TypeOK, MembersOK, Points
    <3>2. ~(missCounter[i] >= ForgetThreshold)
      BY <1>8, <3>1 DEF Marked, CleanUpPoints
    <3> QED BY <3>1, <3>2, BoundsAssumption
  <2>4. pc' = "read"
    BY <1>8 DEF CleanUpPoints
  <2> QED BY <2>1, <2>2, <2>3, <2>4 DEF Marked
<1> QED BY <1>1, <1>2, <1>3, <1>4, <1>5, <1>7, <1>8 DEF Next

LEMMA MarkedCorrect == Spec => []Marked
<1>1. Init => Marked
  BY DEF Init, Marked, Points
<1>2. TypeOK /\ Marked /\ [Next]_vars => Marked'
  BY StepMarked
<1> QED BY <1>1, <1>2, TypeCorrect, PTL DEF Spec

\* A point no detection has matched for ForgetThreshold frames is gone at the end
\* of the last of them, however often the tracker is used.
THEOREM StaleAreForgotten ==
  ASSUME Separated
  PROVE  Spec => []StaleForgotten
<1>1. Init => MissesCounted
  BY DEF Init, MissesCounted, Points
<1>2. TypeOK /\ MatchInv /\ MissesCounted /\ [Next]_vars => MissesCounted'
  BY StepCounted
<1>3. TypeOK /\ MissesCounted /\ Marked => StaleForgotten
  <2> SUFFICES ASSUME TypeOK, MissesCounted, Marked, BetweenFrames, NEW i \in Points
               PROVE  frameIndex - 1 - lastSeen[i] < ForgetThreshold
    BY DEF StaleForgotten
  <2>1. CountedTo(i) = frameIndex - 1
    BY DEF BetweenFrames, CountedTo
  <2>2. missCounter[i] < ForgetThreshold /\ frameIndex - 1 - lastSeen[i] <= missCounter[i]
    BY <2>1 DEF Marked, MissesCounted, BetweenFrames
  <2>3. missCounter[i] \in Nat /\ lastSeen[i] \in Nat /\ frameIndex \in Nat
    BY CounterTypes
  <2> QED BY <2>2, <2>3, BoundsAssumption
<1> QED BY <1>1, <1>2, <1>3, MatchCorrect, MarkedCorrect, PTL DEF Spec

\* A tracker that makes one call marks a point for removal only when no detection
\* matched it for ForgetThreshold - 1 frames at least, also when detections
\* overlap and look-ups fail.
THEOREM ForgottenInTime ==
  ASSUME MaxRuns = 1
  PROVE  Spec => []NotForgottenEarly
<1>1. Init => MissesDeserved
  BY DEF Init, MissesDeserved, Points
<1>2. TypeOK /\ IdsInv /\ MissesDeserved /\ [Next]_vars => MissesDeserved'
  BY StepDeserved DEF IdsInv
<1>3. TypeOK /\ MissesDeserved /\ Marked => NotForgottenEarly
  <2> SUFFICES ASSUME TypeOK, MissesDeserved, Marked, pc = "sweep", NEW i \in toRemove
               PROVE  frameIndex - lastSeen[i] >= ForgetThreshold - 1
    BY DEF NotForgottenEarly
  <2>1. i \in 1..pIndex - 1 /\ missCounter[i] >= ForgetThreshold
    BY DEF Marked
  <2>2. i \in Points /\ i < pIndex
    BY <2>1 DEF TypeOK, LocalsOK, MembersOK, Points
  <2>3. missCounter[i] <= frameIndex + 1 - lastSeen[i]
    BY <2>2 DEF MissesDeserved, CountedTo
  <2>4. missCounter[i] \in Nat /\ lastSeen[i] \in Nat /\ frameIndex \in Nat
    BY <2>2, CounterTypes
  <2> QED BY <2>1, <2>3, <2>4, BoundsAssumption
<1> QED BY <1>1, <1>2, <1>3, IdsAreUnique, MarkedCorrect, TypeCorrect, PTL DEF Spec

(***************************************************************************)
(* The two halves of the Result.  What is reported comes after all that    *)
(* was reported before, so it is the last point of its trajectory and      *)
(* moves no other one.                                                     *)
(***************************************************************************)

FiniteReports == \A id \in Int : IsFiniteSet(Reports(id))

RecordsInv == NothingAhead /\ ReportsKnown /\ RecordsAgree /\ FiniteReports

LEMMA ReportsMember ==
  ASSUME NEW id, NEW r
  PROVE  r \in Reports(id) <=>
           \E f \in 1..MaxFrame : \E k \in DOMAIN objectsPerFrame[f] :
             objectsPerFrame[f][k].id = id /\ r = <<f, k>>
BY DEF Reports

LEMMA ReportsMemberNext ==
  ASSUME NEW id, NEW r
  PROVE  r \in Reports(id)' <=>
           \E f \in 1..MaxFrame : \E k \in DOMAIN objectsPerFrame'[f] :
             objectsPerFrame'[f][k].id = id /\ r = <<f, k>>
BY DEF Reports

\* A report is the next one of its id and no report of any other.
LEMMA OneMoreReport ==
  ASSUME TypeOK, InFrame, NothingAhead, NEW id \in Int, NEW p \in Position,
         PushObject([id |-> id, point |-> p]),
         NEW new, new = <<frameIndex, Len(objectsPerFrame[frameIndex]) + 1>>
  PROVE  /\ Reports(id)' = Reports(id) \cup {new} /\ new \notin Reports(id)
         /\ objectsPerFrame'[new[1]][new[2]] = [id |-> id, point |-> p]
         /\ \A other \in Int \ {id} : Reports(other)' = Reports(other)
         /\ \A any \in Int : \A r \in Reports(any) :
              /\ objectsPerFrame'[r[1]][r[2]] = objectsPerFrame[r[1]][r[2]]
              /\ NotAfter(r, new) /\ ~NotAfter(new, r) /\ NotAfter(r, r)
         /\ NotAfter(new, new)
<1> DEFINE e   == [id |-> id, point |-> p]
           n   == Len(objectsPerFrame[frameIndex]) + 1
<1>1. e \in Entry
  BY DEF Entry
<1>2. /\ frameIndex \in 0..MaxFrame
      /\ \A f \in 0..MaxFrame :
           objectsPerFrame'[f] = IF f = frameIndex THEN Append(objectsPerFrame[f], e)
                                                   ELSE objectsPerFrame[f]
      /\ objectsPerFrame[frameIndex] \in Seq(Entry)
  BY <1>1, ReportedInFrame
<1>3. frameIndex \in 1..MaxFrame /\ n \in Nat
  BY <1>2, BoundsAssumption DEF TypeOK, LocalsOK
<1>4. /\ objectsPerFrame'[frameIndex] = Append(objectsPerFrame[frameIndex], e)
      /\ DOMAIN objectsPerFrame[frameIndex] = 1..n - 1
      /\ DOMAIN objectsPerFrame'[frameIndex] = 1..n
      /\ objectsPerFrame'[frameIndex][n] = e
      /\ \A k \in 1..n - 1 : objectsPerFrame'[frameIndex][k] = objectsPerFrame[frameIndex][k]
  <2> DEFINE s == objectsPerFrame[frameIndex]
  <2>1. s \in Seq(Entry) /\ objectsPerFrame'[frameIndex] = Append(s, e)
    BY <1>2
  <2>2. DOMAIN s = 1..Len(s) /\ Len(s) \in Nat /\ n = Len(s) + 1
    BY <2>1
  <2> HIDE DEF s, e, n
  <2>3. /\ DOMAIN Append(s, e) = 1..Len(s) + 1 /\ Append(s, e)[Len(s) + 1] = e
        /\ \A k \in 1..Len(s) : Append(s, e)[k] = s[k]
    BY <1>1, <2>1, AppendFacts
  <2>4. Len(s) = n - 1
    BY <2>2
  <2> QED BY <2>1, <2>2, <2>3, <2>4 DEF s
<1>5. \A f \in 1..MaxFrame \ {frameIndex} : objectsPerFrame'[f] = objectsPerFrame[f]
  BY <1>2
<1>6. \A f \in 1..MaxFrame : f > frameIndex => DOMAIN objectsPerFrame[f] = {}
  BY DEF NothingAhead
<1>0. new = <<frameIndex, n>>
  OBVIOUS
<1> HIDE DEF e, n
<1>7. ASSUME NEW any \in Int, NEW r \in Reports(any)
      PROVE  /\ objectsPerFrame'[r[1]][r[2]] = objectsPerFrame[r[1]][r[2]]
             /\ NotAfter(r, new) /\ ~NotAfter(new, r) /\ NotAfter(r, r)
             /\ r # new /\ r \in Reports(any)'
  <2>1. PICK f \in 1..MaxFrame, k \in Int :
          k \in DOMAIN objectsPerFrame[f] /\ objectsPerFrame[f][k].id = any /\ r = <<f, k>>
    <3>1. PICK f \in 1..MaxFrame : \E k \in DOMAIN objectsPerFrame[f] :
            objectsPerFrame[f][k].id = any /\ r = <<f, k>>
      BY <1>7, ReportsMember
    <3>2. objectsPerFrame[f] \in Seq(Entry)
      BY <3>1 DEF TypeOK, ResultOK
    <3> QED BY <3>1, <3>2
  <2>2. f <= frameIndex
    BY <1>3, <1>6, <2>1
  <2>3. CASE f = frameIndex
    <3>1. k \in 1..n - 1 /\ k \in 1..n /\ k # n
      BY <1>3, <1>4, <2>1, <2>3
    <3>2. objectsPerFrame'[f][k] = objectsPerFrame[f][k] /\ k \in DOMAIN objectsPerFrame'[f]
      BY <1>4, <2>3, <3>1
    <3>3. r \in Reports(any)'
      BY <2>1, <3>2, ReportsMemberNext
    <3> QED BY <1>0, <1>3, <2>1, <2>3, <3>1, <3>2, <3>3 DEF NotAfter
  <2>4. CASE f # frameIndex
    <3>1. objectsPerFrame'[f] = objectsPerFrame[f]
      BY <1>5, <2>1, <2>4
    <3>2. r \in Reports(any)'
      BY <2>1, <3>1, ReportsMemberNext
    <3> QED BY <1>0, <1>3, <2>1, <2>2, <2>4, <3>1, <3>2 DEF NotAfter
  <2> QED BY <2>3, <2>4
<1>8. ASSUME NEW any \in Int, NEW r \in Reports(any)', r \notin Reports(any)
      PROVE  any = id /\ r = new
  <2>1. PICK f \in 1..MaxFrame : \E k \in DOMAIN objectsPerFrame'[f] :
          objectsPerFrame'[f][k].id = any /\ r = <<f, k>>
    BY <1>8, ReportsMemberNext
  <2>2. PICK k \in DOMAIN objectsPerFrame'[f] :
          objectsPerFrame'[f][k].id = any /\ r = <<f, k>>
    BY <2>1
  <2>3. f = frameIndex
    BY <1>5, <1>8, <2>1, <2>2, ReportsMember
  <2>4. k \in 1..n
    BY <1>4, <2>2, <2>3
  <2>5. ~(k \in 1..n - 1)
    BY <1>4, <1>8, <2>1, <2>2, <2>3, ReportsMember
  <2>6. k = n
    BY <1>3, <2>4, <2>5
  <2> QED BY <1>0, <1>4, <2>2, <2>3, <2>6 DEF e
<1>9. new \in Reports(id)'
  <2>1. n \in DOMAIN objectsPerFrame'[frameIndex] /\ objectsPerFrame'[frameIndex][n].id = id
    BY <1>3, <1>4 DEF e
  <2> QED BY <1>0, <1>3, <2>1, ReportsMemberNext
<1>10. Reports(id)' = Reports(id) \cup {new} /\ new \notin Reports(id)
  BY <1>7, <1>8, <1>9
<1>11. \A other \in Int \ {id} : Reports(other)' = Reports(other)
  BY <1>7, <1>8
<1>12. NotAfter(new, new) /\ objectsPerFrame'[new[1]][new[2]] = [id |-> id, point |-> p]
  BY <1>0, <1>3, <1>4 DEF NotAfter, e
<1> QED BY <1>7, <1>10, <1>11, <1>12 DEF n

\* The trajectory of a reported object grows by the point it is reported at.
LEMMA RecordAppended ==
  ASSUME TypeOK, InFrame, RecordsInv, NEW id \in Nat, NEW p \in Position, NEW t \in Trajectory,
         t.points = Append(TrajectoryOf(id).points, p), SetTrajectory(id, t),
         PushObject([id |-> id, point |-> p])
  PROVE  ReportsKnown' /\ RecordsAgree' /\ FiniteReports'
<1> DEFINE new  == <<frameIndex, Len(objectsPerFrame[frameIndex]) + 1>>
           old  == TrajectoryOf(id).points
           at(r) == {s \in Reports(id) : NotAfter(s, r)}
<1>1. /\ Reports(id)' = Reports(id) \cup {new} /\ new \notin Reports(id)
      /\ objectsPerFrame'[new[1]][new[2]] = [id |-> id, point |-> p]
      /\ \A other \in Int \ {id} : Reports(other)' = Reports(other)
      /\ \A any \in Int : \A r \in Reports(any) :
           /\ objectsPerFrame'[r[1]][r[2]] = objectsPerFrame[r[1]][r[2]]
           /\ NotAfter(r, new) /\ ~NotAfter(new, r) /\ NotAfter(r, r)
      /\ NotAfter(new, new)
  <2>1. new = <<frameIndex, Len(objectsPerFrame[frameIndex]) + 1>> /\ id \in Int
    OBVIOUS
  <2> HIDE DEF new
  <2> QED BY <2>1, OneMoreReport DEF RecordsInv
<1> HIDE DEF new
<1>2. /\ DOMAIN trajectories' = DOMAIN trajectories \cup {id} /\ trajectories'[id] = t
      /\ \A other \in DOMAIN trajectories \ {id} : trajectories'[other] = trajectories[other]
  BY DEF SetTrajectory
<1>3. DOMAIN trajectories \subseteq Nat
  BY DEF TypeOK, ResultOK
<1>4. IsFiniteSet(Reports(id)) /\ Cardinality(Reports(id)) \in Nat
  BY FS_CardinalityType DEF RecordsInv, FiniteReports
<1>5. FiniteReports'
  <2>1. IsFiniteSet(Reports(id)')
    BY <1>1, <1>4, FS_AddElement
  <2>2. ASSUME NEW other \in Int
        PROVE  IsFiniteSet(Reports(other)')
    <3>1. CASE other = id
      BY <2>1, <3>1
    <3>2. CASE other # id
      BY <1>1, <3>2 DEF RecordsInv, FiniteReports
    <3> QED BY <3>1, <3>2
  <2> QED BY <2>2 DEF FiniteReports
<1>6. /\ old \in Seq(Position) /\ Len(old) = Cardinality(Reports(id))
      /\ \A r \in Reports(id) : old[Cardinality(at(r))] = objectsPerFrame[r[1]][r[2]].point
  <2>1. CASE id \in DOMAIN trajectories
    BY <2>1 DEF TrajectoryOf, RecordsInv, RecordsAgree, TypeOK, ResultOK, Trajectory
  <2>2. CASE id \notin DOMAIN trajectories
    <3>1. \A r : r \notin Reports(id)
      BY <2>2, ReportsMember DEF RecordsInv, ReportsKnown, Ids
    <3>2. Reports(id) = {} /\ old = <<>>
      BY <2>2, <3>1 DEF TrajectoryOf
    <3> QED BY <3>2, FS_EmptySet
  <2> QED BY <2>1, <2>2
<1>7. /\ Len(t.points) = Len(old) + 1 /\ t.points[Len(old) + 1] = p
      /\ \A k \in 1..Len(old) : t.points[k] = old[k]
  BY <1>6, AppendFacts
<1>8. Cardinality(Reports(id)') = Cardinality(Reports(id)) + 1
  BY <1>1, <1>4, FS_AddElement
<1> HIDE DEF old
<1>9. ASSUME NEW r \in Reports(id)'
      PROVE  t.points[Cardinality({s \in Reports(id)' : NotAfter(s, r)})]
               = objectsPerFrame'[r[1]][r[2]].point
  <2>1. CASE r = new
    <3>1. {s \in Reports(id)' : NotAfter(s, r)} = Reports(id)'
      BY <1>1, <2>1
    <3>2. t.points[Len(old) + 1] = p /\ Cardinality(Reports(id)') = Len(old) + 1
      BY <1>6, <1>7, <1>8
    <3>3. objectsPerFrame'[r[1]][r[2]].point = p
      BY <1>1, <2>1
    <3> QED BY <3>1, <3>2, <3>3
  <2>2. CASE r \in Reports(id)
    <3>1. {s \in Reports(id)' : NotAfter(s, r)} = at(r)
      BY <1>1, <2>2
    <3>2. r \in at(r) /\ at(r) \subseteq Reports(id)
      BY <1>1, <2>2
    <3> HIDE DEF at
    <3>3. /\ IsFiniteSet(at(r)) /\ Cardinality(at(r)) <= Cardinality(Reports(id))
          /\ Cardinality(at(r)) \in Nat /\ Cardinality(at(r)) # 0
      <4>1. IsFiniteSet(at(r)) /\ Cardinality(at(r)) <= Cardinality(Reports(id))
        BY <1>4, <3>2, FS_Subset
      <4> QED BY <3>2, <4>1, FS_CardinalityType, FS_EmptySet
    <3>4. Cardinality(at(r)) \in 1..Len(old)
      BY <1>4, <1>6, <3>3
    <3>5. t.points[Cardinality(at(r))] = objectsPerFrame[r[1]][r[2]].point
      BY <1>6, <1>7, <2>2, <3>4
    <3>6. objectsPerFrame'[r[1]][r[2]] = objectsPerFrame[r[1]][r[2]]
      BY <1>1, <2>2
    <3> QED BY <3>1, <3>5, <3>6
  <2> QED BY <1>1, <2>1, <2>2
<1>10. RecordsAgree'
  <2> SUFFICES ASSUME NEW other \in DOMAIN trajectories'
               PROVE  /\ Len(trajectories'[other].points) = Cardinality(Reports(other)')
                      /\ \A r \in Reports(other)' :
                           trajectories'[other].points[
                               Cardinality({s \in Reports(other)' : NotAfter(s, r)})]
                             = objectsPerFrame'[r[1]][r[2]].point
    BY DEF RecordsAgree
  <2>1. CASE other = id
    BY <1>2, <1>6, <1>7, <1>8, <1>9, <2>1
  <2>2. CASE other # id
    <3>1. other \in DOMAIN trajectories /\ other \in Int \ {id}
      BY <1>2, <1>3, <2>2
    <3>2. Reports(other)' = Reports(other) /\ trajectories'[other] = trajectories[other]
      BY <1>1, <1>2, <3>1
    <3>3. /\ Len(trajectories[other].points) = Cardinality(Reports(other))
          /\ \A r \in Reports(other) :
               trajectories[other].points[Cardinality({s \in Reports(other) : NotAfter(s, r)})]
                 = objectsPerFrame[r[1]][r[2]].point
      BY <3>1 DEF RecordsInv, RecordsAgree
    <3>4. \A r \in Reports(other) : objectsPerFrame'[r[1]][r[2]] = objectsPerFrame[r[1]][r[2]]
      BY <1>1, <3>1
    <3> QED BY <3>2, <3>3, <3>4
  <2> QED BY <2>1, <2>2
<1>11. ReportsKnown'
  <2> SUFFICES ASSUME NEW f \in 1..MaxFrame, NEW k \in DOMAIN objectsPerFrame'[f]
               PROVE  objectsPerFrame'[f][k].id \in DOMAIN trajectories'
    BY DEF ReportsKnown, Ids
  <2> DEFINE e == [id |-> id, point |-> p]
  <2>1. e \in Entry
    BY DEF Entry
  <2>2. /\ objectsPerFrame'[f] = IF f = frameIndex THEN Append(objectsPerFrame[f], e)
                                                   ELSE objectsPerFrame[f]
        /\ objectsPerFrame[f] \in Seq(Entry)
    BY <2>1, ReportedInFrame DEF TypeOK, ResultOK
  <2>3. \/ k \in DOMAIN objectsPerFrame[f] /\ objectsPerFrame'[f][k] = objectsPerFrame[f][k]
        \/ objectsPerFrame'[f][k] = e
    BY <2>1, <2>2, AppendFacts
  <2>4. CASE k \in DOMAIN objectsPerFrame[f] /\ objectsPerFrame'[f][k] = objectsPerFrame[f][k]
    BY <1>2, <2>4 DEF RecordsInv, ReportsKnown, Ids
  <2>5. CASE objectsPerFrame'[f][k] = e
    BY <1>2, <2>5
  <2> QED BY <2>3, <2>4, <2>5
<1> QED BY <1>5, <1>10, <1>11

LEMMA PushPointRecords ==
  ASSUME TypeOK, InFrame, RecordsInv, NEW id \in Nat, NEW p \in Position,
         PushPoint(id, p), PushObject([id |-> id, point |-> p])
  PROVE  ReportsKnown' /\ RecordsAgree' /\ FiniteReports'
<1> DEFINE t == [TrajectoryOf(id) EXCEPT !.points = Append(@, p)]
<1>1. TrajectoryOf(id) \in Trajectory
  BY DEF TrajectoryOf, Trajectory, TypeOK, ResultOK
<1>2. t \in Trajectory /\ t.points = Append(TrajectoryOf(id).points, p)
  <2>1. \A s \in Seq(Position) : Append(s, p) \in Seq(Position)
    OBVIOUS
  <2> QED BY <1>1, <2>1 DEF Trajectory
<1>3. SetTrajectory(id, t)
  BY DEF PushPoint
<1> QED BY <1>2, <1>3, RecordAppended

LEMMA AppearedRecords ==
  ASSUME TypeOK, IdsInv, RecordsInv, ObjectAppeared
  PROVE  ReportsKnown' /\ RecordsAgree' /\ FiniteReports'
<1> DEFINE c == currentFrameObjects[obj].centre
           t == [frameStart |-> frameIndex, points |-> <<c>>]
<1>1. c \in Position /\ InFrame
  BY CurrentObject DEF ObjectAppeared, TypeOK, InFrame
<1>2. NewId \in Nat /\ NewId \notin DOMAIN trajectories
  BY NewIdFacts DEF NewId
<1>3. t \in Trajectory /\ t.points = Append(TrajectoryOf(NewId).points, c)
  <2>1. frameIndex \in Int
    BY DEF TypeOK, LocalsOK
  <2>2. <<c>> \in Seq(Position) /\ TrajectoryOf(NewId).points = <<>>
    BY <1>1, <1>2 DEF TrajectoryOf
  <2> QED BY <1>1, <2>1, <2>2 DEF Trajectory
<1>4. SetTrajectory(NewId, t) /\ PushObject([id |-> NewId, point |-> c])
  BY DEF ObjectAppeared
<1> HIDE DEF c, t
<1> QED BY <1>1, <1>2, <1>3, <1>4, RecordAppended

LEMMA StepRecords ==
  ASSUME TypeOK, IdsInv, LookupSafe, RecordsInv, [Next]_vars
  PROVE  RecordsInv'
<1>1. CASE StartRun
  <2>1. trajectories' = <<>> /\ \A f \in 1..MaxFrame : objectsPerFrame'[f] = <<>>
    BY <1>1 DEF StartRun
  <2>2. \A id : Reports(id)' = {}
    BY <2>1 DEF Reports
  <2>3. ReportsKnown'
    BY <2>1 DEF ReportsKnown, Ids
  <2>4. RecordsAgree'
    BY <2>1 DEF RecordsAgree
  <2>5. FiniteReports'
    BY <2>2, FS_EmptySet DEF FiniteReports
  <2> QED BY <2>3, <2>4, <2>5, StepAhead DEF RecordsInv
<1>2. CASE ObjectRegistered
  <2>1. PICK i \in Points :
          /\ PushObject([id |-> pointIds[i], point |-> currentFrameObjects[obj].centre])
          /\ PushPoint(pointIds[i], currentFrameObjects[obj].centre)
    BY <1>2 DEF ObjectRegistered
  <2>2. currentFrameObjects[obj].centre \in Position /\ InFrame
    BY <1>2, CurrentObject DEF ObjectRegistered, TypeOK, InFrame
  <2>3. pointIds[i] \in Nat
    BY DEF TypeOK, MembersOK, Points
  <2> QED BY <2>1, <2>2, <2>3, StepAhead, PushPointRecords DEF RecordsInv
<1>3. CASE ObjectAppeared
  BY <1>3, AppearedRecords, StepAhead DEF RecordsInv
<1>4. CASE PointMissed
  <2>1. PICK p \in Position : /\ PushPoint(pointIds[pIndex], p)
                              /\ PushObject([id |-> pointIds[pIndex], point |-> p])
    BY <1>4, MissReports
  <2>2. pointIds[pIndex] \in Nat /\ InFrame
    BY <1>4 DEF PointMissed, TypeOK, MembersOK, Points, InFrame
  <2> QED BY <2>1, <2>2, StepAhead, PushPointRecords DEF RecordsInv
<1>5. CASE FindResultFails
  BY <1>5 DEF FindResultFails, LookupSafe
<1>6. CASE UNCHANGED result
  BY <1>6, StepAhead DEF result, RecordsInv, ReportsKnown, RecordsAgree, FiniteReports, Reports
<1>7. \/ StartRun \/ ObjectRegistered \/ ObjectAppeared \/ PointMissed \/ FindResultFails
      \/ UNCHANGED result
  BY DEF Next, ReadFrame, EndOfVideo, Cancel, Canceled, BeginFrame, ObjectsDone, PointHit,
         CleanUpPoints, vars
<1> QED BY <1>1, <1>2, <1>3, <1>4, <1>5, <1>6, <1>7

\* In every state a trajectory is the points its object was reported at, in the
\* order of the reports: what a missed object's copy shows is what its trajectory
\* gets, and an object that is reported twice in a frame has two points for it.
THEOREM ResultIsConsistent ==
  ASSUME MaxRuns = 1, Separated
  PROVE  Spec => []RecordsAgree
<1>1. Init => RecordsInv
  <2> SUFFICES ASSUME Init PROVE RecordsInv
    OBVIOUS
  <2>1. trajectories = <<>> /\ \A f \in 1..MaxFrame : objectsPerFrame[f] = <<>>
    BY DEF Init
  <2>2. \A id : Reports(id) = {}
    BY <2>1 DEF Reports
  <2>3. NothingAhead /\ ReportsKnown /\ RecordsAgree
    BY <2>1 DEF Init, NothingAhead, ReportsKnown, Ids, RecordsAgree
  <2> QED BY <2>2, <2>3, FS_EmptySet DEF RecordsInv, FiniteReports
<1>2. TypeOK /\ IdsInv /\ LookupSafe /\ RecordsInv /\ [Next]_vars => RecordsInv'
  BY StepRecords
<1>3. RecordsInv => RecordsAgree
  BY DEF RecordsInv
<1> QED BY <1>1, <1>2, <1>3, IdsAreUnique, LookupIsSafe, PTL DEF Spec

=============================================================================
