--------------------------- MODULE ObjectTracker ---------------------------
(***************************************************************************)
(* VideoTeror::Tracking::ObjectTracker: it gives every object a detector   *)
(* finds in a video an identity, follows it with an optical-flow point     *)
(* while the detector misses it, and forgets it after forgetThreshold      *)
(* missed frames.                                                          *)
(*                                                                         *)
(* The frame handler runs on one thread but loops over the detections and  *)
(* then over the tracked points, changing both as it goes, so every pass   *)
(* through a loop is a step here.  cancel() may be called at any time from *)
(* any thread, or from the progress callback.                              *)
(*                                                                         *)
(* Image content is abstract: a detection is a centre pixel and the set of *)
(* pixels of its rectangle, the Lucas-Kanade tracker is one of the         *)
(* displacement fields in Flows, and distances are given by Dist.          *)
(***************************************************************************)
EXTENDS Integers, Sequences, FiniteSets

CONSTANTS
  Position,         \* where a tracked point can be, pixels and sub-pixels
  Trunc,            \* cv::Point(p.x, p.y): the pixel a point truncates to
  Round,            \* the conversion Point2f -> Point: the nearest pixel
  ReadBack,         \* the pixel a stored relative point comes back as
  Dist,             \* Helpers::euclDist
  DetectionLists,   \* what detector.detect() may return for a frame
  Flows,            \* displacement fields the LK tracker may apply
  GarbageIds,       \* ids an object that was never found may show
  ForgetThreshold,  \* Settings::forgetThreshold
  MaxMoveThreshold, \* Settings::maxMoveThreshold
  MaxFrame,         \* bound: frames after the first one of a video
  MaxRuns           \* bound: calls of the video overload on one tracker

Detection == [centre: Position, region: SUBSET Position]

ASSUME GeometryAssumption ==
  /\ Trunc \in [Position -> Position]
  /\ Round \in [Position -> Position]
  /\ ReadBack \in [Position -> Position]
  /\ Dist \in [Position -> [Position -> Nat]]
  /\ \A p, q \in Position : Dist[p][q] = 0 <=> p = q

\* A detector answers with rectangles that contain their own centre, which is
\* a whole pixel.
ASSUME DetectionAssumption ==
  /\ DetectionLists \subseteq Seq(Detection)
  /\ \A list \in DetectionLists : \A k \in DOMAIN list :
       LET c == list[k].centre
       IN  c \in list[k].region /\ Trunc[c] = c /\ Round[c] = c

ASSUME FlowAssumption == Flows \subseteq [Position -> Position]

ASSUME BoundsAssumption ==
  /\ GarbageIds \subseteq Int
  /\ ForgetThreshold \in Int
  /\ MaxMoveThreshold \in Int
  /\ MaxFrame \in Nat
  /\ MaxRuns \in Nat

VARIABLES
  \* Members of ObjectTracker: three parallel vectors and the atomic flag.
  trackingPoints, missCounter, pointIds, stopRequest,
  \* The Result of the current call.
  trajectories, objectsPerFrame,
  \* Locals of detectAndTrack.
  pc, frameIndex, currentFrameObjects, obj, pIndex, toRemove,
  \* History: for every tracked point, the frame it was last detected in.
  lastSeen,
  \* Number of calls of the video overload so far.
  runs

members == <<trackingPoints, missCounter, pointIds, lastSeen>>
result  == <<trajectories, objectsPerFrame>>
locals  == <<pc, frameIndex, currentFrameObjects, obj, pIndex, toRemove>>
vars    == <<members, stopRequest, result, locals, runs>>

Points == DOMAIN trackingPoints
Entry  == [id: Int, point: Position]
Trajectory == [frameStart: Int, points: Seq(Position)]

MembersOK ==
  /\ trackingPoints \in Seq(Position)
  /\ missCounter \in Seq(Nat)
  /\ pointIds \in Seq(Nat)
  /\ lastSeen \in Seq(Nat)
  /\ Len(missCounter) = Len(trackingPoints)
  /\ Len(pointIds) = Len(trackingPoints)
  /\ Len(lastSeen) = Len(trackingPoints)
  /\ stopRequest \in BOOLEAN

ResultOK ==
  /\ IsFiniteSet(DOMAIN trajectories)
  /\ DOMAIN trajectories \subseteq Nat
  /\ trajectories \in [DOMAIN trajectories -> Trajectory]
  /\ objectsPerFrame \in [0..MaxFrame -> Seq(Entry)]

LocalsOK ==
  /\ pc \in {"idle", "read", "check", "assign", "sweep", "crashed"}
  /\ frameIndex \in 1..MaxFrame + 1
  /\ pc \in {"check", "assign", "sweep"} => frameIndex <= MaxFrame
  /\ currentFrameObjects \in Seq(Detection)
  /\ obj \in 1..Len(currentFrameObjects) + 1
  /\ pIndex \in Nat \ {0}
  /\ pc = "sweep" => pIndex <= Len(trackingPoints) + 1
  /\ toRemove \subseteq Nat
  /\ runs \in 0..MaxRuns

\* The three vectors of a tracked point stay aligned, every frame the handler
\* touches is one the Result has room for, and no loop index leaves its range.
TypeOK == MembersOK /\ ResultOK /\ LocalsOK

Init ==
  /\ trackingPoints = <<>> /\ missCounter = <<>> /\ pointIds = <<>>
  /\ stopRequest = FALSE
  /\ trajectories = <<>>
  /\ objectsPerFrame = [f \in 0..MaxFrame |-> <<>>]
  /\ pc = "idle" /\ frameIndex = 1
  /\ currentFrameObjects = <<>> /\ obj = 1 /\ pIndex = 1 /\ toRemove = {}
  /\ lastSeen = <<>>
  /\ runs = 0

-----------------------------------------------------------------------------
(* What the handler reads.                                                 *)

Ids(objects) == {objects[k].id : k \in DOMAIN objects}

\* DetectionResult::findResult: the first object with the given id.
IsFound(objects, id, k) ==
  /\ k \in DOMAIN objects /\ objects[k].id = id
  /\ \A j \in DOMAIN objects : objects[j].id = id => k <= j

\* Mutant: the nearest point, wherever the rectangle is.
CandidatesAnywhere(o) == Points

\* getTrackedPointIndex: the tracked points whose truncated pixel is in the
\* detection's rectangle, and the first of the nearest among them.
Candidates(o) == {i \in Points : Trunc[trackingPoints[i]] \in o.region}

IsTrackedPointIndex(o, i) ==
  LET d(j) == Dist[o.centre][trackingPoints[j]]
  IN  /\ i \in Candidates(o)
      /\ \A j \in Candidates(o) : d(i) < d(j) \/ (d(i) = d(j) /\ i <= j)

\* Mutant: any point in a rectangle counts as detected.
HitIfInside(i) ==
  \E k \in DOMAIN currentFrameObjects :
    Round[trackingPoints[i]] \in currentFrameObjects[k].region

\* Mutant: a point competes with itself.
HitFromAll(i) ==
  \E k \in DOMAIN currentFrameObjects :
    LET o == currentFrameObjects[k]
    IN  /\ Round[trackingPoints[i]] \in o.region
        /\ \A j \in Points :
             Dist[trackingPoints[i]][o.centre] < Dist[trackingPoints[j]][o.centre]

\* The sweep's test: the rounded point is in some detection's rectangle and
\* is strictly nearer to that rectangle's centre than every other point.
Hit(i) ==
  \E k \in DOMAIN currentFrameObjects :
    LET o == currentFrameObjects[k]
    IN  /\ Round[trackingPoints[i]] \in o.region
        /\ \A j \in Points \ {i} :
             Dist[trackingPoints[i]][o.centre] < Dist[trackingPoints[j]][o.centre]

\* result.trajectories[id]: std::map default-constructs what is not there.
TrajectoryOf(id) ==
  IF id \in DOMAIN trajectories THEN trajectories[id]
  ELSE [frameStart |-> 0, points |-> <<>>]

SetTrajectory(id, t) ==
  trajectories' = [k \in DOMAIN trajectories \cup {id} |->
                     IF k = id THEN t ELSE trajectories[k]]

PushPoint(id, p) ==
  SetTrajectory(id, [TrajectoryOf(id) EXCEPT !.points = Append(@, p)])

\* Mutant: the new point gets no miss counter.
AddPointUncounted(id, p) ==
  /\ trackingPoints' = Append(trackingPoints, p)
  /\ pointIds' = Append(pointIds, id)
  /\ missCounter' = missCounter
  /\ lastSeen' = Append(lastSeen, frameIndex)

\* A point of its own for a new object, in each of the parallel vectors.
AddPoint(id, p) ==
  /\ trackingPoints' = Append(trackingPoints, p)
  /\ pointIds' = Append(pointIds, id)
  /\ missCounter' = Append(missCounter, 0)
  /\ lastSeen' = Append(lastSeen, frameIndex)

\* Mutant: a match does not clear the misses.
MovePointOnly(i, p) ==
  /\ trackingPoints' = [trackingPoints EXCEPT ![i] = p]
  /\ missCounter' = missCounter
  /\ lastSeen' = [lastSeen EXCEPT ![i] = frameIndex]

\* A detection matched point i: the point jumps to its centre.
MovePoint(i, p) ==
  /\ trackingPoints' = [trackingPoints EXCEPT ![i] = p]
  /\ missCounter' = [missCounter EXCEPT ![i] = 0]
  /\ lastSeen' = [lastSeen EXCEPT ![i] = frameIndex]

\* Mutant: the number of points tracked now.
NewIdFromPoints == Len(pointIds)

\* result.trajectories.size()
NewId == Cardinality(DOMAIN trajectories)

PushObject(e) ==
  objectsPerFrame' = [objectsPerFrame EXCEPT ![frameIndex] = Append(@, e)]

-----------------------------------------------------------------------------
(* The video overload: a call starts with a fresh Result, but with the     *)
(* members the previous call left.                                         *)

StartRun ==
  /\ pc = "idle" /\ runs < MaxRuns
  /\ runs' = runs + 1
  /\ trajectories' = <<>>
  /\ objectsPerFrame' = [f \in 0..MaxFrame |-> <<>>]
  /\ pc' = "read" /\ frameIndex' = 1
  /\ UNCHANGED <<members, stopRequest, currentFrameObjects, obj, pIndex, toRemove>>

ReadFrame ==
  /\ pc = "read" /\ frameIndex <= MaxFrame
  /\ pc' = "check"
  /\ UNCHANGED <<members, stopRequest, result, frameIndex, currentFrameObjects,
                 obj, pIndex, toRemove, runs>>

EndOfVideo ==
  /\ pc = "read"
  /\ pc' = "idle"
  /\ UNCHANGED <<members, stopRequest, result, frameIndex, currentFrameObjects,
                 obj, pIndex, toRemove, runs>>

\* cancel(), from any thread.
Cancel ==
  /\ pc # "crashed"
  /\ stopRequest' = TRUE
  /\ UNCHANGED <<members, result, locals, runs>>

-----------------------------------------------------------------------------
(* The frame handler.                                                      *)

\* The request is consumed and ComputationCanceled leaves both overloads; the
\* Result, a local of the video overload, is lost.
Canceled ==
  /\ pc = "check" /\ stopRequest
  /\ stopRequest' = FALSE
  /\ pc' = "idle"
  /\ UNCHANGED <<members, result, frameIndex, currentFrameObjects, obj, pIndex,
                 toRemove, runs>>

\* Detection, then Lucas-Kanade on every point there is.
BeginFrame ==
  /\ pc = "check" /\ ~stopRequest
  /\ currentFrameObjects' \in DetectionLists
  /\ \E flow \in Flows :
       trackingPoints' = [i \in Points |-> flow[trackingPoints[i]]]
  /\ obj' = 1 /\ toRemove' = {}
  /\ pc' = "assign"
  /\ UNCHANGED <<missCounter, pointIds, lastSeen, stopRequest, result,
                 frameIndex, pIndex, runs>>

\* The detection belongs to a point: the object keeps its id and the point
\* jumps to the detection's centre.
ObjectRegistered ==
  /\ pc = "assign" /\ obj <= Len(currentFrameObjects)
  /\ LET o == currentFrameObjects[obj]
     IN  \E i \in Points :
           /\ IsTrackedPointIndex(o, i)
           /\ PushObject([id |-> pointIds[i], point |-> o.centre])
           /\ PushPoint(pointIds[i], o.centre)
           /\ MovePoint(i, o.centre)
  /\ obj' = obj + 1
  /\ UNCHANGED <<pointIds, stopRequest, pc, frameIndex, currentFrameObjects,
                 pIndex, toRemove, runs>>

\* A new object: its id is the number of trajectories so far.
ObjectAppeared ==
  /\ pc = "assign" /\ obj <= Len(currentFrameObjects)
  /\ LET o == currentFrameObjects[obj]
     IN  /\ Candidates(o) = {}
         /\ SetTrajectory(NewId, [frameStart |-> frameIndex, points |-> <<o.centre>>])
         /\ PushObject([id |-> NewId, point |-> o.centre])
         /\ AddPoint(NewId, o.centre)
  /\ obj' = obj + 1
  /\ UNCHANGED <<stopRequest, pc, frameIndex, currentFrameObjects, pIndex,
                 toRemove, runs>>

ObjectsDone ==
  /\ pc = "assign" /\ obj = Len(currentFrameObjects) + 1
  /\ pc' = "sweep" /\ pIndex' = 1
  /\ UNCHANGED <<members, stopRequest, result, frameIndex, currentFrameObjects,
                 obj, toRemove, runs>>

\* Mutant: one miss too many before a point is forgotten.
NextPointLate(misses) ==
  /\ missCounter' = [missCounter EXCEPT ![pIndex] = misses]
  /\ toRemove' = IF misses > ForgetThreshold THEN toRemove \cup {pIndex}
                                             ELSE toRemove
  /\ pIndex' = pIndex + 1
  /\ UNCHANGED <<trackingPoints, pointIds, lastSeen, stopRequest, frameIndex,
                 currentFrameObjects, obj, runs>>

\* The end of one pass of the sweep, with the point's counter now at misses.
NextPoint(misses) ==
  /\ missCounter' = [missCounter EXCEPT ![pIndex] = misses]
  /\ toRemove' = IF misses >= ForgetThreshold THEN toRemove \cup {pIndex}
                                              ELSE toRemove
  /\ pIndex' = pIndex + 1
  /\ UNCHANGED <<trackingPoints, pointIds, lastSeen, stopRequest, frameIndex,
                 currentFrameObjects, obj, runs>>

\* Mutant: the trajectory follows a point that jumped, its object does not.
RecordMissApart(object) ==
  LET p    == trackingPoints[pIndex]
      near == Dist[object.point][p] < MaxMoveThreshold
      here == IF near THEN [object EXCEPT !.point = ReadBack[p]] ELSE object
  IN  /\ PushPoint(pointIds[pIndex], ReadBack[p])
      /\ PushObject(here)

\* Mutant: an object whose point jumped is not reported.
RecordMissNear(object) ==
  LET p    == trackingPoints[pIndex]
      here == [object EXCEPT !.point = ReadBack[p]]
  IN  IF Dist[object.point][p] < MaxMoveThreshold
      THEN PushPoint(pointIds[pIndex], here.point) /\ PushObject(here)
      ELSE UNCHANGED result

\* What is recorded for a missed point, given its object in the frame before:
\* a copy moved along with the point, unless the point jumped too far.
RecordMiss(object) ==
  LET p    == trackingPoints[pIndex]
      near == Dist[object.point][p] < MaxMoveThreshold
      here == IF near THEN [object EXCEPT !.point = ReadBack[p]] ELSE object
  IN  /\ PushPoint(pointIds[pIndex], here.point)
      /\ PushObject(here)

PointHit ==
  /\ pc = "sweep" /\ pIndex \in Points /\ Hit(pIndex)
  /\ NextPoint(missCounter[pIndex])
  /\ UNCHANGED <<pc, result>>

PointMissed ==
  /\ pc = "sweep" /\ pIndex \in Points /\ ~Hit(pIndex)
  /\ \E k \in DOMAIN objectsPerFrame[frameIndex - 1] :
       /\ IsFound(objectsPerFrame[frameIndex - 1], pointIds[pIndex], k)
       /\ RecordMiss(objectsPerFrame[frameIndex - 1][k])
  /\ NextPoint(missCounter[pIndex] + 1)
  /\ UNCHANGED pc

\* findResult runs off its end when the frame before has no such object: the
\* caller crashes or goes on with a copy of an object that never existed.
FindResultFails ==
  /\ pc = "sweep" /\ pIndex \in Points /\ ~Hit(pIndex)
  /\ pointIds[pIndex] \notin Ids(objectsPerFrame[frameIndex - 1])
  /\ NextPoint(missCounter[pIndex] + 1)
  /\ \/ pc' = "crashed" /\ UNCHANGED result
     \/ \E object \in [id: GarbageIds, point: Position] :
          RecordMiss(object) /\ UNCHANGED pc

\* The listings of a set of indices in ascending order (there is one).
Listings(S) ==
  {e \in [1..Cardinality(S) -> S] : \A j, k \in DOMAIN e : j < k => e[j] < e[k]}

\* The sweep is over: cleanUpPoints keeps the other points in their order,
\* and the video overload goes to the next frame.
CleanUpPoints ==
  /\ pc = "sweep" /\ pIndex = Len(trackingPoints) + 1
  /\ \E e \in Listings(Points \ toRemove) :
       LET Kept(s) == [j \in DOMAIN e |-> s[e[j]]]
       IN  /\ trackingPoints' = Kept(trackingPoints)
           /\ missCounter' = Kept(missCounter)
           /\ pointIds' = Kept(pointIds)
           /\ lastSeen' = Kept(lastSeen)
  /\ frameIndex' = frameIndex + 1
  /\ pc' = "read"
  /\ UNCHANGED <<stopRequest, result, currentFrameObjects, obj, pIndex,
                 toRemove, runs>>

Next ==
  \/ StartRun \/ ReadFrame \/ EndOfVideo \/ Cancel
  \/ Canceled \/ BeginFrame
  \/ ObjectRegistered \/ ObjectAppeared \/ ObjectsDone
  \/ PointHit \/ PointMissed \/ FindResultFails \/ CleanUpPoints

Spec == Init /\ [][Next]_vars

-----------------------------------------------------------------------------
(* Properties.  Those that need it say so: a tracker is single-use when it *)
(* makes one call of the video overload, and detections are separated when *)
(* no rectangle contains the centre of a detection earlier in its list.    *)

Separated ==
  \A list \in DetectionLists : \A j, k \in DOMAIN list :
    j < k => list[j].centre \notin list[k].region

BetweenFrames == pc \in {"read", "check"}

\* Whenever the sweep counts a miss, the object it asks findResult for is in
\* the frame before (objecttracker.cpp:102, "i have something from previous
\* frame"), so that the search never runs off its end.
\* Single-use, separated.
LookupSafe ==
  pc = "sweep" /\ pIndex \in Points /\ ~Hit(pIndex)
    => pointIds[pIndex] \in Ids(objectsPerFrame[frameIndex - 1])

\* After every frame, an object that is still tracked has been reported in
\* every frame since it appeared: detection, optical flow and the frozen copy
\* of a lost point leave no hole between them.  Single-use, separated.
NoGaps ==
  BetweenFrames =>
    \A i \in Points : \A f \in trajectories[pointIds[i]].frameStart..(frameIndex - 1) :
      pointIds[i] \in Ids(objectsPerFrame[f])

\* Nor has any object, tracked or forgotten, that shows up in two frames a frame
\* in between where it does not.  Proved, and not run: NoGaps and KeepsPromise
\* are.  Single-use, separated.
NoHoles ==
  \A f, g, h \in 0..MaxFrame :
    f < g /\ g < h => Ids(objectsPerFrame[f]) \cap Ids(objectsPerFrame[h])
                        \subseteq Ids(objectsPerFrame[g])

\* Where an object is reported: the frame, and the place among its objects.
Reports(id) ==
  UNION {{<<f, k>> : k \in {n \in DOMAIN objectsPerFrame[f] : objectsPerFrame[f][n].id = id}}
           : f \in 1..MaxFrame}

NotAfter(r, s) == r[1] < s[1] \/ (r[1] = s[1] /\ r[2] <= s[2])

\* The two halves of the Result tell the same story: an object's trajectory
\* is the list of the points it was reported at, frame after frame.
\* Single-use, separated.
RecordsAgree ==
  \A id \in DOMAIN trajectories :
    /\ Len(trajectories[id].points) = Cardinality(Reports(id))
    /\ \A r \in Reports(id) :
         LET n == Cardinality({s \in Reports(id) : NotAfter(s, r)})
         IN  trajectories[id].points[n] = objectsPerFrame[r[1]][r[2]].point

\* When the sweep begins, every detection of the frame has a point of its own
\* at its centre, under the id it was reported with: no two detections were
\* given to one object.  Separated.
DetectionsCovered ==
  pc = "sweep" /\ pIndex = 1 =>
    \A k \in DOMAIN currentFrameObjects : \E i \in Points :
      /\ trackingPoints[i] = currentFrameObjects[k].centre
      /\ pointIds[i] = objectsPerFrame[frameIndex][k].id
      /\ lastSeen[i] = frameIndex

\* A point that no detection has matched for forgetThreshold frames is gone
\* at the end of the last of them.  Separated.
StaleForgotten ==
  BetweenFrames => \A i \in Points : frameIndex - 1 - lastSeen[i] < ForgetThreshold

\* The sweep reports an object that is in the frame already only if another
\* point stands on the very spot of its own, so that neither is nearer to the
\* detection than the other: without that, no object is reported twice in a
\* frame and no point that was matched counts a miss.  Single-use, separated.
TwiceOnlyIfCoinciding ==
  pc = "sweep" /\ pIndex \in Points /\ ~Hit(pIndex)
    /\ pointIds[pIndex] \in Ids(objectsPerFrame[frameIndex])
    => \E j \in Points \ {pIndex} : trackingPoints[j] = trackingPoints[pIndex]

\* Two points never track under one id.  Single-use.
UniqueIds == \A i, j \in Points : pointIds[i] = pointIds[j] => i = j

\* Nothing is forgotten before its time, whatever the sweep's hit test makes of
\* overlapping rectangles.  The one frame of slack is real: a point matched in
\* this very frame counts a miss as well when another point coincides with it.
NotForgottenEarly ==
  pc = "sweep" => \A i \in toRemove : frameIndex - lastSeen[i] >= ForgetThreshold - 1

\* Within a call, the id of a forgotten object is never given to a new one.
\* Single-use.
IdsNotReused ==
  [][\A i \in DOMAIN pointIds' :
       pointIds'[i] \in DOMAIN trajectories => \E j \in Points : pointIds[j] = pointIds'[i]]_vars

\* What the tracker promises its caller, in terms of ids alone.
Promise == INSTANCE TrackLog WITH
  IdBound <- Nat,
  frame  <- frameIndex,
  issued <- Cardinality(DOMAIN trajectories),
  live   <- {pointIds[i] : i \in Points},
  log    <- [f \in 0..MaxFrame |-> Ids(objectsPerFrame[f])]

\* Every step of the tracker is a step TrackLog allows.  Single-use, separated.
KeepsPromise == Promise!LogSpec

-----------------------------------------------------------------------------
(* Why the properties hold: the invariants every step of a single-use      *)
(* tracker preserves, which ObjectTracker_proof proves.                    *)

Before == Ids(objectsPerFrame[frameIndex - 1])
Now    == Ids(objectsPerFrame[frameIndex])
InFrame == pc \in {"assign", "sweep"}

\* Until the first call starts, the tracker and the Result are untouched.
Fresh ==
  runs = 0 => /\ pc = "idle" /\ frameIndex = 1
              /\ trackingPoints = <<>> /\ trajectories = <<>>
              /\ objectsPerFrame = [f \in 0..MaxFrame |-> <<>>]

\* Ids are 0, 1, 2, ... in the order of the trajectories, each point has one.
IdsInv ==
  /\ Fresh
  /\ DOMAIN trajectories = 0..Cardinality(DOMAIN trajectories) - 1
  /\ \A i \in Points : pointIds[i] \in DOMAIN trajectories
  /\ UniqueIds

\* Every point was reported in the frame before.
KnownBetween == BetweenFrames => \A i \in Points : pointIds[i] \in Before

\* Every detection dealt with so far has a point at its centre whose object is
\* reported in this frame.
Covered ==
  InFrame =>
    /\ currentFrameObjects \in DetectionLists
    /\ \A k \in 1..obj - 1 : \E i \in Points :
         trackingPoints[i] = currentFrameObjects[k].centre /\ pointIds[i] \in Now

\* A point was reported in the frame before, or sits alone on the centre of
\* the detection that created it, where the sweep's test cannot miss it.
Alone(i, k) ==
  /\ trackingPoints[i] = currentFrameObjects[k].centre
  /\ \A j \in Points \ {i} : trackingPoints[j] # currentFrameObjects[k].centre

Rooted ==
  InFrame => \A i \in Points :
    pointIds[i] \in Before \/ \E k \in 1..obj - 1 : Alone(i, k)

\* The points the sweep has passed are reported in this frame.
Swept ==
  pc = "sweep" => /\ obj = Len(currentFrameObjects) + 1
                  /\ \A i \in Points : i < pIndex => pointIds[i] \in Now

FollowInv == Fresh /\ KnownBetween /\ Covered /\ Rooted /\ Swept

\* A trajectory begins in the frame in which its object was first reported.
Born ==
  \A id \in DOMAIN trajectories :
    LET start == trajectories[id].frameStart
    IN  start \in 0..MaxFrame /\ id \in Ids(objectsPerFrame[start])

\* Nothing is reported in a frame the handler has not come to.
NothingAhead ==
  \A f \in 0..MaxFrame :
    f > frameIndex \/ (BetweenFrames /\ f = frameIndex) => objectsPerFrame[f] = <<>>

\* The first reports of a frame are those of its detections, in their order, and
\* each has a point at its detection's centre that was matched in this frame.
Matched ==
  InFrame =>
    /\ currentFrameObjects \in DetectionLists
    /\ obj - 1 <= Len(objectsPerFrame[frameIndex])
    /\ pc = "assign" => Len(objectsPerFrame[frameIndex]) = obj - 1
    /\ pc = "sweep" => obj = Len(currentFrameObjects) + 1
    /\ \A k \in 1..obj - 1 : \E i \in Points :
         /\ trackingPoints[i] = currentFrameObjects[k].centre
         /\ pointIds[i] = objectsPerFrame[frameIndex][k].id
         /\ lastSeen[i] = frameIndex

MatchInv == NothingAhead /\ Matched

\* A point whose object is reported in this frame, and that the sweep has not
\* passed yet, stands on the centre of the detection it was reported for.
Standing ==
  InFrame =>
    \A i \in Points :
      pointIds[i] \in Now /\ (pc = "sweep" => pIndex <= i)
        => \E k \in 1..obj - 1 : trackingPoints[i] = currentFrameObjects[k].centre

\* What is reported has a trajectory, so a new object's id was never reported.
ReportsKnown ==
  \A f \in 1..MaxFrame : Ids(objectsPerFrame[f]) \subseteq DOMAIN trajectories

\* The frame up to which the misses of point i have been counted.
CountedTo(i) == IF pc \in {"sweep", "crashed"} /\ i < pIndex THEN frameIndex
                                                             ELSE frameIndex - 1

\* A counter never falls behind the frames its point was not matched in ...
MissesCounted == \A i \in Points : CountedTo(i) - lastSeen[i] <= missCounter[i]

\* ... nor gets more than one ahead of them, the frame of the match itself.
MissesDeserved == \A i \in Points : missCounter[i] <= CountedTo(i) + 1 - lastSeen[i]

\* The sweep marks just the points whose counter has reached the threshold, and
\* none of those is left when it is over.
Marked ==
  /\ pc = "assign" => toRemove = {}
  /\ pc = "sweep" => toRemove = {i \in 1..pIndex - 1 : missCounter[i] >= ForgetThreshold}
  /\ pc \in {"idle", "read", "check"} => \A i \in Points : missCounter[i] < ForgetThreshold

=============================================================================
