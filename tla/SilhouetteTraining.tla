------------------------- MODULE SilhouetteTraining -------------------------
(***************************************************************************)
(* bigGunDetectionTraining: the user labels people in a video by clicking  *)
(* on them, left for positive and right for negative.  A click becomes a   *)
(* point that is tracked from frame to frame; a detection that contains a  *)
(* point yields a training sample with the point's label, and a point that *)
(* has missed missLimit detections is removed.                             *)
(*                                                                         *)
(* Everything runs on one thread: mouse callbacks are delivered by waitKey, *)
(* after the next frame was read and before it is processed, so the user   *)
(* clicks on the frame that is still on the screen.                        *)
(***************************************************************************)
EXTENDS Integers, Sequences, FiniteSets

CONSTANTS
  Position,        \* where a point can be
  DetectionLists,  \* what peopleDetect may return for a frame
  Flows,           \* displacement fields the LK tracker may apply
  MissLimit,       \* misses after which a point is removed (20 in the code)
  MaxFrames,       \* bound: frames of the video
  MaxClicks        \* bound: clicks of the user

\* A detection: the positions that round into its rectangle, and whether its
\* score is above 1.
Detection == [region: SUBSET Position, strong: BOOLEAN]

ASSUME TrainingAssumption ==
  /\ DetectionLists \subseteq Seq(Detection)
  /\ Flows \subseteq [Position -> Position]
  /\ MissLimit \in Nat \ {0}
  /\ MaxFrames \in Nat
  /\ MaxClicks \in Nat

VARIABLES
  \* SiluetteExtractionData
  pointsToTrack, pointsFlag, pointsMissCounter,   \* parallel vectors
  lastDetect, trainDataFlags,
  prevFrame, frame,    \* which frames prevBgrFrame and bgrFrame hold, from 1
  \* Where the main loop is, and its locals.
  pc, toDelete, det,
  \* History.
  shown,       \* the frame on the screen, 0 before there is one
  labels,      \* labels[c]: what the c-th click of the session said
  looks,       \* detections getFlag was asked for a label of, so far
  clicks,      \* for every point: which click it is,
  matchedAt,   \*   how far looks was when it was made or last matched,
  asOf         \*   and the frame its position refers to

vectors == <<pointsToTrack, pointsFlag, pointsMissCounter, clicks, matchedAt, asOf>>
vars == <<vectors, lastDetect, trainDataFlags, prevFrame, frame, pc, toDelete,
          det, shown, labels, looks>>

Points == DOMAIN pointsToTrack

\* The parallel vectors stay aligned, and cleaning knows the points it removes.
TypeOK ==
  /\ pointsToTrack \in Seq(Position)
  /\ pointsFlag \in Seq(BOOLEAN) /\ Len(pointsFlag) = Len(pointsToTrack)
  /\ pointsMissCounter \in Seq(Nat) /\ Len(pointsMissCounter) = Len(pointsToTrack)
  /\ clicks \in Seq(Nat) /\ Len(clicks) = Len(pointsToTrack)
  /\ matchedAt \in Seq(Nat) /\ Len(matchedAt) = Len(pointsToTrack)
  /\ asOf \in Seq(Nat) /\ Len(asOf) = Len(pointsToTrack)
  /\ labels \in Seq(BOOLEAN)
  /\ trainDataFlags \in Seq(BOOLEAN)
  /\ lastDetect \in Seq(Detection)
  /\ prevFrame \in Nat /\ frame \in Nat /\ shown \in Nat /\ looks \in Nat
  /\ pc \in {"read", "wait", "clean", "label", "done"}
  /\ toDelete \subseteq Points
  /\ det \in 1..Len(lastDetect) + 1

Init ==
  /\ pointsToTrack = <<>> /\ pointsFlag = <<>> /\ pointsMissCounter = <<>>
  /\ lastDetect = <<>> /\ trainDataFlags = <<>>
  /\ prevFrame = 0 /\ frame = 0
  /\ pc = "read" /\ toDelete = {} /\ det = 1
  /\ shown = 0 /\ looks = 0 /\ labels = <<>>
  /\ clicks = <<>> /\ matchedAt = <<>> /\ asOf = <<>>

-----------------------------------------------------------------------------
\* Mutant: the frame is remembered after the next one was read.
PrevAfterRead == frame + 1

\* What readFrame keeps as the previous frame; the first is its own.
Prev == IF frame = 0 THEN 1 ELSE frame

ReadFrame ==
  /\ pc = "read" /\ frame < MaxFrames
  /\ prevFrame' = Prev
  /\ frame' = frame + 1
  /\ pc' = "wait"
  /\ UNCHANGED <<vectors, lastDetect, trainDataFlags, toDelete, det, shown, labels,
                 looks>>

\* The video is over, or the user presses Escape.
Stop ==
  /\ pc \in {"read", "wait"}
  /\ pc' = "done"
  /\ UNCHANGED <<vectors, lastDetect, trainDataFlags, prevFrame, frame, toDelete,
                 det, shown, labels, looks>>

\* siluetteExtraction_onMouse, called by waitKey.
OnMouse(p, positive) ==
  /\ pc = "wait" /\ Len(labels) < MaxClicks
  /\ pointsToTrack' = Append(pointsToTrack, p)
  /\ pointsFlag' = Append(pointsFlag, positive)
  /\ pointsMissCounter' = Append(pointsMissCounter, 0)
  /\ labels' = Append(labels, positive)
  /\ clicks' = Append(clicks, Len(labels) + 1)
  /\ matchedAt' = Append(matchedAt, looks)
  /\ asOf' = Append(asOf, shown)
  /\ UNCHANGED <<lastDetect, trainDataFlags, prevFrame, frame, pc, toDelete, det,
                 shown, looks>>

\* Mutant: one miss too many is tolerated.
ExpiredLate == {i \in Points : pointsMissCounter[i] > MissLimit}

\* The points cleanPoints removes.
Expired == {i \in Points : pointsMissCounter[i] >= MissLimit}

\* People are detected and the points follow from prevFrame to frame.
DetectAndTrack ==
  /\ pc = "wait"
  /\ lastDetect' \in DetectionLists
  /\ \E flow \in Flows : pointsToTrack' = [i \in Points |-> flow[pointsToTrack[i]]]
  /\ asOf' = [i \in Points |-> frame]
  /\ toDelete' = Expired
  /\ det' = 1
  /\ pc' = "clean"
  /\ UNCHANGED <<pointsFlag, pointsMissCounter, clicks, matchedAt, trainDataFlags,
                 prevFrame, frame, shown, labels, looks>>

\* vector::erase
Erased(s, i) == [j \in 1..Len(s) - 1 |-> IF j < i THEN s[j] ELSE s[j + 1]]

\* Mutant: the indices are not reversed.
IsNextFirst(i) == i \in toDelete /\ \A j \in toDelete : i <= j

\* The indices are reversed, so that an erasure does not shift the next one.
IsNext(i) == i \in toDelete /\ \A j \in toDelete : j <= i

Erase(i) ==
  /\ pointsToTrack' = Erased(pointsToTrack, i)
  /\ pointsFlag' = Erased(pointsFlag, i)
  /\ pointsMissCounter' = Erased(pointsMissCounter, i)
  /\ clicks' = Erased(clicks, i)
  /\ matchedAt' = Erased(matchedAt, i)
  /\ asOf' = Erased(asOf, i)

\* One pass of the loop over toDelete.
ErasePoint ==
  /\ pc = "clean"
  /\ \E i \in toDelete : IsNext(i) /\ Erase(i) /\ toDelete' = toDelete \ {i}
  /\ UNCHANGED <<lastDetect, trainDataFlags, prevFrame, frame, pc, det, shown, labels,
                 looks>>

CleanPointsDone ==
  /\ pc = "clean" /\ toDelete = {}
  /\ pc' = "label"
  /\ UNCHANGED <<vectors, lastDetect, trainDataFlags, prevFrame, frame, toDelete,
                 det, shown, labels, looks>>

-----------------------------------------------------------------------------
(* getFlag, for one detection after the other.                             *)

Inside == {i \in Points : pointsToTrack[i] \in lastDetect[det].region}

\* Mutant: the last point in the rectangle.
IsLastInside(i) == i \in Inside /\ \A j \in Inside : j <= i

IsFirstInside(i) == i \in Inside /\ \A j \in Inside : i <= j

\* Mutant: a match does not clear the misses.
MissesAdded(i) ==
  [j \in Points |-> IF j <= i THEN pointsMissCounter[j] + 1 ELSE pointsMissCounter[j]]

\* Mutant: the search goes on behind the point that was found.
MissesBehind(i) ==
  [j \in Points |-> IF j = i THEN 0
                    ELSE IF j > i THEN pointsMissCounter[j] + 1 ELSE pointsMissCounter[j]]

\* The points up to the first one inside; that one's counter starts again.
MissesUntil(i) ==
  [j \in Points |-> IF j = i THEN 0
                    ELSE IF j < i THEN pointsMissCounter[j] + 1 ELSE pointsMissCounter[j]]

NextDetection == /\ det' = det + 1
                 /\ UNCHANGED <<pointsToTrack, pointsFlag, clicks, asOf, lastDetect,
                                prevFrame, frame, pc, toDelete, shown, labels>>

Labelling == pc = "label" /\ det <= Len(lastDetect)

SkipWeak ==
  /\ Labelling /\ ~lastDetect[det].strong
  /\ NextDetection
  /\ UNCHANGED <<pointsMissCounter, matchedAt, trainDataFlags, looks>>

TakeSample ==
  /\ Labelling /\ lastDetect[det].strong
  /\ \E i \in Points :
       /\ IsFirstInside(i)
       /\ pointsMissCounter' = MissesUntil(i)
       /\ matchedAt' = [matchedAt EXCEPT ![i] = looks + 1]
       /\ trainDataFlags' = Append(trainDataFlags, pointsFlag[i])
  /\ looks' = looks + 1
  /\ NextDetection

NoLabel ==
  /\ Labelling /\ lastDetect[det].strong /\ Inside = {}
  /\ pointsMissCounter' = [j \in Points |-> pointsMissCounter[j] + 1]
  /\ looks' = looks + 1
  /\ NextDetection
  /\ UNCHANGED <<matchedAt, trainDataFlags>>

ShowFrame ==
  /\ pc = "label" /\ det = Len(lastDetect) + 1
  /\ shown' = frame
  /\ pc' = "read"
  /\ UNCHANGED <<vectors, lastDetect, trainDataFlags, prevFrame, frame, toDelete,
                 det, labels, looks>>

Next ==
  \/ ReadFrame \/ Stop \/ DetectAndTrack \/ ErasePoint \/ CleanPointsDone
  \/ SkipWeak \/ TakeSample \/ NoLabel \/ ShowFrame
  \/ \E p \in Position, positive \in BOOLEAN : OnMouse(p, positive)

Spec == Init /\ [][Next]_vars

-----------------------------------------------------------------------------
\* A sample is labelled by the earliest click that is still alive among those
\* in the detection, however many labels were removed before it: removal
\* keeps the labels in the order, and with the points, of their clicks.
OldestLabelWins ==
  [][trainDataFlags' # trainDataFlags =>
       \E i \in Inside :
         /\ \A j \in Inside : clicks[i] <= clicks[j]
         /\ trainDataFlags' = Append(trainDataFlags, labels[clicks[i]])]_vars

\* A point is only removed for its own misses: an erasure before it in the
\* vectors does not make it the victim of another's.
ForgetsOnlyExpired ==
  [][\A i \in Points :
       (\A j \in DOMAIN clicks' : clicks'[j] # clicks[i])
         => pointsMissCounter[i] >= MissLimit]_vars

\* When the detections of a frame are labelled, no point is left that was due.
ExpiredAreGone ==
  pc = "label" /\ det = 1 => \A i \in Points : pointsMissCounter[i] < MissLimit

\* Misses are counted once per detection and not once per frame, so in a
\* crowd a label dies early; but one detection is one miss at most: a point
\* goes only when getFlag was asked for the label of MissLimit detections or
\* more since its click or its last match.  Empty frames and weak detections
\* do not count.
NotRemovedSoon ==
  pc = "clean" => \A i \in toDelete : looks - matchedAt[i] >= MissLimit

\* Counting stops at the first point found, so the points behind it get off;
\* the order they stand in never works against the older one, though: of two
\* points the one that was clicked first, and was not matched since the other
\* was clicked or matched, has as many misses at least.
OlderGoesFirst ==
  \A i, j \in Points :
    i < j /\ matchedAt[i] <= matchedAt[j] => pointsMissCounter[i] >= pointsMissCounter[j]

\* A point is tracked from the frame it was clicked on: although the next
\* frame has been read by the time the callback runs, the frame on the screen
\* is the one kept as the previous one.  (0: a click before anything is shown.)
TrackedFromShownFrame ==
  pc = "wait" => \A i \in Points : asOf[i] \in {0, prevFrame}

-----------------------------------------------------------------------------
(* Why they hold, for Training_proof: TrainingInv for the first three,     *)
(* LifeInv for the others.                                                 *)

\* The vectors keep the order of the clicks, and each flag its click's label.
Ordered ==
  /\ \A i, j \in Points : i < j => clicks[i] < clicks[j]
  /\ \A i \in Points : /\ clicks[i] \in DOMAIN labels
                       /\ pointsFlag[i] = labels[clicks[i]]

\* While points are erased, the indices not yet erased are those still due.
Due ==
  /\ pc # "clean" => toDelete = {}
  /\ \A i \in toDelete : pointsMissCounter[i] >= MissLimit
  /\ pc = "clean" => \A i \in Points \ toDelete : pointsMissCounter[i] < MissLimit

TrainingInv == TypeOK /\ Ordered /\ Due /\ ExpiredAreGone

\* Between frames the window shows the frame kept last, and every point has
\* been moved to it.
Aligned ==
  /\ pc = "read" => shown = frame
  /\ pc = "wait" => shown \in {0, prevFrame}
  /\ pc \in {"read", "clean", "label"} => \A i \in Points : asOf[i] = frame
  /\ TrackedFromShownFrame

\* One miss at most for every detection since the click or the last match.
MissesBounded ==
  \A i \in Points : /\ matchedAt[i] <= looks
                    /\ pointsMissCounter[i] <= looks - matchedAt[i]

LifeInv == TrainingInv /\ Aligned /\ MissesBounded /\ OlderGoesFirst

=============================================================================
