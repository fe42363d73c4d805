--------------------------- MODULE PointTracking ---------------------------
(***************************************************************************)
(* pointTracking: the user clicks points onto a video, which are tracked   *)
(* from frame to frame, and takes the nearest one away with a right click. *)
(* The callback shares the points with the main loop and is called by      *)
(* waitKey: before the next frame is read and, when the video is paused,   *)
(* a second time after it was read.  Both times the window still shows the *)
(* frame before.                                                           *)
(***************************************************************************)
EXTENDS Integers, Sequences

CONSTANTS
  Position,    \* where a point can be
  Dist,        \* Helpers::euclDist
  Flows,       \* displacement fields the LK tracker may apply
  MaxFrames,   \* bound: frames of the video
  MaxClicks    \* bound: left clicks

ASSUME PointAssumption ==
  /\ Dist \in [Position -> [Position -> Nat]]
  /\ Flows \subseteq [Position -> Position]
  /\ MaxFrames \in Nat \ {0}
  /\ MaxClicks \in Nat

VARIABLES
  points,
  prev, frame,   \* the frames prev and frame hold, from 1
  pc,            \* "wait" and "pause" are inside waitKey
  \* History.
  shown,         \* the frame in the window, 0 before there is one
  clicks,        \* left clicks so far
  ages,          \* for every point: the number of its click,
  asOf,          \*   and the frame its position refers to
  rightClick     \* where the last right click was

loop == <<prev, frame, pc, shown>>
vars == <<points, loop, clicks, ages, asOf, rightClick>>

TypeOK ==
  /\ points \in Seq(Position)
  /\ ages \in Seq(Nat) /\ Len(ages) = Len(points)
  /\ asOf \in Seq(Nat) /\ Len(asOf) = Len(points)
  /\ prev \in 1..MaxFrames /\ frame \in 1..MaxFrames /\ shown \in 0..MaxFrames
  /\ pc \in {"wait", "pause", "track", "done"}
  /\ clicks \in Nat /\ rightClick \in Position

\* The first frame is read before the loop, and is not shown.
Init ==
  /\ points = <<>> /\ ages = <<>> /\ asOf = <<>>
  /\ prev = 1 /\ frame = 1 /\ pc = "wait"
  /\ shown = 0 /\ clicks = 0 /\ rightClick \in Position

-----------------------------------------------------------------------------
(* onMouse, called by waitKey.                                             *)

LeftClick(p) ==
  /\ pc \in {"wait", "pause"} /\ clicks < MaxClicks
  /\ points' = Append(points, p)
  /\ clicks' = clicks + 1
  /\ ages' = Append(ages, clicks + 1)
  /\ asOf' = Append(asOf, shown)
  /\ UNCHANGED <<loop, rightClick>>

\* Mutant: a point that is just as near takes over.
NearestIndexLast(p) ==
  LET nearest[i \in 0..Len(points)] ==
        IF i = 0 THEN 0
        ELSE LET best == nearest[i - 1]
             IN  IF best # 0 /\ Dist[p][points[i]] > Dist[p][points[best]]
                   THEN best ELSE i
  IN  nearest[Len(points)]

\* The index of the nearest point so far, as the loop goes on; 0 if there is
\* none.
NearestIndex(p) ==
  LET nearest[i \in 0..Len(points)] ==
        IF i = 0 THEN 0
        ELSE LET best == nearest[i - 1]
             IN  IF best # 0 /\ Dist[p][points[i]] >= Dist[p][points[best]]
                   THEN best ELSE i
  IN  nearest[Len(points)]

\* remove: a copy without the i-th element.
Without(s, i) == [k \in 1..Len(s) - 1 |-> IF k < i THEN s[k] ELSE s[k + 1]]

RightClick(p) ==
  /\ pc \in {"wait", "pause"}
  /\ rightClick' = p
  /\ LET i == NearestIndex(p)
     IN  IF i = 0 THEN UNCHANGED <<points, ages, asOf>>
                  ELSE /\ points' = Without(points, i)
                       /\ ages' = Without(ages, i)
                       /\ asOf' = Without(asOf, i)
  /\ UNCHANGED <<loop, clicks>>

-----------------------------------------------------------------------------
(* The main loop.                                                          *)

\* Mutant: the new frame is shown when it is read.
ShownOnRead == frame + 1

ShownSoFar == shown

\* A frame is read after waitKey; the space bar then pauses.
ReadFrame ==
  /\ pc = "wait" /\ frame < MaxFrames
  /\ frame' = frame + 1
  /\ shown' = ShownSoFar
  /\ pc' \in {"pause", "track"}
  /\ UNCHANGED <<points, prev, clicks, ages, asOf, rightClick>>

Resume ==
  /\ pc = "pause" /\ pc' = "track"
  /\ UNCHANGED <<points, prev, frame, shown, clicks, ages, asOf, rightClick>>

\* Escape, or the end of the video.
Stop ==
  /\ pc = "wait" /\ pc' = "done"
  /\ UNCHANGED <<points, prev, frame, shown, clicks, ages, asOf, rightClick>>

\* The points follow from prev to frame, and frame is shown.
Track ==
  /\ pc = "track"
  /\ \E flow \in Flows : points' = [i \in DOMAIN points |-> flow[points[i]]]
  /\ asOf' = [i \in DOMAIN points |-> frame]
  /\ shown' = frame
  /\ prev' = frame
  /\ pc' = "wait"
  /\ UNCHANGED <<frame, clicks, ages, rightClick>>

Next ==
  \/ \E p \in Position : LeftClick(p) \/ RightClick(p)
  \/ ReadFrame \/ Resume \/ Stop \/ Track

Spec == Init /\ [][Next]_vars

-----------------------------------------------------------------------------
\* A right click takes away the nearest of all points, the oldest of them if
\* there are several, points that are not drawn yet included; and whatever else
\* happens, no other point ever goes, and the others keep their order.
OldestNearestGoes ==
  [][\A i \in DOMAIN ages :
       (\A j \in DOMAIN ages' : ages'[j] # ages[i]) =>
         /\ \A j \in DOMAIN points \ {i} :
              LET near(k) == Dist[rightClick'][points[k]]
              IN  near(i) < near(j) \/ (near(i) = near(j) /\ ages[i] < ages[j])
         /\ Len(ages') = Len(ages) - 1
         /\ \A k \in DOMAIN ages' : ages'[k] = ages[IF k < i THEN k ELSE k + 1]]_vars

\* Every point is tracked from the frame it belongs to, also one that was
\* clicked in a pause, when the next frame has been read.  (0: a click before
\* anything was shown.)
TrackedFromItsFrame ==
  pc = "track" => \A i \in DOMAIN asOf : asOf[i] \in {0, prev}

-----------------------------------------------------------------------------
(* Why.                                                                    *)

\* Points lie in the order of their clicks.
InOrderOfClicks ==
  /\ \A i \in DOMAIN ages : ages[i] <= clicks
  /\ \A i, j \in DOMAIN ages : i < j => ages[i] < ages[j]

\* What is in the window is what will be tracked from, whatever frame has been
\* read since.
WindowIsPrev ==
  /\ shown \in {0, prev}
  /\ \A i \in DOMAIN asOf : asOf[i] \in {0, prev}

=============================================================================
