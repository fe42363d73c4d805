------------------------------ MODULE TrackLog ------------------------------
(***************************************************************************)
(* What one call of ObjectTracker promises about identities, and nothing   *)
(* about pixels: ids are issued in the order objects appear, every object  *)
(* that is still live when a frame ends has been reported in it, and a     *)
(* forgotten object is never heard of again.  ObjectTracker implements     *)
(* this specification when it is used once and its detections are          *)
(* separated.                                                              *)
(***************************************************************************)
EXTENDS Integers, FiniteSets

CONSTANTS
  MaxFrame,  \* bound: frames after the first one of a video
  IdBound    \* bound: the ids there are (Nat where nothing is enumerated)

\* What is asked of the bounds; ObjectTracker's own assumption gives it.
LogBounds == MaxFrame \in Nat /\ IdBound \subseteq Nat

VARIABLES
  frame,   \* the frame being worked on; frame 0 is only looked back at
  issued,  \* ids 0..issued - 1 have been given out
  live,    \* ids of the objects that are tracked
  log      \* log[f]: the ids reported in frame f

logVars == <<frame, issued, live, log>>

LogTypeOK ==
  /\ frame \in 1..MaxFrame + 1
  /\ issued \in Nat
  /\ live \subseteq 0..issued - 1
  /\ log \in [0..MaxFrame -> SUBSET (0..issued - 1)]

LogInit ==
  /\ frame = 1 /\ issued = 0 /\ live = {}
  /\ log = [f \in 0..MaxFrame |-> {}]

Report(id) ==
  /\ frame <= MaxFrame
  /\ id \in live
  /\ log' = [log EXCEPT ![frame] = @ \cup {id}]
  /\ UNCHANGED <<frame, issued, live>>

Issue ==
  /\ frame <= MaxFrame
  /\ issued \in IdBound
  /\ issued' = issued + 1
  /\ live' = live \cup {issued}
  /\ log' = [log EXCEPT ![frame] = @ \cup {issued}]
  /\ UNCHANGED frame

EndFrame ==
  /\ frame <= MaxFrame
  /\ live \subseteq log[frame]
  /\ live' \in SUBSET live
  /\ frame' = frame + 1
  /\ UNCHANGED <<issued, log>>

LogNext == (\E id \in live : Report(id)) \/ Issue \/ EndFrame

LogSpec == LogInit /\ [][LogNext]_logVars

-----------------------------------------------------------------------------
\* An object's reports have no hole: it is reported in every frame between
\* any two frames it is reported in.
Unbroken ==
  \A f, g, h \in 0..MaxFrame :
    f < g /\ g < h => log[f] \cap log[h] \subseteq log[g]

\* A live object was reported in the frame before, or was never reported
\* before this frame.
LiveIsCurrent ==
  \A id \in live : id \in log[frame - 1] \/ \A f \in 0..frame - 1 : id \notin log[f]

\* What is reported in this frame, or still to be, is a live object's.
NothingAhead ==
  \A f \in 0..MaxFrame : /\ f >= frame => log[f] \subseteq live
                         /\ f > frame => log[f] = {}

\* The strengthening of Unbroken that every step preserves.
LogInv == LogTypeOK /\ Unbroken /\ LiveIsCurrent /\ NothingAhead

=============================================================================
