-------------------------- MODULE MCObjectTracker --------------------------
(***************************************************************************)
(* A one-dimensional instance of ObjectTracker.  A pixel is three units    *)
(* wide; a point is on a pixel (3k) or two thirds of the way to the next   *)
(* (3k + 2), where truncating and rounding disagree.                       *)
(***************************************************************************)
EXTENDS ObjectTracker

CONSTANT Pixels   \* the frame's width

MCPixel    == {3 * k : k \in 0..Pixels - 1}
MCPosition == MCPixel \cup {p + 2 : p \in MCPixel}

Limit(p) == IF p > 3 * (Pixels - 1) + 2 THEN 3 * (Pixels - 1) + 2 ELSE p

MCTrunc == [p \in MCPosition |-> 3 * (p \div 3)]
MCRound == [p \in MCPosition |-> IF 3 * ((p + 1) \div 3) \in MCPixel
                                 THEN 3 * ((p + 1) \div 3) ELSE 3 * (p \div 3)]
MCDist  == [p \in MCPosition |-> [q \in MCPosition |-> IF p < q THEN q - p ELSE p - q]]

\* A frame without movement, one that drifts right by part of a pixel, and one
\* in which everything is lost on one spot.
Still    == [p \in MCPosition |-> p]
Drift    == [p \in MCPosition |-> IF p % 3 = 0 THEN p + 2 ELSE Limit(p + 1)]
Collapse == [p \in MCPosition |-> 3]
MCFlows  == {Still, Drift, Collapse}
MCCalmFlows == {Still, Drift}

MCGarbageIds == {-1}

At(k, from, to) == [centre |-> 3 * k, region |-> {3 * j : j \in from..to}]

\* Detections whose rectangles avoid each other's centres.
SeparatedLists == {
  <<>>,
  <<At(1, 0, 2)>>,
  <<At(0, 0, 1), At(2, 1, 3)>>,
  <<At(3, 2, 3), At(1, 0, 2)>> }

\* The second detection's rectangle covers the centre of the first.
OverlappingLists == {
  <<>>,
  <<At(2, 2, 2), At(3, 3, 3)>>,
  <<At(2, 1, 3), At(0, 0, 2)>> }
=============================================================================
