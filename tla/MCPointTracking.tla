-------------------------- MODULE MCPointTracking --------------------------
(* Five positions in a row; the picture stands still, moves, or collapses. *)
EXTENDS PointTracking

MCPosition == 1..5
MCDist  == [p \in MCPosition |-> [q \in MCPosition |-> IF p < q THEN q - p ELSE p - q]]
MCFlows == { [p \in MCPosition |-> p],
             [p \in MCPosition |-> IF p = 5 THEN 5 ELSE p + 1],
             [p \in MCPosition |-> 3] }
=============================================================================
