------------------------ MODULE MCSilhouetteTraining ------------------------
(* Three positions in a row; the points stand still or move one to the right. *)
EXTENDS SilhouetteTraining

MCPosition == 1..3

Person(from, to) == [region |-> from..to, strong |-> TRUE]
Shadow == [region |-> MCPosition, strong |-> FALSE]

MCDetectionLists == {
  <<>>,
  <<Person(1, 2)>>,
  <<Person(3, 3), Person(1, 1)>>,
  <<Shadow, Person(2, 3)>> }

MCFlows == { [p \in MCPosition |-> p], [p \in MCPosition |-> IF p = 3 THEN 3 ELSE p + 1] }
=============================================================================
