---------------------------- MODULE MCImageModel ----------------------------
(* Two sizes that have the same area, and one, a column, that has not. *)
EXTENDS ImageModel

Flat   == [w |-> 3, h |-> 2]
Tall   == [w |-> 2, h |-> 3]
Column == [w |-> 1, h |-> 4]

MCSizes == {Flat, Tall, Column}

Whole(size) == [size |-> size, continuous |-> TRUE]
View(size)  == [size |-> size, continuous |-> FALSE]

MCBatches == {
  <<>>,
  <<Whole(Flat)>>, <<Whole(Flat), Whole(Flat)>>,
  <<Whole(Tall), Whole(Tall)>>, <<Whole(Column), View(Column)>>,
  <<Whole(Tall), Whole(Flat)>>, <<Whole(Column), Whole(Flat)>>,
  <<Whole(Flat), View(Flat)>> }
=============================================================================
