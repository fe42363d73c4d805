------------------------------ MODULE FlowGrid ------------------------------
(***************************************************************************)
(* OpticalFlowMotionDetector::detect: one loop lays out a grid of points,  *)
(* the optical flow moves them, and a second loop with other bounds walks  *)
(* points, answers and result cells with one running index.                *)
(*                                                                         *)
(* The loops agree when the block size divides the frame.  The model runs  *)
(* them on every small frame and every small block size.                   *)
(***************************************************************************)
EXTENDS Integers, Sequences

CONSTANTS Rows, Cols, BlockSizes   \* frames and block sizes tried

ASSUME FlowGridAssumption ==
  /\ Rows \subseteq Nat /\ Cols \subseteq Nat
  /\ BlockSizes \subseteq Nat \ {0}   \* a step of 0 never ends

VARIABLES
  rows, cols, blockSize,   \* of curFrame, of the detector
  y, x,                    \* both loops
  prevPoints,
  i,                       \* the running index of the second loop
  result,                  \* the cell set last and the index it was set from
  cellsSet,                \* how many were
  gridPc                       \* "points", "cells", "done", or "overrun": a read or
                           \* write past the end of a vector or of the result

sizes == <<rows, cols, blockSize>>
gridVars == <<sizes, y, x, prevPoints, i, result, cellsSet, gridPc>>

Cell   == [y: Nat, x: Nat, i: Nat]
NoCell == [y |-> 0, x |-> 0, i |-> 0]   \* result is zero everywhere

\* Mutant: the first point is in the middle of the second block.
FirstPointLate(size) == size + size \div 2 - 1

FirstPoint(size) == size \div 2 - 1

GridTypeOK ==
  /\ rows \in Nat /\ cols \in Nat /\ blockSize \in Nat \ {0}
  /\ y \in Int /\ x \in Int
  /\ prevPoints \in Seq([y: Int, x: Int])   \* -1 if the blocks are single pixels
  /\ i \in Nat /\ result \in Cell /\ cellsSet \in Nat
  /\ gridPc \in {"points", "cells", "done", "overrun"}
  /\ gridPc = "cells" => y \in Nat /\ x \in Nat

GridInit ==
  /\ rows \in Rows /\ cols \in Cols /\ blockSize \in BlockSizes
  /\ y = FirstPoint(blockSize) /\ x = FirstPoint(blockSize)
  /\ prevPoints = <<>> /\ i = 0 /\ result = NoCell /\ cellsSet = 0 /\ gridPc = "points"

-----------------------------------------------------------------------------
AddPoint ==
  /\ gridPc = "points" /\ y < rows /\ x < cols
  /\ prevPoints' = Append(prevPoints, [y |-> y, x |-> x])
  /\ x' = x + blockSize
  /\ UNCHANGED <<sizes, y, i, result, cellsSet, gridPc>>

NextPointRow ==
  /\ gridPc = "points" /\ y < rows /\ x >= cols
  /\ y' = y + blockSize
  /\ x' = FirstPoint(blockSize)
  /\ UNCHANGED <<sizes, prevPoints, i, result, cellsSet, gridPc>>

\* calcOpticalFlowPyrLK answers with as many points, statuses and errors.
PointsDone ==
  /\ gridPc = "points" /\ y >= rows
  /\ gridPc' = "cells"
  /\ y' = 0 /\ x' = 0
  /\ UNCHANGED <<sizes, prevPoints, i, result, cellsSet>>

InResult(r, c) == r < rows \div blockSize /\ c < cols \div blockSize

\* Mutant: result is indexed by pixel.
CellAtPixel == [y |-> y, x |-> x, i |-> i]

CellAt == [y |-> y \div blockSize, x |-> x \div blockSize, i |-> i]

\* status[i] and err[1] are good: the flow was found, and the error of the
\* second point, whichever point this is, is small.
SetCell ==
  /\ gridPc = "cells" /\ y < rows /\ x < cols
  /\ i < Len(prevPoints)
  /\ IF Len(prevPoints) > 1 /\ InResult(CellAt.y, CellAt.x)
     THEN result' = CellAt /\ cellsSet' = cellsSet + 1 /\ gridPc' = gridPc
     ELSE gridPc' = "overrun" /\ UNCHANGED <<result, cellsSet>>
  /\ x' = x + blockSize
  /\ i' = i + 1
  /\ UNCHANGED <<sizes, y, prevPoints>>

\* Mutant: only good answers advance the index.
LeaveCellBehind ==
  /\ gridPc = "cells" /\ y < rows /\ x < cols
  /\ i < Len(prevPoints)
  /\ x' = x + blockSize
  /\ UNCHANGED <<sizes, y, prevPoints, i, result, cellsSet, gridPc>>

\* status[i] is bad, or err[1] is read and is not small; with a single point
\* err[1] is past the end, and what lies there may be anything.
LeaveCell ==
  /\ gridPc = "cells" /\ y < rows /\ x < cols
  /\ i < Len(prevPoints)
  /\ x' = x + blockSize
  /\ i' = i + 1
  /\ UNCHANGED <<sizes, y, prevPoints, result, cellsSet, gridPc>>

\* No point has this index.
ReadPastPoints ==
  /\ gridPc = "cells" /\ y < rows /\ x < cols
  /\ i >= Len(prevPoints)
  /\ gridPc' = "overrun"
  /\ UNCHANGED <<sizes, y, x, prevPoints, i, result, cellsSet>>

NextCellRow ==
  /\ gridPc = "cells" /\ y < rows /\ x >= cols
  /\ y' = y + blockSize
  /\ x' = 0
  /\ UNCHANGED <<sizes, prevPoints, i, result, cellsSet, gridPc>>

\* The pictures, copied here from curFrame to prevFrame, and what is drawn of the
\* result are data of the flow, which this module leaves out.
CellsDone ==
  /\ gridPc = "cells" /\ y >= rows
  /\ gridPc' = "done"
  /\ UNCHANGED <<sizes, y, x, prevPoints, i, result, cellsSet>>

\* The detector is shown another frame of the video.
NextFrame ==
  /\ gridPc = "done"
  /\ y' = FirstPoint(blockSize) /\ x' = FirstPoint(blockSize)
  /\ prevPoints' = <<>> /\ i' = 0 /\ result' = NoCell /\ cellsSet' = 0
  /\ gridPc' = "points"
  /\ UNCHANGED sizes

GridNext == AddPoint \/ NextPointRow \/ PointsDone \/ SetCell \/ LeaveCell \/ ReadPastPoints
            \/ NextCellRow \/ CellsDone \/ NextFrame

GridSpec == GridInit /\ [][GridNext]_gridVars

-----------------------------------------------------------------------------
Divides(n, m) == m % n = 0

\* A block size of at least 2 that divides the frame, and more than one block:
\* what both loops were written for.
Fits == /\ blockSize > 1
        /\ Divides(blockSize, rows) /\ Divides(blockSize, cols)
        /\ rows * cols > blockSize * blockSize

\* On a frame made of whole blocks no vector is read past its end and no cell
\* outside the result is written, though neither loop tests for it; every point
\* has been used when the loops are through.
WholeBlocksAreSafe ==
  Fits => /\ gridPc # "overrun"
          /\ gridPc = "done" => i = Len(prevPoints)

\* There the running index is right too: a cell shows the flow of a point that
\* lies in the cell's own block.
CellShowsItsOwnPoint ==
  Fits /\ cellsSet > 0 =>
    LET p == prevPoints[result.i + 1]
    IN  p.y \div blockSize = result.y /\ p.x \div blockSize = result.x

-----------------------------------------------------------------------------
(* Why: on a frame of whole blocks both loops are always at some block j   *)
(* of some row k of blocks, and number the blocks alike.                   *)

Down   == rows \div blockSize
Across == cols \div blockSize

AtBlock(k, j, offset) ==
  /\ y = offset + blockSize * k /\ x = offset + blockSize * j
  /\ k < Down \/ j = 0

\* The first loop has laid a point into every block up to where it is.
LayingOut ==
  gridPc = "points" =>
    /\ i = 0
    /\ \E k \in 0..Down, j \in 0..Across :
         AtBlock(k, j, FirstPoint(blockSize)) /\ Len(prevPoints) = k * Across + j

PointsInOrder ==
  \A k \in 0..Down - 1, j \in 0..Across - 1 :
    k * Across + j < Len(prevPoints) =>
      prevPoints[k * Across + j + 1] = [y |-> FirstPoint(blockSize) + blockSize * k,
                                        x |-> FirstPoint(blockSize) + blockSize * j]

\* The second loop is at the block its index says.
Walking ==
  /\ gridPc \in {"cells", "done"} => Len(prevPoints) = Down * Across
  /\ gridPc = "cells" => \E k \in 0..Down, j \in 0..Across :
                           AtBlock(k, j, 0) /\ i = k * Across + j
  /\ gridPc = "done" => i = Down * Across

CellIsBlock ==
  cellsSet > 0 =>
    /\ gridPc \in {"cells", "done"}
    /\ \E k \in 0..Down - 1, j \in 0..Across - 1 :
         result = [y |-> k, x |-> j, i |-> k * Across + j]

GridInv ==
  Fits => gridPc # "overrun" /\ LayingOut /\ PointsInOrder /\ Walking /\ CellIsBlock

=============================================================================
