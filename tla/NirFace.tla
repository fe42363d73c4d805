------------------------------ MODULE NirFace ------------------------------
(***************************************************************************)
(* nirFace: the sensor's thread calls onNewFrame, which converts a frame   *)
(* into listener.frame in place, row by row.  The main thread makes three  *)
(* views of listener.frame in each round of its loop.  Nothing keeps the   *)
(* two apart, so a view may be torn: its rows may belong to different      *)
(* frames.  The model says how badly.                                      *)
(*                                                                         *)
(* A row stands for whatever is written and read in one piece; its content *)
(* is the number of the frame it came from, 0 for the zeros it begins with.*)
(***************************************************************************)
EXTENDS Integers

CONSTANTS
  Height,     \* rows
  MaxFrames   \* bound: frames the sensor announces

ASSUME NirFaceAssumption == Height \in Nat \ {0} /\ MaxFrames \in Nat

Row  == 1..Height
View == {"eq", "clahe", "shown"}   \* equalized, clahed, the window "frame"

VARIABLES
  frame,      \* listener.frame
  announced,  \* callbacks so far
  current,    \* the frame that was read last, counting those that could be read
  row,        \* the row onNewFrame converts next, Height + 1 when it has returned
  views,      \* the rows of each view
  pc,         \* "key", the view being made, or "stopped"
  unread,     \* the rows of that view still to be read
  complete    \* history: the newest whole frame when that view was begun

listener == <<frame, announced, current, row>>
main     == <<views, pc, unread, complete>>
vars     == <<listener, main>>

TypeOK ==
  /\ frame \in [Row -> Nat]
  /\ announced \in 0..MaxFrames
  /\ current \in 0..announced
  /\ row \in 1..Height + 1
  /\ views \in [View -> [Row -> Nat]]
  /\ pc \in View \cup {"key", "stopped"}
  /\ unread \subseteq Row
  /\ complete \in Nat

Init ==
  /\ frame = [r \in Row |-> 0]
  /\ announced = 0 /\ current = 0 /\ row = Height + 1
  /\ views = [v \in View |-> [r \in Row |-> 0]]
  /\ pc = "key" /\ unread = {} /\ complete = 0

-----------------------------------------------------------------------------
(* The sensor's thread.                                                    *)

\* Mutant: callbacks overlap.
ReturnedOrNot == TRUE

\* Callbacks come one after the other.
Returned == row = Height + 1

\* stream.start() to stream.stop()
Announced == /\ Returned /\ announced < MaxFrames /\ pc # "stopped"
             /\ announced' = announced + 1

\* readFrame has a frame.
OnNewFrame ==
  /\ Announced
  /\ current' = current + 1
  /\ row' = 1
  /\ UNCHANGED <<frame, main>>

\* The stream is not valid, or readFrame fails.
OnNewFrameFails ==
  /\ Announced
  /\ UNCHANGED <<frame, current, row, main>>

\* Mutant: the last row is left out.
LastRow == IF row = Height THEN frame ELSE [frame EXCEPT ![row] = current]

Converted == [frame EXCEPT ![row] = current]

ConvertRow ==
  /\ row <= Height
  /\ frame' = Converted
  /\ row' = row + 1
  /\ UNCHANGED <<announced, current, main>>

-----------------------------------------------------------------------------
(* The main thread.                                                        *)

\* The order of the loop's body.
After(view) == CASE view = "eq" -> "clahe" [] view = "clahe" -> "shown"
                 [] view = "shown" -> "key"

\* The newest frame of which every row has been converted.
NewestWhole == IF Returned THEN current ELSE current - 1

Begin(view) == /\ pc' = view
               /\ unread' = IF view = "key" THEN {} ELSE Row
               /\ complete' = NewestWhole

Key ==
  /\ pc = "key"
  /\ Begin("eq")
  /\ UNCHANGED <<listener, views>>

Escape ==
  /\ pc = "key"
  /\ pc' = "stopped"
  /\ UNCHANGED <<listener, views, unread, complete>>

\* equalizeHist and CLAHE work on stripes and tiles in parallel; imshow copies
\* from the top to the bottom.
MayRead(r) == r \in unread /\ (pc = "shown" => \A s \in unread : r <= s)

ReadRow(r) ==
  /\ pc \in View /\ MayRead(r)
  /\ views' = [views EXCEPT ![pc][r] = frame[r]]
  /\ unread' = unread \ {r}
  /\ UNCHANGED <<listener, pc, complete>>

ViewDone ==
  /\ pc \in View /\ unread = {}
  /\ Begin(After(pc))
  /\ UNCHANGED <<listener, views>>

MainStep == Key \/ (\E r \in Row : ReadRow(r)) \/ ViewDone

Next == OnNewFrame \/ OnNewFrameFails \/ ConvertRow \/ MainStep \/ Escape

\* Both threads run: a callback that was entered goes on to its end, and the
\* main thread goes round its loop (waitKey(1) returns after a millisecond).
\* The sensor need not announce a frame, nor the user press Escape.
Fairness == WF_vars(ConvertRow) /\ WF_vars(MainStep)

Spec == Init /\ [][Next]_vars /\ Fairness

-----------------------------------------------------------------------------
\* A view is never older, in any row, than the frame that was whole when the
\* view was begun: however the threads interleave, it mixes that frame with
\* newer ones only.
ViewIsFresh ==
  pc \in View => \A r \in Row \ unread : views[pc][r] >= complete

\* What the window shows falls back by at most one frame from a row to a lower
\* one, though both threads work while it is copied.
TearIsOneFrameDeep ==
  \A r, s \in Row :
    r < s /\ (pc = "shown" => r \notin unread /\ s \notin unread)
    => views["shown"][s] >= views["shown"][r] - 1

\* Tearing is not for good: when the sensor falls silent and the loop goes on,
\* all three views become the last frame, whole.
ViewsSettle ==
  <>[](pc = "stopped" \/ \A v \in View, r \in Row : views[v][r] = current)

-----------------------------------------------------------------------------
(* Why the first two hold, for NirFace_proof.                              *)

\* The buffer mixes the current frame, above the row to be converted, with the
\* one before it.
BufferMixesTwo ==
  /\ current > 0 \/ Returned
  /\ \A r \in Row : frame[r] = IF r < row THEN current ELSE current - 1

\* No view is ahead of the buffer, and what was whole still is at least whole.
ViewsBehind ==
  /\ \A v \in View, r \in Row : views[v][r] <= current
  /\ complete <= NewestWhole

\* The window is copied from the top.
CopiedFromTop ==
  pc = "shown" => \A r \in unread, s \in Row \ unread : s < r

NirInv == /\ TypeOK /\ BufferMixesTwo /\ ViewsBehind /\ CopiedFromTop
          /\ ViewIsFresh /\ TearIsOneFrameDeep

=============================================================================
