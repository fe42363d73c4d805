----------------------------- MODULE Anotation -----------------------------
(***************************************************************************)
(* Helpers::Anotation::anotateRegions: the user steps through a video and  *)
(* selects textures.  Two clicks span a rectangle, a third one inside it   *)
(* confirms it and cuts the texture out of the current frame; a third one  *)
(* outside drops it.  A key shows the next frame and forgets a selection   *)
(* that was not finished.                                                  *)
(*                                                                         *)
(* One thread: the mouse callback runs inside waitKey.                     *)
(***************************************************************************)
EXTENDS Integers, Sequences

CONSTANTS
  Width, Height,   \* of the frames
  MaxFrames,       \* bound: frames of the video
  MaxClicks        \* bound: clicks of the user

ASSUME AnotationAssumption ==
  /\ Width \in Nat \ {0}
  /\ Height \in Nat \ {0}
  /\ MaxFrames \in Nat
  /\ MaxClicks \in Nat

VARIABLES
  state, firstPoint, secondPoint, currentFrame, result,   \* AnotationData
  pc,        \* where anotateRegions is
  screen,    \* what draw() put on the screen: the frame and the marks on it
  clicks,    \* of the user so far
  firstOn, secondOn   \* history: the frames the last two corners were set on

data == <<state, firstPoint, secondPoint, currentFrame, result>>
vars == <<data, pc, screen, clicks, firstOn, secondOn>>

Pixel == [x: 0..Width - 1, y: 0..Height - 1]
Rect  == [x: 0..Width - 1, y: 0..Height - 1, width: 0..Width - 1, height: 0..Height - 1]

\* A texture, with the frames its corners were set on.
Texture == [rect: Rect, frame: Nat, corners: Nat \X Nat]

Screen == [frame: Nat, marks: Seq(Pixel)]

TypeOK ==
  /\ state \in {"Waiting", "FirstClick", "SecondClick"}
  /\ firstPoint \in Pixel /\ secondPoint \in Pixel
  /\ currentFrame \in 0..MaxFrames
  /\ result \in Seq(Texture)
  /\ pc \in {"read", "wait", "done"}
  /\ screen \in Screen
  /\ clicks \in 0..MaxClicks
  /\ firstOn \in 0..MaxFrames /\ secondOn \in 0..MaxFrames

Origin == [x |-> 0, y |-> 0]

Init ==
  /\ state = "Waiting"
  /\ firstPoint = Origin /\ secondPoint = Origin   \* cv::Point()
  /\ currentFrame = 0 /\ result = <<>>
  /\ pc = "read"
  /\ screen = [frame |-> 0, marks |-> <<>>]
  /\ clicks = 0 /\ firstOn = 0 /\ secondOn = 0

-----------------------------------------------------------------------------
Lower(a, b) == IF a < b THEN a ELSE b
Span(a, b)  == IF a < b THEN b - a ELSE a - b

\* cv::Rect(Point, Point): the second corner is not part of it.
RectOf(p, q) == [x |-> Lower(p.x, q.x), y |-> Lower(p.y, q.y),
                 width |-> Span(p.x, q.x), height |-> Span(p.y, q.y)]

\* Mutant: the far edges belong to the rectangle.
ContainsEdges(r, p) == /\ p.x \in r.x..(r.x + r.width)
                       /\ p.y \in r.y..(r.y + r.height)

\* cv::Rect::contains
Contains(r, p) == /\ p.x \in r.x..(r.x + r.width - 1)
                  /\ p.y \in r.y..(r.y + r.height - 1)

\* Mutant: the screen is drawn before the selection changes.
DrawBefore == screen' = [frame |-> currentFrame',
                         marks |-> CASE state = "Waiting"     -> <<>>
                                     [] state = "FirstClick"  -> <<firstPoint>>
                                     [] state = "SecondClick" -> <<firstPoint, secondPoint>>]

\* draw(): the current frame with the marks of the selection so far.
Draw == screen' = [frame |-> currentFrame',
                   marks |-> CASE state' = "Waiting"     -> <<>>
                               [] state' = "FirstClick"  -> <<firstPoint'>>
                               [] state' = "SecondClick" -> <<firstPoint', secondPoint'>>]

\* Mutant: the textures share the buffer the next frame is read into.
Shared(textures) ==
  [k \in DOMAIN textures |-> [textures[k] EXCEPT !.frame = currentFrame + 1]]

\* Textures are clones: reading a frame leaves them alone.
Cloned(textures) == textures

\* Mutant: a selection survives the change of the frame.
StateKept == state

StateOnNewFrame == "Waiting"

NewFrame ==
  /\ pc = "read" /\ currentFrame < MaxFrames
  /\ currentFrame' = currentFrame + 1
  /\ result' = Cloned(result)
  /\ state' = StateOnNewFrame
  /\ UNCHANGED <<firstPoint, secondPoint>>
  /\ Draw
  /\ pc' = "wait"
  /\ UNCHANGED <<clicks, firstOn, secondOn>>

EndOfVideo ==
  /\ pc = "read"
  /\ pc' = "done"
  /\ UNCHANGED <<data, screen, clicks, firstOn, secondOn>>

\* waitKey returns: Escape ends the selection, any other key shows the next frame.
Key ==
  /\ pc = "wait"
  /\ pc' \in {"read", "done"}
  /\ UNCHANGED <<data, screen, clicks, firstOn, secondOn>>

-----------------------------------------------------------------------------
(* onMouseRegionSelect, when the left button is released.                  *)

Click ==
  /\ pc = "wait" /\ clicks < MaxClicks
  /\ clicks' = clicks + 1
  /\ UNCHANGED <<currentFrame, pc>>
  /\ Draw

FirstCorner(p) ==
  /\ state = "Waiting"
  /\ firstPoint' = p /\ firstOn' = currentFrame
  /\ state' = "FirstClick"
  /\ UNCHANGED <<secondPoint, secondOn, result>>

SecondCorner(p) ==
  /\ state = "FirstClick"
  /\ secondPoint' = p /\ secondOn' = currentFrame
  /\ state' = "SecondClick"
  /\ UNCHANGED <<firstPoint, firstOn, result>>

Selection == RectOf(firstPoint, secondPoint)

Confirm(p) ==
  /\ state = "SecondClick" /\ Contains(Selection, p)
  /\ result' = Append(result, [rect |-> Selection, frame |-> currentFrame,
                               corners |-> <<firstOn, secondOn>>])
  /\ state' = "Waiting"
  /\ UNCHANGED <<firstPoint, firstOn, secondPoint, secondOn>>

Drop(p) ==
  /\ state = "SecondClick" /\ ~Contains(Selection, p)
  /\ state' = "Waiting"
  /\ UNCHANGED <<firstPoint, firstOn, secondPoint, secondOn, result>>

OnMouse(p) == (FirstCorner(p) \/ SecondCorner(p) \/ Confirm(p) \/ Drop(p)) /\ Click

Next == NewFrame \/ EndOfVideo \/ Key \/ (\E p \in Pixel : OnMouse(p))

Spec == Init /\ [][Next]_vars

-----------------------------------------------------------------------------
\* A texture shows, for good, the one frame all of its clicks were made on:
\* no selection outlives its frame, no texture changes with a later one.
OneFramePerTexture ==
  \A k \in DOMAIN result : LET t == result[k]
                           IN  t.corners = <<t.frame, t.frame>>

\* Every texture is a part of the frame and has pixels, though the corners may
\* coincide and the clicks may come in any order.
TexturesWhole ==
  \A k \in DOMAIN result : LET r == result[k].rect
                           IN  /\ r.width > 0 /\ r.height > 0
                               /\ r.x + r.width < Width /\ r.y + r.height < Height

\* While a click is awaited, the frame on the screen is the one it would cut
\* from, and the rectangle on it the one the click is compared with.
ScreenIsTrue ==
  pc = "wait" =>
    /\ screen.frame = currentFrame
    /\ state = "SecondClick" <=> Len(screen.marks) = 2
    /\ state = "SecondClick" => RectOf(screen.marks[1], screen.marks[2]) = Selection

\* The strengthening that every step preserves: the corners of a selection under
\* way were set on the current frame.
CornersOnFrame ==
  pc = "wait" =>
    /\ state # "Waiting" => firstOn = currentFrame
    /\ state = "SecondClick" => secondOn = currentFrame

AnotationInv ==
  TypeOK /\ OneFramePerTexture /\ CornersOnFrame /\ TexturesWhole /\ ScreenIsTrue

=============================================================================
