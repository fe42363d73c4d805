-------------------------- MODULE Anotation_proof --------------------------
(***************************************************************************)
(* A texture shows the one frame its three clicks were made on.  The       *)
(* callback does not look at the frame when it takes a corner, so this     *)
(* rests on the reset of the selection with every new frame                *)
(* (CornersOnFrame), and on textures being clones.  That they have pixels  *)
(* rests on the third click, which an empty rectangle cannot contain.      *)
(***************************************************************************)
EXTENDS Anotation, TLAPS

LEMMA InitInv == Init => AnotationInv
BY AnotationAssumption
DEF Init, AnotationInv, TypeOK, OneFramePerTexture, CornersOnFrame, TexturesWhole,
    ScreenIsTrue, Origin, Pixel, Screen

\* The rectangle two pixels span lies in the frame.
LEMMA RectType ==
  ASSUME NEW p \in Pixel, NEW q \in Pixel
  PROVE  RectOf(p, q) \in Rect
<1>1. p.x \in Nat /\ q.x \in Nat /\ p.x < Width /\ q.x < Width
  BY AnotationAssumption DEF Pixel
<1>2. p.y \in Nat /\ q.y \in Nat /\ p.y < Height /\ q.y < Height
  BY AnotationAssumption DEF Pixel
<1>3. /\ Lower(p.x, q.x) \in 0..Width - 1 /\ Span(p.x, q.x) \in 0..Width - 1
      /\ Lower(p.y, q.y) \in 0..Height - 1 /\ Span(p.y, q.y) \in 0..Height - 1
  BY <1>1, <1>2, AnotationAssumption DEF Lower, Span
<1> QED BY <1>3 DEF RectOf, Rect

\* What draw() leaves is a frame and pixels, whatever the new state is.
LEMMA DrawType ==
  ASSUME Draw, currentFrame' \in Nat, firstPoint' \in Pixel, secondPoint' \in Pixel,
         state' \in {"Waiting", "FirstClick", "SecondClick"}
  PROVE  screen' \in Screen
<1>1. CASE state' = "Waiting"
  BY <1>1 DEF Draw, Screen
<1>2. CASE state' = "FirstClick"
  BY <1>2 DEF Draw, Screen
<1>3. CASE state' = "SecondClick"
  BY <1>3 DEF Draw, Screen
<1> QED BY <1>1, <1>2, <1>3

\* A rectangle that contains a pixel is not empty, and it ends in the frame.
LEMMA RectWhole ==
  ASSUME NEW p \in Pixel, NEW q \in Pixel, NEW r \in Pixel, Contains(RectOf(p, q), r)
  PROVE  LET s == RectOf(p, q)
         IN  /\ s.width > 0 /\ s.height > 0
             /\ s.x + s.width < Width /\ s.y + s.height < Height
<1>1. p.x \in Nat /\ q.x \in Nat /\ r.x \in Nat /\ p.x < Width /\ q.x < Width
  BY AnotationAssumption DEF Pixel
<1>2. p.y \in Nat /\ q.y \in Nat /\ r.y \in Nat /\ p.y < Height /\ q.y < Height
  BY AnotationAssumption DEF Pixel
<1> QED BY <1>1, <1>2, AnotationAssumption DEF Contains, RectOf, Lower, Span

\* After draw() the screen agrees with the selection.
LEMMA DrawTrue ==
  ASSUME Draw, state' \in {"Waiting", "FirstClick", "SecondClick"}
  PROVE  ScreenIsTrue'
<1>1. CASE state' = "Waiting"
  BY <1>1 DEF Draw, ScreenIsTrue
<1>2. CASE state' = "FirstClick"
  BY <1>2 DEF Draw, ScreenIsTrue
<1>3. CASE state' = "SecondClick"
  BY <1>3 DEF Draw, ScreenIsTrue, Selection
<1> QED BY <1>1, <1>2, <1>3

LEMMA NewFrameInv ==
  ASSUME AnotationInv, NewFrame
  PROVE  AnotationInv'
<1> USE AnotationAssumption DEF AnotationInv
<1>1. TypeOK'
  <2>1. currentFrame' \in 0..MaxFrames /\ currentFrame' \in Nat
    BY DEF TypeOK, NewFrame
  <2>2. screen' \in Screen
    BY <2>1, DrawType DEF TypeOK, NewFrame, StateOnNewFrame
  <2> QED BY <2>1, <2>2 DEF TypeOK, NewFrame, StateOnNewFrame, Cloned
<1>2. OneFramePerTexture'
  BY DEF OneFramePerTexture, NewFrame, Cloned
<1>3. CornersOnFrame'
  BY DEF CornersOnFrame, NewFrame, StateOnNewFrame
<1>4. TexturesWhole'
  BY DEF TexturesWhole, NewFrame, Cloned
<1>5. ScreenIsTrue'
  BY DrawTrue DEF NewFrame, StateOnNewFrame
<1> QED BY <1>1, <1>2, <1>3, <1>4, <1>5

\* The three kinds of click that cut nothing.
LEMMA SelectInv ==
  ASSUME AnotationInv, NEW p \in Pixel, Click,
         FirstCorner(p) \/ SecondCorner(p) \/ Drop(p)
  PROVE  AnotationInv'
<1> USE AnotationAssumption DEF AnotationInv
<1>1. TypeOK'
  <2>1. /\ firstPoint' \in Pixel /\ secondPoint' \in Pixel /\ currentFrame' \in Nat
        /\ state' \in {"Waiting", "FirstClick", "SecondClick"}
        /\ firstOn' \in 0..MaxFrames /\ secondOn' \in 0..MaxFrames
        /\ result' = result
    BY DEF TypeOK, Click, FirstCorner, SecondCorner, Drop
  <2>2. screen' \in Screen
    BY <2>1, DrawType DEF Click
  <2> QED BY <2>1, <2>2 DEF TypeOK, Click
<1>2. OneFramePerTexture'
  BY DEF OneFramePerTexture, FirstCorner, SecondCorner, Drop
<1>3. CornersOnFrame'
  BY DEF CornersOnFrame, Click, FirstCorner, SecondCorner, Drop
<1>4. TexturesWhole'
  BY DEF TexturesWhole, FirstCorner, SecondCorner, Drop
<1>5. ScreenIsTrue'
  BY DrawTrue DEF Click, FirstCorner, SecondCorner, Drop
<1> QED BY <1>1, <1>2, <1>3, <1>4, <1>5

LEMMA ConfirmInv ==
  ASSUME AnotationInv, NEW p \in Pixel, Click, Confirm(p)
  PROVE  AnotationInv'
<1> USE AnotationAssumption DEF AnotationInv
<1> DEFINE t == [rect |-> Selection, frame |-> currentFrame,
                 corners |-> <<firstOn, secondOn>>]
<1>1. result' = Append(result, t)
  BY DEF Confirm
<1>2. t \in Texture
  <2>1. Selection \in Rect
    BY RectType DEF Selection, TypeOK
  <2>2. firstOn \in Nat /\ secondOn \in Nat /\ currentFrame \in Nat
    BY DEF TypeOK
  <2> QED BY <2>1, <2>2 DEF Texture
<1>3. TypeOK'
  <2>1. screen' \in Screen
    BY DrawType DEF TypeOK, Click, Confirm
  <2> QED BY <1>1, <1>2, <2>1 DEF TypeOK, Click, Confirm
<1>4. OneFramePerTexture'
  <2>1. t.corners = <<t.frame, t.frame>>
    BY DEF CornersOnFrame, Click, Confirm
  <2>2. result \in Seq(Texture)
    BY DEF TypeOK
  <2> HIDE DEF t
  <2>3. \A k \in DOMAIN result' : result'[k] = t \/ (k \in DOMAIN result /\ result'[k] = result[k])
    BY <1>1, <1>2, <2>2
  <2> QED BY <2>1, <2>3 DEF OneFramePerTexture
<1>5. CornersOnFrame'
  BY DEF CornersOnFrame, Confirm
<1>6. TexturesWhole'
  <2>1. /\ t.rect.width > 0 /\ t.rect.height > 0
        /\ t.rect.x + t.rect.width < Width /\ t.rect.y + t.rect.height < Height
    BY RectWhole DEF Confirm, Selection, TypeOK
  <2>2. result \in Seq(Texture)
    BY DEF TypeOK
  <2> HIDE DEF t
  <2>3. \A k \in DOMAIN result' : result'[k] = t \/ (k \in DOMAIN result /\ result'[k] = result[k])
    BY <1>1, <1>2, <2>2
  <2> QED BY <2>1, <2>3 DEF TexturesWhole
<1>7. ScreenIsTrue'
  BY DrawTrue DEF Click, Confirm
<1> QED BY <1>3, <1>4, <1>5, <1>6, <1>7

\* Every step keeps the invariant.
LEMMA AnotationStep == AnotationInv /\ [Next]_vars => AnotationInv'
<1> SUFFICES ASSUME AnotationInv, [Next]_vars PROVE AnotationInv'
  OBVIOUS
<1>1. CASE NewFrame
  BY <1>1, NewFrameInv
<1>2. CASE EndOfVideo \/ Key
  BY <1>2 DEF EndOfVideo, Key, data, AnotationInv, TypeOK, OneFramePerTexture,
     CornersOnFrame, TexturesWhole, ScreenIsTrue, Selection
<1>3. CASE \E p \in Pixel : OnMouse(p)
  BY <1>3, SelectInv, ConfirmInv DEF OnMouse
<1>4. CASE UNCHANGED vars
  BY <1>4 DEF vars, data, AnotationInv, TypeOK, OneFramePerTexture,
     CornersOnFrame, TexturesWhole, ScreenIsTrue, Selection
<1> QED BY <1>1, <1>2, <1>3, <1>4 DEF Next

\* In any video, whatever the user clicks: every texture that anotateRegions
\* returns shows the frame that was on when its corners were set.
THEOREM TexturesKeepTheirFrame == Spec => [](TypeOK /\ OneFramePerTexture)
<1>1. AnotationInv => TypeOK /\ OneFramePerTexture
  BY DEF AnotationInv
<1> QED BY <1>1, InitInv, AnotationStep, PTL DEF Spec

\* In any order of the corners, coinciding ones included, no texture is cut
\* that is empty or leaves the frame (cv::Rect is half open).
THEOREM NoTextureIsEmpty == Spec => []TexturesWhole
<1>1. AnotationInv => TexturesWhole
  BY DEF AnotationInv
<1> QED BY <1>1, InitInv, AnotationStep, PTL DEF Spec

\* When the program waits for a click, the user sees the frame and the rectangle
\* the click will be applied to: every handler that changes them redraws.
THEOREM UserSeesSelection == Spec => []ScreenIsTrue
<1>1. AnotationInv => ScreenIsTrue
  BY DEF AnotationInv
<1> QED BY <1>1, InitInv, AnotationStep, PTL DEF Spec

=============================================================================
