--------------------------- MODULE MotionHistory ---------------------------
(***************************************************************************)
(* SimpleMotionDetector and GradientMotionDetector: a frame is compared    *)
(* with the mean of a bounded history of frames, and only then joins it.   *)
(* Frames are compared pixel by pixel, so the model is one pixel of the    *)
(* shrunken image, before morphClosure merges what moved.                  *)
(*                                                                         *)
(* The two differ in what they keep: the first keeps grey values; the      *)
(* second keeps Sobel derivatives, but begins with a Canny edge image.     *)
(***************************************************************************)
EXTENDS Integers, Sequences

CONSTANTS
  Values,          \* what a pixel may be after shrinking (or Sobel)
  CannyValues,     \* what it may be in a Canny edge image
  HistoryLengths,  \* constructor arguments, int
  Thresholds,      \* constructor arguments of SimpleMotionDetector, int
  UnsignedRange,   \* 2^32: the width of historyLength
  MaxFrames        \* bound: frames shown to one detector

Byte == 0..255   \* unsigned char

ASSUME HistoryAssumption ==
  /\ Values \subseteq Byte
  /\ CannyValues \subseteq Byte
  /\ HistoryLengths \subseteq Int
  /\ Thresholds \subseteq Int
  /\ MaxFrames \in Nat
  /\ UnsignedRange \in Nat /\ UnsignedRange > MaxFrames + 1

VARIABLES
  history, historyLength,   \* MotionDetector
  threshold,   \* unsigned char in SimpleMotionDetector, 32 in the other
  motion,      \* what the last detect() said of the pixel
  pc,          \* "new" before the constructor, then "ready"
  seen         \* history variable: every frame, the constructor's included

vars == <<history, historyLength, threshold, motion, pc, seen>>

TypeOK ==
  /\ history \in Seq(Byte)
  /\ historyLength \in 0..UnsignedRange - 1
  /\ threshold \in Byte
  /\ motion \in BOOLEAN
  /\ pc \in {"new", "ready"}
  /\ seen \in Seq(Byte)
  /\ pc = "ready" => history # <<>>   \* or front() has nothing to return

Init ==
  /\ history = <<>> /\ historyLength = 0 /\ threshold = 0
  /\ motion = FALSE /\ pc = "new" /\ seen = <<>>

-----------------------------------------------------------------------------
\* An int kept in an unsigned char.
SetThreshold(t) == threshold' = t % 256

\* int to unsigned int: a negative length never fills up.
Begin(v, n) ==
  /\ pc = "new"
  /\ pc' = "ready"
  /\ historyLength' = n % UnsignedRange
  /\ history' = <<v>>
  /\ seen' = <<v>>
  /\ UNCHANGED motion

ConstructSimple == \E v \in Values, n \in HistoryLengths, t \in Thresholds :
                     Begin(v, n) /\ SetThreshold(t)

ConstructGradient == \E v \in CannyValues, n \in HistoryLengths :
                       Begin(v, n) /\ threshold' = 32

-----------------------------------------------------------------------------
\* Dividing by n loses nothing.
Exact(n) == \E k \in 0..30 : n = 2^k

\* A length of 0 works like 1.
Kept == IF historyLength = 0 THEN 1 ELSE historyLength

\* The images are added one by one.
SumOf(s) ==
  LET sum[k \in 0..Len(s)] == IF k = 0 THEN 0 ELSE sum[k - 1] + s[k]
  IN  sum[Len(s)]

Total == SumOf(history)

\* Mutant: the history is taken to be full.
MeansOfFull == {Total \div Kept}

\* getMeanHistoryImage: the doubles i * (1.0/n) are added and the sum is cut to
\* an integer.  Unless n is a power of two the sum may fall just short of a mean
\* that is a whole number, and one is lost.
Means ==
  LET n == Len(history)
      m == Total \div n
  IN  {m} \cup {k \in {m - 1} : k >= 0 /\ m * n = Total /\ ~Exact(n)}

Distance(a, b) == IF a < b THEN b - a ELSE a - b

Moved(v, m) == Distance(v, m) > threshold

\* Mutant: a full history loses its newest frame.
PushNewestOut(v) ==
  history' = IF Len(history) + 1 > historyLength THEN history ELSE Append(history, v)

\* Mutant: one frame more than historyLength stays.
PushLate(v) ==
  LET longer == Append(history, v)
  IN  history' = IF Len(longer) > historyLength + 1 THEN Tail(longer) ELSE longer

\* push_back, and one pop_front if there are too many: a history that began with
\* one frame never becomes empty, even when its length is to be 0.
Push(v) ==
  LET longer == Append(history, v)
  IN  history' = IF Len(longer) > historyLength THEN Tail(longer) ELSE longer

Detect(v) ==
  /\ pc = "ready" /\ Len(seen) <= MaxFrames
  /\ motion' \in {Moved(v, m) : m \in Means}
  /\ Push(v)
  /\ seen' = Append(seen, v)
  /\ UNCHANGED <<historyLength, threshold, pc>>

Next == ConstructSimple \/ ConstructGradient \/ (\E v \in Values : Detect(v))

Spec == Init /\ [][Next]_vars

-----------------------------------------------------------------------------
\* The frames the last detect() compared with: of those seen before it, the
\* latest, or all of them while they fit.
Compared ==
  LET n == Len(seen) - 1
  IN  {i \in 1..n : i > n - Kept}

\* The history is always the latest frames in the order they came, however long
\* the video: nothing old lingers and nothing recent is lost (push_back and
\* pop_front of detect; a negative length keeps everything).
HistoryIsRecent ==
  pc = "ready" =>
    /\ Len(history) = (IF Len(seen) < Kept THEN Len(seen) ELSE Kept)
    /\ \A k \in DOMAIN history : history[k] = seen[Len(seen) - Len(history) + k]

\* When every remembered frame is closer to the new one than the threshold, no
\* motion is reported, whatever came before: a scene that has stood still for
\* historyLength frames settles, the edge image the gradient detector begins
\* with and the unit the mean may lose notwithstanding.  (The constructor turns
\* a threshold of 256 into 0, and then that unit alone is motion.)
StillSceneSettles ==
  Len(seen) > 1
    /\ (\A i \in Compared : Distance(seen[i], seen[Len(seen)]) < threshold)
  => ~motion

\* A change larger than the threshold is reported in the very frame it happens,
\* when the remembered scene stood still; one unit may be lost by the mean.
ChangeIsSeen ==
  \A u \in Values :
    Len(seen) > 1
      /\ (\A i \in Compared : seen[i] = u)
      /\ Distance(seen[Len(seen)], u) > threshold + 1
    => motion

=============================================================================
