----------------------- MODULE MotionDetection_proof -----------------------
(***************************************************************************)
(* What the history detectors and the flow grid promise, for every length  *)
(* of history, every video and every frame of whole blocks.                *)
(*                                                                         *)
(* The history is the latest frames, so its mean lies between the extremes *)
(* of what was compared.  The grid rests on where both loops are: at block *)
(* j of row k of blocks, with k * Across + j points done.                  *)
(***************************************************************************)
EXTENDS MotionDetection, Induction, SequenceTheorems, TLAPS

(* The mean of the history.                                                *)

\* The partial sums of a sequence, up to its n-th element.
IsSum(f, s, n) ==
  /\ f \in [0..n -> Int]
  /\ \A k \in 0..n : f[k] = IF k = 0 THEN 0 ELSE f[k - 1] + s[k]

LEMMA SumExists ==
  ASSUME NEW s \in Seq(Int)
  PROVE  \A n \in Nat : n <= Len(s) => \E f : IsSum(f, s, n)
<1> DEFINE S == {n \in Nat : n <= Len(s) => \E f : IsSum(f, s, n)}
<1>1. 0 \in S
  <2> DEFINE f == [k \in 0..0 |-> 0]
  <2>1. IsSum(f, s, 0)
    BY DEF IsSum
  <2> QED BY <2>1
<1>2. ASSUME NEW n \in Nat, n \in S, n + 1 <= Len(s)
      PROVE  \E f : IsSum(f, s, n + 1)
  <2>1. PICK f : IsSum(f, s, n)
    BY <1>2
  <2> DEFINE g == [k \in 0..n + 1 |-> IF k = n + 1 THEN f[n] + s[n + 1] ELSE f[k]]
  <2>2. f[n] \in Int /\ s[n + 1] \in Int
    BY <1>2, <2>1 DEF IsSum
  <2>3. g \in [0..n + 1 -> Int]
    BY <2>1, <2>2 DEF IsSum
  <2>4. \A k \in 0..n + 1 : g[k] = IF k = 0 THEN 0 ELSE g[k - 1] + s[k]
    BY <2>1 DEF IsSum
  <2> HIDE DEF g
  <2>5. IsSum(g, s, n + 1)
    BY <2>3, <2>4 DEF IsSum
  <2> QED BY <2>5
<1>3. Nat \subseteq S
  <2>1. \A n \in Nat : n \in S => n + 1 \in S
    BY <1>2
  <2> HIDE DEF S
  <2> QED BY <1>1, <2>1, SetInduction
<1> QED BY <1>3

\* What the loop of getMeanHistoryImage adds up stays between the smallest and
\* the largest value times the number of frames.
LEMMA SumBounds ==
  ASSUME NEW s \in Seq(Int), NEW lo \in Int, NEW hi \in Int,
         \A k \in DOMAIN s : lo <= s[k] /\ s[k] <= hi
  PROVE  /\ SumOf(s) \in Int
         /\ lo * Len(s) <= SumOf(s) /\ SumOf(s) <= hi * Len(s)
<1> DEFINE Step(f) == [k \in 0..Len(s) |-> IF k = 0 THEN 0 ELSE f[k - 1] + s[k]]
           sum == CHOOSE f : f = Step(f)
<1>1. \E f : f = Step(f)
  <2>1. PICK f : IsSum(f, s, Len(s))
    BY SumExists
  <2>2. f = Step(f)
    BY <2>1 DEF IsSum
  <2> QED BY <2>2
<1>2. sum = Step(sum)
  BY <1>1
<1>3. SumOf(s) = sum[Len(s)]
  BY DEF SumOf
<1> HIDE DEF sum
<1>4. \A k \in 0..Len(s) : sum[k] = IF k = 0 THEN 0 ELSE sum[k - 1] + s[k]
  BY <1>2
<1> DEFINE S == {n \in Nat : n <= Len(s) => /\ sum[n] \in Int
                                            /\ lo * n <= sum[n] /\ sum[n] <= hi * n}
<1>5. 0 \in S
  BY <1>4
<1>6. ASSUME NEW n \in Nat, n \in S
      PROVE  n + 1 \in S
  <2> SUFFICES ASSUME n + 1 <= Len(s)
               PROVE  /\ sum[n + 1] \in Int
                      /\ lo * (n + 1) <= sum[n + 1] /\ sum[n + 1] <= hi * (n + 1)
    OBVIOUS
  <2>1. sum[n + 1] = sum[n] + s[n + 1]
    BY <1>4
  <2>2. sum[n] \in Int /\ lo * n <= sum[n] /\ sum[n] <= hi * n
    BY <1>6
  <2>3. s[n + 1] \in Int /\ lo <= s[n + 1] /\ s[n + 1] <= hi
    OBVIOUS
  <2>4. lo * (n + 1) = lo * n + lo /\ hi * (n + 1) = hi * n + hi
        /\ lo * n \in Int /\ hi * n \in Int
    OBVIOUS
  <2> QED BY <2>1, <2>2, <2>3, <2>4
<1>7. Nat \subseteq S
  <2> HIDE DEF S
  <2> QED BY <1>5, <1>6, SetInduction
<1> QED BY <1>3, <1>7

-----------------------------------------------------------------------------
(* The detectors that compare with a history.                              *)

LEMMA ByteFacts ==
  /\ 0 \in Byte /\ 32 \in Byte /\ Byte \subseteq Nat
  /\ \A t \in Int : t % 256 \in Byte
  BY DEF Byte

LEMMA ByteSeq ==
  ASSUME NEW s \in Seq(Byte)
  PROVE  s \in Seq(Int) /\ Len(s) \in Nat
<1>1. Len(s) \in Nat /\ s \in [1..Len(s) -> Byte]
  BY LenProperties
<1>2. Byte \subseteq Int
  BY DEF Byte
<1>3. s \in [1..Len(s) -> Int]
  BY <1>1, <1>2
<1> QED BY <1>1, <1>3

LEMMA InitMotionType == Init => TypeOK
<1> SUFFICES ASSUME Init PROVE TypeOK
  OBVIOUS
<1>1. historyLength \in 0..UnsignedRange - 1
  BY HistoryAssumption DEF Init
<1>2. history \in Seq(Byte) /\ seen \in Seq(Byte)
  BY EmptySeq DEF Init
<1> QED BY <1>1, <1>2, ByteFacts DEF Init, TypeOK

LEMMA BeginType ==
  ASSUME TypeOK, NEW v \in Byte, NEW n \in Int, Begin(v, n), threshold' \in Byte
  PROVE  TypeOK'
<1>1. n % UnsignedRange \in 0..UnsignedRange - 1
  BY HistoryAssumption
<1>2. <<v>> \in Seq(Byte) /\ <<v>> # <<>>
  OBVIOUS
<1> QED BY <1>1, <1>2 DEF Begin, TypeOK

\* The history after a detection: the new frame at its end, and the oldest gone
\* if there were too many.
LEMMA PushFacts ==
  ASSUME TypeOK, NEW v \in Byte, Push(v)
  PROVE  /\ history' \in Seq(Byte)
         /\ \/ /\ Len(history') = Len(history) + 1 /\ Len(history) + 1 <= historyLength
               /\ \A k \in 1..Len(history) : history'[k] = history[k]
            \/ /\ Len(history') = Len(history) /\ Len(history) + 1 > historyLength
               /\ \A k \in 1..Len(history) - 1 : history'[k] = history[k + 1]
         /\ Len(history') > 0 => history'[Len(history')] = v
<1> DEFINE longer == Append(history, v)
<1>1. /\ longer \in Seq(Byte) /\ Len(longer) = Len(history) + 1 /\ Len(history) \in Nat
      /\ \A k \in 1..Len(history) : longer[k] = history[k]
      /\ longer[Len(history) + 1] = v
  BY DEF TypeOK
<1>2. historyLength \in Nat
  BY HistoryAssumption DEF TypeOK
<1>3. CASE Len(longer) > historyLength
  <2>1. history' = Tail(longer)
    BY <1>3 DEF Push
  <2>2. /\ Tail(longer) \in Seq(Byte) /\ Len(Tail(longer)) = Len(history)
        /\ \A k \in 1..Len(history) : Tail(longer)[k] = longer[k + 1]
    BY <1>1
  <2> QED BY <1>1, <1>2, <1>3, <2>1, <2>2
<1>4. CASE ~(Len(longer) > historyLength)
  <2>1. history' = longer
    BY <1>4 DEF Push
  <2> QED BY <1>1, <1>2, <1>4, <2>1
<1> QED BY <1>3, <1>4

LEMMA DetectType ==
  ASSUME TypeOK, NEW v \in Byte, Detect(v)
  PROVE  TypeOK'
<1>1. Push(v) /\ Len(history) \in Nat /\ Len(history) > 0
  BY DEF Detect, TypeOK
<1>2. history' \in Seq(Byte) /\ history' # <<>>
  <2>1. history' \in Seq(Byte) /\ Len(history') > 0
    BY <1>1, PushFacts
  <2> QED BY <2>1
<1>3. motion' \in BOOLEAN
  <2>1. PICK m \in Means : motion' = Moved(v, m)
    BY Zenon DEF Detect
  <2>2. Moved(v, m) = TRUE \/ Moved(v, m) = FALSE
    BY SMT DEF Moved
  <2> QED BY <2>1, <2>2, Zenon
<1>4. seen' \in Seq(Byte)
  BY DEF Detect, TypeOK
<1> QED BY <1>1, <1>2, <1>3, <1>4 DEF Detect, TypeOK

\* What a step of the program means for the detectors with a history.
LEMMA HistorySteps ==
  ASSUME [ProgramNext]_programVars
  PROVE  \/ UNCHANGED vars
         \/ \E v \in Byte, n \in Int : Begin(v, n) /\ threshold' \in Byte
         \/ \E v \in Values : v \in Byte /\ Detect(v)
<1>1. CASE Construct
  <2>1. CASE ConstructSimple
    <3>1. PICK v \in Values, n \in HistoryLengths, t \in Thresholds :
            Begin(v, n) /\ threshold' = t % 256
      BY <2>1 DEF ConstructSimple, SetThreshold
    <3>2. t % 256 \in Byte /\ v \in Byte /\ n \in Int
      BY HistoryAssumption, ByteFacts
    <3> QED BY <3>1, <3>2
  <2>2. CASE ConstructGradient
    <3>1. PICK v \in CannyValues, n \in HistoryLengths : Begin(v, n) /\ threshold' = 32
      BY <2>2 DEF ConstructGradient
    <3>2. v \in Byte /\ n \in Int /\ threshold' \in Byte
      BY <3>1, HistoryAssumption, ByteFacts
    <3> QED BY <3>1, <3>2
  <2> QED BY <1>1, <2>1, <2>2 DEF Construct
<1>2. CASE DetectByHistory
  BY <1>2, HistoryAssumption DEF DetectByHistory
<1>3. CASE DetectByFlow \/ UNCHANGED programVars
  BY <1>3 DEF DetectByFlow, programVars
<1> QED BY <1>1, <1>2, <1>3 DEF ProgramNext

LEMMA StepMotionType == TypeOK /\ [ProgramNext]_programVars => TypeOK'
<1> SUFFICES ASSUME TypeOK, [ProgramNext]_programVars PROVE TypeOK'
  OBVIOUS
<1>1. CASE UNCHANGED vars
  BY <1>1 DEF vars, TypeOK
<1> QED BY <1>1, HistorySteps, BeginType, DetectType

\* The bytes stay bytes and a detector that was built has a frame to compare
\* with, whatever lengths and thresholds it was built with.
THEOREM MotionTypeCorrect == ProgramSpec => []TypeOK
<1>1. ProgramInit => TypeOK
  BY InitMotionType DEF ProgramInit
<1> QED BY <1>1, StepMotionType, PTL DEF ProgramSpec

LEMMA StepRecent ==
  ASSUME TypeOK, HistoryIsRecent, [ProgramNext]_programVars
  PROVE  HistoryIsRecent'
<1>1. CASE UNCHANGED vars
  BY <1>1 DEF vars, HistoryIsRecent, Kept
<1>2. ASSUME NEW v \in Byte, NEW n \in Int, Begin(v, n), threshold' \in Byte
      PROVE  HistoryIsRecent'
  <2>1. history' = <<v>> /\ seen' = <<v>> /\ Len(<<v>>) = 1 /\ DOMAIN <<v>> = {1}
    BY <1>2 DEF Begin
  <2>2. Kept' \in Nat /\ Kept' >= 1
    BY <1>2, BeginType, HistoryAssumption DEF Kept, TypeOK
  <2> QED BY <2>1, <2>2 DEF HistoryIsRecent
<1>3. ASSUME NEW v \in Byte, Detect(v)
      PROVE  HistoryIsRecent'
  <2> DEFINE h == Len(history)
             n == Len(seen)
  <2>1. /\ h \in Nat /\ n \in Nat /\ h = (IF n < Kept THEN n ELSE Kept)
        /\ \A k \in 1..h : history[k] = seen[n - h + k]
    BY <1>3 DEF Detect, HistoryIsRecent, TypeOK
  <2>2. Kept \in Nat /\ Kept >= 1 /\ Kept' = Kept
        /\ (Kept = historyLength \/ (historyLength = 0 /\ Kept = 1))
    BY <1>3, HistoryAssumption DEF Kept, TypeOK, Detect
  <2>3. /\ Len(seen') = n + 1 /\ seen'[n + 1] = v
        /\ \A k \in 1..n : seen'[k] = seen[k]
    BY <1>3 DEF Detect, TypeOK
  <2>4. h > 0
    BY <1>3 DEF Detect, TypeOK
  <2>5. history' \in Seq(Byte) /\ Len(history') > 0 /\ history'[Len(history')] = v
    BY <1>3, <2>4, PushFacts DEF Detect
  <2>6. CASE /\ Len(history') = h + 1 /\ h + 1 <= historyLength
             /\ \A k \in 1..h : history'[k] = history[k]
    <3>1. \A k \in 1..h + 1 : history'[k] = seen'[n + 1 - (h + 1) + k]
      <4> SUFFICES ASSUME NEW k \in 1..h + 1
                   PROVE  history'[k] = seen'[n - h + k]
        BY <2>1
      <4>1. CASE k = h + 1
        BY <2>1, <2>3, <2>5, <2>6, <4>1
      <4>2. CASE k \in 1..h
        <5>1. n - h + k \in 1..n
          BY <2>1, <2>2, <4>2
        <5> QED BY <2>1, <2>3, <2>6, <4>2, <5>1
      <4> QED BY <2>1, <4>1, <4>2
    <3>2. h + 1 = (IF n + 1 < Kept THEN n + 1 ELSE Kept)
      BY <2>1, <2>2, <2>6
    <3> QED BY <2>2, <2>3, <2>5, <2>6, <3>1, <3>2 DEF HistoryIsRecent
  <2>7. CASE /\ Len(history') = h /\ h + 1 > historyLength
             /\ \A k \in 1..h - 1 : history'[k] = history[k + 1]
    <3>1. \A k \in 1..h : history'[k] = seen'[n + 1 - h + k]
      <4> SUFFICES ASSUME NEW k \in 1..h
                   PROVE  history'[k] = seen'[n + 1 - h + k]
        BY <2>1
      <4>1. CASE k = h
        <5>1. n + 1 - h + k = n + 1
          BY <2>1, <4>1
        <5> QED BY <2>3, <2>5, <2>7, <4>1, <5>1
      <4>2. CASE k \in 1..h - 1
        <5>1. n - h + (k + 1) \in 1..n /\ n - h + (k + 1) = n + 1 - h + k /\ k + 1 \in 1..h
          BY <2>1, <2>2, <4>2
        <5>2. history[k + 1] = seen[n + 1 - h + k]
          BY <2>1, <5>1
        <5> QED BY <2>3, <2>7, <4>2, <5>1, <5>2
      <4> QED BY <2>1, <4>1, <4>2
    <3>2. h = (IF n + 1 < Kept THEN n + 1 ELSE Kept)
      BY <2>1, <2>2, <2>4, <2>7
    <3>3. DOMAIN history' = 1..h /\ Len(seen') - Len(history') = n + 1 - h
      BY <2>1, <2>3, <2>5, <2>7
    <3> QED BY <2>2, <2>3, <2>7, <3>1, <3>2, <3>3 DEF HistoryIsRecent
  <2> QED BY <1>3, <2>6, <2>7, PushFacts DEF Detect
<1> QED BY <1>1, <1>2, <1>3, HistorySteps

\* The history is the latest frames in their order, as many as its length allows,
\* for every length (0 and the negative ones included) and every video.
THEOREM HistoryStaysRecent == ProgramSpec => []HistoryIsRecent
<1>1. ProgramInit => HistoryIsRecent
  BY DEF ProgramInit, Init, HistoryIsRecent
<1> QED BY <1>1, StepRecent, MotionTypeCorrect, PTL DEF ProgramSpec

\* What a detection compares with: every remembered frame is one of Compared.
LEMMA MeansFacts ==
  ASSUME TypeOK, HistoryIsRecent, NEW v \in Byte, Detect(v)
  PROVE  /\ Len(seen') > 1 /\ seen'[Len(seen')] = v
         /\ Len(history) \in Nat /\ Len(history) > 0 /\ history \in Seq(Int)
         /\ \A k \in DOMAIN history : \E l \in Compared' : history[k] = seen'[l]
         /\ threshold' = threshold /\ threshold \in Nat
<1> DEFINE h == Len(history)
           n == Len(seen)
<1>1. /\ h \in Nat /\ n \in Nat /\ h = (IF n < Kept THEN n ELSE Kept)
      /\ \A k \in 1..h : history[k] = seen[n - h + k]
      /\ DOMAIN history = 1..h /\ history \in Seq(Byte)
  BY DEF Detect, HistoryIsRecent, TypeOK
<1>2. Kept \in Nat /\ Kept >= 1 /\ Kept' = Kept
  BY HistoryAssumption DEF Kept, TypeOK, Detect
<1>3. /\ Len(seen') = n + 1 /\ seen'[n + 1] = v
      /\ \A k \in 1..n : seen'[k] = seen[k]
  BY DEF Detect, TypeOK
<1>4. h > 0
  BY DEF Detect, TypeOK
<1>5. ASSUME NEW k \in DOMAIN history
      PROVE  \E l \in Compared' : history[k] = seen'[l]
  <2>1. n - h + k \in 1..n /\ n - h + k > n - Kept
    BY <1>1, <1>2, <1>4
  <2>2. n - h + k \in Compared'
    BY <1>1, <1>2, <1>3, <2>1 DEF Compared
  <2> QED BY <1>1, <1>3, <2>1, <2>2
<1>6. history \in Seq(Int)
  BY <1>1, ByteSeq
<1>7. threshold' = threshold /\ threshold \in Nat
  BY ByteFacts DEF Detect, TypeOK
<1> QED BY <1>1, <1>2, <1>3, <1>4, <1>5, <1>6, <1>7

\* A mean lies between the smallest and the largest remembered value, or one
\* below the smallest.
LEMMA MeanBounds ==
  ASSUME NEW lo \in Int, NEW hi \in Int, history \in Seq(Int), Len(history) > 0,
         \A k \in DOMAIN history : lo <= history[k] /\ history[k] <= hi,
         NEW m \in Means
  PROVE  m \in Int /\ lo - 1 <= m /\ m <= hi
<1> DEFINE n == Len(history)
<1>1. n \in Nat /\ n > 0
  OBVIOUS
<1>2. Total \in Int /\ lo * n <= Total /\ Total <= hi * n
  BY SumBounds DEF Total
<1>3. Total \div n \in Int /\ lo <= Total \div n /\ Total \div n <= hi
  BY <1>1, <1>2, DivBounds
<1>4. m = Total \div n \/ m = (Total \div n) - 1
  BY DEF Means
<1> QED BY <1>3, <1>4

\* A scene that has stood still, up to less than the threshold, for as long as
\* the history reaches shows no motion: neither the mean nor the unit it may
\* lose is as far away as that.
THEOREM SceneSettles == ProgramSpec => []StillSceneSettles
<1>1. ProgramInit => StillSceneSettles
  BY DEF ProgramInit, Init, StillSceneSettles
<1>2. TypeOK /\ HistoryIsRecent /\ StillSceneSettles /\ [ProgramNext]_programVars
        => StillSceneSettles'
  <2> SUFFICES ASSUME TypeOK, HistoryIsRecent, StillSceneSettles, [ProgramNext]_programVars
               PROVE  StillSceneSettles'
    OBVIOUS
  <2>1. CASE UNCHANGED vars
    BY <2>1 DEF vars, StillSceneSettles, Compared, Kept
  <2>2. ASSUME NEW v \in Byte, NEW n \in Int, Begin(v, n)
        PROVE  StillSceneSettles'
    <3>1. Len(seen') = 1
      BY <2>2 DEF Begin
    <3> QED BY <3>1 DEF StillSceneSettles
  <2>3. ASSUME NEW v \in Byte, Detect(v)
        PROVE  StillSceneSettles'
    <3> SUFFICES ASSUME \A l \in Compared' : Distance(seen'[l], v) < threshold
                 PROVE  ~motion'
      BY <2>3, MeansFacts DEF StillSceneSettles
    <3> DEFINE lo == v - threshold + 1
               hi == v + threshold - 1
    <3>1. lo \in Int /\ hi \in Int /\ threshold \in Nat
      BY <2>3, MeansFacts, ByteFacts
    <3>2. \A k \in DOMAIN history : lo <= history[k] /\ history[k] <= hi
      <4> SUFFICES ASSUME NEW k \in DOMAIN history
                   PROVE  lo <= history[k] /\ history[k] <= hi
        OBVIOUS
      <4>1. history[k] \in Int
        BY <2>3, MeansFacts
      <4>2. Distance(history[k], v) < threshold
        BY <2>3, MeansFacts
      <4>3. v \in Int
        BY ByteFacts
      <4> QED BY <3>1, <4>1, <4>2, <4>3 DEF Distance
    <3>3. \A m \in Means : ~Moved(v, m)
      <4> SUFFICES ASSUME NEW m \in Means
                   PROVE  ~Moved(v, m)
        OBVIOUS
      <4>1. m \in Int /\ lo - 1 <= m /\ m <= hi
        BY <2>3, <3>1, <3>2, MeansFacts, MeanBounds
      <4>2. v \in Int
        BY ByteFacts
      <4> QED BY <3>1, <4>1, <4>2 DEF Moved, Distance
    <3> QED BY <2>3, <3>3 DEF Detect
  <2> QED BY <2>1, <2>2, <2>3, HistorySteps
<1> QED BY <1>1, <1>2, MotionTypeCorrect, HistoryStaysRecent, PTL DEF ProgramSpec

\* A change by more than the threshold and the unit the mean may lose, against a
\* scene that stood still, is reported in the frame in which it happens.
THEOREM ChangeIsReported == ProgramSpec => []ChangeIsSeen
<1>1. ProgramInit => ChangeIsSeen
  <2>1. Len(<<>>) = 0 /\ ~(0 > 1)
    OBVIOUS
  <2>2. ProgramInit => ~(Len(seen) > 1)
    BY <2>1 DEF ProgramInit, Init
  <2> QED BY <2>2 DEF ChangeIsSeen
<1>2. TypeOK /\ HistoryIsRecent /\ ChangeIsSeen /\ [ProgramNext]_programVars => ChangeIsSeen'
  <2> SUFFICES ASSUME TypeOK, HistoryIsRecent, ChangeIsSeen, [ProgramNext]_programVars
               PROVE  ChangeIsSeen'
    OBVIOUS
  <2>1. CASE UNCHANGED vars
    BY <2>1 DEF vars, ChangeIsSeen, Compared, Kept
  <2>2. ASSUME NEW v \in Byte, NEW n \in Int, Begin(v, n)
        PROVE  ChangeIsSeen'
    <3>1. Len(seen') = 1
      BY <2>2 DEF Begin
    <3> QED BY <3>1 DEF ChangeIsSeen
  <2>3. ASSUME NEW v \in Byte, Detect(v)
        PROVE  ChangeIsSeen'
    <3> SUFFICES ASSUME NEW u \in Values, \A l \in Compared' : seen'[l] = u,
                        Distance(v, u) > threshold + 1
                 PROVE  motion'
      BY <2>3, MeansFacts DEF ChangeIsSeen
    <3>1. u \in Int /\ threshold \in Nat /\ history \in Seq(Int) /\ Len(history) > 0
      BY <2>3, MeansFacts, HistoryAssumption
    <3>2. \A k \in DOMAIN history : u <= history[k] /\ history[k] <= u
      BY <2>3, <3>1, MeansFacts
    <3>3. \A m \in Means : Moved(v, m)
      <4> SUFFICES ASSUME NEW m \in Means
                   PROVE  Moved(v, m)
        OBVIOUS
      <4>1. m \in Int /\ u - 1 <= m /\ m <= u
        BY <3>1, <3>2, MeanBounds
      <4>2. v \in Int
        BY ByteFacts
      <4> QED BY <3>1, <4>1, <4>2 DEF Moved, Distance
    <3> QED BY <2>3, <3>3 DEF Detect
  <2> QED BY <2>1, <2>2, <2>3, HistorySteps
<1> QED BY <1>1, <1>2, MotionTypeCorrect, HistoryStaysRecent, PTL DEF ProgramSpec

-----------------------------------------------------------------------------
(* The grid of the optical-flow detector: arithmetic of blocks.            *)

\* A frame of whole blocks ends where a block ends.
LEMMA WholeBlocks ==
  ASSUME NEW b \in Nat \ {0}, NEW m \in Nat, m % b = 0
  PROVE  m \div b \in Nat /\ m = b * (m \div b)
  OBVIOUS

\* A loop that steps from block to block has passed the end just when it is out
\* of blocks.
LEMMA BeforeEnd ==
  ASSUME NEW b \in Nat \ {0}, NEW n \in Nat, NEW k \in 0..n, NEW c \in 0..b - 1
  PROVE  c + b * k < b * n <=> k < n
<1>1. CASE k < n
  <2>1. b * (k + 1) <= b * n
    BY <1>1
  <2>2. b * (k + 1) = b * k + b
    OBVIOUS
  <2> QED BY <1>1, <2>1, <2>2
<1>2. CASE k = n
  BY <1>2
<1> QED BY <1>1, <1>2

\* A pixel of block k belongs to block k.
LEMMA BlockOf ==
  ASSUME NEW b \in Nat \ {0}, NEW k \in Nat, NEW c \in 0..b - 1
  PROVE  (c + b * k) \div b = k
<1> DEFINE q == (c + b * k) \div b
<1>1. q \in Int /\ b * q <= c + b * k /\ c + b * k < b * (q + 1)
  OBVIOUS
<1> HIDE DEF q
<1>2. q <= k
  <2> SUFFICES ASSUME k + 1 <= q PROVE FALSE
    BY <1>1
  <2>1. b * (k + 1) <= b * q /\ b * (k + 1) = b * k + b
    BY <1>1
  <2> QED BY <1>1, <2>1
<1>3. k <= q
  <2> SUFFICES ASSUME q + 1 <= k PROVE FALSE
    BY <1>1
  <2>1. b * (q + 1) <= b * k
    BY <1>1
  <2> QED BY <1>1, <2>1
<1> QED BY <1>1, <1>2, <1>3 DEF q

\* Numbering blocks row by row gives each a number of its own, below their count.
LEMMA BlockNumbers ==
  ASSUME NEW A \in Nat, NEW D \in Nat,
         NEW k \in 0..D - 1, NEW j \in 0..A - 1, NEW l \in 0..D - 1, NEW h \in 0..A - 1
  PROVE  /\ k * A + j \in Nat /\ k * A + j < D * A
         /\ k * A + j = l * A + h => k = l /\ j = h
<1>1. ASSUME NEW p \in 0..D - 1, NEW q \in 0..D - 1, p < q,
             NEW a \in 0..A - 1, NEW c \in 0..A - 1
      PROVE  p * A + a < q * A + c
  <2>1. (p + 1) * A <= q * A
    BY <1>1
  <2>2. (p + 1) * A = p * A + A
    OBVIOUS
  <2> QED BY <2>1, <2>2
<1>2. k * A + j \in Nat
  OBVIOUS
<1>3. k * A + j < D * A
  <2>1. (k + 1) * A <= D * A
    OBVIOUS
  <2>2. (k + 1) * A = k * A + A
    OBVIOUS
  <2> QED BY <2>1, <2>2
<1>4. k * A + j = l * A + h => k = l /\ j = h
  <2>1. CASE k < l
    <3>1. k * A + j < l * A + h
      BY <1>1, <2>1
    <3> QED BY <3>1
  <2>2. CASE l < k
    <3>1. l * A + h < k * A + j
      BY <1>1, <2>2
    <3> QED BY <3>1
  <2>3. CASE k = l
    BY <2>3
  <2> QED BY <2>1, <2>2, <2>3
<1> QED BY <1>2, <1>3, <1>4

-----------------------------------------------------------------------------
(* The loops.                                                              *)

LEMMA InitGridType == GridInit => GridTypeOK
<1> SUFFICES ASSUME GridInit PROVE GridTypeOK
  OBVIOUS
<1>1. rows \in Nat /\ cols \in Nat /\ blockSize \in Nat \ {0}
  BY FlowGridAssumption DEF GridInit
<1>2. FirstPoint(blockSize) \in Int
  BY <1>1 DEF FirstPoint
<1>3. prevPoints \in Seq([y: Int, x: Int])
  BY DEF GridInit
<1> QED BY <1>1, <1>2, <1>3 DEF GridInit, GridTypeOK, Cell, NoCell

LEMMA StepGridType ==
  ASSUME GridTypeOK, [GridNext]_gridVars
  PROVE  GridTypeOK'
<1> USE DEF GridTypeOK, sizes
<1>1. FirstPoint(blockSize) \in Int
  BY DEF FirstPoint
<1>2. CASE AddPoint
  <2>1. [y |-> y, x |-> x] \in [y: Int, x: Int]
    OBVIOUS
  <2>2. prevPoints' \in Seq([y: Int, x: Int])
    BY <1>2, <2>1, AppendProperties DEF AddPoint
  <2> QED BY <1>2, <2>2 DEF AddPoint
<1>3. CASE NextPointRow
  BY <1>1, <1>3 DEF NextPointRow
<1>4. CASE PointsDone
  BY <1>4 DEF PointsDone
<1>5. CASE SetCell
  <2>1. CellAt \in Cell
    <3>1. y \div blockSize \in Nat /\ x \div blockSize \in Nat /\ i \in Nat
      BY <1>5 DEF SetCell
    <3> QED BY <3>1 DEF CellAt, Cell
  <2> QED BY <1>5, <2>1 DEF SetCell
<1>6. CASE LeaveCell
  BY <1>6 DEF LeaveCell
<1>7. CASE ReadPastPoints
  BY <1>7 DEF ReadPastPoints
<1>8. CASE NextCellRow
  BY <1>8 DEF NextCellRow
<1>9. CASE CellsDone
  BY <1>9 DEF CellsDone
<1>10. CASE NextFrame
  <2>1. prevPoints' \in Seq([y: Int, x: Int]) /\ NoCell \in Cell
    BY <1>10 DEF NextFrame, NoCell, Cell
  <2> QED BY <1>1, <1>10, <2>1 DEF NextFrame
<1>11. CASE UNCHANGED gridVars
  BY <1>11 DEF gridVars
<1> QED BY <1>2, <1>3, <1>4, <1>5, <1>6, <1>7, <1>8, <1>9, <1>10, <1>11 DEF GridNext

\* What Fits gives.
LEMMA FitsFacts ==
  ASSUME GridTypeOK, Fits
  PROVE  /\ Down \in Nat /\ Across \in Nat
         /\ rows = blockSize * Down /\ cols = blockSize * Across
         /\ Down > 0 /\ Across > 0 /\ Down * Across > 1
         /\ FirstPoint(blockSize) \in 0..blockSize - 1 /\ 0 \in 0..blockSize - 1
<1>1. /\ Down \in Nat /\ Across \in Nat
      /\ rows = blockSize * Down /\ cols = blockSize * Across
  BY WholeBlocks DEF Fits, Divides, Down, Across, GridTypeOK
<1>2. FirstPoint(blockSize) \in 0..blockSize - 1 /\ 0 \in 0..blockSize - 1
  BY DEF FirstPoint, Fits, GridTypeOK
<1>3. rows * cols > blockSize * blockSize /\ blockSize \in Nat /\ blockSize > 1
  BY DEF Fits, GridTypeOK
<1> DEFINE area == blockSize * blockSize
           count == Down * Across
<1>4. rows * cols = area * count /\ area \in Nat /\ count \in Nat /\ area > 0
  BY <1>1, <1>3
<1>5. count > 1
  <2> SUFFICES ASSUME count = 0 \/ count = 1 PROVE FALSE
    BY <1>4
  <2> HIDE DEF area, count
  <2>1. area * count <= area
    BY <1>4
  <2> QED BY <1>3, <1>4, <2>1 DEF area
<1>6. Down > 0 /\ Across > 0
  BY <1>1, <1>5
<1> QED BY <1>1, <1>2, <1>5, <1>6

\* The sizes of a frame and of its blocks stay the same while it is worked on.
LEMMA SameSizes ==
  ASSUME sizes' = sizes
  PROVE  /\ Down' = Down /\ Across' = Across /\ Fits' = Fits
         /\ rows' = rows /\ cols' = cols /\ blockSize' = blockSize
         /\ FirstPoint(blockSize)' = FirstPoint(blockSize)
  BY DEF sizes, Down, Across, Fits, Divides, FirstPoint

\* At a block: whether the loops have passed the last row or the last column.
LEMMA WhereInFrame ==
  ASSUME GridTypeOK, Fits, NEW k \in 0..Down, NEW j \in 0..Across,
         NEW c \in 0..blockSize - 1, AtBlock(k, j, c)
  PROVE  /\ y < rows <=> k < Down
         /\ x < cols <=> j < Across
         /\ k = Down => j = 0
         /\ y + blockSize = c + blockSize * (k + 1)
         /\ x + blockSize = c + blockSize * (j + 1)
         /\ y \div blockSize = k /\ x \div blockSize = j
         /\ k * Across + j + 1 = k * Across + (j + 1)
         /\ k * Across + Across = (k + 1) * Across + 0
<1>1. /\ Down \in Nat /\ Across \in Nat /\ blockSize \in Nat \ {0}
      /\ rows = blockSize * Down /\ cols = blockSize * Across
  BY FitsFacts DEF GridTypeOK
<1>2. k \in Nat /\ j \in Nat /\ c \in Nat
  BY <1>1
<1>3. y = c + blockSize * k /\ x = c + blockSize * j /\ (k < Down \/ j = 0)
  BY DEF AtBlock
<1>4. (y < rows <=> k < Down) /\ (x < cols <=> j < Across)
  BY <1>1, <1>3, BeforeEnd
<1>5. y \div blockSize = k /\ x \div blockSize = j
  BY <1>1, <1>2, <1>3, BlockOf
<1>6. /\ blockSize * (k + 1) = blockSize * k + blockSize
      /\ blockSize * (j + 1) = blockSize * j + blockSize
      /\ (k + 1) * Across = k * Across + Across
      /\ blockSize * k \in Int /\ blockSize * j \in Int /\ k * Across \in Int
  BY <1>1, <1>2
<1> QED BY <1>1, <1>2, <1>3, <1>4, <1>5, <1>6

LEMMA StepLayingOut ==
  ASSUME GridTypeOK, Fits, GridInv, AddPoint \/ NextPointRow \/ PointsDone
  PROVE  LayingOut' /\ PointsInOrder' /\ Walking' /\ CellIsBlock'
<1> DEFINE F == FirstPoint(blockSize)
           n == Len(prevPoints)
<1>1. /\ Down \in Nat /\ Across \in Nat /\ blockSize \in Nat \ {0}
      /\ F \in 0..blockSize - 1 /\ F \in Nat
  BY FitsFacts DEF GridTypeOK
<1>2. PICK k \in 0..Down, j \in 0..Across : AtBlock(k, j, F) /\ n = k * Across + j
  BY DEF GridInv, LayingOut, AddPoint, NextPointRow, PointsDone
<1>3. i = 0 /\ ~(cellsSet > 0) /\ cellsSet \in Nat /\ PointsInOrder
  BY DEF GridInv, LayingOut, CellIsBlock, AddPoint, NextPointRow, PointsDone, GridTypeOK
<1>4. sizes' = sizes
  BY DEF AddPoint, NextPointRow, PointsDone
<1>5. /\ Down' = Down /\ Across' = Across /\ blockSize' = blockSize
      /\ FirstPoint(blockSize)' = F
  BY <1>4, SameSizes
<1>6. /\ y < rows <=> k < Down
      /\ x < cols <=> j < Across
      /\ k = Down => j = 0
      /\ y + blockSize = F + blockSize * (k + 1)
      /\ x + blockSize = F + blockSize * (j + 1)
      /\ k * Across + j + 1 = k * Across + (j + 1)
      /\ k * Across + Across = (k + 1) * Across + 0
  BY <1>1, <1>2, WhereInFrame
<1>7. y = F + blockSize * k /\ x = F + blockSize * j
  BY <1>2 DEF AtBlock
<1>8. y \in Int /\ x \in Int /\ rows \in Nat /\ cols \in Nat
  BY DEF GridTypeOK
<1>9. blockSize * 0 = 0 /\ 0 * Across + 0 = 0
  BY <1>1
<1> HIDE DEF F, n
<1>10. CASE AddPoint
  <2>1. k \in 0..Down - 1 /\ j \in 0..Across - 1 /\ j + 1 \in 0..Across
    BY <1>1, <1>6, <1>10 DEF AddPoint
  <2>2. /\ Len(prevPoints') = n + 1 /\ n \in Nat
        /\ \A m \in 1..n : prevPoints'[m] = prevPoints[m]
        /\ prevPoints'[n + 1] = [y |-> y, x |-> x]
    <3>1. [y |-> y, x |-> x] \in [y: Int, x: Int]
      BY <1>8
    <3>2. prevPoints \in Seq([y: Int, x: Int])
      BY DEF GridTypeOK
    <3> QED BY <1>10, <3>1, <3>2, AppendProperties, LenProperties DEF AddPoint, n
  <2>3. AtBlock(k, j + 1, F)'
    BY <1>2, <1>5, <1>6, <1>10, <2>1 DEF AtBlock, AddPoint, F
  <2>4. LayingOut'
    <3>1. Len(prevPoints') = k * Across + (j + 1)
      BY <1>2, <1>6, <2>2 DEF n
    <3>2. i' = 0
      BY <1>3, <1>10 DEF AddPoint
    <3> QED BY <1>5, <2>1, <2>3, <3>1, <3>2 DEF LayingOut, F
  <2>5. PointsInOrder'
    <3> SUFFICES ASSUME NEW l \in 0..Down - 1, NEW h \in 0..Across - 1,
                        l * Across + h < n + 1
                 PROVE  prevPoints'[l * Across + h + 1] =
                          [y |-> F + blockSize * l, x |-> F + blockSize * h]
      BY <1>5, <2>2 DEF PointsInOrder
    <3> DEFINE m == l * Across + h
    <3>1. m \in Nat /\ (k * Across + j = m => k = l /\ j = h)
      BY <1>1, <2>1, BlockNumbers
    <3>2. CASE m < n
      <4>1. m + 1 \in 1..n
        BY <2>2, <3>1, <3>2
      <4> QED BY <1>3, <2>2, <3>2, <4>1 DEF PointsInOrder, F, n
    <3>3. CASE m = n
      <4>1. l = k /\ h = j
        BY <1>2, <3>1, <3>3 DEF n
      <4> QED BY <1>7, <2>2, <3>3, <4>1
    <3> QED BY <2>2, <3>1, <3>2, <3>3
  <2>6. gridPc' = "points" /\ cellsSet' = cellsSet
    BY <1>10 DEF AddPoint
  <2> QED BY <1>3, <2>4, <2>5, <2>6 DEF Walking, CellIsBlock
<1>11. CASE NextPointRow
  <2>1. k + 1 \in 0..Down /\ j = Across /\ 0 \in 0..Across
    BY <1>1, <1>6, <1>8, <1>11 DEF NextPointRow
  <2>2. AtBlock(k + 1, 0, F)'
    BY <1>1, <1>5, <1>6, <1>9, <1>11, <2>1 DEF AtBlock, NextPointRow, F
  <2>3. Len(prevPoints') = (k + 1) * Across + 0 /\ i' = 0
    BY <1>2, <1>3, <1>6, <1>11, <2>1 DEF NextPointRow, n
  <2>4. LayingOut'
    BY <1>5, <2>1, <2>2, <2>3 DEF LayingOut, F
  <2>5. PointsInOrder'
    BY <1>3, <1>5, <1>11 DEF PointsInOrder, NextPointRow, F
  <2>6. gridPc' = "points" /\ cellsSet' = cellsSet
    BY <1>11 DEF NextPointRow
  <2> QED BY <1>3, <2>4, <2>5, <2>6 DEF Walking, CellIsBlock
<1>12. CASE PointsDone
  <2>1. k = Down /\ j = 0 /\ 0 \in 0..Down /\ 0 \in 0..Across
    BY <1>1, <1>6, <1>8, <1>12 DEF PointsDone
  <2>2. Len(prevPoints') = Down * Across
    BY <1>1, <1>2, <1>12, <2>1 DEF PointsDone, n
  <2>3. AtBlock(0, 0, 0)' /\ i' = 0 * Across + 0
    BY <1>1, <1>3, <1>5, <1>9, <1>12 DEF AtBlock, PointsDone
  <2>4. gridPc' = "cells" /\ cellsSet' = cellsSet
    BY <1>12 DEF PointsDone
  <2>5. PointsInOrder'
    BY <1>3, <1>5, <1>12 DEF PointsInOrder, PointsDone, F
  <2>6. Walking'
    BY <1>5, <2>1, <2>2, <2>3, <2>4 DEF Walking
  <2> QED BY <1>3, <2>4, <2>5, <2>6 DEF LayingOut, CellIsBlock
<1> QED BY <1>10, <1>11, <1>12

LEMMA StepWalking ==
  ASSUME GridTypeOK, Fits, GridInv, SetCell \/ LeaveCell \/ NextCellRow \/ CellsDone
  PROVE  gridPc' # "overrun" /\ LayingOut' /\ PointsInOrder' /\ Walking' /\ CellIsBlock'
<1>1. /\ Down \in Nat /\ Across \in Nat /\ blockSize \in Nat \ {0}
      /\ Down * Across > 1 /\ 0 \in 0..blockSize - 1
  BY FitsFacts DEF GridTypeOK
<1>2. gridPc = "cells"
  BY DEF SetCell, LeaveCell, NextCellRow, CellsDone
<1>3. PICK k \in 0..Down, j \in 0..Across : AtBlock(k, j, 0) /\ i = k * Across + j
  BY <1>2 DEF GridInv, Walking
<1>4. Len(prevPoints) = Down * Across /\ PointsInOrder /\ CellIsBlock
  BY <1>2 DEF GridInv, Walking
<1>5. sizes' = sizes /\ prevPoints' = prevPoints
  BY DEF SetCell, LeaveCell, NextCellRow, CellsDone
<1>6. /\ Down' = Down /\ Across' = Across /\ blockSize' = blockSize
      /\ FirstPoint(blockSize)' = FirstPoint(blockSize)
  BY <1>5, SameSizes
<1>7. /\ y < rows <=> k < Down
      /\ x < cols <=> j < Across
      /\ k = Down => j = 0
      /\ y + blockSize = 0 + blockSize * (k + 1)
      /\ x + blockSize = 0 + blockSize * (j + 1)
      /\ y \div blockSize = k /\ x \div blockSize = j
      /\ k * Across + j + 1 = k * Across + (j + 1)
      /\ k * Across + Across = (k + 1) * Across + 0
  BY <1>1, <1>3, WhereInFrame
<1>8. y \in Int /\ x \in Int /\ rows \in Nat /\ cols \in Nat
  BY DEF GridTypeOK
<1>9. PointsInOrder'
  BY <1>4, <1>5, <1>6 DEF PointsInOrder
<1>10. CASE SetCell \/ LeaveCell
  <2>1. k \in 0..Down - 1 /\ j \in 0..Across - 1 /\ j + 1 \in 0..Across
    BY <1>1, <1>7, <1>10 DEF SetCell, LeaveCell
  <2>2. CellAt = [y |-> k, x |-> j, i |-> k * Across + j]
    BY <1>3, <1>7 DEF CellAt
  <2>3. Len(prevPoints) > 1 /\ InResult(CellAt.y, CellAt.x)
    BY <1>1, <1>4, <2>1, <2>2 DEF InResult, Down, Across
  <2>4. gridPc' = "cells"
    BY <1>2, <1>10, <2>3 DEF SetCell, LeaveCell
  <2>5. AtBlock(k, j + 1, 0)'
    BY <1>3, <1>6, <1>7, <1>10, <2>1 DEF AtBlock, SetCell, LeaveCell
  <2>6. i' = k * Across + (j + 1)
    BY <1>3, <1>7, <1>10 DEF SetCell, LeaveCell
  <2>7. Walking'
    BY <1>4, <1>5, <1>6, <2>1, <2>4, <2>5, <2>6 DEF Walking
  <2>8. CellIsBlock'
    <3>1. CASE result' = CellAt
      BY <1>6, <2>1, <2>2, <2>4, <3>1 DEF CellIsBlock
    <3>2. CASE result' = result /\ cellsSet' = cellsSet
      BY <1>4, <1>6, <2>4, <3>2 DEF CellIsBlock
    <3> QED BY <1>10, <2>3, <3>1, <3>2 DEF SetCell, LeaveCell
  <2> QED BY <1>9, <2>4, <2>7, <2>8 DEF LayingOut
<1>11. CASE NextCellRow
  <2>1. k + 1 \in 0..Down /\ j = Across /\ 0 \in 0..Across
    BY <1>1, <1>7, <1>8, <1>11 DEF NextCellRow
  <2>2. AtBlock(k + 1, 0, 0)'
    BY <1>1, <1>6, <1>7, <1>11, <2>1 DEF AtBlock, NextCellRow
  <2>3. i' = (k + 1) * Across + 0 /\ gridPc' = "cells"
    BY <1>3, <1>7, <1>11, <2>1 DEF NextCellRow
  <2>4. Walking'
    BY <1>4, <1>5, <1>6, <2>1, <2>2, <2>3 DEF Walking
  <2>5. CellIsBlock'
    BY <1>4, <1>6, <1>11 DEF CellIsBlock, NextCellRow
  <2> QED BY <1>9, <2>3, <2>4, <2>5 DEF LayingOut
<1>12. CASE CellsDone
  <2>1. k = Down /\ j = 0
    BY <1>1, <1>7, <1>8, <1>12 DEF CellsDone
  <2>2. i' = Down * Across /\ gridPc' = "done"
    BY <1>1, <1>3, <1>12, <2>1 DEF CellsDone
  <2>3. Walking'
    BY <1>4, <1>5, <1>6, <2>2 DEF Walking
  <2>4. CellIsBlock'
    BY <1>4, <1>6, <1>12 DEF CellIsBlock, CellsDone
  <2> QED BY <1>9, <2>2, <2>3, <2>4 DEF LayingOut
<1> QED BY <1>10, <1>11, <1>12

\* The second loop never asks for a point that is not there.
LEMMA PointsSuffice ==
  ASSUME GridTypeOK, Fits, GridInv, ReadPastPoints
  PROVE  FALSE
<1>1. /\ Down \in Nat /\ Across \in Nat /\ 0 \in 0..blockSize - 1
  BY FitsFacts
<1>2. PICK k \in 0..Down, j \in 0..Across : AtBlock(k, j, 0) /\ i = k * Across + j
  BY DEF GridInv, Walking, ReadPastPoints
<1>3. Len(prevPoints) = Down * Across
  BY DEF GridInv, Walking, ReadPastPoints
<1>4. (y < rows <=> k < Down) /\ (x < cols <=> j < Across)
  BY <1>1, <1>2, WhereInFrame
<1>5. k \in 0..Down - 1 /\ j \in 0..Across - 1
  BY <1>1, <1>4 DEF ReadPastPoints
<1>6. k * Across + j \in Nat /\ k * Across + j < Down * Across
  BY <1>1, <1>5, BlockNumbers
<1>7. i >= Len(prevPoints)
  BY DEF ReadPastPoints
<1> QED BY <1>1, <1>2, <1>3, <1>6, <1>7

\* The first loop at its first point.
AtFirstPoint ==
  /\ gridPc = "points" /\ prevPoints = <<>> /\ i = 0 /\ cellsSet = 0
  /\ y = FirstPoint(blockSize) /\ x = FirstPoint(blockSize)

LEMMA AtTheStart == GridTypeOK /\ AtFirstPoint => GridInv
<1> SUFFICES ASSUME GridTypeOK, AtFirstPoint, Fits
             PROVE  gridPc # "overrun" /\ LayingOut /\ PointsInOrder /\ Walking /\ CellIsBlock
  BY DEF GridInv
<1> USE DEF AtFirstPoint
<1>1. /\ Down \in Nat /\ Across \in Nat /\ blockSize \in Nat \ {0}
      /\ FirstPoint(blockSize) \in Nat /\ Down > 0
  BY FitsFacts DEF GridTypeOK
<1>2. Len(prevPoints) = 0
  OBVIOUS
<1>3. blockSize * 0 = 0 /\ 0 * Across + 0 = 0
  BY <1>1
<1>4. LayingOut
  <2>1. AtBlock(0, 0, FirstPoint(blockSize))
    BY <1>1, <1>3 DEF AtBlock
  <2> QED BY <1>1, <1>2, <1>3, <2>1 DEF LayingOut
<1>5. PointsInOrder
  <2> SUFFICES ASSUME NEW k \in 0..Down - 1, NEW j \in 0..Across - 1,
                      k * Across + j < 0
               PROVE  FALSE
    BY <1>2 DEF PointsInOrder
  <2> QED BY <1>1, BlockNumbers
<1> QED BY <1>4, <1>5 DEF Walking, CellIsBlock

LEMMA AtTheNextStart == (GridTypeOK /\ AtFirstPoint => GridInv)'
  BY AtTheStart, PTL

LEMMA InitGridInv == GridInit => GridInv
  BY InitGridType, AtTheStart DEF GridInit, AtFirstPoint

LEMMA StepGridInv ==
  ASSUME GridTypeOK, GridInv, [GridNext]_gridVars
  PROVE  GridInv'
<1>1. CASE UNCHANGED gridVars
  <2>1. sizes' = sizes
    BY <1>1 DEF gridVars
  <2>2. /\ Fits' = Fits /\ Down' = Down /\ Across' = Across /\ blockSize' = blockSize
        /\ FirstPoint(blockSize)' = FirstPoint(blockSize)
    BY <2>1, SameSizes
  <2> QED BY <1>1, <2>2 DEF gridVars, GridInv, LayingOut, PointsInOrder, Walking,
                            CellIsBlock, AtBlock
<1>2. ASSUME GridNext
      PROVE  GridInv'
  <2>1. sizes' = sizes
    BY <1>2 DEF GridNext, AddPoint, NextPointRow, PointsDone, SetCell, LeaveCell,
                ReadPastPoints, NextCellRow, CellsDone, NextFrame
  <2>2. SUFFICES ASSUME Fits
                 PROVE  /\ gridPc' # "overrun"
                        /\ LayingOut' /\ PointsInOrder' /\ Walking' /\ CellIsBlock'
    BY <2>1, SameSizes DEF GridInv
  <2>3. CASE AddPoint \/ NextPointRow \/ PointsDone
    <3>1. gridPc' # "overrun"
      BY <2>3 DEF AddPoint, NextPointRow, PointsDone
    <3> QED BY <2>2, <2>3, <3>1, StepLayingOut
  <2>4. CASE SetCell \/ LeaveCell \/ NextCellRow \/ CellsDone
    BY <2>2, <2>4, StepWalking
  <2>5. CASE ReadPastPoints
    BY <2>2, <2>5, PointsSuffice
  <2>6. CASE NextFrame
    <3>1. AtFirstPoint'
      BY <2>1, <2>6, SameSizes DEF NextFrame, AtFirstPoint
    <3>2. GridInv' /\ Fits'
      BY <1>2, <2>1, <2>2, <3>1, SameSizes, StepGridType, AtTheNextStart
    <3> QED BY <3>2 DEF GridInv
  <2> QED BY <1>2, <2>3, <2>4, <2>5, <2>6 DEF GridNext
<1> QED BY <1>1, <1>2

LEMMA GridCorrect == ProgramSpec => [](GridTypeOK /\ GridInv)
<1>1. ProgramInit => GridTypeOK /\ GridInv
  BY InitGridType, InitGridInv DEF ProgramInit
<1>2. [ProgramNext]_programVars => [GridNext]_gridVars
  BY DEF ProgramNext, programVars, Construct, DetectByHistory, DetectByFlow
<1>3. GridTypeOK /\ GridInv /\ [ProgramNext]_programVars => (GridTypeOK /\ GridInv)'
  BY <1>2, StepGridType, StepGridInv
<1> QED BY <1>1, <1>3, PTL DEF ProgramSpec

\* On every frame of whole blocks, whatever its size, both loops stay within the
\* vectors and the result, and the second uses every point of the first.
THEOREM GridIsSafe == ProgramSpec => []WholeBlocksAreSafe
<1>1. GridTypeOK /\ GridInv => WholeBlocksAreSafe
  BY DEF GridInv, Walking, WholeBlocksAreSafe
<1> QED BY <1>1, GridCorrect, PTL

\* On such a frame the running index and the cell's coordinates, which are
\* counted apart, never part: a cell is set from the point of its own block.
THEOREM CellsShowTheirPoints == ProgramSpec => []CellShowsItsOwnPoint
<1>1. GridTypeOK /\ GridInv => CellShowsItsOwnPoint
  <2> SUFFICES ASSUME GridTypeOK, GridInv, Fits, cellsSet > 0
               PROVE  LET p == prevPoints[result.i + 1]
                      IN  p.y \div blockSize = result.y /\ p.x \div blockSize = result.x
    BY DEF CellShowsItsOwnPoint
  <2> DEFINE F == FirstPoint(blockSize)
  <2>1. /\ Down \in Nat /\ Across \in Nat /\ blockSize \in Nat \ {0}
        /\ F \in 0..blockSize - 1
    BY FitsFacts DEF GridTypeOK
  <2>2. PICK k \in 0..Down - 1, j \in 0..Across - 1 :
          result = [y |-> k, x |-> j, i |-> k * Across + j]
    BY DEF GridInv, CellIsBlock
  <2>3. k * Across + j < Len(prevPoints)
    <3>1. k * Across + j < Down * Across
      BY <2>1, BlockNumbers
    <3>2. Len(prevPoints) = Down * Across
      BY DEF GridInv, CellIsBlock, Walking
    <3> QED BY <3>1, <3>2
  <2>4. prevPoints[result.i + 1] = [y |-> F + blockSize * k, x |-> F + blockSize * j]
    BY <2>2, <2>3 DEF GridInv, PointsInOrder
  <2>5. k \in Nat /\ j \in Nat
    BY <2>1
  <2>6. (F + blockSize * k) \div blockSize = k /\ (F + blockSize * j) \div blockSize = j
    BY <2>1, <2>5, BlockOf
  <2> HIDE DEF F
  <2> QED BY <2>2, <2>4, <2>6
<1> QED BY <1>1, GridCorrect, PTL

=============================================================================
