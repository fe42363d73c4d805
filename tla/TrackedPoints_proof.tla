------------------------ MODULE TrackedPoints_proof ------------------------
(***************************************************************************)
(* The two programs that follow points through a video.                    *)
(*                                                                         *)
(* pointTracking, for any distance function, any flow and any number of    *)
(* clicks and frames: the search for the nearest point is an induction     *)
(* over its loop, and the rest follows from the points lying in the order  *)
(* of their clicks.                                                        *)
(*                                                                         *)
(* gunDetection, for any guns, people and pans: the points that merge      *)
(* keeps apart are at least the merge distance from each other, so no more *)
(* can come to be than fit where hits can be.  As long as the matcher was  *)
(* not misled also gun by gun, if the guns are apart: positions that are   *)
(* close are then on the same gun, so merge never takes the last point of  *)
(* one.                                                                    *)
(***************************************************************************)
EXTENDS PointTracking, GunDetection, Induction, SequenceTheorems, FiniteSetTheorems

LEMMA WithoutFacts ==
  ASSUME NEW S, NEW s \in Seq(S), NEW r \in 1..Len(s)
  PROVE  /\ Without(s, r) \in Seq(S)
         /\ Len(Without(s, r)) = Len(s) - 1
         /\ \A k \in 1..Len(s) - 1 : Without(s, r)[k] = IF k < r THEN s[k] ELSE s[k + 1]
<1>1. Len(s) - 1 \in Nat
  OBVIOUS
<1>2. \A k \in 1..Len(s) - 1 : (IF k < r THEN s[k] ELSE s[k + 1]) \in S
  OBVIOUS
<1> QED BY <1>1, <1>2 DEF Without

-----------------------------------------------------------------------------
(* The search for the nearest point.                                       *)

\* What the loop has found when it has looked at the first n points.
IsNearest(f, p, n) ==
  /\ f \in [0..n -> 0..n]
  /\ \A k \in 0..n :
       f[k] = IF k = 0 THEN 0
              ELSE IF f[k - 1] # 0 /\ Dist[p][points[k]] >= Dist[p][points[f[k - 1]]]
                     THEN f[k - 1] ELSE k

LEMMA NearestExists ==
  ASSUME NEW p \in Position
  PROVE  \A n \in Nat : \E f : IsNearest(f, p, n)
<1> DEFINE S == {n \in Nat : \E f : IsNearest(f, p, n)}
<1>1. 0 \in S
  <2> DEFINE f == [k \in 0..0 |-> 0]
  <2>1. IsNearest(f, p, 0)
    BY DEF IsNearest
  <2> QED BY <2>1
<1>2. ASSUME NEW n \in Nat, n \in S
      PROVE  n + 1 \in S
  <2>1. PICK f : IsNearest(f, p, n)
    BY <1>2
  <2> DEFINE last == IF f[n] # 0 /\ Dist[p][points[n + 1]] >= Dist[p][points[f[n]]]
                       THEN f[n] ELSE n + 1
             g == [k \in 0..n + 1 |-> IF k = n + 1 THEN last ELSE f[k]]
  <2>2. f \in [0..n -> 0..n] /\ f[n] \in 0..n
    BY <2>1 DEF IsNearest
  <2>3. last \in 0..n + 1
    BY <2>2
  <2>4. g \in [0..n + 1 -> 0..n + 1]
    BY <2>2, <2>3
  <2>5. g[n + 1] = last /\ \A k \in 0..n : g[k] = f[k]
    BY <2>2
  <2> HIDE DEF g
  <2>6. \A k \in 0..n + 1 :
          g[k] = IF k = 0 THEN 0
                 ELSE IF g[k - 1] # 0 /\ Dist[p][points[k]] >= Dist[p][points[g[k - 1]]]
                        THEN g[k - 1] ELSE k
    <3> SUFFICES ASSUME NEW k \in 0..n + 1
                 PROVE  g[k] = IF k = 0 THEN 0
                               ELSE IF /\ g[k - 1] # 0
                                       /\ Dist[p][points[k]] >= Dist[p][points[g[k - 1]]]
                                      THEN g[k - 1] ELSE k
      OBVIOUS
    <3>1. CASE k = n + 1
      BY <2>5, <3>1
    <3>2. CASE k \in 0..n
      <4>1. f[k] = IF k = 0 THEN 0
                   ELSE IF f[k - 1] # 0 /\ Dist[p][points[k]] >= Dist[p][points[f[k - 1]]]
                          THEN f[k - 1] ELSE k
        BY <2>1, <3>2 DEF IsNearest
      <4>2. g[k] = f[k] /\ (k # 0 => g[k - 1] = f[k - 1])
        BY <2>5, <3>2
      <4> QED BY <4>1, <4>2
    <3> QED BY <3>1, <3>2
  <2>7. IsNearest(g, p, n + 1)
    BY <2>4, <2>6 DEF IsNearest
  <2> QED BY <2>7
<1>3. Nat \subseteq S
  <2> HIDE DEF S
  <2> QED BY <1>1, <1>2, SetInduction
<1> QED BY <1>3

\* nearestIndex returns the nearest point, and the first of them.
LEMMA NearestIsFound ==
  ASSUME TypeOK, NEW p \in Position
  PROVE  /\ NearestIndex(p) \in 0..Len(points)
         /\ NearestIndex(p) = 0 <=> Len(points) = 0
         /\ \A j \in 1..Len(points) \ {NearestIndex(p)} :
              LET near(k) == Dist[p][points[k]]
                  r == NearestIndex(p)
              IN  near(r) < near(j) \/ (near(r) = near(j) /\ r < j)
<1> DEFINE m == Len(points)
           near(k) == Dist[p][points[k]]
           Step(f) == [k \in 0..m |->
                        IF k = 0 THEN 0
                        ELSE LET best == f[k - 1]
                             IN  IF best # 0 /\ Dist[p][points[k]] >= Dist[p][points[best]]
                                   THEN best ELSE k]
           nearest == CHOOSE f : f = Step(f)
<1>1. m \in Nat /\ \A k \in 1..m : points[k] \in Position
  BY DEF TypeOK
<1>2. \E f : f = Step(f)
  <2>1. PICK f : IsNearest(f, p, m)
    BY <1>1, NearestExists
  <2>2. f = Step(f)
    BY <2>1 DEF IsNearest
  <2> QED BY <2>2
<1>3. nearest = Step(nearest)
  BY <1>2
<1>4. NearestIndex(p) = nearest[m]
  BY DEF NearestIndex
<1> HIDE DEF nearest
<1>5. \A k \in 0..m :
        nearest[k] = IF k = 0 THEN 0
                     ELSE IF nearest[k - 1] # 0 /\ near(k) >= near(nearest[k - 1])
                            THEN nearest[k - 1] ELSE k
  BY <1>3
<1>6. \A k \in 1..m : near(k) \in Nat
  BY <1>1, PointAssumption
<1> HIDE DEF near, m
<1> DEFINE First(n) == /\ nearest[n] \in 0..n
                       /\ nearest[n] = 0 <=> n = 0
                       /\ \A j \in 1..n \ {nearest[n]} :
                            \/ near(nearest[n]) < near(j)
                            \/ near(nearest[n]) = near(j) /\ nearest[n] < j
           S == {n \in Nat : n <= m => First(n)}
<1>7. 0 \in S
  BY <1>1, <1>5
<1>8. ASSUME NEW n \in Nat, n \in S
      PROVE  n + 1 \in S
  <2> SUFFICES ASSUME n + 1 <= m
               PROVE  First(n + 1)
    OBVIOUS
  <2>1. First(n)
    BY <1>1, <1>8
  <2>2. nearest[n + 1] = IF nearest[n] # 0 /\ near(n + 1) >= near(nearest[n])
                           THEN nearest[n] ELSE n + 1
    BY <1>1, <1>5
  <2>3. \A j \in 1..n + 1 : near(j) \in Nat
    BY <1>1, <1>6
  <2>4. CASE nearest[n] = 0
    <3>1. n = 0 /\ nearest[n + 1] = 1
      BY <2>1, <2>2, <2>4
    <3> QED BY <3>1
  <2>5. CASE nearest[n] # 0 /\ near(n + 1) >= near(nearest[n])
    <3>1. nearest[n + 1] = nearest[n] /\ nearest[n] \in 1..n
      BY <2>1, <2>2, <2>5
    <3>2. near(nearest[n]) \in Nat /\ near(n + 1) \in Nat
      BY <2>3, <3>1
    <3>3. \/ near(nearest[n]) < near(n + 1)
          \/ near(nearest[n]) = near(n + 1) /\ nearest[n] < n + 1
      BY <2>5, <3>1, <3>2
    <3> QED BY <2>1, <3>1, <3>3
  <2>6. CASE nearest[n] # 0 /\ ~(near(n + 1) >= near(nearest[n]))
    <3>1. nearest[n + 1] = n + 1 /\ nearest[n] \in 1..n
      BY <2>1, <2>2, <2>6
    <3>2. \A j \in 1..n : near(n + 1) < near(j)
      <4> SUFFICES ASSUME NEW j \in 1..n PROVE near(n + 1) < near(j)
        OBVIOUS
      <4>1. near(n + 1) < near(nearest[n])
        BY <2>3, <2>6, <3>1
      <4>2. near(nearest[n]) <= near(j)
        BY <2>1, <2>3, <3>1
      <4> QED BY <2>3, <3>1, <4>1, <4>2
    <3> QED BY <3>1, <3>2
  <2> QED BY <2>4, <2>5, <2>6
<1>9. Nat \subseteq S
  <2> HIDE DEF S
  <2> QED BY <1>7, <1>8, SetInduction
<1>10. First(m)
  BY <1>1, <1>9
<1> QED BY <1>4, <1>10 DEF near, m

-----------------------------------------------------------------------------
(* pointTracking.                                                          *)

LEMMA RightClickFacts ==
  ASSUME TypeOK, NEW p \in Position, RightClick(p)
  PROVE  \/ Len(points) = 0 /\ UNCHANGED <<points, ages, asOf>>
         \/ \E r \in 1..Len(points) :
              /\ r = NearestIndex(p)
              /\ points' = Without(points, r) /\ ages' = Without(ages, r)
              /\ asOf' = Without(asOf, r)
<1>1. Len(points) \in Nat
  BY DEF TypeOK
<1>2. CASE NearestIndex(p) = 0
  BY <1>2, NearestIsFound DEF RightClick
<1>3. CASE NearestIndex(p) # 0
  <2>1. NearestIndex(p) \in 1..Len(points)
    BY <1>1, <1>3, NearestIsFound
  <2> QED BY <1>3, <2>1 DEF RightClick
<1> QED BY <1>2, <1>3

LEMMA PointsInitType == Init => TypeOK
  BY PointAssumption DEF Init, TypeOK

LEMMA PointsStepType ==
  ASSUME TypeOK, [Next]_vars
  PROVE  TypeOK'
<1> USE DEF TypeOK, loop
<1>1. ASSUME NEW p \in Position, LeftClick(p)
      PROVE  TypeOK'
  <2>1. clicks + 1 \in Nat /\ shown \in Nat
    OBVIOUS
  <2>2. /\ points' \in Seq(Position) /\ Len(points') = Len(points) + 1
        /\ ages' \in Seq(Nat) /\ Len(ages') = Len(ages) + 1
        /\ asOf' \in Seq(Nat) /\ Len(asOf') = Len(asOf) + 1
    BY <1>1, <2>1, AppendProperties DEF LeftClick
  <2> QED BY <1>1, <2>1, <2>2 DEF LeftClick
<1>2. ASSUME NEW p \in Position, RightClick(p)
      PROVE  TypeOK'
  <2>1. CASE UNCHANGED <<points, ages, asOf>>
    BY <1>2, <2>1 DEF RightClick
  <2>2. ASSUME NEW r \in 1..Len(points),
               points' = Without(points, r), ages' = Without(ages, r), asOf' = Without(asOf, r)
        PROVE  TypeOK'
    <3>1. /\ points' \in Seq(Position) /\ Len(points') = Len(points) - 1
          /\ ages' \in Seq(Nat) /\ Len(ages') = Len(ages) - 1
          /\ asOf' \in Seq(Nat) /\ Len(asOf') = Len(asOf) - 1
      BY <2>2, WithoutFacts
    <3> QED BY <1>2, <3>1 DEF RightClick
  <2> QED BY <1>2, <2>1, <2>2, RightClickFacts
<1>3. CASE ReadFrame
  BY <1>3, PointAssumption DEF ReadFrame, ShownSoFar
<1>4. CASE Resume \/ Stop
  BY <1>4 DEF Resume, Stop
<1>5. CASE Track
  <2>1. PICK flow \in Flows : points' = [k \in DOMAIN points |-> flow[points[k]]]
    BY <1>5 DEF Track
  <2>2. flow \in [Position -> Position] /\ DOMAIN points = 1..Len(points)
    BY PointAssumption
  <2>3. points' \in Seq(Position) /\ Len(points') = Len(points)
    BY <2>1, <2>2
  <2>4. asOf' \in Seq(Nat) /\ Len(asOf') = Len(points)
    BY <1>5, <2>2 DEF Track
  <2> QED BY <1>5, <2>3, <2>4, PointAssumption DEF Track
<1>6. CASE UNCHANGED vars
  BY <1>6 DEF vars
<1> QED BY <1>1, <1>2, <1>3, <1>4, <1>5, <1>6 DEF Next

LEMMA StepInOrder ==
  ASSUME TypeOK, InOrderOfClicks, [Next]_vars
  PROVE  InOrderOfClicks'
<1>1. /\ ages \in Seq(Nat) /\ Len(ages) \in Nat /\ clicks \in Nat
      /\ Len(points) = Len(ages)
  BY DEF TypeOK
<1>2. ASSUME NEW p \in Position, LeftClick(p)
      PROVE  InOrderOfClicks'
  <2>1. /\ Len(ages') = Len(ages) + 1 /\ ages'[Len(ages) + 1] = clicks + 1
        /\ \A k \in 1..Len(ages) : ages'[k] = ages[k]
        /\ clicks' = clicks + 1 /\ ages' \in Seq(Nat)
    BY <1>1, <1>2 DEF LeftClick
  <2>2. \A k \in 1..Len(ages) : ages[k] \in Nat /\ ages[k] <= clicks
    BY <1>1 DEF InOrderOfClicks
  <2>3. \A a \in DOMAIN ages' : a \in 1..Len(ages) \/ a = Len(ages) + 1
    BY <1>1, <2>1
  <2>4. ASSUME NEW a \in DOMAIN ages'
        PROVE  ages'[a] <= clicks'
    <3>1. CASE a = Len(ages) + 1
      BY <1>1, <2>1, <3>1
    <3>2. CASE a \in 1..Len(ages)
      BY <1>1, <2>1, <2>2, <3>2
    <3> QED BY <2>3, <3>1, <3>2
  <2>5. ASSUME NEW a \in DOMAIN ages', NEW b \in DOMAIN ages', a < b
        PROVE  ages'[a] < ages'[b]
    <3>1. a \in 1..Len(ages) /\ ages'[a] = ages[a] /\ ages[a] \in Nat /\ ages[a] <= clicks
      BY <1>1, <2>1, <2>2, <2>3, <2>5
    <3>2. CASE b = Len(ages) + 1
      BY <1>1, <2>1, <3>1, <3>2
    <3>3. CASE b \in 1..Len(ages)
      BY <1>1, <2>1, <2>5, <3>1, <3>3 DEF InOrderOfClicks
    <3> QED BY <2>3, <3>2, <3>3
  <2> QED BY <2>4, <2>5 DEF InOrderOfClicks
<1>3. ASSUME NEW p \in Position, RightClick(p)
      PROVE  InOrderOfClicks'
  <2>1. clicks' = clicks
    BY <1>3 DEF RightClick
  <2>2. CASE UNCHANGED <<points, ages, asOf>>
    BY <2>1, <2>2 DEF InOrderOfClicks
  <2>3. ASSUME NEW r \in 1..Len(points), ages' = Without(ages, r)
        PROVE  InOrderOfClicks'
    <3>1. /\ ages' \in Seq(Nat) /\ Len(ages') = Len(ages) - 1
          /\ \A k \in 1..Len(ages) - 1 : ages'[k] = IF k < r THEN ages[k] ELSE ages[k + 1]
      BY <1>1, <2>3, WithoutFacts
    <3>2. \A k \in 1..Len(ages) - 1 : k \in DOMAIN ages /\ k + 1 \in DOMAIN ages
      BY <1>1
    <3>3. DOMAIN ages' = 1..Len(ages) - 1
      BY <3>1
    <3>4. ASSUME NEW a \in DOMAIN ages' PROVE ages'[a] <= clicks
      BY <3>1, <3>2, <3>3 DEF InOrderOfClicks
    <3>5. ASSUME NEW a \in DOMAIN ages', NEW b \in DOMAIN ages', a < b
          PROVE  ages'[a] < ages'[b]
      <4> DEFINE from(k) == IF k < r THEN k ELSE k + 1
      <4>1. from(a) < from(b) /\ from(a) \in DOMAIN ages /\ from(b) \in DOMAIN ages
        BY <3>2, <3>3, <3>5
      <4>2. ages'[a] = ages[from(a)] /\ ages'[b] = ages[from(b)]
        BY <3>1, <3>3
      <4> QED BY <4>1, <4>2 DEF InOrderOfClicks
    <3> QED BY <2>1, <3>4, <3>5 DEF InOrderOfClicks
  <2> QED BY <1>3, <2>2, <2>3, RightClickFacts
<1>4. CASE ReadFrame \/ Resume \/ Stop \/ Track \/ UNCHANGED vars
  BY <1>4 DEF ReadFrame, Resume, Stop, Track, vars, InOrderOfClicks
<1> QED BY <1>2, <1>3, <1>4 DEF Next

LEMMA StepWindow ==
  ASSUME TypeOK, WindowIsPrev, [Next]_vars
  PROVE  WindowIsPrev'
<1>1. asOf \in Seq(Nat) /\ Len(asOf) = Len(points) /\ Len(asOf) \in Nat /\ shown \in Nat
  BY DEF TypeOK
<1>2. ASSUME NEW p \in Position, LeftClick(p)
      PROVE  WindowIsPrev'
  <2>1. prev' = prev /\ shown' = shown /\ asOf' = Append(asOf, shown)
    BY <1>2 DEF LeftClick, loop
  <2>2. \A k \in DOMAIN asOf' : asOf'[k] = shown \/ \E j \in DOMAIN asOf : asOf'[k] = asOf[j]
    BY <1>1, <2>1
  <2> QED BY <2>1, <2>2 DEF WindowIsPrev
<1>3. ASSUME NEW p \in Position, RightClick(p)
      PROVE  WindowIsPrev'
  <2>1. prev' = prev /\ shown' = shown
    BY <1>3 DEF RightClick, loop
  <2>2. CASE UNCHANGED <<points, ages, asOf>>
    BY <2>1, <2>2 DEF WindowIsPrev
  <2>3. ASSUME NEW r \in 1..Len(points), asOf' = Without(asOf, r)
        PROVE  WindowIsPrev'
    <3>1. /\ DOMAIN asOf' = 1..Len(asOf) - 1
          /\ \A k \in 1..Len(asOf) - 1 : asOf'[k] = IF k < r THEN asOf[k] ELSE asOf[k + 1]
      BY <1>1, <2>3, WithoutFacts DEF Without
    <3>2. ASSUME NEW k \in DOMAIN asOf'
          PROVE  \E j \in DOMAIN asOf : asOf'[k] = asOf[j]
      <4>1. k \in DOMAIN asOf /\ k + 1 \in DOMAIN asOf
        BY <1>1, <3>1
      <4> QED BY <3>1, <4>1
    <3> QED BY <2>1, <3>2 DEF WindowIsPrev
  <2> QED BY <1>3, <2>2, <2>3, RightClickFacts
<1>4. CASE ReadFrame \/ Resume \/ Stop \/ UNCHANGED vars
  BY <1>4 DEF ReadFrame, Resume, Stop, ShownSoFar, vars, loop, WindowIsPrev
<1>5. CASE Track
  BY <1>5 DEF Track, WindowIsPrev
<1> QED BY <1>2, <1>3, <1>4, <1>5 DEF Next

LEMMA PointsCorrect == Spec => [](TypeOK /\ InOrderOfClicks /\ WindowIsPrev)
<1>1. Init => TypeOK /\ InOrderOfClicks /\ WindowIsPrev
  BY PointsInitType DEF Init, InOrderOfClicks, WindowIsPrev
<1>2. TypeOK /\ InOrderOfClicks /\ WindowIsPrev /\ [Next]_vars
        => (TypeOK /\ InOrderOfClicks /\ WindowIsPrev)'
  BY PointsStepType, StepInOrder, StepWindow
<1> QED BY <1>1, <1>2, PTL DEF Spec

\* A point is tracked from the frame its user clicked on, also when the next
\* frame had been read already: the window is always as old as prev.
THEOREM TrackedFromWindow == Spec => []TrackedFromItsFrame
<1>1. WindowIsPrev => TrackedFromItsFrame
  BY DEF WindowIsPrev, TrackedFromItsFrame
<1> QED BY <1>1, PointsCorrect, PTL

\* Only a right click ever takes a point, and it takes the nearest one and among
\* those the oldest; the others stay in their order.
THEOREM RightClickTakesNearest == Spec => OldestNearestGoes
<1> DEFINE A == \A i \in DOMAIN ages :
                  (\A j \in DOMAIN ages' : ages'[j] # ages[i]) =>
                    /\ \A j \in DOMAIN points \ {i} :
                         LET near(k) == Dist[rightClick'][points[k]]
                         IN  near(i) < near(j) \/ (near(i) = near(j) /\ ages[i] < ages[j])
                    /\ Len(ages') = Len(ages) - 1
                    /\ \A k \in DOMAIN ages' : ages'[k] = ages[IF k < i THEN k ELSE k + 1]
<1>1. TypeOK /\ InOrderOfClicks /\ [Next]_vars => [A]_vars
  <2> DEFINE Goes(k) ==
               /\ \A j \in DOMAIN points \ {k} :
                    LET near(l) == Dist[rightClick'][points[l]]
                    IN  near(k) < near(j) \/ (near(k) = near(j) /\ ages[k] < ages[j])
               /\ Len(ages') = Len(ages) - 1
               /\ \A l \in DOMAIN ages' : ages'[l] = ages[IF l < k THEN l ELSE l + 1]
  <2> SUFFICES ASSUME TypeOK, InOrderOfClicks, Next, NEW k \in DOMAIN ages,
                      \A j \in DOMAIN ages' : ages'[j] # ages[k]
               PROVE  Goes(k)
    OBVIOUS
  <2>1. /\ ages \in Seq(Nat) /\ Len(ages) \in Nat /\ Len(points) = Len(ages)
        /\ DOMAIN ages = 1..Len(ages) /\ DOMAIN points = 1..Len(ages)
    BY DEF TypeOK
  <2>2. ASSUME NEW p \in Position, LeftClick(p)
        PROVE  FALSE
    <3>1. ages' = Append(ages, clicks + 1)
      BY <2>2 DEF LeftClick
    <3>2. k \in DOMAIN ages' /\ ages'[k] = ages[k]
      BY <2>1, <3>1
    <3> QED BY <3>2
  <2>3. CASE ReadFrame \/ Resume \/ Stop \/ Track
    BY <2>3 DEF ReadFrame, Resume, Stop, Track
  <2>4. ASSUME NEW p \in Position, RightClick(p)
        PROVE  Goes(k)
    <3>1. CASE UNCHANGED <<points, ages, asOf>>
      BY <3>1
    <3>2. ASSUME NEW r \in 1..Len(points), r = NearestIndex(p), ages' = Without(ages, r)
          PROVE  Goes(k)
      <4>1. /\ Len(ages') = Len(ages) - 1 /\ DOMAIN ages' = 1..Len(ages) - 1
            /\ \A l \in 1..Len(ages) - 1 : ages'[l] = IF l < r THEN ages[l] ELSE ages[l + 1]
        BY <2>1, <3>2, WithoutFacts DEF Without
      <4>2. k = r
        <5>1. CASE k < r
          <6>1. k \in 1..Len(ages) - 1 /\ ages'[k] = ages[k]
            BY <2>1, <4>1, <5>1
          <6> QED BY <4>1, <6>1
        <5>2. CASE k > r
          <6>1. k - 1 \in 1..Len(ages) - 1 /\ ~(k - 1 < r) /\ (k - 1) + 1 = k
            BY <2>1, <5>2
          <6>2. ages'[k - 1] = ages[k]
            BY <4>1, <6>1
          <6> QED BY <4>1, <6>1, <6>2
        <5> QED BY <2>1, <5>1, <5>2
      <4>3. \A j \in 1..Len(points) \ {k} :
              LET near(l) == Dist[p][points[l]]
              IN  near(k) < near(j) \/ (near(k) = near(j) /\ k < j)
        BY <3>2, <4>2, NearestIsFound
      <4>4. rightClick' = p
        BY <2>4 DEF RightClick
      <4>5. \A j \in DOMAIN points \ {k} : k < j => ages[k] < ages[j]
        BY <2>1 DEF InOrderOfClicks
      <4>6. \A l \in DOMAIN ages' : ages'[l] = ages[IF l < k THEN l ELSE l + 1]
        BY <4>1, <4>2
      <4> QED BY <2>1, <4>1, <4>3, <4>4, <4>5, <4>6
    <3> QED BY <2>4, <3>1, <3>2, RightClickFacts
  <2> QED BY <2>2, <2>3, <2>4 DEF Next
<1> QED BY <1>1, PointsCorrect, PTL DEF Spec, OldestNearestGoes

-----------------------------------------------------------------------------
(* Helpers::merge.                                                         *)

\* The host of point k, when those of the points before it are known.
Near(f, in, k) == {j \in 1..k - 1 : f[j] = j /\ Close(in[j], in[k])}

HostOf(f, in, k) ==
  IF Near(f, in, k) = {} THEN k
  ELSE CHOOSE j \in Near(f, in, k) : \A l \in Near(f, in, k) : j <= l

LEMMA HostOfFacts ==
  ASSUME NEW f, NEW in, NEW k \in Nat \ {0}
  PROVE  /\ HostOf(f, in, k) \in 1..k
         /\ Near(f, in, k) = {} => HostOf(f, in, k) = k
         /\ Near(f, in, k) # {} => HostOf(f, in, k) \in Near(f, in, k)
<1>1. CASE Near(f, in, k) = {}
  BY <1>1 DEF HostOf
<1>2. CASE Near(f, in, k) # {}
  <2>1. Near(f, in, k) \in SUBSET Nat
    BY DEF Near
  <2>2. \E j \in Near(f, in, k) : \A l \in Near(f, in, k) : j <= l
    BY <1>2, <2>1, LeastElement
  <2>3. HostOf(f, in, k) \in Near(f, in, k)
    BY <1>2, <2>2 DEF HostOf
  <2>4. Near(f, in, k) \subseteq 1..k
    BY DEF Near
  <2> QED BY <1>2, <2>3, <2>4
<1> QED BY <1>1, <1>2

IsHosts(f, in, n) ==
  f \in [1..n -> 1..n] /\ \A k \in 1..n : f[k] = HostOf(f, in, k)

LEMMA HostsExist ==
  ASSUME NEW in
  PROVE  \A n \in Nat : \E f : IsHosts(f, in, n)
<1> DEFINE S == {n \in Nat : \E f : IsHosts(f, in, n)}
<1>1. 0 \in S
  <2> DEFINE f == [k \in 1..0 |-> k]
  <2>1. f \in [1..0 -> 1..0] /\ 1..0 = {}
    OBVIOUS
  <2> HIDE DEF f
  <2>2. IsHosts(f, in, 0)
    BY <2>1 DEF IsHosts
  <2> QED BY <2>2
<1>2. ASSUME NEW n \in Nat, n \in S
      PROVE  n + 1 \in S
  <2>1. PICK f : IsHosts(f, in, n)
    BY <1>2
  <2> DEFINE g == [k \in 1..n + 1 |-> IF k = n + 1 THEN HostOf(f, in, n + 1) ELSE f[k]]
  <2>2. HostOf(f, in, n + 1) \in 1..n + 1
    BY HostOfFacts
  <2>3. f \in [1..n -> 1..n]
    BY <2>1 DEF IsHosts
  <2>4. g \in [1..n + 1 -> 1..n + 1]
    BY <2>2, <2>3
  <2>5. g[n + 1] = HostOf(f, in, n + 1) /\ \A k \in 1..n : g[k] = f[k]
    OBVIOUS
  <2> HIDE DEF g
  <2>6. ASSUME NEW k \in 1..n + 1
        PROVE  g[k] = HostOf(g, in, k)
    <3>1. \A j \in 1..k - 1 : g[j] = f[j]
      BY <2>5
    <3>2. Near(g, in, k) = Near(f, in, k)
      BY <3>1 DEF Near
    <3>3. HostOf(g, in, k) = HostOf(f, in, k)
      BY <3>2 DEF HostOf
    <3>4. CASE k = n + 1
      BY <2>5, <3>3, <3>4
    <3>5. CASE k \in 1..n
      BY <2>1, <2>5, <3>3, <3>5 DEF IsHosts
    <3> QED BY <3>4, <3>5
  <2>7. IsHosts(g, in, n + 1)
    BY <2>4, <2>6 DEF IsHosts
  <2> QED BY <2>7
<1>3. Nat \subseteq S
  <2> HIDE DEF S
  <2> QED BY <1>1, <1>2, SetInduction
<1> QED BY <1>3

\* Every point is its own host or goes to a close one before it that is.
LEMMA HostsFacts ==
  ASSUME NEW in \in Seq(Int)
  PROVE  /\ Hosts(in) \in [1..Len(in) -> 1..Len(in)]
         /\ \A k \in 1..Len(in) :
              LET host == Hosts(in)
              IN  /\ Near(host, in, k) = {} => host[k] = k
                  /\ Near(host, in, k) # {} => host[k] \in Near(host, in, k)
<1> DEFINE n == Len(in)
           Step(f) == [k \in DOMAIN in |->
                        LET near == {j \in 1..k - 1 : f[j] = j /\ Close(in[j], in[k])}
                        IN  IF near = {} THEN k
                            ELSE CHOOSE j \in near : \A l \in near : j <= l]
           host == CHOOSE f : f = Step(f)
<1>1. n \in Nat /\ DOMAIN in = 1..n
  OBVIOUS
<1>2. PICK f : IsHosts(f, in, n)
  BY <1>1, HostsExist
<1>3. f = Step(f)
  BY <1>1, <1>2 DEF IsHosts, HostOf, Near
<1>4. host = Step(host)
  BY <1>3
<1>5. Hosts(in) = host
  BY DEF Hosts
<1> HIDE DEF host
<1>6. \A k \in 1..n : host[k] = HostOf(host, in, k)
  BY <1>1, <1>4 DEF HostOf, Near
<1>7. DOMAIN host = 1..n
  BY <1>1, <1>4
<1>8. \A k \in 1..n : host[k] \in 1..n
  <2> SUFFICES ASSUME NEW k \in 1..n PROVE host[k] \in 1..n
    OBVIOUS
  <2>1. k \in Nat \ {0} /\ HostOf(host, in, k) \in 1..k
    BY HostOfFacts
  <2> QED BY <1>1, <1>6, <2>1
<1>9. host \in [1..n -> 1..n]
  <2>1. host = [k \in 1..n |-> host[k]]
    BY <1>1, <1>4
  <2> QED BY <1>8, <2>1
<1> QED BY <1>5, <1>6, <1>9, HostOfFacts

\* sum and counter up to the n-th point.
IsAdded(f, in, indices, n) ==
  /\ f \in [0..n -> [sum : Int, counter : Nat]]
  /\ \A k \in 0..n :
       f[k] = IF k = 0 THEN [sum |-> 0, counter |-> 0]
              ELSE IF k \in indices
                THEN [sum |-> f[k - 1].sum + in[k], counter |-> f[k - 1].counter + 1]
                ELSE f[k - 1]

LEMMA AddedExists ==
  ASSUME NEW in \in Seq(Int), NEW indices
  PROVE  \A n \in Nat : n <= Len(in) => \E f : IsAdded(f, in, indices, n)
<1> DEFINE S == {n \in Nat : n <= Len(in) => \E f : IsAdded(f, in, indices, n)}
<1>1. 0 \in S
  <2> DEFINE f == [k \in 0..0 |-> [sum |-> 0, counter |-> 0]]
  <2>1. IsAdded(f, in, indices, 0)
    BY DEF IsAdded
  <2> QED BY <2>1
<1>2. ASSUME NEW n \in Nat, n \in S, n + 1 <= Len(in)
      PROVE  \E f : IsAdded(f, in, indices, n + 1)
  <2>1. PICK f : IsAdded(f, in, indices, n)
    BY <1>2
  <2> DEFINE last == IF n + 1 \in indices
                       THEN [sum |-> f[n].sum + in[n + 1], counter |-> f[n].counter + 1]
                       ELSE f[n]
             g == [k \in 0..n + 1 |-> IF k = n + 1 THEN last ELSE f[k]]
  <2>2. f \in [0..n -> [sum : Int, counter : Nat]] /\ in[n + 1] \in Int
    BY <1>2, <2>1 DEF IsAdded
  <2>3. last \in [sum : Int, counter : Nat]
    <3>1. f[n] \in [sum : Int, counter : Nat]
      BY <2>2
    <3>2. f[n].sum + in[n + 1] \in Int /\ f[n].counter + 1 \in Nat
      BY <2>2, <3>1
    <3> QED BY <3>1, <3>2
  <2>4. g[n + 1] = last /\ \A k \in 0..n : g[k] = f[k]
    OBVIOUS
  <2> HIDE DEF last
  <2>5. g \in [0..n + 1 -> [sum : Int, counter : Nat]]
    BY <2>2, <2>3
  <2> HIDE DEF g
  <2>6. ASSUME NEW k \in 0..n + 1
        PROVE  g[k] = IF k = 0 THEN [sum |-> 0, counter |-> 0]
                      ELSE IF k \in indices
                        THEN [sum |-> g[k - 1].sum + in[k], counter |-> g[k - 1].counter + 1]
                        ELSE g[k - 1]
    <3>1. CASE k = n + 1
      BY <2>4, <3>1 DEF last
    <3>2. CASE k \in 0..n
      <4>1. k # 0 => k - 1 \in 0..n /\ g[k - 1] = f[k - 1]
        BY <2>4, <3>2
      <4> QED BY <2>1, <2>4, <3>2, <4>1 DEF IsAdded
    <3> QED BY <3>1, <3>2
  <2>7. IsAdded(g, in, indices, n + 1)
    BY <2>5, <2>6 DEF IsAdded
  <2> QED BY <2>7
<1>3. Nat \subseteq S
  <2>1. \A n \in Nat : n \in S => n + 1 \in S
    BY <1>2
  <2> HIDE DEF S
  <2> QED BY <1>1, <2>1, SetInduction
<1> QED BY <1>3

MeansAt(in, indices) == {Mean(in, indices, up) : up \in BOOLEAN}

\* A mean lies between the smallest and the largest of its points.
LEMMA MeanBetween ==
  ASSUME NEW in \in Seq(Int), NEW indices \in SUBSET (1..Len(in)), indices # {},
         NEW lo \in Int, NEW hi \in Int,
         \A k \in indices : lo <= in[k] /\ in[k] <= hi,
         NEW mean \in MeansAt(in, indices)
  PROVE  mean \in Int /\ lo <= mean /\ mean <= hi
<1> DEFINE Step(f) == [k \in 0..Len(in) |->
                        IF k = 0 THEN [sum |-> 0, counter |-> 0]
                        ELSE LET before == f[k - 1]
                             IN  IF k \in indices
                                   THEN [sum |-> before.sum + in[k],
                                         counter |-> before.counter + 1]
                                   ELSE before]
           upTo == CHOOSE f : f = Step(f)
<1>0. Len(in) \in Nat /\ Len(in) <= Len(in) /\ 0 \in 0..Len(in)
  OBVIOUS
<1>1. \E f : f = Step(f)
  <2>1. PICK f : IsAdded(f, in, indices, Len(in))
    BY <1>0, AddedExists
  <2>2. f = Step(f)
    BY <2>1 DEF IsAdded
  <2> QED BY <2>2
<1>2. upTo = Step(upTo)
  BY <1>1
<1>3. Added(in, indices) = upTo[Len(in)]
  BY DEF Added
<1> HIDE DEF upTo
<1>4. \A k \in 0..Len(in) :
        upTo[k] = IF k = 0 THEN [sum |-> 0, counter |-> 0]
                  ELSE IF k \in indices
                    THEN [sum |-> upTo[k - 1].sum + in[k], counter |-> upTo[k - 1].counter + 1]
                    ELSE upTo[k - 1]
  BY <1>2
<1> DEFINE Bounded(n) == /\ upTo[n].sum \in Int /\ upTo[n].counter \in Nat
                         /\ lo * upTo[n].counter <= upTo[n].sum
                         /\ upTo[n].sum <= hi * upTo[n].counter
                         /\ (\E k \in 1..n : k \in indices) => upTo[n].counter > 0
           S == {n \in Nat : n <= Len(in) => Bounded(n)}
<1>5. 0 \in S
  <2>1. upTo[0] = [sum |-> 0, counter |-> 0]
    BY <1>0, <1>4
  <2> QED BY <2>1
<1>6. ASSUME NEW n \in Nat, n \in S
      PROVE  n + 1 \in S
  <2> SUFFICES ASSUME n + 1 <= Len(in) PROVE Bounded(n + 1)
    OBVIOUS
  <2>1. Bounded(n)
    BY <1>6
  <2>2. CASE n + 1 \in indices
    <3> DEFINE a == upTo[n].sum
               c == upTo[n].counter
    <3>1. upTo[n + 1].sum = a + in[n + 1] /\ upTo[n + 1].counter = c + 1
      <4>1. upTo[n + 1] = [sum |-> upTo[(n + 1) - 1].sum + in[n + 1],
                           counter |-> upTo[(n + 1) - 1].counter + 1]
        BY <1>4, <2>2
      <4>2. (n + 1) - 1 = n
        OBVIOUS
      <4> QED BY <4>1, <4>2
    <3>2. in[n + 1] \in Int /\ lo <= in[n + 1] /\ in[n + 1] <= hi
      BY <2>2
    <3>3. a \in Int /\ c \in Nat /\ lo * c <= a /\ a <= hi * c
      BY <2>1
    <3> HIDE DEF a, c
    <3>4. lo * (c + 1) = lo * c + lo /\ hi * (c + 1) = hi * c + hi
          /\ lo * c \in Int /\ hi * c \in Int
      BY <3>3
    <3>5. \A p, q, r, s \in Int : p <= q /\ r <= s => p + r <= q + s
      OBVIOUS
    <3>6. lo * (c + 1) <= a + in[n + 1] /\ a + in[n + 1] <= hi * (c + 1)
      BY <3>2, <3>3, <3>4, <3>5
    <3>7. a + in[n + 1] \in Int /\ c + 1 \in Nat /\ c + 1 > 0
      BY <3>2, <3>3
    <3> QED BY <3>1, <3>6, <3>7
  <2>3. CASE n + 1 \notin indices
    <3>1. upTo[n + 1] = upTo[n]
      <4>1. n + 1 \in 0..Len(in) /\ n + 1 # 0 /\ (n + 1) - 1 = n
        BY <1>0
      <4>2. upTo[n + 1] = upTo[(n + 1) - 1]
        BY <1>4, <2>3, <4>1
      <4> QED BY <4>1, <4>2
    <3>2. (\E k \in 1..n + 1 : k \in indices) => \E k \in 1..n : k \in indices
      BY <2>3
    <3> QED BY <2>1, <3>1, <3>2
  <2> QED BY <2>2, <2>3
<1>7. Nat \subseteq S
  <2> HIDE DEF S
  <2> QED BY <1>5, <1>6, SetInduction
<1> DEFINE all == Added(in, indices)
<1>8. /\ all.sum \in Int /\ all.counter \in Nat /\ all.counter > 0
      /\ lo * all.counter <= all.sum /\ all.sum <= hi * all.counter
  BY <1>3, <1>7
<1>9. mean = all.sum \div all.counter \/ mean = -((-all.sum) \div all.counter)
  BY DEF MeansAt, Mean
<1> HIDE DEF all
<1>10. /\ all.sum \div all.counter \in Int
       /\ lo <= all.sum \div all.counter /\ all.sum \div all.counter <= hi
  BY <1>8, DivBounds
<1>11. /\ (-all.sum) \div all.counter \in Int
       /\ -hi <= (-all.sum) \div all.counter /\ (-all.sum) \div all.counter <= -lo
  <2>1. /\ -hi \in Int /\ -lo \in Int /\ -all.sum \in Int
        /\ (-hi) * all.counter <= -all.sum /\ -all.sum <= (-lo) * all.counter
    <3>1. \A a, c \in Int : (-a) * c = -(a * c) /\ a * c \in Int
      OBVIOUS
    <3>2. (-hi) * all.counter = -(hi * all.counter) /\ hi * all.counter \in Int
      BY <1>8, <3>1
    <3>3. (-lo) * all.counter = -(lo * all.counter) /\ lo * all.counter \in Int
      BY <1>8, <3>1
    <3>4. \A p, q \in Int : p <= q => -q <= -p
      OBVIOUS
    <3>5. -(hi * all.counter) <= -all.sum /\ -all.sum <= -(lo * all.counter)
      BY <1>8, <3>2, <3>3, <3>4
    <3> QED BY <1>8, <3>2, <3>3, <3>5
  <2> QED BY <1>8, <2>1, DivBounds
<1> QED BY <1>9, <1>10, <1>11

\* The points that host themselves, and those that a point hosts.
Heads(in) == {k \in 1..Len(in) : Hosts(in)[k] = k}
Cluster(in, h) == {k \in 1..Len(in) : Hosts(in)[k] = h}

\* out has n elements, and s tells which head each is the mean of.
IsMerge(in, out, n, s) ==
  /\ s \in [1..n -> Heads(in)]
  /\ DOMAIN out = 1..n /\ out = [k \in 1..n |-> out[k]]
  /\ \A k \in 1..n : out[k] \in MeansAt(in, Cluster(in, s[k]))
  /\ \A k, l \in 1..n : s[k] = s[l] => k = l
  /\ \A h \in Heads(in) : \E k \in 1..n : s[k] = h

\* merge returns a mean for each host, and none twice.
LEMMA MergedFacts ==
  ASSUME NEW in \in Seq(Int), NEW out \in Merged(in)
  PROVE  \E n \in Nat : \E s : IsMerge(in, out, n, s)
<1> DEFINE host  == Hosts(in)
           heads == {k \in 1..Len(in) : host[k] = k}
           means(h) == MeansAt(in, {k \in 1..Len(in) : host[k] = h})
           n == Cardinality(heads)
<1>1. Len(in) \in Nat /\ DOMAIN in = 1..Len(in)
  OBVIOUS
<1>2. IsFiniteSet(heads) /\ n \in Nat
  <2>1. IsFiniteSet(1..Len(in))
    BY <1>1, FS_Interval
  <2>2. heads \in SUBSET (1..Len(in))
    OBVIOUS
  <2> QED BY <2>1, <2>2, FS_Subset, FS_CardinalityType
<1> HIDE DEF host
<1>3. /\ DOMAIN out = 1..n /\ out = [k \in 1..n |-> out[k]]
      /\ \E s \in Ascending(heads) : \A k \in 1..n : out[k] \in means(s[k])
  <2>1. PICK s \in Ascending(heads), up \in [1..n -> BOOLEAN] :
          out = [k \in 1..n |-> Mean(in, {j \in 1..Len(in) : host[j] = s[k]}, up[k])]
    <3> DEFINE all == {i \in DOMAIN in : host[i] = i}
               size == Cardinality(all)
               result(s, up) == [k \in 1..size |->
                                  Mean(in, {i \in DOMAIN in : host[i] = s[k]}, up[k])]
    <3>1. Merged(in) = {result(s, up) : s \in Ascending(all), up \in [1..size -> BOOLEAN]}
      BY DEF Merged, host
    <3>2. all = heads /\ size = n
      BY <1>1
    <3> HIDE DEF result, all, size
    <3>3. PICK s \in Ascending(all), up \in [1..size -> BOOLEAN] : out = result(s, up)
      BY <3>1
    <3> QED BY <1>1, <3>2, <3>3 DEF result
  <2> HIDE DEF n
  <2>2. ASSUME NEW k \in 1..n
        PROVE  out[k] \in means(s[k])
    <3>1. up[k] \in BOOLEAN
      BY <2>1
    <3>2. out[k] = Mean(in, {j \in 1..Len(in) : host[j] = s[k]}, up[k])
      BY <2>1
    <3> QED BY <3>1, <3>2 DEF MeansAt
  <2> QED BY <2>1, <2>2
<1>4. PICK s \in Ascending(heads) : \A k \in 1..n : out[k] \in means(s[k])
  BY <1>3
<1>5. s \in [1..n -> heads] /\ \A k, l \in 1..n : k < l => s[k] < s[l]
  BY DEF Ascending
<1> HIDE DEF n
<1>6. \A k \in 1..n : s[k] \in Nat
  BY <1>1, <1>5
<1>7. \A k, l \in 1..n : s[k] = s[l] => k = l
  <2> SUFFICES ASSUME NEW k \in 1..n, NEW l \in 1..n, s[k] = s[l], k # l
               PROVE  FALSE
    OBVIOUS
  <2>1. k < l \/ l < k
    BY <1>2
  <2> QED BY <1>5, <1>6, <2>1
<1>8. s \in Surjection(1..n, heads)
  <2>1. s \in Injection(1..n, heads)
    <3> HIDE DEF heads
    <3> QED BY <1>5, <1>7 DEF Injection, IsInjective
  <2>2. Cardinality(1..n) = n
    BY <1>2, FS_Interval
  <2> QED BY <1>2, <2>1, <2>2, FS_Injection DEF n
<1>9. \A h \in heads : \E k \in 1..n : s[k] = h
  BY <1>8 DEF Surjection
<1>10. heads = Heads(in) /\ \A h : means(h) = MeansAt(in, Cluster(in, h))
  BY DEF host, Heads, Cluster
<1>11. IsMerge(in, out, n, s)
  <2> HIDE DEF heads, means
  <2> QED BY <1>3, <1>4, <1>5, <1>7, <1>9, <1>10 DEF IsMerge
<1> QED BY <1>2, <1>11

IsBounded(in, n) == \E lo, hi \in Int : \A k \in 1..n : lo <= in[k] /\ in[k] <= hi

LEMMA SequencesAreBounded ==
  ASSUME NEW in \in Seq(Int)
  PROVE  IsBounded(in, Len(in))
<1> DEFINE S == {n \in Nat : n <= Len(in) => IsBounded(in, n)}
<1>1. 0 \in S
  BY DEF IsBounded
<1>2. ASSUME NEW n \in Nat, n \in S, n + 1 <= Len(in)
      PROVE  IsBounded(in, n + 1)
  <2>1. PICK lo \in Int, hi \in Int : \A k \in 1..n : lo <= in[k] /\ in[k] <= hi
    BY <1>2 DEF IsBounded
  <2> DEFINE v  == in[n + 1]
             lower  == IF v < lo THEN v ELSE lo
             higher == IF v > hi THEN v ELSE hi
  <2>2. v \in Int /\ \A k \in 1..n : in[k] \in Int
    BY <1>2
  <2>3. \A k \in 1..n + 1 : lower <= in[k] /\ in[k] <= higher
    <3> SUFFICES ASSUME NEW k \in 1..n + 1
                 PROVE  lower <= in[k] /\ in[k] <= higher
      OBVIOUS
    <3>1. CASE k = n + 1
      BY <2>2, <3>1
    <3>2. CASE k \in 1..n
      BY <2>1, <2>2, <3>2
    <3> QED BY <3>1, <3>2
  <2>4. lower \in Int /\ higher \in Int
    BY <2>2
  <2> HIDE DEF lower, higher
  <2> QED BY <2>3, <2>4 DEF IsBounded
<1>3. Nat \subseteq S
  <2>1. \A n \in Nat : n \in S => n + 1 \in S
    BY <1>2
  <2> HIDE DEF S
  <2> QED BY <1>1, <2>1, SetInduction
<1> QED BY <1>3

LEMMA MergedType ==
  ASSUME NEW in \in Seq(Int), NEW out \in Merged(in)
  PROVE  out \in Seq(Int)
<1> DEFINE host  == Hosts(in)
           heads == {k \in 1..Len(in) : host[k] = k}
           cluster(h) == {k \in 1..Len(in) : host[k] = h}
<1>0. PICK n \in Nat : \E s : IsMerge(in, out, n, s)
  BY MergedFacts
<1>1. PICK s : IsMerge(in, out, n, s)
  BY <1>0
<1>2. /\ s \in [1..n -> heads]
      /\ DOMAIN out = 1..n /\ \A k \in 1..n : out[k] \in MeansAt(in, cluster(s[k]))
  BY <1>1 DEF IsMerge, Heads, Cluster
<1>3. PICK lo \in Int, hi \in Int : \A k \in 1..Len(in) : lo <= in[k] /\ in[k] <= hi
  BY SequencesAreBounded DEF IsBounded
<1>4. ASSUME NEW k \in 1..n
      PROVE  out[k] \in Int
  <2>1. /\ cluster(s[k]) \in SUBSET (1..Len(in)) /\ cluster(s[k]) # {}
        /\ out[k] \in MeansAt(in, cluster(s[k]))
    BY <1>2
  <2> HIDE DEF cluster
  <2> QED BY <1>3, <2>1, MeanBetween
<1>5. out = [k \in 1..n |-> out[k]]
  BY <1>1 DEF IsMerge
<1>6. out \in [1..n -> Int]
  BY <1>4, <1>5
<1> QED BY <1>6

-----------------------------------------------------------------------------
(* Positions that are not close: how many of them there can be.            *)

LEMMA ConstantsTyped ==
  /\ Speed \in Nat /\ Overhang \in Nat /\ Margin \in Nat
  /\ Width \in Nat /\ Width > 0 /\ MergeDistance \in Nat /\ MergeDistance > 0
  /\ Guns \subseteq Int /\ Pans \subseteq Int
  BY GunAssumption

\* Of two heads the later one would have gone to the other, were they close.
LEMMA HeadsAreApart ==
  ASSUME NEW in \in Seq(Int), NEW h \in Heads(in), NEW k \in Heads(in), h # k
  PROVE  ~Close(in[h], in[k])
<1> DEFINE host == Hosts(in)
<1>1. host \in [1..Len(in) -> 1..Len(in)] /\ Len(in) \in Nat
  BY HostsFacts
<1>2. ASSUME NEW a \in Heads(in), NEW b \in Heads(in), a < b
      PROVE  ~Close(in[a], in[b])
  <2> SUFFICES ASSUME Close(in[a], in[b]) PROVE FALSE
    OBVIOUS
  <2>1. a \in 1..Len(in) /\ b \in 1..Len(in) /\ host[a] = a /\ host[b] = b
    BY DEF Heads
  <2> HIDE DEF host
  <2>2. a \in Near(host, in, b)
    BY <1>1, <1>2, <2>1 DEF Near
  <2>3. host[b] \in Near(host, in, b)
    BY <2>1, <2>2, HostsFacts DEF host
  <2> QED BY <1>1, <2>1, <2>3 DEF Near
<1>3. h \in Nat /\ k \in Nat /\ in[h] \in Int /\ in[k] \in Int
  BY <1>1 DEF Heads
<1>4. CASE h < k
  BY <1>2, <1>4
<1>5. CASE k < h
  BY <1>2, <1>3, <1>5 DEF Close
<1> QED BY <1>3, <1>4, <1>5

\* Cut the range into pieces as long as the merge distance: each holds one.
LEMMA ApartAreFew ==
  ASSUME NEW K, NEW v \in [K -> Int], NEW lo \in Int, NEW hi \in Int, lo <= hi,
         \A k \in K : lo <= v[k] /\ v[k] <= hi,
         \A k, l \in K : k # l => ~Close(v[k], v[l])
  PROVE  Cardinality(K) <= (hi - lo) \div MergeDistance + 1
<1> DEFINE q == (hi - lo) \div MergeDistance
           piece(k) == (v[k] - lo) \div MergeDistance
           f == [k \in K |-> piece(k)]
<1>0. MergeDistance \in Nat /\ MergeDistance > 0
  BY ConstantsTyped
<1>1. \A n \in Int : /\ n \div MergeDistance \in Int
                     /\ MergeDistance * (n \div MergeDistance) <= n
                     /\ n < MergeDistance * (n \div MergeDistance + 1)
  BY <1>0
<1>2. q \in Int /\ hi - lo < MergeDistance * (q + 1)
  BY <1>1
<1> HIDE DEF q
<1>3. ASSUME NEW k \in K
      PROVE  /\ v[k] \in Int /\ piece(k) \in Int
             /\ MergeDistance * piece(k) <= v[k] - lo
             /\ v[k] - lo < MergeDistance * (piece(k) + 1)
             /\ v[k] - lo >= 0 /\ v[k] - lo <= hi - lo
  <2>1. v[k] \in Int /\ lo <= v[k] /\ v[k] <= hi
    OBVIOUS
  <2> QED BY <1>1, <2>1
<1>4. \A a, b \in Int : MergeDistance * a < MergeDistance * b => a < b
  <2> SUFFICES ASSUME NEW a \in Int, NEW b \in Int, b <= a
               PROVE  MergeDistance * b <= MergeDistance * a
    BY <1>0
  <2>1. MergeDistance * a = MergeDistance * b + MergeDistance * (a - b)
    BY <1>0
  <2>2. MergeDistance * (a - b) \in Nat /\ MergeDistance * b \in Int
    BY <1>0
  <2> QED BY <2>1, <2>2
<1> HIDE DEF piece
<1>5. ASSUME NEW k \in K
      PROVE  piece(k) \in 0..q
  <2>1. MergeDistance * 0 < MergeDistance * (piece(k) + 1)
    BY <1>0, <1>3
  <2>2. MergeDistance * piece(k) < MergeDistance * (q + 1)
    BY <1>0, <1>2, <1>3
  <2>3. 0 < piece(k) + 1 /\ piece(k) < q + 1
    BY <1>2, <1>3, <1>4, <2>1, <2>2
  <2> QED BY <1>2, <1>3, <2>3
<1>6. ASSUME NEW k \in K, NEW l \in K, piece(k) = piece(l), k # l
      PROVE  FALSE
  <2> DEFINE start == MergeDistance * piece(k)
  <2>1. MergeDistance * (piece(k) + 1) = start + MergeDistance /\ start \in Int
    BY <1>0, <1>3
  <2>2. /\ start <= v[k] - lo /\ v[k] - lo < start + MergeDistance
        /\ start <= v[l] - lo /\ v[l] - lo < start + MergeDistance
    BY <1>3, <1>6, <2>1
  <2> HIDE DEF start
  <2>3. v[k] - v[l] < MergeDistance /\ v[l] - v[k] < MergeDistance
    BY <1>0, <1>3, <2>1, <2>2
  <2> QED BY <1>6, <2>3 DEF Close
<1>7. f \in Injection(K, 0..q)
  <2>1. f \in [K -> 0..q]
    BY <1>5
  <2>2. \A k, l \in K : f[k] = f[l] => k = l
    BY <1>6
  <2> HIDE DEF f
  <2> QED BY <2>1, <2>2 DEF Injection, IsInjective
<1>8. q >= 0
  <2>1. MergeDistance * 0 < MergeDistance * (q + 1)
    BY <1>0, <1>2
  <2> QED BY <1>2, <1>4, <2>1
<1>9. IsFiniteSet(0..q) /\ Cardinality(0..q) = q + 1
  BY <1>2, <1>8, FS_Interval
<1> HIDE DEF f
<1>10. Cardinality(K) <= Cardinality(0..q)
  BY <1>7, <1>9, FS_Injection
<1> QED BY <1>9, <1>10 DEF q

\* Points that lie in a range are merged within it, and then no more are left
\* than fit there.
LEMMA MergedStayFew ==
  ASSUME NEW in \in Seq(Int), NEW out \in Merged(in), NEW lo \in Int, NEW hi \in Int,
         \A k \in 1..Len(in) : lo <= in[k] /\ in[k] <= hi
  PROVE  /\ \A k \in DOMAIN out : lo <= out[k] /\ out[k] <= hi
         /\ out # <<>> => Len(out) <= (hi - lo) \div MergeDistance + 1
<1>0. PICK n \in Nat : \E s : IsMerge(in, out, n, s)
  BY MergedFacts
<1>1. PICK s : IsMerge(in, out, n, s)
  BY <1>0
<1>2. /\ s \in [1..n -> Heads(in)] /\ DOMAIN out = 1..n
      /\ \A k \in 1..n : out[k] \in MeansAt(in, Cluster(in, s[k]))
      /\ \A k, l \in 1..n : s[k] = s[l] => k = l
  BY <1>1 DEF IsMerge
<1>3. \A k \in 1..n : s[k] \in Heads(in) /\ s[k] \in 1..Len(in) /\ s[k] \in Cluster(in, s[k])
  BY <1>2 DEF Heads, Cluster
<1>4. ASSUME NEW k \in 1..n
      PROVE  lo <= out[k] /\ out[k] <= hi
  <2>1. /\ Cluster(in, s[k]) \in SUBSET (1..Len(in)) /\ Cluster(in, s[k]) # {}
        /\ out[k] \in MeansAt(in, Cluster(in, s[k]))
    BY <1>2, <1>3 DEF Cluster
  <2>2. \A l \in Cluster(in, s[k]) : lo <= in[l] /\ in[l] <= hi
    BY <2>1
  <2> QED BY <2>1, <2>2, MeanBetween
<1>5. ASSUME out # <<>>
      PROVE  Len(out) <= (hi - lo) \div MergeDistance + 1
  <2> DEFINE v == [k \in 1..n |-> in[s[k]]]
  <2>1. Len(out) = n /\ n > 0
    <3>1. out \in Seq(Int)
      BY MergedType
    <3>2. Len(out) \in Nat /\ DOMAIN out = 1..Len(out) /\ Len(out) # 0
      BY <1>5, <3>1
    <3> QED BY <1>0, <1>2, <3>2
  <2>2. v \in [1..n -> Int] /\ \A k \in 1..n : lo <= v[k] /\ v[k] <= hi
    <3>1. \A k \in 1..Len(in) : in[k] \in Int
      OBVIOUS
    <3> QED BY <1>3, <3>1
  <2>3. \A k, l \in 1..n : k # l => ~Close(v[k], v[l])
    <3> SUFFICES ASSUME NEW k \in 1..n, NEW l \in 1..n, k # l
                 PROVE  ~Close(in[s[k]], in[s[l]])
      OBVIOUS
    <3>1. s[k] # s[l]
      BY <1>2
    <3> QED BY <1>3, <3>1, HeadsAreApart
  <2>4. lo <= hi
    <3>1. 1 \in 1..n
      BY <2>1
    <3>2. v[1] \in Int /\ lo <= v[1] /\ v[1] <= hi
      BY <2>2, <3>1
    <3> QED BY <3>2
  <2> HIDE DEF v
  <2>5. Cardinality(1..n) <= (hi - lo) \div MergeDistance + 1
    BY <2>2, <2>3, <2>4, ApartAreFew
  <2>6. Cardinality(1..n) = n
    BY <2>1, FS_Interval
  <2> QED BY <2>1, <2>5, <2>6
<1> QED BY <1>2, <1>4, <1>5

-----------------------------------------------------------------------------
(* Guns that are far enough apart.                                         *)

LEMMA OnGunRange ==
  ASSUME NEW p \in Int, NEW g \in Int, NEW at \in Int
  PROVE  OnGun(p, g, at) <=> g + at - (Speed + Overhang) <= p /\ p <= g + at + Speed
  BY ConstantsTyped DEF OnGun

\* Two positions that are close are on the same gun.
LEMMA CloseIsSameGun ==
  ASSUME GunsApart, NEW at \in Int, NEW p \in Int, NEW q \in Int,
         NEW g \in Guns, NEW h \in Guns, OnGun(p, g, at), OnGun(q, h, at), Close(p, q)
  PROVE  g = h
<1>1. g \in Int /\ h \in Int /\ Speed \in Nat /\ Overhang \in Nat /\ MergeDistance \in Nat
  BY ConstantsTyped
<1>2. CASE g < h
  <2>1. h - g >= MergeDistance + (2 * Speed + Overhang)
    BY <1>2 DEF GunsApart, Spread
  <2> QED BY <1>1, <2>1 DEF OnGun, Close
<1>3. CASE h < g
  <2>1. g - h >= MergeDistance + (2 * Speed + Overhang)
    BY <1>3 DEF GunsApart, Spread
  <2> QED BY <1>1, <2>1 DEF OnGun, Close
<1> QED BY <1>1, <1>2, <1>3

\* No position is on two guns.
LEMMA OneGunEach ==
  ASSUME GunsApart, NEW at \in Int, NEW p \in Int,
         NEW g \in Guns, NEW h \in Guns, OnGun(p, g, at), OnGun(p, h, at)
  PROVE  g = h
<1>1. Close(p, p)
  BY ConstantsTyped DEF Close
<1> QED BY <1>1, CloseIsSameGun

\* What merge makes of positions that are all on guns: each gun that had any has
\* one, and no gun has more than fit on it.
LEMMA MergeCorrect ==
  ASSUME GunsApart, NEW at \in Int, NEW in \in Seq(Int), NEW out \in Merged(in),
         \A k \in 1..Len(in) : \E g \in Guns : OnGun(in[k], g, at)
  PROVE  /\ out \in Seq(Int)
         /\ \A k \in DOMAIN out : \E g \in Guns : OnGun(out[k], g, at)
         /\ \A g \in Guns : Cardinality({k \in DOMAIN out : OnGun(out[k], g, at)})
                            <= Spread \div MergeDistance + 1
         /\ \A k \in 1..Len(in) : \A g \in Guns :
              OnGun(in[k], g, at) => \E l \in DOMAIN out : OnGun(out[l], g, at)
<1> DEFINE host  == Hosts(in)
           heads == {k \in 1..Len(in) : host[k] = k}
           cluster(h) == {k \in 1..Len(in) : host[k] = h}
<1>1. host \in [1..Len(in) -> 1..Len(in)] /\ Len(in) \in Nat
  BY HostsFacts
<1>2. ASSUME NEW k \in 1..Len(in)
      PROVE  /\ Near(host, in, k) = {} => host[k] = k
             /\ Near(host, in, k) # {} => host[k] \in Near(host, in, k)
  BY HostsFacts
<1>3. \A k \in 1..Len(in) : in[k] \in Int
  OBVIOUS
<1>0. PICK n \in Nat : \E s : IsMerge(in, out, n, s)
  BY MergedFacts
<1>a. PICK s : IsMerge(in, out, n, s)
  BY <1>0
<1>4. /\ s \in [1..n -> heads]
      /\ DOMAIN out = 1..n
      /\ \A k \in 1..n : out[k] \in MeansAt(in, cluster(s[k]))
      /\ \A k, l \in 1..n : s[k] = s[l] => k = l
      /\ \A h \in heads : \E k \in 1..n : s[k] = h
  BY <1>a DEF IsMerge, Heads, Cluster
<1> HIDE DEF host
\* The host of a point is a head on the same gun.
<1>5. ASSUME NEW k \in 1..Len(in), NEW g \in Guns, OnGun(in[k], g, at)
      PROVE  host[k] \in heads /\ OnGun(in[host[k]], g, at)
  <2>1. CASE Near(host, in, k) = {}
    BY <1>2, <1>5, <2>1
  <2>2. CASE Near(host, in, k) # {}
    <3>1. host[k] \in 1..Len(in) /\ host[host[k]] = host[k] /\ Close(in[host[k]], in[k])
      BY <1>1, <1>2, <2>2 DEF Near
    <3>2. PICK h \in Guns : OnGun(in[host[k]], h, at)
      BY <3>1
    <3>3. h = g
      BY <1>3, <1>5, <3>1, <3>2, CloseIsSameGun
    <3> QED BY <3>1, <3>2, <3>3
  <2> QED BY <2>1, <2>2
\* The mean of a cluster is on the gun of its head.
<1>7. ASSUME NEW h \in heads, NEW g \in Guns, OnGun(in[h], g, at),
             NEW mean \in MeansAt(in, cluster(h))
      PROVE  mean \in Int /\ OnGun(mean, g, at)
  <2> DEFINE lo == g + at - (Speed + Overhang)
             hi == g + at + Speed
  <2>1. g \in Int /\ Speed \in Nat /\ Overhang \in Nat
    BY ConstantsTyped
  <2>2. ASSUME NEW k \in cluster(h)
        PROVE  lo <= in[k] /\ in[k] <= hi
    <3>1. PICK f \in Guns : OnGun(in[k], f, at)
      OBVIOUS
    <3>2. OnGun(in[h], f, at)
      BY <1>5, <3>1
    <3>3. f = g
      BY <1>3, <1>7, <3>2, OneGunEach
    <3>4. in[k] \in Int /\ OnGun(in[k], g, at)
      BY <1>3, <3>1, <3>3
    <3> QED BY <2>1, <3>4, OnGunRange
  <2>3. cluster(h) \in SUBSET (1..Len(in)) /\ cluster(h) # {}
    OBVIOUS
  <2>4. lo \in Int /\ hi \in Int
    BY <2>1
  <2> HIDE DEF lo, hi, cluster, heads
  <2>5. mean \in Int /\ lo <= mean /\ mean <= hi
    BY <1>7, <2>2, <2>3, <2>4, MeanBetween
  <2> QED BY <2>1, <2>5, OnGunRange DEF lo, hi
\* So each result is on the gun of its head, and on no other.
<1>8. ASSUME NEW k \in 1..n
      PROVE  /\ out[k] \in Int /\ \E g \in Guns : OnGun(out[k], g, at)
             /\ \A g \in Guns : OnGun(out[k], g, at) <=> OnGun(in[s[k]], g, at)
  <2>1. s[k] \in heads /\ out[k] \in MeansAt(in, cluster(s[k]))
    BY <1>4
  <2>2. PICK g \in Guns : OnGun(in[s[k]], g, at)
    BY <2>1
  <2>3. out[k] \in Int /\ OnGun(out[k], g, at)
    BY <1>7, <2>1, <2>2
  <2>4. ASSUME NEW f \in Guns
        PROVE  OnGun(out[k], f, at) <=> OnGun(in[s[k]], f, at)
    <3>1. in[s[k]] \in Int
      BY <1>3, <2>1
    <3> QED BY <2>2, <2>3, <3>1, OneGunEach
  <2> QED BY <2>3, <2>4
<1>9. out \in Seq(Int)
  <2>1. out \in [1..n -> Int]
    <3>1. out = [k \in 1..n |-> out[k]]
      BY <1>a DEF IsMerge
    <3> QED BY <1>8, <3>1
  <2> QED BY <2>1
\* The heads on one gun are apart, and lie on the stretch that is on that gun.
<1>10. ASSUME NEW g \in Guns
       PROVE  Cardinality({k \in 1..n : OnGun(out[k], g, at)}) <= Spread \div MergeDistance + 1
  <2> DEFINE K == {k \in 1..n : OnGun(out[k], g, at)}
             v == [k \in K |-> in[s[k]]]
             lo == g + at - (Speed + Overhang)
             hi == g + at + Speed
  <2>1. g \in Int /\ Speed \in Nat /\ Overhang \in Nat
    BY ConstantsTyped
  <2>2. ASSUME NEW k \in K
        PROVE  in[s[k]] \in Int /\ lo <= in[s[k]] /\ in[s[k]] <= hi /\ s[k] \in Heads(in)
    <3>1. k \in 1..n /\ OnGun(out[k], g, at)
      OBVIOUS
    <3>2. s[k] \in heads /\ OnGun(in[s[k]], g, at)
      BY <1>4, <1>8, <3>1
    <3>3. in[s[k]] \in Int /\ s[k] \in Heads(in)
      BY <1>3, <3>2 DEF Heads, host
    <3> QED BY <2>1, <3>2, <3>3, OnGunRange
  <2>3. v \in [K -> Int] /\ \A k \in K : v[k] = in[s[k]] /\ lo <= v[k] /\ v[k] <= hi
    BY <2>2
  <2>4. \A k, l \in K : k # l => ~Close(v[k], v[l])
    <3> SUFFICES ASSUME NEW k \in K, NEW l \in K, k # l
                 PROVE  ~Close(in[s[k]], in[s[l]])
      BY <2>3
    <3>1. s[k] # s[l]
      BY <1>4
    <3> QED BY <2>2, <3>1, HeadsAreApart
  <2>5. lo \in Int /\ hi \in Int /\ lo <= hi /\ hi - lo = Spread
    BY <2>1 DEF Spread
  <2> HIDE DEF K, v, lo, hi
  <2>6. Cardinality(K) <= (hi - lo) \div MergeDistance + 1
    BY <2>3, <2>4, <2>5, ApartAreFew
  <2> QED BY <2>5, <2>6 DEF K
<1>11. ASSUME NEW k \in 1..Len(in), NEW g \in Guns, OnGun(in[k], g, at)
       PROVE  \E l \in 1..n : OnGun(out[l], g, at)
  <2>1. host[k] \in heads /\ OnGun(in[host[k]], g, at)
    BY <1>5, <1>11
  <2>2. PICK l \in 1..n : s[l] = host[k]
    BY <1>4, <2>1
  <2> QED BY <1>8, <2>1, <2>2
<1>12. DOMAIN out = 1..n
  BY <1>4
<1>13. \A k \in 1..n : \E g \in Guns : OnGun(out[k], g, at)
  BY <1>8
<1>14. \A g \in Guns : Cardinality({k \in DOMAIN out : OnGun(out[k], g, at)})
                       <= Spread \div MergeDistance + 1
  BY <1>10, <1>12
<1>15. \A k \in 1..Len(in) : \A g \in Guns :
         OnGun(in[k], g, at) => \E l \in 1..n : OnGun(out[l], g, at)
  BY <1>11
<1> QED BY <1>9, <1>12, <1>13, <1>14, <1>15

-----------------------------------------------------------------------------
(* gunDetection.                                                           *)

LEMMA GunsInitType == GunInit => GunTypeOK /\ SlowPan /\ RoiInFrame
<1> SUFFICES ASSUME GunInit
             PROVE  GunTypeOK /\ SlowPan /\ RoiInFrame
  OBVIOUS
<1>1. misled \in BOOLEAN
  BY DEF GunInit
<1> QED BY <1>1, GunAssumption DEF GunInit, GunTypeOK, SlowPan, RoiInFrame

\* A region that is not passed over lies in the frame.
LEMMA CropFacts ==
  ASSUME NEW person \in People
  PROVE  /\ person.left \in Int /\ person.left >= -Overhang
         /\ Crop(person) \in [left : Int, width : Int]
         /\ Crop(person).left = IF person.left < 0 THEN 0 ELSE person.left
         /\ Crop(person).width > 1 => Crop(person).left + Crop(person).width <= Width
  BY GunAssumption DEF Crop

\* What matching a person does to hits and to what is known of them.
Hit(person, location) ==
  LET p == Crop(person).left + location
  IN  /\ location \in 0..Crop(person).width - 1 /\ person.left + location > Margin
      /\ hits' = Append(hits, person.left + location)
      /\ known' = known \cup GunsAt(p)
      /\ misled' = (misled \/ GunsAt(p) = {})

LEMMA MatchFacts ==
  ASSUME MatchPerson
  PROVE  \E person \in People :
           /\ Crop(person).width > 1 /\ roi' = Crop(person)
           /\ UNCHANGED <<hits, known, misled>> \/ \E location \in Int : Hit(person, location)
<1>1. PICK person \in People :
        /\ Crop(person).width > 1
        /\ roi' = Crop(person)
        /\ \/ UNCHANGED <<hits, known, misled>>
           \/ \E location \in 0..roi'.width - 1 :
                IF person.left + location > Margin
                  THEN /\ hits' = Append(hits, person.left + location)
                       /\ known' = known \cup GunsAt(roi'.left + location)
                       /\ misled' = (misled \/ GunsAt(roi'.left + location) = {})
                  ELSE UNCHANGED <<hits, known, misled>>
  BY DEF MatchPerson
<1>2. ASSUME NEW location \in 0..roi'.width - 1,
             IF person.left + location > Margin
               THEN /\ hits' = Append(hits, person.left + location)
                    /\ known' = known \cup GunsAt(roi'.left + location)
                    /\ misled' = (misled \/ GunsAt(roi'.left + location) = {})
               ELSE UNCHANGED <<hits, known, misled>>
      PROVE  UNCHANGED <<hits, known, misled>> \/ \E l \in Int : Hit(person, l)
  <2>1. CASE person.left + location > Margin
    <3>1. Hit(person, location)
      BY <1>1, <1>2, <2>1 DEF Hit
    <3> QED BY <3>1
  <2>2. CASE ~(person.left + location > Margin)
    BY <1>2, <2>2
  <2> QED BY <2>1, <2>2
<1> QED BY <1>1, <1>2

LEMMA GunsStepType ==
  ASSUME GunTypeOK, [GunNext]_gunVars
  PROVE  GunTypeOK'
<1> USE DEF GunTypeOK
<1>1. CASE NextFrame
  BY <1>1, GunAssumption DEF NextFrame
<1>2. CASE SkipPerson
  <2>1. people' \in 0..MaxPeople
    BY <1>2, GunAssumption DEF SkipPerson
  <2>2. UNCHANGED <<gunPoints, prevPan, pan, gunPc, hits, roi, known, misled>>
    BY <1>2 DEF SkipPerson
  <2> QED BY <2>1, <2>2
<1>3. CASE MatchPerson
  <2>1. PICK person \in People :
          /\ Crop(person).width > 1 /\ roi' = Crop(person)
          /\ UNCHANGED <<hits, known, misled>> \/ \E location \in Int : Hit(person, location)
    BY <1>3, MatchFacts
  <2>2. roi' \in [left : Int, width : Int] /\ person.left \in Int
    BY <2>1, CropFacts
  <2>3. hits' \in Seq(Int) /\ known' \subseteq Guns /\ misled' \in BOOLEAN
    <3>1. CASE UNCHANGED <<hits, known, misled>>
      BY <3>1
    <3>2. ASSUME NEW location \in Int, Hit(person, location)
          PROVE  hits' \in Seq(Int) /\ known' \subseteq Guns /\ misled' \in BOOLEAN
      <4>1. person.left + location \in Int
        BY <2>2
      <4> QED BY <3>2, <4>1, AppendProperties DEF Hit, GunsAt
    <3> QED BY <2>1, <3>1, <3>2
  <2>4. people' \in 0..MaxPeople /\ UNCHANGED <<gunPoints, prevPan, pan, gunPc>>
    BY <1>3, GunAssumption DEF MatchPerson
  <2> QED BY <2>2, <2>3, <2>4
<1>4. CASE Merge
  <2>1. WithHits \in Seq(Int)
    BY ConcatProperties DEF WithHits
  <2>2. gunPoints' \in Seq(Int)
    BY <1>4, <2>1, MergedType DEF Merge
  <2> QED BY <1>4, <2>2 DEF Merge
<1>5. CASE TrackGuns
  <2>1. gunPoints' \in Seq(Int)
    <3>1. pan - prevPan \in Int
      BY GunAssumption
    <3>2. gunPoints' \in [1..Len(gunPoints) -> Int]
      BY <1>5, <3>1 DEF TrackGuns
    <3>3. \A n \in Nat : \A s \in [1..n -> Int] : s \in Seq(Int)
      OBVIOUS
    <3>4. Len(gunPoints) \in Nat
      OBVIOUS
    <3> QED BY <3>2, <3>3, <3>4
  <2> QED BY <1>5, <2>1 DEF TrackGuns
<1>6. CASE UNCHANGED gunVars
  BY <1>6 DEF gunVars
<1> QED BY <1>1, <1>2, <1>3, <1>4, <1>5, <1>6 DEF GunNext

LEMMA StepSlowPan ==
  ASSUME GunTypeOK, SlowPan, [GunNext]_gunVars
  PROVE  SlowPan'
<1>1. pan \in Int /\ prevPan \in Int /\ pan' \in Int /\ Speed \in Nat
  BY GunsStepType, GunAssumption DEF GunTypeOK
<1>2. CASE NextFrame
  BY <1>1, <1>2 DEF NextFrame, SlowPan
<1>3. CASE SkipPerson \/ MatchPerson \/ Merge
  BY <1>3 DEF SkipPerson, MatchPerson, Merge, SlowPan
<1>4. CASE TrackGuns
  BY <1>1, <1>4 DEF TrackGuns, SlowPan
<1>5. CASE UNCHANGED gunVars
  BY <1>5 DEF gunVars, SlowPan
<1> QED BY <1>2, <1>3, <1>4, <1>5 DEF GunNext

LEMMA StepRoi ==
  ASSUME RoiInFrame, [GunNext]_gunVars
  PROVE  RoiInFrame'
<1>1. CASE MatchPerson
  <2>1. PICK person \in People : Crop(person).width > 1 /\ roi' = Crop(person)
    BY <1>1, MatchFacts
  <2> QED BY <2>1, CropFacts DEF RoiInFrame
<1>2. CASE roi' = roi
  BY <1>2 DEF RoiInFrame
<1> QED BY <1>1, <1>2 DEF GunNext, NextFrame, SkipPerson, Merge, TrackGuns, gunVars

LEMMA GunsTyped == GunSpec => [](GunTypeOK /\ SlowPan /\ RoiInFrame)
<1>1. GunTypeOK /\ SlowPan /\ RoiInFrame /\ [GunNext]_gunVars
        => (GunTypeOK /\ SlowPan /\ RoiInFrame)'
  BY GunsStepType, StepSlowPan, StepRoi
<1> QED BY <1>1, GunsInitType, PTL DEF GunSpec

\* However far a person hangs over the edges of whatever frame, the matcher is
\* given a region of the frame.
THEOREM MatcherStaysInFrame == GunSpec => []RoiInFrame
  BY GunsTyped, PTL

-----------------------------------------------------------------------------
(* Every point and every hit is on a gun, and no gun has too many.         *)

LEMMA GunTypes ==
  ASSUME GunTypeOK
  PROVE  /\ pan \in Int /\ prevPan \in Int /\ known \subseteq Guns /\ Guns \subseteq Int
         /\ gunPoints \in Seq(Int) /\ hits \in Seq(Int)
         /\ Len(gunPoints) \in Nat /\ Len(hits) \in Nat
         /\ DOMAIN gunPoints = 1..Len(gunPoints) /\ DOMAIN hits = 1..Len(hits)
  BY GunAssumption DEF GunTypeOK

LEMMA NextFrameInv ==
  ASSUME Reliable, GunTypeOK, GunInv, NextFrame
  PROVE  GunInv'
<1>1. /\ gunPc = "read" /\ gunPc' = "match" /\ hits' = <<>>
      /\ UNCHANGED <<gunPoints, prevPan, known>>
  BY DEF NextFrame
<1>2. PointsOnGuns' /\ FewEach' /\ HitsOnGuns'
  BY <1>1 DEF GunInv, PointsOnGuns, FewEach, PointsOn, HitsOnGuns
<1>3. KnownHaveOne'
  <2>1. \A gun \in known : \E i \in DOMAIN gunPoints : OnGun(gunPoints[i], gun, prevPan)
    BY <1>1 DEF GunInv, KnownHaveOne
  <2> QED BY <1>1, <2>1 DEF KnownHaveOne
<1> QED BY <1>2, <1>3 DEF GunInv

\* A hit falls short by what the person hangs out of the frame and runs ahead by
\* the frame's motion, which is as far off as a point may be.
LEMMA HitIsOnGun ==
  ASSUME GunTypeOK, SlowPan, NEW person \in People, NEW location \in Int,
         NEW gun \in GunsAt(Crop(person).left + location)
  PROVE  OnGun(person.left + location, gun, prevPan)
<1>1. /\ person.left \in Int /\ person.left >= -Overhang
      /\ Crop(person).left = IF person.left < 0 THEN 0 ELSE person.left
  BY CropFacts
<1>2. /\ pan \in Int /\ prevPan \in Int /\ gun \in Int /\ Speed \in Nat /\ Overhang \in Nat
      /\ gun + pan = Crop(person).left + location
  BY GunTypes, ConstantsTyped DEF GunsAt
<1>3. pan - prevPan >= -Speed /\ pan - prevPan <= Speed
  BY <1>2 DEF SlowPan
<1> DEFINE short == person.left - Crop(person).left
<1>4. short \in Int /\ short >= -Overhang /\ short <= 0
  BY <1>1, <1>2
<1>5. person.left + location = gun + pan + short
  BY <1>1, <1>2, <1>4
<1> HIDE DEF short
<1> QED BY <1>2, <1>3, <1>4, <1>5, OnGunRange

LEMMA MatchPersonInv ==
  ASSUME Reliable, GunTypeOK, SlowPan, GunInv, MatchPerson, ~misled'
  PROVE  GunInv'
<1>1. gunPc = "match" /\ UNCHANGED <<gunPoints, prevPan, gunPc>>
  BY DEF MatchPerson
<1>2. PointsOnGuns' /\ FewEach'
  BY <1>1 DEF GunInv, PointsOnGuns, FewEach, PointsOn
<1>3. PICK person \in People :
        UNCHANGED <<hits, known, misled>> \/ \E location \in Int : Hit(person, location)
  BY MatchFacts
<1>4. CASE UNCHANGED <<hits, known, misled>>
  BY <1>1, <1>2, <1>4 DEF GunInv, HitsOnGuns, KnownHaveOne
<1>5. ASSUME NEW location \in Int, Hit(person, location)
      PROVE  GunInv'
  <2> DEFINE x == person.left + location
             guns == GunsAt(Crop(person).left + location)
  <2>1. x \in Int /\ \A g \in guns : OnGun(x, g, prevPan)
    <3>1. x \in Int
      BY CropFacts
    <3>2. \A g \in guns : OnGun(x, g, prevPan)
      BY HitIsOnGun
    <3> QED BY <3>1, <3>2
  <2>2. guns # {} /\ guns \subseteq Guns /\ known' = known \cup guns
    BY <1>5 DEF Hit, GunsAt
  <2>3. hits \in Seq(Int) /\ hits' = Append(hits, x)
    BY <1>5, GunTypes DEF Hit
  <2> HIDE DEF x, guns
  <2>4. /\ DOMAIN hits' = 1..Len(hits) + 1 /\ DOMAIN hits = 1..Len(hits) /\ Len(hits) \in Nat
        /\ hits'[Len(hits) + 1] = x
        /\ \A i \in DOMAIN hits : i \in DOMAIN hits' /\ hits'[i] = hits[i]
    BY <2>1, <2>3
  <2>5. HitsOnGuns'
    <3> SUFFICES ASSUME NEW i \in 1..Len(hits) + 1
                 PROVE  \E g \in Guns : OnGun(hits'[i], g, prevPan)
      BY <1>1, <2>4 DEF HitsOnGuns
    <3>1. CASE i = Len(hits) + 1
      BY <2>1, <2>2, <2>4, <3>1
    <3>2. CASE i \in DOMAIN hits
      BY <1>1, <2>4, <3>2 DEF GunInv, HitsOnGuns
    <3> QED BY <2>4, <3>1, <3>2
  <2>6. KnownHaveOne'
    <3> SUFFICES ASSUME NEW g \in known'
                 PROVE  \/ \E i \in DOMAIN gunPoints : OnGun(gunPoints[i], g, prevPan)
                        \/ \E i \in DOMAIN hits' : OnGun(hits'[i], g, prevPan)
      BY <1>1 DEF KnownHaveOne
    <3>1. CASE g \in guns
      <4>1. Len(hits) + 1 \in DOMAIN hits'
        BY <2>4
      <4> QED BY <2>1, <2>4, <3>1, <4>1
    <3>2. CASE g \in known
      BY <2>4, <3>2 DEF GunInv, KnownHaveOne
    <3> QED BY <2>2, <3>1, <3>2
  <2> QED BY <1>2, <2>5, <2>6 DEF GunInv
<1> QED BY <1>3, <1>4, <1>5

\* Where the points and then the hits stand in what is merged.
LEMMA WithHitsFacts ==
  ASSUME GunTypeOK
  PROVE  /\ WithHits \in Seq(Int) /\ Len(WithHits) = Len(gunPoints) + Len(hits)
         /\ \A i \in 1..Len(WithHits) :
              \/ i \in DOMAIN gunPoints /\ WithHits[i] = gunPoints[i]
              \/ i - Len(gunPoints) \in DOMAIN hits /\ WithHits[i] = hits[i - Len(gunPoints)]
         /\ \A i \in DOMAIN gunPoints : i \in 1..Len(WithHits) /\ WithHits[i] = gunPoints[i]
         /\ \A i \in DOMAIN hits : /\ Len(gunPoints) + i \in 1..Len(WithHits)
                                  /\ WithHits[Len(gunPoints) + i] = hits[i]
<1>1. /\ WithHits \in Seq(Int) /\ Len(WithHits) = Len(gunPoints) + Len(hits)
      /\ \A i \in 1..Len(WithHits) :
           WithHits[i] = IF i <= Len(gunPoints) THEN gunPoints[i] ELSE hits[i - Len(gunPoints)]
  BY GunTypes, ConcatProperties DEF WithHits
<1>2. /\ Len(gunPoints) \in Nat /\ Len(hits) \in Nat
      /\ DOMAIN gunPoints = 1..Len(gunPoints) /\ DOMAIN hits = 1..Len(hits)
  BY GunTypes
<1>3. ASSUME NEW i \in 1..Len(WithHits)
      PROVE  \/ i \in DOMAIN gunPoints /\ WithHits[i] = gunPoints[i]
             \/ i - Len(gunPoints) \in DOMAIN hits /\ WithHits[i] = hits[i - Len(gunPoints)]
  BY <1>1, <1>2
<1>4. ASSUME NEW i \in DOMAIN gunPoints
      PROVE  i \in 1..Len(WithHits) /\ WithHits[i] = gunPoints[i]
  BY <1>1, <1>2
<1>5. ASSUME NEW i \in DOMAIN hits
      PROVE  /\ Len(gunPoints) + i \in 1..Len(WithHits)
             /\ WithHits[Len(gunPoints) + i] = hits[i]
  <2> DEFINE k == Len(gunPoints) + i
  <2>1. k \in 1..Len(WithHits) /\ ~(k <= Len(gunPoints)) /\ k - Len(gunPoints) = i
    BY <1>1, <1>2
  <2>2. WithHits[k] = hits[i]
    BY <1>1, <2>1
  <2> QED BY <2>1, <2>2
<1> QED BY <1>1, <1>3, <1>4, <1>5

LEMMA MergeInv ==
  ASSUME Reliable, GunTypeOK, GunInv, Merge
  PROVE  GunInv'
<1>1. /\ gunPc = "match" /\ gunPc' = "track" /\ gunPoints' \in Merged(WithHits)
      /\ UNCHANGED <<prevPan, hits, known>>
  BY DEF Merge
<1>2. WithHits \in Seq(Int) /\ prevPan \in Int
  BY WithHitsFacts, GunTypes
<1>3. \A i \in 1..Len(WithHits) : \E g \in Guns : OnGun(WithHits[i], g, prevPan)
  BY <1>1, WithHitsFacts DEF GunInv, PointsOnGuns, HitsOnGuns
<1>4. /\ \A k \in DOMAIN gunPoints' : \E g \in Guns : OnGun(gunPoints'[k], g, prevPan)
      /\ \A g \in Guns : Cardinality({k \in DOMAIN gunPoints' : OnGun(gunPoints'[k], g, prevPan)})
                         <= Spread \div MergeDistance + 1
      /\ \A k \in 1..Len(WithHits) : \A g \in Guns :
           OnGun(WithHits[k], g, prevPan)
             => \E l \in DOMAIN gunPoints' : OnGun(gunPoints'[l], g, prevPan)
  BY <1>1, <1>2, <1>3, MergeCorrect DEF Reliable
<1>5. PointsOnGuns' /\ FewEach' /\ HitsOnGuns'
  BY <1>1, <1>4 DEF PointsOnGuns, FewEach, PointsOn, HitsOnGuns
<1>6. KnownHaveOne'
  <2> SUFFICES ASSUME NEW g \in known
               PROVE  \E l \in DOMAIN gunPoints' : OnGun(gunPoints'[l], g, prevPan)
    BY <1>1 DEF KnownHaveOne
  <2>1. \E k \in 1..Len(WithHits) : OnGun(WithHits[k], g, prevPan)
    <3>1. ASSUME NEW i \in DOMAIN gunPoints, OnGun(gunPoints[i], g, prevPan)
          PROVE  \E k \in 1..Len(WithHits) : OnGun(WithHits[k], g, prevPan)
      <4>1. i \in 1..Len(WithHits) /\ WithHits[i] = gunPoints[i]
        BY WithHitsFacts
      <4> QED BY <3>1, <4>1
    <3>2. ASSUME NEW i \in DOMAIN hits, OnGun(hits[i], g, prevPan)
          PROVE  \E k \in 1..Len(WithHits) : OnGun(WithHits[k], g, prevPan)
      <4>1. /\ Len(gunPoints) + i \in 1..Len(WithHits)
            /\ WithHits[Len(gunPoints) + i] = hits[i]
        BY WithHitsFacts
      <4> QED BY <3>2, <4>1
    <3> QED BY <3>1, <3>2 DEF GunInv, KnownHaveOne
  <2>2. g \in Guns
    BY GunTypes
  <2> QED BY <1>4, <2>1, <2>2
<1> QED BY <1>5, <1>6 DEF GunInv

LEMMA TrackGunsInv ==
  ASSUME Reliable, GunTypeOK, GunTypeOK', GunInv, TrackGuns
  PROVE  GunInv'
<1>1. /\ gunPc = "track" /\ gunPc' = "read" /\ known' = known /\ prevPan' = pan
      /\ gunPoints' = [i \in DOMAIN gunPoints |-> gunPoints[i] + (pan - prevPan)]
  BY DEF TrackGuns
<1>2. /\ DOMAIN gunPoints' = DOMAIN gunPoints
      /\ \A i \in DOMAIN gunPoints : gunPoints'[i] = gunPoints[i] + (pan - prevPan)
  BY <1>1
<1>3. ASSUME NEW i \in DOMAIN gunPoints, NEW g \in Guns
      PROVE  OnGun(gunPoints'[i], g, prevPan') <=> OnGun(gunPoints[i], g, prevPan)
  <2>1. gunPoints[i] \in Int /\ pan \in Int /\ prevPan \in Int /\ g \in Int
    BY GunTypes
  <2>2. (gunPoints[i] + (pan - prevPan)) - (g + pan) = gunPoints[i] - (g + prevPan)
    BY <2>1
  <2> QED BY <1>1, <1>2, <2>2 DEF OnGun
<1>4. PointsOnGuns'
  BY <1>2, <1>3 DEF GunInv, PointsOnGuns
<1>5. FewEach'
  <2>1. \A g \in Guns : {i \in DOMAIN gunPoints' : OnGun(gunPoints'[i], g, prevPan')}
                        = {i \in DOMAIN gunPoints : OnGun(gunPoints[i], g, prevPan)}
    BY <1>2, <1>3
  <2> QED BY <2>1 DEF GunInv, FewEach, PointsOn
<1>6. HitsOnGuns'
  BY <1>1 DEF HitsOnGuns
<1>7. KnownHaveOne'
  <2>1. \A g \in known : \E i \in DOMAIN gunPoints : OnGun(gunPoints[i], g, prevPan)
    BY <1>1 DEF GunInv, KnownHaveOne
  <2>2. \A g \in known : g \in Guns
    BY GunTypes
  <2> QED BY <1>1, <1>2, <1>3, <2>1, <2>2 DEF KnownHaveOne
<1> QED BY <1>4, <1>5, <1>6, <1>7 DEF GunInv

LEMMA StepGunInv ==
  ASSUME GunTypeOK, SlowPan, GunInv, [GunNext]_gunVars
  PROVE  GunInv'
<1> SUFFICES ASSUME Reliable'
             PROVE  GunInv'
  BY DEF GunInv
\* Once misled, always misled.
<1>a. misled => misled'
  <2>1. MatchPerson /\ misled => misled'
    <3> SUFFICES ASSUME MatchPerson, misled
                 PROVE  misled'
      OBVIOUS
    <3>1. PICK person \in People :
            UNCHANGED <<hits, known, misled>> \/ \E location \in Int : Hit(person, location)
      BY MatchFacts
    <3> QED BY <3>1 DEF Hit
  <2> QED BY <2>1 DEF GunNext, NextFrame, SkipPerson, Merge, TrackGuns, gunVars
<1>b. Reliable /\ ~misled'
  BY <1>a DEF Reliable
<1>1. CASE NextFrame
  BY <1>1, <1>b, NextFrameInv
<1>2. CASE SkipPerson
  BY <1>2, <1>b DEF SkipPerson, GunInv, PointsOnGuns, FewEach, PointsOn, HitsOnGuns, KnownHaveOne
<1>3. CASE MatchPerson
  BY <1>3, <1>b, MatchPersonInv
<1>4. CASE Merge
  BY <1>4, <1>b, MergeInv
<1>5. CASE TrackGuns
  BY <1>5, <1>b, GunsStepType, TrackGunsInv
<1>6. CASE UNCHANGED gunVars
  BY <1>6, <1>b DEF gunVars, GunInv, PointsOnGuns, FewEach, PointsOn, HitsOnGuns, KnownHaveOne
<1> QED BY <1>1, <1>2, <1>3, <1>4, <1>5, <1>6 DEF GunNext

LEMMA GunsCorrect == GunSpec => [](GunTypeOK /\ SlowPan /\ GunInv)
<1>1. GunInit => GunInv
  <2> SUFFICES ASSUME GunInit
               PROVE  PointsOnGuns /\ FewEach /\ HitsOnGuns /\ KnownHaveOne
    BY DEF GunInv
  <2>1. gunPoints = <<>> /\ known = {} /\ gunPc = "read"
    BY DEF GunInit
  <2>2. FewEach
    <3>1. \A gun \in Guns : PointsOn(gun, prevPan) = {}
      BY <2>1 DEF PointsOn
    <3>2. Spread \div MergeDistance >= 0
      <4>1. 0 * MergeDistance <= Spread /\ Spread \in Nat /\ Spread <= Spread * MergeDistance
        BY ConstantsTyped DEF Spread
      <4> QED BY <4>1, ConstantsTyped, DivBounds
    <3>3. Spread \div MergeDistance \in Int
      BY ConstantsTyped DEF Spread
    <3> QED BY <3>1, <3>2, <3>3, FS_EmptySet DEF FewEach
  <2> QED BY <2>1, <2>2 DEF PointsOnGuns, HitsOnGuns, KnownHaveOne
<1>2. GunTypeOK /\ SlowPan /\ GunInv /\ [GunNext]_gunVars => (GunTypeOK /\ SlowPan /\ GunInv)'
  BY GunsStepType, StepSlowPan, StepGunInv
<1> QED BY <1>1, <1>2, GunsInitType, PTL DEF GunSpec

\* For every number of people and frames, and every motion, overhang and merge
\* distance.  As long as only guns were taken for guns, and if the guns are at
\* least the merge distance and Spread apart, which the property assumes: no
\* point is off every gun, a gun that was found keeps a point, since merge only
\* puts together what is on the same gun, and no gun has more points between
\* frames than fit on it.
THEOREM FewPointsEach == GunSpec => []FewPointsPerGun
<1>1. SlowPan /\ GunInv => FewPointsPerGun
  <2> SUFFICES ASSUME SlowPan, GunInv, Reliable, gunPc = "read"
               PROVE  /\ \A i \in DOMAIN gunPoints : \E gun \in Guns : OnGun(gunPoints[i], gun, pan)
                      /\ \A gun \in known : PointsOn(gun, pan) # {}
                      /\ \A gun \in Guns : Cardinality(PointsOn(gun, pan))
                                             <= Spread \div MergeDistance + 1
    BY DEF FewPointsPerGun
  <2>1. pan = prevPan /\ PointsOnGuns /\ FewEach /\ KnownHaveOne
    BY DEF SlowPan, GunInv
  <2>2. \A gun \in known : PointsOn(gun, pan) # {}
    BY <2>1 DEF KnownHaveOne, PointsOn
  <2> QED BY <2>1, <2>2 DEF PointsOnGuns, FewEach
<1> QED BY <1>1, GunsCorrect, PTL

-----------------------------------------------------------------------------
(* What holds of every matcher: points are where a hit can have been, and  *)
(* merge keeps them apart.                                                 *)

LEMMA MatchPersonFrame ==
  ASSUME GunTypeOK, FrameInv, MatchPerson
  PROVE  FrameInv'
<1>1. UNCHANGED <<gunPoints, prevPan>>
  BY DEF MatchPerson
<1>2. PointsSeen' /\ PointsStayFew'
  BY <1>1 DEF FrameInv, PointsSeen, PointsStayFew
<1>3. PICK person \in People :
        /\ Crop(person).width > 1
        /\ UNCHANGED <<hits, known, misled>> \/ \E location \in Int : Hit(person, location)
  BY MatchFacts
<1>4. CASE UNCHANGED <<hits, known, misled>>
  BY <1>2, <1>4 DEF FrameInv, HitsInFrame
<1>5. ASSUME NEW location \in Int, Hit(person, location)
      PROVE  HitsInFrame'
  <2> DEFINE x == person.left + location
  <2>1. /\ x > Margin /\ location <= Crop(person).width - 1
        /\ hits \in Seq(Int) /\ hits' = Append(hits, x)
    BY <1>5, CropFacts, GunTypes DEF Hit
  <2>2. x \in Margin + 1..Width - 1
    <3>1. /\ person.left \in Int /\ Crop(person).left \in Int /\ Crop(person).width \in Int
          /\ person.left <= Crop(person).left
          /\ Crop(person).left + Crop(person).width <= Width
      BY <1>3, CropFacts
    <3>2. x < Crop(person).left + Crop(person).width
      BY <2>1, <3>1
    <3>3. x \in Int /\ Margin \in Int /\ Width \in Int
      BY <3>1, ConstantsTyped
    <3> HIDE DEF x
    <3> QED BY <2>1, <3>1, <3>2, <3>3
  <2> HIDE DEF x
  <2>3. /\ DOMAIN hits' = 1..Len(hits) + 1 /\ DOMAIN hits = 1..Len(hits) /\ Len(hits) \in Nat
        /\ hits'[Len(hits) + 1] = x
        /\ \A i \in DOMAIN hits : hits'[i] = hits[i]
    BY <2>1, <2>2
  <2> SUFFICES ASSUME NEW i \in 1..Len(hits) + 1
               PROVE  hits'[i] \in Margin + 1..Width - 1
    BY <2>3 DEF HitsInFrame
  <2>4. CASE i = Len(hits) + 1
    BY <2>2, <2>3, <2>4
  <2>5. CASE i \in DOMAIN hits
    BY <2>3, <2>5 DEF FrameInv, HitsInFrame
  <2> QED BY <2>3, <2>4, <2>5
<1> QED BY <1>2, <1>3, <1>4, <1>5 DEF FrameInv

LEMMA MergeFrame ==
  ASSUME GunTypeOK, FrameInv, Merge
  PROVE  FrameInv'
<1>1. /\ gunPoints' \in Merged(WithHits) /\ UNCHANGED <<prevPan, hits>>
      /\ WithHits \in Seq(Int)
  BY WithHitsFacts DEF Merge
<1>2. HitsInFrame'
  BY <1>1 DEF FrameInv, HitsInFrame
<1>3. ASSUME NEW from \in Pans, NEW to \in Pans, Pans \subseteq from..to
      PROVE  /\ \A i \in DOMAIN gunPoints' :
                  gunPoints'[i] - prevPan \in Margin + 1 - to..Width - 1 - from
             /\ gunPoints' # <<>> =>
                  Len(gunPoints') <= (Width - Margin - 2 + (to - from)) \div MergeDistance + 1
  <2> DEFINE lo == prevPan + (Margin + 1 - to)
             hi == prevPan + (Width - 1 - from)
  <2>1. /\ from \in Int /\ to \in Int /\ prevPan \in Int /\ Margin \in Int /\ Width \in Int
        /\ from <= prevPan /\ prevPan <= to
    BY <1>3, ConstantsTyped DEF GunTypeOK
  <2>2. lo \in Int /\ hi \in Int /\ hi - lo = Width - Margin - 2 + (to - from)
    BY <2>1
  <2>3. ASSUME NEW i \in 1..Len(WithHits)
        PROVE  lo <= WithHits[i] /\ WithHits[i] <= hi
    <3>1. CASE i \in DOMAIN gunPoints /\ WithHits[i] = gunPoints[i]
      <4>1. gunPoints[i] \in Int
        BY <3>1, GunTypes
      <4>2. gunPoints[i] - prevPan \in Margin + 1 - to..Width - 1 - from
        BY <1>3, <3>1 DEF FrameInv, PointsSeen
      <4> QED BY <2>1, <3>1, <4>1, <4>2
    <3>2. CASE i - Len(gunPoints) \in DOMAIN hits /\ WithHits[i] = hits[i - Len(gunPoints)]
      <4>1. WithHits[i] \in Margin + 1..Width - 1
        BY <3>2 DEF FrameInv, HitsInFrame
      <4> QED BY <2>1, <4>1
    <3> QED BY <3>1, <3>2, WithHitsFacts
  <2>4. gunPoints' \in Seq(Int)
    BY <1>1, MergedType
  <2> HIDE DEF lo, hi
  <2>5. /\ \A i \in DOMAIN gunPoints' : lo <= gunPoints'[i] /\ gunPoints'[i] <= hi
        /\ gunPoints' # <<>> => Len(gunPoints') <= (hi - lo) \div MergeDistance + 1
    BY <1>1, <2>2, <2>3, MergedStayFew
  <2>6. ASSUME NEW i \in DOMAIN gunPoints'
        PROVE  gunPoints'[i] - prevPan \in Margin + 1 - to..Width - 1 - from
    <3>1. gunPoints'[i] \in Int
      BY <2>4
    <3> QED BY <2>1, <2>5, <3>1 DEF lo, hi
  <2> QED BY <2>2, <2>5, <2>6
<1>4. PointsSeen' /\ PointsStayFew'
  BY <1>1, <1>3 DEF PointsSeen, PointsStayFew
<1> QED BY <1>2, <1>4 DEF FrameInv

LEMMA TrackGunsFrame ==
  ASSUME GunTypeOK, GunTypeOK', FrameInv, TrackGuns
  PROVE  FrameInv'
<1>1. /\ hits' = hits /\ prevPan' = pan /\ DOMAIN gunPoints' = DOMAIN gunPoints
      /\ \A i \in DOMAIN gunPoints : gunPoints'[i] = gunPoints[i] + (pan - prevPan)
  BY DEF TrackGuns
<1>2. HitsInFrame'
  BY <1>1 DEF FrameInv, HitsInFrame
<1>3. \A i \in DOMAIN gunPoints : gunPoints'[i] - prevPan' = gunPoints[i] - prevPan
  <2> SUFFICES ASSUME NEW i \in DOMAIN gunPoints
               PROVE  (gunPoints[i] + (pan - prevPan)) - pan = gunPoints[i] - prevPan
    BY <1>1
  <2>1. gunPoints[i] \in Int /\ pan \in Int /\ prevPan \in Int
    BY GunTypes
  <2> QED BY <2>1
<1>4. PointsSeen'
  BY <1>1, <1>3 DEF FrameInv, PointsSeen
<1>5. Len(gunPoints') = Len(gunPoints) /\ (gunPoints' # <<>> => gunPoints # <<>>)
  <2>1. gunPoints \in Seq(Int) /\ gunPoints' \in Seq(Int)
    BY DEF GunTypeOK
  <2> QED BY <1>1, <2>1
<1>6. PointsStayFew'
  BY <1>5 DEF FrameInv, PointsStayFew
<1> QED BY <1>2, <1>4, <1>6 DEF FrameInv

LEMMA StepFrameInv ==
  ASSUME GunTypeOK, FrameInv, [GunNext]_gunVars
  PROVE  FrameInv'
<1> USE DEF FrameInv, HitsInFrame, PointsSeen, PointsStayFew
<1>1. CASE NextFrame
  <2>1. hits' = <<>> /\ UNCHANGED <<gunPoints, prevPan>>
    BY <1>1 DEF NextFrame
  <2>2. HitsInFrame'
    BY <2>1
  <2>3. PointsSeen' /\ PointsStayFew'
    BY <2>1
  <2> QED BY <2>2, <2>3
<1>2. CASE SkipPerson
  BY <1>2 DEF SkipPerson
<1>3. CASE MatchPerson
  BY <1>3, MatchPersonFrame
<1>4. CASE Merge
  BY <1>4, MergeFrame
<1>5. CASE TrackGuns
  BY <1>5, GunsStepType, TrackGunsFrame
<1>6. CASE UNCHANGED gunVars
  BY <1>6 DEF gunVars
<1> QED BY <1>1, <1>2, <1>3, <1>4, <1>5, <1>6 DEF GunNext

\* For every matcher, all people, guns and pans, and any number of frames: although
\* only merging ever removes a point, there are never more points than fit at the
\* merge distance on the part of the scene that hits can be on.
THEOREM PointsDoNotPileUp == GunSpec => []PointsStayFew
<1>1. GunInit => FrameInv
  BY DEF GunInit, FrameInv, HitsInFrame, PointsSeen, PointsStayFew
<1>2. GunTypeOK /\ FrameInv /\ [GunNext]_gunVars => (GunTypeOK /\ FrameInv)'
  BY GunsStepType, StepFrameInv
<1>3. GunTypeOK /\ FrameInv => PointsStayFew
  BY DEF FrameInv
<1> QED BY <1>1, <1>2, <1>3, GunsInitType, PTL DEF GunSpec

=============================================================================
