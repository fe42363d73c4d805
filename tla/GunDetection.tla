---------------------------- MODULE GunDetection ----------------------------
(***************************************************************************)
(* gunDetection: in every frame a template matcher looks for a gun inside  *)
(* each detected person; hits become points, points nearer than            *)
(* mergeDistance are merged, and all points are tracked to the next frame. *)
(* Nothing ever removes a point but the merging.                           *)
(*                                                                         *)
(* Two things in the loop are off by design.  New hits are positions in    *)
(* the current frame but are tracked from the previous one like the rest,  *)
(* so they run ahead of their gun by one frame's motion.  And a hit is     *)
(* located in the cropped region but reported relative to the uncropped    *)
(* one, so it is short by what hangs out of the frame.  The properties say *)
(* how far this can go, and how many points there may come to be.          *)
(*                                                                         *)
(* One axis of the picture; the camera pans over a scene that stands still *)
(* and the tracker follows it exactly, also out of the frame.              *)
(***************************************************************************)
EXTENDS Integers, Sequences, FiniteSets

CONSTANTS
  Width,          \* of a frame, in pixels
  Guns,           \* where the guns are, relative to the pan
  Lookalikes,     \* where in a frame the matcher may take something else for a gun
  Pans,           \* bound: positions of the camera
  Speed,          \* the pan moves by at most this much in a frame
  People,         \* regions peopleDetect may return, [left, width]
  Overhang,       \* how far such a region may begin left of the frame
  MergeDistance,  \* 20 in the code
  Margin,         \* 20 in the code: hits further left are not believed
  MaxPeople       \* bound: people in a frame

ASSUME GunAssumption ==
  /\ Guns \subseteq Int /\ Pans \subseteq Int /\ Lookalikes \subseteq Int
  /\ People \subseteq [left : Int, width : Int]
  /\ \A person \in People : person.left >= -Overhang
  /\ {Width, MergeDistance} \subseteq Nat \ {0}
  /\ {Speed, Overhang, Margin, MaxPeople} \subseteq Nat

VARIABLES
  gunPoints,       \* positions of the tracked points
  prevPan, pan,    \* where prevFrame and frame were taken
  gunPc,
  people,          \* people looked at in this frame
  hits,            \* locations found in this frame
  roi,             \* the region the matcher was given last
  known,           \* history: guns that were found so far,
  misled           \*   and whether anything else ever was taken for one

gunVars == <<gunPoints, prevPan, pan, gunPc, people, hits, roi, known, misled>>

GunTypeOK ==
  /\ gunPoints \in Seq(Int) /\ hits \in Seq(Int)
  /\ prevPan \in Pans /\ pan \in Pans
  /\ gunPc \in {"read", "match", "track"}
  /\ people \in 0..MaxPeople
  /\ roi \in [left : Int, width : Int]
  /\ known \subseteq Guns /\ misled \in BOOLEAN

GunInit ==
  /\ gunPoints = <<>> /\ prevPan \in Pans /\ pan = prevPan /\ gunPc = "read"
  /\ people = 0 /\ hits = <<>> /\ roi = [left |-> 0, width |-> Width]
  /\ known = {} /\ misled = FALSE

-----------------------------------------------------------------------------
(* Helpers::crop and Helpers::merge.                                       *)

\* Mutant: the right end is cut before the left one.
CropRightFirst(rect) ==
  [left  |-> IF rect.left < 0 THEN 0 ELSE rect.left,
   width |-> IF rect.left + rect.width >= Width THEN Width - rect.left ELSE rect.width]

\* The left end moves into the frame, but the width stays: the result is not
\* the intersection with the frame.
Crop(rect) ==
  LET left == IF rect.left < 0 THEN 0 ELSE rect.left
  IN  [left  |-> left,
       width |-> IF left + rect.width >= Width THEN Width - left ELSE rect.width]

\* Mutant: no absolute value.
CloseBehind(p, q) == p - q < MergeDistance /\ p - q >= 0

Close(p, q) == p - q < MergeDistance /\ q - p < MergeDistance

\* Which point each point is merged into: the first one before it that is
\* close and was not merged away itself, or else itself.
Hosts(in) ==
  LET host[i \in DOMAIN in] ==
        LET near == {j \in 1..i - 1 : host[j] = j /\ Close(in[j], in[i])}
        IN  IF near = {} THEN i ELSE CHOOSE j \in near : \A k \in near : j <= k
  IN  host

\* sum and counter, for the points at these indices.
Added(in, indices) ==
  LET upTo[k \in 0..Len(in)] ==
        IF k = 0 THEN [sum |-> 0, counter |-> 0]
        ELSE LET before == upTo[k - 1]
             IN  IF k \in indices
                   THEN [sum |-> before.sum + in[k], counter |-> before.counter + 1]
                   ELSE before
  IN  upTo[Len(in)]

\* The mean of the points at these indices, rounded up or down.
Mean(in, indices, up) ==
  LET all == Added(in, indices)
  IN  IF up THEN -((-all.sum) \div all.counter) ELSE all.sum \div all.counter

\* A set of indices from the lowest to the highest.
Ascending(indices) ==
  {s \in [1..Cardinality(indices) -> indices] : \A k, l \in DOMAIN s : k < l => s[k] < s[l]}

\* What merge may return: a mean for each cluster, in the order of the heads.
Merged(in) ==
  LET host  == Hosts(in)
      heads == {i \in DOMAIN in : host[i] = i}
      n     == Cardinality(heads)
  IN  {[k \in 1..n |-> Mean(in, {i \in DOMAIN in : host[i] = s[k]}, up[k])] :
         s \in Ascending(heads), up \in [1..n -> BOOLEAN]}

-----------------------------------------------------------------------------
(* The main loop.                                                          *)

NextFrame ==
  /\ gunPc = "read"
  /\ pan' \in {to \in Pans : to - pan \in -Speed..Speed}
  /\ people' = 0 /\ hits' = <<>>
  /\ gunPc' = "match"
  /\ UNCHANGED <<gunPoints, prevPan, roi, known, misled>>

\* Regions of one pixel and less are passed over.
SkipPerson ==
  /\ gunPc = "match" /\ people < MaxPeople
  /\ \E person \in People : Crop(person).width <= 1
  /\ people' = people + 1
  /\ UNCHANGED <<gunPoints, prevPan, pan, gunPc, hits, roi, known, misled>>

GunsAt(p) == {gun \in Guns : gun + pan = p}

\* The matcher finds a gun in the region, or takes something for one, or finds
\* nothing with a score above 0.9.
MatchPerson ==
  /\ gunPc = "match" /\ people < MaxPeople
  /\ \E person \in People :
       /\ Crop(person).width > 1
       /\ roi' = Crop(person)
       /\ \/ UNCHANGED <<hits, known, misled>>
          \/ \E location \in 0..roi'.width - 1 :
               LET x    == person.left + location
                   at   == roi'.left + location
                   guns == GunsAt(at)
               IN  /\ guns # {} \/ at \in Lookalikes
                   /\ IF x > Margin
                        THEN /\ hits' = Append(hits, x)
                             /\ known' = known \cup guns
                             /\ misled' = (misled \/ guns = {})
                        ELSE UNCHANGED <<hits, known, misled>>
  /\ people' = people + 1
  /\ UNCHANGED <<gunPoints, prevPan, pan, gunPc>>

\* Mutant: the hits take the place of the points.
WithHitsOnly == hits

WithHits == gunPoints \o hits

Merge ==
  /\ gunPc = "match"
  /\ gunPoints' \in Merged(WithHits)
  /\ gunPc' = "track"
  /\ UNCHANGED <<prevPan, pan, people, hits, roi, known, misled>>

\* The points move like the picture; then the frame becomes the previous one.
TrackGuns ==
  /\ gunPc = "track"
  /\ gunPoints' = [i \in DOMAIN gunPoints |-> gunPoints[i] + (pan - prevPan)]
  /\ prevPan' = pan
  /\ gunPc' = "read"
  /\ UNCHANGED <<pan, people, hits, roi, known, misled>>

GunNext == NextFrame \/ SkipPerson \/ MatchPerson \/ Merge \/ TrackGuns

GunSpec == GunInit /\ [][GunNext]_gunVars

-----------------------------------------------------------------------------
\* Points of a gun run ahead by a frame's motion and fall short by the
\* overhang, and neither adds up over the frames.
OnGun(p, gun, at) == p - (gun + at) \in -(Speed + Overhang)..Speed
Spread == 2 * Speed + Overhang

PointsOn(gun, at) == {i \in DOMAIN gunPoints : OnGun(gunPoints[i], gun, at)}

\* Guns so far apart that a point of one is not merged with one of another.
GunsApart == \A g, h \in Guns : g < h => h - g >= MergeDistance + Spread

\* The hypothesis of the next property: only guns were taken for guns so far.
Reliable == GunsApart /\ ~misled

\* Between frames every point is on a gun.  A gun that was found once has a point
\* ever after, found again or not, and however often it is found no gun has more
\* points than fit on it at the merge distance: what is found again is merged
\* with its error, and with the errors of other people's hits, so the errors do
\* not add up.  A gun has one point as long as Spread is below the merge
\* distance, and more only through people who hang far over the edge.
FewPointsPerGun ==
  Reliable /\ gunPc = "read" =>
    /\ \A i \in DOMAIN gunPoints : \E gun \in Guns : OnGun(gunPoints[i], gun, pan)
    /\ \A gun \in known : PointsOn(gun, pan) # {}
    /\ \A gun \in Guns : Cardinality(PointsOn(gun, pan)) <= Spread \div MergeDistance + 1

\* Whatever the matcher takes for a gun, however people hang over the edges and
\* although points that leave the frame are kept: there are no more points than
\* fit at the merge distance on the part of the scene that hits can be on while
\* the camera pans from one end to the other.
PointsStayFew ==
  \A from, to \in Pans :
    Pans \subseteq from..to /\ gunPoints # <<>> =>
      Len(gunPoints) <= (Width - Margin - 2 + (to - from)) \div MergeDistance + 1

\* The matcher is only given regions that lie in the frame and are not empty,
\* however a person hangs over its edges: frame(rect) does not throw.
RoiInFrame == roi.left >= 0 /\ roi.width > 0 /\ roi.left + roi.width <= Width

-----------------------------------------------------------------------------
(* Why: until the points have been tracked they are where the guns were in *)
(* the previous frame, and a hit is close enough to that to be taken for   *)
(* such a point, since its error is the overhang and a frame's motion.     *)

SlowPan == pan - prevPan \in -Speed..Speed /\ (gunPc = "read" => pan = prevPan)

PointsOnGuns ==
  \A i \in DOMAIN gunPoints : \E gun \in Guns : OnGun(gunPoints[i], gun, prevPan)

FewEach ==
  \A gun \in Guns : Cardinality(PointsOn(gun, prevPan)) <= Spread \div MergeDistance + 1

HitsOnGuns ==
  gunPc = "match" => \A i \in DOMAIN hits : \E gun \in Guns : OnGun(hits[i], gun, prevPan)

KnownHaveOne ==
  \A gun \in known : \/ \E i \in DOMAIN gunPoints : OnGun(gunPoints[i], gun, prevPan)
                     \/ gunPc = "match" /\ \E i \in DOMAIN hits : OnGun(hits[i], gun, prevPan)

GunInv == Reliable => PointsOnGuns /\ FewEach /\ HitsOnGuns /\ KnownHaveOne

\* Hits are in the frame, and points where a hit could once have been.
HitsInFrame == \A i \in DOMAIN hits : hits[i] \in Margin + 1..Width - 1

PointsSeen ==
  \A from, to \in Pans : Pans \subseteq from..to =>
    \A i \in DOMAIN gunPoints :
      gunPoints[i] - prevPan \in Margin + 1 - to..Width - 1 - from

FrameInv == HitsInFrame /\ PointsSeen /\ PointsStayFew

=============================================================================
