# videoTeror in TLA+

videoTeror is a C++ library (`vtsense`) of computer-vision components on top of
OpenCV, a small Qt add-on (`vtsenseExtras`) and a dozen demo applications. It
has no tests and no documentation of its own, so the reference for everything
here is the code; `objecttracker.cpp` below stands for
`src/src/vtsense/src/Tracking/objecttracker.cpp`, and so on.

Most of the library is image processing that a model checker has nothing to
say about. What is left is the part where state lives from one frame to the
next, where two loops or two threads share it, or where an order of calls is
assumed and not checked. The heart of it is `ObjectTracker`, and that is what
is modelled, checked and proved first.

## 1. Inventory

| Component | State it keeps | Operations | What is hard |
|---|---|---|---|
| **ObjectTracker**, frame handler (`objecttracker.cpp:14-130`) | `trackingPoints`, `missCounter`, `pointIds` (parallel vectors), `stopRequest` (atomic); the caller's `Result` (`trajectories`, `objectsPerFrame`) | `detectAndTrack(prev, current, index, result)` with `getTrackedPointIndex`, `findResult`, `cleanUpPoints` | two loops that change the points they compare with; two different hit tests; ids from a map's size; a look-up with no "not found" |
| **ObjectTracker**, video overload (`objecttracker.cpp:132-156`), `cancel()` | `frameCounter`, `len`, the flag | read / test / process / report loop | `cancel()` from any thread or from the callback; reuse of a tracker; unknown video length |
| PyrLKTracker | none | `track` | the status vector is dropped, lost points go anywhere |
| Object detectors (Haar, HOG, template; dlib commented out) | loaded model | `detect` | none that is visible outside OpenCV |
| MotionDetector family | bounded `history` of frames, or `prevFrame` | `detect`, `getMeanHistoryImage` | the history's first frames and length 0, a mean that is rounded; index arithmetic of the optical-flow grid |
| Anotation | rectangle, click state, selected textures | `anotateRegions`, mouse callback, `extractFeatures` | a selection of three clicks split over frames |
| Helpers | none | `merge`, `crop`, `euclDist` | clusters around the first point of each; a region over the edge of the frame |
| ProbabilisticModel, SVM | mean, components, image size; the classifier; a file each | `learn`, `getParams`, `generate`, `classify`, `serialize`, `deserialize` | `learn` fails after it has changed the model; only products of dimensions are ever compared; nothing says which model a classifier belongs to |
| Serialization | none | lists of images or key points to a file and back | |
| DirCrawler | none | `recursiveSearch` | recursion over directories |
| bigGunDetectionTraining | points, labels, misses (parallel vectors), training data | main loop, mouse callback, `getFlag`, `cleanPoints` | misses counted per detection, removal while indices shift |
| gunDetection, pointTracking | tracked points | main loop, mouse callback | points added or removed between two frames, also in a pause; hits of this frame tracked from the frame before; merging as the only way a point goes |
| nirFace | shared frame buffer | listener thread, main loop | no lock between the writer and three reads |
| evaluateFrgc | template list | parallel loop over files | shared vector, unsigned arithmetic on its size |
| other demos | none of their own | glue: camera, windows, library | `demo` and `faceDetectionInVideo` drive the tracker |
| dlib | vendored, not built | | |

How they interact: an application owns a detector and an `ObjectTracker` that
refers to it. The video overload calls the frame handler once per frame, the
frame handler calls `detector.detect`, then `PyrLKTracker::track`, and writes to
the caller's `Result`; progress is reported by a callback that may call
`cancel()` on the same tracker (`ProgressReporter`,
`faceDetectionInVideo/main.cpp:17-33`), and any other thread may do so as well,
which is why the flag is atomic. The motion detectors, the annotation helper and
the learning classes do not call each other; applications chain them.

What makes each part correct:

- tracker: one identity per object, for as long as it is tracked, never given
  to another; an object reported in every frame from its first detection until
  it is forgotten; trajectory and per-frame objects consistent; forgetting after
  exactly `forgetThreshold` missed frames; every look-up of the previous frame
  finds what it looks for;
- cancellation: a request ends the call at the next frame, is neither lost nor
  answered twice, and does not leak into another call (it does, see §6);
- motion history: the latest frames, the oldest dropped; a still scene settles and
  a change is seen; grid: each result cell shows the flow of its own block;
- annotation: a texture is cut from the frame it was selected in;
- silhouette labels: a label follows its person from the frame it was clicked on,
  and is removed for its own misses only, on time; the parallel vectors stay aligned;
- points: each is tracked from the frame it was made on; a found gun keeps a point, and
  points do not pile up, neither on a gun nor where there is none;
- models: a model that no `learn` has torn answers in the shape it was trained on, for every
  image but a view it cannot reshape, and its classifier accepts its parameters;
- nirFace: a view shows one frame (it does not: the model says how far it may be
  torn, and that tearing heals).

## 2. Modules

| Module | What it is | Code |
|---|---|---|
| `ObjectTracker` | the frame handler, pass by pass, inside the life of a tracker | `objecttracker.cpp`, `objecttracker.h`, `objectdetector.h`, `trajectory.h` |
| `TrackLog` | the abstract specification: what a call promises about ids | the same handler, ids only |
| `TrackingRun` | the video overload and cancellation | `objecttracker.cpp:14-22, 132-156`, `objecttracker.h:54`, `ProgressReporter` |
| `MCObjectTracker` | a one-dimensional instance for TLC | |
| `ObjectTracker_proof` | every safety property of `ObjectTracker`, and that it implements `TrackLog` | |
| `TrackLog_proof` | `LogIsUnbroken` | |
| `SilhouetteTraining`, `MCSilhouetteTraining` | labels that follow people, and the samples taken from them | `bigGunDetectionTraining/main.cpp` |
| `Anotation` | the click machine of `anotateRegions` | `anotation.cpp:8-78` |
| `MotionHistory` | history, mean and comparison of the simple and the gradient detector, for one pixel | `simplemotiondetector.cpp`, `gradientmotiondetector.cpp`, `motiondetector.cpp:14-34` |
| `FlowGrid` | the two loops of the optical-flow detector | `opticalflowmotiondetector.cpp:9-50` |
| `MotionDetection`, `MCMotionDetection` | the program that builds one of these detectors and shows it a video | `motionDetection/main.cpp:13-58` |
| `GunDetection`, `MCGunDetection` | hits become points, points are merged and tracked; `merge` and `crop` | `gunDetection/main.cpp`, `helpers.cpp:5-49` |
| `PointTracking`, `MCPointTracking` | points clicked onto a video and taken away again | `pointTracking/main.cpp` |
| `ImageModel`, `MCImageModel` | a PCA model, the classifier trained on its parameters, and the file of each | `probabilisticmodel.cpp:6-75`, `svm.cpp` |
| `NirFace` | a writer and a reader of one frame buffer | `nirFace/main.cpp` |
| `MotionDetection_proof` | the detectors and the program that runs them | |
| `TrackedPoints_proof` | `PointTracking` and `GunDetection` | |
| `Training_proof` | `SilhouetteTraining` and `ImageModel` | |
| `Threads_proof` | `TrackingRun` and `NirFace` | |
| `Anotation_proof` | `Anotation` | |
| `Induction` | lemmas on numbers: induction and the least element, stated with sets | |

`ObjectTracker` takes the video overload as one call with `ReadFrame`,
`Canceled` and `CleanUpPoints`, and details the handler; `TrackingRun` takes the
handler as one step and details the loop and the flag. Both have the same
`StartRun` / `StartCall`: a call begins with a fresh `Result` and with whatever
the members were.

### ObjectTracker: state and actions

| TLA+ | Code |
|---|---|
| `trackingPoints`, `missCounter`, `pointIds`, `stopRequest` | members of the class, indexed from 1 |
| `trajectories` | `Result::trajectories`, a `std::map`: a function on the ids present; `TrajectoryOf` is `operator[]`, which default-constructs |
| `objectsPerFrame` | `Result::objectsPerFrame`; an entry keeps id and point (the rectangle moves along with the point and is not read again) |
| `pc`, `obj`, `pIndex`, `currentFrameObjects`, `toRemove`, `frameIndex` | locals and loop positions |
| `lastSeen`, `runs` | history: the frame a point was last matched in; calls so far |
| `StartRun`, `ReadFrame`, `EndOfVideo` | lines 132-143, 153-156 |
| `Canceled`, `BeginFrame` | 18-22; 24-36 |
| `ObjectRegistered`, `ObjectAppeared`, `ObjectsDone` | the two branches of the loop over detections, its end |
| `PointHit`, `PointMissed`, `FindResultFails` | the three outcomes of a pass of the sweep; the last is `findResult` without a match, which falls off the end of a function that returns a value: the process crashes or goes on with garbage |
| `CleanUpPoints` | 128-129, 158-177 |
| `Cancel` | `cancel()`, enabled at any moment |

Data is abstract. A position is a value of a set; `Trunc` and `Round` are the two
conversions of a sub-pixel point to a pixel that the code uses, one in
`getTrackedPointIndex` and another in the sweep; `ReadBack` is the pixel a relative
point comes back as; `Dist` is any function to the naturals that is 0 just on
the diagonal (no symmetry and no triangle inequality is assumed); a detection is
a centre and the set of positions of its rectangle, and the only thing assumed of
it is that the rectangle contains the centre. `detector.detect` is a choice from
`DetectionLists`, Lucas-Kanade a choice from `Flows`.

### The smaller modules

`SilhouetteTraining` keeps the three vectors of `SiluetteExtractionData`; one action
per part of the loop: `ReadFrame`, `OnMouse` (inside `waitKey`), `DetectAndTrack`,
`ErasePoint` once for each expired index, one of `SkipWeak`, `TakeSample`, `NoLabel`
per detection (`getFlag`), `ShowFrame`. History variables say which click a point
is, which frame its position refers to, how many detections `getFlag` has looked at
(`looks`), and how many of those were before the point was made or last matched. Three
consequences of the code are part of the model and worth knowing: misses are
counted per detection, not per frame, so labels die sooner in a crowd and never
on an empty street; a point behind another one in the same rectangle is not
looked at by `getFlag`, neither matched nor missed; clicks made before the first
frame is shown refer to nothing. That colour frames are passed to
a tracker that takes grey ones is hidden in `Flows`.

`Anotation` has the states of `AnotationData` and an action per case of the mouse
callback; a texture carries the frame it was cut from and the frames its corners
were clicked on. `MotionHistory` is one pixel of the shrunken frame; `Means` is what
the sum of rounded doubles may be cut to (for 3 and 0, 100, 200 it is 99). `FlowGrid`
steps through both loops with their running index; reads past the end and
writes outside of the result go to `overrun`. The pictures are not in it, nor that
`curFrame` becomes `prevFrame` at the end. In `NirFace` a row is whatever is
written in one piece, its content the number of its frame; `imshow` copies
from the top, the other two views read in any order, since OpenCV splits
them over threads.

`GunDetection` is one axis of the picture under a panning camera; a point moves with
the pan, a hit is a gun inside the region of a person, or a place among `Lookalikes` that
the matcher takes for one, plus the offset the code adds; `misled` remembers that it did.
`merge` is `Hosts` (which point each one goes to), `Added` (its sum and counter) and
`Mean`, which may round a mean either way, since the code keeps fractions and the
model whole pixels. `PointTracking`
has the two calls of `waitKey` as states in which clicks arrive, and carries the age
of every point and the frame its position refers to. `ImageModel` keeps of an image
its size and whether its rows are continuous in memory (`reshape` throws if they are not),
of a parameter vector its length, of a model the stored size, the shape it
was trained on and the number of components; `torn` says that a `learn` has failed
since. An exception is an outcome of a call (`call`), and so is the read past a
sample that `SVM::learn` does without noticing.

The type invariants of these modules are proved, as parts of the inductive
invariants of §4, and none takes a run.

### Two hypotheses

Several properties of the tracker hold only for

- **separated** detections (`Separated`): no rectangle contains the centre of a
  detection that comes earlier in the same list; and
- a **single-use** tracker: at most one call of the video overload (`MaxRuns = 1`).

The code checks neither. Detectors with non-maximum suppression give separated
lists almost always; the demos use a tracker once. Each property's comment says
which of the two it needs, and the two violation runs show what happens without.

## 3. Runs

| Run | Shows |
|---|---|
| `tracker_separated` | single-use, separated: the type invariant; `LookupSafe` (the look-up finds its object); `NoGaps` (a tracked object was reported in every frame since it appeared); `RecordsAgree` (the two halves of the `Result`); `DetectionsCovered` (a point for every detection, no two for one object); `StaleForgotten` (forgetting is not late); `TwiceOnlyIfCoinciding` (an object is reported twice in a frame only where two points coincide); `KeepsPromise` (the handler implements `TrackLog`) |
| `tracker_overlapping` | single-use, overlapping detections, garbage after a failed look-up included: `UniqueIds`, `IdsNotReused`, `NotForgottenEarly` still hold |
| `overlap_lookup` | **violation** of `LookupSafe` when rectangles overlap (§6) |
| `reuse_lookup` | **violation** of `LookupSafe` when a tracker is used twice (§6) |
| `tracking_run` | `OneMoreFrameAtMost`, `ThrowsAnswerCancels`, `StaleCancelHitsFirstFrame`, and the liveness property `CancelEndsCall` |
| `silhouette_training` | `OldestLabelWins` (a sample has the label of the oldest click in its detection), `ForgetsOnlyExpired`, `ExpiredAreGone`, `NotRemovedSoon` (removal is deserved, on time, and not before that many detections were looked at), `OlderGoesFirst` (the older of two points does not outlive its due because of the order of the search), `TrackedFromShownFrame` (a click is tracked from the frame it was made on) |
| `anotation` | `OneFramePerTexture`, `TexturesWhole`, `ScreenIsTrue`: a texture's clicks are all on one frame, it is not empty, and what the user sees is what is cut |
| `motion_detection` | `HistoryIsRecent`, `StillSceneSettles`, `ChangeIsSeen` for lengths -1, 0, 1 and 3 and for thresholds beyond a byte; `WholeBlocksAreSafe`, `CellShowsItsOwnPoint`: what the loops of the optical-flow detector rely on holds when the blocks fill the frame |
| `nir_face` | `ViewIsFresh` (no view goes back behind the last whole frame), `TearIsOneFrameDeep` (the window falls back by one frame at most from a row to a lower one; a lower row may be newer by any number, and the other two views are not bounded so), and the liveness property `ViewsSettle` |
| `gun_detection` | `FewPointsPerGun`: as long as the matcher took only guns for guns, the errors of offset and delay do not add up, a gun has no more points than fit on it at the merge distance, and a found gun keeps one; `PointsStayFew`: whatever it took for a gun, merging alone bounds the number of points; `RoiInFrame`: the matcher is only given regions of the frame |
| `point_tracking` | `TrackedFromItsFrame` (a point follows from the frame it was clicked on, in a pause too), `OldestNearestGoes` (a right click takes the nearest point, and nothing else ever takes one) |
| `image_model` | `WholeModelAnswers`, `NoReadPastSample`, `PairClassifies` through failed and repeated learning, trainings on one class, views that OpenCV does not reshape, saving and loading |

### Bounds

`MCObjectTracker` is a strip of 4 pixels with 2 positions each, one exactly on the
pixel and one where truncating and rounding differ. That is enough for two
disjoint objects, for a point that truncates into a rectangle and rounds out of
it, for a rectangle that covers another's centre and for a move longer than
`MaxMoveThreshold = 4` (units of a third of a pixel). Frames have at most 2
detections; the lists include the empty one, a list in descending order, and a
change from one object to two. `Flows` are a still image, a drift of a fraction of
a pixel, and a collapse of all points on one spot (points that coincide are what
the strict comparison at line 92 is about). `MaxFrame = 4` with
`ForgetThreshold = 2` lets an object appear, be missed, be forgotten, and a new
one appear in its place; the overlapping run has 5 frames and threshold 3, so that
an object may fail, recover and be forgotten. It has no collapse: with it the run
only grows. `reuse_lookup` needs two calls of two frames.
`CHECK_DEADLOCK FALSE` where a garbage look-up may crash the process
or all calls are used up; `tracker_separated` checks deadlock, `cancel()`
being always possible.

`TrackingRun` has a source that does not know its length (0, what a camera
reports), one of 2 frames and one of 40, for which `ProgressReporter`'s 5% comes
at frame 2 and not at frame 1. `frameCounter` stays at its bound 3 for the rest
of a longer video, which is also how an endless source is covered; `overrun` is
counted to two, one more than it may reach. Three calls and three
foreign cancels let a late request cross from call to call.

`SilhouetteTraining`: 3 clicks, so that one point can be erased between two others
or two at once; 4 frames of up to 2 detections, so that `MissLimit = 3` (20 in the
code) is reached within two frames and in more. `Anotation`: a frame of 3 x 2
pixels, where a rectangle can be flipped, empty or one pixel wide; 6 clicks on 2
frames, enough for two textures, or one that is split by a key. `MotionHistory`: 6
frames, twice the longest history; `UnsignedRange` is 16 in place of 2^32, and only
has to exceed the number of frames. Values are 0, 30, 100 and 200: sums that 3 divides
and sums that it does not, and differences on both sides of, and at, the thresholds.
`FlowGrid`: every frame from 1 x 1 to 6 x 6 and every block size from 1 to 4, hence
every remainder. `NirFace`: 3 rows, so that a row may lie between two that are
torn, and 3 frames, so that a view might be two frames deep if the code let it.
`PointTracking`: 5 positions in a row, 3 frames and 3 clicks, so that a right click may
have two nearest points, and a flow that puts all points on one spot. All of these
may stop (the video ends, the detector has seen its frames, the
sensor is silent), hence `CHECK_DEADLOCK FALSE`.

`GunDetection`: a frame of 10 pixels, guns at 0 and 5 under pans 4 and 5, so that the right
gun leaves the frame, and something at 7 that may be taken for a gun; two people per frame out
of three, one over both edges, one inside, and one of whom one pixel is in the frame. The
guns are apart by just `MergeDistance + Spread = 2 + 3`, which is `GunsApart`, one half of
`Reliable`, the hypothesis of `FewPointsPerGun`; an `ASSUME` of `MCGunDetection` says it of the
instance. The other half, that the matcher was not misled so far, holds on some behaviours and
ends on others. `Spread = 2 * Speed + Overhang` is more than `MergeDistance`, so a hit of the
person over the left edge need not be merged with one of the person inside, and there are
behaviours with both guns found and with two points on a gun, as many as the property allows.
The bound of `PointsStayFew` is 4 and is reached. There is no bound on the number of frames,
nor on the points.

In the program merging is at 20 pixels, and a padding of 32 pixels at half the scale lets
regions hang out by 64 and more, so a gun at the edge may have four points in a row, and more
in the plane. The counts of both properties are those of one axis.

`ImageModel`: images of 3 x 2, 2 x 3 and 1 x 4, two of which have the same area and one of
which is a column, which OpenCV need not reshape; whole images and views of each; training sets
of none, one and two images, of mixed sizes, and with a view; 2
successful trainings, so that samples, classifier and files may be of either one; 2
samples.

### Fairness

`WF(Track)`: the tracking thread runs while a call is under way (reading, testing,
processing and reporting all return). That a camera keeps delivering frames, or
that `read` returns false when it does not, is part of it. Nothing is assumed of the
threads that cancel, nor of the caller that starts calls.

`NirFace`: `WF(ConvertRow)` (a callback that was entered returns) and
`WF(MainStep)` (`waitKey(1)` returns, the loop goes on). The sensor need not deliver.

## 4. Proofs

Every theorem holds for all values of the constants that satisfy the named
assumptions of its module: any geometry, detector, flow, thresholds, frame size,
number of frames, clicks and calls. All safety properties the runs check are among them;
where a property has a hypothesis (`Separated`, one call, `Reliable`, whole blocks), so has the
theorem, and the run has it too. `Reliable` is stated within the properties it is needed for.

### The tracker

- `TypeCorrect` (`ObjectTracker_proof`): `Spec => []TypeOK`, with no hypothesis.
  Also after reuse, overlaps and garbage look-ups the three vectors are aligned and
  every index is in range. `TypeOK` is inductive as it stands.
- `FollowCorrect`, `LookupIsSafe` (`ObjectTracker_proof`): for a single-use tracker
  and separated detections, `FollowInv` and from it `LookupSafe`. `LookupSafe`
  is not inductive: it speaks of one frame's sweep, and what it needs is
  established by the frame before. `FollowInv` says that between frames
  every point is reported in the frame before (`KnownBetween`); within a frame
  every detection dealt with has a point at its centre that is reported now
  (`Covered`); every point is known from the frame before or sits alone on the centre
  of the detection that created it (`Rooted`), where the strict minimum of the hit
  test cannot miss it; and what the sweep has passed is reported now (`Swept`), by
  `Covered` if it was hit and by the copy if it was not. `Rooted` is
  where separation is used: a later detection may not move or crowd the point.
  `Fresh` ties the first call to an untouched tracker, which is where single use
  is used.
- `IdsAreUnique`: single use alone gives `UniqueIds`, by
  `IdsInv` (ids are dense from 0, every point has a trajectory). `IdsAreNeverReused`
  follows from it: a new id is not below the number of trajectories, and that never
  shrinks.
- `TrackerKeepsPromise`: under both hypotheses the handler implements `TrackLog`,
  with `live` the ids of the tracked points and `log[f]` the ids reported in frame
  `f`. A match or a miss is `Report` (or a stutter), a new object is `Issue`,
  `CleanUpPoints` is `EndFrame`, whose guard is `Swept`.
- `LogIsUnbroken` (`TrackLog_proof`) is `TrackLog`'s own invariant (`LogInv`, which needs
  no more than that its bounds are numbers) and `ReportsHaveNoHoles` carries it through
  the refinement to the `Result`: `NoHoles`, which no run checks, since `NoGaps` and
  `KeepsPromise` say it between them.
- `FollowedWithoutGap`: `NoGaps` is `NoHoles` between the two ends of a trajectory. The
  upper end is `KnownBetween`, the lower one `Born`: a trajectory begins in the frame
  its object was first reported in.
- `DetectionsAreCovered`, on separated detections, for any number of calls: from `MatchInv`.
  The first reports of a frame are those of its detections, in their order, and each has a
  point on its centre (`Matched`). That a match does not take the point of an earlier
  detection is where separation is used; that they are the first reports needs
  `NothingAhead`, that a frame is empty until the handler comes to it.
- `StaleAreForgotten`, `ForgottenInTime`: `missCounter` is compared from both sides with the
  frames since a point was last matched. It never falls behind them (`MissesCounted`),
  as what the sweep takes for hit was matched in this very frame; this is `Matched`
  again. It is never more than one ahead (`MissesDeserved`), and that holds when
  detections overlap. `Marked` ties `toRemove` to the counters. The two bounds need
  different hypotheses, as the properties do: separation the one, single use the other.
- `SecondReportNeedsTwoPoints` (`TwiceOnlyIfCoinciding`): a point whose object is reported in
  this frame, and which the sweep has not passed, stands on the centre of its detection
  (`Standing`; that a report is of no other point is `UniqueIds`). There its distance is 0, and
  only another point on the same spot keeps it from being the nearest.
- `ResultIsConsistent` (`RecordsAgree`): every report is put after all there are
  (`NothingAhead`), so it changes the place of none, and it is the last one of its id, as its
  point is the last of the trajectory. A new object must not meet reports under its id
  (`ReportsKnown`, `IdsInv`), and `LookupSafe` keeps garbage out. The property counts
  reports instead of concatenating lists, so that no induction over frames is needed.

### Threads and calls

- `StopsAfterThisFrame`, `EveryThrowWasAskedFor`, `LateRequestIsEarly`
  (`Threads_proof`), for any number of calls, requests and frames, from `RunInv`: the
  flag is still set when the call that has seen it set comes to clear it, and stays set
  while a request made of this call is unanswered (`RequestKept`); so no second
  frame is begun (`FrameUntouched`, `OverrunAsked`), and a flag nobody set during
  this call can only be up before the first frame (`StaleIsEarly`).
- `ViewsAreFresh`, `TearingIsBounded` (`Threads_proof`): from
  `BufferMixesTwo` (rows above the one being converted are of the current
  frame, the others of the one before), `ViewsBehind` and `CopiedFromTop`.

### Labels, selections and models

- `TrainingIsClean`, `LabelsStayOldest`, `RemovalIsDeserved`
  (`Training_proof`): from `TrainingInv`, which adds to the types that clicks
  are in order and flags match them (`Ordered`), and that while points are erased
  the indices still listed are just those that are due (`Due`). `Due` survives an
  erasure because the largest index goes first: the smaller ones do not shift.
- `ClicksAreTrackedFromScreen`, `LabelsLiveLongEnough`, `OldestIsForgottenFirst`: from
  `LifeInv`, which adds where `shown`, `frame` and the positions stand in each phase
  (`Aligned`), that a point has one miss at most for each detection looked at since it was
  made or last matched (`MissesBounded`), and `OlderGoesFirst`, which is inductive with that:
  `getFlag` counts misses for a front part of the vector, and erasing keeps the order.
- `TexturesKeepTheirFrame` (`Anotation_proof`): `OneFramePerTexture` needs
  `CornersOnFrame`, that the corners of a selection under way are on the current
  frame, which the reset of the state at a new frame preserves.
- `NoTextureIsEmpty`, `UserSeesSelection` are conjuncts of the same `AnotationInv`: an empty
  rectangle contains no third click, and every handler that changes the
  selection draws it.
- `WholeModelsAnswer`, `OneTrainingIsReadable`, `PairsClassify` (`Training_proof`), for any
  sizes, continuous or not, and any history: from `Core`. A model that is not torn has the dimensions it was
  trained on, in memory and in its file (`ModelOK`), and all vectors of one
  training have one length wherever they are kept, as a sample, in the model, in the
  classifier or in a file (`Consistent`).

### Motion and points

- `HistoryStaysRecent` (`MotionDetection_proof`): `HistoryIsRecent` is inductive with the types,
  for every length from 0 to the wrapped negative ones. With it the frames `Compared` are those in the
  history, and `SceneSettles` and `ChangeIsReported` are about the mean of a
  sequence: it lies between bounds that hold for all elements, by induction over the
  loop that adds them. The unit that rounding may lose is `Means`.
- `GridIsSafe`, `CellsShowTheirPoints`: from `GridInv`. While the first loop runs the points
  are those of the blocks passed so far, in the order of rows (`LayingOut`); when the second
  runs, its index is the number of the block its cell shows (`Walking`, `CellIsBlock`).
  Whole blocks make both loops go through as many columns, which is what the arithmetic
  comes down to.
- `TrackedFromWindow` (`TrackedPoints_proof`): from `WindowIsPrev`, that the window
  shows `prev`, or nothing yet, whatever frame has been read since.
- `RightClickTakesNearest`: `nearestIndex` returns the nearest point and the first of those
  (`NearestIsFound`, by induction over its loop, for any distance function), and
  points lie in the order of their clicks (`InOrderOfClicks`), so first is oldest.
- `FewPointsEach`: from `GunInv`. The property has the hypothesis `Reliable`: the matcher took
  only guns for guns so far (`~misled`), and these are `MergeDistance + Spread` apart (`GunsApart`).
  Nothing is assumed of the overhang or the speed, nor of the people. Until points are tracked they are on their
  guns as these were in the previous frame, and a hit is close enough to that to pass for
  one of them (`HitIsOnGun`). Then two positions that are `Close` are on one gun
  (`CloseIsSameGun`; this is where `GunsApart` is used), so the mean of a cluster is on the
  gun of its head, wherever its points stand in the vector (`MergeCorrect`). The heads of
  clusters are at least the merge distance apart (`HeadsAreApart`), and no more such places
  fit on a gun than `Spread \div MergeDistance + 1` (`ApartAreFew`). Tracking moves all by the
  motion of the frame, and errors do not add up.
- `PointsDoNotPileUp`, with no hypothesis on matcher, guns or overhang: a point is
  where a hit was once, panned along since (`PointsSeen`), and heads are apart
  (`MergedStayFew`).
- `MatcherStaysInFrame` needs no hypothesis: it is about `crop`.

Only model-checked: the liveness properties `CancelEndsCall` and `ViewsSettle`. Liveness under
fairness is left to TLC for good: the prover has no rules for `ENABLED`.

Recursive functions (`SumOf`, `Hosts`, `Added`, `NearestIndex`) are proved about by showing
that a function with their equation exists and then going up their argument. The induction
itself is `SetInduction`: the library's rules take the statement as an operator, which the
provers cannot instantiate, but a set of numbers without a least element outside of it
does the same.

## 5. Plan

The order was that of what matters to a user of the library: the tracker and its
cancellation; the programs in which a callback or a thread shares state with a loop
(`SilhouetteTraining`, `Anotation`, `NirFace`, `PointTracking`); the motion detectors; the
models and their files; the merging of points. All of this is done. What could
still be added:

1. the conversion between relative and pixel regions and `extractFeatures`, as operators
   against a reference definition;
2. the list of references of `faceIdentification`, the only state left in the demos;
3. `merge` in the plane: how many points fit on a gun when both axes count.

## 6. What the runs found

- **A hit without a match** (`overlap_lookup`, `objecttracker.cpp:107`). With a
  rectangle that covers the centre of an earlier one, a point moves on to the
  second detection and leaves the first, or is crowded out by a newborn point; the
  sweep then takes a point for hit though the handler reported nothing under its id in
  this frame. One frame later it is missed, is looked up in that frame, and
  `findResult` (`objectdetector.h:26-34`) ends without `return`. The comment at line
  102 ("i have something from previous frame") is what the code relies on.
- **A tracker used twice** (`reuse_lookup`, `objecttracker.cpp:136`). The second call
  starts with an empty `Result` and the points of the first; the first miss is looked
  up in the empty frame 0. The exception of a cancelled call leaves the tracker in the
  same condition.

Seen and not stated as findings: a request that comes after the last test of a call
cancels the next call at its first frame (`StaleCancelHitsFirstFrame` says that it
hits no later one); a source of unknown length makes the progress report divide by
zero (`pc = "died"` in `TrackingRun`); points that coincide on a detection are
missed even though one of them was matched, and the object is reported twice in
that frame (`TwiceOnlyIfCoinciding` says that nothing else does this, and
`NotForgottenEarly` has a frame of slack for it); the optical-flow
detector can read past its vectors when its block size does not divide the frame,
which nothing tests (`WholeBlocksAreSafe` has that as its hypothesis); a `historyLength` of 0 works like 1
(the history begins with one frame and loses one per frame), so it never divides by
zero; a threshold of 256 is stored as 0, and then the rounding of the mean alone is
motion; a `learn` that throws leaves a model whose dimensions are not those of its
components, and if the areas agree (3 x 2 for 2 x 3) it goes on answering, with
images of the wrong shape (`WholeModelAnswers` is about models that are not torn);
`getParams` throws for a view into a larger image that has exactly the size of the model,
though it takes views of every other size, which are copied when they are resized
(`probabilisticmodel.cpp:71`; the samples are resized to 32 x 64 and the windows of the people
detector start at 48 x 96, so `bigGunDetection` does not come to it);
`gunDetection` tracks a hit of the current frame from the previous one, and places it
short by what its person hangs out of the frame: within the merge distance both are
harmless, beyond it the gun gets further points, no more than fit on it
(`FewPointsPerGun`). That a found gun keeps a point has another side: a point never goes,
and the code has no way to drop one whose gun is gone.

## 7. Not modelled

Image processing (OpenCV): its results are inputs. Drawing, windows, files and
other output. The trackbars of `ProbabilisticModel::show`, which only display. The
`Serialization` helper, `DirCrawler` and `evaluateFrgc`, which keep no state, and the face
demos, whose face library is not in the repository. The int overflow of
`frameCounter * 100` after 21 million frames is beyond the counter's bound.

`dlib`, 99 lines in 100 of the repository, is a vendored library that the build does not
compile: `dlibfacedetector.cpp` is commented out from end to end, and of the class only the
header is included anywhere (`faceDetectionInVideo`). The project's own code is
about 3000 lines, much of it headers, drawing and calls into OpenCV; the modules map about
900 of them, and the share of the whole repository that is mapped cannot become large.
