----------------------------- MODULE ImageModel -----------------------------
(***************************************************************************)
(* ProbabilisticModel (a PCA of equally sized images) and the SVM that is  *)
(* trained on its parameters, with the files both are stored in, as        *)
(* bigGunDetection puts them together: an image is projected on the model, *)
(* and the parameters are classified.                                      *)
(*                                                                         *)
(* learn() stores the size of the first image before it looks at the       *)
(* others, so a call that fails leaves components of one size and the      *)
(* dimensions of another ("torn").  Only products of dimensions are        *)
(* compared later, so a torn model may refuse an image, or not notice.     *)
(*                                                                         *)
(* Images are turned into columns without a copy, which OpenCV refuses for *)
(* a view into a larger image, whose rows do not follow each other in      *)
(* memory.  bigGunDetection passes such views.                             *)
(***************************************************************************)
EXTENDS Integers, Sequences

CONSTANTS
  Sizes,       \* of images, [w, h]
  Batches,     \* training sets learn may be called with: sequences of images
  MaxLearns,   \* bound: successful calls of ProbabilisticModel::learn
  MaxSamples   \* bound: parameter vectors the caller collects

\* cv::Mat: the rows of a view need not be continuous, a single row always is.
Images ==
  {image \in [size : Sizes, continuous : BOOLEAN] : image.size.h = 1 => image.continuous}

\* cv::Mat::reshape to one column: the number of rows changes unless it is one
\* column already, and may not if the image is not continuous.
Reshapes(image) == image.continuous \/ image.size.w = 1

ASSUME ModelAssumption ==
  /\ Sizes \subseteq [w : Nat \ {0}, h : Nat \ {0}]
  /\ Batches \subseteq Seq(Images)
  /\ {MaxLearns, MaxSamples} \subseteq Nat

None == [w |-> 0, h |-> 0]
Area(size) == size.w * size.h
Lesser(a, b) == IF a < b THEN a ELSE b

VARIABLES
  model,      \* size: imageWidth, imageHeight; comps: rows of the eigenvectors;
              \* shape: of the images they were learnt from, None if empty.
              \* History: batch, the number of the learn, and torn
  samples,    \* the caller's parameter vectors: length, and batch they are of
  svm,        \* length of its samples, 0 if untrained, and their batch
  modelFile, svmFile,   \* what was serialized, "missing" at first
  learns,
  call        \* the last call: op, outcome, the size it worked with and the image

modelVars == <<model, samples, svm, modelFile, svmFile, learns, call>>

Missing == [missing |-> TRUE]
NoImage == [size |-> None, continuous |-> TRUE]
Blank   == [size |-> None, shape |-> None, comps |-> 0, batch |-> 0, torn |-> FALSE]

\* A new model has no components, and dimensions nobody has initialised.  The
\* file may be missing, or hold nothing of a model.
ModelInit ==
  /\ model \in {[Blank EXCEPT !.size = size] : size \in Sizes \cup {None}}
  /\ samples = <<>> /\ svm = [length |-> 0, batch |-> 0]
  /\ modelFile \in {Missing, Blank} /\ svmFile = Missing
  /\ learns = 0 /\ call = [op |-> "new", outcome |-> "done", size |-> None, image |-> NoImage]

Answered(op, outcome, size, image) ==
  call' = [op |-> op, outcome |-> outcome, size |-> size, image |-> image]

Did(op, outcome, size) == Answered(op, outcome, size, NoImage)

RefuseImage(op, image) ==
  /\ Answered(op, "throws", None, image)
  /\ UNCHANGED <<model, samples, svm, modelFile, svmFile, learns>>

Refuse(op) == RefuseImage(op, NoImage)

-----------------------------------------------------------------------------
(* ProbabilisticModel::learn, for the images in batch.                     *)

LearnNothing(batch) == batch = <<>> /\ Refuse("learn")

\* An image is of another size than the first one, or cannot be reshaped: the
\* PCA is not reached any more.
Fits(image, batch) == image.size = batch[1].size /\ Reshapes(image)

LearnFails(batch) ==
  /\ \E i \in DOMAIN batch : ~Fits(batch[i], batch)
  /\ model' = [model EXCEPT !.size = batch[1].size, !.torn = TRUE]
  /\ Did("learn", "throws", None)
  /\ UNCHANGED <<samples, svm, modelFile, svmFile, learns>>

\* Mutant: the size is set once and for all.
SizeLearntFirst(batch) == IF learns = 0 THEN batch[1].size ELSE model.size

SizeLearnt(batch) == batch[1].size

Learn(batch) ==
  /\ learns < MaxLearns /\ batch # <<>>
  /\ \A i \in DOMAIN batch : Fits(batch[i], batch)
  /\ model' = [size |-> SizeLearnt(batch), shape |-> batch[1].size,
               comps |-> Lesser(Len(batch), Area(batch[1].size)),
               batch |-> learns + 1, torn |-> FALSE]
  /\ learns' = learns + 1
  /\ Did("learn", "done", batch[1].size)
  /\ UNCHANGED <<samples, svm, modelFile, svmFile>>

-----------------------------------------------------------------------------
(* Using the model.                                                        *)

\* An image of other than the stored dimensions is resized into a new one; one
\* of just those dimensions is reshaped where it is.  cv::PCA::project checks
\* that there is a mean, and the length.
Projects(image) ==
  /\ image.size = model.size => Reshapes(image)
  /\ model.shape # None /\ Area(model.size) = Area(model.shape)

\* The caller may collect the parameters.
GetParams(image) ==
  /\ Projects(image)
  /\ \/ UNCHANGED samples
     \/ /\ Len(samples) < MaxSamples
        /\ samples' = Append(samples, [length |-> model.comps, batch |-> model.batch])
  /\ Answered("params", "done", model.size, image)
  /\ UNCHANGED <<model, svm, modelFile, svmFile, learns>>

GetParamsFails(image) == ~Projects(image) /\ RefuseImage("params", image)

\* backProject checks the length, and reshape that the height fits.
Generates(length) ==
  /\ model.shape # None /\ length = model.comps
  /\ Area(model.shape) % model.size.h = 0

Generate(length) ==
  /\ Generates(length)
  /\ Did("image", "done", [w |-> Area(model.shape) \div model.size.h, h |-> model.size.h])
  /\ UNCHANGED <<model, samples, svm, modelFile, svmFile, learns>>

GenerateFails(length) == ~Generates(length) /\ Refuse("image")

-----------------------------------------------------------------------------
(* The SVM.                                                                *)

\* The caller starts a new training set.
ForgetSamples ==
  /\ samples' = <<>>
  /\ Did("forget", "done", None)
  /\ UNCHANGED <<model, svm, modelFile, svmFile, learns>>

\* No samples, or not a label for each.
SvmLearnFails == Refuse("svm")

\* Mutant: the length is that of the model's parameters.
SampleLengthOfModel == model.comps

SampleLength == samples[1].length

\* As much is read of every sample as the first one is long.
Copied == IF \E i \in DOMAIN samples : samples[i].length < SampleLength
            THEN "overread" ELSE "done"

SvmLearn ==
  /\ samples # <<>>
  /\ svm' = [length |-> SampleLength, batch |-> samples[1].batch]
  /\ Did("svm", Copied, None)
  /\ UNCHANGED <<model, samples, modelFile, svmFile, learns>>

\* cv::SVM::train forgets what it knew before it finds that all labels are of
\* one class.  (Labels are not modelled: the samples may have any.)
TrainOneClass ==
  /\ samples # <<>>
  /\ svm' = [length |-> 0, batch |-> 0]
  /\ Did("svm", IF Copied = "overread" THEN "overread" ELSE "throws", None)
  /\ UNCHANGED <<model, samples, modelFile, svmFile, learns>>

\* classify(getParams(image)); predict checks that it is trained, and the length.
Classifies(image) == Projects(image) /\ svm.length # 0 /\ svm.length = model.comps

Classify(image) ==
  /\ Classifies(image)
  /\ Answered("classify", "done", model.size, image)
  /\ UNCHANGED <<model, samples, svm, modelFile, svmFile, learns>>

ClassifyFails(image) == ~Classifies(image) /\ RefuseImage("classify", image)

-----------------------------------------------------------------------------
(* Files.  A storage that is not open is refused; nodes that are missing    *)
(* read as nothing.                                                        *)

StorageNotOpened == Refuse("storage")

SerializeModel ==
  /\ modelFile' = model
  /\ Did("save", "done", None)
  /\ UNCHANGED <<model, samples, svm, svmFile, learns>>

\* Mutant: the dimensions are not read back.
LoadedComponents == [modelFile EXCEPT !.size = model.size]

Loaded == modelFile

DeserializeModel ==
  /\ modelFile # Missing
  /\ model' = Loaded
  /\ Did("load", "done", None)
  /\ UNCHANGED <<samples, svm, modelFile, svmFile, learns>>

SerializeSvm ==
  /\ svmFile' = svm
  /\ Did("save", "done", None)
  /\ UNCHANGED <<model, samples, svm, modelFile, learns>>

DeserializeSvm ==
  /\ svmFile # Missing
  /\ svm' = svmFile
  /\ Did("load", "done", None)
  /\ UNCHANGED <<model, samples, modelFile, svmFile, learns>>

ModelNext ==
  \/ \E batch \in Batches : LearnNothing(batch) \/ LearnFails(batch) \/ Learn(batch)
  \/ \E image \in Images : \/ GetParams(image) \/ GetParamsFails(image)
                           \/ Classify(image) \/ ClassifyFails(image)
  \/ \E length \in {model.comps, model.comps + 1} : Generate(length) \/ GenerateFails(length)
  \/ ForgetSamples \/ SvmLearn \/ TrainOneClass \/ SvmLearnFails
  \/ StorageNotOpened \/ SerializeModel \/ DeserializeModel
  \/ SerializeSvm \/ DeserializeSvm

ModelSpec == ModelInit /\ [][ModelNext]_modelVars

-----------------------------------------------------------------------------
\* A view whose rows are not continuous, of the very size of the model.
Refused == call.image.size = model.shape /\ ~Reshapes(call.image)

\* A model that was trained and is not torn answers in the shape it was trained
\* on, and generates images of that shape; and whether it takes an image depends
\* on nothing but the image: it refuses the views of its own size and no other,
\* through any history of failed and repeated learning, saving and loading.
WholeModelAnswers ==
  model.shape # None /\ ~model.torn =>
    /\ call.op \in {"params", "classify", "image"} /\ call.outcome = "done"
         => call.size = model.shape
    /\ call.op = "params" => (call.outcome = "throws" <=> Refused)

\* SVM::learn takes the length of all samples from the first.  It reads past
\* the end of one only if they come from different trainings of the model.
NoReadPastSample ==
  call.op = "svm" /\ call.outcome = "overread" =>
    \E i \in DOMAIN samples : samples[i].batch # samples[1].batch

\* A classifier accepts the parameters of the model it was trained with, for
\* every image the model takes, also after both have been through their files
\* and the classifier through trainings that failed.  (That a model and a classifier
\* belong together is checked nowhere; it is up to the caller.)
PairClassifies ==
  call.op = "classify" /\ svm.batch = model.batch /\ svm.batch # 0 /\ ~model.torn =>
    call.outcome = "done" \/ Refused

-----------------------------------------------------------------------------
(* Why they hold, for Training_proof.                                      *)

Model  == [size: Sizes \cup {None}, shape: Sizes \cup {None}, comps: Nat, batch: Nat,
           torn: BOOLEAN]
Vector == [length: Nat, batch: Nat]

ModelOK(m) ==
  /\ m \in Model
  /\ m.batch = 0 <=> m.shape = None
  /\ m.shape # None /\ ~m.torn => m.size = m.shape

\* All lengths that are about, in memory and in files, with their batch.
VectorOf(m) == [length |-> m.comps, batch |-> m.batch]

Vectors ==
  {VectorOf(model), svm} \cup {samples[i] : i \in DOMAIN samples}
    \cup {VectorOf(m) : m \in {modelFile} \ {Missing}} \cup ({svmFile} \ {Missing})

\* Parameters of one training are of one length, and those of none of length 0.
Consistent ==
  /\ Vectors \subseteq Vector
  /\ \A v \in Vectors : v.batch <= learns /\ (v.batch = 0 <=> v.length = 0)
  /\ \A v, u \in Vectors : v.batch = u.batch => v.length = u.length

=============================================================================
