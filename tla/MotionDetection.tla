-------------------------- MODULE MotionDetection --------------------------
(***************************************************************************)
(* The program motionDetection: the user selects a detector, main builds   *)
(* it, and every frame of the video is shown to it.  Of the five detectors *)
(* these three keep state, or run loops, of their own.                     *)
(***************************************************************************)
EXTENDS MotionHistory, FlowGrid

VARIABLE selection

programVars == <<vars, gridVars, selection>>

\* The grid of a detector that was not selected plays no part.
NoGrid == sizes = CHOOSE s \in Rows \X Cols \X BlockSizes : TRUE

ProgramInit ==
  /\ Init /\ GridInit
  /\ selection \in {"Simple", "Gradient", "Optical flow"}
  /\ selection # "Optical flow" => NoGrid

Construct ==
  /\ \/ selection = "Simple" /\ ConstructSimple
     \/ selection = "Gradient" /\ ConstructGradient
  /\ UNCHANGED <<gridVars, selection>>

\* Every frame goes to the detector that was selected.
DetectByHistory ==
  /\ selection \in {"Simple", "Gradient"}
  /\ \E v \in Values : Detect(v)
  /\ UNCHANGED <<gridVars, selection>>

DetectByFlow ==
  /\ selection = "Optical flow" /\ GridNext
  /\ UNCHANGED <<vars, selection>>

ProgramNext == Construct \/ DetectByHistory \/ DetectByFlow

ProgramSpec == ProgramInit /\ [][ProgramNext]_programVars

=============================================================================
