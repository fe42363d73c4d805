---------------------------- MODULE TrackingRun ----------------------------
(***************************************************************************)
(* The control of ObjectTracker's video overload and of its cancellation.  *)
(* One thread runs the loop: read a frame, test stopRequest, process the   *)
(* frame, report progress.  cancel() stores into the atomic flag from other *)
(* threads, and from the progress callback (ProgressReporter).  The loop's *)
(* test and its reset of the flag are two operations, so that a cancel()   *)
(* can fall between them.                                                  *)
(***************************************************************************)
EXTENDS Integers

CONSTANTS
  Lengths,     \* what CV_CAP_PROP_FRAME_COUNT may report for a source
  CancelAt,    \* ProgressReporter cancels from this percentage on
  MaxCounter,  \* bound: frameCounter stays here on the rest of a longer video
  MaxCalls,    \* bound: calls of the video overload
  MaxCancels   \* bound: calls of cancel() from other threads

ASSUME RunAssumption ==
  /\ Lengths \subseteq Nat
  /\ CancelAt \in Nat
  /\ MaxCounter \in Nat \ {0}
  /\ MaxCalls \in Nat
  /\ MaxCancels \in Nat

VARIABLES
  stopRequest,   \* the atomic flag
  runPc,         \* where the tracking thread is
  len, frameCounter, percent,   \* locals of the video overload
  progress,      \* the call's callback: "none", "print" or "reporter"
  calls, cancels,
  \* History of the current call, and of the exceptions of all calls.
  asked,         \* cancel() has been called since the call began
  overrun,       \* frames that were finished after that, counted to two
  throws         \* ComputationCanceled exceptions

call    == <<len, frameCounter, percent, progress>>
history == <<asked, overrun, throws>>
runVars == <<stopRequest, runPc, call, calls, cancels, history>>

\* Counting n on, but not past the bound of the counter.
UpTo(n, bound) == IF n < bound THEN n + 1 ELSE n

Running == runPc \notin {"idle", "threw", "died"}

RunTypeOK ==
  /\ stopRequest \in BOOLEAN
  /\ runPc \in {"idle", "read", "load", "reset", "frame", "report", "callback",
             "threw", "died"}
  /\ len \in Lengths \cup {0}
  /\ frameCounter \in 1..MaxCounter
  /\ percent \in Nat
  /\ progress \in {"none", "print", "reporter"}
  /\ calls \in 0..MaxCalls
  /\ cancels \in 0..MaxCalls + MaxCancels
  /\ asked \in BOOLEAN
  /\ overrun \in 0..2
  /\ throws \in 0..calls

RunInit ==
  /\ stopRequest = FALSE /\ runPc = "idle"
  /\ len = 0 /\ frameCounter = 1 /\ percent = 0 /\ progress = "none"
  /\ calls = 0 /\ cancels = 0
  /\ asked = FALSE /\ overrun = 0 /\ throws = 0

\* A store by any thread, the tracking thread included.  More cancels than
\* there can be exceptions need not be counted.
RequestStop ==
  /\ stopRequest' = TRUE
  /\ cancels' = UpTo(cancels, MaxCalls + MaxCancels)
  /\ asked' = (asked \/ Running)

Cancel ==
  /\ cancels < MaxCancels
  /\ RequestStop
  /\ UNCHANGED <<runPc, call, calls, overrun, throws>>

-----------------------------------------------------------------------------
(* The tracking thread.                                                    *)

StartCall ==
  /\ runPc \in {"idle", "threw"} /\ calls < MaxCalls
  /\ calls' = calls + 1
  /\ len' \in Lengths
  /\ progress' \in {"none", "print", "reporter"}
  /\ frameCounter' = 1 /\ percent' = 0
  /\ asked' = FALSE /\ overrun' = 0
  /\ runPc' = "read"
  /\ UNCHANGED <<stopRequest, cancels, throws>>

\* source.read() yields a frame, for ever if the source is a camera.
ReadFrame ==
  /\ runPc = "read" /\ runPc' = "load"
  /\ UNCHANGED <<stopRequest, call, calls, cancels, history>>

EndOfVideo ==
  /\ runPc = "read" /\ runPc' = "idle"
  /\ UNCHANGED <<stopRequest, call, calls, cancels, history>>

\* Mutant: only the first frame of a call tests the request.
TestOnlyFirst ==
  /\ runPc = "load"
  /\ runPc' = IF stopRequest /\ frameCounter = 1 THEN "reset" ELSE "frame"
  /\ UNCHANGED <<stopRequest, call, calls, cancels, history>>

\* Mutant: the first frame of a call does not test it.
TestAfterFirst ==
  /\ runPc = "load"
  /\ runPc' = IF stopRequest /\ frameCounter > 1 THEN "reset" ELSE "frame"
  /\ UNCHANGED <<stopRequest, call, calls, cancels, history>>

TestStopRequest ==
  /\ runPc = "load"
  /\ runPc' = IF stopRequest THEN "reset" ELSE "frame"
  /\ UNCHANGED <<stopRequest, call, calls, cancels, history>>

\* Mutant: the request stays set.
ThrowOnly ==
  /\ runPc = "reset"
  /\ stopRequest' = stopRequest
  /\ throws' = throws + 1
  /\ runPc' = "threw"
  /\ UNCHANGED <<call, calls, cancels, asked, overrun>>

ResetAndThrow ==
  /\ runPc = "reset"
  /\ stopRequest' = FALSE
  /\ throws' = throws + 1
  /\ runPc' = "threw"
  /\ UNCHANGED <<call, calls, cancels, asked, overrun>>

NextFrame == frameCounter' = UpTo(frameCounter, MaxCounter)

\* Mutant: the request is dropped when the frame it arrived in is finished.
ProcessFrameAndForget ==
  /\ runPc = "frame"
  /\ overrun' = IF asked THEN UpTo(overrun, 2) ELSE overrun
  /\ IF progress = "none" THEN runPc' = "read" /\ NextFrame
                          ELSE runPc' = "report" /\ UNCHANGED frameCounter
  /\ stopRequest' = FALSE
  /\ UNCHANGED <<len, percent, progress, calls, cancels, asked, throws>>

ProcessFrame ==
  /\ runPc = "frame"
  /\ overrun' = IF asked THEN UpTo(overrun, 2) ELSE overrun
  /\ IF progress = "none" THEN runPc' = "read" /\ NextFrame
                          ELSE runPc' = "report" /\ UNCHANGED frameCounter
  /\ UNCHANGED <<stopRequest, len, percent, progress, calls, cancels, asked,
                 throws>>

\* frameCounter * 100 / len, an integer division that traps when the source
\* does not know its length.
Report ==
  /\ runPc = "report"
  /\ IF len = 0 THEN runPc' = "died" /\ UNCHANGED percent
                ELSE runPc' = "callback" /\ percent' = (frameCounter * 100) \div len
  /\ UNCHANGED <<stopRequest, len, frameCounter, progress, calls, cancels, history>>

\* The callback, and frameCounter++.
Callback ==
  /\ runPc = "callback"
  /\ IF progress = "reporter" /\ percent >= CancelAt
       THEN RequestStop
       ELSE UNCHANGED <<stopRequest, cancels, asked>>
  /\ NextFrame
  /\ runPc' = "read"
  /\ UNCHANGED <<len, percent, progress, calls, overrun, throws>>

Track ==
  \/ ReadFrame \/ EndOfVideo \/ TestStopRequest \/ ResetAndThrow
  \/ ProcessFrame \/ Report \/ Callback

RunNext == Cancel \/ StartCall \/ Track

\* The tracking thread runs as long as a call is under way.
RunSpec == RunInit /\ [][RunNext]_runVars /\ WF_runVars(Track)

-----------------------------------------------------------------------------
\* A call that is asked to stop does stop, even on an endless source, wherever
\* the request falls in the loop and however often it is repeated.
CancelEndsCall == (Running /\ asked) ~> ~Running

\* It finishes at most the frame it is working on.
OneMoreFrameAtMost == overrun <= 1

\* Every ComputationCanceled answers a cancel() of its own: no request stops
\* two calls.
ThrowsAnswerCancels == throws <= cancels

\* A call that nobody asked to stop can still be cancelled, by a request that
\* came too late for the call before it or between two calls; but only at its
\* first frame.
StaleCancelHitsFirstFrame ==
  runPc = "threw" /\ ~asked => frameCounter = 1

-----------------------------------------------------------------------------
(* Why the three invariants hold, for TrackingRun_proof.                   *)

\* A request stays until the call that tests it throws, and each throw leaves
\* the call.
RequestKept ==
  /\ runPc = "reset" => stopRequest
  /\ Running /\ asked => stopRequest
  /\ Running => throws < calls
  /\ throws + (IF stopRequest THEN 1 ELSE 0) <= cancels

\* So no second frame is begun after a request.
FrameUntouched == runPc = "frame" => overrun = 0

OverrunAsked == Running /\ overrun > 0 => asked

\* A request nobody made of this call was there before its first frame.
StaleIsEarly ==
  Running /\ stopRequest /\ ~asked =>
    frameCounter = 1 /\ runPc \in {"read", "load", "reset"}

RunInv ==
  /\ RunTypeOK /\ RequestKept /\ FrameUntouched /\ OverrunAsked /\ StaleIsEarly
  /\ OneMoreFrameAtMost /\ ThrowsAnswerCancels /\ StaleCancelHitsFirstFrame

=============================================================================
