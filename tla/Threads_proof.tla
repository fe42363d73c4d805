-------------------------- MODULE Threads_proof ---------------------------
(***************************************************************************)
(* The two places where threads share a variable.                          *)
(*                                                                         *)
(* Cancellation, for any number of calls, requests and frames.  All of it  *)
(* rests on the flag being cleared in one place only, by the call that has *)
(* just seen it set: a request cannot be lost between the test and the     *)
(* reset, nor serve twice.                                                 *)
(*                                                                         *)
(* Then the bounds on tearing in nirFace, for every height and any number  *)
(* of frames.  Everything follows from the shape of the buffer: rows above *)
(* the one being converted are of the current frame, the others of the one *)
(* before.                                                                 *)
(***************************************************************************)
EXTENDS TrackingRun, NirFace, TLAPS

LEMMA RunInitInv == RunInit => RunInv
<1> SUFFICES ASSUME RunInit PROVE RunInv
  OBVIOUS
<1>1. RunTypeOK
  <2>1. stopRequest \in BOOLEAN /\ asked \in BOOLEAN
    BY Zenon DEF RunInit
  <2>2. /\ frameCounter \in 1..MaxCounter /\ calls \in 0..MaxCalls
        /\ cancels \in 0..MaxCalls + MaxCancels /\ throws \in 0..calls
    BY RunAssumption DEF RunInit
  <2> QED BY <2>1, <2>2 DEF RunInit, RunTypeOK
<1>2. RequestKept /\ ThrowsAnswerCancels
  BY DEF RunInit, RequestKept, ThrowsAnswerCancels, Running
<1>3. FrameUntouched /\ OverrunAsked /\ StaleIsEarly
  BY DEF RunInit, FrameUntouched, OverrunAsked, StaleIsEarly, Running
<1>4. OneMoreFrameAtMost /\ StaleCancelHitsFirstFrame
  BY DEF RunInit, OneMoreFrameAtMost, StaleCancelHitsFirstFrame
<1> QED BY <1>1, <1>2, <1>3, <1>4 DEF RunInv

\* A percentage is a natural number.
LEMMA PercentType == ASSUME NEW n \in Nat, NEW d \in Nat \ {0} PROVE (n * 100) \div d \in Nat
OBVIOUS

\* A store of cancel() is counted, unless all exceptions there can be are
\* answered already.
LEMMA RequestStopInv ==
  ASSUME RunInv, RequestStop, throws' = throws,
         cancels < MaxCancels \/ Running, calls' = calls
  PROVE  /\ stopRequest' /\ asked' \in BOOLEAN
         /\ cancels' \in 0..MaxCalls + MaxCancels
         /\ throws + 1 <= cancels'
         /\ Running => asked'
<1> USE RunAssumption
<1>1. /\ throws \in 0..calls /\ calls \in 0..MaxCalls /\ cancels \in 0..MaxCalls + MaxCancels
      /\ throws <= cancels
  BY DEF RunInv, RunTypeOK, ThrowsAnswerCancels
<1>2. cancels < MaxCancels \/ throws < calls
  BY DEF RunInv, RequestKept
<1>3. cancels' = IF cancels < MaxCalls + MaxCancels THEN cancels + 1 ELSE cancels
  BY DEF RequestStop, UpTo
<1>4. cancels' \in 0..MaxCalls + MaxCancels /\ throws + 1 <= cancels'
  BY <1>1, <1>2, <1>3
<1>5. stopRequest' /\ asked' = (asked \/ Running)
  BY DEF RequestStop
<1>6. asked' \in BOOLEAN /\ (Running => asked')
  BY <1>5, Zenon
<1> QED BY <1>4, <1>5, <1>6

LEMMA CancelInv == ASSUME RunInv, Cancel PROVE RunInv'
<1>1. /\ stopRequest' /\ asked' \in BOOLEAN
      /\ cancels' \in 0..MaxCalls + MaxCancels
      /\ throws + 1 <= cancels'
      /\ Running => asked'
  BY RequestStopInv DEF Cancel
<1>2. UNCHANGED <<runPc, call, calls, overrun, throws>> /\ asked' = (asked \/ Running)
  BY DEF Cancel, RequestStop
<1>3. RunTypeOK'
  BY <1>1, <1>2 DEF RunInv, RunTypeOK, call, RequestStop, Cancel
<1>4. RequestKept' /\ ThrowsAnswerCancels'
  BY <1>1, <1>2 DEF RunInv, RunTypeOK, RequestKept, Running, ThrowsAnswerCancels, call
<1>5. FrameUntouched' /\ OverrunAsked' /\ StaleIsEarly'
  BY <1>1, <1>2 DEF RunInv, FrameUntouched, OverrunAsked, StaleIsEarly, Running
<1>6. OneMoreFrameAtMost' /\ StaleCancelHitsFirstFrame'
  BY <1>2 DEF RunInv, OneMoreFrameAtMost, StaleCancelHitsFirstFrame, call
<1> QED BY <1>3, <1>4, <1>5, <1>6 DEF RunInv

LEMMA StartCallInv == ASSUME RunInv, StartCall PROVE RunInv'
<1>1. /\ runPc' = "read" /\ calls' = calls + 1 /\ frameCounter' = 1 /\ percent' = 0
      /\ asked' = FALSE /\ overrun' = 0
      /\ UNCHANGED <<stopRequest, cancels, throws>>
  BY DEF StartCall
<1>2. RunTypeOK'
  <2>1. stopRequest' \in BOOLEAN /\ asked' \in BOOLEAN
    BY <1>1, Zenon DEF RunInv, RunTypeOK
  <2>2. /\ frameCounter' \in 1..MaxCounter /\ calls' \in 0..MaxCalls
        /\ cancels' \in 0..MaxCalls + MaxCancels /\ throws' \in 0..calls'
    BY <1>1, RunAssumption DEF StartCall, RunInv, RunTypeOK
  <2> QED BY <1>1, <2>1, <2>2 DEF StartCall, RunTypeOK
<1>3. RequestKept' /\ ThrowsAnswerCancels'
  BY <1>1 DEF RunInv, RunTypeOK, RequestKept, ThrowsAnswerCancels, Running
<1>4. FrameUntouched' /\ OverrunAsked' /\ StaleIsEarly'
  BY <1>1 DEF FrameUntouched, OverrunAsked, StaleIsEarly, Running
<1>5. OneMoreFrameAtMost' /\ StaleCancelHitsFirstFrame'
  BY <1>1 DEF OneMoreFrameAtMost, StaleCancelHitsFirstFrame
<1> QED BY <1>2, <1>3, <1>4, <1>5 DEF RunInv

\* Reading, and the test of the request.
LEMMA TestInv ==
  ASSUME RunInv, ReadFrame \/ EndOfVideo \/ TestStopRequest
  PROVE  RunInv'
BY DEF ReadFrame, EndOfVideo, TestStopRequest, call, history,
       RunInv, RunTypeOK, RequestKept, FrameUntouched, OverrunAsked, StaleIsEarly,
       OneMoreFrameAtMost, ThrowsAnswerCancels, StaleCancelHitsFirstFrame, Running

LEMMA ResetAndThrowInv == ASSUME RunInv, ResetAndThrow PROVE RunInv'
<1>1. /\ runPc = "reset" /\ Running /\ runPc' = "threw" /\ stopRequest' = FALSE
      /\ throws' = throws + 1
      /\ UNCHANGED <<len, frameCounter, percent, progress, calls, cancels, asked, overrun>>
  BY DEF ResetAndThrow, call, Running
<1>2. /\ stopRequest /\ throws + 1 <= cancels /\ throws < calls
      /\ throws \in 0..calls /\ calls \in Nat /\ cancels \in Nat
  BY <1>1, RunAssumption DEF RunInv, RunTypeOK, RequestKept
<1>3. RunTypeOK'
  <2>1. stopRequest' \in BOOLEAN /\ asked' \in BOOLEAN
    BY <1>1, Zenon DEF RunInv, RunTypeOK
  <2>2. throws' \in 0..calls'
    BY <1>1, <1>2
  <2> QED BY <1>1, <2>1, <2>2 DEF RunInv, RunTypeOK
<1>4. RequestKept' /\ ThrowsAnswerCancels'
  BY <1>1, <1>2 DEF RequestKept, ThrowsAnswerCancels, Running
<1>5. FrameUntouched' /\ OverrunAsked' /\ StaleIsEarly'
  BY <1>1 DEF FrameUntouched, OverrunAsked, StaleIsEarly, Running
<1>6. OneMoreFrameAtMost' /\ StaleCancelHitsFirstFrame'
  BY <1>1, <1>2 DEF RunInv, OneMoreFrameAtMost, StaleIsEarly, StaleCancelHitsFirstFrame
<1> QED BY <1>3, <1>4, <1>5, <1>6 DEF RunInv

\* The frame a request arrives in is finished, and it is the only one.
LEMMA ProcessFrameInv == ASSUME RunInv, ProcessFrame PROVE RunInv'
<1> USE RunAssumption
<1>1. /\ runPc = "frame" /\ overrun = 0 /\ frameCounter \in 1..MaxCounter /\ asked \in BOOLEAN
      /\ UNCHANGED <<stopRequest, len, percent, progress, calls, cancels, asked, throws>>
  BY DEF ProcessFrame, RunInv, RunTypeOK, FrameUntouched
<1>2. /\ runPc' \in {"read", "report"}
      /\ frameCounter' \in 1..MaxCounter
      /\ overrun' \in 0..1 /\ (overrun' > 0 => asked)
  BY <1>1 DEF ProcessFrame, NextFrame, UpTo
<1>3. stopRequest => asked
  BY <1>1 DEF RunInv, StaleIsEarly, Running
<1>4. RunTypeOK' /\ RequestKept' /\ ThrowsAnswerCancels'
  BY <1>1, <1>2 DEF RunInv, RunTypeOK, RequestKept, ThrowsAnswerCancels, Running
<1> QED BY <1>1, <1>2, <1>3, <1>4
    DEF RunInv, FrameUntouched, OverrunAsked, StaleIsEarly, OneMoreFrameAtMost,
        StaleCancelHitsFirstFrame, Running

LEMMA ReportInv == ASSUME RunInv, Report PROVE RunInv'
<1>1. /\ runPc = "report" /\ runPc' \in {"died", "callback"}
      /\ UNCHANGED <<stopRequest, len, frameCounter, progress, calls, cancels, history>>
  BY DEF Report
<1>2. percent' \in Nat
  <2>1. len \in Nat /\ frameCounter \in Nat /\ percent \in Nat
    BY RunAssumption DEF RunInv, RunTypeOK
  <2> QED BY <2>1, PercentType DEF Report
<1> QED BY <1>1, <1>2
    DEF history, RunInv, RunTypeOK, RequestKept, FrameUntouched, OverrunAsked, StaleIsEarly,
        OneMoreFrameAtMost, ThrowsAnswerCancels, StaleCancelHitsFirstFrame, Running

LEMMA CallbackInv == ASSUME RunInv, Callback PROVE RunInv'
<1> USE RunAssumption
<1>1. /\ runPc = "callback" /\ runPc' = "read" /\ Running
      /\ UNCHANGED <<len, percent, progress, calls, overrun, throws>>
      /\ frameCounter' \in 1..MaxCounter
  BY DEF Callback, NextFrame, UpTo, Running, RunInv, RunTypeOK
<1>2. stopRequest => asked
  BY <1>1 DEF RunInv, StaleIsEarly
<1>3. CASE RequestStop
  <2>1. /\ stopRequest' /\ asked' \in BOOLEAN /\ asked'
        /\ cancels' \in 0..MaxCalls + MaxCancels
        /\ throws + 1 <= cancels'
    BY <1>1, <1>3, RequestStopInv
  <2>2. RunTypeOK'
    BY <1>1, <1>3, <2>1 DEF RunInv, RunTypeOK, RequestStop
  <2>3. RequestKept' /\ ThrowsAnswerCancels'
    BY <1>1, <2>1 DEF RunInv, RunTypeOK, RequestKept, Running, ThrowsAnswerCancels
  <2> QED BY <1>1, <2>1, <2>2, <2>3
      DEF RunInv, FrameUntouched, OverrunAsked, StaleIsEarly, OneMoreFrameAtMost,
          StaleCancelHitsFirstFrame, Running
<1>4. CASE UNCHANGED <<stopRequest, cancels, asked>>
  BY <1>1, <1>2, <1>4
  DEF RunInv, RunTypeOK, RequestKept, FrameUntouched, OverrunAsked, StaleIsEarly,
      OneMoreFrameAtMost, ThrowsAnswerCancels, StaleCancelHitsFirstFrame, Running
<1> QED BY <1>3, <1>4 DEF Callback

LEMMA RunStep == RunInv /\ [RunNext]_runVars => RunInv'
<1> SUFFICES ASSUME RunInv, [RunNext]_runVars PROVE RunInv'
  OBVIOUS
<1>1. CASE UNCHANGED runVars
  BY <1>1 DEF runVars, call, history,
     RunInv, RunTypeOK, RequestKept, FrameUntouched, OverrunAsked, StaleIsEarly,
     OneMoreFrameAtMost, ThrowsAnswerCancels, StaleCancelHitsFirstFrame, Running
<1> QED BY <1>1, CancelInv, StartCallInv, TestInv, ResetAndThrowInv, ProcessFrameInv,
           ReportInv, CallbackInv DEF RunNext, Track

LEMMA RunHolds == RunSpec => []RunInv
BY RunInitInv, RunStep, PTL DEF RunSpec

\* A call that is asked to stop finishes the frame it is working on and no
\* other, wherever in the loop the request falls.
THEOREM StopsAfterThisFrame == RunSpec => [](RunTypeOK /\ OneMoreFrameAtMost)
<1>1. RunInv => RunTypeOK /\ OneMoreFrameAtMost
  BY DEF RunInv
<1> QED BY <1>1, RunHolds, PTL

\* There are never more ComputationCanceled exceptions than calls of cancel().
THEOREM EveryThrowWasAskedFor == RunSpec => []ThrowsAnswerCancels
<1>1. RunInv => ThrowsAnswerCancels
  BY DEF RunInv
<1> QED BY <1>1, RunHolds, PTL

\* A request left over from before the call cancels it at its first frame or
\* not at all.
THEOREM LateRequestIsEarly == RunSpec => []StaleCancelHitsFirstFrame
<1>1. RunInv => StaleCancelHitsFirstFrame
  BY DEF RunInv
<1> QED BY <1>1, RunHolds, PTL

-----------------------------------------------------------------------------
(* NirFace.                                                                *)

\* At the start everything is frame 0.
LEMMA NirInvInit == Init => NirInv
<1> SUFFICES ASSUME Init PROVE NirInv
  OBVIOUS
<1> USE NirFaceAssumption
<1>1. TypeOK
  BY DEF Init, TypeOK, Row, View
<1>2. BufferMixesTwo /\ ViewsBehind /\ CopiedFromTop
  BY DEF Init, BufferMixesTwo, ViewsBehind, CopiedFromTop, Returned, NewestWhole, Row, View
<1>3. ViewIsFresh /\ TearIsOneFrameDeep
  BY DEF Init, ViewIsFresh, TearIsOneFrameDeep, Row, View
<1> QED BY <1>1, <1>2, <1>3 DEF NirInv

\* Types are kept by every step.
LEMMA TypeStep == ASSUME NirInv, [Next]_vars PROVE TypeOK'
<1> USE NirFaceAssumption DEF TypeOK, Row, View, vars, listener, main
<1>a. TypeOK /\ (current > 0 \/ Returned)
  BY DEF NirInv, BufferMixesTwo
<1>b. NewestWhole \in Nat
  BY <1>a DEF NewestWhole
<1>1. CASE OnNewFrame
  <2>1. announced' = announced + 1 /\ announced < MaxFrames /\ current' = current + 1 /\ row' = 1
    BY <1>1 DEF OnNewFrame, Announced
  <2>2. announced' \in 0..MaxFrames /\ current' \in 0..announced' /\ row' \in 1..Height + 1
    BY <1>a, <2>1
  <2>3. UNCHANGED <<frame, main>>
    BY <1>1 DEF OnNewFrame
  <2> QED BY <1>a, <2>2, <2>3
<1>2. CASE OnNewFrameFails
  <2>1. announced' = announced + 1 /\ announced < MaxFrames
    BY <1>2 DEF OnNewFrameFails, Announced
  <2>2. UNCHANGED <<frame, current, row, main>>
    BY <1>2 DEF OnNewFrameFails
  <2>3. announced' \in 0..MaxFrames /\ current' \in 0..announced'
    BY <1>a, <2>1, <2>2
  <2> QED BY <1>a, <2>2, <2>3
<1>3. CASE ConvertRow
  <2>1. frame' \in [Row -> Nat]
    BY <1>a, <1>3 DEF ConvertRow, Converted
  <2>2. row' \in 1..Height + 1
    BY <1>a, <1>3 DEF ConvertRow
  <2>3. UNCHANGED <<announced, current, main>>
    BY <1>3 DEF ConvertRow
  <2> QED BY <1>a, <2>1, <2>2, <2>3
<1>4. CASE Key
  BY <1>a, <1>b, <1>4 DEF Key, Begin
<1>5. CASE \E r \in Row : ReadRow(r)
  <2>1. PICK r \in Row : ReadRow(r)
    BY <1>5
  <2>2. frame[r] \in Nat /\ r \in unread
    BY <1>a, <2>1 DEF ReadRow, MayRead
  <2> QED BY <1>a, <2>1, <2>2 DEF ReadRow
<1>6. CASE ViewDone
  BY <1>a, <1>b, <1>6 DEF ViewDone, Begin, After
<1>7. CASE Escape
  BY <1>a, <1>7 DEF Escape
<1>8. CASE UNCHANGED vars
  BY <1>a, <1>8
<1> QED BY <1>1, <1>2, <1>3, <1>4, <1>5, <1>6, <1>7, <1>8 DEF Next, MainStep

\* The buffer keeps its shape: a conversion runs through all rows before the
\* next one is begun.
LEMMA BufferStep ==
  ASSUME NirInv, [Next]_vars
  PROVE  /\ BufferMixesTwo'
         /\ current' >= current
         /\ NewestWhole' >= NewestWhole
         /\ \A r \in Row : frame[r] \in Nat /\ frame[r] >= NewestWhole /\ frame[r] <= current
<1> USE NirFaceAssumption
<1>1. TypeOK /\ BufferMixesTwo
  BY DEF NirInv
<1>2. \A r \in Row : frame[r] \in Nat /\ frame[r] >= NewestWhole /\ frame[r] <= current
  BY <1>1 DEF TypeOK, BufferMixesTwo, NewestWhole, Returned, Row
<1>3. CASE OnNewFrame
  BY <1>1, <1>2, <1>3 DEF OnNewFrame, Announced, Returned, TypeOK, BufferMixesTwo,
     NewestWhole, Row
<1>4. CASE ConvertRow
  BY <1>1, <1>2, <1>4 DEF ConvertRow, Converted, Returned, TypeOK, BufferMixesTwo,
     NewestWhole, Row
<1>5. CASE UNCHANGED <<frame, current, row>>
  BY <1>1, <1>2, <1>5 DEF Returned, TypeOK, BufferMixesTwo, NewestWhole
<1>6. OnNewFrame \/ ConvertRow \/ UNCHANGED <<frame, current, row>>
  BY DEF Next, MainStep, OnNewFrameFails, Key, ReadRow, ViewDone, Escape, vars, listener
<1> QED BY <1>2, <1>3, <1>4, <1>5, <1>6

\* What the main thread does to the views is one of three things.
LEMMA MainCases ==
  ASSUME [Next]_vars
  PROVE  \/ /\ UNCHANGED <<views, unread, complete>>
            /\ pc' = pc \/ (pc = "key" /\ pc' = "stopped")
         \/ \E view \in View \cup {"key"} :
              /\ Begin(view)
              /\ pc = "shown" => unread = {}
              /\ UNCHANGED <<listener, views>>
         \/ \E r \in Row : ReadRow(r)
<1>1. CASE OnNewFrame \/ OnNewFrameFails \/ ConvertRow \/ Escape \/ UNCHANGED vars
  BY <1>1 DEF OnNewFrame, OnNewFrameFails, ConvertRow, Escape, vars, main
<1>2. CASE Key
  <2>1. Begin("eq") /\ pc = "key" /\ UNCHANGED <<listener, views>>
    BY <1>2 DEF Key
  <2>2. "eq" \in View \cup {"key"}
    BY DEF View
  <2> QED BY <2>1, <2>2
<1>3. CASE ViewDone
  <2>1. Begin(After(pc)) /\ unread = {} /\ UNCHANGED <<listener, views>>
    BY <1>3 DEF ViewDone
  <2>2. After(pc) \in View \cup {"key"}
    BY <1>3 DEF ViewDone, After, View
  <2> QED BY <2>1, <2>2
<1>4. CASE \E r \in Row : ReadRow(r)
  BY <1>4
<1> QED BY <1>1, <1>2, <1>3, <1>4 DEF Next, MainStep

\* A step of the other thread, the start of a view, and one row of it.
LEMMA ViewsStep ==
  ASSUME NirInv, [Next]_vars, TypeOK'
  PROVE  ViewsBehind' /\ CopiedFromTop' /\ ViewIsFresh' /\ TearIsOneFrameDeep'
<1> USE NirFaceAssumption
<1>1. TypeOK /\ ViewsBehind /\ CopiedFromTop /\ ViewIsFresh /\ TearIsOneFrameDeep
  BY DEF NirInv
<1>2. /\ current' >= current /\ NewestWhole' >= NewestWhole
      /\ \A r \in Row : frame[r] \in Nat /\ frame[r] >= NewestWhole /\ frame[r] <= current
  BY BufferStep
<1>3. /\ current \in Nat /\ current' \in Nat /\ complete \in Nat
      /\ NewestWhole \in Int /\ NewestWhole' \in Int
      /\ \A v \in View, r \in Row : views[v][r] \in Nat
  BY <1>1 DEF TypeOK, NewestWhole
<1>4. CASE /\ UNCHANGED <<views, unread, complete>>
           /\ pc' = pc \/ (pc = "key" /\ pc' = "stopped")
  <2>1. ViewsBehind'
    BY <1>1, <1>2, <1>3, <1>4 DEF ViewsBehind
  <2>2. CopiedFromTop'
    BY <1>1, <1>4 DEF CopiedFromTop
  <2>3. ViewIsFresh'
    BY <1>1, <1>4 DEF ViewIsFresh, View
  <2>4. TearIsOneFrameDeep'
    BY <1>1, <1>4 DEF TearIsOneFrameDeep
  <2> QED BY <2>1, <2>2, <2>3, <2>4
<1>5. ASSUME NEW view \in View \cup {"key"}, Begin(view), pc = "shown" => unread = {},
             UNCHANGED <<listener, views>>
      PROVE  ViewsBehind' /\ CopiedFromTop' /\ ViewIsFresh' /\ TearIsOneFrameDeep'
  <2>1. /\ pc' = view /\ complete' = NewestWhole /\ NewestWhole' = NewestWhole
        /\ view # "key" => unread' = Row
        /\ current' = current /\ views' = views
    BY <1>5 DEF Begin, NewestWhole, Returned, listener
  <2>2. ViewsBehind'
    BY <1>1, <1>3, <2>1 DEF ViewsBehind
  <2>3. CopiedFromTop' /\ ViewIsFresh'
    BY <2>1 DEF CopiedFromTop, ViewIsFresh, View
  <2>4. TearIsOneFrameDeep'
    <3>1. \A r, s \in Row : r < s => views["shown"][s] >= views["shown"][r] - 1
      BY <1>1, <1>5 DEF TearIsOneFrameDeep
    <3> QED BY <2>1, <3>1 DEF TearIsOneFrameDeep
  <2> QED BY <2>2, <2>3, <2>4
<1>6. ASSUME NEW r \in Row, ReadRow(r)
      PROVE  ViewsBehind' /\ CopiedFromTop' /\ ViewIsFresh' /\ TearIsOneFrameDeep'
  <2>1. /\ pc \in View /\ pc' = pc /\ r \in unread /\ unread' = unread \ {r}
        /\ pc = "shown" => \A s \in unread : r <= s
        /\ complete' = complete /\ current' = current /\ NewestWhole' = NewestWhole
    BY <1>6 DEF ReadRow, MayRead, listener, NewestWhole, Returned
  <2>2. \A v \in View, s \in Row :
          views'[v][s] = IF v = pc /\ s = r THEN frame[r] ELSE views[v][s]
    BY <1>1, <1>6, <2>1 DEF ReadRow, TypeOK
  <2>3. unread \subseteq Row /\ Row \subseteq Int
    BY <1>1 DEF TypeOK, Row
  <2>4. ViewsBehind'
    BY <1>1, <1>2, <1>3, <2>1, <2>2 DEF ViewsBehind
  <2>5. CopiedFromTop'
    BY <1>1, <2>1, <2>3 DEF CopiedFromTop
  <2>6. frame[r] >= complete
    BY <1>1, <1>2, <1>3 DEF ViewsBehind
  <2>7. ViewIsFresh'
    BY <1>1, <2>1, <2>2, <2>6 DEF ViewIsFresh
  <2>8. TearIsOneFrameDeep'
    <3>1. CASE pc = "shown"
      <4>1. \A s \in Row \ unread : s < r
        BY <1>1, <2>1, <3>1 DEF CopiedFromTop
      <4>2. \A s \in Row : frame[r] >= views["shown"][s] - 1
        <5>1. frame[r] >= current - 1
          BY <1>1, <1>2, <1>3 DEF NewestWhole, TypeOK
        <5> QED BY <1>1, <1>2, <1>3, <5>1 DEF ViewsBehind, View
      <4>3. Row \ unread' = (Row \ unread) \cup {r}
        BY <2>1, <2>3
      <4>4. \A p, q \in Row \ unread : p < q => views["shown"][q] >= views["shown"][p] - 1
        BY <1>1, <3>1 DEF TearIsOneFrameDeep
      <4>5. \A s \in Row : views'["shown"][s] = IF s = r THEN frame[r] ELSE views["shown"][s]
        BY <2>2, <3>1 DEF View
      <4>6. ASSUME NEW p \in Row \ unread', NEW q \in Row \ unread', p < q
            PROVE  views'["shown"][q] >= views'["shown"][p] - 1
        <5>1. p # r
          BY <2>3, <4>1, <4>3, <4>6
        <5>2. CASE q = r
          BY <4>2, <4>5, <5>1, <5>2
        <5>3. CASE q # r
          BY <4>3, <4>4, <4>5, <4>6, <5>1, <5>3
        <5> QED BY <5>2, <5>3
      <4>7. pc' = "shown"
        BY <2>1, <3>1
      <4>8. \A p, q \in Row \ unread' : p < q => views'["shown"][q] >= views'["shown"][p] - 1
        BY <4>6
      <4> QED BY <4>7, <4>8 DEF TearIsOneFrameDeep
    <3>2. CASE pc # "shown"
      <4>1. \A s \in Row : views'["shown"][s] = views["shown"][s]
        BY <2>2, <3>2 DEF View
      <4>2. \A p, q \in Row : p < q => views["shown"][q] >= views["shown"][p] - 1
        BY <1>1, <3>2 DEF TearIsOneFrameDeep
      <4>3. \A p, q \in Row : p < q => views'["shown"][q] >= views'["shown"][p] - 1
        BY <4>1, <4>2
      <4>4. pc' # "shown"
        BY <2>1, <3>2
      <4> QED BY <4>3, <4>4 DEF TearIsOneFrameDeep
    <3> QED BY <3>1, <3>2
  <2> QED BY <2>4, <2>5, <2>7, <2>8
<1> QED BY <1>4, <1>5, <1>6, MainCases

\* Every step keeps the invariant.
LEMMA NirStep == NirInv /\ [Next]_vars => NirInv'
<1> SUFFICES ASSUME NirInv, [Next]_vars PROVE NirInv'
  OBVIOUS
<1>1. TypeOK'
  BY TypeStep
<1> QED BY <1>1, BufferStep, ViewsStep DEF NirInv

\* No row of a view is older than the frame that was whole when the view was
\* begun: onNewFrame and the loop of main, unsynchronised, at any relative
\* speed.
THEOREM ViewsAreFresh == Spec => [](TypeOK /\ ViewIsFresh)
<1>1. NirInv => TypeOK /\ ViewIsFresh
  BY DEF NirInv
<1> QED BY <1>1, NirInvInit, NirStep, PTL DEF Spec

\* What the window shows falls back by at most one frame from a row to a lower
\* one, for every height and number of frames.
THEOREM TearingIsBounded == Spec => []TearIsOneFrameDeep
<1>1. NirInv => TearIsOneFrameDeep
  BY DEF NirInv
<1> QED BY <1>1, NirInvInit, NirStep, PTL DEF Spec
=============================================================================
