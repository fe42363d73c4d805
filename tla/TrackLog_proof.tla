--------------------------- MODULE TrackLog_proof ---------------------------
(***************************************************************************)
(* That reports are unbroken follows from EndFrame's guard alone, for any  *)
(* length of video and any number of ids.                                  *)
(***************************************************************************)
EXTENDS TrackLog, TLAPS

LEMMA LogInitInv ==
  ASSUME LogBounds, LogInit
  PROVE  LogInv
<1> USE DEF LogBounds
<1>1. LogTypeOK
  BY DEF LogInit, LogTypeOK
<1>2. Unbroken /\ LiveIsCurrent /\ NothingAhead
  BY DEF LogInit, Unbroken, LiveIsCurrent, NothingAhead
<1> QED BY <1>1, <1>2 DEF LogInv

\* An id that is live, or new, may be added to the frame being worked on.
LEMMA LogReportInv ==
  ASSUME LogBounds, LogInv, NEW id \in live, Report(id)
  PROVE  LogInv'
<1> USE DEF LogInv, LogBounds
<1>1. LogTypeOK'
  BY DEF LogTypeOK, Report
<1>2. frame \in 1..MaxFrame /\ MaxFrame \in Nat
  BY DEF LogTypeOK, Report
<1>3. \A f \in 0..MaxFrame : log'[f] = IF f = frame THEN log[f] \cup {id} ELSE log[f]
  BY DEF LogTypeOK, Report
<1>4. Unbroken'
  <2> SUFFICES ASSUME NEW f \in 0..MaxFrame, NEW g \in 0..MaxFrame, NEW h \in 0..MaxFrame,
                      f < g, g < h, NEW x \in log'[f] \cap log'[h]
               PROVE  x \in log'[g]
    BY DEF Unbroken
  <2>1. CASE x \in log[f] /\ x \in log[h]
    BY <1>3, <2>1 DEF Unbroken
  <2>2. CASE x \notin log[h]
    <3>1. h = frame /\ x = id
      BY <1>3, <2>2
    <3>2. f < frame /\ f # frame /\ f \in 0..frame - 1
      BY <1>2, <3>1
    <3>3. x \in log[f]
      BY <1>3, <3>2
    <3>4. x \in log[frame - 1]
      BY <3>1, <3>3, <3>2 DEF LiveIsCurrent
    <3>5. CASE g = frame - 1
      BY <1>3, <3>4, <3>5
    <3>6. CASE g < frame - 1
      <4>1. frame - 1 \in 0..MaxFrame
        BY DEF LogTypeOK, Report
      <4>2. x \in log[g]
        BY <3>3, <3>4, <3>6, <4>1 DEF Unbroken
      <4> QED BY <1>3, <4>2
    <3> QED BY <3>1, <3>5, <3>6 DEF LogTypeOK
  <2>3. CASE x \notin log[f]
    <3>1. f = frame
      BY <1>3, <2>3
    <3>2. h > frame /\ h # frame
      BY <3>1
    <3>3. log[h] = {}
      BY <3>2 DEF NothingAhead
    <3>4. log'[h] = {}
      BY <1>3, <3>2, <3>3
    <3> QED BY <3>4
  <2> QED BY <2>1, <2>2, <2>3
<1>5. LiveIsCurrent'
  <2>1. \A f \in 0..frame - 1 : log'[f] = log[f]
    BY <1>3 DEF LogTypeOK, Report
  <2>2. frame - 1 \in 0..frame - 1
    BY DEF LogTypeOK
  <2> QED BY <2>1, <2>2 DEF LiveIsCurrent, Report
<1>6. NothingAhead'
  BY <1>3 DEF NothingAhead, Report, LogTypeOK
<1> QED BY <1>1, <1>4, <1>5, <1>6

LEMMA LogIssueInv ==
  ASSUME LogBounds, LogInv, Issue
  PROVE  LogInv'
<1> USE DEF LogInv, LogBounds
<1>1. LogTypeOK'
  <2>1. 0..issued - 1 \subseteq 0..issued' - 1 /\ issued \in 0..issued' - 1
    BY DEF LogTypeOK, Issue
  <2> QED BY <2>1 DEF LogTypeOK, Issue
<1>2. \A f \in 0..MaxFrame : log'[f] = IF f = frame THEN log[f] \cup {issued} ELSE log[f]
  BY DEF LogTypeOK, Issue
<1>3. \A f \in 0..MaxFrame : issued \notin log[f]
  BY DEF LogTypeOK
<1>4. Unbroken'
  <2> SUFFICES ASSUME NEW f \in 0..MaxFrame, NEW g \in 0..MaxFrame, NEW h \in 0..MaxFrame,
                      f < g, g < h, NEW x \in log'[f] \cap log'[h]
               PROVE  x \in log'[g]
    BY DEF Unbroken
  <2>1. f # frame \/ h # frame
    OBVIOUS
  <2>2. x # issued
    BY <1>2, <1>3, <2>1
  <2>3. x \in log[f] /\ x \in log[h]
    BY <1>2, <2>2
  <2> QED BY <1>2, <2>3 DEF Unbroken
<1>5. LiveIsCurrent'
  <2>1. \A f \in 0..frame - 1 : log'[f] = log[f]
    BY <1>2 DEF LogTypeOK, Issue
  <2>2. frame - 1 \in 0..frame - 1 /\ 0..frame - 1 \subseteq 0..MaxFrame
    BY DEF LogTypeOK
  <2> QED BY <1>3, <2>1, <2>2 DEF LiveIsCurrent, Issue
<1>6. NothingAhead'
  BY <1>2 DEF NothingAhead, Issue, LogTypeOK
<1> QED BY <1>1, <1>4, <1>5, <1>6

\* The guard of EndFrame makes every live id current again.
LEMMA LogEndFrameInv ==
  ASSUME LogBounds, LogInv, EndFrame
  PROVE  LogInv'
<1> USE DEF LogInv, LogBounds
<1>1. LogTypeOK'
  BY DEF LogTypeOK, EndFrame
<1>2. Unbroken'
  BY DEF Unbroken, EndFrame
<1>3. LiveIsCurrent'
  BY DEF LiveIsCurrent, EndFrame, LogTypeOK
<1>4. NothingAhead'
  BY DEF NothingAhead, EndFrame, LogTypeOK
<1> QED BY <1>1, <1>2, <1>3, <1>4

\* In every behaviour of TrackLog an object's reports are unbroken, and what
\* makes them so (LogInv) holds too: ObjectTracker's result inherits it.
THEOREM LogIsUnbroken ==
  ASSUME LogBounds
  PROVE  LogSpec => []LogInv
<1>1. LogInit => LogInv
  BY LogInitInv
<1>2. LogInv /\ [LogNext]_logVars => LogInv'
  <2> SUFFICES ASSUME LogInv, [LogNext]_logVars PROVE LogInv'
    OBVIOUS
  <2>1. CASE \E id \in live : Report(id)
    BY <2>1, LogReportInv
  <2>2. CASE Issue
    BY <2>2, LogIssueInv
  <2>3. CASE EndFrame
    BY <2>3, LogEndFrameInv
  <2>4. CASE UNCHANGED logVars
    BY <2>4 DEF logVars, LogInv, LogTypeOK, Unbroken, LiveIsCurrent, NothingAhead
  <2> QED BY <2>1, <2>2, <2>3, <2>4 DEF LogNext
<1> QED BY <1>1, <1>2, PTL DEF LogSpec
=============================================================================
