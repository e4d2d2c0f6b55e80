------------------------- MODULE RsrpMonitorProofs -------------------------
(***************************************************************************)
(* Theorems of RsrpMonitor, for every set of levels, thresholds and limits *)
(* that RsrpAssumption allows: its types, that an open question is being   *)
(* worked on, that it implements RsrpPromise however its handler is        *)
(* overtaken, and that its answers follow the samples it was given.        *)
(***************************************************************************)
EXTENDS RsrpMonitor, SequenceTheorems, WellFoundedInduction, TLAPS

-----------------------------------------------------------------------------
(***************************************************************************)
(* The inductive invariant.                                                *)
(***************************************************************************)

Asking == {"MONITOR", "PROBE"}

(* What may be left of the call that asks for m.                           *)
LeftOf(m) ==
    CASE m = "IDLE"  -> {<<"mode", "reset", "cancel">>, <<"reset", "cancel">>, <<"cancel">>}
      [] m = "PROBE" -> {<<"reset", "mode", "schedule">>, <<"mode", "schedule">>,
                         <<"schedule">>}
      [] OTHER       -> {<<"mode", "reset", "schedule">>, <<"reset", "schedule">>,
                         <<"schedule">>}

Called == call.left # <<>>

(* The call under way has not reached reset_signal_tracking(), and so the  *)
(* question is still the one before.                                       *)
OldQuestion == Len(call.left) = 3 \/ (Len(call.left) = 2 /\ call.to # "PROBE")

NewQuestion == Called /\ ~OldQuestion

CallUnderWay == call = NoCall \/ (call.to \in Question /\ call.left \in LeftOf(call.to))

(* Who is asked, and by whom.                                              *)
QuestionOfCall ==
    /\ NewQuestion => asked = call.to /\ answer = "none"
    /\ OldQuestion /\ call.to = "MONITOR" => asked \in {"IDLE", "PROBE"}

(* The handler a call may find in flight.                                  *)
HandlerOfCall ==
    /\ Called /\ call.to = "PROBE" => running \notin Asking
    /\ Called /\ call.to = "MONITOR" => running # "PROBE"

(* A handler in flight that reads LTE-M for a question that has been       *)
(* replaced finds the tracking cleared: the sample it takes is the first.  *)
OvertakenSeesNothing ==
    running \in Asking =>
        /\ answer = "none"
        /\ running # asked \/ NewQuestion => tracking = Cleared

(* The mode that is set is that of the question, unless it was answered.   *)
ModeOfQuestion ==
    /\ ~Called => /\ mode \in {asked, "IDLE"}
                  /\ answer # "none" => mode = "IDLE"
                  /\ asked \in Asking /\ answer = "none" => mode = asked
    /\ Called /\ call.to \in {"IDLE", "NTN_MONITOR"} /\ Len(call.left) < 3 =>
           mode \in {call.to, "IDLE"}
    /\ call.to = "MONITOR" /\ Len(call.left) \in 1..2 => mode = "MONITOR"
    /\ call.to = "PROBE" /\ Len(call.left) = 1 => mode = "PROBE"

(* The work of an open question is on its way.                             *)
WorkOfQuestion ==
    /\ work.canceling => running # "IDLE"
    /\ ~Called /\ asked \in Asking /\ answer = "none" =>
           work.delayed \/ work.queued \/ running # "IDLE"

Inv ==
    /\ TypeOK /\ CallUnderWay /\ QuestionOfCall /\ HandlerOfCall
    /\ OvertakenSeesNothing /\ ModeOfQuestion /\ WorkOfQuestion

-----------------------------------------------------------------------------
(***************************************************************************)
(* Sequences.                                                              *)
(***************************************************************************)

(* Element i of the last n is the one n - i before the end.                *)
LEMMA LastOfAt ==
    ASSUME NEW S, NEW s \in Seq(S), NEW n \in Nat, n <= Len(s)
    PROVE  /\ LastOf(s, n) \in Seq(S) /\ Len(LastOf(s, n)) = n
           /\ \A i \in 1..n : /\ LastOf(s, n)[i] = s[Len(s) - n + i]
                              /\ Len(s) - n + i \in 1..Len(s)
<1> DEFINE m == Len(s) - n + 1
<1>1. m \in 1..(Len(s) + 1) /\ Len(s) \in Nat
  OBVIOUS
<1>2. \A i \in m..Len(s) : s[i] \in S
  BY <1>1
<1>3. SubSeq(s, m, Len(s)) \in Seq(S)
  BY <1>1, <1>2, SubSeqProperties
<1>4. Len(SubSeq(s, m, Len(s))) = n
  BY <1>1, SubSeqProperties
<1>5. \A i \in 1..n : SubSeq(s, m, Len(s))[i] = s[m + i - 1]
  BY <1>1, <1>4, SubSeqProperties
<1>6. \A i \in 1..n : m + i - 1 = Len(s) - n + i /\ Len(s) - n + i \in 1..Len(s)
  BY <1>1
<1>7. QED
  BY <1>3, <1>4, <1>5, <1>6 DEF LastOf

(* The last n elements of a sequence.                                      *)
LEMMA LastOfType ==
    ASSUME NEW S, NEW s \in Seq(S), NEW n \in Nat, n <= Len(s)
    PROVE  LastOf(s, n) \in [1..n -> S]
<1>1. LastOf(s, n) \in Seq(S) /\ Len(LastOf(s, n)) = n
  BY LastOfAt
<1>2. QED
  BY <1>1, LenProperties

(* A history with one more sample: within the limit, and of levels.        *)
LEMMA HistoryGrows ==
    ASSUME NEW k \in 0..HistoryLen, NEW h \in [1..k -> Levels], NEW d \in Levels
    PROVE  /\ LastOf(Append(h, d), Min2(Len(h) + 1, HistoryLen))
                  \in UNION {[1..n -> Levels] : n \in 0..HistoryLen}
           /\ Len(LastOf(Append(h, d), Min2(Len(h) + 1, HistoryLen))) <= Len(h) + 1
<1> USE RsrpAssumption
<1>1. h \in Seq(Levels) /\ Len(h) = k
  OBVIOUS
<1>2. Append(h, d) \in Seq(Levels) /\ Len(Append(h, d)) = k + 1
  BY <1>1
<1> DEFINE n == Min2(Len(h) + 1, HistoryLen)
<1>3. n \in 0..HistoryLen /\ n <= k + 1
  BY <1>1 DEF Min2
<1>3a. n \in Nat /\ n <= Len(Append(h, d))
  BY <1>2, <1>3
<1> HIDE DEF n
<1>4. LastOf(Append(h, d), n) \in [1..n -> Levels]
  BY <1>2, <1>3a, LastOfType
<1>5. LastOf(Append(h, d), n) \in UNION {[1..i -> Levels] : i \in 0..HistoryLen}
  BY <1>3, <1>4
<1>6. Len(LastOf(Append(h, d), n)) = n
  BY <1>3, <1>4
<1>7. QED
  BY <1>1, <1>3, <1>5, <1>6 DEF n

-----------------------------------------------------------------------------
(***************************************************************************)
(* The parts of a step.                                                    *)
(***************************************************************************)

(* The tracking with one more sample of a level.                           *)
LEMMA AddSampleType ==
    ASSUME NEW t \in Tracking, NEW d \in Levels
    PROVE  /\ AddSample(t, d) \in Tracking
           /\ Len(AddSample(t, d).history) <= Len(t.history) + 1
<1>1. PICK k \in 0..HistoryLen : t.history \in [1..k -> Levels]
  BY DEF Tracking
<1> DEFINE h == LastOf(Append(t.history, d), Min2(Len(t.history) + 1, HistoryLen))
<1>2. /\ h \in UNION {[1..n -> Levels] : n \in 0..HistoryLen}
      /\ Len(h) <= Len(t.history) + 1
  BY <1>1, HistoryGrows
<1>3. AddSample(t, d) = [t EXCEPT !.unavailable = 0, !.history = h]
  BY DEF AddSample
<1> HIDE DEF h
<1>4. 0 \in 0..LossSamples
  BY RsrpAssumption
<1>5. QED
  BY <1>2, <1>3, <1>4 DEF Tracking

(* ...and with the row of weak ones counted.                               *)
LEMMA TrackedType ==
    ASSUME NEW t \in Tracking, NEW d \in Levels
    PROVE  Tracked(t, d) \in Tracking
<1>1. AddSample(t, d) \in Tracking
  BY AddSampleType
<1>2. \A w \in 0..WeakSamples : Min2(w + 1, WeakSamples) \in 0..WeakSamples
  BY RsrpAssumption DEF Min2
<1>3. 0 \in 0..WeakSamples
  BY RsrpAssumption
<1>4. QED
  BY <1>1, <1>2, <1>3 DEF Tracked, Tracking

LEMMA UnavailableType ==
    ASSUME NEW t \in Tracking
    PROVE  RecordUnavailable(t) \in Tracking
<1>1. \A u \in 0..LossSamples : Min2(u + 1, LossSamples) \in 0..LossSamples
  BY RsrpAssumption DEF Min2
<1>2. 0 \in 0..WeakSamples
  BY RsrpAssumption
<1>3. QED
  BY <1>1, <1>2 DEF RecordUnavailable, Tracking

LEMMA ClearedType == Cleared \in Tracking
<1>1. <<>> \in [1..0 -> Levels]
  OBVIOUS
<1>2. 0 \in 0..WeakSamples /\ 0 \in 0..LossSamples /\ 0 \in 0..HistoryLen
  BY RsrpAssumption
<1>3. QED
  BY <1>1, <1>2 DEF Cleared, Tracking, None

(* The first sample is never a verdict: not on a radio that was watched... *)
LEMMA FirstSampleIsNotPoor ==
    ASSUME NEW d \in Levels
    PROVE  ~ShouldPublishPoor(Cleared, d)
<1>1. Cleared \in Tracking /\ Len(Cleared.history) = 0
  BY ClearedType DEF Cleared
<1>2. AddSample(Cleared, d) \in Tracking /\ Len(AddSample(Cleared, d).history) <= 1
  BY <1>1, AddSampleType
<1>3. Len(AddSample(Cleared, d).history) \in Nat
  BY <1>2 DEF Tracking
<1>4. Tracked(Cleared, d).history = AddSample(Cleared, d).history
  BY <1>2 DEF Tracked, Tracking
<1>5. ~TrendWorsening(Tracked(Cleared, d).history)
  BY <1>2, <1>3, <1>4 DEF TrendWorsening
<1>6. AddSample(Cleared, d).weak = 0
  BY DEF AddSample, Cleared
<1>7. Tracked(Cleared, d).weak < WeakSamples
  <2>1. Tracked(Cleared, d).weak \in {0, Min2(0 + 1, WeakSamples)}
    BY <1>2, <1>6 DEF Tracked, Tracking
  <2>2. QED
    BY <2>1, RsrpAssumption DEF Min2
<1>8. Cleared.last = None
  BY DEF Cleared
<1>9. Tracked(Cleared, d).weak \in Nat /\ WeakSamples \in Nat
  BY <1>1, TrackedType, RsrpAssumption DEF Tracking
<1>10. QED
  BY <1>5, <1>7, <1>8, <1>9 DEF ShouldPublishPoor

(* ...nor on one that was probed, nor the first that is missing.           *)
LEMMA FirstSampleIsNotEnough ==
    ASSUME NEW d \in Levels
    PROVE  Len(AddSample(Cleared, d).history) < ProbeSamples
<1>1. Cleared \in Tracking /\ Len(Cleared.history) = 0
  BY ClearedType DEF Cleared
<1>2. AddSample(Cleared, d) \in Tracking /\ Len(AddSample(Cleared, d).history) <= 1
  BY <1>1, AddSampleType
<1>3. Len(AddSample(Cleared, d).history) \in Nat
  BY <1>2 DEF Tracking
<1>4. QED
  BY <1>2, <1>3, RsrpAssumption

LEMMA FirstLossIsNotPoor == ~LossLimitReached(RecordUnavailable(Cleared))
<1>1. RecordUnavailable(Cleared).unavailable = Min2(1, LossSamples)
  BY DEF RecordUnavailable, Cleared
<1>2. QED
  BY <1>1, RsrpAssumption DEF LossLimitReached, Min2

(* Of a call that asks for m, l is left.                                   *)
LEMMA LeftSteps ==
    ASSUME NEW m \in Question, NEW l \in LeftOf(m)
    PROVE  /\ Len(l) \in 1..3 /\ l # <<>>
           /\ Len(l) > 1 => /\ Tail(l) \in LeftOf(m) /\ Tail(l) # <<>>
                            /\ Len(Tail(l)) = Len(l) - 1
           /\ Head(l) = "mode" => Len(l) = IF m = "PROBE" THEN 2 ELSE 3
           /\ Head(l) = "reset" => Len(l) = IF m = "PROBE" THEN 3 ELSE 2
           /\ Head(l) = "schedule" => Len(l) = 1 /\ m # "IDLE"
           /\ Head(l) = "cancel" => Len(l) = 1 /\ m = "IDLE"
<1>1. CASE m = "IDLE"
  <2>1. LeftOf(m) = {<<"mode", "reset", "cancel">>, <<"reset", "cancel">>,
                    <<"cancel">>}
    BY <1>1 DEF LeftOf
  <2>2. CASE l = <<"mode", "reset", "cancel">>
    <3>1. Tail(l) = <<"reset", "cancel">> /\ Head(l) = "mode" /\ Len(l) = 3
      BY <2>2
    <3>2. Tail(l) \in LeftOf(m) /\ Len(Tail(l)) = 2
      BY <2>1, <3>1
    <3>3. QED
      BY <1>1, <3>1, <3>2
  <2>3. CASE l = <<"reset", "cancel">>
    <3>1. Tail(l) = <<"cancel">> /\ Head(l) = "reset" /\ Len(l) = 2
      BY <2>3
    <3>2. Tail(l) \in LeftOf(m) /\ Len(Tail(l)) = 1
      BY <2>1, <3>1
    <3>3. QED
      BY <1>1, <3>1, <3>2
  <2>4. CASE l = <<"cancel">>
    <3>1. Head(l) = "cancel" /\ Len(l) = 1
      BY <2>4
    <3>2. QED
      BY <1>1, <3>1
  <2>5. QED
    BY <2>1, <2>2, <2>3, <2>4
<1>2. CASE m = "PROBE"
  <2>1. LeftOf(m) = {<<"reset", "mode", "schedule">>, <<"mode", "schedule">>,
                    <<"schedule">>}
    BY <1>2 DEF LeftOf
  <2>2. CASE l = <<"reset", "mode", "schedule">>
    <3>1. Tail(l) = <<"mode", "schedule">> /\ Head(l) = "reset" /\ Len(l) = 3
      BY <2>2
    <3>2. Tail(l) \in LeftOf(m) /\ Len(Tail(l)) = 2
      BY <2>1, <3>1
    <3>3. QED
      BY <1>2, <3>1, <3>2
  <2>3. CASE l = <<"mode", "schedule">>
    <3>1. Tail(l) = <<"schedule">> /\ Head(l) = "mode" /\ Len(l) = 2
      BY <2>3
    <3>2. Tail(l) \in LeftOf(m) /\ Len(Tail(l)) = 1
      BY <2>1, <3>1
    <3>3. QED
      BY <1>2, <3>1, <3>2
  <2>4. CASE l = <<"schedule">>
    <3>1. Head(l) = "schedule" /\ Len(l) = 1
      BY <2>4
    <3>2. QED
      BY <1>2, <3>1
  <2>5. QED
    BY <2>1, <2>2, <2>3, <2>4
<1>3. CASE m \notin {"IDLE", "PROBE"}
  <2>1. LeftOf(m) = {<<"mode", "reset", "schedule">>, <<"reset", "schedule">>,
                    <<"schedule">>}
    BY <1>3 DEF LeftOf
  <2>2. CASE l = <<"mode", "reset", "schedule">>
    <3>1. Tail(l) = <<"reset", "schedule">> /\ Head(l) = "mode" /\ Len(l) = 3
      BY <2>2
    <3>2. Tail(l) \in LeftOf(m) /\ Len(Tail(l)) = 2
      BY <2>1, <3>1
    <3>3. QED
      BY <1>3, <3>1, <3>2
  <2>3. CASE l = <<"reset", "schedule">>
    <3>1. Tail(l) = <<"schedule">> /\ Head(l) = "reset" /\ Len(l) = 2
      BY <2>3
    <3>2. Tail(l) \in LeftOf(m) /\ Len(Tail(l)) = 1
      BY <2>1, <3>1
    <3>3. QED
      BY <1>3, <3>1, <3>2
  <2>4. CASE l = <<"schedule">>
    <3>1. Head(l) = "schedule" /\ Len(l) = 1
      BY <2>4
    <3>2. QED
      BY <1>3, <3>1
  <2>5. QED
    BY <2>1, <2>2, <2>3, <2>4
<1>4. QED
  BY <1>1, <1>2, <1>3

(* A call advances: what is left of it tells which step it is at.          *)
LEMMA CallAdvances ==
    ASSUME TypeOK, CallUnderWay, NEW s, CallStep(s)
    PROVE  /\ call.to \in Question /\ Called /\ call'.to \in Question
           /\ Len(call.left) \in 1..3
           /\ Len(call'.left) = Len(call.left) - 1
           /\ Len(call.left) > 1 => call'.to = call.to
           /\ Len(call.left) = 1 => call'.left = <<>>
           /\ Len(call.left) > 1 => call'.left # <<>>
           /\ CallUnderWay'
           /\ s = "mode" => Len(call.left) = IF call.to = "PROBE" THEN 2 ELSE 3
           /\ s = "reset" => Len(call.left) = IF call.to = "PROBE" THEN 3 ELSE 2
           /\ s = "schedule" => Len(call.left) = 1 /\ call.to # "IDLE"
           /\ s = "cancel" => Len(call.left) = 1 /\ call.to = "IDLE"
<1>1. call.to \in Question /\ call.left \in LeftOf(call.to) /\ Called
  BY DEF CallUnderWay, CallStep, NoCall, Called
<1>2. call.left # <<>> /\ s = Head(call.left)
  BY DEF CallStep
<1>3. call' = IF Len(call.left) = 1 THEN NoCall ELSE [call EXCEPT !.left = Tail(@)]
  BY DEF CallStep
<1>4. call = [to |-> call.to, left |-> call.left]
  BY DEF TypeOK
<1>5. /\ Len(call.left) \in 1..3
      /\ Len(call.left) > 1 => /\ Tail(call.left) \in LeftOf(call.to)
                               /\ Tail(call.left) # <<>>
                               /\ Len(Tail(call.left)) = Len(call.left) - 1
  BY <1>1, LeftSteps
<1>6. /\ s = "mode" => Len(call.left) = IF call.to = "PROBE" THEN 2 ELSE 3
      /\ s = "reset" => Len(call.left) = IF call.to = "PROBE" THEN 3 ELSE 2
      /\ s = "schedule" => Len(call.left) = 1 /\ call.to # "IDLE"
      /\ s = "cancel" => Len(call.left) = 1 /\ call.to = "IDLE"
  BY <1>1, <1>2, LeftSteps
<1>7. CASE Len(call.left) = 1
  <2>1. call' = NoCall /\ call'.left = <<>> /\ call'.to = "IDLE" /\ Len(call'.left) = 0
    BY <1>3, <1>7 DEF NoCall
  <2>2. QED
    BY <1>1, <1>6, <1>7, <2>1 DEF CallUnderWay, Question
<1>8. CASE Len(call.left) # 1
  <2>1. call'.to = call.to /\ call'.left = Tail(call.left)
    BY <1>3, <1>4, <1>8
  <2>2. Len(call.left) \in {2, 3} /\ Len(call.left) > 1
    BY <1>5, <1>8
  <2>3. /\ call'.left \in LeftOf(call.to) /\ call'.left # <<>>
        /\ Len(call'.left) = Len(call.left) - 1
    BY <1>5, <2>1, <2>2, Zenon
  <2>4. CallUnderWay'
    BY <1>1, <2>1, <2>3 DEF CallUnderWay
  <2>5. QED
    BY <1>1, <1>5, <1>6, <1>8, <2>1, <2>3, <2>4
<1>9. QED
  BY <1>7, <1>8

(* Between calls nothing is left, and the question is the one asked last.  *)
LEMMA BetweenCalls ==
    ASSUME CallUnderWay
    PROVE  /\ ~Called <=> call = NoCall
           /\ ~Called <=> Len(call.left) = 0
           /\ Called => Len(call.left) \in 1..3 /\ call.to \in Question
           /\ ~Called => call.left = <<>> /\ ~OldQuestion /\ ~NewQuestion
<1>1. CASE call = NoCall
  BY <1>1 DEF NoCall, Called, OldQuestion, NewQuestion
<1>2. CASE call.to \in Question /\ call.left \in LeftOf(call.to)
  <2>1. Len(call.left) \in 1..3 /\ call.left # <<>>
    BY <1>2, LeftSteps
  <2>2. QED
    BY <1>2, <2>1 DEF NoCall, Called, OldQuestion, NewQuestion
<1>3. QED
  BY <1>1, <1>2 DEF CallUnderWay

-----------------------------------------------------------------------------
(***************************************************************************)
(* Types.                                                                  *)
(***************************************************************************)

Step == {"mode", "reset", "schedule", "cancel"}

(* A call under way leaves a call, the handler and the hint in their types.*)
LEMMA CallStepTypes ==
    ASSUME TypeOK, NEW s, CallStep(s)
    PROVE  /\ call' \in [to : Question, left : Seq(Step)]
           /\ running' \in Question /\ hint' \in BOOLEAN
<1>1. call \in [to : Question, left : Seq(Step)] /\ call.left # <<>>
  BY DEF TypeOK, CallStep, Step
<1>2. Tail(call.left) \in Seq(Step)
  BY <1>1
<1>3. NoCall \in [to : Question, left : Seq(Step)]
  BY DEF NoCall, Question
<1>4. [call EXCEPT !.left = Tail(@)] \in [to : Question, left : Seq(Step)]
  BY <1>1, <1>2
<1>5. call' \in [to : Question, left : Seq(Step)]
  BY <1>3, <1>4 DEF CallStep
<1>6. QED
  BY <1>5 DEF CallStep, TypeOK

(* A sample is within the bound.                                           *)
LEMMA SampledType ==
    ASSUME TypeOK, NEW d \in Levels \union {None}, Sampled(d)
    PROVE  seen' \in Seq(Levels \union {None}) /\ Len(seen') <= MaxSeen
<1>1. seen' = Append(seen, d) /\ Len(seen) < MaxSeen
  BY DEF Sampled
<1>2. seen \in Seq(Levels \union {None}) /\ MaxSeen \in Nat
  BY RsrpAssumption DEF TypeOK
<1>3. seen' \in Seq(Levels \union {None}) /\ Len(seen') = Len(seen) + 1 /\ Len(seen) \in Nat
  BY <1>1, <1>2
<1>4. QED
  BY <1>1, <1>2, <1>3

(* What a handler does to the work and the mode.                           *)
LEMMA OutcomeTypes ==
    ASSUME TypeOK,
           Reschedules \/ \E v \in {"LTE_POOR", "LTE_GOOD"} : Publishes(v)
    PROVE  /\ mode' \in Question /\ answer' \in {"none", "LTE_POOR", "LTE_GOOD"}
           /\ work' \in [delayed : BOOLEAN, queued : BOOLEAN, canceling : BOOLEAN]
BY DEF TypeOK, Reschedules, Publishes, Delayed, Question

(* A handler's end, with the types of the four variables it computes.      *)
LEMMA HandlerEndTypes ==
    ASSUME TypeOK, HandlerEnds, tracking' \in Tracking,
           mode' \in Question, answer' \in {"none", "LTE_POOR", "LTE_GOOD"},
           work' \in [delayed : BOOLEAN, queued : BOOLEAN, canceling : BOOLEAN],
           seen' \in Seq(Levels \union {None}), Len(seen') <= MaxSeen
    PROVE  TypeOK'
<1>1. running' \in Question
  BY DEF HandlerEnds, Question
<1>2. QED
  BY <1>1 DEF TypeOK, HandlerEnds

(* Cleared when the service is initialised.                                *)
LEMMA InitTypes == ASSUME Init PROVE TypeOK
<1>1. seen = <<>> /\ seen \in Seq(Levels \union {None}) /\ Len(seen) <= MaxSeen
  BY RsrpAssumption DEF Init
<1>2. call \in [to : Question, left : Seq(Step)]
  BY DEF Init, NoCall, Question
<1>3. tracking \in Tracking
  BY ClearedType DEF Init
<1>4. QED
  BY <1>1, <1>2, <1>3 DEF Init, TypeOK, Question, Step

LEMMA TypeStep == ASSUME TypeOK, [Next]_vars PROVE TypeOK'
<1>1. ASSUME NEW m \in Question, CallBegins(m) PROVE TypeOK'
  <2>1. StepsTo(m) \in Seq(Step)
    <3>1. StepsTo(m) \in {<<"mode", "reset", "cancel">>, <<"reset", "mode", "schedule">>,
                         <<"mode", "reset", "schedule">>}
      BY Zenon DEF StepsTo
    <3>2. /\ <<"mode", "reset", "cancel">> \in Seq(Step)
          /\ <<"reset", "mode", "schedule">> \in Seq(Step)
          /\ <<"mode", "reset", "schedule">> \in Seq(Step)
      BY DEF Step
    <3>3. QED
      BY <3>1, <3>2
  <2>2. call' \in [to : Question, left : Seq(Step)]
    BY <1>1, <2>1 DEF CallBegins, TypeOK, Step
  <2>3. seen' \in Seq(Levels \union {None}) /\ Len(seen') <= MaxSeen
    BY <1>1, RsrpAssumption DEF CallBegins, TypeOK
  <2>4. asked' \in Question /\ answer' \in {"none", "LTE_POOR", "LTE_GOOD"}
    BY <1>1 DEF CallBegins, TypeOK, Question
  <2>5. UNCHANGED <<mode, tracking, work, running, hint>>
    BY <1>1 DEF CallBegins
  <2>6. QED
    BY <2>2, <2>3, <2>4, <2>5 DEF TypeOK, Step
<1>2. ASSUME SetMode PROVE TypeOK'
  <2>1. CallStep("mode") /\ mode' = call.to /\ UNCHANGED <<tracking, work, asked, answer, seen>>
    BY <1>2 DEF SetMode
  <2>2. /\ call' \in [to : Question, left : Seq(Step)]
        /\ running' \in Question /\ hint' \in BOOLEAN
    BY <2>1, CallStepTypes
  <2>3. QED
    BY <2>1, <2>2 DEF TypeOK, Step
<1>3. ASSUME ResetSignalTracking PROVE TypeOK'
  <2>1. /\ CallStep("reset") /\ tracking' = Cleared
        /\ asked' = call.to /\ answer' = "none" /\ seen' = <<>> /\ UNCHANGED <<mode, work>>
    BY <1>3 DEF ResetSignalTracking
  <2>2. /\ call' \in [to : Question, left : Seq(Step)]
        /\ running' \in Question /\ hint' \in BOOLEAN
    BY <2>1, CallStepTypes
  <2>3. tracking' \in Tracking
    BY <2>1, ClearedType
  <2>4. seen' \in Seq(Levels \union {None}) /\ Len(seen') <= MaxSeen
    BY <2>1, RsrpAssumption
  <2>5. asked' \in Question
    BY <2>1 DEF TypeOK
  <2>6. QED
    BY <2>1, <2>2, <2>3, <2>4, <2>5 DEF TypeOK, Step
<1>4. ASSUME Schedule \/ Cancel PROVE TypeOK'
  <2>1. PICK s \in Step : CallStep(s)
    BY <1>4 DEF Schedule, Cancel, Step
  <2>2. /\ call' \in [to : Question, left : Seq(Step)]
        /\ running' \in Question /\ hint' \in BOOLEAN
    BY <2>1, CallStepTypes
  <2>3. work' \in [delayed : BOOLEAN, queued : BOOLEAN, canceling : BOOLEAN]
    <3>1. Submitted(work) \in [delayed : BOOLEAN, queued : BOOLEAN, canceling : BOOLEAN]
      BY DEF TypeOK, Submitted
    <3>2. Delayed(work) \in [delayed : BOOLEAN, queued : BOOLEAN, canceling : BOOLEAN]
      BY DEF TypeOK, Delayed
    <3>3. Cancelled \in [delayed : BOOLEAN, queued : BOOLEAN, canceling : BOOLEAN]
      BY DEF Cancelled
    <3>4. work' \in {Submitted(work), Delayed(work), Cancelled}
      BY <1>4, Zenon DEF Schedule, Cancel
    <3>5. QED
      BY <3>1, <3>2, <3>3, <3>4
  <2>4. UNCHANGED <<mode, tracking, asked, answer, seen>>
    BY <1>4 DEF Schedule, Cancel
  <2>5. QED
    BY <2>2, <2>3, <2>4 DEF TypeOK, Step
<1>5. ASSUME HintReadsMode \/ HintReschedules \/ DelayExpires \/ HandlerBegins
      PROVE  TypeOK'
  BY <1>5 DEF TypeOK, HintReadsMode, HintReschedules, DelayExpires, HandlerBegins,
              Delayed, Submitted
<1>6. ASSUME SampleUnavailable PROVE TypeOK'
  <2>1. /\ Sampled(None) /\ HandlerEnds
        /\ Reschedules \/ \E v \in {"LTE_POOR", "LTE_GOOD"} : Publishes(v)
    BY <1>6 DEF SampleUnavailable
  <2>2. RecordUnavailable(tracking) \in Tracking
    BY UnavailableType DEF TypeOK
  <2>3. PICK p \in BOOLEAN :
            tracking' = [RecordUnavailable(tracking) EXCEPT !.poorSent = @ \/ p]
    BY <1>6 DEF SampleUnavailable
  <2>4. tracking' \in Tracking
    BY <2>2, <2>3 DEF Tracking
  <2>5. seen' \in Seq(Levels \union {None}) /\ Len(seen') <= MaxSeen
    BY <2>1, SampledType
  <2>6. QED
    BY <2>1, <2>4, <2>5, OutcomeTypes, HandlerEndTypes
<1>7. ASSUME NEW d \in Levels, MonitorSample(d) PROVE TypeOK'
  <2>1. /\ Sampled(d) /\ HandlerEnds
        /\ Reschedules \/ \E v \in {"LTE_POOR", "LTE_GOOD"} : Publishes(v)
    BY <1>7 DEF MonitorSample
  <2>2. tracking \in Tracking /\ Tracked(tracking, d) \in Tracking
    BY TrackedType DEF TypeOK
  <2>3. \/ tracking' = [tracking EXCEPT !.unavailable = 0]
        \/ tracking' = [Tracked(tracking, d) EXCEPT !.poorSent = ShouldPublishPoor(tracking, d)]
    BY <1>7 DEF MonitorSample
  <2>4. ShouldPublishPoor(tracking, d) \in BOOLEAN
    BY DEF ShouldPublishPoor
  <2>5. 0 \in 0..LossSamples
    BY RsrpAssumption
  <2>6. tracking' \in Tracking
    BY <2>2, <2>3, <2>4, <2>5 DEF Tracking
  <2>7. seen' \in Seq(Levels \union {None}) /\ Len(seen') <= MaxSeen
    BY <2>1, SampledType
  <2>8. QED
    BY <2>1, <2>6, <2>7, OutcomeTypes, HandlerEndTypes
<1>8. ASSUME NEW d \in Levels, ProbeSample(d) PROVE TypeOK'
  <2>1. /\ Sampled(d) /\ HandlerEnds /\ tracking' = AddSample(tracking, d)
        /\ Reschedules \/ \E v \in {"LTE_POOR", "LTE_GOOD"} : Publishes(v)
    BY <1>8 DEF ProbeSample
  <2>2. tracking' \in Tracking
    BY <2>1, AddSampleType DEF TypeOK
  <2>3. seen' \in Seq(Levels \union {None}) /\ Len(seen') <= MaxSeen
    BY <2>1, SampledType
  <2>4. QED
    BY <2>1, <2>2, <2>3, OutcomeTypes, HandlerEndTypes
<1>9. ASSUME NtnSample PROVE TypeOK'
  BY <1>9, OutcomeTypes, HandlerEndTypes DEF NtnSample, TypeOK
<1>10. ASSUME UNCHANGED vars PROVE TypeOK'
  BY <1>10 DEF vars, TypeOK
<1>11. QED
  BY <1>1, <1>2, <1>3, <1>4, <1>5, <1>6, <1>7, <1>8, <1>9, <1>10 DEF Next

-----------------------------------------------------------------------------
(***************************************************************************)
(* The invariant is inductive.                                             *)
(***************************************************************************)

(* Where a call is, before and after one of its steps.                     *)
LEMMA CallStages ==
    ASSUME TypeOK, CallUnderWay, NEW s, CallStep(s)
    PROVE  /\ Called' <=> Len(call.left) \in {2, 3}
           /\ OldQuestion' <=> Len(call.left) = 3 /\ call.to # "PROBE"
           /\ NewQuestion' <=> Len(call.left) = 2 \/ (Len(call.left) = 3 /\ call.to = "PROBE")
           /\ NewQuestion <=> Len(call.left) = 1 \/ (Len(call.left) = 2 /\ call.to = "PROBE")
<1>1. /\ Called /\ Len(call.left) \in 1..3
      /\ Len(call'.left) = Len(call.left) - 1
      /\ Len(call.left) > 1 => call'.to = call.to /\ call'.left # <<>>
      /\ Len(call.left) = 1 => call'.left = <<>>
  BY CallAdvances
<1>2. CASE Len(call.left) = 1
  BY <1>1, <1>2 DEF Called, OldQuestion, NewQuestion
<1>3. CASE Len(call.left) = 2
  <2>1. Len(call'.left) = 1 /\ call'.to = call.to /\ call'.left # <<>>
    BY <1>1, <1>3
  <2>2. QED
    BY <1>1, <1>3, <2>1 DEF Called, OldQuestion, NewQuestion
<1>4. CASE Len(call.left) = 3
  <2>1. Len(call'.left) = 2 /\ call'.to = call.to /\ call'.left # <<>>
    BY <1>1, <1>4
  <2>2. QED
    BY <1>1, <1>4, <2>1 DEF Called, OldQuestion, NewQuestion
<1>5. QED
  BY <1>1, <1>2, <1>3, <1>4

(* A handler that reads LTE-M ends.                                        *)
SampleRead == SampleUnavailable \/ \E d \in Levels : MonitorSample(d) \/ ProbeSample(d)

(* A verdict answers the question of the handler that publishes it, which  *)
(* is still open: on any other, the sample is the first and no verdict.    *)
LEMMA VerdictAnswers ==
    ASSUME Inv, SampleRead
    PROVE  /\ running \in Asking /\ HandlerEnds
           /\ \/ Reschedules
              \/ /\ \E v \in Promise!AnswersTo[asked] : Publishes(v)
                 /\ running = asked /\ ~NewQuestion /\ answer = "none"
<1>1. running \in Asking /\ HandlerEnds
  BY DEF SampleRead, SampleUnavailable, MonitorSample, ProbeSample, Asking
<1>2. answer = "none" /\ (running # asked \/ NewQuestion => tracking = Cleared)
  BY <1>1 DEF Inv, OvertakenSeesNothing
<1>3. \/ Reschedules
      \/ \E v \in {"LTE_POOR", "LTE_GOOD"} :
             Publishes(v) /\ (v = "LTE_GOOD" => running = "PROBE")
  BY DEF SampleRead, SampleUnavailable, MonitorSample, ProbeSample
<1>4. CASE tracking = Cleared
  <2>1. ASSUME SampleUnavailable PROVE Reschedules
    <3>1. LossLimitReached(RecordUnavailable(tracking)) \/ Reschedules
      BY <2>1 DEF SampleUnavailable
    <3>2. QED
      BY <1>4, <3>1, FirstLossIsNotPoor
  <2>2. ASSUME NEW d \in Levels, MonitorSample(d) PROVE Reschedules
    BY <1>4, <2>2, FirstSampleIsNotPoor DEF MonitorSample
  <2>3. ASSUME NEW d \in Levels, ProbeSample(d) PROVE Reschedules
    BY <1>4, <2>3, FirstSampleIsNotEnough DEF ProbeSample
  <2>4. QED
    BY <1>1, <2>1, <2>2, <2>3 DEF SampleRead
<1>5. CASE tracking # Cleared
  <2>1. running = asked /\ ~NewQuestion
    BY <1>2, <1>5
  <2>2. Promise!AnswersTo["MONITOR"] = {"LTE_POOR"}
    BY DEF Promise!AnswersTo
  <2>3. Promise!AnswersTo["PROBE"] = {"LTE_POOR", "LTE_GOOD"}
    BY DEF Promise!AnswersTo
  <2>4. asked \in {"MONITOR", "PROBE"}
    BY <1>1, <2>1 DEF Asking
  <2>5. CASE Reschedules
    BY <1>1, <2>5
  <2>6. CASE ~Reschedules
    <3>1. PICK v \in {"LTE_POOR", "LTE_GOOD"} :
              Publishes(v) /\ (v = "LTE_GOOD" => running = "PROBE")
      BY <1>3, <2>6
    <3>2. v \in Promise!AnswersTo[asked]
      BY <2>1, <2>2, <2>3, <2>4, <3>1
    <3>3. QED
      BY <1>1, <1>2, <2>1, <3>1, <3>2
  <2>7. QED
    BY <2>5, <2>6
<1>6. QED
  BY <1>4, <1>5

LEMMA SampleStep == ASSUME Inv, SampleRead PROVE Inv'
<1>1. /\ running \in Asking /\ HandlerEnds
      /\ \/ Reschedules
         \/ /\ \E v \in Promise!AnswersTo[asked] : Publishes(v)
            /\ running = asked /\ ~NewQuestion /\ answer = "none"
  BY VerdictAnswers
<1>2. TypeOK'
  BY TypeStep DEF Inv, SampleRead, Next
<1>3. /\ call' = call /\ asked' = asked /\ running' = "IDLE"
      /\ Called' <=> Called
      /\ OldQuestion' <=> OldQuestion
      /\ NewQuestion' <=> NewQuestion
  BY <1>1 DEF HandlerEnds, Called, OldQuestion, NewQuestion
<1>4. CallUnderWay' /\ HandlerOfCall' /\ OvertakenSeesNothing'
  BY <1>3 DEF Inv, CallUnderWay, HandlerOfCall, OvertakenSeesNothing, Asking
<1>5. CASE Reschedules
  <2>1. /\ mode' = mode /\ answer' = answer
        /\ work'.delayed /\ ~work'.canceling
    BY <1>5 DEF Reschedules, Delayed, Inv, TypeOK
  <2>2. QED
    BY <1>2, <1>3, <1>4, <2>1 DEF Inv, QuestionOfCall, ModeOfQuestion, WorkOfQuestion
<1>6. CASE ~Reschedules
  <2>1. PICK v \in Promise!AnswersTo[asked] : Publishes(v)
    BY <1>1, <1>6
  <2>2. running = asked /\ asked \in Asking /\ ~NewQuestion /\ answer = "none"
    BY <1>1, <1>6
  <2>3. v # "none"
    BY <2>2 DEF Promise!AnswersTo, Asking
  <2>4. mode' = "IDLE" /\ answer' = v /\ ~work'.canceling
    BY <2>1 DEF Publishes, Inv, TypeOK
  <2>5. Called => OldQuestion /\ call.to \in {"IDLE", "NTN_MONITOR"}
    <3>1. Called => OldQuestion /\ call.to \in Question
      BY <2>2, BetweenCalls DEF Inv, NewQuestion
    <3>2. QED
      BY <1>1, <2>2, <3>1 DEF Inv, HandlerOfCall, QuestionOfCall, Question, Asking
  <2>6. ~Called => call.to = "IDLE"
    BY BetweenCalls DEF Inv, NoCall
  <2>7. QuestionOfCall'
    BY <1>3, <2>2, <2>5, <2>6 DEF QuestionOfCall, Inv
  <2>8. ModeOfQuestion'
    BY <1>3, <2>3, <2>4, <2>5, <2>6 DEF ModeOfQuestion
  <2>9. WorkOfQuestion'
    BY <1>3, <2>3, <2>4 DEF WorkOfQuestion
  <2>10. QED
    BY <1>2, <1>4, <2>7, <2>8, <2>9 DEF Inv
<1>7. QED
  BY <1>5, <1>6

(* The state machine asks: before anything is done for it the old question *)
(* stands, and an idle service has nothing to do.                          *)
LEMMA CallBeginsStep ==
    ASSUME Inv, NEW m \in Question, CallBegins(m)
    PROVE  Inv'
<1>1. /\ ~Called /\ ~OldQuestion /\ ~NewQuestion /\ call = NoCall /\ MayAsk(m)
      /\ UNCHANGED <<mode, tracking, work, running, hint>>
  <2>1. ~Called /\ MayAsk(m) /\ UNCHANGED <<mode, tracking, work, running, hint>>
    BY DEF CallBegins, Called
  <2>2. QED
    BY <2>1, BetweenCalls DEF Inv
<1>2. TypeOK'
  BY TypeStep DEF Inv, Next
<1>3. /\ mode \in {asked, "IDLE"}
      /\ answer # "none" => mode = "IDLE"
      /\ asked \in Asking /\ answer = "none" => mode = asked
      /\ work.canceling => running # "IDLE"
  BY <1>1 DEF Inv, ModeOfQuestion, WorkOfQuestion
<1>4. running \in Asking => answer = "none" /\ (running # asked => tracking = Cleared)
  BY <1>1 DEF Inv, OvertakenSeesNothing
<1>5. CASE m = "IDLE" /\ mode = "IDLE"
  <2>1. asked' = "IDLE" /\ answer' = "none" /\ call' = call
    BY <1>5 DEF CallBegins
  <2>2. ~Called' /\ ~OldQuestion' /\ ~NewQuestion' /\ call'.to = "IDLE"
        /\ Len(call'.left) = 0
    BY <1>1, <2>1 DEF NoCall, Called, OldQuestion, NewQuestion
  <2>3. running \in Asking => tracking = Cleared
    BY <1>3, <1>4, <1>5 DEF Asking
  <2>4. CallUnderWay' /\ QuestionOfCall' /\ HandlerOfCall' /\ OvertakenSeesNothing'
    BY <1>1, <2>1, <2>2, <2>3
       DEF CallUnderWay, QuestionOfCall, HandlerOfCall, OvertakenSeesNothing
  <2>5. ModeOfQuestion' /\ WorkOfQuestion'
    BY <1>1, <1>3, <1>5, <2>1, <2>2 DEF ModeOfQuestion, WorkOfQuestion, Asking
  <2>6. QED
    BY <1>2, <2>4, <2>5 DEF Inv
<1>6. CASE ~(m = "IDLE" /\ mode = "IDLE")
  <2>1. call'.to = m /\ call'.left = StepsTo(m) /\ UNCHANGED <<asked, answer>>
    BY <1>6 DEF CallBegins
  <2>2. StepsTo(m) \in LeftOf(m) /\ Len(StepsTo(m)) = 3 /\ StepsTo(m) # <<>>
    <3>1. CASE m = "IDLE"
      BY <3>1 DEF StepsTo, LeftOf
    <3>2. CASE m = "PROBE"
      BY <3>2 DEF StepsTo, LeftOf
    <3>3. CASE m \notin {"IDLE", "PROBE"}
      <4>1. StepsTo(m) = <<"mode", "reset", "schedule">>
        BY <3>3, Zenon DEF StepsTo
      <4>2. StepsTo(m) \in LeftOf(m)
        BY <3>3, <4>1, Zenon DEF LeftOf
      <4>3. QED
        BY <4>1, <4>2
    <3>4. QED
      BY <3>1, <3>2, <3>3
  <2>3. Called' /\ OldQuestion' /\ ~NewQuestion' /\ Len(call'.left) = 3
    BY <2>1, <2>2 DEF Called, OldQuestion, NewQuestion
  <2>4. CallUnderWay'
    BY <2>1, <2>2 DEF CallUnderWay
  <2>5. QuestionOfCall' /\ HandlerOfCall'
    BY <1>1, <1>4, <2>1, <2>3 DEF QuestionOfCall, HandlerOfCall, MayAsk, Asking
  <2>6. OvertakenSeesNothing'
    BY <1>1, <1>4, <2>1, <2>3 DEF OvertakenSeesNothing
  <2>7. ModeOfQuestion' /\ WorkOfQuestion'
    BY <1>1, <1>3, <2>3 DEF ModeOfQuestion, WorkOfQuestion
  <2>8. QED
    BY <1>2, <2>4, <2>5, <2>6, <2>7 DEF Inv
<1>7. QED
  BY <1>5, <1>6

LEMMA SetModeStep == ASSUME Inv, SetMode PROVE Inv'
<1>1. /\ CallStep("mode") /\ mode' = call.to
      /\ UNCHANGED <<tracking, work, asked, answer, running>>
  BY DEF SetMode, CallStep
<1>2. TypeOK' /\ CallUnderWay'
  BY <1>1, TypeStep, CallAdvances DEF Inv, Next
<1>3. /\ Called /\ call.to \in Question
      /\ Len(call.left) = IF call.to = "PROBE" THEN 2 ELSE 3
      /\ Len(call'.left) = Len(call.left) - 1
      /\ call'.to = call.to
  BY <1>1, CallAdvances DEF Inv
<1>4. /\ Called'
      /\ OldQuestion' <=> call.to # "PROBE"
      /\ NewQuestion' <=> call.to = "PROBE"
      /\ NewQuestion <=> call.to = "PROBE"
      /\ OldQuestion <=> call.to # "PROBE"
  <2>1. /\ Called' <=> Len(call.left) \in {2, 3}
        /\ OldQuestion' <=> Len(call.left) = 3 /\ call.to # "PROBE"
        /\ NewQuestion' <=> Len(call.left) = 2 \/ (Len(call.left) = 3 /\ call.to = "PROBE")
        /\ NewQuestion <=> Len(call.left) = 1 \/ (Len(call.left) = 2 /\ call.to = "PROBE")
    BY <1>1, CallStages DEF Inv
  <2>2. QED
    BY <1>3, <2>1 DEF NewQuestion
<1>5. QuestionOfCall' /\ HandlerOfCall' /\ OvertakenSeesNothing'
  BY <1>1, <1>3, <1>4 DEF Inv, QuestionOfCall, HandlerOfCall, OvertakenSeesNothing
<1>6. ModeOfQuestion'
  BY <1>1, <1>3, <1>4 DEF ModeOfQuestion, Question
<1>7. WorkOfQuestion'
  BY <1>1, <1>4 DEF Inv, WorkOfQuestion
<1>8. QED
  BY <1>2, <1>5, <1>6, <1>7 DEF Inv

LEMMA ResetStep == ASSUME Inv, ResetSignalTracking PROVE Inv'
<1>1. /\ CallStep("reset") /\ tracking' = Cleared
      /\ asked' = call.to /\ answer' = "none" /\ UNCHANGED <<mode, work, running>>
  BY DEF ResetSignalTracking, CallStep
<1>2. TypeOK' /\ CallUnderWay'
  BY <1>1, TypeStep, CallAdvances DEF Inv, Next
<1>3. /\ Called /\ call.to \in Question
      /\ Len(call.left) = IF call.to = "PROBE" THEN 3 ELSE 2
      /\ Len(call'.left) = Len(call.left) - 1
      /\ call'.to = call.to
  BY <1>1, CallAdvances DEF Inv
<1>4. Called' /\ ~OldQuestion' /\ NewQuestion'
  BY <1>1, <1>3, CallStages DEF Inv
<1>5. QuestionOfCall' /\ HandlerOfCall' /\ OvertakenSeesNothing'
  BY <1>1, <1>3, <1>4 DEF Inv, QuestionOfCall, HandlerOfCall, OvertakenSeesNothing
<1>6. ModeOfQuestion'
  BY <1>1, <1>3, <1>4 DEF Inv, ModeOfQuestion, Question
<1>7. WorkOfQuestion'
  BY <1>1, <1>4 DEF Inv, WorkOfQuestion
<1>8. QED
  BY <1>2, <1>5, <1>6, <1>7 DEF Inv

(* The last step of a call that starts something puts its work on its way: *)
(* delayed, queued, or left to the handler whose cancellation is pending.  *)
LEMMA LastCallStep == ASSUME Inv, Schedule \/ Cancel PROVE Inv'
<1>1. PICK s \in {"schedule", "cancel"} : CallStep(s)
  BY DEF Schedule, Cancel
<1>2. UNCHANGED <<mode, tracking, asked, answer, running>>
  BY DEF Schedule, Cancel, CallStep
<1>3. TypeOK' /\ CallUnderWay'
  BY <1>1, TypeStep, CallAdvances DEF Inv, Next
<1>4. /\ Called /\ call.to \in Question /\ Len(call.left) = 1
      /\ s = "schedule" => call.to # "IDLE"
      /\ s = "cancel" => call.to = "IDLE"
      /\ Len(call'.left) = 0
  BY <1>1, CallAdvances DEF Inv
<1>5. ~Called' /\ ~OldQuestion' /\ ~NewQuestion' /\ NewQuestion /\ call'.to = "IDLE"
  <2>1. ~Called' /\ ~OldQuestion' /\ ~NewQuestion' /\ NewQuestion
    BY <1>1, <1>4, CallStages DEF Inv
  <2>2. call' = NoCall
    BY <1>1, <1>4 DEF CallStep
  <2>3. QED
    BY <2>1, <2>2 DEF NoCall
<1>6. asked = call.to /\ answer = "none"
  BY <1>5 DEF Inv, QuestionOfCall
<1>7. QuestionOfCall' /\ HandlerOfCall' /\ OvertakenSeesNothing'
  BY <1>2, <1>5, <1>6 DEF Inv, QuestionOfCall, HandlerOfCall, OvertakenSeesNothing
<1>8. ModeOfQuestion'
  <2>1. mode \in {asked, "IDLE"} /\ (asked \in Asking => mode = asked)
    BY <1>4, <1>6 DEF Inv, ModeOfQuestion, Question, Asking
  <2>2. QED
    BY <1>2, <1>4, <1>5, <1>6, <2>1 DEF ModeOfQuestion
<1>9. WorkOfQuestion'
  <2>1. CASE Cancel
    <3>1. CallStep("cancel") /\ work' = Cancelled
      BY <2>1 DEF Cancel
    <3>2. call.to = "IDLE"
      BY <3>1, CallAdvances DEF Inv
    <3>3. QED
      BY <1>2, <1>6, <3>1, <3>2 DEF WorkOfQuestion, Cancelled, Asking
  <2>2. CASE Schedule
    <3>1. work' = IF call.to = "PROBE" THEN Submitted(work) ELSE Delayed(work)
      BY <2>2 DEF Schedule
    <3>2. work \in [delayed : BOOLEAN, queued : BOOLEAN, canceling : BOOLEAN]
          /\ (work.canceling => running # "IDLE")
      BY DEF Inv, TypeOK, WorkOfQuestion
    <3>3. work' = Submitted(work) \/ work' = Delayed(work)
      BY <3>1
    <3>4. work'.canceling = work.canceling
          /\ (work'.delayed \/ work'.queued \/ work.canceling)
      BY <3>2, <3>3 DEF Submitted, Delayed
    <3>5. QED
      BY <1>2, <3>2, <3>4 DEF WorkOfQuestion
  <2>3. QED
    BY <2>1, <2>2
<1>10. QED
  BY <1>3, <1>7, <1>8, <1>9 DEF Inv

(* The work moves and the call, the question and the mode do not.          *)
LEMMA WorkStep ==
    ASSUME Inv, [Next]_vars, UNCHANGED <<mode, tracking, running, call, asked, answer>>,
           work'.canceling => work.canceling,
           work.delayed \/ work.queued => work'.delayed \/ work'.queued \/ work.canceling
    PROVE  Inv'
<1>1. TypeOK'
  BY TypeStep DEF Inv
<1>2. (Called' <=> Called) /\ (OldQuestion' <=> OldQuestion) /\ (NewQuestion' <=> NewQuestion)
  BY DEF Called, OldQuestion, NewQuestion
<1>3. CallUnderWay' /\ QuestionOfCall' /\ HandlerOfCall' /\ OvertakenSeesNothing'
      /\ ModeOfQuestion'
  BY <1>2 DEF Inv, CallUnderWay, QuestionOfCall, HandlerOfCall, OvertakenSeesNothing,
              ModeOfQuestion
<1>4. WorkOfQuestion'
  BY <1>2 DEF Inv, WorkOfQuestion
<1>5. QED
  BY <1>1, <1>3, <1>4 DEF Inv

(* A handler that begins reads the mode of the open question, or none.     *)
LEMMA HandlerBeginsStep == ASSUME Inv, HandlerBegins PROVE Inv'
<1>1. /\ ~Called /\ running = "IDLE" /\ running' = mode /\ work'.canceling = work.canceling
      /\ UNCHANGED <<mode, tracking, call, asked, answer>>
  BY DEF HandlerBegins, Called, Inv, TypeOK
<1>2. TypeOK'
  BY TypeStep DEF Inv, Next
<1>3. ~Called' /\ ~OldQuestion' /\ ~NewQuestion' /\ ~OldQuestion /\ ~NewQuestion
      /\ call.to = "IDLE" /\ Len(call.left) = 0
  <2>1. call = NoCall /\ ~OldQuestion /\ ~NewQuestion /\ Len(call.left) = 0
    BY <1>1, BetweenCalls DEF Inv
  <2>2. QED
    BY <1>1, <2>1 DEF Called, OldQuestion, NewQuestion, NoCall
<1>4. CallUnderWay' /\ QuestionOfCall' /\ HandlerOfCall'
  BY <1>1, <1>3 DEF Inv, CallUnderWay, QuestionOfCall, HandlerOfCall
<1>5. ModeOfQuestion'
  BY <1>1, <1>3 DEF Inv, ModeOfQuestion
<1>6. OvertakenSeesNothing'
  BY <1>1, <1>3 DEF Inv, ModeOfQuestion, OvertakenSeesNothing, Asking
<1>7. WorkOfQuestion'
  BY <1>1, <1>3 DEF Inv, ModeOfQuestion, WorkOfQuestion, Asking
<1>8. QED
  BY <1>2, <1>4, <1>5, <1>6, <1>7 DEF Inv

(* A handler that read the NTN mode reschedules, whatever is asked by now. *)
LEMMA NtnSampleStep == ASSUME Inv, NtnSample PROVE Inv'
<1>1. /\ running = "NTN_MONITOR" /\ running' = "IDLE" /\ work'.delayed /\ ~work'.canceling
      /\ UNCHANGED <<mode, tracking, call, asked, answer>>
  BY DEF NtnSample, HandlerEnds, Reschedules, Delayed, Inv, TypeOK
<1>2. TypeOK'
  BY TypeStep DEF Inv, Next
<1>3. (Called' <=> Called) /\ (OldQuestion' <=> OldQuestion) /\ (NewQuestion' <=> NewQuestion)
  BY <1>1 DEF Called, OldQuestion, NewQuestion
<1>4. CallUnderWay' /\ QuestionOfCall' /\ HandlerOfCall' /\ OvertakenSeesNothing'
      /\ ModeOfQuestion'
  BY <1>1, <1>3 DEF Inv, CallUnderWay, QuestionOfCall, HandlerOfCall, OvertakenSeesNothing,
                    ModeOfQuestion, Asking
<1>5. WorkOfQuestion'
  BY <1>1 DEF WorkOfQuestion
<1>6. QED
  BY <1>2, <1>4, <1>5 DEF Inv

LEMMA InvInit == ASSUME Init PROVE Inv
<1>1. TypeOK
  BY InitTypes
<1>2. /\ call = NoCall /\ mode = "IDLE" /\ asked = "IDLE" /\ running = "IDLE"
      /\ ~work.canceling /\ answer = "none"
  BY DEF Init
<1>3. ~Called /\ ~OldQuestion /\ ~NewQuestion /\ call.to = "IDLE" /\ Len(call.left) = 0
  BY <1>2 DEF NoCall, Called, OldQuestion, NewQuestion
<1>4. QED
  BY <1>1, <1>2, <1>3
     DEF Inv, CallUnderWay, QuestionOfCall, HandlerOfCall, OvertakenSeesNothing,
         ModeOfQuestion, WorkOfQuestion, Asking

LEMMA InvStep == ASSUME Inv, [Next]_vars PROVE Inv'
<1>1. ASSUME NEW m \in Question, CallBegins(m) PROVE Inv'
  BY <1>1, CallBeginsStep
<1>2. CASE SetMode
  BY <1>2, SetModeStep
<1>3. CASE ResetSignalTracking
  BY <1>3, ResetStep
<1>4. CASE Schedule \/ Cancel
  BY <1>4, LastCallStep
<1>5. CASE HintReadsMode
  <2>1. UNCHANGED <<mode, tracking, work, running, call, asked, answer>>
    BY <1>5 DEF HintReadsMode
  <2>2. QED
    BY <2>1, WorkStep
<1>6. CASE HintReschedules
  <2>1. work' = Delayed(work) /\ UNCHANGED <<mode, tracking, running, call, asked, answer>>
    BY <1>6 DEF HintReschedules
  <2>2. work'.delayed /\ work'.canceling = work.canceling
    BY <2>1 DEF Delayed, Inv, TypeOK
  <2>3. QED
    BY <2>1, <2>2, WorkStep
<1>7. CASE DelayExpires
  <2>1. work' = Submitted(work) /\ UNCHANGED <<mode, tracking, running, call, asked, answer>>
    BY <1>7 DEF DelayExpires
  <2>2. (work'.queued \/ work.canceling) /\ work'.canceling = work.canceling
    BY <2>1 DEF Submitted, Inv, TypeOK
  <2>3. QED
    BY <2>1, <2>2, WorkStep
<1>8. CASE HandlerBegins
  BY <1>8, HandlerBeginsStep
<1>9. CASE NtnSample
  BY <1>9, NtnSampleStep
<1>10. CASE SampleRead
  BY <1>10, SampleStep
<1>11. CASE UNCHANGED vars
  <2>1. UNCHANGED <<mode, tracking, work, running, call, asked, answer>>
    BY <1>11 DEF vars
  <2>2. QED
    BY <2>1, WorkStep
<1>12. QED
  BY <1>1, <1>2, <1>3, <1>4, <1>5, <1>6, <1>7, <1>8, <1>9, <1>10, <1>11
     DEF Next, SampleRead

LEMMA InvAlways == Spec => []Inv
<1>1. Init => Inv
  BY InvInit
<1>2. Inv /\ [Next]_vars => Inv'
  BY InvStep
<1>3. QED
  BY <1>1, <1>2, PTL DEF Spec

-----------------------------------------------------------------------------
(***************************************************************************)
(* Recursion.                                                              *)
(***************************************************************************)

(* A set of naturals that is not empty has a least element...             *)
LEMMA Least ==
    ASSUME NEW T, T \subseteq Nat, T # {}
    PROVE  \E m \in T : \A k \in T : m <= k
<1> DEFINE R == OpToRel(<, Nat)
<1>1. IsWellFoundedOn(R, Nat)
  BY NatLessThanWellFounded
<1>2. \A i, j \in Nat : i < j => <<i, j>> \in R
  BY DEF OpToRel
<1> HIDE DEF R
<1>3. PICK m \in T : \A k \in T : ~(<<k, m>> \in R)
  BY <1>1, WFMin
<1>4. ASSUME NEW k \in T PROVE m <= k
  <2>1. k \in Nat /\ m \in Nat
    OBVIOUS
  <2>2. ~(k < m)
    BY <1>2, <1>3, <2>1
  <2>3. QED
    BY <2>1, <2>2
<1>5. QED
  BY <1>4

(* ...so that a set of naturals closed under succession holds all of them. *)
LEMMA Induction ==
    ASSUME NEW T, 0 \in T, \A n \in Nat : n \in T => n + 1 \in T
    PROVE  Nat \subseteq T
<1> DEFINE C == {n \in Nat : n \notin T}
<1> SUFFICES ASSUME C # {} PROVE FALSE
  OBVIOUS
<1>1. PICK m \in C : \A k \in C : m <= k
  BY Least
<1>2. m \in Nat /\ m # 0 /\ m - 1 \notin C
  BY <1>1
<1>3. m - 1 \in Nat /\ m - 1 \in T
  BY <1>2
<1>4. QED
  BY <1>1, <1>3


(* A function defined by recursion on the naturals up to N exists.         *)
Recurs(f, k, a, step) == f[0] = a /\ \A n \in 1..k : f[n] = step[n][f[n - 1]]

LEMMA Recursion ==
    ASSUME NEW N \in Nat, NEW X, NEW a \in X, NEW step \in [1..N -> [X -> X]]
    PROVE  \E f \in [0..N -> X] : Recurs(f, N, a, step)
<1> USE DEF Recurs
<1> DEFINE T == {k \in Nat : k <= N => \E f \in [0..N -> X] : Recurs(f, k, a, step)}
<1>1. 0 \in T
  <2> DEFINE f == [n \in 0..N |-> a]
  <2>1. f \in [0..N -> X] /\ Recurs(f, 0, a, step)
    OBVIOUS
  <2>2. QED
    BY <2>1
<1>2. ASSUME NEW k \in Nat, k \in T PROVE k + 1 \in T
  <2>1. ASSUME k + 1 <= N PROVE \E g \in [0..N -> X] : Recurs(g, k + 1, a, step)
    <3>1. PICK f \in [0..N -> X] : Recurs(f, k, a, step)
      BY <1>2, <2>1
    <3>2. k \in 0..N /\ k + 1 \in 1..N
      BY <2>1
    <3>3. f[k] \in X /\ step[k + 1] \in [X -> X]
      BY <3>2
    <3>4. step[k + 1][f[k]] \in X
      BY <3>3
    <3> DEFINE g == [n \in 0..N |-> IF n = k + 1 THEN step[k + 1][f[k]] ELSE f[n]]
    <3>5. g \in [0..N -> X]
      BY <3>4
    <3>6. g[0] = a
      BY <3>1
    <3>7. ASSUME NEW n \in 1..(k + 1) PROVE g[n] = step[n][g[n - 1]]
      <4>1. CASE n = k + 1
        BY <4>1, <3>2
      <4>2. CASE n \in 1..k
        <5>1. n \in 0..N /\ n - 1 \in 0..N /\ n # k + 1 /\ n - 1 # k + 1
          BY <4>2, <2>1
        <5>2. g[n] = f[n] /\ g[n - 1] = f[n - 1]
          BY <5>1
        <5>3. QED
          BY <5>2, <4>2, <3>1
      <4>3. QED
        BY <4>1, <4>2
    <3> HIDE DEF g
    <3>8. QED
      BY <3>5, <3>6, <3>7
  <2>2. QED
    BY <2>1
<1>3. Nat \subseteq T
  <2> HIDE DEF T
  <2>1. QED
    BY <1>1, <1>2, Induction
<1>4. N \in T
  BY <1>3
<1>5. QED
  BY <1>4


(* What holds of 0, and of n when of n - 1, holds up to N.                 *)
LEMMA UpTo ==
    ASSUME NEW N \in Nat, NEW T, 0 \in T, \A n \in 1..N : n - 1 \in T => n \in T
    PROVE  0..N \subseteq T
<1> DEFINE U == {n \in Nat : n <= N => n \in T}
<1>1. 0 \in U
  OBVIOUS
<1>2. ASSUME NEW n \in Nat, n \in U PROVE n + 1 \in U
  <2>1. ASSUME n + 1 <= N PROVE n + 1 \in T
    <3>1. n \in T /\ n + 1 \in 1..N /\ (n + 1) - 1 = n
      BY <1>2, <2>1
    <3>2. QED
      BY <3>1
  <2>2. QED
    BY <2>1
<1>3. Nat \subseteq U
  <2> HIDE DEF U
  <2>1. QED
    BY <1>1, <1>2, Induction
<1>4. QED
  BY <1>3

-----------------------------------------------------------------------------
(***************************************************************************)
(* The sum and the valid samples.                                          *)
(***************************************************************************)

(* The loop of rsrp_history_average().                                     *)
SumsOf(h, f) == f = [n \in 0..Len(h) |-> IF n = 0 THEN 0 ELSE f[n - 1] + h[n]]

LEMMA SumIsInt ==
    ASSUME NEW h \in Seq(Int)
    PROVE  Sum(h) \in Int
<1> DEFINE N == Len(h)
<1>0. N \in Nat /\ \A n \in 1..N : h[n] \in Int
  OBVIOUS
<1>1. \E f : SumsOf(h, f)
  <2> DEFINE step == [n \in 1..N |-> [i \in Int |-> i + h[n]]]
  <2>1. step \in [1..N -> [Int -> Int]]
    BY <1>0
  <2>2. \A n \in 1..N, i \in Int : step[n][i] = i + h[n]
    OBVIOUS
  <2> HIDE DEF step, N
  <2>3. PICK f \in [0..N -> Int] : Recurs(f, N, 0, step)
    <3>1. 0 \in Int
      OBVIOUS
    <3>2. QED
      BY <1>0, <2>1, <3>1, Recursion
  <2>4. ASSUME NEW n \in 1..N PROVE f[n] = f[n - 1] + h[n]
    <3>1. n - 1 \in 0..N
      BY <1>0
    <3>2. QED
      BY <2>2, <2>3, <3>1 DEF Recurs
  <2>5. f = [n \in 0..N |-> IF n = 0 THEN 0 ELSE f[n - 1] + h[n]]
    <3>1. f = [n \in 0..N |-> f[n]]
      OBVIOUS
    <3>2. \A n \in 0..N : f[n] = IF n = 0 THEN 0 ELSE f[n - 1] + h[n]
      BY <1>0, <2>3, <2>4 DEF Recurs
    <3>3. QED
      BY <3>1, <3>2, Zenon
  <2>6. QED
    BY <2>5 DEF SumsOf, N
<1>2. ASSUME NEW f, SumsOf(h, f) PROVE f[N] \in Int
  <2> HIDE DEF N
  <2>1. f[0] = 0 /\ \A n \in 1..N : f[n] = f[n - 1] + h[n]
    BY <1>0, <1>2 DEF SumsOf, N
  <2> DEFINE T == {n \in 0..N : f[n] \in Int}
  <2>2. 0 \in T /\ \A n \in 1..N : n - 1 \in T => n \in T
    BY <1>0, <2>1
  <2>3. 0..N \subseteq T
    <3> HIDE DEF T
    <3>1. QED
      BY <1>0, <2>2, UpTo
  <2>4. QED
    BY <1>0, <2>3
<1>3. Sum(h) = (CHOOSE f : SumsOf(h, f))[N]
  BY DEF Sum, SumsOf
<1>4. QED
  BY <1>1, <1>2, <1>3

(* The samples of which n were read, with the valid ones among them.       *)
Given == Levels \union {None}
Kept(d) == IF d = None THEN <<>> ELSE <<d>>
ValidOf(s, f) == f = [n \in 0..Len(s) |-> IF n = 0 THEN <<>> ELSE f[n - 1] \o Kept(s[n])]

LEMMA KeptType == ASSUME NEW d \in Given PROVE Kept(d) \in Seq(Levels)
<1>1. CASE d = None
  BY <1>1 DEF Kept
<1>2. CASE d \in Levels
  <2>1. <<d>> \in Seq(Levels) /\ <<>> \in Seq(Levels)
    BY <1>2
  <2>2. QED
    BY <2>1 DEF Kept
<1>3. QED
  BY <1>1, <1>2 DEF Given

LEMMA ValidExists ==
    ASSUME NEW s \in Seq(Given)
    PROVE  \E f : ValidOf(s, f)
<1> DEFINE N == Len(s)
<1>0. N \in Nat /\ \A n \in 1..N : s[n] \in Given
  OBVIOUS
<1> DEFINE step == [n \in 1..N |-> [v \in Seq(Levels) |-> v \o Kept(s[n])]]
<1>1. \A n \in 1..N, v \in Seq(Levels) : v \o Kept(s[n]) \in Seq(Levels)
  <2>1. ASSUME NEW n \in 1..N, NEW v \in Seq(Levels) PROVE v \o Kept(s[n]) \in Seq(Levels)
    <3>1. Kept(s[n]) \in Seq(Levels)
      BY <1>0, KeptType
    <3>2. QED
      BY <3>1, ConcatProperties
  <2>2. QED
    BY <2>1
<1>2. step \in [1..N -> [Seq(Levels) -> Seq(Levels)]]
  BY <1>1
<1>3. \A n \in 1..N, v \in Seq(Levels) : step[n][v] = v \o Kept(s[n])
  OBVIOUS
<1>4. <<>> \in Seq(Levels)
  OBVIOUS
<1> HIDE DEF step, N
<1>5. PICK f \in [0..N -> Seq(Levels)] : Recurs(f, N, <<>>, step)
  BY <1>0, <1>2, <1>4, Recursion
<1>6. ASSUME NEW n \in 1..N PROVE f[n] = f[n - 1] \o Kept(s[n])
  <2>1. n - 1 \in 0..N
    BY <1>0
  <2>2. f[n - 1] \in Seq(Levels)
    BY <2>1
  <2>3. f[n] = step[n][f[n - 1]]
    BY <1>5 DEF Recurs
  <2>4. QED
    BY <1>3, <2>2, <2>3
<1>7. f = [n \in 0..N |-> f[n]]
  OBVIOUS
<1>8. ASSUME NEW n \in 0..N
      PROVE  f[n] = IF n = 0 THEN <<>> ELSE f[n - 1] \o Kept(s[n])
  <2>1. CASE n = 0
    BY <1>5, <2>1 DEF Recurs
  <2>2. CASE n # 0
    <3>1. n \in 1..N
      BY <1>0, <2>2
    <3>2. QED
      BY <1>6, <2>2, <3>1, Zenon
  <2>3. QED
    BY <2>1, <2>2
<1>9. f = [n \in 0..N |-> IF n = 0 THEN <<>> ELSE f[n - 1] \o Kept(s[n])]
  BY <1>7, <1>8, Zenon
<1>10. QED
  BY <1>9 DEF ValidOf, N

LEMMA ValidSteps ==
    ASSUME NEW s \in Seq(Given), NEW f, ValidOf(s, f)
    PROVE  /\ f[0] = <<>>
           /\ \A n \in 1..Len(s) : f[n] = f[n - 1] \o Kept(s[n])
<1>1. Len(s) \in Nat
  OBVIOUS
<1>2. \A n \in 0..Len(s) : f[n] = IF n = 0 THEN <<>> ELSE f[n - 1] \o Kept(s[n])
  BY DEF ValidOf
<1>3. 0 \in 0..Len(s) /\ \A n \in 1..Len(s) : n \in 0..Len(s) /\ n # 0
  BY <1>1
<1>4. QED
  BY <1>2, <1>3, Zenon

(* Valid(s) is what its recursion has read at the end of s.                *)
LEMMA ValidIs ==
    ASSUME NEW s \in Seq(Given)
    PROVE  \E f : ValidOf(s, f) /\ Valid(s) = f[Len(s)]
<1> DEFINE g == CHOOSE f : ValidOf(s, f)
<1>1. ValidOf(s, g)
  BY ValidExists
<1>2. Valid(s) = g[Len(s)]
  BY DEF Valid, ValidOf, Kept
<1>3. QED
  BY <1>1, <1>2

LEMMA ValidType ==
    ASSUME NEW s \in Seq(Given)
    PROVE  Valid(s) \in Seq(Levels)
<1>1. PICK f : ValidOf(s, f) /\ Valid(s) = f[Len(s)]
  BY ValidIs
<1>2. f[0] = <<>> /\ \A n \in 1..Len(s) : f[n] = f[n - 1] \o Kept(s[n])
  BY <1>1, ValidSteps
<1>3. Len(s) \in Nat /\ \A n \in 1..Len(s) : s[n] \in Given
  OBVIOUS
<1> DEFINE T == {n \in 0..Len(s) : f[n] \in Seq(Levels)}
<1>4. 0 \in T
  <2>1. 0 \in 0..Len(s) /\ <<>> \in Seq(Levels)
    BY <1>3
  <2>2. QED
    BY <1>2, <2>1, Zenon
<1>5. ASSUME NEW n \in 1..Len(s), n - 1 \in T PROVE n \in T
  <2>1. f[n - 1] \in Seq(Levels) /\ Kept(s[n]) \in Seq(Levels)
    BY <1>3, <1>5, KeptType
  <2>2. f[n - 1] \o Kept(s[n]) \in Seq(Levels)
    BY <2>1, ConcatProperties
  <2>3. n \in 0..Len(s)
    BY <1>3
  <2>4. QED
    BY <1>2, <2>2, <2>3, Zenon
<1>6. 0..Len(s) \subseteq T
  <2> HIDE DEF T
  <2>1. QED
    BY <1>3, <1>4, <1>5, UpTo
<1>7. QED
  BY <1>1, <1>3, <1>6

LEMMA ValidOfNone == Valid(<<>>) = <<>>
<1>1. <<>> \in Seq(Given) /\ Len(<<>>) = 0
  OBVIOUS
<1>2. PICK f : ValidOf(<<>>, f) /\ Valid(<<>>) = f[Len(<<>>)]
  BY <1>1, ValidIs
<1>3. f[0] = <<>>
  BY <1>1, <1>2, ValidSteps
<1>4. QED
  BY <1>1, <1>2, <1>3

LEMMA ValidAppend ==
    ASSUME NEW s \in Seq(Given), NEW d \in Given
    PROVE  Valid(Append(s, d)) = IF d = None THEN Valid(s) ELSE Append(Valid(s), d)
<1> DEFINE r == Append(s, d)
<1>1. /\ r \in Seq(Given) /\ Len(r) = Len(s) + 1 /\ Len(s) \in Nat
      /\ r[Len(s) + 1] = d /\ \A n \in 1..Len(s) : r[n] = s[n]
  OBVIOUS
<1> HIDE DEF r
<1>2. PICK f : ValidOf(s, f) /\ Valid(s) = f[Len(s)]
  BY ValidIs
<1>3. PICK g : ValidOf(r, g) /\ Valid(r) = g[Len(r)]
  BY <1>1, ValidIs
<1>4. f[0] = <<>> /\ \A n \in 1..Len(s) : f[n] = f[n - 1] \o Kept(s[n])
  BY <1>2, ValidSteps
<1>5. g[0] = <<>> /\ \A n \in 1..Len(r) : g[n] = g[n - 1] \o Kept(r[n])
  BY <1>1, <1>3, ValidSteps
<1> DEFINE T == {n \in 0..Len(s) : g[n] = f[n]}
<1>6. 0 \in T
  BY <1>1, <1>4, <1>5
<1>7. ASSUME NEW n \in 1..Len(s), n - 1 \in T PROVE n \in T
  <2>1. n \in 1..Len(r) /\ r[n] = s[n]
    BY <1>1
  <2>2. g[n] = f[n - 1] \o Kept(s[n])
    BY <1>5, <1>7, <2>1
  <2>3. n \in 0..Len(s)
    BY <1>1
  <2>4. QED
    BY <1>4, <2>2, <2>3, Zenon
<1>8. 0..Len(s) \subseteq T
  <2> HIDE DEF T
  <2>1. QED
    BY <1>1, <1>6, <1>7, UpTo
<1>9. g[Len(s)] = f[Len(s)]
  BY <1>1, <1>8
<1>10. g[Len(s) + 1] = g[Len(s)] \o Kept(d)
  <2>1. Len(s) + 1 \in 1..Len(r) /\ (Len(s) + 1) - 1 = Len(s)
    BY <1>1
  <2>2. QED
    BY <1>1, <1>5, <2>1
<1>11. Valid(r) = Valid(s) \o Kept(d)
  BY <1>1, <1>2, <1>3, <1>9, <1>10
<1>12. Valid(s) \in Seq(Levels)
  BY ValidType
<1>13. CASE d = None
  <2>1. Kept(d) = <<>>
    BY <1>13 DEF Kept
  <2>2. QED
    BY <1>11, <1>12, <1>13, <2>1, ConcatEmptySeq DEF r
<1>14. CASE d # None
  <2>1. d \in Levels /\ Kept(d) = <<d>>
    BY <1>14 DEF Given, Kept
  <2>2. Append(Valid(s), d) = Valid(s) \o <<d>>
    BY <1>12, <2>1, AppendIsConcat
  <2>3. QED
    BY <1>11, <1>14, <2>1, <2>2 DEF r
<1>15. QED
  BY <1>13, <1>14

-----------------------------------------------------------------------------
(***************************************************************************)
(* The criteria, over samples and in the counters.                         *)
(***************************************************************************)

(* The last n of the last k.                                               *)
LEMMA LastOfLast ==
    ASSUME NEW S, NEW s \in Seq(S), NEW k \in Nat, k <= Len(s), NEW n \in Nat, n <= k
    PROVE  LastOf(LastOf(s, k), n) = LastOf(s, n)
<1>1. /\ LastOf(s, k) \in Seq(S) /\ Len(LastOf(s, k)) = k
      /\ \A i \in 1..k : LastOf(s, k)[i] = s[Len(s) - k + i]
  BY LastOfAt
<1>2. Len(s) \in Nat
  OBVIOUS
<1>3. /\ LastOf(s, n) \in Seq(S) /\ Len(LastOf(s, n)) = n
      /\ \A i \in 1..n : LastOf(s, n)[i] = s[Len(s) - n + i]
  <2>1. n <= Len(s)
    BY <1>2
  <2>2. QED
    BY <2>1, LastOfAt
<1> DEFINE h == LastOf(s, k)
<1>4. h \in Seq(S) /\ Len(h) = k
  BY <1>1
<1> HIDE DEF h
<1>5. /\ LastOf(h, n) \in Seq(S) /\ Len(LastOf(h, n)) = n
      /\ \A i \in 1..n : LastOf(h, n)[i] = h[k - n + i]
  BY <1>4, LastOfAt
<1>6. ASSUME NEW i \in 1..n PROVE LastOf(h, n)[i] = LastOf(s, n)[i]
  <2>1. k - n + i \in 1..k /\ Len(s) - k + (k - n + i) = Len(s) - n + i
    BY <1>2
  <2>2. h[k - n + i] = s[Len(s) - k + (k - n + i)]
    BY <1>1, <2>1 DEF h
  <2>3. QED
    BY <1>3, <1>5, <2>1, <2>2
<1>7. LastOf(h, n) = LastOf(s, n)
  BY <1>3, <1>5, <1>6, SeqEqual
<1>8. QED
  BY <1>7 DEF h

(* A sequence ends with a row of n members of S, and no more.              *)
Row(s, n, S) ==
    /\ n \in 0..Len(s)
    /\ \A i \in (Len(s) - n + 1)..Len(s) : s[i] \in S
    /\ n < Len(s) => s[Len(s) - n] \notin S

LEMMA RowGrows ==
    ASSUME NEW X, NEW s \in Seq(X), NEW n, NEW S, Row(s, n, S), NEW e \in X, e \in S
    PROVE  Row(Append(s, e), n + 1, S)
<1> DEFINE r == Append(s, e)
<1>1. /\ Len(r) = Len(s) + 1 /\ Len(s) \in Nat
      /\ r[Len(s) + 1] = e /\ \A i \in 1..Len(s) : r[i] = s[i]
  OBVIOUS
<1> HIDE DEF r
<1>2. n \in 0..Len(s)
  BY DEF Row
<1>3. ASSUME NEW i \in (Len(r) - (n + 1) + 1)..Len(r) PROVE r[i] \in S
  <2>1. CASE i = Len(s) + 1
    BY <1>1, <2>1
  <2>2. CASE i # Len(s) + 1
    <3>1. i \in (Len(s) - n + 1)..Len(s) /\ i \in 1..Len(s)
      BY <1>1, <1>2, <2>2
    <3>2. QED
      BY <1>1, <3>1 DEF Row
  <2>3. QED
    BY <2>1, <2>2
<1>4. ASSUME n + 1 < Len(r) PROVE r[Len(r) - (n + 1)] \notin S
  <2>1. Len(r) - (n + 1) = Len(s) - n /\ Len(s) - n \in 1..Len(s) /\ n < Len(s)
    BY <1>1, <1>2, <1>4
  <2>2. QED
    BY <1>1, <2>1 DEF Row
<1>5. n + 1 \in 0..Len(r)
  BY <1>1, <1>2
<1>6. Row(r, n + 1, S)
  BY <1>3, <1>4, <1>5 DEF Row
<1>7. QED
  BY <1>6 DEF r

LEMMA RowBreaks ==
    ASSUME NEW X, NEW s \in Seq(X), NEW S, NEW e \in X, e \notin S
    PROVE  Row(Append(s, e), 0, S)
<1> DEFINE r == Append(s, e)
<1>1. Len(r) \in Nat /\ Len(r) # 0 /\ r[Len(r)] = e
  OBVIOUS
<1> HIDE DEF r
<1>2. Row(r, 0, S)
  BY <1>1 DEF Row
<1>3. QED
  BY <1>2 DEF r

(* The row reaches k when the last k are in S.                             *)
LEMMA RowFull ==
    ASSUME NEW X, NEW s \in Seq(X), NEW n, NEW S, Row(s, n, S), NEW k \in Nat
    PROVE  n >= k <=> Len(s) >= k /\ \A e \in Range(LastOf(s, k)) : e \in S
<1>1. n \in 0..Len(s) /\ Len(s) \in Nat
  BY DEF Row
<1>2. ASSUME Len(s) >= k
      PROVE  /\ DOMAIN LastOf(s, k) = 1..k
             /\ \A i \in 1..k : LastOf(s, k)[i] = s[Len(s) - k + i]
  <2>1. /\ LastOf(s, k) \in Seq(X) /\ Len(LastOf(s, k)) = k
        /\ \A i \in 1..k : LastOf(s, k)[i] = s[Len(s) - k + i]
    BY <1>1, <1>2, LastOfAt
  <2>2. QED
    BY <2>1
<1>3. ASSUME n >= k PROVE Len(s) >= k /\ \A e \in Range(LastOf(s, k)) : e \in S
  <2>1. Len(s) >= k
    BY <1>1, <1>3
  <2>2. ASSUME NEW i \in 1..k PROVE LastOf(s, k)[i] \in S
    <3>1. Len(s) - k + i \in (Len(s) - n + 1)..Len(s)
      BY <1>1, <1>3, <2>1
    <3>2. QED
      BY <1>2, <2>1, <3>1 DEF Row
  <2>3. QED
    BY <1>2, <2>1, <2>2 DEF Range
<1>4. ASSUME Len(s) >= k, \A e \in Range(LastOf(s, k)) : e \in S, n < k PROVE FALSE
  <2>1. k - n \in 1..k /\ Len(s) - k + (k - n) = Len(s) - n /\ n < Len(s)
    BY <1>1, <1>4
  <2>2. LastOf(s, k)[k - n] = s[Len(s) - n]
    BY <1>2, <1>4, <2>1
  <2>3. LastOf(s, k)[k - n] \in Range(LastOf(s, k))
    BY <1>2, <1>4, <2>1 DEF Range
  <2>4. QED
    BY <1>4, <2>1, <2>2, <2>3 DEF Row
<1>5. QED
  BY <1>1, <1>3, <1>4

(* What the counters say of the samples of a monitor that has not answered.*)
WeakLevels == {d \in Levels : Weak(d)}

Follows(t, s) ==
    /\ t.history = LastOf(Valid(s), Min2(Len(Valid(s)), HistoryLen))
    /\ t.last = IF Valid(s) = <<>> THEN None ELSE Valid(s)[Len(Valid(s))]
    /\ Row(s, t.weak, WeakLevels) /\ Row(s, t.unavailable, {None})
    /\ t.weak < WeakSamples /\ t.unavailable < LossSamples /\ ~t.poorSent

(* The ring buffer holds the last of the valid samples.                    *)
LEMMA HistoryFollows ==
    ASSUME NEW v \in Seq(Levels), NEW d \in Levels, NEW h,
           h = LastOf(v, Min2(Len(v), HistoryLen))
    PROVE  /\ h \in Seq(Levels) /\ Len(h) = Min2(Len(v), HistoryLen)
           /\ LastOf(Append(h, d), Min2(Len(h) + 1, HistoryLen))
                = LastOf(Append(v, d), Min2(Len(v) + 1, HistoryLen))
<1> DEFINE k == Min2(Len(v), HistoryLen)
           n == Min2(Len(v) + 1, HistoryLen)
<1>1. /\ Len(v) \in Nat /\ k \in Nat /\ k <= Len(v) /\ n \in Nat \ {0}
      /\ n <= Len(v) + 1 /\ n <= k + 1 /\ Min2(k + 1, HistoryLen) = n
  BY RsrpAssumption DEF Min2
<1> HIDE DEF k, n
<1>2. /\ h \in Seq(Levels) /\ Len(h) = k
      /\ \A i \in 1..k : h[i] = v[Len(v) - k + i]
  <2>1. h = LastOf(v, k)
    BY DEF k
  <2>2. /\ LastOf(v, k) \in Seq(Levels) /\ Len(LastOf(v, k)) = k
        /\ \A i \in 1..k : LastOf(v, k)[i] = v[Len(v) - k + i]
    BY <1>1, LastOfAt
  <2>3. QED
    BY <2>1, <2>2
<1> DEFINE g == Append(h, d)
           w == Append(v, d)
<1>3. /\ g \in Seq(Levels) /\ Len(g) = k + 1 /\ g[k + 1] = d
      /\ \A i \in 1..k : g[i] = h[i]
  BY <1>1, <1>2
<1>4. /\ w \in Seq(Levels) /\ Len(w) = Len(v) + 1 /\ w[Len(v) + 1] = d
      /\ \A i \in 1..Len(v) : w[i] = v[i]
  BY <1>1
<1> HIDE DEF g, w
<1>5. /\ LastOf(g, n) \in Seq(Levels) /\ Len(LastOf(g, n)) = n
      /\ \A i \in 1..n : LastOf(g, n)[i] = g[Len(g) - n + i]
  <2>1. n \in Nat /\ n <= Len(g) /\ g \in Seq(Levels)
    BY <1>1, <1>3
  <2>2. QED
    BY <2>1, LastOfAt
<1>6. /\ LastOf(w, n) \in Seq(Levels) /\ Len(LastOf(w, n)) = n
      /\ \A i \in 1..n : LastOf(w, n)[i] = w[Len(v) + 1 - n + i]
  <2>1. n \in Nat /\ n <= Len(w) /\ w \in Seq(Levels)
    BY <1>1, <1>4
  <2>2. /\ LastOf(w, n) \in Seq(Levels) /\ Len(LastOf(w, n)) = n
        /\ \A i \in 1..n : LastOf(w, n)[i] = w[Len(w) - n + i]
    BY <2>1, LastOfAt
  <2>3. QED
    BY <1>4, <2>2
<1>7. ASSUME NEW i \in 1..n PROVE LastOf(g, n)[i] = LastOf(w, n)[i]
  <2>1. CASE i = n
    <3>1. Len(g) - n + i = k + 1 /\ Len(v) + 1 - n + i = Len(v) + 1
      BY <1>1, <1>3, <2>1
    <3>2. QED
      BY <1>3, <1>4, <1>5, <1>6, <3>1
  <2>2. CASE i # n
    <3>1. /\ k + 1 - n + i \in 1..k /\ Len(g) - n + i = k + 1 - n + i
          /\ Len(v) + 1 - n + i \in 1..Len(v)
          /\ Len(v) - k + (k + 1 - n + i) = Len(v) + 1 - n + i
      BY <1>1, <1>3, <2>2
    <3>2. g[k + 1 - n + i] = v[Len(v) + 1 - n + i]
      BY <1>2, <1>3, <3>1
    <3>3. w[Len(v) + 1 - n + i] = v[Len(v) + 1 - n + i]
      BY <1>4, <3>1
    <3>4. QED
      BY <1>5, <1>6, <3>1, <3>2, <3>3
  <2>3. QED
    BY <2>1, <2>2
<1>8. LastOf(g, n) = LastOf(w, n)
  BY <1>5, <1>6, <1>7, SeqEqual
<1>9. Min2(Len(h) + 1, HistoryLen) = n
  BY <1>1, <1>2
<1>10. QED
  BY <1>2, <1>8, <1>9 DEF g, w, k, n

(* What AddSample() and Tracked() leave in each field.                     *)
LEMMA AddSampleFields ==
    ASSUME NEW t \in Tracking, NEW d \in Levels
    PROVE  /\ AddSample(t, d).history
                = LastOf(Append(t.history, d), Min2(Len(t.history) + 1, HistoryLen))
           /\ AddSample(t, d).unavailable = 0 /\ AddSample(t, d).weak = t.weak
           /\ AddSample(t, d).poorSent = t.poorSent
BY DEF AddSample, Tracking

LEMMA TrackedFields ==
    ASSUME NEW t \in Tracking, NEW d \in Levels
    PROVE  /\ Tracked(t, d).history
                = LastOf(Append(t.history, d), Min2(Len(t.history) + 1, HistoryLen))
           /\ Tracked(t, d).weak = IF Weak(d) THEN Min2(t.weak + 1, WeakSamples) ELSE 0
           /\ Tracked(t, d).unavailable = 0 /\ Tracked(t, d).last = d
           /\ Tracked(t, d).poorSent = t.poorSent
<1>1. AddSample(t, d) \in Tracking
  BY AddSampleType
<1>2. /\ AddSample(t, d).history
           = LastOf(Append(t.history, d), Min2(Len(t.history) + 1, HistoryLen))
      /\ AddSample(t, d).unavailable = 0 /\ AddSample(t, d).weak = t.weak
      /\ AddSample(t, d).poorSent = t.poorSent
  BY AddSampleFields
<1>3. QED
  BY <1>1, <1>2 DEF Tracked, Tracking

(* rsrp_trend_worsening() sees the last three of all the valid samples.    *)
LEMMA TrendIsFallen ==
    ASSUME NEW v \in Seq(Levels), NEW k \in Nat, k = Min2(Len(v), HistoryLen)
    PROVE  TrendWorsening(LastOf(v, k)) <=> Fallen(v, 3)
<1>1. Len(v) \in Nat /\ k <= Len(v) /\ (k >= 3 <=> Len(v) >= 3)
  BY RsrpAssumption DEF Min2
<1>2. Len(LastOf(v, k)) = k
  BY <1>1, LastOfAt
<1>3. CASE k < 3
  BY <1>1, <1>2, <1>3 DEF TrendWorsening, Fallen
<1>4. CASE k >= 3
  <2>1. LastOf(LastOf(v, k), 3) = LastOf(v, 3)
    BY <1>1, <1>4, LastOfLast
  <2> DEFINE l == LastOf(v, 3)
  <2>2. TrendWorsening(LastOf(v, k)) <=> l[3] < l[2] /\ l[2] < l[1] /\ l[1] - l[3] >= DropDb
    BY <1>2, <1>4, <2>1 DEF TrendWorsening
  <2>3. Fallen(v, 3) <=> (\A i \in 2..3 : l[i] < l[i - 1]) /\ l[1] - l[3] >= DropDb
    BY <1>1, <1>4 DEF Fallen
  <2> HIDE DEF l
  <2>4. (\A i \in 2..3 : l[i] < l[i - 1]) <=> l[3] < l[2] /\ l[2] < l[1]
    OBVIOUS
  <2>5. QED
    BY <2>2, <2>3, <2>4
<1>5. QED
  BY <1>1, <1>3, <1>4

(* The drop from the last sample is that of the last two valid ones.       *)
LEMMA DropIsFallen ==
    ASSUME NEW v \in Seq(Levels), NEW d \in Levels, NEW last,
           last = IF v = <<>> THEN None ELSE v[Len(v)]
    PROVE  (last # None /\ d - last <= -DropDb) <=> Fallen(Append(v, d), 2)
<1> DEFINE w == Append(v, d)
<1>1. /\ w \in Seq(Levels) /\ Len(w) = Len(v) + 1 /\ Len(v) \in Nat
      /\ w[Len(v) + 1] = d /\ \A i \in 1..Len(v) : w[i] = v[i]
  OBVIOUS
<1> HIDE DEF w
<1>2. CASE v = <<>>
  <2>1. Len(w) < 2 /\ last = None
    BY <1>1, <1>2
  <2>2. QED
    BY <1>1, <2>1 DEF Fallen, w
<1>3. CASE v # <<>>
  <2>1. Len(v) \in 1..Len(v) /\ last = v[Len(v)] /\ last \in Levels
    BY <1>3
  <2>2. last # None /\ last \in Int /\ d \in Int /\ DropDb \in Nat \ {0}
    BY <2>1, RsrpAssumption DEF None
  <2> DEFINE l == LastOf(w, 2)
  <2>3. \A i \in 1..2 : l[i] = w[Len(w) - 2 + i]
    <3>1. 2 \in Nat /\ 2 <= Len(w) /\ w \in Seq(Levels)
      BY <1>1, <2>1
    <3>2. \A i \in 1..2 : LastOf(w, 2)[i] = w[Len(w) - 2 + i]
      BY <3>1, LastOfAt
    <3>3. QED
      BY <3>2
  <2>4. l[1] = last /\ l[2] = d
    BY <1>1, <2>1, <2>3
  <2>5. Fallen(w, 2) <=> (\A i \in 2..2 : l[i] < l[i - 1]) /\ l[1] - l[2] >= DropDb
    BY <1>1, <2>1 DEF Fallen
  <2> HIDE DEF l
  <2>6. Fallen(w, 2) <=> d < last /\ last - d >= DropDb
    BY <2>4, <2>5
  <2>7. QED
    BY <2>2, <2>6 DEF w
<1>4. QED
  BY <1>2, <1>3

(* A sample of a level: the verdict is the criterion, and without one the  *)
(* counters go on following.                                               *)
LEMMA LevelFollows ==
    ASSUME NEW t \in Tracking, NEW s \in Seq(Given), Follows(t, s), NEW d \in Levels
    PROVE  /\ ~LostForLong(Append(s, d))
           /\ ShouldPublishPoor(t, d) <=> Degraded(Append(s, d))
           /\ ~ShouldPublishPoor(t, d) =>
                 Follows([Tracked(t, d) EXCEPT !.poorSent = FALSE], Append(s, d))
<1> DEFINE r == Append(s, d)
           v == Valid(s)
           k == Min2(Len(v) + 1, HistoryLen)
<1>1. d \in Given /\ d # None /\ d \notin {None} /\ (Weak(d) <=> d \in WeakLevels)
  BY RsrpAssumption DEF Given, None, WeakLevels
<1>2. r \in Seq(Given) /\ r # <<>> /\ r[Len(r)] = d
  BY <1>1
<1>3. v \in Seq(Levels) /\ Valid(r) = Append(v, d)
  BY <1>1, ValidType, ValidAppend
<1>4. /\ t.history = LastOf(v, Min2(Len(v), HistoryLen))
      /\ t.last = IF v = <<>> THEN None ELSE v[Len(v)]
      /\ Row(s, t.weak, WeakLevels) /\ Row(s, t.unavailable, {None})
      /\ t.weak < WeakSamples /\ t.unavailable < LossSamples /\ ~t.poorSent
  BY DEF Follows
<1>5. /\ Tracked(t, d).history
           = LastOf(Append(t.history, d), Min2(Len(t.history) + 1, HistoryLen))
      /\ Tracked(t, d).weak = IF Weak(d) THEN Min2(t.weak + 1, WeakSamples) ELSE 0
      /\ Tracked(t, d).unavailable = 0 /\ Tracked(t, d).last = d
  BY TrackedFields
<1>6. t.weak \in Nat /\ t.weak + 1 <= WeakSamples /\ Min2(t.weak + 1, WeakSamples) = t.weak + 1
  <2>1. t.weak \in 0..WeakSamples
    BY DEF Tracking
  <2>2. QED
    BY <1>4, <2>1, RsrpAssumption DEF Min2
<1> HIDE DEF r, v
<1>7. Tracked(t, d).history = LastOf(Valid(r), k)
  BY <1>3, <1>4, <1>5, HistoryFollows, Zenon
<1>8. Len(Valid(r)) = Len(v) + 1 /\ Len(v) \in Nat /\ k \in Nat
  BY <1>3, RsrpAssumption DEF Min2
<1>9. Row(r, Tracked(t, d).weak, WeakLevels)
  <2>1. CASE Weak(d)
    <3>1. Row(Append(s, d), t.weak + 1, WeakLevels)
      BY <1>1, <1>4, <2>1, RowGrows
    <3>2. QED
      BY <1>5, <1>6, <2>1, <3>1 DEF r
  <2>2. CASE ~Weak(d)
    <3>1. Row(Append(s, d), 0, WeakLevels)
      BY <1>1, <2>2, RowBreaks
    <3>2. QED
      BY <1>5, <2>2, <3>1 DEF r
  <2>3. QED
    BY <2>1, <2>2
<1>10. Row(r, 0, {None})
  <2>1. Row(Append(s, d), 0, {None})
    BY <1>1, RowBreaks
  <2>2. QED
    BY <2>1 DEF r
<1>11. ~LostForLong(r)
  <2>1. 0 >= LossSamples <=>
            Len(r) >= LossSamples /\ \A e \in Range(LastOf(r, LossSamples)) : e \in {None}
    BY <1>2, <1>10, RowFull, RsrpAssumption
  <2>2. QED
    BY <2>1, RsrpAssumption DEF LostForLong
<1>12. Tracked(t, d).weak >= WeakSamples <=> WeakInARow(r)
  <2>1. WeakSamples \in Nat
    BY RsrpAssumption
  <2>2. Tracked(t, d).weak >= WeakSamples <=>
            /\ Len(r) >= WeakSamples
            /\ \A e \in Range(LastOf(r, WeakSamples)) : e \in WeakLevels
    BY <1>2, <1>9, <2>1, RowFull
  <2>3. ASSUME Len(r) >= WeakSamples, NEW e \in Range(LastOf(r, WeakSamples))
        PROVE  e \in WeakLevels <=> e # None /\ Weak(e)
    <3>1. LastOf(r, WeakSamples) \in Seq(Given)
      BY <1>2, <2>1, <2>3, LastOfAt
    <3>2. e \in Given
      BY <2>3, <3>1 DEF Range
    <3>3. QED
      BY <3>2, RsrpAssumption DEF Given, WeakLevels, None
  <2>4. QED
    BY <2>2, <2>3 DEF WeakInARow
<1>13. (t.last # None /\ d - t.last <= -DropDb) <=> Fallen(Valid(r), 2)
  BY <1>3, <1>4, DropIsFallen
<1>14. TrendWorsening(Tracked(t, d).history) <=> Fallen(Valid(r), 3)
  <2>1. Valid(r) \in Seq(Levels) /\ k = Min2(Len(Valid(r)), HistoryLen)
    BY <1>2, <1>8, ValidType
  <2>2. QED
    BY <1>7, <1>8, <2>1, TrendIsFallen
<1>15. ShouldPublishPoor(t, d) <=> Degraded(r)
  BY <1>1, <1>2, <1>12, <1>13, <1>14 DEF ShouldPublishPoor, Degraded
<1>16. ASSUME ~ShouldPublishPoor(t, d)
       PROVE  Follows([Tracked(t, d) EXCEPT !.poorSent = FALSE], r)
  <2> DEFINE u == [Tracked(t, d) EXCEPT !.poorSent = FALSE]
  <2>1. /\ u.history = Tracked(t, d).history /\ u.weak = Tracked(t, d).weak
        /\ u.unavailable = 0 /\ u.last = d /\ ~u.poorSent
    BY <1>5, TrackedType DEF Tracking
  <2> HIDE DEF u
  <2>2. u.history = LastOf(Valid(r), Min2(Len(Valid(r)), HistoryLen))
    BY <1>7, <1>8, <2>1
  <2>3. u.last = IF Valid(r) = <<>> THEN None ELSE Valid(r)[Len(Valid(r))]
    BY <1>3, <2>1
  <2>4. u.weak < WeakSamples
    <3>1. ~(Weak(d) /\ Tracked(t, d).weak >= WeakSamples)
      BY <1>16 DEF ShouldPublishPoor
    <3>2. QED
      BY <1>5, <1>6, <2>1, <3>1, RsrpAssumption
  <2>5. 0 < LossSamples
    BY RsrpAssumption
  <2>6. Follows(u, r)
    BY <1>9, <1>10, <2>1, <2>2, <2>3, <2>4, <2>5 DEF Follows
  <2>7. QED
    BY <2>6 DEF u
<1>17. QED
  BY <1>11, <1>15, <1>16 DEF r

(* A sample the modem does not give.                                       *)
LEMMA LossFollows ==
    ASSUME NEW t \in Tracking, NEW s \in Seq(Given), Follows(t, s)
    PROVE  /\ ~Degraded(Append(s, None))
           /\ LossLimitReached(RecordUnavailable(t)) <=> LostForLong(Append(s, None))
           /\ ~LossLimitReached(RecordUnavailable(t)) =>
                 Follows([RecordUnavailable(t) EXCEPT !.poorSent = FALSE], Append(s, None))
           /\ ~RecordUnavailable(t).poorSent
<1> DEFINE r == Append(s, None)
<1>1. None \in Given /\ None \in {None} /\ None \notin WeakLevels
  BY RsrpAssumption DEF Given, None, WeakLevels
<1>2. r \in Seq(Given) /\ r # <<>> /\ r[Len(r)] = None
  BY <1>1
<1>3. Valid(r) = Valid(s)
  BY <1>1, ValidAppend
<1>4. /\ t.history = LastOf(Valid(s), Min2(Len(Valid(s)), HistoryLen))
      /\ t.last = IF Valid(s) = <<>> THEN None ELSE Valid(s)[Len(Valid(s))]
      /\ Row(s, t.unavailable, {None})
      /\ t.unavailable < LossSamples /\ ~t.poorSent
  BY DEF Follows
<1>5. /\ RecordUnavailable(t).history = t.history /\ RecordUnavailable(t).last = t.last
      /\ RecordUnavailable(t).weak = 0 /\ RecordUnavailable(t).poorSent = t.poorSent
      /\ RecordUnavailable(t).unavailable = Min2(t.unavailable + 1, LossSamples)
  BY DEF RecordUnavailable, Tracking
<1>6. t.unavailable \in Nat /\ Min2(t.unavailable + 1, LossSamples) = t.unavailable + 1
  <2>1. t.unavailable \in 0..LossSamples
    BY DEF Tracking
  <2>2. QED
    BY <1>4, <2>1, RsrpAssumption DEF Min2
<1>7. Row(r, 0, WeakLevels) /\ Row(r, t.unavailable + 1, {None})
  <2>1. Row(Append(s, None), 0, WeakLevels)
    BY <1>1, RowBreaks
  <2>2. Row(Append(s, None), t.unavailable + 1, {None})
    BY <1>1, <1>4, RowGrows
  <2>3. QED
    BY <2>1, <2>2
<1> HIDE DEF r
<1>8. ~Degraded(r)
  BY <1>2 DEF Degraded
<1>9. LossLimitReached(RecordUnavailable(t)) <=> LostForLong(r)
  <2>1. LossSamples \in Nat \ {0}
    BY RsrpAssumption
  <2>2. t.unavailable + 1 >= LossSamples <=>
            Len(r) >= LossSamples /\ \A e \in Range(LastOf(r, LossSamples)) : e \in {None}
    BY <1>2, <1>7, <2>1, RowFull
  <2>3. ASSUME Len(r) >= LossSamples PROVE Range(LastOf(r, LossSamples)) # {}
    <3>1. LastOf(r, LossSamples) \in Seq(Given) /\ Len(LastOf(r, LossSamples)) = LossSamples
      BY <1>2, <2>1, <2>3, LastOfAt
    <3>2. 1 \in DOMAIN LastOf(r, LossSamples)
      BY <2>1, <3>1
    <3>3. QED
      BY <3>2 DEF Range
  <2>4. QED
    BY <1>5, <1>6, <2>2, <2>3 DEF LossLimitReached, LostForLong
<1>10. ASSUME ~LossLimitReached(RecordUnavailable(t))
       PROVE  Follows([RecordUnavailable(t) EXCEPT !.poorSent = FALSE], r)
  <2> DEFINE u == [RecordUnavailable(t) EXCEPT !.poorSent = FALSE]
  <2>1. /\ u.history = t.history /\ u.last = t.last /\ u.weak = 0
        /\ u.unavailable = t.unavailable + 1 /\ ~u.poorSent
    BY <1>5, <1>6, UnavailableType DEF Tracking
  <2>2. t.unavailable + 1 < LossSamples
    BY <1>5, <1>6, <1>10, RsrpAssumption DEF LossLimitReached
  <2> HIDE DEF u
  <2>3. 0 < WeakSamples
    BY RsrpAssumption
  <2>4. Follows(u, r)
    BY <1>3, <1>4, <1>7, <2>1, <2>2, <2>3 DEF Follows
  <2>5. QED
    BY <2>4 DEF u
<1>11. QED
  BY <1>4, <1>5, <1>8, <1>9, <1>10 DEF r

LEMMA ClearedFollows == Follows(Cleared, <<>>) /\ ~LostForLong(<<>>) /\ ~Degraded(<<>>)
<1>1. Valid(<<>>) = <<>>
  BY ValidOfNone
<1>2. Len(<<>>) = 0 /\ Min2(0, HistoryLen) = 0
  BY RsrpAssumption DEF Min2
<1>3. Row(<<>>, 0, WeakLevels) /\ Row(<<>>, 0, {None})
  BY <1>2 DEF Row
<1>4. LastOf(<<>>, 0) = <<>>
  <2>1. <<>> \in Seq(Levels) /\ Len(<<>>) = 0 /\ 0 \in Nat /\ 0 <= 0
    OBVIOUS
  <2>2. LastOf(<<>>, 0) \in Seq(Levels) /\ Len(LastOf(<<>>, 0)) = 0
    BY <2>1, LastOfAt
  <2>3. QED
    BY <2>2, EmptySeq
<1>5. 0 < WeakSamples /\ 0 < LossSamples
  BY RsrpAssumption
<1>6. Follows(Cleared, <<>>)
  BY <1>1, <1>2, <1>3, <1>4, <1>5 DEF Follows, Cleared
<1>7. ~LostForLong(<<>>) /\ ~Degraded(<<>>)
  BY <1>2, <1>5, RsrpAssumption DEF LostForLong, Degraded
<1>8. QED
  BY <1>6, <1>7

LEMMA LastOfAll == ASSUME NEW S, NEW s \in Seq(S) PROVE LastOf(s, Len(s)) = s
<1> DEFINE n == Len(s)
<1>1. n \in Nat /\ n <= Len(s)
  OBVIOUS
<1> HIDE DEF n
<1>2. /\ LastOf(s, n) \in Seq(S) /\ Len(LastOf(s, n)) = n
      /\ \A i \in 1..n : LastOf(s, n)[i] = s[Len(s) - n + i]
  BY <1>1, LastOfAt
<1>3. \A i \in 1..n : Len(s) - n + i = i
  BY <1>1 DEF n
<1>4. LastOf(s, n) = s
  BY <1>2, <1>3, SeqEqual DEF n
<1>5. QED
  BY <1>4 DEF n

(* A probe's history holds all of its valid samples.                       *)
LEMMA ProbeHistory ==
    ASSUME NEW t \in Tracking, NEW s \in Seq(Given), NEW d \in Levels,
           t.history = Valid(s), Len(t.history) < ProbeSamples
    PROVE  AddSample(t, d).history = Valid(Append(s, d))
<1> DEFINE v == Valid(s)
<1>1. d \in Given /\ d # None
  BY RsrpAssumption DEF Given, None
<1>2. v \in Seq(Levels) /\ Valid(Append(s, d)) = Append(v, d)
  BY <1>1, ValidType, ValidAppend
<1>3. AddSample(t, d).history = LastOf(Append(v, d), Min2(Len(v) + 1, HistoryLen))
  BY AddSampleFields
<1> HIDE DEF v
<1>4. Append(v, d) \in Seq(Levels) /\ Len(Append(v, d)) = Len(v) + 1
  BY <1>2
<1>5. Min2(Len(v) + 1, HistoryLen) = Len(Append(v, d))
  BY <1>2, <1>4, RsrpAssumption DEF Min2, v
<1>6. LastOf(Append(v, d), Len(Append(v, d))) = Append(v, d)
  BY <1>4, LastOfAll
<1>7. QED
  BY <1>2, <1>3, <1>5, <1>6

(* An average rounded up that reaches a level is of a sum less than a whole*)
(* dBm a sample short of it.                                               *)
LEMMA AverageReaches ==
    ASSUME NEW h \in Seq(Levels), NEW n \in Nat \ {0}, Len(h) = n,
           NEW level \in Int, Average(h) >= level
    PROVE  Sum(h) > n * (level - 1)
<1>1. h \in Seq(Int)
  BY RsrpAssumption, SeqMonotonic
<1>2. Sum(h) \in Int
  BY <1>1, SumIsInt
<1> DEFINE S == Sum(h)
           q == (-S) \div n
<1>3. Average(h) = -q
  BY DEF Average
<1> HIDE DEF S
<1>4. S \in Int
  BY <1>2 DEF S
<1>5. q \in Int /\ -S < n * q + n
  BY <1>4
<1> HIDE DEF q
<1>6. -level - q \in Nat
  BY <1>3, <1>5
<1>7. n * (-level - q) >= 0
  BY <1>6
<1>8. n * (-level - q) = n * (-level) - n * q /\ n * (level - 1) = -(n * (-level)) - n
  BY <1>5
<1>9. n * (-level) \in Int /\ n * q \in Int
  BY <1>5
<1>10. S > n * (level - 1)
  <2>1. n * (-level) - n * q >= 0
    BY <1>7, <1>8
  <2>2. S > -(n * (-level)) - n
    BY <1>4, <1>5, <1>9, <2>1
  <2>3. QED
    BY <1>8, <2>2
<1>11. QED
  BY <1>10 DEF S

-----------------------------------------------------------------------------
(***************************************************************************)
(* The samples and the answers.                                            *)
(***************************************************************************)

(* What a handler's samples have made of the tracking...                   *)
TrackingOfQuestion ==
    /\ asked = "MONITOR" => running # "PROBE" /\ answer # "LTE_GOOD"
    /\ asked = "PROBE" => running # "MONITOR"
    /\ asked = "MONITOR" /\ answer = "none" => Follows(tracking, seen)
    /\ asked = "PROBE" /\ answer = "none" =>
           tracking.history = Valid(seen) /\ Len(tracking.history) < ProbeSamples

(* ...and the answers given on them.                                       *)
SampleInv == TrackingOfQuestion /\ MonitorFollowsSamples /\ GoodOnFreshSamples

LEMMA SampleInvInit == ASSUME Init PROVE SampleInv
BY DEF Init, SampleInv, TrackingOfQuestion, MonitorFollowsSamples, GoodOnFreshSamples

(* A step that takes no sample and asks nothing.                           *)
LEMMA SampleInvKept ==
    ASSUME SampleInv, UNCHANGED <<tracking, asked, answer, seen>>,
           running' \in {running, asked, "IDLE", "NTN_MONITOR"}
    PROVE  SampleInv'
<1>1. /\ tracking' = tracking /\ asked' = asked /\ answer' = answer /\ seen' = seen
  OBVIOUS
<1>2. TrackingOfQuestion'
  BY <1>1 DEF SampleInv, TrackingOfQuestion
<1>3. MonitorFollowsSamples' /\ GoodOnFreshSamples'
  BY <1>1 DEF SampleInv, MonitorFollowsSamples, GoodOnFreshSamples
<1>4. QED
  BY <1>2, <1>3 DEF SampleInv

(* A question clears what was counted, also under a handler in flight.     *)
LEMMA SampleInvReset == ASSUME Inv, SampleInv, ResetSignalTracking PROVE SampleInv'
<1>1. /\ CallStep("reset") /\ tracking' = Cleared /\ asked' = call.to
      /\ answer' = "none" /\ seen' = <<>> /\ running' = running
  BY DEF ResetSignalTracking, CallStep
<1>2. Called
  BY <1>1 DEF CallStep, Called
<1>3. /\ call.to = "MONITOR" => running # "PROBE"
      /\ call.to = "PROBE" => running # "MONITOR"
  BY <1>2 DEF Inv, HandlerOfCall, Asking
<1>4. Follows(Cleared, <<>>) /\ ~LostForLong(<<>>) /\ ~Degraded(<<>>)
  BY ClearedFollows
<1>5. Cleared.history = Valid(<<>>) /\ Len(Cleared.history) < ProbeSamples
  BY ValidOfNone, RsrpAssumption DEF Cleared
<1>6. TrackingOfQuestion'
  BY <1>1, <1>3, <1>4, <1>5 DEF TrackingOfQuestion
<1>7. MonitorFollowsSamples' /\ GoodOnFreshSamples'
  BY <1>1, <1>4 DEF MonitorFollowsSamples, GoodOnFreshSamples
<1>8. QED
  BY <1>6, <1>7 DEF SampleInv

(* A sample, whoever asked for it.                                         *)
LEMMA SampleInvLoss == ASSUME Inv, SampleInv, SampleUnavailable PROVE SampleInv'
<1>1. /\ running \in Asking /\ HandlerEnds /\ seen' = Append(seen, None)
      /\ asked' = asked /\ running' = "IDLE" /\ answer = "none"
  BY DEF SampleUnavailable, Sampled, HandlerEnds, Inv, OvertakenSeesNothing, Asking
<1>2. tracking \in Tracking /\ seen \in Seq(Given)
  BY DEF Inv, TypeOK, Given
<1> DEFINE t == RecordUnavailable(tracking)
           poor == LossLimitReached(t) /\ (running = "PROBE" \/ ~t.poorSent)
<1>3. /\ tracking' = [t EXCEPT !.poorSent = @ \/ (poor /\ running = "MONITOR")]
      /\ IF poor THEN answer' = "LTE_POOR" ELSE answer' = "none"
  BY <1>1 DEF SampleUnavailable, Publishes, Reschedules
<1>4. t \in Tracking
  BY <1>2, UnavailableType
<1>5. CASE asked = "MONITOR"
  <2>1. Follows(tracking, seen) /\ running = "MONITOR"
    BY <1>1, <1>5 DEF SampleInv, TrackingOfQuestion, Asking
  <2>2. /\ ~Degraded(Append(seen, None)) /\ ~t.poorSent
        /\ LossLimitReached(t) <=> LostForLong(Append(seen, None))
        /\ ~LossLimitReached(t) => Follows([t EXCEPT !.poorSent = FALSE], Append(seen, None))
    BY <1>2, <2>1, LossFollows
  <2>3. poor <=> LostForLong(Append(seen, None))
    BY <2>2
  <2>4. ~poor => tracking' = [t EXCEPT !.poorSent = FALSE]
    BY <1>3, <1>4, <2>1, <2>2 DEF Tracking
  <2>5. TrackingOfQuestion'
    BY <1>1, <1>3, <1>5, <2>2, <2>3, <2>4 DEF TrackingOfQuestion
  <2>6. MonitorFollowsSamples' /\ GoodOnFreshSamples'
    BY <1>1, <1>3, <1>5, <2>2, <2>3 DEF MonitorFollowsSamples, GoodOnFreshSamples
  <2>7. QED
    BY <2>5, <2>6 DEF SampleInv
<1>6. CASE asked # "MONITOR"
  <2>1. GoodOnFreshSamples' /\ MonitorFollowsSamples'
    BY <1>1, <1>3, <1>6 DEF GoodOnFreshSamples, MonitorFollowsSamples
  <2>2. tracking'.history = tracking.history
    BY <1>2, <1>3, <1>4 DEF RecordUnavailable, Tracking
  <2>3. Valid(Append(seen, None)) = Valid(seen)
    BY <1>2, ValidAppend DEF Given
  <2>4. TrackingOfQuestion'
    BY <1>1, <1>6, <2>2, <2>3 DEF TrackingOfQuestion, SampleInv
  <2>5. QED
    BY <2>1, <2>4 DEF SampleInv
<1>7. QED
  BY <1>5, <1>6

LEMMA SampleInvMonitor ==
    ASSUME Inv, SampleInv, NEW d \in Levels, MonitorSample(d)
    PROVE  SampleInv'
<1>1. /\ running = "MONITOR" /\ seen' = Append(seen, d)
      /\ asked' = asked /\ running' = "IDLE" /\ answer = "none"
      /\ answer' \in {"none", "LTE_POOR"}
  BY DEF MonitorSample, Sampled, HandlerEnds, Inv, OvertakenSeesNothing, Asking,
         Reschedules, Publishes
<1>2. tracking \in Tracking /\ seen \in Seq(Given)
  BY DEF Inv, TypeOK, Given
<1>3. asked # "PROBE"
  BY <1>1 DEF SampleInv, TrackingOfQuestion
<1>4. CASE asked = "MONITOR"
  <2> DEFINE poor == ShouldPublishPoor(tracking, d)
  <2>1. Follows(tracking, seen)
    BY <1>1, <1>4 DEF SampleInv, TrackingOfQuestion
  <2>2. /\ ~LostForLong(Append(seen, d)) /\ (poor <=> Degraded(Append(seen, d)))
        /\ ~poor => Follows([Tracked(tracking, d) EXCEPT !.poorSent = FALSE], Append(seen, d))
    BY <1>2, <2>1, LevelFollows
  <2>3. ~tracking.poorSent
    BY <2>1 DEF Follows
  <2>4. /\ tracking' = [Tracked(tracking, d) EXCEPT !.poorSent = poor]
        /\ IF poor THEN Publishes("LTE_POOR") ELSE Reschedules
    BY <2>3 DEF MonitorSample
  <2>5. IF poor THEN answer' = "LTE_POOR" ELSE answer' = "none"
    BY <1>1, <2>4 DEF Publishes, Reschedules
  <2>6. ~poor => tracking' = [Tracked(tracking, d) EXCEPT !.poorSent = FALSE]
    <3>1. poor \in BOOLEAN
      BY DEF ShouldPublishPoor
    <3>2. ~poor => poor = FALSE
      BY <3>1
    <3> HIDE DEF poor
    <3>3. QED
      BY <2>4, <3>2
  <2> HIDE DEF poor
  <2>7. TrackingOfQuestion'
    BY <1>1, <1>4, <2>2, <2>5, <2>6 DEF TrackingOfQuestion
  <2>8. MonitorFollowsSamples' /\ GoodOnFreshSamples'
    BY <1>1, <1>4, <2>2, <2>5 DEF MonitorFollowsSamples, GoodOnFreshSamples
  <2>9. QED
    BY <2>7, <2>8 DEF SampleInv
<1>5. CASE asked # "MONITOR"
  BY <1>1, <1>3, <1>5
     DEF SampleInv, TrackingOfQuestion, MonitorFollowsSamples, GoodOnFreshSamples
<1>6. QED
  BY <1>4, <1>5

LEMMA SampleInvProbe ==
    ASSUME Inv, SampleInv, NEW d \in Levels, ProbeSample(d)
    PROVE  SampleInv'
<1>1. /\ running = "PROBE" /\ seen' = Append(seen, d)
      /\ asked' = asked /\ running' = "IDLE" /\ answer = "none"
      /\ tracking' = AddSample(tracking, d)
      /\ IF Len(tracking'.history) < ProbeSamples
         THEN answer' = "none"
         ELSE answer' = IF Average(tracking'.history) >= RecoveryDbm
                        THEN "LTE_GOOD" ELSE "LTE_POOR"
  BY DEF ProbeSample, Sampled, HandlerEnds, Inv, OvertakenSeesNothing, Asking,
         Reschedules, Publishes
<1>2. tracking \in Tracking /\ seen \in Seq(Given)
  BY DEF Inv, TypeOK, Given
<1>3. asked # "MONITOR"
  BY <1>1 DEF SampleInv, TrackingOfQuestion
<1>4. CASE asked = "PROBE"
  <2>1. tracking.history = Valid(seen) /\ Len(tracking.history) < ProbeSamples
    BY <1>1, <1>4 DEF SampleInv, TrackingOfQuestion
  <2>2. tracking'.history = Valid(seen')
    BY <1>1, <1>2, <2>1, ProbeHistory
  <2>3. seen' \in Seq(Given)
    BY <1>1, <1>2 DEF Given
  <2>4. Valid(seen') \in Seq(Levels)
    BY <2>3, ValidType
  <2>5. Len(Valid(seen')) <= ProbeSamples
    <3>1. Len(AddSample(tracking, d).history) <= Len(tracking.history) + 1
      BY <1>2, AddSampleType
    <3>2. Len(tracking.history) \in Nat /\ Len(Valid(seen')) \in Nat
      BY <1>2, <2>1, <2>4, ValidType
    <3>3. QED
      BY <1>1, <2>1, <2>2, <3>1, <3>2, RsrpAssumption
  <2>6. TrackingOfQuestion'
    BY <1>1, <1>4, <2>2 DEF TrackingOfQuestion
  <2>7. MonitorFollowsSamples'
    BY <1>1, <1>4 DEF MonitorFollowsSamples
  <2>8. ASSUME answer' = "LTE_GOOD"
        PROVE  /\ Len(Valid(seen')) = ProbeSamples
               /\ Sum(Valid(seen')) > ProbeSamples * (RecoveryDbm - 1)
    <3>1. ~(Len(Valid(seen')) < ProbeSamples) /\ Average(Valid(seen')) >= RecoveryDbm
      BY <1>1, <2>2, <2>8
    <3>2. Len(Valid(seen')) = ProbeSamples /\ ProbeSamples \in Nat \ {0}
      BY <2>4, <2>5, <3>1, RsrpAssumption
    <3>3. RecoveryDbm \in Int
      BY RsrpAssumption
    <3>4. QED
      BY <2>4, <3>1, <3>2, <3>3, AverageReaches
  <2>9. QED
    BY <2>6, <2>7, <2>8 DEF SampleInv, GoodOnFreshSamples
<1>5. CASE asked # "PROBE"
  <2>1. tracking = Cleared
    BY <1>1, <1>5 DEF Inv, OvertakenSeesNothing, Asking
  <2>2. answer' = "none"
    BY <1>1, <2>1, FirstSampleIsNotEnough
  <2>3. QED
    BY <1>1, <1>3, <1>5, <2>2
       DEF SampleInv, TrackingOfQuestion, MonitorFollowsSamples, GoodOnFreshSamples
<1>6. QED
  BY <1>4, <1>5

LEMMA SampleInvStep == ASSUME Inv, SampleInv, [Next]_vars PROVE SampleInv'
<1>1. ASSUME NEW m \in Question, CallBegins(m) PROVE SampleInv'
  <2>1. running' = running /\ tracking' = tracking
    BY <1>1 DEF CallBegins
  <2>2. CASE UNCHANGED <<asked, answer, seen>>
    BY <2>1, <2>2, SampleInvKept
  <2>3. CASE asked' = "IDLE" /\ answer' = "none"
    BY <2>3 DEF SampleInv, TrackingOfQuestion, MonitorFollowsSamples, GoodOnFreshSamples
  <2>4. QED
    BY <1>1, <2>2, <2>3 DEF CallBegins
<1>2. CASE ResetSignalTracking
  BY <1>2, SampleInvReset
<1>3. CASE SetMode \/ Schedule \/ Cancel
  <2>1. UNCHANGED <<tracking, asked, answer, seen>> /\ running' = running
    BY <1>3 DEF SetMode, Schedule, Cancel, CallStep
  <2>2. QED
    BY <2>1, SampleInvKept
<1>4. CASE HintReadsMode \/ HintReschedules \/ DelayExpires \/ UNCHANGED vars
  <2>1. UNCHANGED <<tracking, asked, answer, seen>> /\ running' = running
    BY <1>4 DEF HintReadsMode, HintReschedules, DelayExpires, vars
  <2>2. QED
    BY <2>1, SampleInvKept
<1>5. CASE HandlerBegins
  <2>1. UNCHANGED <<tracking, asked, answer, seen>> /\ running' = mode /\ ~Called
    BY <1>5 DEF HandlerBegins, Called
  <2>2. mode \in {asked, "IDLE"}
    BY <2>1 DEF Inv, ModeOfQuestion
  <2>3. QED
    BY <2>1, <2>2, SampleInvKept
<1>6. CASE NtnSample
  <2>1. UNCHANGED <<tracking, asked, answer, seen>> /\ running' = "IDLE"
    BY <1>6 DEF NtnSample, HandlerEnds, Reschedules
  <2>2. QED
    BY <2>1, SampleInvKept
<1>7. CASE SampleUnavailable
  BY <1>7, SampleInvLoss
<1>8. ASSUME NEW d \in Levels, MonitorSample(d) \/ ProbeSample(d) PROVE SampleInv'
  BY <1>8, SampleInvMonitor, SampleInvProbe
<1>9. QED
  BY <1>1, <1>2, <1>3, <1>4, <1>5, <1>6, <1>7, <1>8 DEF Next

LEMMA SampleInvAlways == Spec => []SampleInv
<1>1. Init => SampleInv
  BY SampleInvInit
<1>2. Inv /\ SampleInv /\ [Next]_vars => SampleInv'
  BY SampleInvStep
<1>3. QED
  BY <1>1, <1>2, InvAlways, PTL DEF Spec

-----------------------------------------------------------------------------
(***************************************************************************)
(* The theorems.                                                           *)
(***************************************************************************)

(* Every variable of rsrp_service.c stays within its type; above all the   *)
(* history within its array and the counters within their limits           *)
(* (rsrp_history_add, record_rsrp_unavailable, should_publish_lte_poor).   *)
THEOREM TypeCorrect == Spec => []TypeOK
<1>1. Inv => TypeOK
  BY DEF Inv
<1>2. QED
  BY <1>1, InvAlways, PTL

(* A monitor or a probe that has not answered is in its mode and has its   *)
(* work on the way, whatever handler it was started over                   *)
(* (rsrp_service_start_monitor, rsrp_service_start_probe).                 *)
THEOREM Watched == Spec => []LtemIsWatched
<1>1. Inv => LtemIsWatched
  BY DEF Inv, ModeOfQuestion, WorkOfQuestion, LtemIsWatched, Called, Asking
<1>2. QED
  BY <1>1, InvAlways, PTL

(* Every step is, to the client, a question, an answer to the open         *)
(* question, or nothing.                                                   *)
LEMMA PromiseStep ==
    ASSUME Inv, [Next]_vars
    PROVE  [Promise!Ask \/ Promise!Answer]_<<asked, answer>>
<1>1. ASSUME NEW m \in Question, CallBegins(m)
      PROVE  Promise!Ask \/ UNCHANGED <<asked, answer>>
  BY <1>1 DEF CallBegins, Promise!Ask, Promise!Question
<1>2. ASSUME ResetSignalTracking PROVE Promise!Ask
  <2>1. CallStep("reset") /\ asked' = call.to /\ answer' = "none"
    BY <1>2 DEF ResetSignalTracking
  <2>2. call.to \in Question
    BY <2>1, CallAdvances DEF Inv
  <2>3. QED
    BY <2>1, <2>2 DEF Promise!Ask, Promise!Question, Question
<1>3. ASSUME SampleRead PROVE Promise!Answer \/ UNCHANGED <<asked, answer>>
  <2>1. HandlerEnds /\ (Reschedules \/ (answer = "none"
            /\ \E v \in Promise!AnswersTo[asked] : Publishes(v)))
    BY <1>3, VerdictAnswers
  <2>2. QED
    BY <2>1 DEF HandlerEnds, Reschedules, Publishes, Promise!Answer
<1>4. ASSUME \/ SetMode \/ Schedule \/ Cancel \/ HintReadsMode \/ HintReschedules
             \/ DelayExpires \/ HandlerBegins \/ NtnSample \/ UNCHANGED vars
      PROVE  UNCHANGED <<asked, answer>>
  BY <1>4 DEF SetMode, Schedule, Cancel, HintReadsMode, HintReschedules, DelayExpires,
              HandlerBegins, NtnSample, HandlerEnds, Reschedules, vars
<1>5. QED
  BY <1>1, <1>2, <1>3, <1>4 DEF Next, SampleRead

(* rsrp_service.c implements what it promises: a verdict answers what is   *)
(* being asked, once, although the handler that takes the samples may have *)
(* been overtaken by any number of calls while it blocked in the modem     *)
(* (rsrp_work_handler, rsrp_service_stop).                                 *)
THEOREM Implements == Spec => KeepsPromise
<1>1. Init => Promise!Init
  BY DEF Init, Promise!Init
<1>2. Inv /\ [Next]_vars => [Promise!Ask \/ Promise!Answer]_<<asked, answer>>
  BY PromiseStep
<1>3. QED
  BY <1>1, <1>2, InvAlways, PTL DEF Spec, KeepsPromise, Promise!Spec

(* A monitor answers when, and only when, its samples meet a criterion of  *)
(* the README's table, however many handlers were overtaken before it and  *)
(* whatever was counted for the question before                            *)
(* (should_publish_lte_poor, record_rsrp_unavailable).                     *)
THEOREM FollowsSamples == Spec => []MonitorFollowsSamples
<1>1. SampleInv => MonitorFollowsSamples
  BY DEF SampleInv
<1>2. QED
  BY <1>1, SampleInvAlways, PTL

(* A probe that finds LTE-M good has taken the samples it was asked for,   *)
(* all of them since it began, and their sum bears it out                  *)
(* (rsrp_history_average).                                                 *)
THEOREM FreshSamples == Spec => []GoodOnFreshSamples
<1>1. SampleInv => GoodOnFreshSamples
  BY DEF SampleInv
<1>2. QED
  BY <1>1, SampleInvAlways, PTL
=============================================================================
