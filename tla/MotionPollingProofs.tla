------------------------ MODULE MotionPollingProofs ------------------------
(***************************************************************************)
(* Theorems of MotionPolling, for every threshold, hold time, interval and *)
(* width of the clock that MotionAssumption allows.                        *)
(***************************************************************************)
EXTENDS MotionPolling, TLAPS

-----------------------------------------------------------------------------
(***************************************************************************)
(* The clock.                                                              *)
(***************************************************************************)

(* The difference of two readings of the clock, as unsigned arithmetic     *)
(* has it.                                                                 *)
LEMMA Difference ==
    ASSUME NEW R \in Nat \ {0}, NEW n \in 0..(R - 1), NEW m \in 0..(R - 1)
    PROVE  (n - m) % R = IF n >= m THEN n - m ELSE n - m + R
<1>1. CASE n >= m
  <2>1. n - m \in 0..(R - 1)
    BY <1>1
  <2>2. QED
    BY <1>1, <2>1
<1>2. CASE n < m
  <2>1. n - m \in Int /\ -R <= n - m /\ n - m < 0
    BY <1>2
  <2>2. QED
    BY <1>2, <2>1
<1>3. QED
  BY <1>1, <1>2

(* The next reading.                                                       *)
LEMMA NextReading ==
    ASSUME NEW R \in Nat \ {0}, NEW n \in 0..(R - 1)
    PROVE  (n + 1) % R = IF n = R - 1 THEN 0 ELSE n + 1
<1>1. CASE n = R - 1
  BY <1>1
<1>2. CASE n # R - 1
  <2>1. n + 1 \in 0..(R - 1)
    BY <1>2
  <2>2. QED
    BY <1>2, <2>1
<1>3. QED
  BY <1>1, <1>2

(* A difference grows by one with the clock, until it has turned.          *)
LEMMA DifferenceGrows ==
    ASSUME NEW R \in Nat \ {0}, NEW n \in 0..(R - 1), NEW m \in 0..(R - 1),
           ((n - m) % R) + 1 < R
    PROVE  (((n + 1) % R) - m) % R = ((n - m) % R) + 1
<1> DEFINE k == (n + 1) % R
<1>1. k = IF n = R - 1 THEN 0 ELSE n + 1
  BY NextReading
<1>2. k \in 0..(R - 1)
  BY <1>1
<1>3. (k - m) % R = IF k >= m THEN k - m ELSE k - m + R
  BY <1>2, Difference
<1>4. (n - m) % R = IF n >= m THEN n - m ELSE n - m + R
  BY Difference
<1>5. QED
  BY <1>1, <1>3, <1>4

-----------------------------------------------------------------------------
(***************************************************************************)
(* Type correctness.                                                       *)
(***************************************************************************)

(* Quantities stay within their limits.                                    *)
LEMMA Min2Type ==
    ASSUME NEW a \in Int, NEW b \in Int
    PROVE  /\ Min2(a, b) \in Int /\ Min2(a, b) <= a /\ Min2(a, b) <= b
           /\ Min2(a, b) = a \/ Min2(a, b) = b
BY DEF Min2

(* The time between two samples is positive and bounded.                   *)
LEMMA DtType ==
    ASSUME TypeOK
    PROVE  Dt \in 0..MaxDt
BY MotionAssumption DEF TypeOK, Dt

(* An interval is one of the two.                                          *)
LEMMA TargetType ==
    ASSUME NEW h
    PROVE  TargetInterval(h) \in {PollMoving, PollStill}
BY DEF TargetInterval

(* Intervals are delays.                                                   *)
LEMMA IntervalIsDelay ==
    ASSUME NEW i \in {PollMoving, PollStill}
    PROVE  i \in 0..PollStill
BY MotionAssumption

(* What a hint sets.                                                       *)
LEMMA SetsHintType ==
    ASSUME NEW moving \in BOOLEAN, SetsHint(moving), TypeOK
    PROVE  /\ hint' \in [state : {"unknown", "moving", "still"},
                         call : {"none", "check", "reschedule"}]
           /\ interval' \in {PollMoving, PollStill}
           /\ odd' \in BOOLEAN
           /\ hint'.state = (IF moving THEN "moving" ELSE "still") /\ hint'.call = "check"
           /\ interval' = TargetInterval(hint'.state)
<1>1. hint'.state = (IF moving THEN "moving" ELSE "still") /\ hint'.call = "check"
  BY DEF SetsHint
<1>2. hint' \in [state : {"unknown", "moving", "still"},
                 call : {"none", "check", "reschedule"}]
  BY DEF SetsHint
<1>3. interval' = TargetInterval(hint'.state) /\ odd' \in BOOLEAN
  BY DEF SetsHint, TypeOK
<1>4. QED
  BY <1>1, <1>2, <1>3, TargetType

Samples == {"quiet", "slight", "strong"}

Detected(s, f) == s = "strong" \/ FastAfter(s, f)

(* What a sample assigns, field by field.                                  *)
LEMMA SampleSets ==
    ASSUME TypeOK, NEW s \in Samples, NEW f \in BOOLEAN, Sample(s, f)
    PROVE  /\ poll /\ ~poll' /\ Calibrated
           /\ accel'.baseline = accel.baseline /\ accel'.lag = 0
           /\ accel'.quiet = QuietAfter(s) /\ accel'.fast = FastAfter(s, f)
           /\ accel'.moved = (IF Detected(s, f) THEN now ELSE accel.moved)
           /\ accel'.reported = (Detected(s, f) \/ SeenRecently(accel'.moved))
           /\ since' = (IF Detected(s, f) THEN 0 ELSE since)
           /\ rest' = (IF s = "quiet" THEN Min2(rest + 1, RestLimit) ELSE 0)
           /\ \/ accel'.reported # accel.reported /\ SetsHint(accel'.reported)
              \/ accel'.reported = accel.reported /\ UNCHANGED <<hint, interval, odd>>
           /\ UNCHANGED <<now, mode, timer, gap>>
<1>1. accel' = [accel EXCEPT !.quiet = QuietAfter(s), !.fast = FastAfter(s, f), !.lag = 0,
                             !.moved = IF Detected(s, f) THEN now ELSE accel.moved,
                             !.reported = Detected(s, f) \/ SeenRecently(
                                 IF Detected(s, f) THEN now ELSE accel.moved)]
  BY DEF Sample, Detected
<1>2. accel \in [baseline : 0..BaselineCount, quiet : 0..ZeroVelocity, fast : BOOLEAN,
                 lag : 0..(MaxDt + 1), moved : 0..(ClockRange - 1), reported : BOOLEAN]
  BY DEF TypeOK
<1>3. /\ accel'.baseline = accel.baseline /\ accel'.lag = 0
      /\ accel'.quiet = QuietAfter(s) /\ accel'.fast = FastAfter(s, f)
      /\ accel'.moved = (IF Detected(s, f) THEN now ELSE accel.moved)
      /\ accel'.reported = (Detected(s, f) \/ SeenRecently(
                                 IF Detected(s, f) THEN now ELSE accel.moved))
  BY <1>1, <1>2
<1>4. accel'.reported = (Detected(s, f) \/ SeenRecently(accel'.moved))
  BY <1>3
<1>5. /\ \/ accel'.reported # accel.reported /\ SetsHint(accel'.reported)
         \/ accel'.reported = accel.reported /\ UNCHANGED <<hint, interval, odd>>
  <2>1. \/ accel'.reported # accel.reported
        \/ accel'.reported = accel.reported
    OBVIOUS
  <2>2. Sample(s, f) => IF accel'.reported # accel.reported
                        THEN SetsHint(accel'.reported)
                        ELSE UNCHANGED <<hint, interval, odd>>
    BY <1>3 DEF Sample, Detected
  <2>3. QED
    BY <2>1, <2>2
<1>6. QED
  BY <1>3, <1>4, <1>5 DEF Sample, Detected

(* The quiet time keeps below its limit, and standing still resets the     *)
(* velocity.                                                               *)
LEMMA QuietType ==
    ASSUME TypeOK, NEW s \in Samples, NEW f \in BOOLEAN
    PROVE  /\ QuietAfter(s) \in 0..ZeroVelocity
           /\ FastAfter(s, f) \in BOOLEAN /\ Detected(s, f) \in BOOLEAN
           /\ QuietAfter(s) = ZeroVelocity => ~FastAfter(s, f)
<1>1. QuietAfter(s) \in 0..ZeroVelocity
  BY DtType, MotionAssumption DEF TypeOK, QuietAfter, Min2
<1>2. FastAfter(s, f) \in BOOLEAN /\ (QuietAfter(s) = ZeroVelocity => ~FastAfter(s, f))
  BY <1>1, MotionAssumption DEF TypeOK, FastAfter
<1>3. QED
  BY <1>1, <1>2 DEF Detected

(* A sample keeps the types.                                               *)
LEMMA SampleType ==
    ASSUME TypeOK, NEW s \in Samples, NEW f \in BOOLEAN, Sample(s, f)
    PROVE  TypeOK'
<1>1. accel' \in [baseline : 0..BaselineCount, quiet : 0..ZeroVelocity, fast : BOOLEAN,
                  lag : 0..(MaxDt + 1), moved : 0..(ClockRange - 1), reported : BOOLEAN]
  <2>1. QuietAfter(s) \in 0..ZeroVelocity /\ FastAfter(s, f) \in BOOLEAN
    BY QuietType
  <2>2. now \in 0..(ClockRange - 1) /\ 0 \in 0..(MaxDt + 1)
    BY MotionAssumption DEF TypeOK
  <2>3. \A m : Detected(s, f) \/ SeenRecently(m) \in BOOLEAN
    BY QuietType DEF SeenRecently
  <2>4. QED
    BY <2>1, <2>2, <2>3 DEF Sample, Detected, TypeOK
<1>2. since' \in 0..Never /\ rest' \in 0..RestLimit
  <2>1. since' = 0 \/ since' = since
    BY SampleSets
  <2>2. rest' = 0 \/ rest' = Min2(rest + 1, RestLimit)
    BY SampleSets
  <2>3. RestLimit \in Nat
    BY MotionAssumption DEF RestLimit
  <2>4. rest' \in 0..RestLimit
    BY <2>2, <2>3 DEF Min2, TypeOK
  <2>5. QED
    BY <2>1, <2>4, MotionAssumption DEF TypeOK, Never
<1>3. /\ hint' \in [state : {"unknown", "moving", "still"},
                    call : {"none", "check", "reschedule"}]
      /\ interval' \in {PollMoving, PollStill} /\ odd' \in BOOLEAN
  <2>1. accel'.reported \in BOOLEAN
    BY <1>1
  <2>2. QED
    BY <2>1, SampleSets, SetsHintType DEF TypeOK
<1>4. /\ now' \in 0..(ClockRange - 1) /\ poll' \in BOOLEAN
      /\ mode' \in {"IDLE", "MONITOR", "NTN_MONITOR"}
      /\ timer' \in {Off} \union 0..PollStill /\ gap' \in Nat
  <2>1. poll' = FALSE /\ UNCHANGED <<now, mode, timer, gap>>
    BY DEF Sample
  <2>2. QED
    BY <2>1 DEF TypeOK, Off
<1>5. QED
  BY <1>1, <1>2, <1>3, <1>4 DEF TypeOK, Off, Never, RestLimit

(* So does calibrating.                                                    *)
LEMMA CalibrateType ==
    ASSUME TypeOK, NEW gravity \in BOOLEAN, Calibrate(gravity)
    PROVE  TypeOK'
<1>1. accel.baseline \in 0..(BaselineCount - 1)
  BY MotionAssumption DEF Calibrate, Calibrated, TypeOK
<1>2. accel' \in [baseline : 0..BaselineCount, quiet : 0..ZeroVelocity, fast : BOOLEAN,
                  lag : 0..(MaxDt + 1), moved : 0..(ClockRange - 1), reported : BOOLEAN]
  <2>1. (IF gravity THEN accel.baseline + 1 ELSE 0) \in 0..BaselineCount
    BY <1>1, MotionAssumption
  <2>2. 0 \in 0..(MaxDt + 1)
    BY MotionAssumption
  <2>3. QED
    BY <2>1, <2>2 DEF Calibrate, TypeOK
<1>3. /\ hint' \in [state : {"unknown", "moving", "still"},
                    call : {"none", "check", "reschedule"}]
      /\ interval' \in {PollMoving, PollStill} /\ odd' \in BOOLEAN
  <2>1. SetsHint(FALSE) \/ UNCHANGED <<hint, interval, odd>>
    BY DEF Calibrate
  <2>2. QED
    BY <2>1, SetsHintType DEF TypeOK
<1>4. poll' = FALSE /\ UNCHANGED <<now, mode, timer, gap, since, rest>>
  BY DEF Calibrate
<1>5. QED
  BY <1>2, <1>3, <1>4 DEF TypeOK, Off, Never, RestLimit

(* So does the passing of time.                                            *)
LEMMA TickType ==
    ASSUME TypeOK, Tick
    PROVE  TypeOK'
<1>1. now' \in 0..(ClockRange - 1)
  BY NextReading, MotionAssumption DEF Tick, TypeOK
<1>2. accel' \in [baseline : 0..BaselineCount, quiet : 0..ZeroVelocity, fast : BOOLEAN,
                  lag : 0..(MaxDt + 1), moved : 0..(ClockRange - 1), reported : BOOLEAN]
  <2>1. Min2(accel.lag + 1, MaxDt + 1) \in 0..(MaxDt + 1)
    BY MotionAssumption DEF TypeOK, Min2
  <2>2. QED
    BY <2>1 DEF Tick, TypeOK
<1>3. timer' \in {Off} \union 0..PollStill /\ gap' \in Nat
  BY MotionAssumption DEF Tick, TypeOK, Off
<1>4. since' \in 0..Never
  BY MotionAssumption DEF Tick, TypeOK, Never, Min2
<1>5. poll' = TRUE /\ UNCHANGED <<hint, mode, interval, rest, odd>>
  BY DEF Tick
<1>6. QED
  BY <1>1, <1>2, <1>3, <1>4, <1>5 DEF TypeOK, Off, Never, RestLimit

(* Every step keeps the types.                                             *)
LEMMA StepType ==
    ASSUME TypeOK, [Next]_vars
    PROVE  TypeOK'
<1> USE DEF Off, Never, RestLimit
<1>1. CASE Tick
  BY <1>1, TickType
<1>2. CASE ReadFails
  BY <1>2 DEF ReadFails, TypeOK
<1>3. ASSUME NEW g \in BOOLEAN, Calibrate(g) PROVE TypeOK'
  BY <1>3, CalibrateType
<1>4. ASSUME NEW s \in Samples, NEW f \in BOOLEAN, Sample(s, f) PROVE TypeOK'
  BY <1>4, SampleType
<1>5. CASE HintChecksMode
  <2>1. hint' \in [state : {"unknown", "moving", "still"},
                   call : {"none", "check", "reschedule"}]
    BY <1>5 DEF HintChecksMode, TypeOK
  <2>2. QED
    BY <1>5, <2>1 DEF HintChecksMode, TypeOK
<1>6. CASE HintReschedules
  <2>1. hint' \in [state : {"unknown", "moving", "still"},
                   call : {"none", "check", "reschedule"}]
    BY <1>6 DEF HintReschedules, TypeOK
  <2>2. timer' \in 0..PollStill
    BY <1>6, IntervalIsDelay DEF HintReschedules, TypeOK
  <2>3. QED
    BY <1>6, <2>1, <2>2 DEF HintReschedules, TypeOK
<1>7. CASE MonitorSample
  <2>1. interval' \in {PollMoving, PollStill} /\ timer' \in {Off} \union 0..PollStill
    BY <1>7, TargetType, IntervalIsDelay DEF MonitorSample
  <2>2. QED
    BY <1>7, <2>1 DEF MonitorSample, TypeOK
<1>8. CASE OtherWork
  <2>1. timer' \in {Off} \union 0..PollStill
    BY <1>8, IntervalIsDelay DEF OtherWork, TypeOK
  <2>2. QED
    BY <1>8, <2>1 DEF OtherWork, TypeOK
<1>9. CASE StartMonitor
  <2>1. interval' \in {PollMoving, PollStill} /\ timer' \in 0..PollStill
    BY <1>9, TargetType, IntervalIsDelay DEF StartMonitor
  <2>2. QED
    BY <1>9, <2>1 DEF StartMonitor, TypeOK
<1>10. CASE StartNtnMonitor
  <2>1. timer' \in 0..PollStill
    BY <1>10, IntervalIsDelay DEF StartNtnMonitor, TypeOK
  <2>2. QED
    BY <1>10, <2>1 DEF StartNtnMonitor, TypeOK
<1>11. CASE Stop
  BY <1>11 DEF Stop, TypeOK
<1>12. CASE UNCHANGED vars
  BY <1>12 DEF vars, TypeOK
<1>13. QED
  BY <1>1, <1>2, <1>3, <1>4, <1>5, <1>6, <1>7, <1>8, <1>9, <1>10, <1>11, <1>12
     DEF Next, Samples

(* Initially the types are right.                                          *)
LEMMA InitType ==
    ASSUME Init
    PROVE  TypeOK
<1>1. 0 \in 0..(ClockRange - 1) /\ Never \in 0..Never /\ 0 \in 0..RestLimit
  BY MotionAssumption DEF Never, RestLimit
<1>2. 0 \in 0..BaselineCount /\ 0 \in 0..ZeroVelocity /\ 0 \in 0..(MaxDt + 1)
  BY MotionAssumption
<1>3. accel \in [baseline : 0..BaselineCount, quiet : 0..ZeroVelocity, fast : BOOLEAN,
                 lag : 0..(MaxDt + 1), moved : 0..(ClockRange - 1), reported : BOOLEAN]
  BY <1>1, <1>2 DEF Init
<1>4. hint \in [state : {"unknown", "moving", "still"},
                call : {"none", "check", "reschedule"}]
  BY DEF Init
<1>5. QED
  BY <1>1, <1>3, <1>4 DEF Init, TypeOK

(* Every variable stays within its type: the quiet time, the time since a  *)
(* sample and the clock within their limits, whatever these are            *)
(* (accel_thread, rsrp_service_set_motion_hint).                           *)
THEOREM TypeCorrect == Spec => []TypeOK
<1>1. TypeOK /\ [Next]_vars => TypeOK'
  BY StepType
<1>2. QED
  BY InitType, <1>1, PTL DEF Spec

-----------------------------------------------------------------------------
(***************************************************************************)
(* The inductive invariant.                                                *)
(***************************************************************************)

(* The hint is what was reported last, no call of it is under way when a   *)
(* sample is due, and a sample does not come twice at a time.              *)
HintInv ==
    /\ interval = TargetInterval(hint.state)
    /\ poll => hint.call = "none"
    /\ Calibrated => hint.state = IF accel.reported THEN "moving" ELSE "still"
    /\ Calibrated /\ poll => accel.lag >= 1 /\ since >= 1
    /\ ~Calibrated =>
          /\ hint = [state |-> "unknown", call |-> "none"]
          /\ since = Never /\ accel.moved = 0 /\ ~accel.reported /\ rest = 0
          /\ ~accel.fast

(* The clock tells how long ago movement was, until it has turned.         *)
ClockInv ==
    /\ since < ClockRange => (now - accel.moved) % ClockRange = since
    /\ since = Never => accel.moved = 0
    /\ ~accel.reported => since > MovingHold \/ accel.moved = 0

(* Quiet samples in a row add up, and movement was before them.            *)
RestInv ==
    /\ rest <= accel.quiet \/ accel.quiet = ZeroVelocity
    /\ accel.quiet = ZeroVelocity => ~accel.fast
    /\ rest >= ZeroVelocity => since >= rest - ZeroVelocity + IF poll THEN 2 ELSE 1

(* How far the monitor's next sample has been put off: at most once to the *)
(* interval for still, and to the one for moving before and after it.      *)
PutOff ==
    IF hint.call # "none"
    THEN IF hint.state = "moving"
         THEN gap <= PollStill + PollMoving /\ (gap = 0 \/ since = 0)
         ELSE gap <= PollMoving
    ELSE IF hint.state = "moving"
         THEN /\ gap + timer <= PollStill + 2 * PollMoving
              /\ gap + timer <= PollMoving \/ since + timer <= PollMoving
         ELSE gap + timer <= PollStill + PollMoving

GapInv ==
    /\ mode # "MONITOR" => gap = 0
    /\ mode = "MONITOR" => timer # Off
    /\ mode = "MONITOR" /\ ~odd => PutOff

MotionInv ==
    /\ TypeOK /\ HintInv /\ ClockInv /\ RestInv /\ GapInv
    /\ MovingIsPolledFast /\ ReportFollowsMovement /\ RestIsNoticed

(* What the types say of the single fields.                                *)
LEMMA FieldTypes ==
    ASSUME TypeOK
    PROVE  /\ accel.baseline \in 0..BaselineCount /\ accel.quiet \in 0..ZeroVelocity
           /\ accel.fast \in BOOLEAN /\ accel.lag \in 0..(MaxDt + 1)
           /\ accel.moved \in 0..(ClockRange - 1) /\ accel.reported \in BOOLEAN
           /\ now \in 0..(ClockRange - 1) /\ since \in 0..(ClockRange + 1)
           /\ rest \in 0..RestLimit /\ gap \in Nat
           /\ poll \in BOOLEAN /\ odd \in BOOLEAN
           /\ timer \in {-1} \union 0..PollStill /\ interval \in {PollMoving, PollStill}
BY DEF TypeOK, Off, Never

(* Movement counts as recent just when it was within the hold time, unless *)
(* the clock has turned since.                                             *)
LEMMA SeenMeansRecent ==
    ASSUME TypeOK, ClockInv, since # ClockRange
    PROVE  SeenRecently(accel.moved) <=> accel.moved # 0 /\ since <= MovingHold
<1>1. CASE since < ClockRange
  BY <1>1 DEF ClockInv, SeenRecently
<1>2. CASE since = Never
  BY <1>2, FieldTypes, MotionAssumption DEF ClockInv, SeenRecently, Never
<1>3. QED
  BY <1>1, <1>2, FieldTypes, MotionAssumption DEF Never

(* A sample keeps the clock's invariant and reports what it should.        *)
LEMMA SampleClock ==
    ASSUME TypeOK, ClockInv, NEW s \in Samples, NEW f \in BOOLEAN, Sample(s, f)
    PROVE  ClockInv' /\ ReportFollowsMovement'
<1> USE MotionAssumption
<1>1. CASE Detected(s, f)
  <2>1. accel'.moved = now /\ accel'.reported /\ since' = 0 /\ now' = now
    BY <1>1, SampleSets
  <2>2. (now' - accel'.moved) % ClockRange = 0
    BY <2>1, FieldTypes, Difference
  <2>3. QED
    BY <2>1, <2>2 DEF ClockInv, ReportFollowsMovement, Never
<1>2. CASE ~Detected(s, f)
  <2>1. /\ accel'.moved = accel.moved /\ since' = since /\ now' = now
        /\ accel'.reported = SeenRecently(accel.moved)
    BY <1>2, SampleSets DEF SeenRecently
  <2>2. CASE since = ClockRange
    BY <2>1, <2>2, FieldTypes DEF ClockInv, ReportFollowsMovement, Never
  <2>3. CASE since # ClockRange
    <3>1. accel'.reported <=> accel.moved # 0 /\ since <= MovingHold
      BY <2>1, <2>3, SeenMeansRecent
    <3>2. QED
      BY <2>1, <3>1, FieldTypes DEF ClockInv, ReportFollowsMovement, Never
  <2>4. QED
    BY <2>2, <2>3
<1>3. QED
  BY <1>1, <1>2

(* A sample keeps what is known of quiet ones, and a device that has been  *)
(* at rest for long is not reported moving.                                *)
LEMMA SampleRest ==
    ASSUME TypeOK, HintInv, ClockInv, RestInv,
           NEW s \in Samples, NEW f \in BOOLEAN, Sample(s, f)
    PROVE  RestInv' /\ RestIsNoticed'
<1> USE MotionAssumption
<1>1. /\ accel'.quiet = QuietAfter(s) /\ accel'.fast = FastAfter(s, f)
      /\ rest' = (IF s = "quiet" THEN Min2(rest + 1, RestLimit) ELSE 0)
      /\ since' = (IF Detected(s, f) THEN 0 ELSE since) /\ ~poll' /\ poll /\ Calibrated
  BY SampleSets
<1>2. /\ QuietAfter(s) \in 0..ZeroVelocity
      /\ QuietAfter(s) = ZeroVelocity => ~FastAfter(s, f)
  BY QuietType
<1>3. CASE s # "quiet"
  <2>1. rest' = 0
    BY <1>1, <1>3
  <2>2. accel'.quiet \in 0..ZeroVelocity /\ (accel'.quiet = ZeroVelocity => ~accel'.fast)
    BY <1>1, <1>2
  <2>3. QED
    BY <2>1, <2>2 DEF RestInv, RestIsNoticed, RestLimit
<1>4. CASE s = "quiet"
  <2>1. rest' = Min2(rest + 1, RestLimit) /\ rest' \in 0..RestLimit /\ rest' <= rest + 1
    BY <1>1, <1>4, FieldTypes DEF Min2, RestLimit
  <2>2. accel.lag >= 1 /\ since >= 1
    BY <1>1 DEF HintInv
  <2>3. Dt >= 1
    BY <2>2, FieldTypes DEF Dt
  <2>4. rest' <= QuietAfter(s) \/ QuietAfter(s) = ZeroVelocity
    BY <1>4, <2>1, <2>3, FieldTypes, DtType DEF RestInv, QuietAfter, Min2
  <2>5. ASSUME rest' >= ZeroVelocity
        PROVE  ~Detected(s, f) /\ since' = since /\ since' >= rest' - ZeroVelocity + 1
    <3>1. QuietAfter(s) = ZeroVelocity
      BY <1>2, <2>1, <2>4, <2>5 DEF RestLimit
    <3>2. ~Detected(s, f) /\ since' = since
      BY <1>1, <1>2, <1>4, <3>1 DEF Detected
    <3>3. since >= rest' - ZeroVelocity + 1
      <4>1. CASE rest >= ZeroVelocity
        BY <1>1, <2>1, <4>1, FieldTypes DEF RestInv, RestLimit
      <4>2. CASE rest < ZeroVelocity
        BY <2>1, <2>2, <2>5, <4>2, FieldTypes DEF RestLimit
      <4>3. QED
        BY <4>1, <4>2, FieldTypes DEF RestLimit
    <3>4. QED
      BY <3>2, <3>3
  <2>6. RestInv'
    BY <1>1, <1>2, <2>4, <2>5 DEF RestInv
  <2>7. ASSUME rest' = RestLimit, since' # ClockRange
        PROVE  ~accel'.reported
    <3>1. ~Detected(s, f) /\ since' = since /\ since' >= MovingHold + 2
      BY <2>5, <2>7, FieldTypes DEF RestLimit
    <3>2. ~SeenRecently(accel.moved)
      BY <2>7, <3>1, SeenMeansRecent, FieldTypes
    <3>3. QED
      BY <3>1, <3>2, SampleSets
  <2>8. QED
    BY <2>6, <2>7 DEF RestIsNoticed
<1>5. QED
  BY <1>3, <1>4

(* After a sample the hint is what was reported.                           *)
LEMMA SampleHint ==
    ASSUME TypeOK, HintInv, NEW s \in Samples, NEW f \in BOOLEAN, Sample(s, f)
    PROVE  HintInv'
<1>1. /\ poll /\ ~poll' /\ Calibrated /\ accel'.baseline = accel.baseline
      /\ \/ accel'.reported # accel.reported /\ SetsHint(accel'.reported)
         \/ accel'.reported = accel.reported /\ UNCHANGED <<hint, interval, odd>>
  BY SampleSets
<1>2. Calibrated'
  BY <1>1 DEF Calibrated
<1>3. accel'.reported \in BOOLEAN
  BY SampleType, FieldTypes DEF TypeOK
<1>4. CASE accel'.reported # accel.reported /\ SetsHint(accel'.reported)
  <2>1. hint'.state = (IF accel'.reported THEN "moving" ELSE "still")
        /\ interval' = TargetInterval(hint'.state)
    BY <1>3, <1>4, SetsHintType
  <2>2. QED
    BY <1>1, <1>2, <2>1 DEF HintInv, TargetInterval
<1>5. CASE accel'.reported = accel.reported /\ UNCHANGED <<hint, interval, odd>>
  BY <1>1, <1>2, <1>5 DEF HintInv, TargetInterval
<1>6. QED
  BY <1>1, <1>4, <1>5

(* A change of the hint is odd, or comes when the next sample has not yet  *)
(* been put off too far: to still only after a hold time without movement, *)
(* by which a sample has been taken, to moving only with movement.         *)
LEMMA SampleGap ==
    ASSUME TypeOK, HintInv, ClockInv, GapInv, MovingIsPolledFast,
           NEW s \in Samples, NEW f \in BOOLEAN, Sample(s, f)
    PROVE  GapInv' /\ MovingIsPolledFast'
<1> USE MotionAssumption
<1>1. /\ poll /\ ~poll' /\ Calibrated /\ hint.call = "none"
      /\ accel'.moved = (IF Detected(s, f) THEN now ELSE accel.moved)
      /\ since' = (IF Detected(s, f) THEN 0 ELSE since)
      /\ accel'.reported = (Detected(s, f) \/ SeenRecently(accel'.moved))
      /\ UNCHANGED <<mode, timer, gap>>
      /\ \/ accel'.reported # accel.reported /\ SetsHint(accel'.reported)
         \/ accel'.reported = accel.reported /\ UNCHANGED <<hint, interval, odd>>
  BY SampleSets DEF HintInv
<1>2. accel'.reported \in BOOLEAN /\ Detected(s, f) \in BOOLEAN
  BY SampleType, QuietType, FieldTypes DEF TypeOK
<1>3. hint.state = IF accel.reported THEN "moving" ELSE "still"
  BY <1>1 DEF HintInv
<1>4. (mode' # "MONITOR" => gap' = 0) /\ (mode' = "MONITOR" => timer' # Off)
  BY <1>1 DEF GapInv, Off
<1>5. CASE accel'.reported # accel.reported /\ SetsHint(accel'.reported)
  <2>1. /\ hint'.state = (IF accel'.reported THEN "moving" ELSE "still")
        /\ hint'.call = "check"
    BY <1>2, <1>5, SetsHintType
  <2>2. MovingIsPolledFast'
    BY <2>1 DEF MovingIsPolledFast
  <2>3. ASSUME mode = "MONITOR", ~odd'
        PROVE  PutOff'
    <3>1. PutOff /\ timer \in 0..PollStill
      BY <1>5, <2>3, FieldTypes DEF GapInv, SetsHint, Off
    <3>2. CASE accel'.reported
      <4>1. since' # ClockRange
        BY <1>5, <2>3, <3>2 DEF SetsHint
      <4>2. Detected(s, f)
        <5>1. SUFFICES ASSUME ~Detected(s, f) PROVE FALSE
          OBVIOUS
        <5>2. SeenRecently(accel.moved) /\ since # ClockRange
          BY <1>1, <3>2, <4>1, <5>1
        <5>3. ~accel.reported
          BY <1>5, <3>2, FieldTypes
        <5>4. QED
          BY <5>2, <5>3, SeenMeansRecent, FieldTypes DEF ClockInv
      <4>3. hint.call = "none" /\ hint.state # "moving"
        BY <1>1, <1>3, <1>5, <3>2, FieldTypes
      <4>4. gap + timer <= PollStill + PollMoving
        BY <3>1, <4>3 DEF PutOff
      <4>5. gap <= PollStill + PollMoving
        BY <3>1, <4>4, FieldTypes
      <4>6. QED
        BY <1>1, <2>1, <3>2, <4>2, <4>5 DEF PutOff
    <3>3. CASE ~accel'.reported
      <4>1. ~Detected(s, f) /\ accel'.moved # 0
        BY <1>1, <1>5, <2>3, <3>3 DEF SetsHint
      <4>2. since > MovingHold
        <5>1. accel.moved # 0 /\ ~SeenRecently(accel.moved)
          BY <1>1, <3>3, <4>1
        <5>2. QED
          BY <5>1, SeenMeansRecent, FieldTypes
      <4>3. hint.call = "none" /\ hint.state = "moving"
        BY <1>1, <1>2, <1>3, <1>5, <3>3, FieldTypes
      <4>4. gap + timer <= PollMoving \/ since + timer <= PollMoving
        BY <3>1, <4>3 DEF PutOff
      <4>5. gap <= PollMoving
        BY <3>1, <4>2, <4>4, FieldTypes
      <4>6. QED
        BY <1>1, <2>1, <3>3, <4>5 DEF PutOff
    <3>4. QED
      BY <3>2, <3>3
  <2>4. QED
    BY <1>1, <1>4, <2>2, <2>3 DEF GapInv
<1>6. CASE accel'.reported = accel.reported /\ UNCHANGED <<hint, interval, odd>>
  <2>1. since' = 0 \/ since' = since
    BY <1>1
  <2>2. MovingIsPolledFast'
    BY <1>1, <1>6 DEF MovingIsPolledFast
  <2>3. ASSUME mode' = "MONITOR", ~odd'
        PROVE  PutOff'
    <3>1. PutOff /\ timer \in 0..PollStill
      BY <1>1, <1>6, <2>3, FieldTypes DEF GapInv, Off
    <3>2. CASE since' = since
      BY <1>1, <1>6, <3>1, <3>2 DEF PutOff
    <3>3. CASE since' = 0
      <4>1. since + timer <= PollMoving => 0 + timer <= PollMoving
        BY <3>1, FieldTypes
      <4>2. QED
        BY <1>1, <1>6, <3>1, <3>3, <4>1 DEF PutOff
    <3>4. QED
      BY <2>1, <3>2, <3>3
  <2>4. QED
    BY <1>4, <2>2, <2>3 DEF GapInv
<1>7. QED
  BY <1>1, <1>5, <1>6

(* Calibrating keeps everything: the first hint is odd.                    *)
LEMMA CalibrateInv ==
    ASSUME MotionInv, NEW gravity \in BOOLEAN, Calibrate(gravity)
    PROVE  MotionInv'
<1> USE MotionAssumption DEF MotionInv
<1>1. /\ poll /\ ~poll' /\ ~Calibrated
      /\ accel'.baseline \in Nat /\ accel'.quiet = accel.quiet /\ accel'.fast = accel.fast
      /\ accel'.lag = 0 /\ accel'.moved = accel.moved /\ accel'.reported = accel.reported
      /\ UNCHANGED <<now, mode, timer, gap, since, rest>>
  BY FieldTypes DEF Calibrate, TypeOK
<1>2. /\ hint.state = "unknown" /\ hint.call = "none" /\ since = Never
      /\ accel.moved = 0 /\ ~accel.reported /\ rest = 0 /\ ~accel.fast
      /\ hint = [state |-> "unknown", call |-> "none"]
  BY <1>1 DEF HintInv
<1>3. CASE accel'.baseline = BaselineCount
  <2>1. SetsHint(FALSE)
    BY <1>3 DEF Calibrate
  <2>2. hint'.state = "still" /\ interval' = TargetInterval(hint'.state) /\ odd'
    BY <1>2, <2>1 DEF SetsHint
  <2>3. Calibrated'
    BY <1>3 DEF Calibrated
  <2>4. HintInv'
    BY <1>1, <1>2, <2>2, <2>3 DEF HintInv
  <2>5. GapInv' /\ MovingIsPolledFast'
    BY <1>1, <2>2 DEF GapInv, MovingIsPolledFast, Off
  <2>6. QED
    BY <1>1, <1>2, <2>4, <2>5, CalibrateType
       DEF ClockInv, RestInv, ReportFollowsMovement, RestIsNoticed, Never, RestLimit
<1>4. CASE accel'.baseline # BaselineCount
  <2>1. UNCHANGED <<hint, interval, odd>>
    BY <1>4 DEF Calibrate
  <2>2. ~Calibrated'
    BY <1>4 DEF Calibrated
  <2>3. HintInv'
    BY <1>1, <1>2, <2>1, <2>2 DEF HintInv
  <2>4. GapInv' /\ MovingIsPolledFast'
    BY <1>1, <2>1 DEF GapInv, MovingIsPolledFast, PutOff, Off
  <2>5. QED
    BY <1>1, <1>2, <2>2, <2>3, <2>4, CalibrateType
       DEF ClockInv, RestInv, ReportFollowsMovement, RestIsNoticed, Never, RestLimit
<1>5. QED
  BY <1>3, <1>4

(* Time keeps everything: all that is measured in it grows alike.          *)
LEMMA TickInv ==
    ASSUME MotionInv, Tick
    PROVE  MotionInv'
<1> USE MotionAssumption DEF MotionInv
<1>1. /\ ~poll /\ poll' /\ hint.call = "none" /\ timer # 0
      /\ accel'.baseline = accel.baseline
      /\ accel'.quiet = accel.quiet /\ accel'.fast = accel.fast
      /\ accel'.lag = Min2(accel.lag + 1, MaxDt + 1)
      /\ accel'.moved = accel.moved /\ accel'.reported = accel.reported
      /\ UNCHANGED <<hint, mode, interval, rest, odd>>
      /\ now' = (now + 1) % ClockRange
      /\ timer' = IF timer = Off THEN Off ELSE timer - 1
      /\ gap' = IF mode = "MONITOR" THEN gap + 1 ELSE gap
  BY DEF Tick, TypeOK
<1>2. /\ since < ClockRange => since' = since + 1
      /\ since = ClockRange => since' = ClockRange
      /\ since = Never => since' = Never
      /\ since < ClockRange \/ since = ClockRange \/ since = Never
  BY FieldTypes DEF Tick, Min2, Never
<1>3. accel'.lag >= 1 /\ since' >= 1 /\ since' >= since /\ since' \in Nat
  BY <1>1, <1>2, FieldTypes DEF Min2, Never
<1>4. HintInv'
  BY <1>1, <1>2, <1>3 DEF HintInv, Calibrated
<1>5. ClockInv'
  <2>1. ASSUME since' < ClockRange
        PROVE  (now' - accel'.moved) % ClockRange = since'
    <3>1. since < ClockRange /\ since' = since + 1
      BY <1>2, <2>1 DEF Never
    <3>2. (now - accel.moved) % ClockRange = since
      BY <3>1 DEF ClockInv
    <3>3. ClockRange \in Nat \ {0} /\ ((now - accel.moved) % ClockRange) + 1 < ClockRange
      BY <2>1, <3>1, <3>2
    <3>4. (((now + 1) % ClockRange) - accel.moved) % ClockRange
              = ((now - accel.moved) % ClockRange) + 1
      BY <3>3, FieldTypes, DifferenceGrows
    <3>5. QED
      BY <1>1, <3>1, <3>2, <3>4
  <2>2. since' = Never => accel'.moved = 0
    BY <1>1, <1>2, FieldTypes DEF ClockInv, Never
  <2>3. ~accel'.reported => since' > MovingHold \/ accel'.moved = 0
    BY <1>1, <1>3, FieldTypes DEF ClockInv
  <2>4. QED
    BY <2>1, <2>2, <2>3 DEF ClockInv
<1>6. RestInv'
  <2>1. ASSUME rest' >= ZeroVelocity
        PROVE  since' >= rest' - ZeroVelocity + 2
    <3>1. since >= rest - ZeroVelocity + 1
      BY <1>1, <2>1 DEF RestInv
    <3>2. rest <= ZeroVelocity + MovingHold + 1
      BY FieldTypes DEF RestLimit
    <3>3. QED
      BY <1>1, <1>2, <3>1, <3>2, FieldTypes DEF Never, RestLimit
  <2>2. QED
    BY <1>1, <2>1 DEF RestInv
<1>7. GapInv' /\ MovingIsPolledFast'
  <2>1. CASE mode = "MONITOR"
    <3>1. timer \in 1..PollStill /\ timer' = timer - 1 /\ gap' = gap + 1
      BY <1>1, <2>1, FieldTypes DEF GapInv, Off
    <3>2. MovingIsPolledFast'
      BY <1>1, <3>1, FieldTypes DEF MovingIsPolledFast
    <3>3. ASSUME ~odd'
          PROVE  PutOff'
      <4>1. PutOff
        BY <1>1, <2>1, <3>3 DEF GapInv
      <4>2. gap' + timer' = gap + timer
        BY <3>1, FieldTypes
      <4>3. since + timer <= PollMoving => since' + timer' <= PollMoving
        BY <1>2, <3>1, FieldTypes DEF Never
      <4>4. QED
        BY <1>1, <4>1, <4>2, <4>3 DEF PutOff
    <3>4. QED
      BY <1>1, <2>1, <3>1, <3>2, <3>3 DEF GapInv, Off
  <2>2. CASE mode # "MONITOR"
    BY <1>1, <2>2 DEF GapInv, MovingIsPolledFast
  <2>3. QED
    BY <2>1, <2>2
<1>8. ReportFollowsMovement'
  BY <1>1 DEF ReportFollowsMovement
<1>9. RestIsNoticed'
  BY <1>1, <1>2 DEF RestIsNoticed, RestLimit
<1>10. QED
  BY <1>4, <1>5, <1>6, <1>7, <1>8, <1>9, TickType

(* What the RSRP service and its client do disturbs only the gap and the   *)
(* timer.                                                                  *)
ServiceStep ==
    \/ HintChecksMode \/ HintReschedules \/ MonitorSample \/ OtherWork
    \/ StartMonitor \/ StartNtnMonitor \/ Stop

LEMMA ServiceInv ==
    ASSUME MotionInv, ServiceStep
    PROVE  MotionInv'
<1> USE MotionAssumption DEF MotionInv
<1>1. /\ UNCHANGED <<now, accel, poll, since, rest>>
      /\ hint'.state = hint.state
      /\ hint' = hint \/ (hint.call # "none" /\ Calibrated)
      /\ hint' = hint \/ hint'.call \in {"none", "reschedule"}
      /\ poll => hint'.call = "none"
      /\ interval' = TargetInterval(hint'.state)
  BY DEF ServiceStep, HintChecksMode, HintReschedules, MonitorSample, OtherWork,
         StartMonitor, StartNtnMonitor, Stop, HintInv, TypeOK
<1>2. HintInv'
  BY <1>1 DEF HintInv, Calibrated
<1>3. ClockInv' /\ RestInv' /\ ReportFollowsMovement' /\ RestIsNoticed'
  BY <1>1 DEF ClockInv, RestInv, ReportFollowsMovement, RestIsNoticed, Calibrated,
              Never, RestLimit
<1>4. interval = TargetInterval(hint.state)
  BY DEF HintInv
<1>5. TypeOK'
  BY StepType DEF ServiceStep, Next
<1>6. GapInv' /\ MovingIsPolledFast'
  <2> USE DEF GapInv, MovingIsPolledFast, Off
  <2>1. CASE HintChecksMode
    BY <1>1, <2>1 DEF HintChecksMode, PutOff
  <2>2. CASE HintReschedules
    <3>1. /\ timer' = TargetInterval(hint.state) /\ hint'.call = "none"
          /\ hint.call # "none" /\ UNCHANGED <<mode, gap, odd, since>>
      BY <1>4, <2>2 DEF HintReschedules, TypeOK
    <3>2. MovingIsPolledFast'
      BY <1>1, <3>1 DEF TargetInterval
    <3>3. mode = "MONITOR" /\ ~odd => PutOff'
      BY <1>1, <3>1, FieldTypes DEF PutOff, TargetInterval
    <3>4. QED
      BY <3>1, <3>2, <3>3, TargetType, IntervalIsDelay
  <2>3. CASE MonitorSample \/ StartMonitor
    <3>1. /\ gap' = 0 /\ hint' = hint
          /\ mode' = "MONITOR" => timer' = TargetInterval(hint.state)
      BY <2>3 DEF MonitorSample, StartMonitor
    <3>2. MovingIsPolledFast'
      BY <1>1, <3>1 DEF TargetInterval
    <3>3. mode' = "MONITOR" => PutOff'
      BY <1>1, <3>1, FieldTypes DEF PutOff, TargetInterval
    <3>4. QED
      BY <3>1, <3>2, <3>3, TargetType, IntervalIsDelay
  <2>4. CASE OtherWork \/ StartNtnMonitor
    BY <2>4 DEF OtherWork, StartNtnMonitor
  <2>5. CASE Stop
    BY <2>5 DEF Stop
  <2>6. QED
    BY <2>1, <2>2, <2>3, <2>4, <2>5 DEF ServiceStep
<1>7. QED
  BY <1>2, <1>3, <1>5, <1>6

(* Every step keeps the invariant.                                         *)
LEMMA StepInv ==
    ASSUME MotionInv, [Next]_vars
    PROVE  MotionInv'
<1>1. CASE Tick
  BY <1>1, TickInv
<1>2. CASE ReadFails
  <2>1. /\ poll /\ ~poll' 
        /\ UNCHANGED <<now, accel, hint, mode, interval, timer, gap, since, rest, odd>>
    BY <1>2 DEF ReadFails
  <2>2. TypeOK'
    BY StepType DEF Next, MotionInv
  <2>3. HintInv' /\ ClockInv' /\ GapInv' /\ MovingIsPolledFast' /\ RestIsNoticed'
    BY <2>1 DEF MotionInv, HintInv, ClockInv, GapInv, PutOff, MovingIsPolledFast,
                RestIsNoticed, Calibrated, Never, Off, RestLimit
  <2>4. RestInv'
    <3>1. rest \in Int /\ since \in Int
      BY FieldTypes, MotionAssumption DEF MotionInv, RestLimit
    <3>2. QED
      BY <2>1, <3>1, MotionAssumption DEF MotionInv, RestInv
  <2>5. ReportFollowsMovement'
    BY <2>1 DEF MotionInv, HintInv, ReportFollowsMovement, Calibrated
  <2>6. QED
    BY <2>2, <2>3, <2>4, <2>5 DEF MotionInv
<1>3. ASSUME NEW g \in BOOLEAN, Calibrate(g) PROVE MotionInv'
  BY <1>3, CalibrateInv
<1>4. ASSUME NEW s \in Samples, NEW f \in BOOLEAN, Sample(s, f) PROVE MotionInv'
  BY <1>4, SampleType, SampleHint, SampleClock, SampleRest, SampleGap DEF MotionInv
<1>5. CASE ServiceStep
  BY <1>5, ServiceInv
<1>6. CASE UNCHANGED vars
  BY <1>6 DEF vars, MotionInv, TypeOK, HintInv, ClockInv, RestInv, GapInv, PutOff,
              MovingIsPolledFast, ReportFollowsMovement, RestIsNoticed, Calibrated,
              Never, Off, RestLimit
<1>7. QED
  BY <1>1, <1>2, <1>3, <1>4, <1>5, <1>6 DEF Next, Samples, ServiceStep

(* Initially nothing is calibrated, reported or monitored.                 *)
LEMMA InitInv ==
    ASSUME Init
    PROVE  MotionInv
<1> USE MotionAssumption
<1>1. TypeOK
  BY InitType
<1>2. ~Calibrated
  BY DEF Init, Calibrated
<1>3. HintInv
  BY <1>2 DEF Init, HintInv, TargetInterval
<1>4. ClockInv /\ RestInv /\ GapInv
  <2>1. /\ accel.quiet = 0 /\ ~accel.fast /\ accel.moved = 0
        /\ mode = "IDLE" /\ gap = 0 /\ rest = 0 /\ since = ClockRange + 1
    BY DEF Init, Never
  <2>2. QED
    BY <2>1 DEF ClockInv, RestInv, GapInv
<1>5. MovingIsPolledFast /\ ReportFollowsMovement /\ RestIsNoticed
  BY <1>2 DEF Init, MovingIsPolledFast, ReportFollowsMovement, RestIsNoticed, RestLimit
<1>6. QED
  BY <1>1, <1>3, <1>4, <1>5 DEF MotionInv

-----------------------------------------------------------------------------
(***************************************************************************)
(* The theorems.                                                           *)
(***************************************************************************)

(* The invariant holds throughout.                                         *)
LEMMA MotionInvariant == Spec => []MotionInv
<1>1. MotionInv /\ [Next]_vars => MotionInv'
  BY StepInv
<1>2. QED
  BY InitInv, <1>1, PTL DEF Spec

(* However the motion state toggles, a monitor's next sample is put off by *)
(* at most one interval for still and two for moving, for all intervals    *)
(* and hold times of MotionAssumption (rsrp_service_set_motion_hint).      *)
THEOREM SamplingContinues == Spec => []SamplingGoesOn
<1>1. MotionInv => SamplingGoesOn
  <2>1. SUFFICES ASSUME MotionInv, ~odd PROVE gap <= PollStill + 2 * PollMoving
    BY DEF SamplingGoesOn
  <2>2. CASE mode # "MONITOR"
    BY <2>1, <2>2, MotionAssumption DEF MotionInv, GapInv
  <2>3. CASE mode = "MONITOR"
    <3>1. PutOff /\ timer \in 0..PollStill /\ gap \in Nat
      BY <2>1, <2>3, FieldTypes DEF MotionInv, GapInv, Off
    <3>2. \/ gap <= PollStill + PollMoving \/ gap <= PollMoving
          \/ gap + timer <= PollStill + 2 * PollMoving
          \/ gap + timer <= PollStill + PollMoving
      BY <3>1 DEF PutOff
    <3>3. QED
      BY <3>1, <3>2, MotionAssumption
  <2>4. QED
    BY <2>2, <2>3
<1>2. QED
  BY <1>1, MotionInvariant, PTL

(* While the device is reported moving its monitor's next sample is no     *)
(* farther away than the interval for moving (rsrp_service_set_motion_hint, *)
(* rsrp_service_start_monitor, rsrp_work_handler).                         *)
THEOREM MovingPolledFast == Spec => []MovingIsPolledFast
<1>1. MotionInv => MovingIsPolledFast
  BY DEF MotionInv
<1>2. QED
  BY <1>1, MotionInvariant, PTL

(* The report follows movement with the hold time, whenever the clock      *)
(* turns meanwhile (accel_thread, movement_seen_recently).                 *)
THEOREM ReportFollows == Spec => []ReportFollowsMovement
<1>1. MotionInv => ReportFollowsMovement
  BY DEF MotionInv
<1>2. QED
  BY <1>1, MotionInvariant, PTL

(* A device at rest is noticed, for every threshold and hold time          *)
(* (accel_thread, ACCEL_ZERO_VELOCITY_MS).                                 *)
THEOREM RestNoticed == Spec => []RestIsNoticed
<1>1. MotionInv => RestIsNoticed
  BY DEF MotionInv
<1>2. QED
  BY <1>1, MotionInvariant, PTL
=============================================================================
