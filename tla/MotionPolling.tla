---------------------------- MODULE MotionPolling ----------------------------
(***************************************************************************)
(* sensors/accel.c with the polling interval of rsrp/rsrp_service.c: how    *)
(* the accelerometer's thread decides that the device moves, tells the RSRP *)
(* service, and how that puts forward or off the next sample of the monitor.*)
(*                                                                         *)
(* Time is counted in polls of the accelerometer (200 ms).  Of a sample the *)
(* model keeps what the thread tells apart: quiet, not quiet, or beyond the *)
(* movement threshold, and whether the integrated velocity is one that      *)
(* counts as moving.  The RSRP work is RsrpMonitor's: here it is one step.  *)
(***************************************************************************)
EXTENDS Integers

CONSTANTS
    ZeroVelocity,   \* ACCEL_ZERO_VELOCITY_MS
    MovingHold,     \* CONFIG_APP_SENSOR_ACCEL_MOVING_HOLD_MS
    MaxDt,          \* ACCEL_MAX_DT_MS
    BaselineCount,  \* ACCEL_BASELINE_SAMPLES
    PollMoving,     \* CONFIG_APP_MODEM_SIGNAL_POLL_INTERVAL_SEC
    PollStill,      \* CONFIG_APP_MODEM_SIGNAL_POLL_INTERVAL_STILL_SEC
    ClockRange      \* 2^32 ms, when k_uptime_get_32() begins again

(* Kconfig allows a hold of zero as well: then SamplingGoesOn does not hold.*)
ASSUME MotionAssumption ==
    /\ ZeroVelocity \in Nat \ {0} /\ MaxDt \in Nat \ {0}
    /\ BaselineCount \in Nat \ {0}
    /\ PollMoving \in Nat \ {0} /\ PollStill \in Nat /\ PollStill >= PollMoving
    /\ MovingHold \in Nat /\ MovingHold >= PollMoving
    /\ ClockRange \in Nat /\ ClockRange > 2 * (MovingHold + PollStill)

VARIABLES
    now,        \* k_uptime_get_32()
    accel,      \* the local variables of accel_thread()
    poll,       \* it is time for the next sample of the accelerometer
    hint,       \* motion hint of the RSRP service, and how far a call of it is
    mode,       \* current_mode
    interval,   \* monitor_poll_interval_sec
    timer,      \* rsrp_work: time until it runs, or Off
    gap,        \* history: time since the monitor's last sample or its start
    since,      \* history: time since movement was detected, or Never
    rest,       \* history: quiet samples in a row
    odd         \* history: an odd change of the hint since gap was zero

vars == <<now, accel, poll, hint, mode, interval, timer, gap, since, rest, odd>>

Off == -1
Never == ClockRange + 1
RestLimit == ZeroVelocity + MovingHold + 1      \* more make no difference
Min2(a, b) == IF a < b THEN a ELSE b

TypeOK ==
    /\ now \in 0..(ClockRange - 1)
    /\ accel \in [baseline : 0..BaselineCount,      \* have_baseline at the end
                  quiet : 0..ZeroVelocity,          \* quiet_time_ms
                  fast : BOOLEAN,                   \* velocity_mm_s counts
                  lag : 0..(MaxDt + 1),             \* time since last_sample_ts_ms
                  moved : 0..(ClockRange - 1),      \* last_movement_ts_ms
                  reported : BOOLEAN]               \* last_reported_moving
    /\ poll \in BOOLEAN
    /\ hint \in [state : {"unknown", "moving", "still"},
                 call : {"none", "check", "reschedule"}]
    /\ mode \in {"IDLE", "MONITOR", "NTN_MONITOR"}
    /\ interval \in {PollMoving, PollStill}
    /\ timer \in {Off} \union 0..PollStill
    /\ gap \in Nat /\ since \in 0..Never /\ rest \in 0..RestLimit /\ odd \in BOOLEAN

(* accel_start() and rsrp_service_init(), soon after boot.                 *)
Init ==
    /\ now = 0 /\ poll = TRUE
    /\ accel = [baseline |-> 0, quiet |-> 0, fast |-> FALSE, lag |-> 0,
                moved |-> 0, reported |-> FALSE]
    /\ hint = [state |-> "unknown", call |-> "none"]
    /\ mode = "IDLE" /\ interval = PollStill /\ timer = Off
    /\ gap = 0 /\ since = Never /\ rest = 0 /\ odd = FALSE

Calibrated == accel.baseline = BaselineCount

-----------------------------------------------------------------------------
(***************************************************************************)
(* Time passes when nothing is due: the handler preempts everything, and   *)
(* the accelerometer's thread has had its poll.                            *)
(***************************************************************************)

Tick ==
    /\ ~poll /\ hint.call = "none" /\ timer # 0
    /\ now' = (now + 1) % ClockRange
    /\ poll' = TRUE
    /\ timer' = IF timer = Off THEN Off ELSE timer - 1
    /\ gap' = IF mode = "MONITOR" THEN gap + 1 ELSE gap
    /\ since' = IF since = Never THEN Never ELSE Min2(since + 1, ClockRange)
    /\ accel' = [accel EXCEPT !.lag = Min2(@ + 1, MaxDt + 1)]
    /\ UNCHANGED <<hint, mode, interval, rest, odd>>

-----------------------------------------------------------------------------
(***************************************************************************)
(* accel_thread().                                                         *)
(***************************************************************************)

(* The sensor cannot be read, or the thread does not get the processor.    *)
ReadFails ==
    /\ poll /\ poll' = FALSE
    /\ UNCHANGED <<now, accel, hint, mode, interval, timer, gap, since, rest, odd>>

(* rsrp_target_poll_interval_sec().                                        *)
TargetInterval(h) == IF h = "moving" THEN PollMoving ELSE PollStill

(* rsrp_service_set_motion_hint() until it looks at the mode.  A change is *)
(* odd when it is the first, or comes of the clock: movement "seen" after  *)
(* a whole turn of it, or not remembered because it read zero.             *)
SetsHint(moving) ==
    /\ hint' = [state |-> IF moving THEN "moving" ELSE "still", call |-> "check"]
    /\ interval' = TargetInterval(hint'.state)
    /\ odd' = \/ odd \/ hint.state = "unknown"
              \/ IF moving THEN since' = ClockRange ELSE accel'.moved = 0

(* Before there is a baseline: one more sample that may be gravity alone,  *)
(* or all over again.  The first hint is that the device is still.         *)
Calibrate(gravity) ==
    /\ poll /\ poll' = FALSE /\ ~Calibrated
    /\ accel' = [accel EXCEPT !.baseline = IF gravity THEN @ + 1 ELSE 0, !.lag = 0]
    /\ UNCHANGED <<now, mode, timer, gap, since, rest>>
    /\ IF accel'.baseline = BaselineCount
       THEN SetsHint(FALSE)
       ELSE UNCHANGED <<hint, interval, odd>>

(* Time since the last sample; after a long one, one poll is assumed.      *)
Dt == IF accel.lag > MaxDt THEN 1 ELSE accel.lag

(* Mutant: moving only while movement is detected.                         *)
NoHold(moved) == FALSE

(* Mutant: the subtraction is not that of 32 bits.                         *)
SignedHold(moved) == moved # 0 /\ now - moved <= MovingHold

(* movement_seen_recently; zero stands for "never".                        *)
SeenRecently(moved) == moved # 0 /\ (now - moved) % ClockRange <= MovingHold

(* Mutant: the quiet time grows without its limit.                         *)
QuietUnlimited(s) == IF s = "quiet" THEN accel.quiet + Dt ELSE 0

QuietAfter(s) == IF s = "quiet" THEN Min2(ZeroVelocity, accel.quiet + Dt) ELSE 0

(* Mutant: standing still does not reset the velocity.                     *)
FastUntilBraked(s, f) == IF s = "quiet" THEN accel.fast ELSE f

FastAfter(s, f) == QuietAfter(s) < ZeroVelocity /\ IF s = "quiet" THEN accel.fast ELSE f

(* A sample; one that is not quiet leaves any velocity.  Standing still    *)
(* for ZeroVelocity resets it.                                             *)
Sample(s, fastAfter) ==
    LET fast == FastAfter(s, fastAfter)
        detected == s = "strong" \/ fast
        moved == IF detected THEN now ELSE accel.moved
        moving == detected \/ SeenRecently(moved)
    IN  /\ poll /\ poll' = FALSE /\ Calibrated
        /\ accel' = [accel EXCEPT !.quiet = QuietAfter(s), !.fast = fast, !.lag = 0,
                                  !.moved = moved, !.reported = moving]
        /\ since' = IF detected THEN 0 ELSE since
        /\ rest' = IF s = "quiet" THEN Min2(rest + 1, RestLimit) ELSE 0
        /\ IF moving # accel.reported
           THEN SetsHint(moving)
           ELSE UNCHANGED <<hint, interval, odd>>
        /\ UNCHANGED <<now, mode, timer, gap>>

(* Mutant: the new interval waits for the next sample.                     *)
HintOnlyNoted ==
    /\ hint.call = "check"
    /\ hint' = [hint EXCEPT !.call = "none"]
    /\ UNCHANGED <<now, accel, poll, mode, interval, timer, gap, since, rest, odd>>

(* The rest of rsrp_service_set_motion_hint(): it looks at the mode...     *)
HintChecksMode ==
    /\ hint.call = "check"
    /\ hint' = [hint EXCEPT !.call = IF mode = "MONITOR" THEN "reschedule" ELSE "none"]
    /\ UNCHANGED <<now, accel, poll, mode, interval, timer, gap, since, rest, odd>>

(* ...and reschedules, whatever the mode has become.                       *)
HintReschedules ==
    /\ hint.call = "reschedule"
    /\ hint' = [hint EXCEPT !.call = "none"]
    /\ timer' = interval
    /\ UNCHANGED <<now, accel, poll, mode, interval, gap, since, rest, odd>>

-----------------------------------------------------------------------------
(***************************************************************************)
(* The RSRP service, its work handler and its client.                      *)
(***************************************************************************)

(* rsrp_work_handler() in RSRP_MODE_MONITOR: the sample may be the verdict.*)
MonitorSample ==
    /\ timer = 0 /\ mode = "MONITOR"
    /\ interval' = TargetInterval(hint.state)
    /\ \/ timer' = interval' /\ UNCHANGED mode
       \/ timer' = Off /\ mode' = "IDLE"
    /\ gap' = 0 /\ odd' = FALSE
    /\ UNCHANGED <<now, accel, poll, hint, since, rest>>

(* In NTN the interval is the last one set; an idle service does nothing.  *)
OtherWork ==
    /\ timer = 0 /\ mode # "MONITOR"
    /\ timer' = IF mode = "NTN_MONITOR" THEN interval ELSE Off
    /\ UNCHANGED <<now, accel, poll, hint, mode, interval, gap, since, rest, odd>>

StartMonitor ==
    /\ mode = "IDLE" /\ mode' = "MONITOR"
    /\ interval' = TargetInterval(hint.state)
    /\ timer' = interval' /\ gap' = 0 /\ odd' = FALSE
    /\ UNCHANGED <<now, accel, poll, hint, since, rest>>

StartNtnMonitor ==
    /\ mode = "IDLE" /\ mode' = "NTN_MONITOR"
    /\ timer' = interval
    /\ UNCHANGED <<now, accel, poll, hint, interval, gap, since, rest, odd>>

Stop ==
    /\ mode # "IDLE" /\ mode' = "IDLE"
    /\ timer' = Off /\ gap' = 0 /\ odd' = FALSE
    /\ UNCHANGED <<now, accel, poll, hint, interval, since, rest>>

Next ==
    \/ Tick
    \/ ReadFails \/ \E g \in BOOLEAN : Calibrate(g)
    \/ \E f \in BOOLEAN : Sample("slight", f) \/ Sample("strong", f)
    \/ Sample("quiet", FALSE)
    \/ HintChecksMode \/ HintReschedules
    \/ MonitorSample \/ OtherWork
    \/ StartMonitor \/ StartNtnMonitor \/ Stop

Spec == Init /\ [][Next]_vars

-----------------------------------------------------------------------------
(***************************************************************************)
(* Properties.                                                             *)
(***************************************************************************)

(* A monitor keeps sampling however the motion state toggles: each change  *)
(* puts the next sample off, but the hold keeps changes to still apart, so *)
(* that one falls due between two of them.  That is not so of the first    *)
(* hint and of changes that come of the clock                              *)
(* (rsrp_service_set_motion_hint, accel_thread).                           *)
SamplingGoesOn == odd \/ gap <= PollStill + 2 * PollMoving

(* While the device is reported to move, LTE-M is sampled at the interval  *)
(* for moving, whichever of the hint, the start of the monitor and its     *)
(* handler came last (rsrp_service_set_motion_hint).                       *)
MovingIsPolledFast ==
    mode = "MONITOR" /\ hint = [state |-> "moving", call |-> "none"] =>
        timer <= PollMoving

(* "Keep reporting moving for this long after the last clear acceleration  *)
(* or velocity event": for the hold time and no longer, except that a      *)
(* whole turn of the clock later it does again, and movement at zero does  *)
(* not count as recent (movement_seen_recently).                           *)
ReportFollowsMovement ==
    Calibrated /\ ~poll /\ accel.lag = 0 =>
        IF accel.reported THEN since <= MovingHold \/ since = ClockRange
                          ELSE since > MovingHold \/ accel.moved = 0

(* A device at rest is noticed: after ZeroVelocity and the hold time of    *)
(* quiet samples it is reported still, whatever velocity integrating noise *)
(* had left (ACCEL_ZERO_VELOCITY_MS).                                      *)
RestIsNoticed == rest = RestLimit => ~accel.reported \/ since = ClockRange
=============================================================================
