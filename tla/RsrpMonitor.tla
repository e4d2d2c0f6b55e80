---------------------------- MODULE RsrpMonitor ----------------------------
(***************************************************************************)
(* rsrp/rsrp_service.c in detail.  Three threads share its variables: the  *)
(* state machine (priority 5) calls start and stop, the work handler runs   *)
(* on the system work queue (cooperative) and blocks only in the modem, and *)
(* the accelerometer (priority 7) gives motion hints.  One processor: a call*)
(* of the state machine is preempted by a handler the modem wakes, never by *)
(* the accelerometer, and a handler is never preempted.                     *)
(*                                                                         *)
(* Delays have no length here, so that the polling interval is left out;    *)
(* the NTN monitor only logs what it reads.                                 *)
(***************************************************************************)
EXTENDS Integers, Sequences, Functions

CONSTANTS
    Levels,         \* RSRP the modem may report, in dBm
    FallbackDbm,    \* CONFIG_APP_MODEM_RSRP_FALLBACK_DBM
    RecoveryDbm,    \* CONFIG_APP_MODEM_RSRP_RECOVERY_DBM
    DropDb,         \* CONFIG_APP_MODEM_RSRP_DROP_DB
    WeakSamples,    \* CONFIG_APP_MODEM_RSRP_WEAK_SAMPLE_COUNT
    LossSamples,    \* CONFIG_APP_MODEM_RSRP_LOSS_SAMPLE_COUNT
    ProbeSamples,   \* the samples lte_probe_run() asks for
    HistoryLen,     \* RSRP_HISTORY_LEN
    MaxSeen         \* bound of the model: samples between two questions

(* A probe of more samples than the history holds would never end.  Kconfig*)
(* allows limits of one, and rsrp_service_start_probe() a probe of one, but*)
(* KeepsPromise does not hold for them: the sample a stop or a change of   *)
(* mode overtakes is then a verdict.                                       *)
ASSUME RsrpAssumption ==
    /\ Levels \subseteq {d \in Int : d < 0} /\ Levels # {}
    /\ FallbackDbm \in Int /\ RecoveryDbm \in Int /\ DropDb \in Nat \ {0}
    /\ WeakSamples \in Nat \ {0, 1} /\ LossSamples \in Nat \ {0, 1}
    /\ HistoryLen \in Nat \ {0, 1, 2} /\ ProbeSamples \in 2..HistoryLen
    /\ MaxSeen \in Nat

VARIABLES
    mode,       \* current_mode
    tracking,   \* the variables of reset_signal_tracking()
    work,       \* rsrp_work: delayed, queued, being cancelled
    running,    \* the mode the handler blocked in the modem has read
    call,       \* the call of the state machine under way: what is left of it
    hint,       \* a motion hint about to reschedule the work
    asked,      \* history: what the state machine asked for last
    answer,     \* history: the verdict posted since
    seen        \* history: the samples taken since

vars == <<mode, tracking, work, running, call, hint, asked, answer, seen>>

None == 0       \* no dBm: an unavailable sample, or INT32_MIN

Min2(a, b) == IF a < b THEN a ELSE b
LastOf(s, n) == SubSeq(s, Len(s) - n + 1, Len(s))

Question == {"IDLE", "MONITOR", "PROBE", "NTN_MONITOR"}

Cleared == [last |-> None, history |-> <<>>, weak |-> 0, unavailable |-> 0,
            poorSent |-> FALSE]

Tracking ==
    [last : Levels \union {None},
     history : UNION {[1..n -> Levels] : n \in 0..HistoryLen},
     weak : 0..WeakSamples, unavailable : 0..LossSamples, poorSent : BOOLEAN]

NoCall == [to |-> "IDLE", left |-> <<>>]

TypeOK ==
    /\ mode \in Question
    /\ tracking \in Tracking
    /\ work \in [delayed : BOOLEAN, queued : BOOLEAN, canceling : BOOLEAN]
    /\ running \in Question
    /\ call \in [to : Question, left : Seq({"mode", "reset", "schedule", "cancel"})]
    /\ hint \in BOOLEAN
    /\ asked \in Question
    /\ answer \in {"none", "LTE_POOR", "LTE_GOOD"}
    /\ seen \in Seq(Levels \union {None}) /\ Len(seen) <= MaxSeen

(* rsrp_service_init().                                                    *)
Init ==
    /\ mode = "IDLE" /\ tracking = Cleared
    /\ work = [delayed |-> FALSE, queued |-> FALSE, canceling |-> FALSE]
    /\ running = "IDLE" /\ call = NoCall /\ hint = FALSE
    /\ asked = "IDLE" /\ answer = "none" /\ seen = <<>>

-----------------------------------------------------------------------------
(***************************************************************************)
(* The work queue.                                                         *)
(***************************************************************************)

(* k_work_reschedule() with a delay replaces an earlier delay.             *)
Delayed(w) == [w EXCEPT !.delayed = TRUE]

(* Submitting is refused while a cancelled handler still runs.             *)
Submitted(w) == [w EXCEPT !.delayed = FALSE, !.queued = @ \/ ~w.canceling]

Cancelled ==
    [delayed |-> FALSE, queued |-> FALSE, canceling |-> running # "IDLE"]

DelayExpires ==
    /\ work.delayed
    /\ work' = Submitted(work)
    /\ UNCHANGED <<mode, tracking, running, call, hint, asked, answer, seen>>

-----------------------------------------------------------------------------
(***************************************************************************)
(* The calls of the state machine, one assignment group at a time.         *)
(***************************************************************************)

(* rsrp_service_start_monitor() and _start_ntn_monitor(), _start_probe(),  *)
(* and rsrp_service_stop().                                                *)
StepsTo(m) ==
    CASE m = "IDLE"  -> <<"mode", "reset", "cancel">>
      [] m = "PROBE" -> <<"reset", "mode", "schedule">>
      [] OTHER       -> <<"mode", "reset", "schedule">>

(* The state machine stops what it started, except that a probe is left to *)
(* whoever comes next, be it another probe: a TN_READY_FOR_PROBE that      *)
(* outlived its own starts one more.  Before a monitor or a probe is       *)
(* started it measures once itself, and the modem takes one command at a   *)
(* time.                                                                   *)
MayAsk(m) ==
    CASE m = "IDLE"        -> TRUE
      [] m = "MONITOR"     -> /\ asked \in {"IDLE", "PROBE"}
                              /\ running # "PROBE"
      [] m = "PROBE"       -> /\ asked \in {"IDLE", "PROBE"}
                              /\ running \in {"IDLE", "NTN_MONITOR"}
      [] m = "NTN_MONITOR" -> asked \in {"IDLE", "PROBE"}

(* Stopping an idle service returns at once.                               *)
CallBegins(m) ==
    /\ call.left = <<>> /\ MayAsk(m)
    /\ IF m = "IDLE" /\ mode = "IDLE"
       THEN /\ asked' = "IDLE" /\ answer' = "none" /\ seen' = <<>>
            /\ UNCHANGED call
       ELSE /\ call' = [to |-> m, left |-> StepsTo(m)]
            /\ UNCHANGED <<asked, answer, seen>>
    /\ UNCHANGED <<mode, tracking, work, running, hint>>

CallStep(s) ==
    /\ call.left # <<>> /\ Head(call.left) = s
    /\ call' = IF Len(call.left) = 1 THEN NoCall ELSE [call EXCEPT !.left = Tail(@)]
    /\ UNCHANGED <<running, hint>>

SetMode ==
    /\ CallStep("mode")
    /\ mode' = call.to
    /\ UNCHANGED <<tracking, work, asked, answer, seen>>

(* Mutants: stop, or start_probe, keeps the counters.                      *)
KeepTracking(m) ==
    /\ CallStep("reset")
    /\ tracking' = IF call.to = m THEN tracking ELSE Cleared
    /\ asked' = call.to /\ answer' = "none" /\ seen' = <<>>
    /\ UNCHANGED <<mode, work>>
StopKeepsTracking == KeepTracking("IDLE")
ProbeKeepsTracking == KeepTracking("PROBE")

(* reset_signal_tracking(); from here on answers are to the new question.  *)
ResetSignalTracking ==
    /\ CallStep("reset")
    /\ tracking' = Cleared
    /\ asked' = call.to /\ answer' = "none" /\ seen' = <<>>
    /\ UNCHANGED <<mode, work>>

(* A probe starts with no delay; the others with the polling interval.     *)
Schedule ==
    /\ CallStep("schedule")
    /\ work' = IF call.to = "PROBE" THEN Submitted(work) ELSE Delayed(work)
    /\ UNCHANGED <<mode, tracking, asked, answer, seen>>

Cancel ==
    /\ CallStep("cancel")
    /\ work' = Cancelled
    /\ UNCHANGED <<mode, tracking, asked, answer, seen>>

(* rsrp_service_set_motion_hint() with a new motion state reads the mode...*)
HintReadsMode ==
    /\ call.left = <<>> /\ ~hint /\ mode = "MONITOR"
    /\ hint' = TRUE
    /\ UNCHANGED <<mode, tracking, work, running, call, asked, answer, seen>>

(* ...and reschedules, whatever the mode has become.                       *)
HintReschedules ==
    /\ call.left = <<>> /\ hint
    /\ hint' = FALSE
    /\ work' = Delayed(work)
    /\ UNCHANGED <<mode, tracking, running, call, asked, answer, seen>>

-----------------------------------------------------------------------------
(***************************************************************************)
(* rsrp_work_handler().                                                    *)
(***************************************************************************)

(* It reads the mode and asks the modem.  One that begins in the middle of *)
(* a call has read the mode before or after it, and blocks until its end.  *)
HandlerBegins ==
    /\ work.queued /\ running = "IDLE" /\ call.left = <<>>
    /\ work' = [work EXCEPT !.queued = FALSE]
    /\ running' = mode
    /\ UNCHANGED <<mode, tracking, call, hint, asked, answer, seen>>

(* Mutant: an unavailable sample does not interrupt a row of weak ones.    *)
UnavailableKeepsWeak(t) ==
    [t EXCEPT !.unavailable = Min2(@ + 1, LossSamples)]

(* record_rsrp_unavailable(); the counters matter up to their limits.      *)
RecordUnavailable(t) ==
    [t EXCEPT !.weak = 0, !.unavailable = Min2(@ + 1, LossSamples)]

LossLimitReached(t) == t.unavailable >= LossSamples

(* Mutant: a full history keeps growing.                                   *)
AddSampleUnbounded(t, d) ==
    [t EXCEPT !.unavailable = 0, !.history = Append(@, d)]

(* rsrp_history_add() with record_rsrp_available().                        *)
AddSample(t, d) ==
    [t EXCEPT !.unavailable = 0,
              !.history = LastOf(Append(@, d), Min2(Len(@) + 1, HistoryLen))]

Weak(d) == d <= FallbackDbm

(* rsrp_trend_worsening().                                                 *)
TrendWorsening(h) ==
    Len(h) >= 3 /\ LET l == LastOf(h, 3)
                   IN  l[3] < l[2] /\ l[2] < l[1] /\ l[1] - l[3] >= DropDb

(* What should_publish_lte_poor() leaves...                                *)
Tracked(t, d) ==
    [AddSample(t, d) EXCEPT !.weak = IF Weak(d) THEN Min2(@ + 1, WeakSamples) ELSE 0,
                            !.last = d]

(* ...and what it returns.                                                 *)
ShouldPublishPoor(t, d) ==
    /\ Weak(d)
    /\ \/ t.last # None /\ d - t.last <= -DropDb
       \/ TrendWorsening(Tracked(t, d).history)
       \/ Tracked(t, d).weak >= WeakSamples

(* rsrp_history_average(): its loop, and C's division, which rounds towards*)
(* zero, hence up.                                                         *)
Sum(h) ==
    LET sum[n \in 0..Len(h)] == IF n = 0 THEN 0 ELSE sum[n - 1] + h[n]
    IN  sum[Len(h)]

Average(h) == -((-Sum(h)) \div Len(h))

HandlerEnds ==
    /\ running' = "IDLE"
    /\ UNCHANGED <<call, hint, asked>>

Reschedules ==
    /\ work' = [Delayed(work) EXCEPT !.canceling = FALSE]
    /\ UNCHANGED <<mode, answer>>

(* A verdict ends the monitoring or the probing.                           *)
Publishes(v) ==
    /\ mode' = "IDLE" /\ answer' = v
    /\ work' = [work EXCEPT !.canceling = FALSE]

Sampled(d) == Len(seen) < MaxSeen /\ seen' = Append(seen, d)

(* Both modes that watch LTE-M: the modem gave no RSRP.                    *)
SampleUnavailable ==
    /\ running \in {"MONITOR", "PROBE"} /\ Sampled(None) /\ HandlerEnds
    /\ LET t == RecordUnavailable(tracking)
           poor == LossLimitReached(t) /\ (running = "PROBE" \/ ~t.poorSent)
       IN  /\ tracking' = [t EXCEPT !.poorSent = @ \/ (poor /\ running = "MONITOR")]
           /\ IF poor THEN Publishes("LTE_POOR") ELSE Reschedules

MonitorSample(d) ==
    /\ running = "MONITOR" /\ Sampled(d) /\ HandlerEnds
    /\ LET poor == ShouldPublishPoor(tracking, d)
       IN  IF tracking.poorSent
           THEN tracking' = [tracking EXCEPT !.unavailable = 0] /\ Reschedules
           ELSE /\ tracking' = [Tracked(tracking, d) EXCEPT !.poorSent = poor]
                /\ IF poor THEN Publishes("LTE_POOR") ELSE Reschedules

ProbeSample(d) ==
    /\ running = "PROBE" /\ Sampled(d) /\ HandlerEnds
    /\ tracking' = AddSample(tracking, d)
    /\ IF Len(tracking'.history) < ProbeSamples
       THEN Reschedules
       ELSE Publishes(IF Average(tracking'.history) >= RecoveryDbm
                      THEN "LTE_GOOD" ELSE "LTE_POOR")

(* Mutant: a handler overtaken by another mode leaves the work alone.      *)
NtnSampleOfItsMode ==
    /\ running = "NTN_MONITOR" /\ HandlerEnds
    /\ work' = [work EXCEPT !.delayed = @ \/ mode = running, !.canceling = FALSE]
    /\ UNCHANGED <<mode, answer, tracking, seen>>

NtnSample ==
    /\ running = "NTN_MONITOR" /\ HandlerEnds
    /\ Reschedules
    /\ UNCHANGED <<tracking, seen>>

Next ==
    \/ \E m \in Question : CallBegins(m)
    \/ SetMode \/ ResetSignalTracking \/ Schedule \/ Cancel
    \/ HintReadsMode \/ HintReschedules
    \/ DelayExpires \/ HandlerBegins
    \/ SampleUnavailable \/ NtnSample
    \/ \E d \in Levels : MonitorSample(d) \/ ProbeSample(d)

Spec == Init /\ [][Next]_vars

-----------------------------------------------------------------------------
(***************************************************************************)
(* Properties.                                                             *)
(***************************************************************************)

Promise == INSTANCE RsrpPromise

(* However a handler in flight is overtaken by stop and start, a verdict   *)
(* answers what is being asked, once; once stopped the service is silent   *)
(* (rsrp_work_handler, rsrp_service_stop).                                 *)
KeepsPromise == Promise!Spec

(* A monitor or probe that was started and has not answered is in its mode *)
(* with its work scheduled or in flight, although a stop may have cancelled*)
(* a running handler just before and every start races with it             *)
(* (rsrp_service_start_monitor, rsrp_service_start_probe).                 *)
LtemIsWatched ==
    call.left = <<>> /\ asked \in {"MONITOR", "PROBE"} /\ answer = "none" =>
        /\ mode = asked
        /\ work.delayed \/ work.queued \/ running # "IDLE"

(* The samples the modem gave, in their order.                             *)
Valid(s) ==
    LET valid[n \in 0..Len(s)] ==
            IF n = 0 THEN <<>>
            ELSE valid[n - 1] \o (IF s[n] = None THEN <<>> ELSE <<s[n]>>)
    IN  valid[Len(s)]

(* The criteria of the README's table, over samples s as they came.        *)
LostForLong(s) == Len(s) >= LossSamples /\ Range(LastOf(s, LossSamples)) = {None}

WeakInARow(s) ==
    /\ Len(s) >= WeakSamples
    /\ \A d \in Range(LastOf(s, WeakSamples)) : d # None /\ Weak(d)

Fallen(v, n) ==
    /\ Len(v) >= n
    /\ LET l == LastOf(v, n)
       IN  (\A i \in 2..n : l[i] < l[i - 1]) /\ l[1] - l[n] >= DropDb

Degraded(s) ==
    /\ s # <<>> /\ s[Len(s)] # None /\ Weak(s[Len(s)])
    /\ WeakInARow(s) \/ Fallen(Valid(s), 2) \/ Fallen(Valid(s), 3)

(* "One weak sample is not enough for fallback. The monitor waits for a    *)
(* sharp drop, a clear downward trend, or repeated weak samples": the      *)
(* monitor answers when, and only when, its samples meet a criterion       *)
(* (should_publish_lte_poor, record_rsrp_unavailable).                     *)
MonitorFollowsSamples ==
    asked = "MONITOR" => (answer = "LTE_POOR" <=> LostForLong(seen) \/ Degraded(seen))

(* LTE-M is found good on as many samples as were asked for, all taken     *)
(* since the probe began and none a sample short of the recovery level by  *)
(* a whole dBm on average (rsrp_history_average).                          *)
GoodOnFreshSamples ==
    answer = "LTE_GOOD" =>
        /\ Len(Valid(seen)) = ProbeSamples
        /\ Sum(Valid(seen)) > ProbeSamples * (RecoveryDbm - 1)
=============================================================================
