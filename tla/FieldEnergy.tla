----------------------------- MODULE FieldEnergy -----------------------------
(***************************************************************************)
(* What the log thread of field_log/field_log.c makes of battery samples   *)
(* and of time: the discharge energy in its summaries, and when they come.  *)
(* FieldLog has the rest: the records, the other messages and their losses. *)
(*                                                                         *)
(* A sample is stamped when it is published and waits in the queue; the     *)
(* log thread, of the lowest priority and often blocked in flash or by the *)
(* shell, takes it later.  Energies are counted in mW ms and truncated to a *)
(* Unit whenever a span is added.                                          *)
(***************************************************************************)
EXTENDS Integers, Sequences

CONSTANTS
    Powers,             \* voltage times discharge current; 0 while charging
    Unit,               \* 3600000, the milliseconds of an hour
    SummaryInterval,    \* CONFIG_APP_FIELD_LOG_SUMMARY_INTERVAL_SEC
    QueueLength,        \* FIELD_LOG_MSGQ_LEN
    MaxTime             \* bound of the model: uptime

ASSUME EnergyAssumption ==
    /\ Powers \subseteq Nat /\ Unit \in Nat \ {0}
    /\ SummaryInterval \in Nat \ {0} /\ QueueLength \in Nat \ {0}
    /\ MaxTime \in Nat

VARIABLES
    now,        \* k_uptime_get()
    queue,      \* battery samples in field_log_msgq
    battery,    \* runtime.battery; power is None before the first sample
    log,        \* where the thread is, and the time of its next summary
    level,      \* history: power of the last sample accepted
    used,       \* history: energy used at that power
    twice,      \* history: energy of spans that were counted before
    spans,      \* history: number of spans added
    reported    \* history: interval energies of the summaries

vars == <<now, queue, battery, log, level, used, twice, spans, reported>>

None == -1
(* `used' is history: the energy used until the sample.                    *)
Sample == [time : 0..MaxTime, power : Powers, used : Nat]

TypeOK ==
    /\ now \in 0..MaxTime
    /\ queue \in Seq(Sample) /\ Len(queue) <= QueueLength
    /\ battery \in [power : Powers \union {None}, until : 0..MaxTime,
                    interval : Nat, total : Nat]
    /\ log \in [pc : {"top", "wait", "due", "summary"}, due : Nat]
    /\ level \in Powers \union {0}
    /\ used \in Nat /\ twice \in Nat /\ spans \in Nat /\ reported \in Nat

(* field_log_start() soon after boot.                                      *)
Init ==
    /\ now = 0 /\ queue = <<>>
    /\ battery = [power |-> None, until |-> 0, interval |-> 0, total |-> 0]
    /\ log = [pc |-> "top", due |-> SummaryInterval]
    /\ level = 0 /\ used = 0 /\ twice = 0 /\ spans = 0 /\ reported = 0

-----------------------------------------------------------------------------
Tick ==
    /\ now < MaxTime /\ now' = now + 1
    /\ used' = used + level
    /\ UNCHANGED <<queue, battery, log, level, twice, spans, reported>>

(* field_log_note_battery_sample(), by the battery's thread.  A full queue *)
(* drops the sample, which FieldLog counts.                                *)
Note(p) ==
    /\ Len(queue) < QueueLength
    /\ queue' = Append(queue, [time |-> now, power |-> p, used |-> used])
    /\ level' = p
    /\ UNCHANGED <<now, battery, log, used, twice, spans, reported>>

-----------------------------------------------------------------------------
(* Mutant: a time that has been integrated to is integrated to again.      *)
IntegratesAnyTime(t) == battery.power # None

(* battery_accumulator_integrate_until().                                  *)
Integrates(t) == battery.power # None /\ t > battery.until

(* Mutant: what is added to the interval is not marked as added.           *)
IntegratedAgain(t) ==
    LET energy == (battery.power * (t - battery.until)) \div Unit
    IN  IF Integrates(t)
        THEN [battery EXCEPT !.interval = @ + energy, !.total = @ + energy]
        ELSE battery

IntegratedUntil(t) ==
    LET energy == (battery.power * (t - battery.until)) \div Unit
    IN  IF Integrates(t)
        THEN [battery EXCEPT !.interval = @ + energy, !.total = @ + energy, !.until = t]
        ELSE battery

CountsSpan(t) == spans' = spans + (IF Integrates(t) THEN 1 ELSE 0)

(* Mutant: the time of the next summary is not looked at.                  *)
LoopTopWaits ==
    /\ log.pc = "top"
    /\ log' = [log EXCEPT !.pc = "wait"]
    /\ UNCHANGED <<now, queue, battery, level, used, twice, spans, reported>>

(* field_log_thread(): a summary that is due comes before any message...   *)
LoopTop ==
    /\ log.pc = "top"
    /\ log' = [log EXCEPT !.pc = IF now >= log.due THEN "due" ELSE "wait"]
    /\ UNCHANGED <<now, queue, battery, level, used, twice, spans, reported>>

(* ...and otherwise it waits for a message, until the summary is due.      *)
WaitEnds ==
    /\ log.pc = "wait" /\ queue = <<>> /\ now >= log.due
    /\ log' = [log EXCEPT !.pc = "due"]
    /\ UNCHANGED <<now, queue, battery, level, used, twice, spans, reported>>

(* field_log_process_battery_sample(): the accumulator starts from the     *)
(* sample's time, even when a summary has already integrated beyond it.    *)
ProcessSample ==
    /\ log.pc = "wait" /\ queue # <<>>
    /\ LET s == Head(queue)
       IN  /\ battery' = [IntegratedUntil(s.time) EXCEPT !.power = s.power, !.until = s.time]
           /\ CountsSpan(s.time)
           /\ twice' = IF battery.power # None /\ s.time < battery.until
                       THEN twice + battery.power * (battery.until - s.time)
                       ELSE twice
    /\ queue' = Tail(queue)
    /\ log' = [log EXCEPT !.pc = "top"]
    /\ UNCHANGED <<now, level, used, reported>>

(* field_log_finalize_summary() fills the record...                        *)
SummaryBegins ==
    /\ log.pc = "due"
    /\ battery' = IntegratedUntil(now) /\ CountsSpan(now)
    /\ reported' = reported + battery'.interval
    /\ log' = [log EXCEPT !.pc = "summary"]
    /\ UNCHANGED <<now, queue, level, used, twice>>

(* Mutant: a new interval starts with the energy of the last.              *)
SummaryKeepsInterval ==
    /\ log.pc = "summary"
    /\ log' = [pc |-> "top", due |-> log.due + SummaryInterval]
    /\ UNCHANGED <<now, queue, battery, level, used, twice, spans, reported>>

(* ...and, once it is written or refused, starts a new interval.  After a  *)
(* long one, summaries follow each other until they have caught up.        *)
SummaryEnds ==
    /\ log.pc = "summary"
    /\ battery' = [battery EXCEPT !.interval = 0]
    /\ log' = [pc |-> "top", due |-> log.due + SummaryInterval]
    /\ UNCHANGED <<now, queue, level, used, twice, spans, reported>>

-----------------------------------------------------------------------------
LogThread == LoopTop \/ WaitEnds \/ ProcessSample \/ SummaryBegins \/ SummaryEnds

Next == Tick \/ LogThread \/ \E p \in Powers : Note(p)

Spec == Init /\ [][Next]_vars

(* The log thread runs at last, whatever it is blocked by.                 *)
FairSpec == Spec /\ WF_vars(LogThread)

-----------------------------------------------------------------------------
(***************************************************************************)
(* Properties.                                                             *)
(***************************************************************************)

(* Once every sample has been taken, the energy reported, and that of the  *)
(* span still running, is what was used, up to one rounding for each span: *)
(* none is left out, and none is added but that of a span which a summary  *)
(* had integrated past a sample that still waited in the queue             *)
(* (battery_accumulator_integrate_until, field_log_process_battery_sample). *)
EnergyIsThatOfSamples ==
    LET running == IF battery.power = None THEN 0 ELSE battery.power * (now - battery.until)
        counted == Unit * battery.total + running
    IN  queue = <<>> =>
            /\ counted <= used + twice
            /\ used + twice <= counted + spans * (Unit - 1)

(* The intervals of the summaries make up the total, whatever comes while  *)
(* a summary is written: no energy falls between two of them               *)
(* (field_log_finalize_summary, field_log_runtime_reset_interval).         *)
IntervalsMakeTotal ==
    battery.total = reported + (IF log.pc = "summary" THEN 0 ELSE battery.interval)

(* A summary that is due comes, however many messages keep arriving        *)
(* (field_log_thread).                                                     *)
SummariesComeDue ==
    \A d \in {k * SummaryInterval : k \in 1..(MaxTime \div SummaryInterval)} :
        d <= now /\ log.due = d ~> log.due > d
=============================================================================
