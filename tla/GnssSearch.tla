----------------------------- MODULE GnssSearch -----------------------------
(***************************************************************************)
(* gnss/gnss_service.c in detail, between the contexts that share its flags *)
(* without a lock: the state machine's thread starts and leaves searches;   *)
(* the modem's GNSS events interrupt anything; four work items run on the   *)
(* system work queue, in order and without preemption, one of them blocking *)
(* in the cloud library; and the cloud thread, of the lowest priority, is   *)
(* preempted anywhere in gnss_notify_agnss_ready().                         *)
(*                                                                         *)
(* Delays have no length.  Whether the cloud is connected, has a request in *)
(* progress, or accepts one, is its choice each time it is asked.           *)
(***************************************************************************)
EXTENDS Naturals, Sequences, SequencesExt

CONSTANTS
    Refusals,       \* calls that may fail: "start", "stop", "read", "request"
    MaxInbox        \* bound of the model: events the state machine lags behind

ASSUME GnssSearchAssumption ==
    /\ Refusals \subseteq {"start", "stop", "read", "request"}
    /\ MaxInbox \in Nat \ {0}

VARIABLES
    sm,         \* the state machine: does it search, for NTN, was it refused
    call,       \* its call under way: what is left of it
    inbox,      \* events posted to it
    gnss,       \* the flags of the service
    modemOn,    \* external: the modem searches
    work,       \* work items whose delay runs, and those submitted, in order
    request,    \* the request handler: blocked in the cloud library, cancelled
    callback,   \* the cloud thread in gnss_mark_agnss_ready()
    late        \* history: assistance overtook the exit of the last search, and
                \* the timeout it arms has not run since

vars == <<sm, call, inbox, gnss, modemOn, work, request, callback, late>>

Items == {"pvt", "timeout", "request", "monitor"}

Flags == [running : BOOLEAN,        \* gnss_running
          assisted : BOOLEAN,       \* assisted_start_in_progress, and with it
                                    \* agnss_prepare_start_time # 0
          reqReceived : BOOLEAN,    \* agnss_req_received
          sent : BOOLEAN,           \* agnss_request_sent
          extended : BOOLEAN,       \* agnss_pending_timeout_extended
          ready : BOOLEAN,          \* agnss_ready
          fixPublished : BOOLEAN]   \* fix_published

TypeOK ==
    /\ sm \in [searching : BOOLEAN, required : BOOLEAN, extendOnce : BOOLEAN,
               refused : BOOLEAN]
    /\ call \in Seq({"reset", "cancel", "start", "running", "arm", "stop", "clear"})
    /\ inbox \in Seq({"FIX", "TIMEOUT"}) /\ Len(inbox) <= MaxInbox
    /\ gnss \in Flags /\ modemOn \in BOOLEAN
    /\ work \in [delayed : SUBSET (Items \ {"pvt"}), queue : Seq(Items)]
    /\ IsInjective(work.queue)
    /\ request \in {"none", "blocked", "cancelled"}
    /\ callback \in {"none", "checked", "marked"}
    /\ late \in BOOLEAN

Elsewhere == [searching |-> FALSE, required |-> FALSE, extendOnce |-> FALSE,
              refused |-> FALSE]

(* gnss_service_init().                                                    *)
Init ==
    /\ sm = Elsewhere /\ call = <<>> /\ inbox = <<>> /\ modemOn = FALSE
    /\ gnss = [running |-> FALSE, assisted |-> FALSE, reqReceived |-> FALSE, sent |-> FALSE, extended |-> FALSE,
               ready |-> FALSE, fixPublished |-> FALSE]
    /\ work = [delayed |-> {}, queue |-> <<>>]
    /\ request = "none" /\ callback = "none" /\ late = FALSE

-----------------------------------------------------------------------------
(***************************************************************************)
(* The work queue.                                                         *)
(***************************************************************************)

(* k_work_reschedule() with a delay leaves an item that is queued queued.  *)
Delayed(w, i) == [w EXCEPT !.delayed = @ \union {i}]

(* Mutant: an item that is queued is queued again.                         *)
SubmittedAgain(w, i) ==
    [delayed |-> w.delayed \ {i}, queue |-> Append(w.queue, i)]

(* Submitting is refused while a cancelled handler still runs.             *)
Submitted(w, i) ==
    [delayed |-> w.delayed \ {i},
     queue |-> IF i \in Range(w.queue) \/ (i = "request" /\ request = "cancelled")
               THEN w.queue ELSE Append(w.queue, i)]

Cancelled(w, i) == [delayed |-> w.delayed \ {i}, queue |-> RemoveFirst(w.queue, i)]

(* The two calls for the assistance, in the order of the code.             *)
AssistanceCancelled(w) == Cancelled(Cancelled(w, "request"), "monitor")

(* Cancelling a request handler that runs only marks it.                   *)
RequestCancelled == IF request = "none" THEN "none" ELSE "cancelled"

DelayExpires(i) ==
    /\ i \in work.delayed
    /\ work' = Submitted(work, i)
    /\ UNCHANGED <<sm, call, inbox, gnss, modemOn, request, callback, late>>

(* The queue's thread takes the next item; a blocked handler blocks it.    *)
Takes(i) ==
    /\ request = "none" /\ work.queue # <<>> /\ Head(work.queue) = i
    /\ UNCHANGED <<sm, call, modemOn, callback>>

Taken == [work EXCEPT !.queue = Tail(@)]

(* app_event_put(), without loss.                                          *)
Posts(e) == Len(inbox) < MaxInbox /\ inbox' = Append(inbox, e)

(* gnss_acquire_exit() is under way.                                       *)
Leaving == ~sm.searching /\ call # <<>>

(* gnss_service_start_timeout() by an assistance handler.                  *)
ArmsTimeout(w) ==
    /\ work' = Delayed(w, "timeout")
    /\ late' = (late \/ Leaving)

-----------------------------------------------------------------------------
(***************************************************************************)
(* The state machine: GNSS_ACQUIRE is entered, handles its events, is left. *)
(***************************************************************************)

SmStep(s) ==
    /\ call # <<>> /\ Head(call) = s
    /\ UNCHANGED <<sm, callback, late>>

StepDone == call' = Tail(call)

(* gnss_acquire_entry(): a search required for NTN is standalone, others   *)
(* are assisted.  A service that runs refuses, having reset fix_published. *)
Acquire(required) ==
    /\ ~sm.searching /\ call = <<>>
    /\ sm' = [searching |-> TRUE, required |-> required, extendOnce |-> required,
              refused |-> gnss.running]
    /\ gnss' = [gnss EXCEPT !.fixPublished = @ /\ required]
    /\ call' = IF gnss.running THEN <<>>
               ELSE (IF required THEN <<>> ELSE <<"reset", "cancel">>)
                        \o <<"start", "running", "arm">>
    /\ UNCHANGED <<inbox, modemOn, work, request, callback, late>>

(* gnss_service_start_assisted(), its assignments...                       *)
ResetAssistance ==
    /\ SmStep("reset") /\ StepDone
    /\ gnss' = [gnss EXCEPT !.ready = FALSE, !.reqReceived = FALSE, !.sent = FALSE,
                            !.extended = FALSE, !.assisted = TRUE]
    /\ UNCHANGED <<inbox, modemOn, work, request>>

(* ...and cancellations, which gnss_service_stop() has too.                *)
CancelAssistance ==
    /\ SmStep("cancel") /\ StepDone
    /\ work' = AssistanceCancelled(work)
    /\ request' = RequestCancelled
    /\ UNCHANGED <<inbox, gnss, modemOn>>

(* gnss_start_search() asks the modem; handle_error() posts EVT_TIMEOUT.   *)
StartModem ==
    /\ SmStep("start")
    /\ \/ modemOn' = TRUE /\ StepDone /\ UNCHANGED inbox
       \/ "start" \in Refusals /\ Posts("TIMEOUT") /\ call' = <<>> /\ UNCHANGED modemOn
    /\ UNCHANGED <<gnss, work, request>>

SetRunning ==
    /\ SmStep("running") /\ StepDone
    /\ gnss' = [gnss EXCEPT !.running = TRUE]
    /\ UNCHANGED <<inbox, modemOn, work, request>>

ArmTimeout ==
    /\ SmStep("arm") /\ StepDone
    /\ work' = Delayed(work, "timeout")
    /\ UNCHANGED <<inbox, gnss, modemOn, request>>

(* gnss_acquire_run(): the timeout of a search for NTN extends it once.    *)
ExtendSearch ==
    /\ sm.searching /\ call = <<>> /\ inbox # <<>> /\ Head(inbox) = "TIMEOUT"
    /\ sm.required /\ sm.extendOnce
    /\ inbox' = Tail(inbox)
    /\ sm' = [sm EXCEPT !.extendOnce = FALSE]
    /\ work' = Delayed(work, "timeout")
    /\ UNCHANGED <<call, gnss, modemOn, request, callback, late>>

LeaveSearch ==
    /\ sm.searching /\ call = <<>>
    /\ sm' = Elsewhere
    /\ call' = <<"stop", "cancel", "clear">>
    /\ work' = Cancelled(work, "timeout")
    /\ late' = (callback # "none")
    /\ UNCHANGED <<gnss, modemOn, request, callback>>

(* A fix, another timeout, or a lost link: gnss_acquire_exit() disarms the *)
(* timeout, then stops the service.                                        *)
Answered ==
    /\ LeaveSearch
    /\ inbox # <<>> /\ ~(sm.extendOnce /\ Head(inbox) = "TIMEOUT") /\ inbox' = Tail(inbox)

Abandoned == LeaveSearch /\ UNCHANGED inbox

(* gnss_service_stop(): a refusal leaves everything as it is.              *)
StopModem ==
    /\ SmStep("stop")
    /\ \/ modemOn' = FALSE /\ StepDone
       \/ "stop" \in Refusals /\ call' = <<>> /\ UNCHANGED modemOn
    /\ UNCHANGED <<inbox, gnss, work, request>>

ClearFlags ==
    /\ SmStep("clear") /\ StepDone
    /\ gnss' = [gnss EXCEPT !.running = FALSE, !.ready = FALSE, !.sent = FALSE,
                            !.extended = FALSE, !.assisted = FALSE]
    /\ UNCHANGED <<inbox, modemOn, work, request>>

(* Other states take no notice here of what was meant for the search.      *)
StrayEvent ==
    /\ ~sm.searching /\ call = <<>> /\ inbox # <<>>
    /\ inbox' = Tail(inbox)
    /\ UNCHANGED <<sm, call, gnss, modemOn, work, request, callback, late>>

-----------------------------------------------------------------------------
(***************************************************************************)
(* gnss_event_handler(), an interrupt.                                     *)
(***************************************************************************)

PvtEvent ==
    /\ modemOn
    /\ work' = Submitted(work, "pvt")
    /\ UNCHANGED <<sm, call, inbox, gnss, modemOn, request, callback, late>>

(* A request that cannot be read is dropped, and so changes nothing.       *)
AgnssRequested ==
    /\ modemOn
    /\ gnss' = [gnss EXCEPT !.reqReceived = TRUE]
    /\ work' = IF gnss.assisted THEN Submitted(work, "request") ELSE work
    /\ UNCHANGED <<sm, call, inbox, modemOn, request, callback, late>>

-----------------------------------------------------------------------------
(***************************************************************************)
(* The work handlers.                                                      *)
(***************************************************************************)

Deaf == gnss.fixPublished \/ ~gnss.running

(* gnss_pvt_work_handler(): it may read a fix, none yet, or nothing.       *)
PvtIgnored ==
    /\ Takes("pvt") /\ work' = Taken
    /\ UNCHANGED <<inbox, gnss, request, late>>

PvtFix ==
    /\ Takes("pvt") /\ ~Deaf
    /\ gnss' = [gnss EXCEPT !.fixPublished = TRUE]
    /\ work' = Cancelled(Taken, "timeout")
    /\ Posts("FIX")
    /\ UNCHANGED <<request, late>>

PvtUnreadable ==
    /\ Takes("pvt") /\ ~Deaf /\ "read" \in Refusals
    /\ work' = Taken /\ Posts("TIMEOUT")
    /\ UNCHANGED <<gnss, request, late>>

(* gnss_timeout_work_handler().                                            *)
MayExtend == gnss.running /\ gnss.assisted /\ gnss.sent /\ ~gnss.extended

(* Mutant: the extension is not remembered.                                *)
ExtendAgain ==
    /\ Takes("timeout") /\ MayExtend
    /\ ArmsTimeout(Taken)
    /\ UNCHANGED <<inbox, gnss, request>>

(* Mutant: the extension is remembered, but not armed.                     *)
ExtendForgets ==
    /\ Takes("timeout") /\ MayExtend
    /\ gnss' = [gnss EXCEPT !.extended = TRUE]
    /\ work' = Taken
    /\ UNCHANGED <<inbox, request, late>>

(* The cloud still has the request in progress.                            *)
ExtendForRequest ==
    /\ Takes("timeout") /\ MayExtend
    /\ gnss' = [gnss EXCEPT !.extended = TRUE]
    /\ ArmsTimeout(Taken)
    /\ UNCHANGED <<inbox, request>>

TimesOut ==
    /\ Takes("timeout")
    /\ work' = Taken /\ Posts("TIMEOUT")
    /\ late' = (late /\ (callback # "none" \/ "timeout" \in work.delayed))
    /\ UNCHANGED <<gnss, request>>

(* Mutant: assistance is given up for a search that is over.               *)
FallsBackAnyway(w) ==
    /\ gnss' = [gnss EXCEPT !.assisted = FALSE, !.sent = FALSE, !.ready = FALSE,
                            !.extended = FALSE]
    /\ ArmsTimeout(AssistanceCancelled(w))

(* gnss_fallback_to_standalone(), in the request handler.                  *)
FallsBack(w) ==
    IF gnss.running
    THEN /\ gnss' = [gnss EXCEPT !.assisted = FALSE, !.sent = FALSE, !.ready = FALSE,
                                 !.extended = FALSE]
         /\ ArmsTimeout(AssistanceCancelled(w))
    ELSE work' = w /\ UNCHANGED <<gnss, late>>

(* -EAGAIN is tried again in a second.                                     *)
TriesAgain(w) == work' = Delayed(w, "request") /\ UNCHANGED <<gnss, late>>

(* agnss_request_work_handler() up to nrf_cloud_agnss_request().           *)
RequestBegins ==
    /\ Takes("request")
    /\ UNCHANGED inbox
    /\ \/ ~gnss.assisted /\ work' = Taken /\ UNCHANGED <<gnss, request, late>>
       \/ gnss.assisted /\ ~gnss.reqReceived /\ TriesAgain(Taken) /\ UNCHANGED request
       \/ /\ gnss.assisted /\ gnss.reqReceived /\ request' = "blocked"
          /\ work' = Taken /\ UNCHANGED <<gnss, late>>

Returns ==
    /\ request # "none" /\ request' = "none"
    /\ UNCHANGED <<sm, call, inbox, modemOn, callback>>

(* The library took the request, in whatever search there is now...        *)
RequestSent ==
    /\ Returns
    /\ gnss' = [gnss EXCEPT !.sent = TRUE]
    /\ work' = Delayed(work, "monitor")
    /\ UNCHANGED late

(* ...or failed for now or for good.                                       *)
RequestFails ==
    /\ Returns /\ "request" \in Refusals
    /\ TriesAgain(work) \/ UNCHANGED <<work, gnss, late>>

(* The cloud is not connected, or it is 10 s after the start.              *)
RequestFallsBack ==
    \/ Takes("request") /\ gnss.assisted /\ FallsBack(Taken) /\ UNCHANGED <<inbox, request>>
    \/ Returns /\ "request" \in Refusals /\ FallsBack(work)

(* gnss_mark_agnss_ready().                                                *)
Marked == [gnss EXCEPT !.ready = TRUE, !.sent = FALSE, !.extended = FALSE,
                       !.assisted = FALSE]

(* agnss_monitor_work_handler(): the request may still be in progress.     *)
MonitorRuns ==
    /\ Takes("monitor")
    /\ LET waits == gnss.running /\ gnss.assisted /\ gnss.sent /\ ~gnss.ready
       IN  \/ ~waits /\ work' = Taken /\ UNCHANGED <<gnss, late>>
           \/ waits /\ work' = Delayed(Taken, "monitor") /\ UNCHANGED <<gnss, late>>
           \/ waits /\ gnss' = Marked /\ ArmsTimeout(Taken)
    /\ UNCHANGED <<inbox, request>>

-----------------------------------------------------------------------------
(***************************************************************************)
(* gnss_notify_agnss_ready(), in the cloud thread: it gets the processor   *)
(* only while the state machine has no call or blocks in the modem.  Data   *)
(* may answer any request, one made before a reset of the device included. *)
(***************************************************************************)

CloudThreadRuns ==
    /\ call # <<>> => Head(call) \in {"start", "stop"}
    /\ UNCHANGED <<sm, call, inbox, modemOn, request>>

(* Mutant: data that came again is new data.                               *)
CallbackChecksNothing ==
    /\ callback = "none" /\ CloudThreadRuns
    /\ gnss.running
    /\ callback' = "checked" /\ late' = (late \/ Leaving)
    /\ UNCHANGED <<gnss, work>>

CallbackChecks ==
    /\ callback = "none" /\ CloudThreadRuns
    /\ gnss.running /\ ~gnss.ready
    /\ callback' = "checked" /\ late' = (late \/ Leaving)
    /\ UNCHANGED <<gnss, work>>

CallbackMarks ==
    /\ callback = "checked" /\ CloudThreadRuns
    /\ callback' = "marked" /\ gnss' = Marked
    /\ UNCHANGED <<work, late>>

CallbackArms ==
    /\ callback = "marked" /\ CloudThreadRuns
    /\ callback' = "none" /\ ArmsTimeout(work)
    /\ UNCHANGED gnss

-----------------------------------------------------------------------------
StateMachine ==
    \/ ResetAssistance \/ CancelAssistance \/ StartModem \/ SetRunning \/ ArmTimeout
    \/ ExtendSearch \/ Answered \/ StopModem \/ ClearFlags \/ StrayEvent

WorkQueue ==
    \/ PvtIgnored \/ PvtFix \/ PvtUnreadable \/ ExtendForRequest \/ TimesOut
    \/ RequestBegins \/ RequestSent \/ RequestFails \/ RequestFallsBack \/ MonitorRuns

Next ==
    \/ StateMachine \/ WorkQueue
    \/ \E r \in BOOLEAN : Acquire(r)
    \/ Abandoned
    \/ PvtEvent \/ AgnssRequested
    \/ \E i \in Items : DelayExpires(i)
    \/ CallbackChecks \/ CallbackMarks \/ CallbackArms

Spec == Init /\ [][Next]_vars

(* The state machine, the work queue and the timeout's delay run when they *)
(* can, and the cloud library returns; nothing else is promised.           *)
FairSpec ==
    /\ Spec
    /\ WF_vars(StateMachine) /\ WF_vars(WorkQueue)
    /\ WF_vars(DelayExpires("timeout"))

-----------------------------------------------------------------------------
(***************************************************************************)
(* Properties.                                                             *)
(***************************************************************************)

TimeoutPending == "timeout" \in work.delayed \union Range(work.queue)

(* A search that has not been answered has its timeout, whichever of fix,  *)
(* extension, fallback and assistance, of this search or of the one before,*)
(* has cancelled or replaced it meanwhile.  One that was refused, because  *)
(* the modem had not let the last one stop, need not have any              *)
(* (gnss_pvt_work_handler, gnss_timeout_work_handler, gnss_service_stop).  *)
SearchIsTimed ==
    sm.searching /\ call = <<>> /\ inbox = <<>> => TimeoutPending \/ sm.refused

(* Once the search has been left, none of the handlers that were queued,   *)
(* blocked or preempted then arms its timeout again.  Two cases are        *)
(* excepted, in which the code does leave one: assistance that had passed  *)
(* its check of gnss_running before the exit had cleared the flag, for the *)
(* one timeout it arms, and a service the modem refused to stop, which     *)
(* goes on running (gnss_acquire_exit, gnss_service_stop,                  *)
(* gnss_fallback_to_standalone, gnss_mark_agnss_ready).                    *)
TimerEndsWithSearch ==
    ~sm.searching /\ TimeoutPending => late \/ (gnss.running /\ call = <<>>)

(* How often the timeout of the search may still be put off: for a request *)
(* that is in progress, for falling back and the data that may come after  *)
(* it, for data, and for NTN.                                              *)
Count(condition) == IF condition THEN 1 ELSE 0

PutOffsLeft ==
    Count(sm.extendOnce) + Count(gnss.assisted /\ ~gnss.extended)
      + 2 * Count(gnss.assisted \/ request # "none")
      + Count(callback # "none") + Count(~gnss.ready /\ callback # "checked")

InSearch == sm.searching /\ call = <<>>

(* It is armed, its handler has run and posted nothing, or what it posted  *)
(* did not end the search.                                                 *)
PutsOff ==
    \/ "timeout" \in work'.delayed \ work.delayed
    \/ work.queue # <<>> /\ Head(work.queue) = "timeout"
          /\ work'.queue = Tail(work.queue) /\ inbox' = inbox
    \/ Len(inbox') < Len(inbox)

(* During a search the timeout is put off at most PutOffsLeft times,       *)
(* although a handler of the search before may still fall back, and data   *)
(* and requests may come in any number and order                           *)
(* (gnss_timeout_work_handler, gnss_fallback_to_standalone,                *)
(* gnss_notify_agnss_ready, gnss_acquire_run).                             *)
PutOffsAreLimited ==
    [][InSearch /\ InSearch' =>
         PutOffsLeft' <= PutOffsLeft /\ (PutsOff => PutOffsLeft' < PutOffsLeft)]_vars

(* Every search ends, however long the cloud keeps a request in progress   *)
(* and however often the modem asks for assistance: the timeout is put off *)
(* a bounded number of times (agnss_pending_timeout_extended, agnss_ready, *)
(* assisted_start_in_progress).                                            *)
SearchEnds == sm.searching ~> ~sm.searching \/ sm.refused
=============================================================================
