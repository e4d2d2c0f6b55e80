---------------------------- MODULE GnssService ----------------------------
(***************************************************************************)
(* gnss/gnss_service.c as its client sees it: one search at a time,        *)
(* standalone or assisted, that publishes one fix or is given up by a      *)
(* timeout.  gnss_timeout_work is the timer "gnss" in `armed'.  How long a *)
(* timeout runs, and the one extension while a cloud request is pending,   *)
(* are left out: they delay the expiry and change nothing else.            *)
(***************************************************************************)
EXTENDS CloudService

VARIABLES
    gnss,       \* flags of the service
    armed       \* timers running, of this service and of the state machine

gnssVars == <<gnss, armed>>

GnssFlags == [running : BOOLEAN,        \* gnss_running
              assisted : BOOLEAN,       \* assisted_start_in_progress
              ready : BOOLEAN,          \* agnss_ready
              fixPublished : BOOLEAN]   \* fix_published

GnssInit == gnss = [running |-> FALSE, assisted |-> FALSE,
                    ready |-> FALSE, fixPublished |-> FALSE]

(* What a start leaves: `expiring' when it armed the timeout, `failed'     *)
(* when handle_error() posted EVT_TIMEOUT.                                 *)
GnssStarted(g) == [gnss |-> g, expiring |-> TRUE, failed |-> FALSE]
GnssFailed(g) == [gnss |-> g, expiring |-> FALSE, failed |-> TRUE]
GnssRefused(g) == [gnss |-> g, expiring |-> FALSE, failed |-> FALSE]

GnssSearchOutcomes(g) ==
    {GnssStarted([g EXCEPT !.running = TRUE])}
        \union (IF "gnss_start" \in Faults THEN {GnssFailed(g)} ELSE {})

(* gnss_service_start(), then gnss_service_start_timeout() if it worked.   *)
GnssStandaloneOutcomes ==
    IF gnss.running THEN {GnssRefused(gnss)} ELSE GnssSearchOutcomes(gnss)

(* gnss_service_start_assisted().                                          *)
GnssAssistedOutcomes ==
    LET fresh == [gnss EXCEPT !.fixPublished = FALSE]
    IN  IF gnss.running
        THEN {GnssRefused(fresh)}
        ELSE GnssSearchOutcomes([fresh EXCEPT !.ready = FALSE, !.assisted = TRUE])

GnssStopped == [gnss EXCEPT !.running = FALSE, !.assisted = FALSE, !.ready = FALSE]

(* Assistance can arrive, or be given up, for this search.                 *)
AssistanceExpected == gnss.running /\ ~gnss.ready /\ (gnss.assisted \/ cloud = "connected")

(* gnss_service_stop(): nothing is reset when the modem refuses.           *)
GnssStopOutcomes == {GnssStopped} \union (IF "gnss_stop" \in Faults THEN {gnss} ELSE {})

(* gnss_acquire_exit() cancels the timeout, then stops the service, whose  *)
(* flags hold until the modem has answered: assistance that comes or is    *)
(* given up meanwhile arms the timeout again.  A callback that is cut off  *)
(* in its own middle is taken to arm it here (GnssSearch has it in full).  *)
GnssExitOutcomes ==
    {[gnss |-> g, armed |-> {}] : g \in GnssStopOutcomes}
        \union (IF AssistanceExpected THEN {[gnss |-> GnssStopped, armed |-> {"gnss"}]} ELSE {})

(* gnss_pvt_work_handler() with a valid fix: once per search.              *)
GnssFix ==
    /\ gnss.running /\ ~gnss.fixPublished
    /\ gnss' = [gnss EXCEPT !.fixPublished = TRUE]
    /\ armed' = armed \ {"gnss"}
    /\ Publish(PlainEv("GNSS_FIX"))

(* gnss_pvt_work_handler() that cannot read: handle_error() posts TIMEOUT. *)
GnssReadError ==
    /\ "gnss_read" \in Faults
    /\ gnss.running /\ ~gnss.fixPublished
    /\ Publish(TimeoutEv)
    /\ UNCHANGED gnssVars

(* gnss_mark_agnss_ready(): from the monitor work of an assisted search,   *)
(* or when the cloud delivers assistance data.                             *)
AgnssReady ==
    /\ AssistanceExpected
    /\ gnss' = [gnss EXCEPT !.ready = TRUE, !.assisted = FALSE]
    /\ armed' = armed \union {"gnss"}

(* gnss_fallback_to_standalone(): no cloud, or the modem never asked.      *)
AgnssFallback ==
    /\ gnss.running /\ gnss.assisted
    /\ gnss' = [gnss EXCEPT !.ready = FALSE, !.assisted = FALSE]
    /\ armed' = armed \union {"gnss"}
=============================================================================
