------------------------------- MODULE AppSm -------------------------------
(***************************************************************************)
(* core/app_sm.c with the services it drives: one thread drains the event  *)
(* bus and runs a Zephyr hierarchical state machine; timers, modem         *)
(* callbacks, cloud callbacks and work items post events to the bus at any *)
(* time.                                                                   *)
(*                                                                         *)
(* One action handles one event: the run function of the leaf state or of  *)
(* the parent it propagates to, the exit functions of the states left, the *)
(* entry functions of the states entered, and every service call they      *)
(* make.  Other contexts run between handlers.                             *)
(***************************************************************************)
EXTENDS LteService, ModemService, NtnService, GnssService, RsrpService

CONSTANT MaxNtnRetries      \* CONFIG_APP_MAX_NTN_RETRIES

ASSUME MaxNtnRetriesAssumption == MaxNtnRetries \in Nat \ {0}

VARIABLES
    state,          \* ctx->state
    link,           \* active_rat, pdn_up, lte_connected, cloud_connected
    nextRat,        \* next_rat: what the next backoff leads to
    ntnAttempts,    \* retry.ntn_attempts
    lastDone,       \* last_done
    fix,            \* have_fix, and whether the fix is under 300 s old
    gnssGoal,       \* gnss_goal
    extendOnce      \* gnss_extend_once

planVars == <<nextRat, ntnAttempts>>
goalVars == <<gnssGoal, extendOnce>>
ctxVars == <<state, link, planVars, lastDone, fix, goalVars>>
serviceVars == <<linkVars, switchState, lteVars, activeCtx, cloud, gnssVars, rsrpMode>>
vars == <<queue, ctxVars, serviceVars>>

Fix == {"none", "fresh", "stale"}
HaveFix == fix # "none"

(* Mutant: have_fix is not looked at, and last_fix_uptime_ms starts at 0.  *)
FreshFixUnchecked == fix # "stale"

(* have_fix, and younger than APP_GNSS_FIX_MAX_AGE_SEC.                    *)
FreshFix == fix = "fresh"

Link == [rat : Rat, pdn : BOOLEAN, lte : BOOLEAN, cloud : BOOLEAN]

TypeOK ==
    /\ EventBusTypeOK /\ LinkTypeOK /\ LteTypeOK
    /\ switchState \in SwitchState
    /\ activeCtx \in BOOLEAN
    /\ cloud \in CloudState
    /\ gnss \in GnssFlags
    /\ armed \subseteq Timer
    /\ rsrpMode \in RsrpMode
    /\ state \in AppState
    /\ link \in Link
    /\ nextRat \in Rat
    /\ ntnAttempts \in 0..(MaxNtnRetries - 1)
    /\ lastDone \in StepDone
    /\ fix \in Fix
    /\ gnssGoal \in GnssGoal
    /\ extendOnce \in BOOLEAN

(* main() posts EVT_BOOT once boot_entry() can run; the context is static, *)
(* so both RATs are zero, RAT_LTEM.                                        *)
Init ==
    /\ queue = <<PlainEv("BOOT")>>
    /\ LinkInit /\ LteInit /\ GnssInit
    /\ switchState = "IDLE"
    /\ activeCtx = FALSE
    /\ cloud = "idle"
    /\ armed = {}
    /\ rsrpMode = "IDLE"
    /\ state = "BOOT"
    /\ link = [rat |-> "LTEM", pdn |-> FALSE, lte |-> FALSE, cloud |-> FALSE]
    /\ nextRat = "LTEM"
    /\ ntnAttempts = 0
    /\ lastDone = "NONE"
    /\ fix = "none"
    /\ gnssGoal = "NONE"
    /\ extendOnce = FALSE

-----------------------------------------------------------------------------
(***************************************************************************)
(* transition_to_state() and SMF: exit functions up to the common parent,  *)
(* then entry functions down to the new leaf.                              *)
(***************************************************************************)

LeavesConnected(new) == state \in ConnectedStates /\ new \notin ConnectedStates
EntersDisconnected(new) == state \notin DisconnectedStates /\ new \in DisconnectedStates

(* Mutant: ntn_connecting has no exit function.                            *)
TimersOfNoNtnExit(s) ==
    CASE s = "BACKOFF"       -> {"backoff"}
      [] s = "NTN_CONNECTED" -> {"ntn_probe"}
      [] s = "GNSS_ACQUIRE"  -> {"gnss"}
      [] OTHER               -> {}

(* The timers each exit function stops (gnss_acquire's cancels its work).  *)
TimersOf(s) ==
    CASE s = "BACKOFF"        -> {"backoff"}
      [] s = "NTN_CONNECTING" -> {"ntn_connect"}
      [] s = "NTN_CONNECTED"  -> {"ntn_probe"}
      [] s = "GNSS_ACQUIRE"   -> {"gnss"}
      [] OTHER                -> {}

ArmedOnExit(new) ==
    (armed \ TimersOf(state)) \ (IF LeavesConnected(new) THEN {"ntn_probe"} ELSE {})

(* Mutant: connected_exit() leaves the monitor alone.                      *)
RsrpOnExitChildOnly(new) ==
    IF state \in {"LTEM_CONNECTED", "NTN_CONNECTED"} THEN "IDLE" ELSE rsrpMode

(* ltem_connected, ntn_connected and their parent stop the monitor; the    *)
(* probe state leaves it to whoever comes next.                            *)
RsrpOnExit(new) ==
    IF state \in {"LTEM_CONNECTED", "NTN_CONNECTED"} \/ LeavesConnected(new)
    THEN "IDLE" ELSE rsrpMode

(* Mutant: disconnected_entry() forgets lte_connected.                     *)
LinkOnEntryKeepsLte(new, l) ==
    IF EntersDisconnected(new) THEN [l EXCEPT !.pdn = FALSE, !.cloud = FALSE] ELSE l

(* disconnected_entry() clears the link flags.                             *)
LinkOnEntry(new, l) ==
    IF EntersDisconnected(new)
    THEN [l EXCEPT !.pdn = FALSE, !.lte = FALSE, !.cloud = FALSE]
    ELSE l

(* What every transition to `new' does; l is the link as the run function  *)
(* left it, and timers are the ones the entry function starts.             *)
Transition(new, l, timers) ==
    /\ state' = new
    /\ link' = LinkOnEntry(new, l)
    /\ armed' = ArmedOnExit(new) \union timers

(* Mutant: gnss_acquire_exit() only cancels the timeout.                   *)
GnssKeepsRunning == {[gnss |-> gnss, armed |-> {}]}

(* gnss_acquire_exit(), on the way out of that state.                      *)
GnssOnExit == IF state = "GNSS_ACQUIRE" THEN GnssExitOutcomes ELSE {[gnss |-> gnss, armed |-> {}]}

(* A transition that may leave a search, whose timeout may be armed again  *)
(* behind the state machine's back.                                        *)
Leave(new, l, timers) ==
    \E exit \in GnssOnExit :
        /\ gnss' = exit.gnss
        /\ Transition(new, l, timers \union exit.armed)

(* Mutant: backoff_entry() starts no timer.                                *)
ToBackoffUntimed(l) ==
    /\ Leave("BACKOFF", l, {})
    /\ rsrpMode' = RsrpOnExit("BACKOFF")
    /\ Consume

(* backoff_entry().                                                        *)
ToBackoff(l) ==
    /\ Leave("BACKOFF", l, {"backoff"})
    /\ rsrpMode' = RsrpOnExit("BACKOFF")
    /\ Consume

(* ltem_connecting_entry().                                                *)
ToLtemConnecting(l) ==
    /\ Leave("LTEM_CONNECTING", l, {})
    /\ rsrpMode' = RsrpOnExit("LTEM_CONNECTING")
    /\ lteUp' = FALSE
    /\ \E outcome \in LteConnectOutcomes :
          /\ LinkAfter(outcome)
          /\ IF outcome.err THEN ConsumeAndPublish(Ev("REG_FAIL", "LTEM"))
                            ELSE Consume

(* ltem_connected_entry(): starts the monitor and asks for the next step   *)
(* of the cloud/GNSS chain; `done' is last_done as the run function left   *)
(* it.                                                                     *)
ToLtemConnected(l, done) ==
    /\ Leave("LTEM_CONNECTED", [l EXCEPT !.rat = "LTEM", !.lte = TRUE], {})
    /\ rsrpMode' = "MONITOR"
    /\ lastDone' = done
    /\ IF ~l.cloud THEN ConsumeAndPublish(PlainEv("START_CLOUD"))
       ELSE IF done = "CLOUD_DONE" THEN ConsumeAndPublish(PlainEv("START_GNSS"))
       ELSE Consume

(* cloud_connecting_entry().                                               *)
ToCloudConnecting ==
    /\ Leave("CLOUD_CONNECTING", [link EXCEPT !.cloud = FALSE], {})
    /\ rsrpMode' = RsrpOnExit("CLOUD_CONNECTING")
    /\ \E outcome \in CloudConnectOutcomes :
          /\ cloud' = outcome.cloud
          /\ IF outcome.err THEN ConsumeAndPublish(Ev("CLOUD_FAIL", "UNKNOWN"))
                            ELSE Consume

(* gnss_acquire_entry(): standalone before an NTN attach, else assisted.   *)
ToGnssAcquire ==
    \E outcome \in IF gnssGoal' = "REQUIRED_FOR_NTN"
                   THEN GnssStandaloneOutcomes ELSE GnssAssistedOutcomes :
        /\ Transition("GNSS_ACQUIRE", link, IF outcome.expiring THEN {"gnss"} ELSE {})
        /\ rsrpMode' = RsrpOnExit("GNSS_ACQUIRE")
        /\ gnss' = outcome.gnss
        /\ IF outcome.failed THEN ConsumeAndPublish(TimeoutEv) ELSE Consume

(* Mutant: a failed ntn_service_connect() is not reported.                 *)
ToNtnConnectingSilent(l) ==
    /\ activeCtx' = TRUE
    /\ rsrpMode' = RsrpOnExit("NTN_CONNECTING")
    /\ Consume
    /\ \E outcome \in NtnConnectOutcomes(fix' # "none") :
          /\ LinkAfter(outcome)
          /\ Leave("NTN_CONNECTING", l, IF outcome.err THEN {} ELSE {"ntn_connect"})

(* ntn_connecting_entry(): the attach timeout runs only if the attach was  *)
(* started.                                                                *)
ToNtnConnecting(l) ==
    /\ activeCtx' = TRUE
    /\ rsrpMode' = RsrpOnExit("NTN_CONNECTING")
    /\ \E outcome \in NtnConnectOutcomes(fix' # "none") :
          /\ LinkAfter(outcome)
          /\ Leave("NTN_CONNECTING", l, IF outcome.err THEN {} ELSE {"ntn_connect"})
          /\ IF outcome.err THEN ConsumeAndPublish(Ev("MODEM_SWITCH_FAIL", "NTN"))
                            ELSE Consume

(* ntn_connected_entry().                                                  *)
EnterNtnConnected(l) ==
    /\ Leave("NTN_CONNECTED", l, {"ntn_probe"})
    /\ rsrpMode' = "NTN_MONITOR"

ToNtnConnected(l) == EnterNtnConnected(l) /\ Consume

-----------------------------------------------------------------------------
(***************************************************************************)
(* Run functions, one action per event a state reacts to.                  *)
(***************************************************************************)

(* boot_run().                                                             *)
Boot ==
    /\ state = "BOOT" /\ Handling("BOOT")
    /\ ToLtemConnecting(link)
    /\ UNCHANGED <<planVars, lastDone, fix, goalVars, switchState, probePending,
                   activeCtx, cloud>>

(* ltem_connecting_run().                                                  *)
LtemRegistered ==
    /\ state = "LTEM_CONNECTING" /\ Handling("REG_OK") /\ FromRat({"LTEM", "UNKNOWN"})
    /\ ToLtemConnected([link EXCEPT !.rat = "LTEM", !.lte = TRUE, !.pdn = TRUE], "NONE")
    /\ UNCHANGED <<planVars, fix, goalVars, linkVars, switchState, lteVars,
                   activeCtx, cloud>>

LtemRefused ==
    /\ state = "LTEM_CONNECTING" /\ Handling("REG_FAIL") /\ FromRat({"LTEM", "UNKNOWN"})
    /\ nextRat' = "NTN"
    /\ ToBackoff(link)
    /\ UNCHANGED <<ntnAttempts, lastDone, fix, goalVars, linkVars, switchState,
                   lteVars, activeCtx, cloud>>

(* A fix is required before LTE-M is given up, or an NTN attach is tried.  *)
AcquireFixForNtn ==
    /\ fix' = "none"
    /\ gnssGoal' = "REQUIRED_FOR_NTN"
    /\ extendOnce' = TRUE
    /\ ToGnssAcquire
    /\ UNCHANGED <<linkVars, lteVars, cloud>>

(* ltem_connected_run(), EVT_LTE_POOR.                                     *)
LtemPoor ==
    /\ state = "LTEM_CONNECTED" /\ Handling("LTE_POOR")
    /\ nextRat' = "NTN"
    /\ \/ ~FreshFix /\ AcquireFixForNtn
       \/ /\ FreshFix
          /\ IF lteUp THEN CloudDisconnect /\ LteDisconnect
                      ELSE UNCHANGED <<cloud, lteUp, linkVars>>
          /\ ToBackoff(link)
          /\ UNCHANGED <<fix, goalVars, probePending>>
    /\ UNCHANGED <<ntnAttempts, lastDone, switchState, activeCtx>>

StartCloud ==
    /\ state = "LTEM_CONNECTED" /\ Handling("START_CLOUD")
    /\ ToCloudConnecting
    /\ UNCHANGED <<planVars, lastDone, fix, goalVars, linkVars, switchState, lteVars,
                   activeCtx>>

StartGnss ==
    /\ state = "LTEM_CONNECTED" /\ Handling("START_GNSS")
    /\ UNCHANGED goalVars
    /\ ToGnssAcquire
    /\ UNCHANGED <<planVars, lastDone, fix, linkVars, switchState, lteVars,
                   activeCtx, cloud>>

(* cloud_connecting_run().                                                 *)
CloudConnected ==
    /\ state = "CLOUD_CONNECTING" /\ Handling("CLOUD_OK")
    /\ ToLtemConnected([link EXCEPT !.cloud = TRUE], "CLOUD_DONE")
    /\ UNCHANGED <<planVars, fix, goalVars, linkVars, switchState, lteVars,
                   activeCtx, cloud>>

CloudFailed ==
    /\ state = "CLOUD_CONNECTING" /\ Handling("CLOUD_FAIL")
    /\ ToBackoff([link EXCEPT !.cloud = FALSE])
    /\ UNCHANGED <<planVars, lastDone, fix, goalVars, linkVars, switchState, lteVars,
                   activeCtx, cloud>>

CloudLostWhileConnecting ==
    /\ state = "CLOUD_CONNECTING" /\ Handling("CLOUD_DISCONNECTED")
    /\ ToLtemConnected([link EXCEPT !.cloud = FALSE], lastDone)
    /\ UNCHANGED <<planVars, fix, goalVars, linkVars, switchState, lteVars,
                   activeCtx, cloud>>

(* gnss_acquire_run(): a fix or the final timeout ends the search...       *)
GnssSearchDone ==
    /\ gnssGoal' = "NONE" /\ extendOnce' = FALSE
    /\ UNCHANGED <<planVars, switchState, probePending, cloud>>

GnssFixObtained ==
    /\ state = "GNSS_ACQUIRE" /\ Handling("GNSS_FIX")
    /\ fix' = "fresh"
    /\ GnssSearchDone
    /\ IF gnssGoal = "REQUIRED_FOR_NTN"
       THEN ToNtnConnecting(link) /\ lastDone' = "GNSS_DONE" /\ UNCHANGED lteUp
       ELSE ToLtemConnected(link, "GNSS_DONE") /\ UNCHANGED <<linkVars, lteUp, activeCtx>>

GnssGivenUp ==
    /\ state = "GNSS_ACQUIRE" /\ Handling("TIMEOUT")
    /\ ~(gnssGoal = "REQUIRED_FOR_NTN" /\ extendOnce)
    /\ GnssSearchDone
    /\ IF gnssGoal = "REQUIRED_FOR_NTN"
       THEN ToBackoff(link) /\ lastDone' = "GNSS_DONE"
       ELSE ToLtemConnected(link, "GNSS_DONE")
    /\ UNCHANGED <<fix, linkVars, lteUp, activeCtx>>

(* Mutant: the search is extended without a new timeout.                   *)
GnssExtendedUntimed ==
    /\ state = "GNSS_ACQUIRE" /\ Handling("TIMEOUT")
    /\ gnssGoal = "REQUIRED_FOR_NTN" /\ extendOnce
    /\ extendOnce' = FALSE
    /\ Consume
    /\ UNCHANGED <<state, link, planVars, lastDone, fix, gnssGoal, linkVars, switchState,
                   lteVars, activeCtx, cloud, gnssVars, rsrpMode>>

(* ...but the first timeout of a search NTN needs only extends it.         *)
GnssExtended ==
    /\ state = "GNSS_ACQUIRE" /\ Handling("TIMEOUT")
    /\ gnssGoal = "REQUIRED_FOR_NTN" /\ extendOnce
    /\ extendOnce' = FALSE
    /\ armed' = armed \union {"gnss"}
    /\ Consume
    /\ UNCHANGED <<state, link, planVars, lastDone, fix, gnssGoal, linkVars, switchState,
                   lteVars, activeCtx, cloud, gnss, rsrpMode>>

(* ntn_connecting_run(): attached, by whichever report comes first...      *)
NtnAttached ==
    /\ state = "NTN_CONNECTING" /\ (Handling("REG_OK") \/ Handling("PDN_UP"))
    /\ FromRat({"NTN"})
    /\ ntnAttempts' = 0
    /\ ToNtnConnected([link EXCEPT !.rat = "NTN", !.pdn = @ \/ Handling("PDN_UP")])
    /\ UNCHANGED <<nextRat, lastDone, fix, goalVars, linkVars, switchState, lteVars,
                   activeCtx, cloud>>

(* Mutant: one retry too many, `attempts > CONFIG_APP_MAX_NTN_RETRIES'.    *)
NtnRetryOffByOne ==
    IF ntnAttempts + 1 > MaxNtnRetries
    THEN ntnAttempts' = 0 /\ nextRat' = "LTEM"
    ELSE ntnAttempts' = ntnAttempts + 1 /\ nextRat' = "NTN"

(* Mutant: the counter is not reset when LTE-M gets its turn.              *)
NtnRetryNoReset ==
    /\ ntnAttempts' = ntnAttempts + 1
    /\ nextRat' = IF ntnAttempts + 1 >= MaxNtnRetries THEN "LTEM" ELSE "NTN"

(* After MaxNtnRetries failures in a row LTE-M gets a turn.                *)
NtnRetry ==
    IF ntnAttempts + 1 >= MaxNtnRetries
    THEN ntnAttempts' = 0 /\ nextRat' = "LTEM"
    ELSE ntnAttempts' = ntnAttempts + 1 /\ nextRat' = "NTN"

(* ...or given up.                                                         *)
NtnAttachFailed ==
    /\ state = "NTN_CONNECTING"
    /\ \/ Handling("TIMEOUT")
       \/ /\ \/ Handling("MODEM_SWITCH_FAIL")
             \/ Handling("REG_FAIL")
             \/ Handling("PDN_DOWN")
          /\ FromRat({"NTN"})
    /\ NtnStop
    /\ NtnRetry
    /\ ToBackoff([link EXCEPT !.pdn = FALSE])
    /\ UNCHANGED <<lastDone, fix, goalVars, switchState, lteVars, cloud>>

(* ntn_connected_run(), EVT_TIMEOUT, and lte_probe_entry(): ask for TN.    *)
(* While a switch is under way that is refused, NTN is asked for instead,  *)
(* and refused too (NTN is set up anew) unless the switch has just ended.  *)
ProbeLte ==
    /\ state = "NTN_CONNECTED" /\ Handling("TIMEOUT")
    /\ \/ /\ SwitchToTn
          /\ probePending' = TRUE
          /\ Transition("LTE_PROBE", link, {})
          /\ rsrpMode' = RsrpOnExit("LTE_PROBE")
          /\ Consume
          /\ UNCHANGED <<nextRat, linkVars, activeCtx, gnss>>
       \/ /\ SwitchBusy
          /\ probePending' = FALSE
          /\ nextRat' = "NTN"
          /\ UNCHANGED <<fix, switchState>>
          /\ ToNtnConnecting(link)
       \/ /\ probePending' = FALSE
          /\ switchState' = "TO_NTN"
          /\ EnterNtnConnected([link EXCEPT !.rat = "NTN"])
          /\ \E outcome \in SwitchOutcomes :
                SwitchEnds(outcome) /\ ConsumeAndPublish(outcome.ev)
          /\ UNCHANGED <<nextRat, activeCtx>>
    /\ UNCHANGED <<ntnAttempts, lastDone, fix, goalVars, lteUp, cloud>>

NtnPdnUp ==
    /\ state = "NTN_CONNECTED" /\ Handling("PDN_UP")
    /\ link' = [link EXCEPT !.pdn = TRUE]
    /\ Consume
    /\ UNCHANGED <<state, planVars, lastDone, fix, goalVars, serviceVars>>

-----------------------------------------------------------------------------
(* lte_probe_run(): back to NTN, by switching back or, when a switch is    *)
(* still under way, by a full reconnect.                                   *)
ReturnToNtn ==
    /\ probePending' = FALSE
    /\ UNCHANGED <<ntnAttempts, lastDone, fix, goalVars, lteUp, cloud>>
    /\ \/ /\ SwitchToNtn
          /\ ToNtnConnected([link EXCEPT !.rat = "NTN"])
          /\ UNCHANGED <<nextRat, linkVars, activeCtx>>
       \/ /\ SwitchBusy
          /\ nextRat' = "NTN"
          /\ ToNtnConnecting(link)
          /\ UNCHANGED switchState

ProbeRejected ==
    /\ state = "LTE_PROBE" /\ (Handling("MODEM_SWITCH_FAIL") \/ Handling("LTE_POOR"))
    /\ ReturnToNtn

(* The terrestrial network is back: sample it, or give up when the         *)
(* connection evaluation fails.                                            *)
ProbeSampling ==
    /\ state = "LTE_PROBE" /\ Handling("TN_READY_FOR_PROBE")
    /\ \/ /\ rsrpMode' = "PROBE"
          /\ Consume
          /\ UNCHANGED <<ctxVars, linkVars, switchState, lteVars, activeCtx, cloud, gnssVars>>
       \/ "probe" \in Faults /\ ReturnToNtn

LeaveProbeForLtem(l) ==
    /\ nextRat' = "LTEM"
    /\ probePending' = FALSE
    /\ ToLtemConnecting(l)
    /\ UNCHANGED <<ntnAttempts, lastDone, fix, goalVars, switchState, activeCtx, cloud>>

(* Mutant: next_rat is left as NTN left it.                                *)
ProbeAcceptedStalePlan ==
    /\ state = "LTE_PROBE" /\ Handling("LTE_GOOD")
    /\ probePending' = FALSE
    /\ ToLtemConnected([link EXCEPT !.rat = "LTEM", !.pdn = TRUE, !.lte = TRUE], lastDone)
    /\ UNCHANGED <<planVars, fix, goalVars, linkVars, switchState, lteUp, activeCtx, cloud>>

(* LTE-M is good: one datagram decides.                                    *)
ProbeAccepted ==
    /\ state = "LTE_PROBE" /\ Handling("LTE_GOOD")
    /\ \/ /\ nextRat' = "LTEM"
          /\ probePending' = FALSE
          /\ ToLtemConnected([link EXCEPT !.rat = "LTEM", !.pdn = TRUE, !.lte = TRUE],
                             lastDone)
          /\ UNCHANGED <<ntnAttempts, fix, goalVars, linkVars, switchState, lteUp,
                         activeCtx, cloud>>
       \/ "udp" \in Faults /\ LeaveProbeForLtem([link EXCEPT !.pdn = FALSE, !.lte = FALSE])

ProbeLinkLost ==
    /\ state = "LTE_PROBE" /\ (Handling("PDN_DOWN") \/ Handling("REG_FAIL"))
    /\ LeaveProbeForLtem([link EXCEPT !.pdn = FALSE, !.lte = FALSE])

(* backoff_run().                                                          *)
BackoffExpired ==
    /\ state = "BACKOFF" /\ Handling("TIMEOUT")
    /\ \/ /\ nextRat # "NTN"
          /\ ToLtemConnecting(link)
          /\ UNCHANGED <<fix, goalVars, probePending, activeCtx, cloud>>
       \/ /\ nextRat = "NTN" /\ ~FreshFix
          /\ AcquireFixForNtn
          /\ UNCHANGED activeCtx
       \/ /\ nextRat = "NTN" /\ FreshFix
          /\ UNCHANGED fix
          /\ ToNtnConnecting(link)
          /\ UNCHANGED <<goalVars, lteVars, cloud>>
    /\ UNCHANGED <<planVars, lastDone, switchState>>

(* connected_run(): the link of the active RAT is lost.  The state whose   *)
(* events reach this parent are those that do not handle them themselves.  *)
LinkLost ==
    /\ state \in ConnectedStates \ {"LTE_PROBE"}
    /\ Handling("PDN_DOWN") \/ Handling("REG_FAIL")
    /\ ~(nextRat = "NTN" /\ FromRat({"LTEM"}))
    /\ FromRat({"UNKNOWN", link.rat})
    /\ nextRat' = IF link.rat = "LTEM" THEN "NTN" ELSE "LTEM"
    /\ ToBackoff([link EXCEPT !.pdn = FALSE, !.cloud = FALSE,
                              !.lte = @ /\ link.rat # "LTEM"])
    /\ UNCHANGED <<ntnAttempts, lastDone, fix, goalVars, linkVars, switchState, lteVars,
                   activeCtx, cloud>>

(* An event no transition answers: the parents only track the cloud and,   *)
(* while disconnected, the PDN; everything else is dropped.                *)
Reacts ==
    CASE state = "BOOT" -> Handling("BOOT")
      [] state = "LTEM_CONNECTING" ->
            (Handling("REG_OK") \/ Handling("REG_FAIL")) /\ ~FromRat({"NTN"})
      [] state = "LTEM_CONNECTED" ->
            Handling("LTE_POOR") \/ Handling("START_CLOUD") \/ Handling("START_GNSS")
      [] state = "CLOUD_CONNECTING" ->
            Handling("CLOUD_OK") \/ Handling("CLOUD_FAIL") \/ Handling("CLOUD_DISCONNECTED")
      [] state = "GNSS_ACQUIRE" -> Handling("GNSS_FIX") \/ Handling("TIMEOUT")
      [] state = "NTN_CONNECTING" ->
            \/ Handling("TIMEOUT")
            \/ /\ FromRat({"NTN"})
               /\ \/ Handling("REG_OK") \/ Handling("PDN_UP") \/ Handling("PDN_DOWN")
                  \/ Handling("REG_FAIL") \/ Handling("MODEM_SWITCH_FAIL")
      [] state = "NTN_CONNECTED" -> Handling("TIMEOUT") \/ Handling("PDN_UP")
      [] state = "LTE_PROBE" ->
            \/ Handling("MODEM_SWITCH_FAIL") \/ Handling("LTE_POOR") \/ Handling("LTE_GOOD")
            \/ Handling("TN_READY_FOR_PROBE") \/ Handling("PDN_DOWN") \/ Handling("REG_FAIL")
      [] state = "BACKOFF" -> Handling("TIMEOUT")

ParentReacts ==
    /\ state \in ConnectedStates
    /\ Handling("PDN_DOWN") \/ Handling("REG_FAIL")
    /\ ~(nextRat = "NTN" /\ FromRat({"LTEM"}))
    /\ FromRat({"UNKNOWN", link.rat})

Drop ==
    /\ queue # <<>> /\ ~Reacts /\ ~ParentReacts
    /\ link' = IF state = "BOOT" THEN link ELSE
               [link EXCEPT
                  !.cloud = @ /\ ~Handling("CLOUD_DISCONNECTED"),
                  !.pdn = @ /\ ~(/\ Handling("PDN_DOWN")
                                 /\ state \in {"BACKOFF", "LTEM_CONNECTING"})]
    /\ Consume
    /\ UNCHANGED <<state, planVars, lastDone, fix, goalVars, serviceVars>>

-----------------------------------------------------------------------------
(***************************************************************************)
(* Everything that runs in other contexts: k_timer handlers, work items of *)
(* the system work queue, modem and cloud callbacks, and time.             *)
(***************************************************************************)

(* backoff_timer_handler(), ntn_timer_handler(), ntn_connect_timer_handler() *)
(* and gnss_timeout_work_handler().                                        *)
TimerFires(t) ==
    /\ t \in armed
    /\ armed' = armed \ {t}
    /\ Publish(TimeoutEv)
    /\ UNCHANGED <<ctxVars, linkVars, switchState, lteVars, activeCtx, cloud, gnss, rsrpMode>>

TimeoutFires == \E t \in Timer : TimerFires(t)

(* A change of registration status, told to every registered handler.      *)
EventsOf(rat, status) ==
    IF rat = "LTEM" THEN LteEvents(status)
                    ELSE NtnEvents(status, state = "NTN_CONNECTING")

NwRegStatus ==
    \E status \in RegStatus :
        /\ handlers # <<>>
        /\ RegStatusChanges(status)
        /\ LET first == EventsOf(handlers[1], status)
               second == IF Len(handlers) = 2 THEN EventsOf(handlers[2], status) ELSE <<>>
           IN  queue' \in PutAll(queue, first \o second)
        /\ IF Registered("LTEM") THEN LteHears(status) ELSE UNCHANGED lteVars
        /\ UNCHANGED <<ctxVars, switchState, activeCtx, cloud, gnssVars, rsrpMode>>

NtnPdn ==
    /\ NtnPdnReport
    /\ UNCHANGED <<ctxVars, switchState, lteVars, activeCtx, cloud, gnssVars, rsrpMode>>

NtnLocationWork ==
    /\ NtnLocationFails(HaveFix)
    /\ UNCHANGED <<ctxVars, serviceVars>>

SwitchWork ==
    /\ ModemSwitchWork
    /\ UNCHANGED <<ctxVars, lteVars, activeCtx, cloud, gnssVars, rsrpMode>>

CloudCallback ==
    /\ CloudReady \/ CloudTransportDisconnected \/ CloudError
    /\ UNCHANGED <<ctxVars, linkVars, switchState, lteVars, activeCtx, gnssVars, rsrpMode>>

GnssWork ==
    /\ GnssFix \/ GnssReadError
    /\ UNCHANGED <<ctxVars, linkVars, switchState, lteVars, activeCtx, cloud, rsrpMode>>

AgnssWork ==
    /\ AgnssReady \/ AgnssFallback
    /\ UNCHANGED <<queue, ctxVars, linkVars, switchState, lteVars, activeCtx, cloud, rsrpMode>>

RsrpWork ==
    /\ RsrpMonitorWork \/ RsrpProbeWork
    /\ UNCHANGED <<ctxVars, linkVars, switchState, lteVars, activeCtx, cloud, gnssVars>>

(* APP_GNSS_FIX_MAX_AGE_SEC have passed since the fix.                     *)
FixAges ==
    /\ fix = "fresh"
    /\ fix' = "stale"
    /\ UNCHANGED <<queue, state, link, planVars, lastDone, goalVars, serviceVars>>

-----------------------------------------------------------------------------
(* dispatch_app_event(): one event, one handler.                           *)
Dispatch ==
    \/ Boot \/ LtemRegistered \/ LtemRefused
    \/ LtemPoor \/ StartCloud \/ StartGnss
    \/ CloudConnected \/ CloudFailed \/ CloudLostWhileConnecting
    \/ GnssFixObtained \/ GnssGivenUp \/ GnssExtended
    \/ NtnAttached \/ NtnAttachFailed \/ ProbeLte \/ NtnPdnUp
    \/ ProbeRejected \/ ProbeSampling \/ ProbeAccepted \/ ProbeLinkLost
    \/ BackoffExpired \/ LinkLost \/ Drop

Environment ==
    \/ TimeoutFires
    \/ NwRegStatus \/ NtnPdn \/ NtnLocationWork \/ SwitchWork
    \/ CloudCallback \/ GnssWork \/ AgnssWork \/ RsrpWork \/ FixAges

Next == Dispatch \/ Environment

Spec == Init /\ [][Next]_vars

(* The state-machine thread waits forever on its queue and runs whenever   *)
(* there is an event; a kernel timer that is not stopped fires.  Strong    *)
(* fairness for the timers, because a lossless bus makes a publisher wait  *)
(* while the pool is full.  Nothing is assumed of the network, the modem   *)
(* or the cloud.                                                           *)
FairSpec ==
    /\ Spec
    /\ WF_vars(Dispatch)
    /\ \A t \in Timer : SF_vars(TimerFires(t))

-----------------------------------------------------------------------------
(***************************************************************************)
(* Properties.                                                             *)
(***************************************************************************)

NtnStates == {"NTN_CONNECTING", "NTN_CONNECTED", "LTE_PROBE"}
LtemStates == {"LTEM_CONNECTED", "CLOUD_CONNECTING"}

(* "NTN needs this before the modem can attach" (app_types.h): from the    *)
(* attach until NTN is left, whatever path led there and however old the   *)
(* position is by then, the NTN library's location requests find a context *)
(* with a fix in it (ntn_location_work_handler).                           *)
NtnPositionAvailable == state \in NtnStates => activeCtx /\ HaveFix

(* A timer of the state machine runs only in the state whose exit function *)
(* stops it.  All timers post the same EVT_TIMEOUT, so one that outlived   *)
(* its state would act for another one, as the timeout of the GNSS service *)
(* does when assistance arms it during the exit (TimerEndsWithSearch of    *)
(* GnssSearch says when that is).                                          *)
TimersOnlyInTheirStates ==
    /\ "backoff" \in armed => state = "BACKOFF"
    /\ "ntn_connect" \in armed => state = "NTN_CONNECTING"
    /\ "ntn_probe" \in armed => state = "NTN_CONNECTED"

(* The signal monitor, the probe sampling and the GNSS receiver run only   *)
(* for the state that wants their verdict: LTE_POOR and LTE_GOOD mean      *)
(* different things in LTEM_CONNECTED and LTE_PROBE, and GNSS shares the   *)
(* radio with LTE.                                                         *)
MeasuresOnlyWhereWanted ==
    /\ rsrpMode = "MONITOR" => state = "LTEM_CONNECTED"
    /\ rsrpMode = "PROBE" => state = "LTE_PROBE"
    /\ rsrpMode = "NTN_MONITOR" => state = "NTN_CONNECTED"
    /\ gnss.running => state = "GNSS_ACQUIRE"

(* The flags kept beside the state agree with it on every path: nothing is *)
(* up while disconnected, LTE-M is up with its PDN throughout the cloud    *)
(* and GNSS chain, and on NTN the active RAT is NTN and LTE-M is not       *)
(* counted as connected.                                                   *)
LinkMatchesState ==
    /\ state \in DisconnectedStates => ~link.pdn /\ ~link.lte /\ ~link.cloud
    /\ state \in LtemStates => link.rat = "LTEM" /\ link.lte /\ link.pdn
    /\ state \in {"NTN_CONNECTED", "LTE_PROBE"} => link.rat = "NTN" /\ ~link.lte

(* connected_run() takes an LTE-M loss for a hand-over's own teardown when *)
(* next_rat is NTN.  While LTE-M is being set up or serves, next_rat is    *)
(* LTE-M, so a real loss is never taken for one.                           *)
LtemLossIsHeard ==
    state \in LtemStates \union {"LTEM_CONNECTING"} => nextRat = "LTEM"

(* The attach timeout bounds every NTN attach that was started, and every  *)
(* state that waits for EVT_TIMEOUT has a timer running or the event under *)
(* way, so it cannot be stranded (when no event is lost).                  *)
NeverStranded ==
    /\ state = "BACKOFF" => "backoff" \in armed \/ Queued("TIMEOUT")
    /\ state = "NTN_CONNECTED" => "ntn_probe" \in armed \/ Queued("TIMEOUT")
    /\ state = "NTN_CONNECTING" =>
          "ntn_connect" \in armed \/ Queued("TIMEOUT") \/ Queued("MODEM_SWITCH_FAIL")
    /\ state = "GNSS_ACQUIRE" =>
          "gnss" \in armed \/ Queued("TIMEOUT") \/ Queued("GNSS_FIX")

(* Waiting, attaching to NTN and searching for a position all come to an   *)
(* end, however the network, the modem and the cloud behave.               *)
TimedStatesEnd ==
    \A s \in {"BACKOFF", "NTN_CONNECTING", "GNSS_ACQUIRE"} : state = s ~> state # s

-----------------------------------------------------------------------------
(***************************************************************************)
(* The state machine implements the fallback it is built for.              *)
(***************************************************************************)
PhaseOf(s) ==
    CASE s = "BOOT"            -> "start"
      [] s = "BACKOFF"         -> "waiting"
      [] s = "LTEM_CONNECTING" -> "ltem_attach"
      [] s = "NTN_CONNECTING"  -> "ntn_attach"
      [] s \in LtemStates      -> "ltem"
      [] s = "GNSS_ACQUIRE"    -> "locating"
      [] s = "NTN_CONNECTED"   -> "ntn"
      [] s = "LTE_PROBE"       -> "probing"

Fallback == INSTANCE RatFallback WITH
    MaxFailures <- MaxNtnRetries,
    phase <- PhaseOf(state),
    due <- nextRat,
    located <- HaveFix,
    failures <- ntnAttempts

(* However events, timers and callbacks interleave, what the device does   *)
(* is a behaviour of RatFallback: NTN only with a position and in its      *)
(* turn or after a search, LTE-M after exactly MaxNtnRetries failures.     *)
ImplementsFallback == Fallback!Spec
=============================================================================
