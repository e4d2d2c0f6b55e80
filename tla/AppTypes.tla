------------------------------ MODULE AppTypes ------------------------------
(***************************************************************************)
(* The vocabulary every module shares (common/app_types.h): the leaf       *)
(* states of the application state machine and their parents, the radio    *)
(* access technologies, the steps of the LTE-M service chain, the reason   *)
(* for a GNSS search, and the events services post on app_evt_chan.        *)
(*                                                                         *)
(* STATE_LTE_LOCATION and STATE_IDLE are left out: no code publishes       *)
(* EVT_START_LTE_LOC and no transition names STATE_IDLE, so neither can be *)
(* entered.  For the same reason LTE_LOC_DONE and REFINE_LTE_FIX do not    *)
(* occur.                                                                  *)
(***************************************************************************)

CONSTANT Faults     \* the calls into the modem or the cloud that may fail

FaultKind == {"lte_connect", "ntn_connect", "switch", "udp", "probe",
              "cloud_connect", "cloud_disconnect", "gnss_start", "gnss_stop",
              "gnss_read", "ntn_location", "offline"}

ASSUME FaultsAssumption == Faults \subseteq FaultKind

(* Children of STATE_DISCONNECTED: nothing is attached.                    *)
DisconnectedStates == {"BACKOFF", "LTEM_CONNECTING", "NTN_CONNECTING"}

(* Children of STATE_CONNECTED.                                            *)
ConnectedStates ==
    {"LTEM_CONNECTED", "CLOUD_CONNECTING", "GNSS_ACQUIRE",
     "NTN_CONNECTED", "LTE_PROBE"}

AppState == {"BOOT"} \union DisconnectedStates \union ConnectedStates

(* enum rat.  UNKNOWN is what app_event_publish_type() stamps.             *)
Rat == {"LTEM", "NTN"}
SourceRat == Rat \union {"UNKNOWN"}

StepDone == {"NONE", "CLOUD_DONE", "GNSS_DONE"}
GnssGoal == {"NONE", "REQUIRED_FOR_NTN"}

EventType ==
    {"BOOT", "REG_OK", "REG_FAIL", "START_CLOUD", "START_GNSS", "GNSS_FIX",
     "TIMEOUT", "LTE_POOR", "LTE_GOOD", "CLOUD_OK", "CLOUD_FAIL",
     "CLOUD_DISCONNECTED", "PDN_UP", "PDN_DOWN", "MODEM_SWITCH_FAIL",
     "MODEM_SWITCH_CMD_OK", "TN_READY_FOR_PROBE"}

(***************************************************************************)
(* What the modem's radio is doing: switched off, or running in the        *)
(* terrestrial (LTE-M) or satellite (NTN NB-IoT) system mode.              *)
(***************************************************************************)
Radio == {"off", "LTEM", "NTN"}

(* The timers that post EVT_TIMEOUT.                                       *)
Timer == {"backoff", "ntn_probe", "ntn_connect", "gnss"}

Event == [type : EventType, source_rat : SourceRat]

Ev(type, rat) == [type |-> type, source_rat |-> rat]

(* struct app_event ev = { .type = type }: source_rat is zero, RAT_LTEM.   *)
PlainEv(type) == Ev(type, "LTEM")

(* Every timer posts the same anonymous EVT_TIMEOUT.                       *)
TimeoutEv == PlainEv("TIMEOUT")
=============================================================================
