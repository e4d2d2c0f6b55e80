----------------------------- MODULE LteService -----------------------------
(***************************************************************************)
(* lte/lte_service.c: brings LTE-M up, and turns registration reports into *)
(* events tagged RAT_LTEM.  While a probe is pending the next successful   *)
(* registration means "TN is back", not "LTE-M is attached".               *)
(***************************************************************************)
EXTENDS LinkControl

VARIABLES
    lteUp,          \* lte_connected of the service
    probePending    \* set by the probe state, cleared by the callback too

lteVars == <<lteUp, probePending>>

LteTypeOK == lteUp \in BOOLEAN /\ probePending \in BOOLEAN

LteInit == lteUp = FALSE /\ probePending = FALSE

(* lte_service_connect_async(): on an error the caller posts REG_FAIL.     *)
LteConnectOutcomes == ConnectOutcomes("LTEM", "lte_connect")

(* lte_service_disconnect().                                               *)
LteDisconnect == lteUp' = FALSE /\ Offline

(* lte_lc_evt_handler(): what a report of `status' makes it publish...     *)
LteEvents(status) ==
    CASE status = "REGISTERED" /\ probePending ->
            <<Ev("TN_READY_FOR_PROBE", "LTEM")>>
      [] status = "REGISTERED" /\ ~probePending ->
            <<Ev("REG_OK", "LTEM")>>
      [] status \in {"NOT_REGISTERED", "DENIED"} ->
            <<Ev("REG_FAIL", "LTEM")>>
      [] OTHER -> <<>>

(* ...and what it does to the service's flags.                             *)
LteHears(status) ==
    /\ lteUp' = IF status = "SEARCHING" THEN lteUp ELSE status = "REGISTERED"
    /\ probePending' = (probePending /\ status # "REGISTERED")
=============================================================================
