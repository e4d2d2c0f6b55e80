----------------------------- MODULE NtnService -----------------------------
(***************************************************************************)
(* ntn/ntn_service.c: brings the satellite link up from a GNSS fix, turns  *)
(* registration and PDN reports into events tagged RAT_NTN, and answers    *)
(* the NTN library's requests for a position from work context.            *)
(***************************************************************************)
EXTENDS LinkControl

VARIABLE activeCtx      \* active_ctx # NULL: set by connect, cleared by stop

(* ntn_service_connect(): -ENODATA without a fix, with the radio off.      *)
NtnConnectOutcomes(haveFix) ==
    IF haveFix THEN ConnectOutcomes("NTN", "ntn_connect")
               ELSE {[err |-> TRUE, radio |-> "off", handlers |-> handlers]}

(* ntn_service_stop().                                                     *)
NtnStop == activeCtx' = FALSE /\ Offline

(* ntn_lc_evt_handler(), LTE_LC_EVT_NW_REG_STATUS: losing registration is  *)
(* part of an attach, so it is not a failure while one is in progress.     *)
NtnEvents(status, attaching) ==
    CASE status = "REGISTERED" -> <<Ev("REG_OK", "NTN")>>
      [] status = "DENIED" -> <<Ev("REG_FAIL", "NTN")>>
      [] status = "NOT_REGISTERED" /\ ~(activeCtx /\ attaching) ->
            <<Ev("REG_FAIL", "NTN")>>
      [] OTHER -> <<>>

(* LTE_LC_EVT_PDN: only this service listens, whatever the radio's mode.   *)
NtnPdnReport ==
    /\ Registered("NTN")
    /\ \E up \in BOOLEAN :
          /\ up => radio # "off"
          /\ Publish(Ev(IF up THEN "PDN_UP" ELSE "PDN_DOWN", "NTN"))
    /\ UNCHANGED linkVars

(* ntn_location_work_handler(): a request that cannot be answered is       *)
(* reported as a failed switch.                                            *)
NtnLocationFails(haveFix) ==
    /\ activeCtx
    /\ ~haveFix \/ "ntn_location" \in Faults
    /\ Publish(Ev("MODEM_SWITCH_FAIL", "NTN"))
=============================================================================
