---------------------------- MODULE RsrpService ----------------------------
(***************************************************************************)
(* rsrp/rsrp_service.c as its client sees it: one mode at a time, a verdict *)
(* on LTE-M once per monitoring or probing, after which the service idles.  *)
(* How samples make a verdict is abstracted to the verdict, and the periodic*)
(* EVT_RSRP_UPDATE, which only refreshes a value no decision reads, is left *)
(* out.                                                                     *)
(***************************************************************************)
EXTENDS EventBus

VARIABLE rsrpMode

RsrpMode == {"IDLE", "MONITOR", "PROBE", "NTN_MONITOR"}

(* rsrp_work_handler(), RSRP_MODE_MONITOR.                                 *)
RsrpMonitorWork ==
    /\ rsrpMode = "MONITOR"
    /\ rsrpMode' = "IDLE"
    /\ Publish(PlainEv("LTE_POOR"))

(* rsrp_work_handler(), RSRP_MODE_PROBE.                                   *)
RsrpProbeWork ==
    /\ rsrpMode = "PROBE"
    /\ rsrpMode' = "IDLE"
    /\ \E verdict \in {"LTE_GOOD", "LTE_POOR"} : Publish(PlainEv(verdict))
=============================================================================
