------------------------------ MODULE MCAppSm ------------------------------
(***************************************************************************)
(* AppSm as TLC checks it.  The faults of a run are gathered here; the     *)
(* other constants are in the .cfg files.                                  *)
(***************************************************************************)
EXTENDS DocClaims

NoFaults == {}
CallFaults == {"lte_connect", "ntn_connect", "switch", "udp", "probe",
               "cloud_connect", "cloud_disconnect", "gnss_start"}
LossyFaults == {"ntn_connect", "ntn_location", "gnss_read", "offline"}

(* Behaviours in which no fix reaches its maximal age, for the runs whose  *)
(* full state graph is out of reach.                                       *)
FreshNext == Next /\ ~FixAges
FreshSpec == Init /\ [][FreshNext]_vars

(* The liveness run also leaves out the PDN reports of NTN: registration   *)
(* reports already tell what attaches and what is lost.                    *)
QuietNext == FreshNext /\ ~NtnPdn
FairQuietSpec ==
    /\ Init /\ [][QuietNext]_vars
    /\ WF_vars(Dispatch) /\ \A t \in Timer : SF_vars(TimerFires(t))
=============================================================================
