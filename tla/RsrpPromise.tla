---------------------------- MODULE RsrpPromise ----------------------------
(***************************************************************************)
(* What the RSRP service promises its client, without samples, work items  *)
(* or threads: an answer only to what is being asked, once, and LTE_GOOD    *)
(* only to a probe.  RsrpService, inside AppSm, has these steps.            *)
(***************************************************************************)
VARIABLES
    asked,      \* what the state machine asked for last
    answer      \* the verdict posted since

Question == {"IDLE", "MONITOR", "PROBE", "NTN_MONITOR"}

AnswersTo == [IDLE |-> {}, MONITOR |-> {"LTE_POOR"},
              PROBE |-> {"LTE_POOR", "LTE_GOOD"}, NTN_MONITOR |-> {}]

Init == asked = "IDLE" /\ answer = "none"

Ask == asked' \in Question /\ answer' = "none"

Answer == answer = "none" /\ answer' \in AnswersTo[asked] /\ UNCHANGED asked

Spec == Init /\ [][Ask \/ Answer]_<<asked, answer>>
=============================================================================
