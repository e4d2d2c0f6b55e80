----------------------------- MODULE DocClaims -----------------------------
(***************************************************************************)
(* What comments and diagrams of the repository say of the application     *)
(* state machine and what its code does not do.  One run checks each       *)
(* claim, and finds it violated.                                           *)
(***************************************************************************)
EXTENDS AppSm

(* "checks TN once after a delay" (app_sm.c, ntn_connected_entry): the     *)
(* probe starts when the timer of that delay has run out.  EVT_TIMEOUT     *)
(* does not say which timer fired, so one left over from the attach starts *)
(* it at once.                                                             *)
ProbeAfterDelay ==
    [][state = "NTN_CONNECTED" /\ state' = "LTE_PROBE"
          => "ntn_probe" \notin armed]_vars

(* "Cloud state mirrored here so SMF can decide what step comes next"      *)
(* (app_types.h): waiting for the cloud, the state machine is not waiting  *)
(* for a connection the service already has.                               *)
CloudConnectionIsMirrored ==
    state = "CLOUD_CONNECTING" /\ cloud = "connected" /\ ~link.cloud =>
        Queued("CLOUD_OK") \/ Queued("CLOUD_DISCONNECTED")

(* "get a fresh fix before tearing LTE down" (app_sm.c, ltem_connected_run):*)
(* a running search can still deliver, or has delivered and waits in the   *)
(* queue.  The standalone start does not reset fix_published, so every     *)
(* search NTN requires after the first fix is deaf.                        *)
SearchCanDeliver ==
    state = "GNSS_ACQUIRE" /\ gnss.running /\ gnss.fixPublished => Queued("GNSS_FIX")
=============================================================================
