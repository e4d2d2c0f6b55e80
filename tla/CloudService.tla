---------------------------- MODULE CloudService ----------------------------
(***************************************************************************)
(* cloud/cloud_service.c: the nRF Cloud connection.  The pair of flags     *)
(* (cloud_connected, cloud_connecting) is one variable; "closing" is both  *)
(* false with the transport's farewell still to come.                      *)
(***************************************************************************)
EXTENDS EventBus

VARIABLE cloud

CloudState == {"idle", "connecting", "connected", "closing"}
CloudUp == cloud \in {"connecting", "connected"}

(* cloud_service_connect_async(): succeeds silently, with no event to      *)
(* come, when the service is connected or connecting already.              *)
CloudConnectOutcomes ==
    IF CloudUp
    THEN {[err |-> FALSE, cloud |-> cloud]}
    ELSE {[err |-> FALSE, cloud |-> "connecting"]}
            \union (IF "cloud_connect" \in Faults
                    THEN {[err |-> TRUE, cloud |-> "idle"]} ELSE {})

(* cloud_service_disconnect(): an error leaves the flags as they are.      *)
CloudDisconnect ==
    cloud' \in (IF CloudUp THEN {"closing"} ELSE {cloud})
        \union (IF CloudUp /\ "cloud_disconnect" \in Faults THEN {cloud} ELSE {})

(* cloud_event_handler().                                                  *)
CloudReady ==
    /\ cloud = "connecting"
    /\ cloud' = "connected"
    /\ Publish(PlainEv("CLOUD_OK"))

CloudTransportDisconnected ==
    /\ cloud # "idle"
    /\ cloud' = "idle"
    /\ Publish(PlainEv("CLOUD_DISCONNECTED"))

CloudError ==
    /\ CloudUp
    /\ cloud' = "idle"
    /\ Publish(PlainEv("CLOUD_FAIL"))
=============================================================================
