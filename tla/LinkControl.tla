---------------------------- MODULE LinkControl ----------------------------
(***************************************************************************)
(* The modem as lte_service.c and ntn_service.c use it: Nordic's LTE link  *)
(* controller lte_lc, which is outside the repository.                     *)
(*                                                                         *)
(* lte_lc_connect_async(handler) appends the handler to a list nothing     *)
(* ever shortens, and the controller reports every change of registration  *)
(* status to every handler in the list, in order.  After the first NTN     *)
(* attempt both services therefore hear about both radios.                 *)
(***************************************************************************)
EXTENDS EventBus

VARIABLES
    radio,          \* system mode the modem runs in
    regStatus,      \* registration status last reported to the handlers
    handlers        \* services registered with lte_lc, in dispatch order

linkVars == <<radio, regStatus, handlers>>

(* SEARCHING is any status neither service acts on; UNKNOWN is treated     *)
(* like NOT_REGISTERED by both, UICC_FAIL like DENIED.                     *)
RegStatus == {"NOT_REGISTERED", "SEARCHING", "REGISTERED", "DENIED"}
HandlerLists == {<<>>, <<"LTEM">>, <<"NTN">>, <<"LTEM", "NTN">>, <<"NTN", "LTEM">>}

LinkTypeOK ==
    /\ radio \in Radio
    /\ regStatus \in RegStatus
    /\ handlers \in HandlerLists

LinkInit ==
    /\ radio = "off"
    /\ regStatus = "NOT_REGISTERED"
    /\ handlers = <<>>

Registered(rat) == \E i \in 1..Len(handlers) : handlers[i] = rat

WithHandler(rat) == IF Registered(rat) THEN handlers ELSE Append(handlers, rat)

(* Power off, set the mode, connect: success leaves the radio in rat's     *)
(* mode; a failure of the first step leaves it as it was, a later one off. *)
ConnectOutcomes(rat, fault) ==
    {[err |-> FALSE, radio |-> rat, handlers |-> WithHandler(rat)]}
        \union (IF fault \in Faults
                THEN {[err |-> TRUE, radio |-> radio, handlers |-> handlers],
                      [err |-> TRUE, radio |-> "off", handlers |-> handlers],
                      [err |-> TRUE, radio |-> "off", handlers |-> WithHandler(rat)]}
                ELSE {})

LinkAfter(outcome) ==
    /\ radio' = outcome.radio
    /\ handlers' = outcome.handlers
    /\ UNCHANGED regStatus

(* lte_lc_offline(), whose failure the services pass on to callers that    *)
(* drop it.                                                                *)
Offline ==
    /\ radio' = "off" \/ ("offline" \in Faults /\ UNCHANGED radio)
    /\ UNCHANGED <<regStatus, handlers>>

(* The controller reports a status when it differs from the last one it    *)
(* reported; with the radio off there is only one to report.               *)
RegStatusChanges(status) ==
    /\ status # regStatus
    /\ radio = "off" => status = "NOT_REGISTERED"
    /\ regStatus' = status
    /\ UNCHANGED <<radio, handlers>>

=============================================================================
