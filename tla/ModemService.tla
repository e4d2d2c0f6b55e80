--------------------------- MODULE ModemService ----------------------------
(***************************************************************************)
(* modem/modem_service.c: switching the system mode while the other RAT's  *)
(* context is kept (CFUN=45).  The AT commands block, so a switch is a     *)
(* work item; a request made while one is under way gets -EBUSY.           *)
(***************************************************************************)
EXTENDS LinkControl

VARIABLE switchState    \* the switch requested and not finished, if any

SwitchState == {"IDLE", "TO_TN", "TO_NTN"}

SwitchBusy == switchState # "IDLE"
SwitchToTn == switchState = "IDLE" /\ switchState' = "TO_TN"
SwitchToNtn == switchState = "IDLE" /\ switchState' = "TO_NTN"

SwitchTarget == IF switchState = "TO_TN" THEN "LTEM" ELSE "NTN"

(* modem_service_switch(): CFUN=45, XSYSTEMMODE, CFUN=1 (or CFUN=0 first,  *)
(* back to TN): what the radio is left in, and the event, with no RAT,     *)
(* that tells.                                                             *)
SwitchOutcomes ==
    {[radio |-> SwitchTarget, ev |-> Ev("MODEM_SWITCH_CMD_OK", "UNKNOWN")]}
        \union (IF "switch" \in Faults
                THEN {[radio |-> r, ev |-> Ev("MODEM_SWITCH_FAIL", "UNKNOWN")] :
                        r \in {radio, "off"}}
                ELSE {})

SwitchEnds(outcome) ==
    /\ SwitchBusy
    /\ radio' = outcome.radio
    /\ UNCHANGED <<regStatus, handlers>>

(* modem_switch_work_handler(): idle again whatever the outcome.  It runs  *)
(* on the cooperative system work queue, so nothing comes between its      *)
(* publication and the return to idle.                                     *)
ModemSwitchWork ==
    \E outcome \in SwitchOutcomes :
        /\ SwitchEnds(outcome)
        /\ switchState' = "IDLE"
        /\ Publish(outcome.ev)
=============================================================================
