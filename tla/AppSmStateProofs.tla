-------------------------- MODULE AppSmStateProofs --------------------------
(***************************************************************************)
(* What AppSm keeps beside its state agrees with the state: the link       *)
(* flags, the timers, the signal monitor and the GNSS receiver, and no     *)
(* state waits for a timeout that is not under way.  For every pool size,  *)
(* retry limit and set of faults, but for what each theorem assumes.       *)
(***************************************************************************)
EXTENDS AppSmTypeProofs

(* LinkMatchesState, made inductive: a search for a position that returns  *)
(* to LTE-M still has LTE-M and its PDN.                                   *)
LinkInv ==
    /\ LinkMatchesState
    /\ state = "GNSS_ACQUIRE" /\ gnssGoal # "REQUIRED_FOR_NTN"
           => link.rat = "LTEM" /\ link.lte /\ link.pdn

(* The flags are cleared on the way into disconnected, set on the way into *)
(* ltem_connected, and carried along everywhere else.                      *)
LEMMA LinkStep ==
    ASSUME LinkInv, TypeOK, [Next]_vars
    PROVE  LinkInv'
<1> USE DEF LinkInv, LinkMatchesState, LtemStates, Link, LinkOnEntry, EntersDisconnected,
            DisconnectedStates
<1>0. link \in Link
  BY DEF TypeOK
<1>1. CASE Boot
  BY <1>0, <1>1 DEF Boot, ToLtemConnecting, Leave, Transition
<1>2. CASE LtemRegistered \/ LtemRefused
  BY <1>0, <1>2 DEF LtemRegistered, LtemRefused, ToLtemConnected, ToBackoff, Leave, Transition
<1>3. CASE LtemPoor
  BY <1>0, <1>3 DEF LtemPoor, AcquireFixForNtn, ToGnssAcquire, ToBackoff, Leave, Transition
<1>4. CASE StartCloud \/ StartGnss
  BY <1>0, <1>4
     DEF StartCloud, StartGnss, ToGnssAcquire, ToCloudConnecting, Leave, Transition, goalVars
<1>5. CASE CloudConnected \/ CloudFailed \/ CloudLostWhileConnecting
  BY <1>0, <1>5
     DEF CloudConnected, CloudFailed, CloudLostWhileConnecting, ToLtemConnected,
         ToBackoff, Leave, Transition
<1>6. CASE GnssFixObtained
  BY <1>0, <1>6 DEF GnssFixObtained, ToNtnConnecting, ToLtemConnected, Leave, Transition
<1>7. CASE GnssGivenUp \/ GnssExtended
  BY <1>0, <1>7 DEF GnssGivenUp, GnssExtended, ToLtemConnected, ToBackoff, Leave, Transition
<1>8. CASE NtnAttached
  BY <1>0, <1>8 DEF NtnAttached, ToNtnConnected, EnterNtnConnected, Leave, Transition
<1>9. CASE NtnAttachFailed
  BY <1>0, <1>9 DEF NtnAttachFailed, ToBackoff, Leave, Transition
<1>10. CASE ProbeLte
  BY <1>0, <1>10 DEF ProbeLte, ToNtnConnecting, EnterNtnConnected, Leave, Transition
<1>11. CASE NtnPdnUp
  BY <1>0, <1>11 DEF NtnPdnUp
<1>12. ASSUME state = "LTE_PROBE", ReturnToNtn PROVE LinkInv'
  BY <1>0, <1>12
     DEF ReturnToNtn, ToNtnConnecting, ToNtnConnected, EnterNtnConnected, Leave, Transition
<1>13. CASE ProbeRejected \/ ProbeSampling
  BY <1>12, <1>13 DEF ProbeRejected, ProbeSampling, ctxVars, goalVars
<1>14. CASE ProbeAccepted \/ ProbeLinkLost
  BY <1>0, <1>14
     DEF ProbeAccepted, ProbeLinkLost, LeaveProbeForLtem, ToLtemConnecting,
         ToLtemConnected, Leave, Transition
<1>15. CASE BackoffExpired
  BY <1>0, <1>15
     DEF BackoffExpired, AcquireFixForNtn, ToGnssAcquire, ToNtnConnecting,
         ToLtemConnecting, Leave, Transition
<1>16. CASE LinkLost
  BY <1>0, <1>16 DEF LinkLost, ToBackoff, Leave, Transition
<1>17. CASE Drop
  BY <1>0, <1>17 DEF Drop, goalVars
<1>18. CASE Environment
  <2>1. UNCHANGED <<state, link, gnssGoal>>
    <3>1. CASE FixAges
      BY <3>1 DEF FixAges, goalVars
    <3>2. CASE TimeoutFires
      BY <3>2 DEF TimeoutFires, TimerFires, ctxVars, goalVars
    <3>3. CASE NwRegStatus \/ NtnPdn
      BY <3>3 DEF NwRegStatus, NtnPdn, ctxVars, goalVars
    <3>4. CASE NtnLocationWork \/ SwitchWork \/ CloudCallback
      BY <3>4 DEF NtnLocationWork, SwitchWork, CloudCallback, ctxVars, goalVars
    <3>5. CASE GnssWork \/ AgnssWork \/ RsrpWork
      BY <3>5 DEF GnssWork, AgnssWork, RsrpWork, ctxVars, goalVars
    <3>6. QED
      BY <1>18, <3>1, <3>2, <3>3, <3>4, <3>5 DEF Environment
  <2>2. QED
    BY <2>1
<1>19. CASE UNCHANGED vars
  BY <1>19 DEF vars, ctxVars, goalVars
<1>20. QED
  BY <1>1, <1>2, <1>3, <1>4, <1>5, <1>6, <1>7, <1>8, <1>9, <1>10, <1>11, <1>13, <1>14,
     <1>15, <1>16, <1>17, <1>18, <1>19
     DEF Next, Dispatch

(* LinkMatchesState: on every path nothing is up while disconnected, LTE-M *)
(* is up with its PDN throughout the cloud and GNSS chain, and on NTN the  *)
(* active RAT is NTN, even when events are lost.                           *)
THEOREM LinkCorrect == Spec => []LinkMatchesState
<1>1. Init => LinkInv
  BY DEF Init, LinkInv, LinkMatchesState, LtemStates, DisconnectedStates
<1>2. LinkInv /\ TypeOK /\ [Next]_vars => LinkInv'
  BY LinkStep
<1>3. LinkInv => LinkMatchesState
  BY DEF LinkInv
<1>4. QED
  BY <1>1, <1>2, <1>3, TypeCorrect, PTL DEF Spec

-----------------------------------------------------------------------------
(***************************************************************************)
(* What runs belongs to the state.                                         *)
(***************************************************************************)

ModesOf(s) ==
    CASE s = "LTEM_CONNECTED" -> {"IDLE", "MONITOR"}
      [] s = "NTN_CONNECTED"  -> {"IDLE", "NTN_MONITOR"}
      [] s = "LTE_PROBE"      -> {"IDLE", "PROBE"}
      [] OTHER                -> {"IDLE"}

(* A state's exit functions stop whatever may run in it, but for the       *)
(* timeout of a search, which assistance may arm again behind their back.  *)
OwnedInv ==
    /\ armed \subseteq TimersOf(state) \union {"gnss"}
    /\ rsrpMode \in ModesOf(state)

(* So a transition leaves just the timers its entry function starts...     *)
LEMMA TransitionTimers ==
    ASSUME OwnedInv, NEW new, NEW l, NEW timers, Transition(new, l, timers)
    PROVE  armed' \subseteq timers \union {"gnss"} /\ state' = new
  BY DEF OwnedInv, Transition, ArmedOnExit

LEMMA LeaveTimers ==
    ASSUME OwnedInv, NEW new, NEW l, NEW timers, Leave(new, l, timers)
    PROVE  armed' \subseteq timers \union {"gnss"} /\ state' = new
<1>1. PICK exit \in GnssOnExit : Transition(new, l, timers \union exit.armed)
  BY DEF Leave
<1>2. exit.armed \subseteq {"gnss"}
  BY DEF GnssOnExit, GnssExitOutcomes
<1>3. QED
  BY <1>1, <1>2, TransitionTimers

(* ...and the signal service idle, unless it probes and only its parent's  *)
(* exit function would stop it.                                            *)
LEMMA MonitorOnExit ==
    ASSUME TypeOK, OwnedInv, NEW new,
           state = "LTE_PROBE" => new \notin ConnectedStates
    PROVE  RsrpOnExit(new) = "IDLE"
  BY DEF OwnedInv, ModesOf, RsrpOnExit, LeavesConnected, ConnectedStates

(* The entry functions start nothing but what is their own.                *)
LEMMA BackoffOwned ==
    ASSUME TypeOK, OwnedInv, NEW l, ToBackoff(l)
    PROVE  OwnedInv'
<1>1. armed' \subseteq {"backoff", "gnss"} /\ state' = "BACKOFF"
  BY LeaveTimers DEF ToBackoff
<1>2. rsrpMode' = "IDLE"
  BY MonitorOnExit DEF ToBackoff, ConnectedStates
<1>3. QED BY <1>1, <1>2 DEF OwnedInv, TimersOf, ModesOf

LEMMA LtemConnectingOwned ==
    ASSUME TypeOK, OwnedInv, NEW l, ToLtemConnecting(l)
    PROVE  OwnedInv'
<1>1. armed' \subseteq {"gnss"} /\ state' = "LTEM_CONNECTING"
  BY LeaveTimers DEF ToLtemConnecting
<1>2. rsrpMode' = "IDLE"
  BY MonitorOnExit DEF ToLtemConnecting, ConnectedStates
<1>3. QED BY <1>1, <1>2 DEF OwnedInv, TimersOf, ModesOf

LEMMA LtemConnectedOwned ==
    ASSUME TypeOK, OwnedInv, NEW l, NEW done, ToLtemConnected(l, done)
    PROVE  OwnedInv'
<1>1. armed' \subseteq {"gnss"} /\ state' = "LTEM_CONNECTED"
  BY LeaveTimers DEF ToLtemConnected
<1>2. rsrpMode' = "MONITOR"
  BY DEF ToLtemConnected
<1>3. QED BY <1>1, <1>2 DEF OwnedInv, TimersOf, ModesOf

LEMMA CloudConnectingOwned ==
    ASSUME TypeOK, OwnedInv, state = "LTEM_CONNECTED", ToCloudConnecting
    PROVE  OwnedInv'
<1>1. armed' \subseteq {"gnss"} /\ state' = "CLOUD_CONNECTING"
  BY LeaveTimers DEF ToCloudConnecting
<1>2. rsrpMode' = "IDLE"
  BY MonitorOnExit DEF ToCloudConnecting
<1>3. QED BY <1>1, <1>2 DEF OwnedInv, TimersOf, ModesOf

LEMMA GnssAcquireOwned ==
    ASSUME TypeOK, OwnedInv, state # "LTE_PROBE", ToGnssAcquire
    PROVE  OwnedInv'
<1>1. PICK timers \in SUBSET {"gnss"} : Transition("GNSS_ACQUIRE", link, timers)
  BY DEF ToGnssAcquire
<1>2. armed' \subseteq {"gnss"} /\ state' = "GNSS_ACQUIRE"
  BY <1>1, TransitionTimers
<1>3. rsrpMode' = "IDLE"
  BY MonitorOnExit DEF ToGnssAcquire
<1>4. QED BY <1>2, <1>3 DEF OwnedInv, TimersOf, ModesOf

LEMMA NtnConnectingOwned ==
    ASSUME TypeOK, OwnedInv, NEW l, ToNtnConnecting(l)
    PROVE  OwnedInv'
<1>1. PICK timers \in SUBSET {"ntn_connect"} : Leave("NTN_CONNECTING", l, timers)
  BY DEF ToNtnConnecting
<1>2. armed' \subseteq {"ntn_connect", "gnss"} /\ state' = "NTN_CONNECTING"
  BY <1>1, LeaveTimers
<1>3. rsrpMode' = "IDLE"
  BY MonitorOnExit DEF ToNtnConnecting, ConnectedStates
<1>4. QED BY <1>2, <1>3 DEF OwnedInv, TimersOf, ModesOf

LEMMA NtnConnectedOwned ==
    ASSUME TypeOK, OwnedInv, NEW l, EnterNtnConnected(l)
    PROVE  OwnedInv'
<1>1. armed' \subseteq {"ntn_probe", "gnss"} /\ state' = "NTN_CONNECTED"
  BY LeaveTimers DEF EnterNtnConnected
<1>2. rsrpMode' = "NTN_MONITOR"
  BY DEF EnterNtnConnected
<1>3. QED BY <1>1, <1>2 DEF OwnedInv, TimersOf, ModesOf

(* Every handler ends in an entry function or leaves what runs alone, but  *)
(* for the extension of a search and the start of a probe's sampling.      *)
LEMMA OwnedStep ==
    ASSUME TypeOK, OwnedInv, [Next]_vars
    PROVE  OwnedInv'
<1>0. ASSUME UNCHANGED <<state, armed, rsrpMode>> PROVE OwnedInv'
  BY <1>0 DEF OwnedInv
<1>1. CASE Boot BY <1>1, LtemConnectingOwned DEF Boot
<1>2. CASE LtemRegistered \/ LtemRefused
  BY <1>2, LtemConnectedOwned, BackoffOwned DEF LtemRegistered, LtemRefused
<1>3. CASE LtemPoor
  BY <1>3, GnssAcquireOwned, BackoffOwned DEF LtemPoor, AcquireFixForNtn
<1>4. CASE StartCloud \/ StartGnss
  BY <1>4, CloudConnectingOwned, GnssAcquireOwned DEF StartCloud, StartGnss
<1>5. CASE CloudConnected \/ CloudFailed \/ CloudLostWhileConnecting
  BY <1>5, LtemConnectedOwned, BackoffOwned
     DEF CloudConnected, CloudFailed, CloudLostWhileConnecting
<1>6. CASE GnssFixObtained
  BY <1>6, NtnConnectingOwned, LtemConnectedOwned DEF GnssFixObtained
<1>7. CASE GnssGivenUp
  BY <1>7, BackoffOwned, LtemConnectedOwned DEF GnssGivenUp
<1>8. CASE GnssExtended
  BY <1>8 DEF GnssExtended, OwnedInv, TimersOf
<1>9. CASE NtnAttached
  BY <1>9, NtnConnectedOwned DEF NtnAttached, ToNtnConnected
<1>10. CASE NtnAttachFailed
  BY <1>10, BackoffOwned DEF NtnAttachFailed
<1>11. CASE ProbeLte
  <2>1. state = "NTN_CONNECTED" BY <1>11 DEF ProbeLte
  <2>2. CASE /\ Transition("LTE_PROBE", link, {})
             /\ rsrpMode' = RsrpOnExit("LTE_PROBE")
    <3>1. armed' \subseteq {"gnss"} /\ state' = "LTE_PROBE"
      BY <2>2, TransitionTimers
    <3>2. rsrpMode' = "IDLE" BY <2>1, <2>2, MonitorOnExit
    <3>3. QED BY <3>1, <3>2 DEF OwnedInv, TimersOf, ModesOf
  <2>3. CASE ToNtnConnecting(link) BY <2>3, NtnConnectingOwned
  <2>4. CASE EnterNtnConnected([link EXCEPT !.rat = "NTN"])
    BY <2>4, NtnConnectedOwned
  <2>5. QED BY <1>11, <2>2, <2>3, <2>4 DEF ProbeLte
<1>12. CASE NtnPdnUp BY <1>0, <1>12 DEF NtnPdnUp, serviceVars, gnssVars
<1>13. ASSUME ReturnToNtn PROVE OwnedInv'
  BY <1>13, NtnConnectedOwned, NtnConnectingOwned DEF ReturnToNtn, ToNtnConnected
<1>14. CASE ProbeRejected BY <1>13, <1>14 DEF ProbeRejected
<1>15. CASE ProbeSampling
  <2>1. CASE ReturnToNtn BY <1>13, <2>1
  <2>2. CASE state = "LTE_PROBE" /\ rsrpMode' = "PROBE" /\ UNCHANGED <<ctxVars, gnssVars>>
    BY <2>2 DEF OwnedInv, ModesOf, ctxVars, gnssVars
  <2>3. QED BY <1>15, <2>1, <2>2 DEF ProbeSampling
<1>16. CASE ProbeAccepted \/ ProbeLinkLost
  BY <1>16, LtemConnectedOwned, LtemConnectingOwned
     DEF ProbeAccepted, ProbeLinkLost, LeaveProbeForLtem
<1>17. CASE BackoffExpired
  BY <1>17, LtemConnectingOwned, GnssAcquireOwned, NtnConnectingOwned
     DEF BackoffExpired, AcquireFixForNtn
<1>18. CASE LinkLost BY <1>18, BackoffOwned DEF LinkLost
<1>19. CASE Drop BY <1>0, <1>19 DEF Drop, serviceVars, gnssVars
<1>20. CASE Environment
  <2>1. CASE FixAges BY <1>0, <2>1 DEF FixAges, serviceVars, gnssVars
  <2>2. CASE TimeoutFires
    BY <2>2 DEF TimeoutFires, TimerFires, OwnedInv, ctxVars
  <2>3. CASE NwRegStatus \/ NtnPdn \/ NtnLocationWork \/ SwitchWork \/ CloudCallback
    BY <1>0, <2>3 DEF NwRegStatus, NtnPdn, NtnLocationWork, SwitchWork, CloudCallback,
                      ctxVars, serviceVars, gnssVars
  <2>4. CASE GnssWork \/ AgnssWork
    <3>1. UNCHANGED <<state, rsrpMode>> /\ armed' \subseteq armed \union {"gnss"}
      BY <2>4
         DEF GnssWork, GnssFix, GnssReadError, AgnssWork, AgnssReady, AgnssFallback, ctxVars,
             gnssVars
    <3>2. QED BY <3>1 DEF OwnedInv
  <2>5. CASE RsrpWork
    <3>1. rsrpMode' = "IDLE" /\ UNCHANGED <<state, armed>>
      BY <2>5 DEF RsrpWork, RsrpMonitorWork, RsrpProbeWork, ctxVars, gnssVars
    <3>2. QED BY <3>1 DEF OwnedInv, ModesOf
  <2>6. QED BY <1>20, <2>1, <2>2, <2>3, <2>4, <2>5 DEF Environment
<1>21. CASE UNCHANGED vars
  BY <1>0, <1>21 DEF vars, ctxVars, serviceVars, gnssVars
<1>22. QED
  BY <1>1, <1>2, <1>3, <1>4, <1>5, <1>6, <1>7, <1>8, <1>9, <1>10, <1>11, <1>12, <1>14,
     <1>15, <1>16, <1>17, <1>18, <1>19, <1>20, <1>21
     DEF Next, Dispatch

LEMMA OwnedInvariant == Spec => []OwnedInv
<1>1. Init => OwnedInv
  BY DEF Init, OwnedInv, ModesOf
<1>2. OwnedInv /\ TypeOK /\ [Next]_vars => OwnedInv'
  BY OwnedStep
<1>3. QED
  BY <1>1, <1>2, TypeCorrect, PTL DEF Spec

(* TimersOnlyInTheirStates: the timers of backoff, of the NTN attach and   *)
(* of the probe run only in the state whose exit function stops them,      *)
(* whatever calls fail and whatever events are lost, so that none of them  *)
(* posts its anonymous EVT_TIMEOUT into another state.                     *)
THEOREM TimersOwned == Spec => []TimersOnlyInTheirStates
<1>1. OwnedInv => TimersOnlyInTheirStates
  BY DEF OwnedInv, TimersOf, TimersOnlyInTheirStates
<1>2. QED BY <1>1, OwnedInvariant, PTL

(* The modem does as it is told when GNSS is stopped...                    *)
GnssStops == "gnss_stop" \notin Faults

(* ...so the receiver runs only while a fix is sought.                     *)
ReceiverInv == gnss.running => state = "GNSS_ACQUIRE"

LEMMA ReceiverOnExit ==
    ASSUME GnssStops, TypeOK, ReceiverInv, NEW new, NEW l, NEW timers, Leave(new, l, timers)
    PROVE  ~gnss'.running
<1>1. gnss \in GnssFlags BY DEF TypeOK
<1>2. PICK exit \in GnssOnExit : gnss' = exit.gnss
  BY DEF Leave
<1>3. CASE state = "GNSS_ACQUIRE"
  <2>1. exit.gnss = GnssStopped
    BY <1>2, <1>3 DEF GnssOnExit, GnssExitOutcomes, GnssStopOutcomes, GnssStops
  <2>2. QED BY <1>1, <1>2, <2>1 DEF GnssStopped, GnssFlags
<1>4. CASE state # "GNSS_ACQUIRE"
  BY <1>2, <1>4 DEF GnssOnExit, ReceiverInv
<1>5. QED BY <1>3, <1>4

(* No transition but the one into a search leaves the receiver on.         *)
LEMMA ReceiverStopped ==
    ASSUME GnssStops, TypeOK, ReceiverInv, NEW l, NEW done,
           \/ ToBackoff(l) \/ ToLtemConnecting(l) \/ ToLtemConnected(l, done)
           \/ ToCloudConnecting \/ ToNtnConnecting(l) \/ EnterNtnConnected(l)
    PROVE  ReceiverInv'
<1>1. \E new, m, timers : Leave(new, m, timers)
  <2>1. CASE ToBackoff(l) BY <2>1, Zenon DEF ToBackoff
  <2>2. CASE ToLtemConnecting(l) BY <2>2, Zenon DEF ToLtemConnecting
  <2>3. CASE ToLtemConnected(l, done) BY <2>3, Zenon DEF ToLtemConnected
  <2>4. CASE ToCloudConnecting BY <2>4, Zenon DEF ToCloudConnecting
  <2>5. CASE ToNtnConnecting(l) BY <2>5, Zenon DEF ToNtnConnecting
  <2>6. CASE EnterNtnConnected(l) BY <2>6, Zenon DEF EnterNtnConnected
  <2>7. QED BY <2>1, <2>2, <2>3, <2>4, <2>5, <2>6
<1>2. QED BY <1>1, ReceiverOnExit DEF ReceiverInv

LEMMA ReceiverSearches ==
    ASSUME ToGnssAcquire
    PROVE  ReceiverInv'
  BY DEF ToGnssAcquire, Transition, ReceiverInv

LEMMA ReceiverStep ==
    ASSUME GnssStops, TypeOK, ReceiverInv, [Next]_vars
    PROVE  ReceiverInv'
<1>0. ASSUME UNCHANGED state, gnss'.running = gnss.running PROVE ReceiverInv'
  BY <1>0 DEF ReceiverInv
<1>1. CASE Boot \/ LtemRegistered \/ LtemRefused
  BY <1>1, ReceiverStopped DEF Boot, LtemRegistered, LtemRefused
<1>2. CASE LtemPoor \/ StartCloud \/ StartGnss
  BY <1>2, ReceiverStopped, ReceiverSearches
     DEF LtemPoor, AcquireFixForNtn, StartCloud, StartGnss
<1>3. CASE CloudConnected \/ CloudFailed \/ CloudLostWhileConnecting
  BY <1>3, ReceiverStopped DEF CloudConnected, CloudFailed, CloudLostWhileConnecting
<1>4. CASE GnssFixObtained \/ GnssGivenUp
  BY <1>4, ReceiverStopped DEF GnssFixObtained, GnssGivenUp
<1>5. CASE GnssExtended
  BY <1>5 DEF GnssExtended, ReceiverInv
<1>6. CASE NtnAttached \/ NtnAttachFailed
  BY <1>6, ReceiverStopped DEF NtnAttached, NtnAttachFailed, ToNtnConnected
<1>7. CASE ProbeLte
  <2>1. CASE ToNtnConnecting(link) BY <2>1, ReceiverStopped
  <2>2. CASE EnterNtnConnected([link EXCEPT !.rat = "NTN"]) BY <2>2, ReceiverStopped
  <2>3. CASE state = "NTN_CONNECTED" /\ gnss' = gnss
    BY <2>3 DEF ReceiverInv
  <2>4. QED BY <1>7, <2>1, <2>2, <2>3 DEF ProbeLte
<1>8. ASSUME ReturnToNtn PROVE ReceiverInv'
  BY <1>8, ReceiverStopped DEF ReturnToNtn, ToNtnConnected
<1>9. CASE ProbeRejected BY <1>8, <1>9 DEF ProbeRejected
<1>10. CASE ProbeSampling
  BY <1>0, <1>8, <1>10 DEF ProbeSampling, ctxVars, gnssVars
<1>11. CASE ProbeAccepted \/ ProbeLinkLost
  BY <1>11, ReceiverStopped DEF ProbeAccepted, ProbeLinkLost, LeaveProbeForLtem
<1>12. CASE BackoffExpired
  BY <1>12, ReceiverStopped, ReceiverSearches DEF BackoffExpired, AcquireFixForNtn
<1>13. CASE LinkLost BY <1>13, ReceiverStopped DEF LinkLost
<1>14. CASE NtnPdnUp \/ Drop
  BY <1>0, <1>14 DEF NtnPdnUp, Drop, serviceVars, gnssVars
<1>15. CASE Environment
  <2>1. CASE FixAges \/ TimeoutFires
    BY <1>0, <2>1 DEF FixAges, TimeoutFires, TimerFires, ctxVars, serviceVars, gnssVars
  <2>2. CASE NwRegStatus \/ NtnPdn \/ NtnLocationWork \/ SwitchWork \/ CloudCallback \/ RsrpWork
    BY <1>0, <2>2
       DEF NwRegStatus, NtnPdn, NtnLocationWork, SwitchWork, CloudCallback, RsrpWork,
           ctxVars, serviceVars, gnssVars
  <2>3. CASE GnssWork \/ AgnssWork
    <3>1. gnss \in GnssFlags BY DEF TypeOK
    <3>2. gnss'.running = gnss.running
      BY <2>3, <3>1
         DEF GnssWork, GnssFix, GnssReadError, AgnssWork, AgnssReady, AgnssFallback, gnssVars,
             GnssFlags
    <3>3. QED BY <1>0, <2>3, <3>2 DEF GnssWork, AgnssWork, ctxVars
  <2>4. QED BY <1>15, <2>1, <2>2, <2>3 DEF Environment
<1>16. CASE UNCHANGED vars
  BY <1>0, <1>16 DEF vars, ctxVars, serviceVars, gnssVars
<1>17. QED
  BY <1>1, <1>2, <1>3, <1>4, <1>5, <1>6, <1>7, <1>9, <1>10, <1>11, <1>12, <1>13, <1>14,
     <1>15, <1>16
     DEF Next, Dispatch

LEMMA ReceiverInvariant ==
    ASSUME GnssStops
    PROVE  Spec => []ReceiverInv
<1>1. Init => ReceiverInv
  BY DEF Init, GnssInit, ReceiverInv
<1>2. ReceiverInv /\ TypeOK /\ [Next]_vars => ReceiverInv'
  BY ReceiverStep
<1>3. QED
  BY <1>1, <1>2, TypeCorrect, PTL DEF Spec

(* MeasuresOnlyWhereWanted: the signal monitor, the probe's sampling and   *)
(* GNSS run only for the state that wants their verdict, provided that     *)
(* GNSS can be stopped.                                                    *)
THEOREM MeasuresOwned ==
    ASSUME GnssStops
    PROVE  Spec => []MeasuresOnlyWhereWanted
<1>1. OwnedInv /\ ReceiverInv => MeasuresOnlyWhereWanted
  BY DEF OwnedInv, ReceiverInv, ModesOf, MeasuresOnlyWhereWanted
<1>2. QED BY <1>1, OwnedInvariant, ReceiverInvariant, PTL

(* Nothing but an idle service or a probe is overtaken by a new start.     *)
AskStep == rsrpMode' # "IDLE" => rsrpMode \in {"IDLE", "PROBE"}

(* Only the entry functions of the two connected states and the probe's    *)
(* run function start something.                                           *)
LEMMA StartsFrom ==
    ASSUME TypeOK, Next, rsrpMode' \notin {"IDLE", rsrpMode}
    PROVE  \/ state \notin {"LTEM_CONNECTED", "NTN_CONNECTED"}
           \/ state = "NTN_CONNECTED" /\ rsrpMode' = "NTN_MONITOR"
<1>1. \A new : RsrpOnExit(new) \in {"IDLE", rsrpMode} BY DEF RsrpOnExit
<1>2. /\ \A l : ~ToBackoff(l) /\ ~ToLtemConnecting(l) /\ ~ToNtnConnecting(l)
      /\ ~ToCloudConnecting /\ ~ToGnssAcquire
  <2>1. \A new : ~(rsrpMode' = RsrpOnExit(new)) BY <1>1
  <2>2. ASSUME NEW l PROVE ~ToBackoff(l) /\ ~ToLtemConnecting(l) /\ ~ToNtnConnecting(l)
    <3>1. ~ToBackoff(l) BY <2>1, Zenon DEF ToBackoff
    <3>2. ~ToLtemConnecting(l) BY <2>1, Zenon DEF ToLtemConnecting
    <3>3. ~ToNtnConnecting(l) BY <2>1, Zenon DEF ToNtnConnecting
    <3>4. QED BY <3>1, <3>2, <3>3
  <2>3. ~ToCloudConnecting BY <2>1, Zenon DEF ToCloudConnecting
  <2>4. ~ToGnssAcquire BY <2>1, Zenon DEF ToGnssAcquire
  <2>5. QED BY <2>2, <2>3, <2>4
<1>3. CASE Environment
  <2>1. CASE RsrpWork
    BY <2>1 DEF RsrpWork, RsrpMonitorWork, RsrpProbeWork
  <2>2. TimeoutFires => UNCHANGED rsrpMode BY DEF TimeoutFires, TimerFires
  <2>3. FixAges \/ NwRegStatus \/ NtnPdn => UNCHANGED rsrpMode
    BY DEF FixAges, NwRegStatus, NtnPdn, serviceVars
  <2>4. NtnLocationWork \/ SwitchWork \/ CloudCallback => UNCHANGED rsrpMode
    BY DEF NtnLocationWork, SwitchWork, CloudCallback, serviceVars
  <2>5. GnssWork \/ AgnssWork => UNCHANGED rsrpMode BY DEF GnssWork, AgnssWork
  <2>6. QED BY <1>3, <2>1, <2>2, <2>3, <2>4, <2>5 DEF Environment
<1>4. CASE ProbeLte
  <2>1. state = "NTN_CONNECTED" /\ \E l : EnterNtnConnected(l)
    BY <1>1, <1>2, <1>4 DEF ProbeLte
  <2>2. QED BY <2>1 DEF EnterNtnConnected
<1>5. CASE LtemPoor \/ StartCloud \/ StartGnss \/ NtnPdnUp \/ LinkLost \/ Drop
  BY <1>2, <1>5 DEF LtemPoor, AcquireFixForNtn, StartCloud, StartGnss, NtnPdnUp, LinkLost,
                    Drop, serviceVars
<1>6. CASE Boot \/ LtemRegistered \/ LtemRefused \/ CloudConnected \/ CloudFailed
           \/ CloudLostWhileConnecting
  BY <1>6 DEF Boot, LtemRegistered, LtemRefused, CloudConnected, CloudFailed,
              CloudLostWhileConnecting
<1>7. CASE GnssFixObtained \/ GnssGivenUp \/ GnssExtended \/ NtnAttached
           \/ NtnAttachFailed \/ BackoffExpired
  BY <1>7 DEF GnssFixObtained, GnssGivenUp, GnssExtended, NtnAttached, NtnAttachFailed,
              BackoffExpired
<1>8. CASE ProbeRejected \/ ProbeSampling \/ ProbeAccepted \/ ProbeLinkLost
  BY <1>8 DEF ProbeRejected, ProbeSampling, ProbeAccepted, ProbeLinkLost
<1>9. QED
  BY <1>3, <1>4, <1>5, <1>6, <1>7, <1>8 DEF Next, Dispatch

(* What RsrpMonitor assumes of its client (MayAsk): a monitor is stopped   *)
(* before anything else is started, and only a probe may be left to        *)
(* whoever comes next, be it another probe (the state machine's entry and  *)
(* exit functions, lte_probe_run).                                         *)
THEOREM MonitorsAreStopped == Spec => [][AskStep]_rsrpMode
<1>1. OwnedInv /\ TypeOK /\ [Next]_vars => [AskStep]_rsrpMode
  <2>1. SUFFICES ASSUME OwnedInv, TypeOK, Next, rsrpMode' \notin {"IDLE", rsrpMode}
                 PROVE  rsrpMode \in {"IDLE", "PROBE"}
    BY DEF AskStep, vars, serviceVars
  <2>2. CASE state \notin {"LTEM_CONNECTED", "NTN_CONNECTED"}
    BY <2>1, <2>2 DEF OwnedInv, ModesOf
  <2>3. CASE state = "NTN_CONNECTED" /\ rsrpMode' = "NTN_MONITOR"
    BY <2>1, <2>3 DEF OwnedInv, ModesOf
  <2>4. QED BY <2>1, <2>2, <2>3, StartsFrom
<1>2. QED BY <1>1, OwnedInvariant, TypeCorrect, PTL DEF Spec

-----------------------------------------------------------------------------
(***************************************************************************)
(* No state waits in vain.                                                 *)
(***************************************************************************)

(* The states that wait for EVT_TIMEOUT, and the events that end each.     *)
WaitingStates == {"BACKOFF", "NTN_CONNECTED", "NTN_CONNECTING", "GNSS_ACQUIRE"}

Answers(s, e) ==
    \/ e.type = "TIMEOUT"
    \/ s = "NTN_CONNECTING" /\ e.type = "MODEM_SWITCH_FAIL" /\ e.source_rat = "NTN"
    \/ s = "GNSS_ACQUIRE" /\ e.type = "GNSS_FIX"

Answered(s, q) == \E i \in 1..Len(q) : Answers(s, q[i])

(* NeverStranded, made inductive: a failed switch of the modem names no    *)
(* RAT and is dropped by ntn_connecting, so it does not count.             *)
WaitInv == state \in WaitingStates => armed \intersect TimersOf(state) # {} \/ Answered(state, queue)

(* Without loss a publication goes to the end of the queue, and answers    *)
(* that are queued stay.                                                   *)
LEMMA PutAppends ==
    ASSUME ~MayLose, NEW q, NEW e, NEW r \in Put(q, e)
    PROVE  r = Append(q, e)
  BY DEF Put

LEMMA AppendAnswered ==
    ASSUME NEW q \in Seq(Event), NEW e \in Event, NEW s
    PROVE  /\ Append(q, e) \in Seq(Event)
           /\ Answered(s, q) \/ Answers(s, e) => Answered(s, Append(q, e))
<1> DEFINE r == Append(q, e)
<1>1. /\ Len(q) \in Nat /\ Len(r) = Len(q) + 1 /\ r[Len(q) + 1] = e
      /\ \A i \in 1..Len(q) : r[i] = q[i]
      /\ r \in Seq(Event)
  OBVIOUS
<1> HIDE DEF r
<1>2. CASE Answered(s, q)
  <2>1. PICK i \in 1..Len(q) : Answers(s, q[i]) BY <1>2 DEF Answered
  <2>2. i \in 1..Len(r) /\ r[i] = q[i] BY <1>1, <2>1
  <2>3. Answered(s, r) BY <2>1, <2>2 DEF Answered
  <2>4. QED BY <1>1, <2>3 DEF r
<1>3. CASE Answers(s, e)
  <2>1. Len(q) + 1 \in 1..Len(r) BY <1>1
  <2>2. Answered(s, r) BY <1>1, <1>3, <2>1 DEF Answered
  <2>3. QED BY <1>1, <2>2 DEF r
<1>4. QED BY <1>1, <1>2, <1>3 DEF r

LEMMA PutAnswered ==
    ASSUME ~MayLose, NEW q \in Seq(Event), NEW e \in Event, NEW r \in Put(q, e), NEW s
    PROVE  r \in Seq(Event) /\ (Answered(s, q) \/ Answers(s, e) => Answered(s, r))
  BY PutAppends, AppendAnswered

LEMMA PutAllAnswered ==
    ASSUME ~MayLose, NEW q \in Seq(Event), NEW evs \in Seq(Event), NEW r \in PutAll(q, evs),
           NEW s, Answered(s, q)
    PROVE  Answered(s, r)
<1>1. CASE Len(evs) = 0
  BY <1>1 DEF PutAll
<1>2. CASE Len(evs) = 1
  <2>1. evs[1] \in Event /\ r \in Put(q, evs[1]) BY <1>2 DEF PutAll
  <2>2. QED BY <2>1, PutAnswered
<1>3. CASE Len(evs) \notin {0, 1}
  <2>1. evs[1] \in Event /\ evs[2] \in Event
    <3>1. Len(evs) \in Nat OBVIOUS
    <3>2. \A n \in Nat : n \notin {0, 1} => 1 \in 1..n /\ 2 \in 1..n OBVIOUS
    <3>3. 1 \in 1..Len(evs) /\ 2 \in 1..Len(evs) BY <1>3, <3>1, <3>2
    <3>4. QED BY <3>3
  <2>2. PICK p \in Put(q, evs[1]) : r \in Put(p, evs[2])
    BY <1>3 DEF PutAll
  <2>3. p \in Seq(Event) /\ Answered(s, p) BY <2>1, PutAnswered
  <2>4. QED BY <2>1, <2>2, <2>3, PutAnswered
<1>4. QED BY <1>1, <1>2, <1>3

(* Taking an event that is no answer leaves the answers.                   *)
LEMMA TailAnswered ==
    ASSUME NEW q \in Seq(Event), q # <<>>, NEW s, Answered(s, q), ~Answers(s, Head(q))
    PROVE  Answered(s, Tail(q))
<1>1. PICK i \in 1..Len(q) : Answers(s, q[i]) BY DEF Answered
<1>2. Head(q) = q[1] /\ Len(q) \in Nat /\ Len(Tail(q)) = Len(q) - 1
      /\ \A j \in 1..(Len(q) - 1) : Tail(q)[j] = q[j + 1]
  OBVIOUS
<1>3. i # 1 BY <1>1, <1>2
<1>4. i - 1 \in 1..(Len(q) - 1) /\ (i - 1) + 1 = i BY <1>2, <1>3
<1>5. Tail(q)[i - 1] = q[i] BY <1>2, <1>4
<1>6. QED BY <1>1, <1>2, <1>4, <1>5 DEF Answered

(* What is published while an event is handled, or by another context, is  *)
(* queued.                                                                 *)
LEMMA PublishedAnswered ==
    ASSUME ~MayLose, TypeOK, NEW e \in Event, NEW s,
           \/ queue # <<>> /\ ConsumeAndPublish(e) /\ Answers(s, e)
           \/ Publish(e) /\ (Answered(s, queue) \/ Answers(s, e))
    PROVE  Answered(s, queue')
<1>1. queue \in Seq(Event) BY DEF TypeOK, EventBusTypeOK
<1>2. CASE queue # <<>> /\ ConsumeAndPublish(e) /\ Answers(s, e)
  <2>1. Tail(queue) \in Seq(Event) BY <1>1, <1>2
  <2>2. QED BY <1>2, <2>1, PutAnswered DEF ConsumeAndPublish
<1>3. CASE Publish(e) /\ (Answered(s, queue) \/ Answers(s, e))
  BY <1>1, <1>3, PutAnswered DEF Publish
<1>4. QED BY <1>2, <1>3

(* The entry functions of the waiting states arm their timer or publish    *)
(* what ends them.                                                         *)
LEMMA BackoffWaits ==
    ASSUME NEW l, ToBackoff(l)
    PROVE  WaitInv'
<1>1. state' = "BACKOFF" /\ "backoff" \in armed' BY DEF ToBackoff, Leave, Transition
<1>2. "backoff" \in TimersOf(state') BY <1>1 DEF TimersOf
<1>3. QED BY <1>1, <1>2 DEF WaitInv, TimersOf

LEMMA NtnConnectedWaits ==
    ASSUME NEW l, EnterNtnConnected(l)
    PROVE  WaitInv'
<1>1. state' = "NTN_CONNECTED" /\ "ntn_probe" \in armed' BY DEF EnterNtnConnected, Leave, Transition
<1>2. QED BY <1>1 DEF WaitInv, TimersOf

LEMMA NtnConnectingWaits ==
    ASSUME ~MayLose, TypeOK, queue # <<>>, NEW l, ToNtnConnecting(l)
    PROVE  WaitInv'
<1> DEFINE e == Ev("MODEM_SWITCH_FAIL", "NTN")
<1>1. /\ state' = "NTN_CONNECTING"
      /\ "ntn_connect" \in armed' \/ ConsumeAndPublish(e)
  BY DEF ToNtnConnecting, Leave, Transition
<1>2. CASE "ntn_connect" \in armed' BY <1>1, <1>2 DEF WaitInv, TimersOf
<1>3. CASE ConsumeAndPublish(e)
  <2>1. e \in Event BY EventTypes DEF EventType, SourceRat, Rat
  <2>2. Answers("NTN_CONNECTING", e) BY DEF Answers, Ev
  <2>3. Answered("NTN_CONNECTING", queue') BY <1>3, <2>1, <2>2, PublishedAnswered
  <2>4. QED BY <1>1, <2>3 DEF WaitInv
<1>4. QED BY <1>1, <1>2, <1>3

LEMMA GnssAcquireWaits ==
    ASSUME ~MayLose, TypeOK, ReceiverInv, state # "GNSS_ACQUIRE", queue # <<>>, ToGnssAcquire
    PROVE  WaitInv'
<1>1. ~gnss.running /\ gnss \in GnssFlags BY DEF ReceiverInv, TypeOK
<1>2. \A o \in GnssStandaloneOutcomes \union GnssAssistedOutcomes : o.expiring \/ o.failed
  BY <1>1
     DEF GnssStandaloneOutcomes, GnssAssistedOutcomes, GnssSearchOutcomes, GnssStarted,
         GnssFailed, GnssRefused, GnssFlags
<1>3. PICK o \in GnssStandaloneOutcomes \union GnssAssistedOutcomes :
         /\ Transition("GNSS_ACQUIRE", link, IF o.expiring THEN {"gnss"} ELSE {})
         /\ o.failed => ConsumeAndPublish(TimeoutEv)
  BY DEF ToGnssAcquire
<1>4. state' = "GNSS_ACQUIRE" BY <1>3 DEF Transition
<1>5. CASE o.expiring
  <2>1. "gnss" \in armed' BY <1>3, <1>5 DEF Transition
  <2>2. QED BY <1>4, <2>1 DEF WaitInv, TimersOf
<1>6. CASE o.failed
  <2>1. TimeoutEv \in Event BY EventTypes
  <2>2. Answers("GNSS_ACQUIRE", TimeoutEv) BY DEF Answers, TimeoutEv, PlainEv, Ev
  <2>3. Answered("GNSS_ACQUIRE", queue') BY <1>3, <1>6, <2>1, <2>2, PublishedAnswered
  <2>4. QED BY <1>4, <2>3 DEF WaitInv
<1>7. QED BY <1>2, <1>5, <1>6

(* Other contexts leave the state, its timers and the answers alone, but   *)
(* for a timer that fires and a fix, which are answers themselves.         *)
LEMMA EnvironmentWaits ==
    ASSUME ~MayLose, TypeOK, ReceiverInv, WaitInv, Environment
    PROVE  WaitInv'
<1>0. queue \in Seq(Event) BY DEF TypeOK, EventBusTypeOK
<1>a. ASSUME UNCHANGED state, armed \subseteq armed',
             Answered(state, queue) => Answered(state, queue')
      PROVE  WaitInv'
  BY <1>a DEF WaitInv
<1>1. CASE TimeoutFires
  <2>1. PICK t \in Timer : TimerFires(t) BY <1>1 DEF TimeoutFires
  <2>2. TimeoutEv \in Event BY EventTypes
  <2>3. Answers(state, TimeoutEv) BY DEF Answers, TimeoutEv, PlainEv, Ev
  <2>4. Answered(state, queue') BY <2>1, <2>2, <2>3, PublishedAnswered DEF TimerFires
  <2>5. state' = state BY <2>1 DEF TimerFires, ctxVars
  <2>6. QED BY <2>4, <2>5 DEF WaitInv
<1>2. CASE NwRegStatus
  <2>1. UNCHANGED <<state, armed>> BY <1>2 DEF NwRegStatus, ctxVars, gnssVars
  <2>2. Answered(state, queue) => Answered(state, queue')
    BY <1>0, <1>2, ReportedEvents, PutAllAnswered
  <2>3. QED BY <1>a, <2>1, <2>2
<1>3. CASE NtnPdn \/ NtnLocationWork \/ SwitchWork \/ CloudCallback \/ RsrpWork
  <2>1. UNCHANGED <<state, armed>>
    BY <1>3 DEF NtnPdn, NtnLocationWork, SwitchWork, CloudCallback, RsrpWork, ctxVars,
                serviceVars, gnssVars
  <2>2. \E e \in Event : Publish(e)
    <3>1. CASE NtnPdn
      <4>1. PICK up \in BOOLEAN : Publish(Ev(IF up THEN "PDN_UP" ELSE "PDN_DOWN", "NTN"))
        BY <3>1 DEF NtnPdn, NtnPdnReport
      <4>2. Ev(IF up THEN "PDN_UP" ELSE "PDN_DOWN", "NTN") \in Event
        BY EventTypes DEF EventType, SourceRat, Rat
      <4>3. QED BY <4>1, <4>2
    <3>2. CASE NtnLocationWork
      <4>1. Ev("MODEM_SWITCH_FAIL", "NTN") \in Event
        BY EventTypes DEF EventType, SourceRat, Rat
      <4>2. QED BY <3>2, <4>1 DEF NtnLocationWork, NtnLocationFails
    <3>3. CASE SwitchWork
      <4>1. PICK o \in SwitchOutcomes : Publish(o.ev) BY <3>3 DEF SwitchWork, ModemSwitchWork
      <4>2. o.ev \in Event
        <5>1. \A type \in {"MODEM_SWITCH_CMD_OK", "MODEM_SWITCH_FAIL"} :
                 Ev(type, "UNKNOWN") \in Event
          BY EventTypes DEF EventType, SourceRat
        <5>2. QED BY <5>1 DEF SwitchOutcomes
      <4>3. QED BY <4>1, <4>2
    <3>4. CASE CloudCallback
      <4>1. \A type \in {"CLOUD_OK", "CLOUD_DISCONNECTED", "CLOUD_FAIL"} : PlainEv(type) \in Event
        BY EventTypes DEF EventType
      <4>2. QED
        BY <3>4, <4>1 DEF CloudCallback, CloudReady, CloudTransportDisconnected, CloudError
    <3>5. CASE RsrpWork
      <4>1. \A type \in {"LTE_POOR", "LTE_GOOD"} : PlainEv(type) \in Event
        BY EventTypes DEF EventType
      <4>2. QED BY <3>5, <4>1 DEF RsrpWork, RsrpMonitorWork, RsrpProbeWork
    <3>6. QED BY <1>3, <3>1, <3>2, <3>3, <3>4, <3>5
  <2>3. PICK e \in Event : Publish(e) BY <2>2
  <2>4. Answered(state, queue) => Answered(state, queue') BY <2>3, PublishedAnswered
  <2>5. QED BY <1>a, <2>1, <2>4
<1>4. CASE GnssWork
  <2>1. state' = state BY <1>4 DEF GnssWork, ctxVars
  <2>2. CASE GnssFix
    <3>1. gnss.running /\ Publish(PlainEv("GNSS_FIX")) BY <2>2 DEF GnssFix
    <3>2. state = "GNSS_ACQUIRE" BY <3>1 DEF ReceiverInv
    <3>3. PlainEv("GNSS_FIX") \in Event BY EventTypes DEF EventType
    <3>4. Answers(state, PlainEv("GNSS_FIX")) BY <3>2 DEF Answers, PlainEv, Ev
    <3>5. Answered(state, queue') BY <3>1, <3>3, <3>4, PublishedAnswered
    <3>6. QED BY <2>1, <3>5 DEF WaitInv
  <2>3. CASE GnssReadError
    <3>1. Publish(TimeoutEv) /\ armed' = armed BY <2>3 DEF GnssReadError, gnssVars
    <3>2. TimeoutEv \in Event BY EventTypes
    <3>3. Answered(state, queue) => Answered(state, queue')
      BY <3>1, <3>2, PublishedAnswered
    <3>4. QED BY <1>a, <2>1, <3>1, <3>3
  <2>4. QED BY <1>4, <2>2, <2>3 DEF GnssWork
<1>5. CASE AgnssWork
  <2>1. UNCHANGED <<queue, state>> /\ armed \subseteq armed'
    BY <1>5 DEF AgnssWork, AgnssReady, AgnssFallback, ctxVars
  <2>2. QED BY <1>a, <2>1
<1>6. CASE FixAges
  BY <1>a, <1>6 DEF FixAges, serviceVars, gnssVars
<1>7. QED BY <1>1, <1>2, <1>3, <1>4, <1>5, <1>6 DEF Environment

(* A waiting state is left by what answers it or stays with its timer.     *)
LEMMA WaitStep ==
    ASSUME ~MayLose, TypeOK, ReceiverInv, WaitInv, [Next]_vars
    PROVE  WaitInv'
<1>0. ASSUME NEW l, NEW done,
             ToLtemConnecting(l) \/ ToLtemConnected(l, done) \/ ToCloudConnecting
      PROVE  WaitInv'
  BY <1>0 DEF ToLtemConnecting, ToLtemConnected, ToCloudConnecting, Leave, Transition, WaitInv,
              WaitingStates
<1>1. CASE Boot BY <1>0, <1>1 DEF Boot
<1>2. CASE LtemRegistered \/ LtemRefused
  BY <1>0, <1>2, BackoffWaits DEF LtemRegistered, LtemRefused
<1>3. CASE LtemPoor
  BY <1>3, GnssAcquireWaits, BackoffWaits DEF LtemPoor, AcquireFixForNtn, Handling
<1>4. CASE StartCloud \/ StartGnss
  BY <1>0, <1>4, GnssAcquireWaits DEF StartCloud, StartGnss, Handling
<1>5. CASE CloudConnected \/ CloudFailed \/ CloudLostWhileConnecting
  BY <1>0, <1>5, BackoffWaits DEF CloudConnected, CloudFailed, CloudLostWhileConnecting
<1>6. CASE GnssFixObtained
  BY <1>0, <1>6, NtnConnectingWaits DEF GnssFixObtained, Handling
<1>7. CASE GnssGivenUp BY <1>0, <1>7, BackoffWaits DEF GnssGivenUp
<1>8. CASE GnssExtended
  <2>1. state' = "GNSS_ACQUIRE" /\ "gnss" \in armed' BY <1>8 DEF GnssExtended
  <2>2. QED BY <2>1 DEF WaitInv, TimersOf
<1>9. CASE NtnAttached BY <1>9, NtnConnectedWaits DEF NtnAttached, ToNtnConnected
<1>10. CASE NtnAttachFailed BY <1>10, BackoffWaits DEF NtnAttachFailed
<1>11. CASE ProbeLte
  <2>1. CASE state' = "LTE_PROBE" BY <2>1 DEF WaitInv, WaitingStates
  <2>2. CASE ToNtnConnecting(link) BY <1>11, <2>2, NtnConnectingWaits DEF ProbeLte, Handling
  <2>3. CASE EnterNtnConnected([link EXCEPT !.rat = "NTN"]) BY <2>3, NtnConnectedWaits
  <2>4. QED BY <1>11, <2>1, <2>2, <2>3 DEF ProbeLte, Transition
<1>12. CASE NtnPdnUp \/ Drop
  <2>1. /\ queue \in Seq(Event) /\ queue # <<>> /\ queue' = Tail(queue)
        /\ UNCHANGED <<state, armed>>
    BY <1>12 DEF NtnPdnUp, Drop, Handling, Consume, TypeOK, EventBusTypeOK, serviceVars, gnssVars
  <2>2. state \in WaitingStates => ~Answers(state, Head(queue))
    BY <1>12, <2>1 DEF NtnPdnUp, Drop, Reacts, Handling, FromRat, Answers, WaitingStates
  <2>3. state \in WaitingStates /\ Answered(state, queue) => Answered(state, queue')
    BY <2>1, <2>2, TailAnswered
  <2>4. QED BY <2>1, <2>3 DEF WaitInv
<1>13. ASSUME ReturnToNtn, queue # <<>> PROVE WaitInv'
  BY <1>13, NtnConnectedWaits, NtnConnectingWaits DEF ReturnToNtn, ToNtnConnected
<1>14. CASE ProbeRejected BY <1>13, <1>14 DEF ProbeRejected, Handling
<1>15. CASE ProbeSampling
  <2>1. CASE ReturnToNtn BY <1>13, <1>15, <2>1 DEF ProbeSampling, Handling
  <2>2. CASE state' = "LTE_PROBE" BY <2>2 DEF WaitInv, WaitingStates
  <2>3. QED BY <1>15, <2>1, <2>2 DEF ProbeSampling, ctxVars
<1>16. CASE ProbeAccepted \/ ProbeLinkLost
  BY <1>0, <1>16 DEF ProbeAccepted, ProbeLinkLost, LeaveProbeForLtem
<1>17. CASE BackoffExpired
  BY <1>0, <1>17, GnssAcquireWaits, NtnConnectingWaits
     DEF BackoffExpired, AcquireFixForNtn, Handling
<1>18. CASE LinkLost BY <1>18, BackoffWaits DEF LinkLost
<1>19. CASE Environment BY <1>19, EnvironmentWaits
<1>20. CASE UNCHANGED vars
  BY <1>20 DEF vars, ctxVars, serviceVars, gnssVars, WaitInv
<1>21. QED
  BY <1>1, <1>2, <1>3, <1>4, <1>5, <1>6, <1>7, <1>8, <1>9, <1>10, <1>11, <1>12, <1>14,
     <1>15, <1>16, <1>17, <1>18, <1>19, <1>20
     DEF Next, Dispatch

(* NeverStranded: a state that waits for EVT_TIMEOUT has its timer running *)
(* or the event under way, whatever calls fail, provided that no event is  *)
(* lost and GNSS can be stopped.                                           *)
THEOREM NothingStranded ==
    ASSUME ~MayLose, GnssStops
    PROVE  Spec => []NeverStranded
<1>1. Init => WaitInv
  BY DEF Init, WaitInv, WaitingStates
<1>2. TypeOK /\ ReceiverInv /\ WaitInv /\ [Next]_vars => WaitInv'
  BY WaitStep
<1>3. WaitInv => NeverStranded
  <2> SUFFICES ASSUME WaitInv PROVE NeverStranded
    OBVIOUS
  <2>1. ASSUME NEW s, Answered(s, queue)
        PROVE  \/ Queued("TIMEOUT")
               \/ s = "NTN_CONNECTING" /\ Queued("MODEM_SWITCH_FAIL")
               \/ s = "GNSS_ACQUIRE" /\ Queued("GNSS_FIX")
    BY <2>1 DEF Answered, Answers, Queued
  <2>2. QED BY <2>1 DEF WaitInv, WaitingStates, TimersOf, NeverStranded
<1>4. QED BY <1>1, <1>2, <1>3, TypeCorrect, ReceiverInvariant, PTL DEF Spec
=============================================================================
