---------------------------- MODULE AppSmProofs ----------------------------
(***************************************************************************)
(* Safety of AppSm and its implementation of RatFallback, for every pool   *)
(* size, retry limit and set of faults, with or without loss of events.    *)
(* Each proof has one step per handler, or group of handlers that enter    *)
(* the same states, and one for the other contexts.                        *)
(***************************************************************************)
EXTENDS AppSmTypeProofs

(* No handler enters or stays in an NTN state without both, and no other   *)
(* context takes either away: only AcquireFixForNtn drops the fix, and     *)
(* only NtnStop the context, each on the way out of NTN.                   *)
LEMMA PositionStep ==
    ASSUME NtnPositionAvailable, [Next]_vars
    PROVE  NtnPositionAvailable'
<1> USE DEF NtnPositionAvailable, NtnStates, HaveFix
<1>1. CASE Boot
  BY <1>1 DEF Boot, ToLtemConnecting, Leave, Transition
<1>2. CASE LtemRegistered \/ LtemRefused
  BY <1>2 DEF LtemRegistered, LtemRefused, ToLtemConnected, ToBackoff, Leave, Transition
<1>3. CASE LtemPoor \/ StartCloud \/ StartGnss
  BY <1>3
     DEF LtemPoor, StartCloud, StartGnss, AcquireFixForNtn, ToGnssAcquire,
         ToCloudConnecting, ToBackoff, Leave, Transition
<1>4. CASE CloudConnected \/ CloudFailed \/ CloudLostWhileConnecting
  BY <1>4
     DEF CloudConnected, CloudFailed, CloudLostWhileConnecting, ToLtemConnected,
         ToBackoff, Leave, Transition
<1>5. CASE GnssFixObtained
  BY <1>5 DEF GnssFixObtained, ToNtnConnecting, ToLtemConnected, Leave, Transition
<1>6. CASE GnssGivenUp \/ GnssExtended
  BY <1>6 DEF GnssGivenUp, GnssExtended, ToLtemConnected, ToBackoff, Leave, Transition
<1>7. CASE NtnAttached
  BY <1>7 DEF NtnAttached, ToNtnConnected, EnterNtnConnected, Leave, Transition
<1>8. CASE NtnAttachFailed
  BY <1>8 DEF NtnAttachFailed, ToBackoff, Leave, Transition
<1>9. CASE ProbeLte
  <2>1. activeCtx /\ fix # "none" /\ fix' = fix
    BY <1>9 DEF ProbeLte
  <2>2. activeCtx' = activeCtx \/ ToNtnConnecting(link)
    BY <1>9 DEF ProbeLte
  <2>3. QED
    BY <2>1, <2>2 DEF ToNtnConnecting
<1>10. CASE NtnPdnUp
  BY <1>10 DEF NtnPdnUp, serviceVars
<1>18. ASSUME state = "LTE_PROBE", ReturnToNtn PROVE NtnPositionAvailable'
  <2>1. activeCtx /\ fix # "none" /\ fix' = fix
    BY <1>18 DEF ReturnToNtn
  <2>2. activeCtx' = activeCtx \/ ToNtnConnecting(link)
    BY <1>18 DEF ReturnToNtn
  <2>3. QED
    BY <2>1, <2>2 DEF ToNtnConnecting
<1>11. CASE ProbeRejected
  BY <1>18, <1>11 DEF ProbeRejected
<1>12. CASE ProbeSampling
  <2>1. CASE ReturnToNtn
    BY <1>18, <1>12, <2>1 DEF ProbeSampling
  <2>2. CASE UNCHANGED <<ctxVars, activeCtx>>
    BY <2>2 DEF ctxVars
  <2>3. QED
    BY <1>12, <2>1, <2>2 DEF ProbeSampling
<1>13. CASE ProbeAccepted \/ ProbeLinkLost
  BY <1>13
     DEF ProbeAccepted, ProbeLinkLost, LeaveProbeForLtem, ToLtemConnecting,
         ToLtemConnected, Leave, Transition
<1>14. CASE BackoffExpired
  BY <1>14
     DEF BackoffExpired, FreshFix, AcquireFixForNtn, ToGnssAcquire, ToNtnConnecting,
         ToLtemConnecting, Leave, Transition
<1>15. CASE LinkLost \/ Drop
  BY <1>15 DEF LinkLost, Drop, ToBackoff, Leave, Transition, serviceVars
<1>16. CASE Environment
  BY <1>16
     DEF Environment, TimeoutFires, TimerFires, NwRegStatus, NtnPdn, NtnLocationWork,
         SwitchWork, CloudCallback, GnssWork, AgnssWork, RsrpWork, FixAges, ctxVars,
         serviceVars
<1>17. CASE UNCHANGED vars
  BY <1>17 DEF vars, ctxVars, serviceVars
<1>19. QED
  BY <1>1, <1>2, <1>3, <1>4, <1>5, <1>6, <1>7, <1>8, <1>9, <1>10, <1>11, <1>12, <1>13,
     <1>14, <1>15, <1>16, <1>17
     DEF Next, Dispatch

(* NtnPositionAvailable is inductive as it stands: from the NTN attach     *)
(* until NTN is left, ntn_service.c has a context and the context a fix.   *)
THEOREM PositionInvariant == Spec => []NtnPositionAvailable
<1>1. Init => NtnPositionAvailable
  BY DEF Init, NtnPositionAvailable, NtnStates
<1>2. NtnPositionAvailable /\ [Next]_vars => NtnPositionAvailable'
  BY PositionStep
<1>3. QED
  BY <1>1, <1>2, PTL DEF Spec

-----------------------------------------------------------------------------
(* LtemLossIsHeard, made inductive: the turn is LTE-M's from boot to the   *)
(* end of the LTE-M service chain, searches for a position included.       *)
PlanInv ==
    /\ nextRat \in Rat
    /\ state \in LtemStates \union {"BOOT", "LTEM_CONNECTING"} => nextRat = "LTEM"
    /\ state = "GNSS_ACQUIRE" /\ gnssGoal # "REQUIRED_FOR_NTN" => nextRat = "LTEM"

(* A search keeps LTE-M's turn unless NTN asked for it, so the turn        *)
(* survives the whole cloud and GNSS chain.                                *)
LEMMA PlanStep ==
    ASSUME PlanInv, [Next]_vars
    PROVE  PlanInv'
<1> USE DEF PlanInv, LtemStates, Rat, planVars, goalVars
<1>1. CASE Boot
  BY <1>1 DEF Boot, ToLtemConnecting, Leave, Transition
<1>2. CASE LtemRegistered \/ LtemRefused
  BY <1>2 DEF LtemRegistered, LtemRefused, ToLtemConnected, ToBackoff, Leave, Transition
<1>3. CASE LtemPoor
  BY <1>3 DEF LtemPoor, AcquireFixForNtn, ToGnssAcquire, ToBackoff, Leave, Transition
<1>4. CASE StartCloud \/ StartGnss
  BY <1>4 DEF StartCloud, StartGnss, ToGnssAcquire, ToCloudConnecting, Leave, Transition
<1>5. CASE CloudConnected \/ CloudFailed \/ CloudLostWhileConnecting
  BY <1>5
     DEF CloudConnected, CloudFailed, CloudLostWhileConnecting, ToLtemConnected,
         ToBackoff, Leave, Transition
<1>6. CASE GnssFixObtained
  BY <1>6
     DEF GnssFixObtained, GnssSearchDone, ToNtnConnecting, ToLtemConnected, Leave, Transition
<1>7. CASE GnssGivenUp \/ GnssExtended
  BY <1>7
     DEF GnssGivenUp, GnssExtended, GnssSearchDone, ToLtemConnected, ToBackoff,
         Leave, Transition
<1>8. CASE NtnAttached
  BY <1>8 DEF NtnAttached, ToNtnConnected, EnterNtnConnected, Leave, Transition
<1>9. CASE NtnAttachFailed
  BY <1>9 DEF NtnAttachFailed, NtnRetry, ToBackoff, Leave, Transition
<1>10. CASE ProbeLte
  BY <1>10 DEF ProbeLte, ToNtnConnecting, EnterNtnConnected, Leave, Transition
<1>11. CASE NtnPdnUp
  BY <1>11 DEF NtnPdnUp
<1>12. ASSUME state = "LTE_PROBE", ReturnToNtn PROVE PlanInv'
  BY <1>12
     DEF ReturnToNtn, ToNtnConnecting, ToNtnConnected, EnterNtnConnected, Leave, Transition
<1>13. CASE ProbeRejected \/ ProbeSampling
  BY <1>12, <1>13 DEF ProbeRejected, ProbeSampling, ctxVars
<1>14. CASE ProbeAccepted \/ ProbeLinkLost
  BY <1>14
     DEF ProbeAccepted, ProbeLinkLost, LeaveProbeForLtem, ToLtemConnecting,
         ToLtemConnected, Leave, Transition
<1>15. CASE BackoffExpired
  BY <1>15
     DEF BackoffExpired, AcquireFixForNtn, ToGnssAcquire, ToNtnConnecting,
         ToLtemConnecting, Leave, Transition
<1>16. CASE LinkLost \/ Drop
  BY <1>16 DEF LinkLost, Drop, ToBackoff, Leave, Transition
<1>17. CASE Environment
  <2>1. UNCHANGED <<state, nextRat, gnssGoal>>
    <3>1. CASE FixAges
      BY <3>1 DEF FixAges
    <3>2. CASE TimeoutFires
      BY <3>2 DEF TimeoutFires, TimerFires, ctxVars
    <3>3. CASE NwRegStatus \/ NtnPdn
      BY <3>3 DEF NwRegStatus, NtnPdn, ctxVars
    <3>4. CASE NtnLocationWork \/ SwitchWork \/ CloudCallback
      BY <3>4 DEF NtnLocationWork, SwitchWork, CloudCallback, ctxVars
    <3>5. CASE GnssWork \/ AgnssWork \/ RsrpWork
      BY <3>5 DEF GnssWork, AgnssWork, RsrpWork, ctxVars
    <3>6. QED
      BY <1>17, <3>1, <3>2, <3>3, <3>4, <3>5 DEF Environment
  <2>2. QED
    BY <2>1
<1>18. CASE UNCHANGED vars
  BY <1>18 DEF vars, ctxVars
<1>19. QED
  BY <1>1, <1>2, <1>3, <1>4, <1>5, <1>6, <1>7, <1>8, <1>9, <1>10, <1>11, <1>13, <1>14,
     <1>15, <1>16, <1>17, <1>18
     DEF Next, Dispatch

(* PlanInv is an invariant.                                                *)
THEOREM PlanInvariant == Spec => []PlanInv
<1>1. Init => PlanInv
  BY DEF Init, PlanInv, LtemStates, Rat
<1>2. PlanInv /\ [Next]_vars => PlanInv'
  BY PlanStep
<1>3. QED
  BY <1>1, <1>2, PTL DEF Spec

(* LtemLossIsHeard: while LTE-M is set up or serves, next_rat is LTE-M, so *)
(* connected_run() never takes a real loss of LTE-M for the teardown of a  *)
(* hand-over.                                                              *)
THEOREM LossHeard == Spec => []LtemLossIsHeard
<1>1. PlanInv => LtemLossIsHeard
  BY DEF PlanInv, LtemLossIsHeard
<1>2. QED
  BY <1>1, PlanInvariant, PTL

-----------------------------------------------------------------------------
(* active_rat is the RAT that serves.                                      *)
RatInv ==
    /\ state \in LtemStates => link.rat = "LTEM"
    /\ state \in {"NTN_CONNECTED", "LTE_PROBE"} => link.rat = "NTN"

(* Only ltem_connected_entry() and the ways into ntn_connected change      *)
(* active_rat.                                                             *)
LEMMA RatStep ==
    ASSUME RatInv, TypeOK, [Next]_vars
    PROVE  RatInv'
<1> USE DEF RatInv, LtemStates, Link, LinkOnEntry
<1>0. link \in Link
  BY DEF TypeOK
<1>1. CASE Boot
  BY <1>1 DEF Boot, ToLtemConnecting, Leave, Transition
<1>2. CASE LtemRegistered \/ LtemRefused
  BY <1>0, <1>2 DEF LtemRegistered, LtemRefused, ToLtemConnected, ToBackoff, Leave, Transition
<1>3. CASE LtemPoor
  BY <1>0, <1>3 DEF LtemPoor, AcquireFixForNtn, ToGnssAcquire, ToBackoff, Leave, Transition
<1>4. CASE StartCloud \/ StartGnss
  BY <1>0, <1>4
     DEF StartCloud, StartGnss, ToGnssAcquire, ToCloudConnecting, Leave, Transition,
         EntersDisconnected, DisconnectedStates
<1>5. CASE CloudConnected \/ CloudFailed \/ CloudLostWhileConnecting
  BY <1>0, <1>5
     DEF CloudConnected, CloudFailed, CloudLostWhileConnecting, ToLtemConnected,
         ToBackoff, Leave, Transition
<1>6. CASE GnssFixObtained
  BY <1>0, <1>6 DEF GnssFixObtained, ToNtnConnecting, ToLtemConnected, Leave, Transition
<1>7. CASE GnssGivenUp \/ GnssExtended
  BY <1>0, <1>7 DEF GnssGivenUp, GnssExtended, ToLtemConnected, ToBackoff, Leave, Transition
<1>8. CASE NtnAttached
  BY <1>0, <1>8
     DEF NtnAttached, ToNtnConnected, EnterNtnConnected, Leave, Transition,
         EntersDisconnected, DisconnectedStates
<1>9. CASE NtnAttachFailed
  BY <1>9 DEF NtnAttachFailed, ToBackoff, Leave, Transition
<1>10. CASE ProbeLte
  BY <1>0, <1>10
     DEF ProbeLte, ToNtnConnecting, EnterNtnConnected, Leave, Transition, EntersDisconnected,
         DisconnectedStates
<1>11. CASE NtnPdnUp
  BY <1>0, <1>11 DEF NtnPdnUp
<1>12. ASSUME state = "LTE_PROBE", ReturnToNtn PROVE RatInv'
  BY <1>0, <1>12
     DEF ReturnToNtn, ToNtnConnecting, ToNtnConnected, EnterNtnConnected, Leave, Transition,
         EntersDisconnected, DisconnectedStates
<1>13. CASE ProbeRejected \/ ProbeSampling
  BY <1>12, <1>13 DEF ProbeRejected, ProbeSampling, ctxVars
<1>14. CASE ProbeAccepted \/ ProbeLinkLost
  BY <1>0, <1>14
     DEF ProbeAccepted, ProbeLinkLost, LeaveProbeForLtem, ToLtemConnecting,
         ToLtemConnected, Leave, Transition
<1>15. CASE BackoffExpired
  BY <1>15
     DEF BackoffExpired, AcquireFixForNtn, ToGnssAcquire, ToNtnConnecting,
         ToLtemConnecting, Leave, Transition
<1>16. CASE LinkLost \/ Drop
  BY <1>0, <1>16 DEF LinkLost, Drop, ToBackoff, Leave, Transition
<1>17. CASE Environment
  <2>1. UNCHANGED <<state, link>>
    <3>1. CASE FixAges
      BY <3>1 DEF FixAges
    <3>2. CASE TimeoutFires
      BY <3>2 DEF TimeoutFires, TimerFires, ctxVars
    <3>3. CASE NwRegStatus \/ NtnPdn
      BY <3>3 DEF NwRegStatus, NtnPdn, ctxVars
    <3>4. CASE NtnLocationWork \/ SwitchWork \/ CloudCallback
      BY <3>4 DEF NtnLocationWork, SwitchWork, CloudCallback, ctxVars
    <3>5. CASE GnssWork \/ AgnssWork \/ RsrpWork
      BY <3>5 DEF GnssWork, AgnssWork, RsrpWork, ctxVars
    <3>6. QED
      BY <1>17, <3>1, <3>2, <3>3, <3>4, <3>5 DEF Environment
  <2>2. QED
    BY <2>1
<1>18. CASE UNCHANGED vars
  BY <1>18 DEF vars, ctxVars
<1>19. QED
  BY <1>1, <1>2, <1>3, <1>4, <1>5, <1>6, <1>7, <1>8, <1>9, <1>10, <1>11, <1>13, <1>14,
     <1>15, <1>16, <1>17, <1>18
     DEF Next, Dispatch

(* RatInv is an invariant.                                                 *)
THEOREM RatInvariant == Spec => []RatInv
<1>1. Init => RatInv
  BY DEF Init, RatInv, LtemStates
<1>2. RatInv /\ TypeOK /\ [Next]_vars => RatInv'
  BY RatStep
<1>3. QED
  BY <1>1, <1>2, TypeCorrect, PTL DEF Spec

-----------------------------------------------------------------------------
(* Every handler takes one step of RatFallback or stutters; the other      *)
(* contexts stutter.                                                       *)
LEMMA FallbackStep ==
    ASSUME TypeOK, PlanInv, RatInv, [Next]_vars
    PROVE  [Fallback!Next]_(Fallback!fallbackVars)
<1> USE DEF PlanInv, RatInv, LtemStates, Rat, planVars, HaveFix, PhaseOf,
            Fallback!fallbackVars, Fallback!Next, Fallback!Go
<1>0. state \in AppState /\ ntnAttempts \in 0..(MaxNtnRetries - 1)
  BY DEF TypeOK
<1>1. CASE Boot
  BY <1>1 DEF Boot, ToLtemConnecting, Leave, Transition, Fallback!AttachLtem
<1>2. CASE LtemRegistered
  BY <1>2 DEF LtemRegistered, ToLtemConnected, Leave, Transition, Fallback!LtemAttached
<1>3. CASE LtemRefused
  BY <1>3 DEF LtemRefused, ToBackoff, Leave, Transition, Fallback!LtemFails
<1>4. CASE LtemPoor
  BY <1>4
     DEF LtemPoor, AcquireFixForNtn, ToGnssAcquire, ToBackoff, Leave, Transition,
         Fallback!LtemLost, Fallback!LtemDegrades
<1>5. CASE StartCloud \/ CloudConnected \/ CloudLostWhileConnecting
  <2>1. /\ UNCHANGED <<nextRat, ntnAttempts, fix>>
        /\ state \in LtemStates /\ state' \in LtemStates
    BY <1>5 DEF StartCloud, CloudConnected, CloudLostWhileConnecting, ToCloudConnecting,
                ToLtemConnected, Leave, Transition
  <2>2. QED
    BY <2>1
<1>6. CASE StartGnss
  BY <1>6 DEF StartGnss, ToGnssAcquire, Leave, Transition, Fallback!Locate
<1>7. CASE CloudFailed
  BY <1>7 DEF CloudFailed, ToBackoff, Leave, Transition, Fallback!LtemUseless
<1>8. CASE GnssFixObtained
  BY <1>8
     DEF GnssFixObtained, GnssSearchDone, ToNtnConnecting, ToLtemConnected,
         Leave, Transition, Fallback!Located
<1>9. CASE GnssGivenUp
  BY <1>9
     DEF GnssGivenUp, GnssSearchDone, ToLtemConnected, ToBackoff, Leave, Transition,
         Fallback!NotLocated
<1>10. CASE GnssExtended
  BY <1>10 DEF GnssExtended
<1>11. CASE NtnAttached
  BY <1>11
     DEF NtnAttached, ToNtnConnected, EnterNtnConnected, Leave, Transition,
         Fallback!NtnAttached
<1>12. CASE NtnAttachFailed
  <2>1. /\ state = "NTN_CONNECTING" /\ state' = "BACKOFF"
        /\ NtnRetry /\ UNCHANGED fix
    BY <1>12 DEF NtnAttachFailed, ToBackoff, Leave, Transition
  <2>2. CASE ntnAttempts + 1 >= MaxNtnRetries
    <3>1. ntnAttempts + 1 = MaxNtnRetries
      BY <1>0, <2>2, MaxNtnRetriesAssumption
    <3>2. QED
      BY <2>1, <2>2, <3>1 DEF NtnRetry, Fallback!NtnExhausted
  <2>3. CASE ~(ntnAttempts + 1 >= MaxNtnRetries)
    <3>1. ntnAttempts + 1 < MaxNtnRetries
      BY <1>0, <2>3, MaxNtnRetriesAssumption
    <3>2. QED
      BY <2>1, <2>3, <3>1 DEF NtnRetry, Fallback!NtnFails
  <2>4. QED
    BY <2>2, <2>3
<1>13. CASE ProbeLte
  BY <1>13
     DEF ProbeLte, ToNtnConnecting, EnterNtnConnected, Leave, Transition, Fallback!Probe,
         Fallback!ProbeFails
<1>14. CASE NtnPdnUp
  BY <1>14 DEF NtnPdnUp
<1>15. ASSUME state = "LTE_PROBE", ReturnToNtn
       PROVE  [Fallback!Next]_(Fallback!fallbackVars)
  BY <1>15
     DEF ReturnToNtn, ToNtnConnecting, ToNtnConnected, EnterNtnConnected, Leave, Transition,
         Fallback!ProbeFails
<1>16. CASE ProbeRejected \/ ProbeSampling
  BY <1>15, <1>16 DEF ProbeRejected, ProbeSampling, ctxVars
<1>17. CASE ProbeAccepted \/ ProbeLinkLost
  BY <1>17
     DEF ProbeAccepted, ProbeLinkLost, LeaveProbeForLtem, ToLtemConnecting,
         ToLtemConnected, Leave, Transition, Fallback!ProbeSucceeds
<1>18. CASE BackoffExpired
  BY <1>18
     DEF BackoffExpired, FreshFix, AcquireFixForNtn, ToGnssAcquire, ToNtnConnecting,
         ToLtemConnecting, Leave, Transition, Fallback!AttachLtem, Fallback!LocateForNtn,
         Fallback!AttachNtn
<1>19. CASE LinkLost
  <2>1. /\ nextRat' = (IF link.rat = "LTEM" THEN "NTN" ELSE "LTEM")
        /\ state \in ConnectedStates \ {"LTE_PROBE"} /\ state' = "BACKOFF"
        /\ UNCHANGED <<ntnAttempts, fix>>
    BY <1>19 DEF LinkLost, ToBackoff, Leave, Transition
  <2>2. QED
    BY <2>1
       DEF ConnectedStates, Fallback!LtemLost, Fallback!LostWhileLocating,
           Fallback!NtnLost
<1>20. CASE Drop
  BY <1>20 DEF Drop
<1>21. CASE Environment
  <2>1. UNCHANGED <<state, nextRat, ntnAttempts>> /\ HaveFix' = HaveFix
    <3>1. CASE FixAges
      BY <3>1 DEF FixAges
    <3>2. CASE TimeoutFires
      BY <3>2 DEF TimeoutFires, TimerFires, ctxVars
    <3>3. CASE NwRegStatus \/ NtnPdn
      BY <3>3 DEF NwRegStatus, NtnPdn, ctxVars
    <3>4. CASE NtnLocationWork \/ SwitchWork \/ CloudCallback
      BY <3>4 DEF NtnLocationWork, SwitchWork, CloudCallback, ctxVars
    <3>5. CASE GnssWork \/ AgnssWork \/ RsrpWork
      BY <3>5 DEF GnssWork, AgnssWork, RsrpWork, ctxVars
    <3>6. QED
      BY <1>21, <3>1, <3>2, <3>3, <3>4, <3>5 DEF Environment
  <2>2. QED
    BY <2>1
<1>22. CASE UNCHANGED vars
  BY <1>22 DEF vars, ctxVars
<1>23. QED
  BY <1>1, <1>2, <1>3, <1>4, <1>5, <1>6, <1>7, <1>8, <1>9, <1>10, <1>11, <1>12, <1>13,
     <1>14, <1>16, <1>17, <1>18, <1>19, <1>20, <1>21, <1>22
     DEF Next, Dispatch

(* AppSm implements RatFallback: however events, timers and callbacks      *)
(* interleave, are lost or fail, NTN is tried only with a position and in  *)
(* its turn, and LTE-M gets its turn after exactly MaxNtnRetries failed    *)
(* attaches in a row.                                                      *)
THEOREM FallbackImplemented == Spec => ImplementsFallback
<1>1. Init => Fallback!Init
  <2> SUFFICES ASSUME Init PROVE Fallback!Init
    OBVIOUS
  <2>1. PhaseOf(state) = "start" /\ nextRat = "LTEM" /\ ntnAttempts = 0
    BY DEF Init, PhaseOf, LtemStates
  <2>2. ~HaveFix
    BY DEF Init, HaveFix
  <2>3. QED
    BY <2>1, <2>2 DEF Fallback!Init
<1>2. TypeOK /\ PlanInv /\ RatInv /\ [Next]_vars => [Fallback!Next]_(Fallback!fallbackVars)
  BY FallbackStep
<1>3. QED
  BY <1>1, <1>2, TypeCorrect, PlanInvariant, RatInvariant, PTL
     DEF Spec, ImplementsFallback, Fallback!Spec
=============================================================================
