-------------------------- MODULE AppSmTypeProofs --------------------------
(***************************************************************************)
(* Type correctness of AppSm, for every pool size, retry limit and set of  *)
(* faults, with or without loss of events.  The lemmas follow the code:    *)
(* what publications do to the queue, what each entry function leaves,     *)
(* then one lemma per group of run functions.                              *)
(***************************************************************************)
EXTENDS AppSm, TLAPS

(* One publication keeps the queue a sequence of events within the pool.   *)
LEMMA PutType ==
    ASSUME NEW q \in Seq(Event), Len(q) <= PoolSize, NEW e \in Event, NEW r \in Put(q, e)
    PROVE  r \in Seq(Event) /\ Len(r) <= PoolSize
BY PoolSizeAssumption DEF Put

(* So do the publications of one report to both handlers.                  *)
LEMMA PutAllType ==
    ASSUME NEW q \in Seq(Event), Len(q) <= PoolSize,
           NEW evs \in Seq(Event), NEW r \in PutAll(q, evs)
    PROVE  r \in Seq(Event) /\ Len(r) <= PoolSize
<1>1. CASE Len(evs) = 0
  BY <1>1 DEF PutAll
<1>2. CASE Len(evs) = 1
  BY <1>2, PutType DEF PutAll
<1>3. CASE Len(evs) > 1
  <2>1. evs[1] \in Event /\ evs[2] \in Event
    BY <1>3
  <2>2. PICK p \in Put(q, evs[1]) : r \in Put(p, evs[2])
    BY <1>3 DEF PutAll
  <2>3. QED
    BY <2>1, <2>2, PutType
<1>4. Len(evs) \in Nat
  OBVIOUS
<1>5. Len(evs) = 0 \/ Len(evs) = 1 \/ Len(evs) > 1
  <2>1. \A n \in Nat : n = 0 \/ n = 1 \/ n > 1
    OBVIOUS
  <2>2. QED
    BY <1>4, <2>1
<1>6. QED
  BY <1>1, <1>2, <1>3, <1>5

(* Taking an event, taking one and publishing, and publishing from another *)
(* context all keep it so.                                                 *)
LEMMA ConsumeType ==
    ASSUME EventBusTypeOK, queue # <<>>, Consume
    PROVE  EventBusTypeOK'
BY PoolSizeAssumption DEF EventBusTypeOK, Consume

(* An event taken and another published.                                   *)
LEMMA ConsumeAndPublishType ==
    ASSUME EventBusTypeOK, queue # <<>>, NEW e \in Event, ConsumeAndPublish(e)
    PROVE  EventBusTypeOK'
<1>1. Tail(queue) \in Seq(Event) /\ Len(Tail(queue)) <= PoolSize
  BY PoolSizeAssumption DEF EventBusTypeOK
<1>2. QED
  BY <1>1, PutType DEF EventBusTypeOK, ConsumeAndPublish

(* An event published from another context.                                *)
LEMMA PublishType ==
    ASSUME EventBusTypeOK, NEW e \in Event, Publish(e)
    PROVE  EventBusTypeOK'
BY PutType DEF EventBusTypeOK, Publish

(* The constructors build events.                                          *)
LEMMA EventTypes ==
    /\ \A type \in EventType, rat \in SourceRat : Ev(type, rat) \in Event
    /\ \A type \in EventType : PlainEv(type) \in Event
    /\ TimeoutEv \in Event
BY DEF Ev, PlainEv, TimeoutEv, Event, EventType, SourceRat, Rat

(* What a transition sets.                                                *)
EntryOK ==
    /\ EventBusTypeOK
    /\ state \in AppState /\ link \in Link /\ armed \subseteq Timer
    /\ rsrpMode \in RsrpMode /\ gnss \in GnssFlags

(* A transition sets the state, the link and the timers within their       *)
(* types.                                                                  *)
LEMMA TransitionType ==
    ASSUME armed \subseteq Timer, NEW new \in AppState, NEW l \in Link,
           NEW timers \in SUBSET Timer, Transition(new, l, timers)
    PROVE  state' \in AppState /\ link' \in Link /\ armed' \subseteq Timer
<1>1. link' \in Link
  BY DEF Transition, LinkOnEntry, Link
<1>2. QED
  BY <1>1 DEF Transition, ArmedOnExit

(* The exit functions leave the signal monitor in one of its modes.        *)
LEMMA MonitorOnExitType ==
    ASSUME rsrpMode \in RsrpMode, NEW new
    PROVE  RsrpOnExit(new) \in RsrpMode
BY DEF RsrpOnExit, RsrpMode

(* The exit functions leave the GNSS flags flags, and start no timer but   *)
(* the timeout of the search.                                              *)
LEMMA GnssOnExitType ==
    ASSUME gnss \in GnssFlags, NEW exit \in GnssOnExit
    PROVE  exit.gnss \in GnssFlags /\ exit.armed \subseteq Timer
<1> DEFINE stopped == GnssStopped
<1>1. stopped \in GnssFlags
  BY DEF GnssStopped, GnssFlags
<1>2. exit \in {[gnss |-> g, armed |-> a] : g \in {gnss, stopped}, a \in {{}, {"gnss"}}}
  BY DEF GnssOnExit, GnssExitOutcomes, GnssStopOutcomes
<1> HIDE DEF stopped
<1>3. QED
  BY <1>1, <1>2 DEF Timer

(* So a transition out of a search, or of any other state, keeps the types *)
(* of what it sets.                                                        *)
LEMMA LeaveType ==
    ASSUME armed \subseteq Timer, gnss \in GnssFlags, NEW new \in AppState, NEW l \in Link,
           NEW timers \in SUBSET Timer, Leave(new, l, timers)
    PROVE  /\ state' \in AppState /\ link' \in Link /\ armed' \subseteq Timer
           /\ gnss' \in GnssFlags
<1>1. PICK exit \in GnssOnExit :
        gnss' = exit.gnss /\ Transition(new, l, timers \union exit.armed)
  BY DEF Leave
<1>2. exit.gnss \in GnssFlags /\ timers \union exit.armed \in SUBSET Timer
  BY GnssOnExitType
<1>3. QED
  BY <1>1, <1>2, TransitionType

(* backoff_entry() keeps the types.                                        *)
LEMMA ToBackoffType ==
    ASSUME EntryOK, queue # <<>>, NEW l \in Link, ToBackoff(l)
    PROVE  EntryOK'
BY ConsumeType, LeaveType, MonitorOnExitType
   DEF EntryOK, ToBackoff, AppState, DisconnectedStates, Timer

(* A sequence of two is known by its elements.                             *)
LEMMA PairEqual ==
    ASSUME NEW S, NEW x \in S, NEW y \in S, NEW s \in Seq(S),
           Len(s) = 2, s[1] = x, s[2] = y
    PROVE  s = <<x, y>>
OBVIOUS

(* Appending to a sequence of one makes a pair.                            *)
LEMMA PairProperties ==
    ASSUME NEW S, NEW x \in S, NEW y \in S
    PROVE  Append(<<x>>, y) = <<x, y>>
<1>1. Append(<<x>>, y) \in Seq(S) /\ Len(Append(<<x>>, y)) = 2
  OBVIOUS
<1>2. Append(<<x>>, y)[1] = x /\ Append(<<x>>, y)[2] = y
  OBVIOUS
<1>3. QED
  BY <1>1, <1>2, PairEqual

(* Registering a handler twice changes nothing, so the list stays one of   *)
(* five.                                                                   *)
LEMMA WithHandlerType ==
    ASSUME handlers \in HandlerLists, NEW rat \in Rat
    PROVE  WithHandler(rat) \in HandlerLists
<1> USE DEF HandlerLists
<1>1. CASE handlers = <<>>
  BY <1>1 DEF WithHandler, Rat
<1>2. CASE handlers = <<"LTEM">>
  <2>1. Registered("LTEM")
    BY <1>2 DEF Registered
  <2>2. Append(handlers, "NTN") = <<"LTEM", "NTN">>
    BY <1>2, PairProperties DEF Rat
  <2>3. QED
    BY <2>1, <2>2 DEF WithHandler, Rat
<1>3. CASE handlers = <<"NTN">>
  <2>1. Registered("NTN")
    BY <1>3 DEF Registered
  <2>2. Append(handlers, "LTEM") = <<"NTN", "LTEM">>
    BY <1>3, PairProperties DEF Rat
  <2>3. QED
    BY <2>1, <2>2 DEF WithHandler, Rat
<1>4. CASE handlers \in {<<"LTEM", "NTN">>, <<"NTN", "LTEM">>}
  <2>1. Registered("LTEM") /\ Registered("NTN")
    <3>1. 1 \in 1..Len(handlers) /\ 2 \in 1..Len(handlers)
      BY <1>4
    <3>2. \/ handlers[1] = "LTEM" /\ handlers[2] = "NTN"
          \/ handlers[1] = "NTN" /\ handlers[2] = "LTEM"
      BY <1>4
    <3>3. QED
      BY <3>1, <3>2 DEF Registered
  <2>2. QED
    BY <2>1 DEF WithHandler, Rat
<1>5. QED
  BY <1>1, <1>2, <1>3, <1>4

(* Whatever a connect attempt leaves behind is a state of the link         *)
(* controller.                                                             *)
LEMMA ConnectOutcomesType ==
    ASSUME LinkTypeOK, NEW rat \in Rat, NEW fault,
           NEW outcome \in ConnectOutcomes(rat, fault), LinkAfter(outcome)
    PROVE  LinkTypeOK'
BY WithHandlerType DEF LinkTypeOK, ConnectOutcomes, LinkAfter, Radio, Rat

(* ltem_connecting_entry() keeps the types and clears lte_connected.       *)
LEMMA ToLtemConnectingType ==
    ASSUME EntryOK, LinkTypeOK, queue # <<>>, NEW l \in Link, ToLtemConnecting(l)
    PROVE  EntryOK' /\ LinkTypeOK' /\ lteUp' = FALSE
<1>1. PICK outcome \in LteConnectOutcomes :
        /\ LinkAfter(outcome)
        /\ Consume \/ ConsumeAndPublish(Ev("REG_FAIL", "LTEM"))
  BY DEF ToLtemConnecting
<1>2. EventBusTypeOK'
  <2>1. Ev("REG_FAIL", "LTEM") \in Event
    BY EventTypes DEF EventType, SourceRat, Rat
  <2>2. QED
    BY <1>1, <2>1, ConsumeType, ConsumeAndPublishType DEF EntryOK
<1>3. LinkTypeOK'
  BY <1>1, ConnectOutcomesType DEF LteConnectOutcomes, Rat
<1>4. QED
  BY <1>2, <1>3, LeaveType, MonitorOnExitType
     DEF EntryOK, ToLtemConnecting, AppState, DisconnectedStates

(* ltem_connected_entry() keeps the types.                                 *)
LEMMA ToLtemConnectedType ==
    ASSUME EntryOK, queue # <<>>, NEW l \in Link, NEW done \in StepDone,
           ToLtemConnected(l, done)
    PROVE  EntryOK' /\ lastDone' \in StepDone
<1>1. [l EXCEPT !.rat = "LTEM", !.lte = TRUE] \in Link
  BY DEF Link, Rat
<1>2. EventBusTypeOK'
  <2>1. PlainEv("START_CLOUD") \in Event /\ PlainEv("START_GNSS") \in Event
    BY EventTypes DEF EventType
  <2>2. \/ Consume
        \/ ConsumeAndPublish(PlainEv("START_CLOUD"))
        \/ ConsumeAndPublish(PlainEv("START_GNSS"))
    BY DEF ToLtemConnected
  <2>3. QED
    BY <2>1, <2>2, ConsumeType, ConsumeAndPublishType DEF EntryOK
<1>3. state' \in AppState /\ link' \in Link /\ armed' \subseteq Timer /\ gnss' \in GnssFlags
  <2> DEFINE m == [l EXCEPT !.rat = "LTEM", !.lte = TRUE]
  <2>1. Leave("LTEM_CONNECTED", m, {})
    BY DEF ToLtemConnected
  <2> HIDE DEF m
  <2>2. m \in Link
    BY <1>1 DEF m
  <2>3. QED
    BY <2>1, <2>2, LeaveType DEF EntryOK, AppState, ConnectedStates
<1>4. QED
  BY <1>2, <1>3 DEF EntryOK, ToLtemConnected, RsrpMode

(* cloud_connecting_entry() keeps the types.                               *)
LEMMA ToCloudConnectingType ==
    ASSUME EntryOK, queue # <<>>, cloud \in CloudState, ToCloudConnecting
    PROVE  EntryOK' /\ cloud' \in CloudState
<1>1. [link EXCEPT !.cloud = FALSE] \in Link
  BY DEF EntryOK, Link
<1>2. PICK outcome \in CloudConnectOutcomes :
        /\ cloud' = outcome.cloud
        /\ Consume \/ ConsumeAndPublish(Ev("CLOUD_FAIL", "UNKNOWN"))
  BY DEF ToCloudConnecting
<1>3. EventBusTypeOK'
  <2>1. Ev("CLOUD_FAIL", "UNKNOWN") \in Event
    BY EventTypes DEF EventType, SourceRat
  <2>2. QED
    BY <1>2, <2>1, ConsumeType, ConsumeAndPublishType DEF EntryOK
<1>4. cloud' \in CloudState
  BY <1>2 DEF CloudConnectOutcomes, CloudState
<1>5. state' \in AppState /\ link' \in Link /\ armed' \subseteq Timer /\ gnss' \in GnssFlags
  <2> DEFINE m == [link EXCEPT !.cloud = FALSE]
  <2>1. Leave("CLOUD_CONNECTING", m, {})
    BY DEF ToCloudConnecting
  <2> HIDE DEF m
  <2>2. m \in Link
    BY <1>1 DEF m
  <2>3. QED
    BY <2>1, <2>2, LeaveType DEF EntryOK, AppState, ConnectedStates
<1>6. QED
  BY <1>3, <1>4, <1>5, MonitorOnExitType
     DEF EntryOK, ToCloudConnecting

(* A search that starts or fails leaves the GNSS flags flags.              *)
LEMMA GnssSearchType ==
    ASSUME NEW g \in GnssFlags, NEW outcome \in GnssSearchOutcomes(g)
    PROVE  outcome.gnss \in GnssFlags
<1> DEFINE searching == [g EXCEPT !.running = TRUE]
<1>1. searching \in GnssFlags
  BY DEF GnssFlags
<1>2. outcome \in {GnssStarted(searching), GnssFailed(g)}
  BY DEF GnssSearchOutcomes
<1> HIDE DEF searching
<1>3. QED
  BY <1>1, <1>2 DEF GnssStarted, GnssFailed

(* So does every way to start one.                                         *)
LEMMA GnssStartType ==
    ASSUME gnss \in GnssFlags,
           NEW outcome \in GnssStandaloneOutcomes \union GnssAssistedOutcomes
    PROVE  outcome.gnss \in GnssFlags
<1> DEFINE fresh == [gnss EXCEPT !.fixPublished = FALSE]
<1> DEFINE assisted == [fresh EXCEPT !.ready = FALSE, !.assisted = TRUE]
<1>1. fresh \in GnssFlags
  BY DEF GnssFlags
<1>2. assisted \in GnssFlags
  BY <1>1 DEF GnssFlags
<1>3. outcome \in GnssSearchOutcomes(gnss) \union GnssSearchOutcomes(assisted)
                    \union {GnssRefused(gnss), GnssRefused(fresh)}
  BY DEF GnssStandaloneOutcomes, GnssAssistedOutcomes
<1> HIDE DEF fresh, assisted
<1>4. QED
  BY <1>1, <1>2, <1>3, GnssSearchType DEF GnssRefused

(* gnss_acquire_entry() keeps the types.                                   *)
LEMMA ToGnssAcquireType ==
    ASSUME EntryOK, queue # <<>>, ToGnssAcquire
    PROVE  EntryOK'
<1>1. PICK outcome \in GnssStandaloneOutcomes \union GnssAssistedOutcomes :
        /\ Transition("GNSS_ACQUIRE", link, IF outcome.expiring THEN {"gnss"} ELSE {})
        /\ rsrpMode' = RsrpOnExit("GNSS_ACQUIRE")
        /\ gnss' = outcome.gnss
        /\ Consume \/ ConsumeAndPublish(TimeoutEv)
  BY DEF ToGnssAcquire
<1>2. EventBusTypeOK'
  <2>1. TimeoutEv \in Event
    BY EventTypes DEF Timer
  <2>2. QED
    BY <1>1, <2>1, ConsumeType, ConsumeAndPublishType DEF EntryOK
<1>3. gnss' \in GnssFlags
  BY <1>1, GnssStartType DEF EntryOK
<1>4. (IF outcome.expiring THEN {"gnss"} ELSE {}) \in SUBSET Timer
  BY DEF Timer
<1>5. QED
  BY <1>1, <1>2, <1>3, <1>4, TransitionType, MonitorOnExitType
     DEF EntryOK, AppState, ConnectedStates

(* ntn_connecting_entry() keeps the types and activates the NTN context.   *)
LEMMA ToNtnConnectingType ==
    ASSUME EntryOK, LinkTypeOK, queue # <<>>, NEW l \in Link, ToNtnConnecting(l)
    PROVE  EntryOK' /\ LinkTypeOK' /\ activeCtx' = TRUE
<1>1. PICK outcome \in NtnConnectOutcomes(fix' # "none") :
        /\ LinkAfter(outcome)
        /\ Leave("NTN_CONNECTING", l, IF outcome.err THEN {} ELSE {"ntn_connect"})
        /\ Consume \/ ConsumeAndPublish(Ev("MODEM_SWITCH_FAIL", "NTN"))
  BY DEF ToNtnConnecting
<1>2. EventBusTypeOK'
  <2>1. Ev("MODEM_SWITCH_FAIL", "NTN") \in Event
    BY EventTypes DEF EventType, SourceRat, Rat
  <2>2. QED
    BY <1>1, <2>1, ConsumeType, ConsumeAndPublishType DEF EntryOK
<1>3. LinkTypeOK'
  <2>1. CASE outcome \in ConnectOutcomes("NTN", "ntn_connect")
    BY <1>1, <2>1, ConnectOutcomesType DEF Rat
  <2>2. CASE outcome = [err |-> TRUE, radio |-> "off", handlers |-> handlers]
    BY <1>1, <2>2 DEF LinkAfter, LinkTypeOK, Radio
  <2>3. QED
    BY <2>1, <2>2 DEF NtnConnectOutcomes
<1>4. (IF outcome.err THEN {} ELSE {"ntn_connect"}) \in SUBSET Timer
  BY DEF Timer
<1>5. QED
  BY <1>1, <1>2, <1>3, <1>4, LeaveType, MonitorOnExitType
     DEF EntryOK, ToNtnConnecting, AppState, DisconnectedStates

(* ntn_connected_entry() keeps the types.                                  *)
LEMMA EnterNtnConnectedType ==
    ASSUME EntryOK, NEW l \in Link, EnterNtnConnected(l), EventBusTypeOK'
    PROVE  EntryOK'
BY LeaveType
   DEF EntryOK, EnterNtnConnected, AppState, ConnectedStates, RsrpMode, Timer

(* The rest of TypeOK, in two parts.                                       *)
ServicesOK ==
    /\ LinkTypeOK /\ LteTypeOK
    /\ switchState \in SwitchState
    /\ activeCtx \in BOOLEAN
    /\ cloud \in CloudState

PlanOK ==
    /\ nextRat \in Rat
    /\ ntnAttempts \in 0..(MaxNtnRetries - 1)
    /\ lastDone \in StepDone
    /\ fix \in Fix
    /\ gnssGoal \in GnssGoal
    /\ extendOnce \in BOOLEAN

(* TypeOK is what transitions set, what services keep, and the plan.       *)
LEMMA TypeParts == TypeOK <=> EntryOK /\ ServicesOK /\ PlanOK
BY DEF TypeOK, EntryOK, ServicesOK, PlanOK

(* The same after a step.                                                  *)
LEMMA TypePartsPrime == TypeOK' <=> EntryOK' /\ ServicesOK' /\ PlanOK'
BY DEF TypeOK, EntryOK, ServicesOK, PlanOK

(* Booting, attaching to LTE-M and starting its service chain.             *)
LEMMA LtemStepType ==
    ASSUME TypeOK,
           Boot \/ LtemRegistered \/ LtemRefused \/ StartCloud \/ StartGnss
    PROVE  TypeOK'
<1> USE TypeParts, TypePartsPrime
<1>1. queue # <<>>
  BY DEF Boot, LtemRegistered, LtemRefused, StartCloud, StartGnss, Handling
<1>2. CASE Boot
  <2>1. EntryOK' /\ LinkTypeOK' /\ lteUp' = FALSE
    BY <1>1, <1>2, ToLtemConnectingType DEF Boot, EntryOK, ServicesOK
  <2>2. QED
    BY <1>2, <2>1 DEF Boot, ServicesOK, PlanOK, LteTypeOK, planVars, goalVars
<1>3. CASE LtemRegistered
  <2> DEFINE m == [link EXCEPT !.rat = "LTEM", !.lte = TRUE, !.pdn = TRUE]
  <2>1. m \in Link
    BY DEF EntryOK, Link, Rat
  <2>2. ToLtemConnected(m, "NONE")
    BY <1>3 DEF LtemRegistered
  <2> HIDE DEF m
  <2>3. EntryOK' /\ lastDone' \in StepDone
    BY <1>1, <2>1, <2>2, ToLtemConnectedType DEF StepDone
  <2>4. QED
    BY <1>3, <2>3 DEF LtemRegistered, ServicesOK, PlanOK, LinkTypeOK, LteTypeOK,
                      linkVars, lteVars, planVars, goalVars
<1>4. CASE LtemRefused
  <2>1. EntryOK'
    BY <1>1, <1>4, ToBackoffType DEF LtemRefused, EntryOK
  <2>2. QED
    BY <1>4, <2>1 DEF LtemRefused, ServicesOK, PlanOK, LinkTypeOK, LteTypeOK, Rat,
                      linkVars, lteVars, goalVars
<1>5. CASE StartCloud
  <2>1. EntryOK' /\ cloud' \in CloudState
    BY <1>1, <1>5, ToCloudConnectingType DEF StartCloud, ServicesOK
  <2>2. QED
    BY <1>5, <2>1 DEF StartCloud, ServicesOK, PlanOK, LinkTypeOK, LteTypeOK,
                      linkVars, lteVars, planVars, goalVars
<1>6. CASE StartGnss
  <2>1. EntryOK'
    BY <1>1, <1>6, ToGnssAcquireType DEF StartGnss
  <2>2. QED
    BY <1>6, <2>1 DEF StartGnss, ServicesOK, PlanOK, LinkTypeOK, LteTypeOK,
                      linkVars, lteVars, planVars, goalVars
<1>7. QED
  BY <1>2, <1>3, <1>4, <1>5, <1>6

(* The common part of both searches NTN needs.                             *)
LEMMA AcquireFixType ==
    ASSUME TypeOK, queue # <<>>, AcquireFixForNtn
    PROVE  /\ EntryOK' /\ LinkTypeOK' /\ LteTypeOK' /\ cloud' \in CloudState
           /\ fix' \in Fix /\ gnssGoal' \in GnssGoal /\ extendOnce' \in BOOLEAN
<1>1. EntryOK'
  BY TypeParts, ToGnssAcquireType DEF AcquireFixForNtn
<1>2. QED
  BY <1>1, TypeParts
     DEF AcquireFixForNtn, ServicesOK, PlanOK, LinkTypeOK, LteTypeOK, linkVars, lteVars,
         Fix, GnssGoal

(* The link controller is left alone.                                      *)
LEMMA LinkUnchanged ==
    ASSUME LinkTypeOK, UNCHANGED linkVars
    PROVE  LinkTypeOK'
BY DEF LinkTypeOK, linkVars

(* lte_lc_offline().                                                       *)
LEMMA OfflineType ==
    ASSUME LinkTypeOK, Offline
    PROVE  LinkTypeOK'
BY DEF LinkTypeOK, Offline, Radio

(* LTE-M is given up, with or without a position.                          *)
LEMMA PoorStepType ==
    ASSUME TypeOK, LtemPoor
    PROVE  TypeOK'
<1> USE TypeParts, TypePartsPrime
<1>1. /\ queue # <<>> /\ nextRat' \in Rat
      /\ UNCHANGED <<ntnAttempts, lastDone, switchState, activeCtx>>
  BY DEF LtemPoor, Handling, Rat
<1>2. CASE AcquireFixForNtn
  BY <1>1, <1>2, AcquireFixType DEF ServicesOK, PlanOK
<1>3. CASE /\ ToBackoff(link)
           /\ UNCHANGED <<fix, goalVars, probePending>>
           /\ \/ CloudDisconnect /\ LteDisconnect
              \/ UNCHANGED <<cloud, lteUp, linkVars>>
  <2>1. EntryOK'
    BY <1>1, <1>3, ToBackoffType DEF EntryOK
  <2>2. LinkTypeOK'
    BY <1>3, LinkUnchanged, OfflineType DEF LteDisconnect, ServicesOK
  <2>3. LteTypeOK'
    BY <1>3 DEF LteDisconnect, ServicesOK, LteTypeOK
  <2>4. cloud' \in CloudState
    BY <1>3 DEF CloudDisconnect, ServicesOK, CloudState
  <2>5. QED
    BY <1>1, <1>3, <2>1, <2>2, <2>3, <2>4 DEF ServicesOK, PlanOK, goalVars
<1>4. QED
  BY <1>2, <1>3 DEF LtemPoor

(* The answers of the cloud.                                               *)
LEMMA CloudStepType ==
    ASSUME TypeOK, CloudConnected \/ CloudFailed \/ CloudLostWhileConnecting
    PROVE  TypeOK'
<1> USE TypeParts, TypePartsPrime
<1> DEFINE up == [link EXCEPT !.cloud = TRUE]
           down == [link EXCEPT !.cloud = FALSE]
<1>1. queue # <<>> /\ up \in Link /\ down \in Link
  BY DEF CloudConnected, CloudFailed, CloudLostWhileConnecting, Handling, EntryOK, Link
<1>2. /\ UNCHANGED <<planVars, fix, goalVars, linkVars, switchState, lteVars, activeCtx, cloud>>
      /\ \/ ToLtemConnected(up, "CLOUD_DONE")
         \/ ToBackoff(down) /\ UNCHANGED lastDone
         \/ ToLtemConnected(down, lastDone)
  BY DEF CloudConnected, CloudFailed, CloudLostWhileConnecting
<1> HIDE DEF up, down
<1>3. EntryOK' /\ lastDone' \in StepDone
  BY <1>1, <1>2, ToLtemConnectedType, ToBackoffType DEF StepDone, PlanOK
<1>4. QED
  BY <1>2, <1>3 DEF ServicesOK, PlanOK, LinkTypeOK, LteTypeOK,
                    linkVars, lteVars, planVars, goalVars

(* The end, or the extension, of a search.                                 *)
LEMMA GnssStepType ==
    ASSUME TypeOK, GnssFixObtained \/ GnssGivenUp \/ GnssExtended
    PROVE  TypeOK'
<1> USE TypeParts, TypePartsPrime
<1>1. queue # <<>> /\ link \in Link
  BY DEF GnssFixObtained, GnssGivenUp, GnssExtended, Handling, EntryOK
<1>2. CASE GnssFixObtained
  <2>1. /\ UNCHANGED <<planVars, switchState, probePending, cloud, lteUp>>
        /\ fix' = "fresh" /\ gnssGoal' = "NONE" /\ extendOnce' = FALSE
        /\ \/ ToNtnConnecting(link) /\ lastDone' = "GNSS_DONE"
           \/ ToLtemConnected(link, "GNSS_DONE") /\ UNCHANGED <<linkVars, activeCtx>>
    BY <1>2 DEF GnssFixObtained, GnssSearchDone
  <2>2. /\ EntryOK' /\ lastDone' \in StepDone /\ LinkTypeOK'
        /\ activeCtx' = activeCtx \/ activeCtx' = TRUE
    BY <1>1, <2>1, ToNtnConnectingType, ToLtemConnectedType, LinkUnchanged
       DEF StepDone, ServicesOK
  <2>3. QED
    BY <2>1, <2>2 DEF ServicesOK, PlanOK, LteTypeOK, planVars, Fix, GnssGoal
<1>3. CASE GnssGivenUp
  <2>1. /\ UNCHANGED <<planVars, switchState, probePending, cloud, fix, linkVars,
                         lteUp, activeCtx>>
        /\ gnssGoal' = "NONE" /\ extendOnce' = FALSE
        /\ \/ ToBackoff(link) /\ lastDone' = "GNSS_DONE"
           \/ ToLtemConnected(link, "GNSS_DONE")
    BY <1>3 DEF GnssGivenUp, GnssSearchDone
  <2>2. EntryOK' /\ lastDone' \in StepDone
    BY <1>1, <2>1, ToBackoffType, ToLtemConnectedType DEF StepDone
  <2>3. QED
    BY <2>1, <2>2, LinkUnchanged DEF ServicesOK, PlanOK, LteTypeOK, planVars, GnssGoal
<1>4. CASE GnssExtended
  <2>1. EntryOK'
    BY <1>1, <1>4, ConsumeType DEF GnssExtended, EntryOK, Timer
  <2>2. QED
    BY <1>4, <2>1, LinkUnchanged
       DEF GnssExtended, ServicesOK, PlanOK, LteTypeOK, lteVars, planVars
<1>5. QED
  BY <1>2, <1>3, <1>4

(* The end of an NTN attach, and the PDN report while NTN serves.          *)
LEMMA NtnStepType ==
    ASSUME TypeOK, NtnAttached \/ NtnAttachFailed \/ NtnPdnUp
    PROVE  TypeOK'
<1> USE TypeParts, TypePartsPrime
<1>1. queue # <<>>
  BY DEF NtnAttached, NtnAttachFailed, NtnPdnUp, Handling
<1>2. CASE NtnAttached
  <2> DEFINE m == [link EXCEPT !.rat = "NTN", !.pdn = @ \/ Handling("PDN_UP")]
  <2>1. m \in Link
    BY DEF EntryOK, Link, Rat
  <2>2. EnterNtnConnected(m) /\ EventBusTypeOK'
    BY <1>1, <1>2, ConsumeType DEF NtnAttached, ToNtnConnected, EntryOK
  <2> HIDE DEF m
  <2>3. EntryOK'
    BY <2>1, <2>2, EnterNtnConnectedType
  <2>4. ntnAttempts' \in 0..(MaxNtnRetries - 1)
    BY <1>2, MaxNtnRetriesAssumption DEF NtnAttached
  <2>5. QED
    BY <1>2, <2>3, <2>4, LinkUnchanged
       DEF NtnAttached, ServicesOK, PlanOK, LteTypeOK, lteVars, goalVars
<1>3. CASE NtnAttachFailed
  <2> DEFINE m == [link EXCEPT !.pdn = FALSE]
  <2>1. m \in Link
    BY DEF EntryOK, Link
  <2>2. ToBackoff(m)
    BY <1>3 DEF NtnAttachFailed
  <2> HIDE DEF m
  <2>3. EntryOK'
    BY <1>1, <2>1, <2>2, ToBackoffType
  <2>4. nextRat' \in Rat /\ ntnAttempts' \in 0..(MaxNtnRetries - 1)
    BY <1>3, MaxNtnRetriesAssumption DEF NtnAttachFailed, NtnRetry, PlanOK, Rat
  <2>5. LinkTypeOK' /\ activeCtx' \in BOOLEAN
    BY <1>3, OfflineType DEF NtnAttachFailed, NtnStop, ServicesOK
  <2>6. QED
    BY <1>3, <2>3, <2>4, <2>5
       DEF NtnAttachFailed, ServicesOK, PlanOK, LteTypeOK, lteVars, goalVars
<1>4. CASE NtnPdnUp
  <2>1. EntryOK'
    BY <1>1, <1>4, ConsumeType DEF NtnPdnUp, EntryOK, Link, serviceVars, gnssVars
  <2>2. QED
    BY <1>4, <2>1, LinkUnchanged
       DEF NtnPdnUp, ServicesOK, PlanOK, LteTypeOK, lteVars, planVars, goalVars, serviceVars
<1>5. QED
  BY <1>2, <1>3, <1>4

(* Whatever a switch leaves behind is a radio and an event.                *)
LEMMA SwitchEventType ==
    ASSUME NEW outcome \in SwitchOutcomes, LinkTypeOK, SwitchEnds(outcome)
    PROVE  outcome.ev \in Event /\ LinkTypeOK'
<1>1. \A type \in {"MODEM_SWITCH_CMD_OK", "MODEM_SWITCH_FAIL"} :
         Ev(type, "UNKNOWN") \in Event
  BY EventTypes DEF EventType, SourceRat
<1>2. outcome.ev \in Event
  BY <1>1 DEF SwitchOutcomes
<1>3. outcome.radio \in Radio
  BY DEF SwitchOutcomes, SwitchTarget, Radio, LinkTypeOK
<1>4. QED
  BY <1>2, <1>3 DEF SwitchEnds, LinkTypeOK

(* The three outcomes of asking for a probe.                               *)
LEMMA ProbeStartType ==
    ASSUME TypeOK, ProbeLte
    PROVE  TypeOK'
<1> USE TypeParts, TypePartsPrime
<1> DEFINE m == [link EXCEPT !.rat = "NTN"]
<1>1. queue # <<>> /\ link \in Link /\ m \in Link
  BY DEF ProbeLte, Handling, EntryOK, Link, Rat
<1>2. /\ UNCHANGED <<ntnAttempts, lastDone, fix, goalVars, lteUp, cloud>>
      /\ probePending' \in BOOLEAN
  BY DEF ProbeLte
<1>3. CASE /\ SwitchToTn
           /\ Transition("LTE_PROBE", link, {})
           /\ rsrpMode' = RsrpOnExit("LTE_PROBE")
           /\ Consume
           /\ UNCHANGED <<nextRat, linkVars, activeCtx, gnss>>
  <2>1. state' \in AppState /\ link' \in Link /\ armed' \subseteq Timer
    <3>1. "LTE_PROBE" \in AppState /\ {} \in SUBSET Timer /\ armed \subseteq Timer
      BY DEF EntryOK, AppState, ConnectedStates
    <3>2. link \in Link /\ Transition("LTE_PROBE", link, {})
      BY <1>1, <1>3
    <3>3. QED
      BY <3>1, <3>2, TransitionType
  <2>2. EventBusTypeOK' /\ rsrpMode' \in RsrpMode /\ gnss' \in GnssFlags
    BY <1>1, <1>3, ConsumeType, MonitorOnExitType DEF EntryOK
  <2>3. EntryOK'
    BY <2>1, <2>2 DEF EntryOK
  <2>4. QED
    BY <1>2, <1>3, <2>3, LinkUnchanged
       DEF SwitchToTn, SwitchState, ServicesOK, PlanOK, LteTypeOK, goalVars
<1>4. CASE /\ nextRat' = "NTN"
           /\ UNCHANGED switchState
           /\ ToNtnConnecting(link)
  <2>1. EntryOK' /\ LinkTypeOK' /\ activeCtx' = TRUE
    BY <1>1, <1>4, ToNtnConnectingType DEF ServicesOK
  <2>2. QED
    BY <1>2, <1>4, <2>1 DEF ServicesOK, PlanOK, LteTypeOK, goalVars, Rat
<1>5. CASE /\ switchState' = "TO_NTN"
           /\ EnterNtnConnected(m)
           /\ \E outcome \in SwitchOutcomes :
                 SwitchEnds(outcome) /\ ConsumeAndPublish(outcome.ev)
           /\ UNCHANGED <<nextRat, activeCtx>>
  <2>1. PICK outcome \in SwitchOutcomes :
           SwitchEnds(outcome) /\ ConsumeAndPublish(outcome.ev)
    BY <1>5
  <2>2. EventBusTypeOK' /\ LinkTypeOK'
    BY <1>1, <2>1, SwitchEventType, ConsumeAndPublishType DEF EntryOK, ServicesOK
  <2> HIDE DEF m
  <2>3. EntryOK'
    BY <1>1, <1>5, <2>2, EnterNtnConnectedType
  <2>4. QED
    BY <1>2, <1>5, <2>2, <2>3
       DEF SwitchState, ServicesOK, PlanOK, LteTypeOK, goalVars
<1>6. QED
  BY <1>3, <1>4, <1>5 DEF ProbeLte

(* Back to NTN, both ways.                                                 *)
LEMMA ReturnType ==
    ASSUME TypeOK, queue # <<>>, ReturnToNtn
    PROVE  TypeOK'
<1> USE TypeParts, TypePartsPrime
<1> DEFINE m == [link EXCEPT !.rat = "NTN"]
<1>1. link \in Link /\ m \in Link
  BY DEF EntryOK, Link, Rat
<1>2. /\ UNCHANGED <<ntnAttempts, lastDone, fix, goalVars, lteUp, cloud>>
      /\ probePending' = FALSE
  BY DEF ReturnToNtn
<1>3. CASE SwitchToNtn /\ ToNtnConnected(m) /\ UNCHANGED <<nextRat, linkVars, activeCtx>>
  <2> HIDE DEF m
  <2>1. EntryOK'
    BY <1>1, <1>3, ConsumeType, EnterNtnConnectedType DEF ToNtnConnected, EntryOK
  <2>2. QED
    BY <1>2, <1>3, <2>1, LinkUnchanged
       DEF SwitchToNtn, SwitchState, ServicesOK, PlanOK, LteTypeOK, goalVars
<1>4. CASE nextRat' = "NTN" /\ ToNtnConnecting(link) /\ UNCHANGED switchState
  <2>1. EntryOK' /\ LinkTypeOK' /\ activeCtx' = TRUE
    BY <1>1, <1>4, ToNtnConnectingType DEF ServicesOK
  <2>2. QED
    BY <1>2, <1>4, <2>1 DEF ServicesOK, PlanOK, LteTypeOK, goalVars, Rat
<1>5. QED
  BY <1>3, <1>4 DEF ReturnToNtn

(* Leaving the probe for a full LTE-M attach.                              *)
LEMMA LeaveProbeType ==
    ASSUME TypeOK, queue # <<>>, NEW l \in Link, LeaveProbeForLtem(l)
    PROVE  TypeOK'
<1> USE TypeParts, TypePartsPrime
<1>1. EntryOK' /\ LinkTypeOK' /\ lteUp' = FALSE
  BY ToLtemConnectingType DEF LeaveProbeForLtem, ServicesOK
<1>2. QED
  BY <1>1 DEF LeaveProbeForLtem, ServicesOK, PlanOK, LteTypeOK, goalVars, Rat

(* The answers to a probe.                                                 *)
LEMMA ProbeStepType ==
    ASSUME TypeOK, ProbeRejected \/ ProbeSampling \/ ProbeAccepted \/ ProbeLinkLost
    PROVE  TypeOK'
<1> USE TypeParts, TypePartsPrime
<1> DEFINE up == [link EXCEPT !.rat = "LTEM", !.pdn = TRUE, !.lte = TRUE]
           down == [link EXCEPT !.pdn = FALSE, !.lte = FALSE]
<1>1. queue # <<>> /\ up \in Link /\ down \in Link
  BY DEF ProbeRejected, ProbeSampling, ProbeAccepted, ProbeLinkLost, Handling,
         EntryOK, Link, Rat
<1>2. CASE ReturnToNtn
  BY <1>1, <1>2, ReturnType
<1>3. CASE /\ rsrpMode' = "PROBE" /\ Consume
           /\ UNCHANGED <<ctxVars, linkVars, switchState, lteVars, activeCtx, cloud, gnssVars>>
  <2>1. EntryOK'
    BY <1>1, <1>3, ConsumeType DEF EntryOK, RsrpMode, ctxVars, gnssVars
  <2>2. QED
    BY <1>3, <2>1, LinkUnchanged
       DEF ServicesOK, PlanOK, LteTypeOK, ctxVars, lteVars, planVars, goalVars
<1>4. CASE LeaveProbeForLtem(down)
  <2> HIDE DEF down
  <2>1. QED
    BY <1>1, <1>4, LeaveProbeType
<1>5. CASE /\ nextRat' = "LTEM" /\ probePending' = FALSE
           /\ ToLtemConnected(up, lastDone)
           /\ UNCHANGED <<ntnAttempts, fix, goalVars, linkVars, switchState, lteUp,
                          activeCtx, cloud>>
  <2> HIDE DEF up
  <2>1. EntryOK' /\ lastDone' \in StepDone
    BY <1>1, <1>5, ToLtemConnectedType DEF PlanOK
  <2>2. QED
    BY <1>5, <2>1, LinkUnchanged DEF ServicesOK, PlanOK, LteTypeOK, goalVars, Rat
<1>6. QED
  BY <1>2, <1>3, <1>4, <1>5
     DEF ProbeRejected, ProbeSampling, ProbeAccepted, ProbeLinkLost

(* The end of a wait.                                                      *)
LEMMA BackoffStepType ==
    ASSUME TypeOK, BackoffExpired
    PROVE  TypeOK'
<1> USE TypeParts, TypePartsPrime
<1>1. queue # <<>> /\ link \in Link /\ UNCHANGED <<planVars, lastDone, switchState>>
  BY DEF BackoffExpired, Handling, EntryOK
<1>2. CASE /\ ToLtemConnecting(link)
           /\ UNCHANGED <<fix, goalVars, probePending, activeCtx, cloud>>
  <2>1. EntryOK' /\ LinkTypeOK' /\ lteUp' = FALSE
    BY <1>1, <1>2, ToLtemConnectingType DEF ServicesOK
  <2>2. QED
    BY <1>1, <1>2, <2>1 DEF ServicesOK, PlanOK, LteTypeOK, planVars, goalVars
<1>3. CASE AcquireFixForNtn /\ UNCHANGED activeCtx
  BY <1>1, <1>3, AcquireFixType DEF ServicesOK, PlanOK, planVars
<1>4. CASE /\ ToNtnConnecting(link)
           /\ UNCHANGED <<fix, goalVars, lteVars, cloud>>
  <2>1. EntryOK' /\ LinkTypeOK' /\ activeCtx' = TRUE
    BY <1>1, <1>4, ToNtnConnectingType DEF ServicesOK
  <2>2. QED
    BY <1>1, <1>4, <2>1 DEF ServicesOK, PlanOK, LteTypeOK, lteVars, planVars, goalVars
<1>5. QED
  BY <1>2, <1>3, <1>4 DEF BackoffExpired

(* What the parents do with what no leaf handled.                          *)
LEMMA ParentStepType ==
    ASSUME TypeOK, LinkLost \/ Drop
    PROVE  TypeOK'
<1> USE TypeParts, TypePartsPrime
<1>1. queue # <<>>
  BY DEF LinkLost, Drop, Handling
<1>2. CASE LinkLost
  <2> DEFINE m == [link EXCEPT !.pdn = FALSE, !.cloud = FALSE,
                               !.lte = @ /\ link.rat # "LTEM"]
  <2>1. ToBackoff(m)
    BY <1>2 DEF LinkLost
  <2>2. m \in Link
    BY DEF EntryOK, Link
  <2> HIDE DEF m
  <2>3. EntryOK'
    BY <1>1, <2>1, <2>2, ToBackoffType
  <2>4. QED
    BY <1>2, <2>3, LinkUnchanged
       DEF LinkLost, ServicesOK, PlanOK, LteTypeOK, lteVars, goalVars, Rat
<1>3. CASE Drop
  <2>1. link' \in Link
    BY <1>3 DEF Drop, EntryOK, Link
  <2>2. EntryOK'
    BY <1>1, <1>3, <2>1, ConsumeType DEF Drop, EntryOK, serviceVars, gnssVars
  <2>3. QED
    BY <1>3, <2>2, LinkUnchanged
       DEF Drop, ServicesOK, PlanOK, LteTypeOK, lteVars, planVars, goalVars, serviceVars
<1>4. QED
  BY <1>2, <1>3

(* A timer fires.                                                          *)
LEMMA TimeoutStepType ==
    ASSUME TypeOK, TimeoutFires
    PROVE  TypeOK'
<1> USE TypeParts, TypePartsPrime
<1>1. PICK t \in Timer : TimerFires(t)
  BY DEF TimeoutFires
<1>2. EventBusTypeOK'
  BY <1>1, EventTypes, PublishType DEF TimerFires, EntryOK
<1>3. EntryOK'
  BY <1>1, <1>2 DEF TimerFires, EntryOK, ctxVars
<1>4. QED
  BY <1>1, <1>3, LinkUnchanged
     DEF TimerFires, ServicesOK, PlanOK, LteTypeOK, ctxVars, lteVars, planVars, goalVars

(* What a report makes one handler publish is a sequence of events.        *)
LEMMA EventsOfType ==
    ASSUME LinkTypeOK, NEW rat \in Rat, NEW status
    PROVE  EventsOf(rat, status) \in Seq(Event)
<1>1. \A type \in {"TN_READY_FOR_PROBE", "REG_OK", "REG_FAIL"}, r \in Rat :
         Ev(type, r) \in Event
  BY EventTypes DEF LinkTypeOK, EventType, SourceRat
<1>2. <<>> \in Seq(Event) /\ \A e \in Event : <<e>> \in Seq(Event)
  OBVIOUS
<1>3. \/ LteEvents(status) = <<>>
      \/ \E type \in {"TN_READY_FOR_PROBE", "REG_OK", "REG_FAIL"} :
            LteEvents(status) = <<Ev(type, "LTEM")>>
  BY DEF LteEvents
<1>4. \/ NtnEvents(status, state = "NTN_CONNECTING") = <<>>
      \/ \E type \in {"REG_OK", "REG_FAIL"} :
            NtnEvents(status, state = "NTN_CONNECTING") = <<Ev(type, "NTN")>>
  BY DEF NtnEvents
<1>5. LteEvents(status) \in Seq(Event)
  BY <1>1, <1>2, <1>3 DEF Rat
<1>6. NtnEvents(status, state = "NTN_CONNECTING") \in Seq(Event)
  BY <1>1, <1>2, <1>4 DEF Rat
<1>7. QED
  BY <1>5, <1>6 DEF EventsOf

(* A report publishes a sequence of events, of one handler or of both.      *)
LEMMA ReportedEvents ==
    ASSUME TypeOK, NwRegStatus
    PROVE  \E evs \in Seq(Event) : queue' \in PutAll(queue, evs)
<1> USE TypeParts
<1>1. PICK status \in RegStatus :
        /\ RegStatusChanges(status)
        /\ \E second \in {<<>>, EventsOf(handlers[2], status)} :
              /\ second # <<>> => Len(handlers) = 2
              /\ queue' \in PutAll(queue, EventsOf(handlers[1], status) \o second)
        /\ LteHears(status) \/ UNCHANGED lteVars
  BY DEF NwRegStatus
<1>2. PICK second \in {<<>>, EventsOf(handlers[2], status)} :
        /\ second # <<>> => Len(handlers) = 2
        /\ queue' \in PutAll(queue, EventsOf(handlers[1], status) \o second)
  BY <1>1
<1>3. handlers # <<>>
  BY DEF NwRegStatus
<1>4. handlers[1] \in Rat /\ (Len(handlers) = 2 => handlers[2] \in Rat)
  BY <1>3 DEF ServicesOK, LinkTypeOK, HandlerLists, Rat
<1>5. EventsOf(handlers[1], status) \in Seq(Event) /\ second \in Seq(Event)
  <2>1. \A rat \in Rat : EventsOf(rat, status) \in Seq(Event)
    BY EventsOfType DEF ServicesOK
  <2>2. second = <<>> \/ second = EventsOf(handlers[2], status)
    BY <1>2
  <2>3. EventsOf(handlers[1], status) \in Seq(Event)
    BY <1>4, <2>1
  <2>4. second \in Seq(Event)
    <3>1. <<>> \in Seq(Event)
      OBVIOUS
    <3>2. CASE second # <<>>
      BY <1>2, <1>4, <2>1, <2>2, <3>2
    <3>3. QED
      BY <3>1, <3>2
  <2>5. QED
    BY <2>3, <2>4
<1>6. EventsOf(handlers[1], status) \o second \in Seq(Event)
  BY <1>5
<1>7. QED
  BY <1>2, <1>6

(* Reports of the link controller.                                         *)
LEMMA ReportStepType ==
    ASSUME TypeOK, NwRegStatus \/ NtnPdn
    PROVE  TypeOK'
<1> USE TypeParts, TypePartsPrime
<1>1. CASE NwRegStatus
  <2>1. PICK status \in RegStatus :
          /\ RegStatusChanges(status)
          /\ LteHears(status) \/ UNCHANGED lteVars
    BY <1>1 DEF NwRegStatus
  <2>2. EventBusTypeOK'
    BY <1>1, ReportedEvents, PutAllType DEF EntryOK, EventBusTypeOK
  <2>3. LinkTypeOK'
    BY <2>1 DEF RegStatusChanges, ServicesOK, LinkTypeOK
  <2>4. LteTypeOK'
    BY <2>1 DEF LteHears, ServicesOK, LteTypeOK, lteVars
  <2>5. QED
    BY <1>1, <2>2, <2>3, <2>4
       DEF NwRegStatus, EntryOK, ServicesOK, PlanOK, ctxVars, gnssVars, planVars, goalVars
<1>2. CASE NtnPdn
  <2>1. \A up \in BOOLEAN : Ev(IF up THEN "PDN_UP" ELSE "PDN_DOWN", "NTN") \in Event
    BY EventTypes DEF ServicesOK, LinkTypeOK, EventType, SourceRat, Rat
  <2>2. EventBusTypeOK' /\ LinkTypeOK'
    BY <1>2, <2>1, PublishType, LinkUnchanged
       DEF NtnPdn, NtnPdnReport, EntryOK, ServicesOK
  <2>3. QED
    BY <1>2, <2>2
       DEF NtnPdn, EntryOK, ServicesOK, PlanOK, LteTypeOK,
           ctxVars, lteVars, gnssVars, planVars, goalVars
<1>3. QED
  BY <1>1, <1>2

(* Work items and callbacks that publish.                                  *)
LEMMA WorkStepType ==
    ASSUME TypeOK, NtnLocationWork \/ SwitchWork \/ CloudCallback \/ RsrpWork
    PROVE  TypeOK'
<1> USE TypeParts, TypePartsPrime
<1>1. CASE NtnLocationWork
  <2>1. Ev("MODEM_SWITCH_FAIL", "NTN") \in Event
    BY EventTypes DEF EventType, SourceRat, Rat
  <2>2. EventBusTypeOK'
    BY <1>1, <2>1, PublishType DEF NtnLocationWork, NtnLocationFails, EntryOK
  <2>3. QED
    BY <1>1, <2>2, LinkUnchanged
       DEF NtnLocationWork, EntryOK, ServicesOK, PlanOK, LteTypeOK,
           ctxVars, lteVars, gnssVars, planVars, goalVars, serviceVars
<1>2. CASE SwitchWork
  <2>1. PICK outcome \in SwitchOutcomes : SwitchEnds(outcome) /\ Publish(outcome.ev)
    BY <1>2 DEF SwitchWork, ModemSwitchWork
  <2>2. EventBusTypeOK' /\ LinkTypeOK'
    BY <2>1, SwitchEventType, PublishType DEF EntryOK, ServicesOK
  <2>3. QED
    BY <1>2, <2>2
       DEF SwitchWork, ModemSwitchWork, EntryOK, ServicesOK, PlanOK, LteTypeOK, SwitchState,
           ctxVars, lteVars, gnssVars, planVars, goalVars
<1>3. CASE CloudCallback
  <2>1. \A type \in {"CLOUD_OK", "CLOUD_DISCONNECTED", "CLOUD_FAIL"} : PlainEv(type) \in Event
    BY EventTypes DEF EventType
  <2>2. EventBusTypeOK'
    BY <1>3, <2>1, PublishType
       DEF CloudCallback, CloudReady, CloudTransportDisconnected, CloudError, EntryOK
  <2>3. cloud' \in CloudState
    BY <1>3
       DEF CloudCallback, CloudReady, CloudTransportDisconnected, CloudError,
           CloudState
  <2>4. QED
    BY <1>3, <2>2, <2>3, LinkUnchanged
       DEF CloudCallback, EntryOK, ServicesOK, PlanOK, LteTypeOK,
           ctxVars, lteVars, gnssVars, planVars, goalVars
<1>4. CASE RsrpWork
  <2>1. \A type \in {"LTE_POOR", "LTE_GOOD"} : PlainEv(type) \in Event
    BY EventTypes DEF EventType
  <2>2. EventBusTypeOK' /\ rsrpMode' \in RsrpMode
    BY <1>4, <2>1, PublishType
       DEF RsrpWork, RsrpMonitorWork, RsrpProbeWork, EntryOK, RsrpMode
  <2>3. QED
    BY <1>4, <2>2, LinkUnchanged
       DEF RsrpWork, EntryOK, ServicesOK, PlanOK, LteTypeOK,
           ctxVars, lteVars, gnssVars, planVars, goalVars
<1>5. QED
  BY <1>1, <1>2, <1>3, <1>4

(* Work items of the GNSS service.                                         *)
LEMMA GnssWorkStepType ==
    ASSUME TypeOK, GnssWork \/ AgnssWork
    PROVE  TypeOK'
<1> USE TypeParts, TypePartsPrime
<1>1. CASE GnssWork
  <2>1. PlainEv("GNSS_FIX") \in Event /\ TimeoutEv \in Event
    BY EventTypes DEF EventType, Timer
  <2>2. EventBusTypeOK'
    BY <1>1, <2>1, PublishType DEF GnssWork, GnssFix, GnssReadError, EntryOK
  <2>3. gnss' \in GnssFlags /\ armed' \subseteq Timer
    BY <1>1 DEF GnssWork, GnssFix, GnssReadError, EntryOK, GnssFlags, gnssVars
  <2>4. QED
    BY <1>1, <2>2, <2>3, LinkUnchanged
       DEF GnssWork, EntryOK, ServicesOK, PlanOK, LteTypeOK,
           ctxVars, lteVars, planVars, goalVars
<1>2. CASE AgnssWork
  <2>1. gnss' \in GnssFlags /\ armed' \subseteq Timer
    BY <1>2 DEF AgnssWork, AgnssReady, AgnssFallback, EntryOK, GnssFlags, Timer
  <2>2. QED
    BY <1>2, <2>1, LinkUnchanged
       DEF AgnssWork, EntryOK, EventBusTypeOK, ServicesOK, PlanOK, LteTypeOK,
           ctxVars, lteVars, planVars, goalVars
<1>3. QED
  BY <1>1, <1>2

(* Time passes, or nothing happens.                                        *)
LEMMA IdleStepType ==
    ASSUME TypeOK, FixAges \/ UNCHANGED vars
    PROVE  TypeOK'
<1> USE TypeParts, TypePartsPrime
<1>1. /\ UNCHANGED <<queue, state, link, planVars, lastDone, goalVars, serviceVars>>
      /\ fix' = "stale" \/ fix' = fix
  BY DEF FixAges, vars, ctxVars
<1>2. QED
  BY <1>1, LinkUnchanged
     DEF EntryOK, EventBusTypeOK, ServicesOK, PlanOK, LteTypeOK, Fix,
         lteVars, gnssVars, planVars, goalVars, serviceVars

(* TypeOK is an invariant: every variable stays within its type, the bus   *)
(* within its pool, and the NTN retry counter strictly below               *)
(* CONFIG_APP_MAX_NTN_RETRIES, whatever is lost and whatever fails.        *)
THEOREM TypeCorrect == Spec => []TypeOK
<1>1. Init => TypeOK
  <2> SUFFICES ASSUME Init PROVE TypeOK
    OBVIOUS
  <2>1. EventBusTypeOK
    <3>1. PlainEv("BOOT") \in Event
      BY EventTypes DEF EventType
    <3>2. QED
      BY <3>1, PoolSizeAssumption DEF Init, EventBusTypeOK
  <2>2. LinkTypeOK /\ LteTypeOK
    BY DEF Init, LinkInit, LteInit, LinkTypeOK, LteTypeOK, Radio, RegStatus,
           HandlerLists
  <2>3. gnss \in GnssFlags /\ link \in Link
    BY DEF Init, GnssInit, GnssFlags, Link, Rat
  <2>4. ntnAttempts \in 0..(MaxNtnRetries - 1)
    BY MaxNtnRetriesAssumption DEF Init
  <2>5. /\ activeCtx \in BOOLEAN /\ extendOnce \in BOOLEAN
        /\ armed \subseteq Timer
    BY DEF Init
  <2>6. QED
    BY <2>1, <2>2, <2>3, <2>4, <2>5
       DEF Init, TypeOK, SwitchState, CloudState, RsrpMode, AppState, Rat, StepDone,
           Fix, GnssGoal
<1>2. TypeOK /\ [Next]_vars => TypeOK'
  BY LtemStepType, PoorStepType, CloudStepType, GnssStepType, NtnStepType,
     ProbeStartType,
     ProbeStepType, BackoffStepType, ParentStepType, TimeoutStepType, ReportStepType,
     WorkStepType, GnssWorkStepType, IdleStepType
     DEF Next, Dispatch, Environment
<1>3. QED
  BY <1>1, <1>2, PTL DEF Spec
=============================================================================
