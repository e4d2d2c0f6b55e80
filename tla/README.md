# Verification of the LTE-M / NTN fallback firmware

A TLA+ model of the application in `src/app`: firmware for a Nordic nRF9151
that keeps a device connected over LTE-M (the terrestrial network), falls back
to NTN (the satellite network) when LTE-M is lost or poor, and probes its way
back. TLC checks the model on small instances; TLAPS proves the main theorems
for every value of the constants. `PROJECT.json` lists the runs, the mutants
that show each property can fail, the source lines every definition stands
for, the findings, and the hazards the properties are for.

## The system

One thread (`smf_thread`) runs a hierarchical state machine. Everything else
(network callbacks, work items on the system work queue, timer interrupts, the
cloud library's thread) talks to it through one zbus channel, a FIFO with a
bounded pool. The state machine calls the services directly; they answer with
events, or not at all.

| component | state it keeps | operations | who interacts |
|---|---|---|---|
| state machine `core/app_sm.c` | `ctx`: state, `next_rat`, retry counter, last fix, GNSS goal, mirrors of the link and cloud; three timers | entry, run and exit function of each state | calls every service; hears every event |
| event bus `common/app_events.c` | FIFO of the message subscriber, pool of 16 | `app_event_put` with `K_NO_WAIT`, result ignored | every publisher |
| LTE service `lte/` | registered, probe flag | connect, disconnect, registration handler | state machine, `lte_lc` callbacks |
| NTN service `ntn/` | `active_ctx` | connect, stop, location request, registration and PDN handlers | state machine, NTN library's work |
| modem service `modem/` | state of the RAT switch | switch to TN or back as a work item, UDP test | state machine, work queue |
| cloud service `cloud/` | connected, connecting | connect, disconnect, cloud callback | state machine, cloud thread |
| GNSS service `gnss/` | running, fix published, assistance flags, timeout work | start, assisted start, stop, fix and assistance work | state machine, GNSS interrupt, cloud |
| RSRP service `rsrp/` | mode, decision counters | monitor, probe, NTN monitor, stop, motion hint | state machine, work queue, accelerometer |
| field log `field_log/` | flash area, cursor, mutex, queue, counters | note, append, summarise, scan, erase, dump | callbacks, log thread, shell |
| accelerometer `sensors/accel.c` | baseline, quiet time, velocity, last movement | a thread that samples every 200 ms | RSRP service (motion hint) |
| battery, temperature `sensors/` | samples | threads that publish them | field log |
| location service `location/` | busy flag | start, stop | only a state nothing enters |

Outside the application: a vendor AGNSS sample and an Arduino SD-card logger
(`src/Firmware`), Python tools and lab scripts. They are not modelled.

What is hard here:

- **Ordering.** Every timer posts the same anonymous `EVT_TIMEOUT`, every
  registration is reported by up to two handlers under two tags, and both can
  sit in the queue while the state they were meant for is left.
- **Mirrors.** The state machine keeps copies of what the services know
  (`cloud_connected`, `lte_connected`, `pdn_up`, `active_rat`).
- **Failure.** Each service call may fail, each in its own way: posting an
  event, returning an error that is ignored, or returning success without any
  event to come.
- **Loss.** A publication is dropped when the pool is empty.
- **Crashes.** The field log must survive a reset at any write or erase.

What makes each component correct:

- state machine: NTN only with a position; timers and measurements only in the
  states that want them; flags that agree with the state; a real loss always
  heard; no timed state without its timer; the fallback order itself;
- event bus: bounded, and nothing above relies on a delivery it cannot have;
- services: one answer, error or timeout for each request;
- GNSS service: a search always has a timeout and ends, whatever assistance
  does, and no timeout outlives it;
- RSRP service: one verdict for each question, on the samples the criteria name,
  sampled at the interval the motion asks for;
- accelerometer: the motion reported follows the movement, for the hold time;
- field log: an acknowledged record stays; appending resumes after any reset
  unless there is something to preserve; summaries account for every loss, come
  when due, and report the energy of the samples.

## Modules

| module | models | notes |
|---|---|---|
| `AppTypes` | `app_types.h`: states, events, RATs, goals | an event is its type and source RAT |
| `EventBus` | `app_events.c` | `MayLose` chooses between a bus that never loses (the publisher waits) and one that may lose any publication |
| `LinkControl` | the `lte_lc` library, external | mode of the radio, registration, the handlers registered with it |
| `ModemService`, `LteService`, `NtnService`, `CloudService`, `GnssService`, `RsrpService` | the service of that name, as the state machine sees it | each EXTENDS the one before: they share the bus and the radio |
| `AppSm` | `app_sm.c` with all its services | one action per handler, including the exit functions it leaves through and the entry functions it goes through |
| `RsrpMonitor` | `rsrp_service.c` in detail, alone | implements `RsrpPromise`, which `RsrpService` keeps inside `AppSm` |
| `RsrpPromise` | an answer only to what is asked, once | the abstract specification of the RSRP service |
| `MCRsrpMonitor` | the thresholds of `prj.conf` and `Kconfig` | |
| `GnssSearch` | `gnss_service.c` in detail, with `GNSS_ACQUIRE` as its client | what `GnssService` keeps inside `AppSm`, step by step |
| `MotionPolling` | `accel.c` with the polling interval of `rsrp_service.c` | time in polls of the accelerometer |
| `RatFallback` | the fallback promised, without events, timers or services | the abstract specification |
| `DocClaims` | claims of comments the code does not keep | one violation run each |
| `MCAppSm` | faults and restricted next-state relations of the runs | |
| `AppSmTypeProofs`, `AppSmProofs`, `AppSmStateProofs` | theorems of `AppSm` | |
| `FieldLogStorage` | the flash log, its mutex, boot, shell and resets | |
| `FieldLog` | queue, log thread and summaries over that storage | with the properties of the field log |
| `FieldEnergy` | battery samples, energy and the times of summaries | the log thread again, with time |
| `MotionPollingProofs`, `FieldLogProofs`, `FieldEnergyProofs`, `RsrpMonitorProofs`, `GnssSearchProofs` | theorems of the module each is named after | |

### Correspondence, `AppSm`

`state` is the leaf state of SMF; the parents (`running`, `connected`,
`disconnected`) are in the handlers and in `LinkOnEntry`, `TimersOf`,
`RsrpOnExit`, `GnssOnExit`, which collect what the entry and exit functions on
a path do. `link` is `pdn_up`, `lte_connected`, `cloud_connected`,
`active_rat`; `fix` abstracts `have_fix` and its age to none, fresh, stale;
`armed` is the set of running timers, `gnss_timeout_work` included. `Dispatch`
is `dispatch_app_event()`: one disjunct for each run function's branch, and
`Drop` for the events a state ignores. `Environment` is everything that runs
in another context: timers, network reports, work items, cloud callbacks, and
the passing of the maximal age of a fix. What fails is chosen by `Faults`.

Abstracted: values carried by events (RSRP, coordinates); AT commands (the
switch of the modem's mode is one step of its work item); the lengths of
timeouts and the one extension GNSS gives itself while assistance is pending,
which delay an expiry and change nothing else; `boot_entry()`'s failures;
builds with `CONFIG_APP_CORE_SM_PROBE_TEST` or `FORCE_ASSISTED`. A handler is
one step: it runs in a preemptible thread, and what a work item may do in the
middle of it is listed under the hazards. One such case is in the step:
`gnss_acquire_exit()` cancels the timeout of the search and then waits for the
modem, and the service's flags hold until it has answered, so `GnssExitOutcomes`
has an exit during which assistance arms the timeout again (`Leave` carries it
into the next state, whatever that is). A callback of the cloud preempted in its
own middle, before the exit, and resumed after it is taken to arm the timeout at
the exit; `GnssSearch` has it step by step, with the data it leaves marked.
`STATE_LTE_LOCATION` and `STATE_IDLE` cannot be reached.

### Correspondence, `FieldLog`

Offsets are slots. `cursor` is `storage.write_offset`, `next_sequence`,
`ready` and `full`; `log.pc` is where the log thread is in
`field_log_append_current_record()`: header filled without the mutex
(`filled`), holding it before the erase (`erasing`) or before the write
(`writing`). `Reset` may come anywhere and leaves a block being erased as it
was, unreadable or erased, and a slot being written as it was, unreadable or
written: a NOR sector is erased as a whole. Programming a slot that is not
erased makes it unreadable. Init scans slot by slot (`boot.slot`), each read may
fail (`ScanFails`), and init takes no mutex: the area is open before the scan, so
the shell may erase between two reads, or between two blocks init itself erases.
An erase that ends while the scan is past the first slot has its reset of the
cursor overwritten: the scan takes the next slot for the end of the records.
`overtaken` is history and marks exactly that, until the next full erase. `kept`,
`failed`, `noted` and `reported` are history too. Left out: the choice of the best location (only the GNSS service
notes any, so there is never more than one to choose from), switchback counters
(built as the loss counter is), printing, and the widths of the counters
(saturation at 255 and 65535).

### Correspondence, `RsrpMonitor`

`mode`, `tracking` and `work` are `current_mode`, the variables
`reset_signal_tracking()` clears, and the delayable work item. `running` is the
mode `rsrp_work_handler()` read before it blocked in the modem; when the modem
answers, the rest of the handler is one step, because the system work queue is
cooperative. A call of the state machine is a sequence of steps (`call`) a
waking handler may come between; the accelerometer's thread has a lower
priority and cannot. The kernel's rules for a work item are external: a delay
replaces a delay, and while a cancelled handler still runs, submitting is
refused but a delay is not. `MayAsk` is the order `app_sm.c` calls in: what was
started is stopped, except a probe, which is left to whoever comes next; the
state machine measures once itself before it starts a monitor or a probe, so no
measurement of a probe (nor, for a probe, of a monitor) is then in flight. The
first half is proved of `AppSm` (`MonitorsAreStopped`). Another probe may come
next: with five messages in the pool, TLC finds an `EVT_TN_READY_FOR_PROBE`
queued behind a failed switch and a stale `EVT_TIMEOUT`, which lead out of
`LTE_PROBE` and back, so that it is handled on the next visit and the next
visit's own one starts the sampling over. The promise holds all the same.
`seen` is history: the samples since
the question was asked. `Sum` is the loop of `rsrp_history_average()`; the
properties read their criteria off `seen` with operators of their own (`Valid`,
`LostForLong`, `Degraded`), not off the service's counters. Left out: the polling interval and
all lengths of delays, `AT%XMONITOR`'s fields, the level an event carries.

### Correspondence, `GnssSearch`

`sm` is what the state machine knows of its search; `call` is what is left of
the call it is in, one step for each group of assignments, for the modem and
for each `k_work` call, because `gnss_event_handler()`, the work queue and
(while the call blocks in the modem) the cloud's thread may come between.
`gnss` is the service's flags; `assisted_start_in_progress` stands for
`agnss_prepare_start_time` too. `work` is the items whose delay runs and those
queued, each at most once; the queue is served in order, one handler at a time,
and a handler is one step except `agnss_request_work_handler()`, which blocks in
`nrf_cloud_agnss_request()` (`request`). `callback` is the cloud thread inside
`gnss_mark_agnss_ready()`, preempted after its check or its assignments. Whether
the cloud is connected, busy or accepts a request is chosen each time it is
asked; `Refusals` says which calls may fail, all of them in the run. `inbox` is
the bus, without loss: what loss does is in `AppSm`. `late` is history:
a handler has armed the timeout, or passed its check of `gnss_running`, within the
call that leaves the search or before it, and the timeout it arms has not run
since. Left out: positions,
assistance data, the deletion of data before a forced assisted start.

### Correspondence, `MotionPolling`

A sample of the accelerometer is quiet, slight (not quiet, below the movement
threshold) or strong, and may leave any velocity; which it is depends on
arithmetic the model leaves out. `accel` is the local variables of
`accel_thread()`; time differences are taken modulo `ClockRange`, as
`k_uptime_get_32()` wraps. `hint.call` is how far the thread is in
`rsrp_service_set_motion_hint()`: it has the lowest priority of those involved,
so everything may come between the look at `current_mode` and the rescheduling.
The RSRP work is one step here (`RsrpMonitor` has it in detail); `odd` is
history: a change of the hint that does not come of movement (the first one,
and those a clock that wraps makes up). Left out: the test mode's fixed
interval, what is published and logged.

### Correspondence, `FieldEnergy`

`battery` is `runtime.battery` with power for voltage times current; `log.pc`
is the thread at the top of its loop, waiting for a message, with a summary
due, or writing one. Time may pass anywhere, as the thread has the lowest
priority and blocks in flash and on the mutex; other messages only take time,
and are left out. `level`, `used`, `twice`, `spans`, `reported` are history.

## Runs

| run | question | instance | states |
|---|---|---|---|
| `faults` | do the invariants hold under every interleaving, when a service call fails, and does `AppSm` implement `RatFallback`? | pool 2, 2 retries, lossless bus, an attach, a switch, a probe, a call of the cloud or a start of GNSS may fail, no ageing of a fix | 2.3 M |
| `lossy` | what still holds when events are lost? | pool 1, 2 retries, any publication may be lost, an NTN attach, handing over the position, reading a fix or going offline may fail, a fix may age | 2.2 M |
| `liveness` | do timed states end? | pool 2, 1 retry, fairness below | 0.2 M |
| `crash` | does the field log survive resets, failing flash and a full queue, and keep the order of its records? | 2 blocks of 2 slots, queue of 1 | 2.9 M |
| `energy` | is the energy reported that of the samples, and do summaries come? | 5 ticks, an interval of 2, queue of 2 | 0.3 M |
| `rsrp` | does every verdict answer what is asked, on the samples it should? | 3 levels, 6 samples, thresholds of `prj.conf` | 0.2 M |
| `gnss` | does a search keep its timeout, put it off a limited number of times, and end? | all calls refusable, inbox of 1 | 0.4 M |
| `motion` | does sampling go on, at the right interval, and the report follow the movement? | hold 4, intervals 2 and 4, a clock of 17 | 1.0 M |
| `probe_delay`, `cloud_connection`, `deaf_search`, `append_stop` | claims the code does not keep | small | violated |

Bounds. A pool of two holds every pair of events out of order, which is what
the hazards need (one stale, one real); two retries distinguish "first",
"again" and "exhausted"; with one retry "first" and "exhausted" coincide, and
`liveness`, which uses it, does not depend on the counter. `FreshNext` leaves
out the ageing of a fix, and `QuietNext` also NTN's PDN reports, where the full
graph is too large; `lossy` has both. In the field log two
blocks of two slots give a first, an inner and a last slot of a block and the
boundary between blocks; `MaxSequence` 4 lets the area fill; two messages fill
a queue of one and overflow it; `MaxNoted` bounds what is noted between two
resets, of which there may be any number. In `energy` two summaries fall due
within the bound, with time for samples before, between and after them, and a
unit of 2 with a power of 3 makes odd spans lose their remainder. In `rsrp`
three levels (one of them weak) give a sharp drop, a slow one, repeated weak
samples and an average that rounds up to the recovery level; six samples are
twice the longest criterion. In `gnss` nothing is bounded but the events the
state machine lags behind: who would post another waits, so an inbox of one
delays handlers and loses nothing. In `motion` the hold time is longer than the
moving interval and as long as the still one, the quiet time shorter, and the
clock turns just after the times that matter; the bound of `SamplingGoesOn` is
reached. Deadlock is checked except in `lossy`, where a lost event does stop
the device.

Fairness. `FairQuietSpec`: weak fairness of `Dispatch`, since the thread
waits forever on its queue and runs whenever it is not empty; strong fairness
of `TimerFires` of each timer, since a kernel timer that is not stopped fires, and in the
lossless model it may have to wait for room in the pool again and again.
`GnssSearch!FairSpec`: weak fairness of the state machine's steps, of the work
queue (which includes that `nrf_cloud_agnss_request()` returns) and of the
expiry of the timeout; none of the modem, of the request's own delays, of the
cloud's thread. `FieldEnergy!FairSpec`: the log thread runs at last. Nothing is
assumed of the network, the modem, GNSS or the cloud.

### Properties

- `NtnPositionAvailable`: from the NTN attach until NTN is left, the NTN
  library finds a context with a fix.
- `TimersOnlyInTheirStates`, `MeasuresOnlyWhereWanted`: no timer of the state
  machine, monitor or search outlives the state it serves, over any path of the
  hierarchy. The timeout of a search may (see the divergences); what becomes of
  it is `TimerEndsWithSearch`.
- `LinkMatchesState`: the four flags agree with the state.
- `LtemLossIsHeard`: `next_rat` never makes a real loss look like a hand-over.
- `NeverStranded`, `TimedStatesEnd`: a state that waits for `EVT_TIMEOUT` has
  its timer or the event under way, and ends.
- `ImplementsFallback`: the whole is a behaviour of `RatFallback`.
- `KeepsPromise`: whichever handler a stop or a start overtakes, no verdict
  comes after the stop, and none twice; `reset_signal_tracking()` in
  `rsrp_service_stop()` is what ensures it, and only for limits of two samples
  or more (`RsrpAssumption`).
- `LtemIsWatched`: what was started keeps its mode and its work.
- `MonitorFollowsSamples`: LTE-M is given up exactly when the samples meet a
  criterion of `src/README.md`'s table; `GoodOnFreshSamples`: a probe finds it
  good on samples of its own.
- `SearchIsTimed`, `SearchEnds`: whichever of fix, extension, fallback and
  assistance, of this search or the last, has cancelled or replaced the timeout,
  a search in progress has it, and it is put off a bounded number of times; a
  search refused because the modem did not let the last one stop is the
  exception. `PutOffsAreLimited` counts: each way of putting the timeout off uses
  up something no step of the search gives back (the extension, the assistance
  or its request, the data being marked). `TimerEndsWithSearch`: once a search has
  been left, none of the handlers queued, blocked or preempted then arms its
  timeout again. Excused are assistance that had passed its check before the exit
  cleared the flags, for the one expiry it arms, and a service the modem refused
  to stop, while it goes on running.
- `SamplingGoesOn`: toggling motion cannot starve the monitor, because the hold
  keeps changes to still apart. `MovingIsPolledFast`: whichever of hint, start
  and handler comes last.
- `ReportFollowsMovement`, `RestIsNoticed`: moving is reported for the hold time
  after movement and no longer, and rest ends it, whatever the velocity.
- `EnergyIsThatOfSamples`, `IntervalsMakeTotal`, `SummariesComeDue`: what
  summaries say of energy is what was used, none falls between two of them, and
  messages do not keep them from coming.
- `AcknowledgedRecordsStay`, `DisabledOnlyToPreserve`, `SummariesAccount`: the
  field log, as long as no flash call fails; the first and `RecordsAreNumbered`
  also as long as no erase overtakes the scan. `RecordsAreNumbered`: the numbers by which
  `fieldlog_decode.py` sorts a dump are those of the order of writing, over
  resets, records written but never acknowledged, and opened blocks.

## Findings

- `probe_delay`: an attach timeout queued just before the registration starts
  the LTE-M probe at once; a stale one ends a backoff early too.
- `cloud_connection`: after an outage of LTE-M the state machine waits in
  `CLOUD_CONNECTING` for an event a connected service will not post, with no
  timeout.
- `deaf_search`: a standalone GNSS search after the first fix ignores every
  fix, because `fix_published` is reset by the assisted start only.
- `append_stop`: after a failed flash write, records are appended behind an
  unreadable one.

Divergences without a run of their own (the model shows each of them):

- a search that a link loss ended leaves its goal behind, and the next one
  gives up a good LTE-M link for NTN (`app_sm.c:343`, `794`);
- a loss reported for NTN ends a probe that has left NTN, although
  `app_sm.c:468-471` says such events are dropped;
- an LTE-M registration counts as an NTN attach, because both registration
  handlers stay registered (`ntn_service.c:158`);
- a cloud error outside `CLOUD_CONNECTING` leaves `cloud_connected` set;
- a probe whose UDP test fails goes to `LTEM_CONNECTING`; the diagram
  `fallback-algorithm-detail.mmd` returns to NTN;
- the probe's threshold has no hysteresis: `fallback-algorithm-overview.mmd:9`
  compares with "threshold + hysteresis", `prj.conf:26` sets the recovery level
  to the fallback level, and the average rounds up (`rsrp_service.c:151`), so a
  level the monitor calls weak is good for the probe;
- with `CONFIG_APP_MODEM_RSRP_LOSS_SAMPLE_COUNT=1` (or `..._WEAK_...`), which
  `Kconfig:70` allows, a handler in flight posts a verdict after the service was
  stopped; `RsrpAssumption` asks for two;
- samples that alternate between weak and unavailable reset each other's
  counters, so neither limit is reached (`rsrp_service.c:233`, `238`);
- a probe that answers while `rsrp_service_start_ntn_monitor()` is between its
  mode and its reset leaves the NTN monitor idle (`rsrp_service.c:679`);
- a modem that refuses to stop GNSS leaves the service running, so the next
  search is refused with no timeout armed (`gnss_service.c:566`), unless the
  event of the last search ends it;
- a start the modem refuses leaves `assisted_start_in_progress` set, so a later
  standalone search submits assistance requests (`gnss_service.c:274`);
- a request handler that a stop has cancelled while it blocks in the cloud
  library marks its request as sent in the next search, and a request the modem
  makes meanwhile is refused by the kernel (`gnss_service.c:386`, `418`);
- assistance that arrives while `gnss_acquire_exit()` runs arms the timeout
  again (`gnss_service.c:517`), and the stop, which cancelled it before, succeeds:
  one `EVT_TIMEOUT` is posted in a state that does not expect it and takes it for
  its own, ending a backoff or an NTN attach early or starting a probe;
- init opens the area before it scans and takes no mutex, and the shell's erase
  checks only that the area is open (`field_log.c:447-492`, `1492-1507`): an
  erase between two reads of the scan leaves the log ready with its cursor behind
  erased slots, although "On boot we walk flash until the first erased slot. That
  becomes the next append position" (`field_log.c:405-406`). The next records are
  not dumped, and the first of them are overwritten after a reset;
- a record's header takes its number before the mutex is taken
  (`field_log.c:772`); when the shell erases the area in between, the first
  record keeps an old number and the count starts at 1 behind it, so a number
  may be given twice and `fieldlog_decode.py:234`, which sorts by number, puts
  the first record elsewhere. `RecordsAreNumbered` names exactly that;
- a battery sample that waits in the queue while a summary is made moves
  `last_energy_timestamp_ms` back when it is taken, and the span is counted
  twice (`field_log.c:593`): `twice` in `EnergyIsThatOfSamples` is exactly that;
- 49.7 days after the last movement the 32-bit uptime has turned, and a device
  at rest is reported moving for the hold time (`accel.c:361`), where
  `Kconfig:104-109` has it only "after the last clear acceleration or velocity
  event"; movement at uptime zero counts as none;
- with a hold time below the moving interval, which `Kconfig` allows, motion
  that toggles keeps LTE-M from being sampled; `MotionAssumption` excludes it;
- a loss of LTE-M in `CLOUD_CONNECTING` or `GNSS_ACQUIRE` is not counted as one
  in the field log, and a failed connect is (`field_log.c:725`);
- the default build probes, although `src/README.md:304` says the probe is
  disabled by default.

## Proofs

`AppSmTypeProofs` proves `TypeCorrect == Spec => []TypeOK`: one lemma for what
each entry operator leaves (`ToBackoffType`, ...), one for each handler, and
one for the other contexts. `AppSmProofs` proves

- `PositionInvariant == Spec => []NtnPositionAvailable`, inductive as it
  stands: every handler that takes the context or the fix away leaves NTN;
- `LossHeard == Spec => []LtemLossIsHeard`, from `PlanInv`. The property is
  not inductive: a search that ends without a fix returns to
  `LTEM_CONNECTED`, so `PlanInv` adds that a search not required by NTN has
  LTE-M as its plan, and that the boot does;
- `FallbackImplemented == Spec => ImplementsFallback`: `Init` maps to the
  initial state and every step to a step or a stutter, given `TypeOK` (the
  counter stays below the limit), `PlanInv` (which RAT a chain returns to) and
  `RatInv` (`active_rat` tells LTE-M's states from NTN's, which is how
  `connected_run()` decides whose loss it heard).

They hold for every pool size, every retry limit above zero, every set of
faults and both kinds of bus, from the assumptions named in `EventBus`,
`AppTypes` and `AppSm`. TLC checks the same properties on `faults` and `lossy`.

`AppSmStateProofs` proves that what is kept beside the state agrees with it:

- `LinkCorrect == Spec => []LinkMatchesState`, from `LinkInv`, which adds that a
  search about to return to LTE-M still has LTE-M and its PDN;
- `TimersOwned == Spec => []TimersOnlyInTheirStates`, from `OwnedInv`: the timers
  armed are among those of the state, but for the timeout of a search, and the
  signal monitor is in a mode of the state. Whatever fails or is lost;
- `MeasuresOwned`, for `MeasuresOnlyWhereWanted`, from `OwnedInv` and
  `ReceiverInv`, that the receiver is on in `GNSS_ACQUIRE` only. It assumes that
  GNSS can be stopped (`GnssStops`);
- `MonitorsAreStopped == Spec => [][AskStep]_rsrpMode`, from `OwnedInv`: when the
  signal service is started, it is idle or probes. That is what `RsrpMonitor`
  assumes of its client;
- `NothingStranded`, for `NeverStranded`, from `WaitInv`: a state that waits has
  its timer, or an event that ends the wait in the queue. It assumes a bus that
  loses nothing, and `GnssStops` (from `ReceiverInv`: a search can then be
  started, and a fix ends no other state's wait). The failure of a switch with an
  unknown RAT is no such event: `ntn_connecting` leaves the state alone on it.

`MotionPollingProofs` proves every property of `MotionPolling`, for all
intervals, hold times and clock ranges of `MotionAssumption`, from one inductive
invariant, `MotionInv`: `TypeOK`; `HintInv` (the interval is the one of the hint,
and a rescheduling under way has not been overtaken by another hint);
`ClockInv` (`since` is the age of `last_movement_ts_ms`, modulo the clock);
`RestInv` (quiet samples in a row bound the quiet time and the age of movement
from below); `GapInv` (how long the monitor has gone without a sample, by what
the last change of the hint was and how long ago). `SamplingGoesOn` needs the
last because a single change is harmless: it is the third that would exceed the
bound, and the hold time keeps it away. `Difference` and the lemmas around it
are the arithmetic of a clock that wraps.

`FieldEnergyProofs` proves `TypeOK`, `IntervalsMakeTotal` and
`EnergyIsThatOfSamples`, for all powers, units, summary intervals and lengths of
the queue (`EnergyAssumption`). The first two need little more than
`Integration`, what adding a span does to the accumulator. The third is not
inductive: it speaks of an empty queue only. `EnergyInv` says that the accumulator
balances the energy used until the *next sample to be taken*, each queued sample
that of the one behind it, and the last one `now` (the history field `used` of a
sample is there for this). `BalanceKept` shows that adding a span disturbs no
balance, at any time, by more than one rounding; `SampleTaken` that a sample taken
late moves exactly the overlap into `twice`. TLC checks the same on `energy`.
`SummaryApproaches` is the safety core of `SummariesComeDue`: once a summary is
due, at most four steps of the log thread are left to it, each of them takes one
away, and no message adds one.

`FieldLogProofs` proves the five properties of `FieldLog` for every number and
size of blocks, every length of the queue and every bound on the sequence
(`GeometryAssumption`, `QueueAssumption`, `SequenceAssumption`), whatever is
interrupted. `TypeOK` needs `ActorsInv`: who holds the mutex, and that the log
thread works on a ready cursor within the area. `AcknowledgedRecordsStay` is not
inductive. It rests on `AreaInv` (a block is used from its start, and all up to
an acknowledged record is valid, so that the scan after a reset gets past it)
and `CursorInv` (what the RAM knows: all before the cursor is valid, nothing
acknowledged is behind it, and it stands before an erased slot or a block yet to
be erased, which is why opening a block erases no record). The
latter is `ScanInv` while init scans (what it has read is still valid) and
`DoneInv` after it, neither of which holds while the shell erases.
These hold until a flash call fails or an erase overtakes the scan
(`NotOvertaken` says when it does not); a full erase restores them, because `ErasesInv` says that what
init and the shell have erased so far is empty, even when both erase at once.
`RecordsAreNumbered` needs `NextNumber` beside them (the RAM's next number is
that after the last valid record, and a header filled with records before it
bears it; before the first record it may bear any) and `KeptOutOfReach`: no
erase or write, interrupted or not, touches a slot up to an acknowledged record.
`BlockBegins` and `BlockContinues` are the arithmetic of slots and blocks,
`ReadableIs` says what a scan finds. `SummariesAccount` follows from `Balanced`,
which adds that messages queued, dropped and counted are no more than were
noted; the types of the counters follow from that too.

`RsrpMonitorProofs` proves every property of `RsrpMonitor`: `TypeOK`,
`LtemIsWatched`, `MonitorFollowsSamples`, `GoodOnFreshSamples` and `KeepsPromise`
(that `RsrpMonitor` implements `RsrpPromise`), for every set of levels, threshold,
history length and limit of `RsrpAssumption`. Its invariant follows a call of the
state machine through its steps: `OldQuestion` and `NewQuestion` tell whether
`reset_signal_tracking()` is ahead or behind. `OvertakenSeesNothing` is the heart
of it: a handler that reads LTE-M for a question that has been replaced finds the
tracking cleared, so its sample is the first; and no first sample is a verdict
(`FirstSampleIsNotPoor`, `FirstSampleIsNotEnough`, `FirstLossIsNotPoor`), which is
where limits of two are needed. `ModeOfQuestion` and `WorkOfQuestion` give
`LtemIsWatched`: a start over a cancelled handler may have its submission refused,
but then that handler is in flight and reschedules.

The two properties of samples speak of what recursive functions compute for
every sequence: which of the samples are valid (`Valid`) and what they add up to
(`Sum`). A library theorem of induction with an operator as its parameter cannot
be used, but one over a set can: `Induction` says that a set of naturals with 0
and with the successor of each of its members is all of them (from `WFMin`), and
`Recursion` that a function defined by its predecessor exists and satisfies its
equation. `ValidAppend` and `SumIsInt` come of these, and with them `Follows`
becomes inductive: between two steps the history is the last valid samples since
the question, `weak_sample_count` and the count of losses are the lengths of the
runs `seen` ends in. `TrendIsFallen`, `DropIsFallen`, `LevelFollows` and
`LossFollows` then turn the code's criteria into those of the properties, and
`AverageReaches` is what division that rounds towards zero says of a negative
sum: the recovery level is missed by less than a whole dBm.

`GnssSearchProofs` proves `TypeOK`, `SearchIsTimed`, `TimerEndsWithSearch` and
`PutOffsAreLimited` for any set of refused calls and any lag of the state
machine. The first three become inductive
with `CallInv`: a call under way starts a search that is wanted, or stops one that
was left, and only arming the timeout ends the former. `RemoveFromQueue` and the
lemmas after it say what the kernel's calls do to the work items; `OtherContext`
is the argument for interrupts, work handlers and the cloud's thread alike: who
takes the timeout away arms it again or posts an event. `PutOffsAreLimited` is an
action property under the same invariant, the safety core of `SearchEnds`:
`PutOffStep` has one lemma for each context, and the delicate one is
`FallBackSpares`, where a fallback makes data new again but takes the request or
the assistance, which count double, with it.

Only model-checked: `TimedStatesEnd`, `SearchEnds` and `SummariesComeDue`.
Liveness under fairness and `ENABLED` are out of the prover's reach; what each
rests on is proved (`NeverStranded`; `SearchIsTimed` and `PutOffsAreLimited`;
`SummaryApproaches`).

## Plan

1. Done: `AppSm` and its services, `RatFallback`, the field log and its energy,
   the accelerometer with the polling interval, the RSRP and GNSS services in
   detail, each with its theorems.
2. The modem's AT sequence against a probe that ends early.

## Not modelled

Firmware samples, Python tools and lab scripts (not the application); battery
and temperature sensors and the sensor channels (nothing decides anything
there; what becomes of a battery sample is in `FieldEnergy`); the location
service (only `STATE_LTE_LOCATION` starts it, and nothing enters that state),
and with it the field log's choice between several locations; the arithmetic on
samples of the accelerometer.
