# ZentraX AI: a TLA+ model of its reliability layer and backend services

ZentraX AI is a Python platform whose README promises service "offline too":
requests survive a lost connection, a crashed process and a failing server, and
records edited on several devices end up merged.  The code that has to keep these
promises is a handful of agents that run on their own, in asyncio loops, threads
and operating system processes, against a network that fails.  Behind them stand the
services of the backend: gateways to AI providers, sessions, bans, quarantines, tools.
This directory models both, checks them with TLC and proves what matters most with TLAPS.

File names in the repository may begin with an invisible zero-width space
(`reconnect.py`, `kill_switch.sh`, `sync_manager.py`, `offline_queue.py` and
`fallback_router.py` of the root do, and `ai_gateway.py`, `sentinel_core.py`,
`compliance_guard.py` and `external_agent.py` of the backend); they are written without it here.

## 1. Inventory

### 1.1 The agents of the reliability layer

| Component | Source | State it keeps | Operations | Talks to |
|---|---|---|---|---|
| Cloud request outbox | `backend/app/services/sync_manager.py`, `backend/app/database/local_store.py`, wired by `app_example.py` | table `outbox` (status, attempts, next attempt), the drain lock, the worker task, `_trigger`, `_stopping` | `submit`, worker loop, `sync_now`, `drain`, `start`, `stop`, `LocalStore.open` | the cloud API; the monitor's `is_online`, `report_failure`, listeners |
| Network monitor | `backend/app/services/network_monitor.py` | status, two streaks, `_online_event`, `_wake`, the task, listener tasks | probe loop, `report_failure`, `start`, `stop` | TCP end points; its listeners |
| Offline queue | `offline_queue.py` | table `queue`, a thread lock, the back-off thread, `_stop` | `send`, `flush`, `start`, `stop`, command line | any HTTP server; other processes on the same file |
| Record synchronisation | `sync_manager.py` (root) | table `records` with the last synced copy as merge base, dirty flags, the pull cursor | `put`, `delete`, `pull`, `push`, `sync_once`, background loop | a server with `/sync/pull` and `/sync/push` |
| Kill switch | `kill_switch.sh` | firewall rules, a `flock` lock, a sleeping `--revert-after` process | `on`, `off`, `status` | nftables or iptables |
| Reconnection watchdog | `reconnect.py` | the state file of recent reconnects, the HOLD file, the cycle | `cycle`, `checks_stable`, `restore_network`, `reisolate` | the kill switch, the host, the operator |
| Fallback router | `fallback_router.py` | the circuit breaker, the caches | `request` | the primary server, caches, a write hook |

What is hard in each, and the property that answers it:

- *Outbox.*  Cancelling a coroutine does not cancel the transaction it awaits in a
  thread; answers get lost; the process dies between the cloud's answer and
  `complete()`; a direct send and a drain run at once.  Nothing answered "sent" or
  "queued" may be lost, every outcome has one writer, order is kept, everything settles.
- *Monitor and worker.*  Two events are cleared after their waits, and notifications
  are tasks that run later: no wake-up may be lost, the status must not flip on one
  bad probe, and must follow the link in the end.
- *Offline queue.*  `flush()` gives up when somebody else holds the lock, whose
  snapshot may not contain the new row: it must still be sent, in order, across crashes
  and exceptions that nothing catches.
- *Record synchronisation.*  Edits run between the statements of the synchroniser and
  while a push is in flight, and an exception may end the thread between any two: merge
  bases, dirty flags and the cursor must stay right.
- *Kill switch and watchdog.*  Commands are long scripts; locks are inherited; an
  operator, a watchdog and a timer act on the same rules; crash and reboot in between.
- *Fallback router.*  Threads report late; a half-open breaker depends on one trial.

### 1.2 The services of the backend

| Component | Source under `backend/app/` | State it keeps | What is hard |
|---|---|---|---|
| Nexus bridge | `core/nexus_bridge.py` | subscriptions, module states, the active flag and cool-down | each activation subscribes a running module again; a handler that raises publishes, and the publisher waits for all of it |
| AI gateway | `core/ai_gateway.py` | one circuit per provider | requests share circuits that open between their retries |
| External agents | `services/external_agent.py` | circuit breaker, cached token, negotiated version | late reports while others are on trial; a caller lost with its slot |
| Chat service | `services/chat_service.py` | sessions by id | the object is held across the provider's call while others end it |
| User service | `services/user_service.py` | two dictionaries of accounts, tokens in circulation | an account is given up or registered again while its tokens live on |
| API transactions | `api/auth.py`, `api/users.py`, `api/Admin.py`, `api/chat.py`, `database/session.py` | users, conversations, messages | checks before the commit of others; failures between two writes |
| Blackhole synchronisation | `core/quantum_blackhole_sync.py` | bans in memory, in a Redis key, in messages | hydration beside messages, expiry, broken connections, calls that end half-way |
| Self-healing patcher | `core/auto_immune_patcher.py` | health, strikes, probes, dependencies | a cascade awaits while guarded calls go on |
| Sentinel core | `core/sentinel_core.py` | windows, quarantine, strikes of each client | maintenance between requests |
| Toolkit | `services/toolkit_service.py`, `api/toolkit.py` | registry, a semaphore per tool | timeouts and cancellation with the semaphore held or awaited |
| Vector search | `core/vector_search.py` | records by namespace | deletions while a call awaits its embedding; two dimensions in one namespace |
| Device fingerprints | `core/device_dna_guard.py` | bans in memory and in a file | snapshots taken before the lock, saves that overlap, restarts |
| Moderation | `core/moderation.py` | none between calls | rules and classifier disagree, repeat themselves, fail |
| Compliance | `core/compliance_guard.py` | none between calls | a path written as text and split again |
| Deployment | `core/orchestrator.py` | revisions and traffic, at Cloud Run | failure and death between two calls |

The services call each other nowhere in the tree and share no state, with one exception:
the routes share the database, so they are one module.

`PROJECT.json` lists every component with its status; section 7 says what is not modelled
and why.  `main.py` and `app_example.py` compose the system only in part: `main.py` imports packages
and names the tree does not have (`app.core.config`, `SentinelCoreMiddleware` and others), so the
components run one by one, which is how they are modelled.  The real interactions are the one
`app_example.py` sets up, outbox, store and monitor, and the one between `reconnect.py`
and `kill_switch.sh`; both are composed here.

## 2. The modules

| Module | Models | Composition |
|---|---|---|
| `Outbox` | the backend's `SyncManager` on its `LocalStore` | |
| `OutboxProofs` | theorems about `Outbox` | EXTENDS `Outbox` |
| `NetworkMonitor` | the monitor | |
| `FailoverAgent` | the worker's wake-ups on top of the monitor | EXTENDS `NetworkMonitor` |
| `FailoverAgentProofs` | theorems about both | EXTENDS `FailoverAgent` |
| `OfflineQueue` | `offline_queue.py` | |
| `OfflineQueueProofs` | theorems about it | EXTENDS `OfflineQueue` |
| `FieldMerge` | `merge_fields()` and `resolve()`, pure operators | |
| `SyncMerge` | the root `sync_manager.py` and the server it asks for | EXTENDS `FieldMerge` |
| `SyncMergeProofs` | theorems about the merge rules and the synchroniser | EXTENDS `SyncMerge` |
| `KillSwitch` | the script, call by call, and its lock | |
| `Reconnect` | the watchdog, an operator and a pending revert | EXTENDS `KillSwitch` |
| `ReconnectProofs` | theorems about the switch and its users | EXTENDS `Reconnect` |
| `FallbackRouter` | `fallback_router.py` | |
| `FallbackRouterProofs` | theorems about the router | EXTENDS `FallbackRouter` |
| `AIGateway` | `generate_completion()`, its retries and circuits | INSTANCE `Completion` |
| `Completion` | what the gateway promises: the abstract specification | refined by `AIGateway` |
| `ExternalAgent` | `request()` with breaker, token and versions | |
| `NexusBridge` | bus, wrappers, activation and shutdown | |
| `ChatService` | a session and its concurrent senders | |
| `ApiTransactions` | the routes that write, and READ COMMITTED | |
| `UserService` | accounts and tokens on the in-memory repository | |
| `BlackholeSync` | a ban on several nodes and in Redis | |
| `ImmuneSystem` | quarantine, cascade and probing of guarded modules | |
| `Sentinel` | one client's windows and quarantines | |
| `Toolkit` | calls of a tool | |
| `VectorSearch` | store, query, delete | |
| `DeviceBans` | bans, saves and restarts | |
| `Moderation`, `ComplianceGuard` | a guarded call; a scanned payload | |
| `Deployment` | the pipeline and the traffic | |
| `Services` | the services side by side, for any values of their constants | EXTENDS `AIGateway`, INSTANCE of the others |
| `ServicesProofs` | theorems about twelve of them, a section each | EXTENDS `Services` |
| `ServicesTypesProofs` | the types of all of them, and the answers of vector search | EXTENDS `ServicesProofs` |
| `MC...` | values of the constants for TLC | EXTEND the above |

How state and actions correspond to the code:

- *Grain.*  In asyncio code an action is what runs between two awaits, and each await is
  a value of a program counter.  In threaded code an action is one transaction, one
  lock acquisition, one request or one check.  In shell code it is one external call.
  What other actors may do in between is what the models are for.
- *Outbox.*  `row` is the table by its UNIQUE column; `Claimed`, `Completed`, `Retried`,
  `Parked`, `Released`, `Inserted` and `Recovered` are what the transactions of
  `local_store.py` leave.  `call` follows each `submit()`, `dpc` each `drain()`;
  `batch` and `taken` are its local variables.  `orphan` holds the transactions whose
  coroutine `stop()` cancelled: `asyncio.to_thread` cannot stop a thread, so
  they commit later, or never.  `cloud` is the set of accepted idempotency keys.
- *Monitor and worker.*  `status`, `okStreak`, `failStreak`, `event`, `wake` are the
  object's attributes; `task` is `check` while probes are awaited and `wait` in the
  timed wait; `notices` are the listener tasks in the order asyncio runs them.
  `FailoverAgent` adds the worker's loop and its `_trigger`, and abstracts a drain to
  its result, which `Outbox` treats in full.  `Outbox` in turn lets the worker wake at
  any time, so the two split one program by question.
- *Offline queue.*  `holder` is the thread lock, per process; `fpc`, `rows`, `cur` are
  the flush under way; `bg`, `life`, `stopSet` the background thread as its owner sees it.
  `online` is what the probe of 1.1.1.1 finds and `up` the hosts that can be reached, which fail
  one by one or together; a request in `broken` raises at every attempt what `_attempt()` does not
  catch (an unknown URL type, an answer that is not HTTP), and `FlushRaises`, `CallRaises`
  and `BgRaises` are passing exceptions, of SQLite too.
- *Record synchronisation.*  A row carries data, base, version, `ts`, `deleted`, `dirty`;
  `snap` is the row read before the write transaction, `sent` the rows of the batch,
  `results` the answers.  Edits come from other threads at every step.  `Abort` is an exception the
  loop catches, `Escape` one that ends the thread until `Start` is called again.  The server
  is the protocol in the module docstring: `hist` and `log` are its versions and changes.
- *Kill switch.*  `table` is the nft table, `chain` and `jump` the iptables chains and
  hooks; `Script` is the list of calls a command makes, `at` how far it is.
  `Blocked` reads what the kernel would do, `Active` what `status` prints.
- *Watchdog.*  `pc` walks through `cycle()`; `recent` is the state file, with FALSE for an
  entry that was never written.  `run_checks` stands for the five host checks: the
  watchdog only uses their conjunction, so one verdict that may change at any time is
  every behaviour they can show.
- *Router.*  `state` and `failures` are the breaker, whose methods are atomic; `pc` walks
  through `_route`.  A body is the version of the resource it shows.

- *Gateway and agents.*  `stage` and `phase` follow each request through its awaits; a reply is
  its class, since the code branches on nothing else.  Time is only "the cool-down is over".
- *Bridge.*  A publication waits for the tree of everything published below it, so `pending`
  holds the calls still to run, tagged with the activation or shutdown at the root.
- *Chat and routes.*  `sending` is where each `send_message()` stands.  `tx` is the open transaction of
  each request: what it has read, flushed (and locked) and not yet committed.
- *User service.*  Its repository never suspends, so each call is one step.  `by_id` and `by_email` are
  the two dictionaries; a hash is the password it verifies; `issued` is the tokens in circulation.
- *Blackhole, bans, patcher.*  One target, device or module table; `op`, `saves` and `cascade` are the
  calls under way, `inbox` the channel.  Copies of one ban expire together.  A call may end before it
  sets the key or publishes (`Abandon`, `Die`); `silent` remembers a ban that nobody was told of.
- *Sentinel.*  Times are ages in ticks, so the state space is finite without a bound on time.
- *Toolkit, search, moderation, compliance.*  One record per call under way; a text is the
  categories it belongs to, an embedding an integer vector, a payload a function from paths to what
  the string there holds, a key the sequence of words, numbers, dots and brackets that splitting its
  text makes a difference for.
- *Deployment.*  `step` is the stage, `latest`, `full`, `share` what Cloud Run keeps.

Variables marked *history* in the declarations exist for properties only.  The
definitions above others whose comment starts with *Slip* are variants of code
that contain a plausible mistake; each run's properties have been tested by replacing
the right definition by such a variant and watching the property fail.

## 3. The runs

| Run | Question | Result |
|---|---|---|
| `outbox` | three calls, two of which share a key, a worker and `sync_now()`, one `stop()`, transactions that fail, answers that get lost: is anything lost, written twice or overtaken? | `NoLoss`, `SoleWriter`, `NoOvertake` hold |
| `outbox_live` | two calls, one crash, the network at will: FIFO, no orphaned claims, does all settle? | `DrainFIFO`, `InFlightOwned`, `QueuedSettles` hold |
| `outbox_leftovers` | does `start()` pick up what an earlier `stop()` left? | `LeftoversRecovered` is violated (section 6) |
| `agent` | monitor and worker together: hysteresis, lost wake-ups, prompt drains | `NoSleepOnWork`, `Hysteresis`, `ReportRechecks`, `FindsOut`, `PromptDrain` hold |
| `queue` | two calls to two hosts, the background thread, and two troubles: a crash, a `stop()`, a probe or host that goes down, a broken request, an uncaught exception | `NoLoss`, `FIFO`, `DuplicatesExplained`, `StoredSettles` hold |
| `queue_restart` | is there a flusher after `stop()` and `start()`? | `BackgroundRuns` is violated |
| `merge` | a record of two fields edited on both sides, a failed or unanswered request or an uncaught exception, a crash | `CopiesTrue`, `CursorSound`, `MergedWell`, `DirtySyncs` hold |
| `merge_lost_edit` | can an edit of this device be overwritten and count as synced, with no other device about? | `SyncedAsWritten` is violated |
| `watchdog` | watchdog, operator with two commands, pending revert, both back ends, one killed command, one crash, reboot or failed write | `StatusTruthful`, `NoHole`, `FlappingGuard`, `ComesBack`, `RevertLifts` hold |
| `watchdog_hold` | is HOLD never overridden? | `HoldKept` is violated |
| `router` | two threads, two caches, a primary that is up, sick or down, one stray exception | `BreakerCoherent`, `OneTrial`, `Recovers` hold |
| `services` | the fifteen services, side by side | the thirteen properties below hold |

The services share no state, so `Services` picks one in the initial state and lets only it
take steps: the reachable states are the sum of the parts, not their product, and each part is checked
completely, with the fairness of its own module.

| Property | What it says |
|---|---|
| `ImplementsCompletion` | the gateway refines `Completion`: chain order, bounded calls, answers from a provider that was asked, failure only after the last, and an end to every request |
| `TrialUnderWay` | a half-open breaker of an external agent that refuses everybody waits for a call under way |
| `EveryCallEnds` | activations and shutdowns of the bridge end with a module that always raises; every tool call that was let in returns, whoever hangs or is cancelled ahead of it |
| `RevivedOnlyByLateReply` | a cleared chat session comes back only through a reply that was under way |
| `RowsConsistent` | emails stay unique and no question is without its answer, however transactions overlap and fail; the user repository's two dictionaries agree |
| `BanReaches` | a ban in Redis is in force at every other node that listens and has caught up, unless its call ended before it published |
| `Contained` | outside a cascade, what depends on an unhealthy module is quarantined |
| `AdmittedWithinLimit` | no window admits more requests of a client than the limit, across quarantine and pruning |
| `AnswersBest` | a query returns the most similar records of that moment, best first |
| `PromisesKept` | what `ban()` and `unban()` have returned survives overlapping saves and restarts |
| `ModeratedWell` | nothing objectionable passes, in prompt or output, and nothing else is stopped |
| `AnonymizedWell` | string by string: what the scan found under plain keys is anonymized whatever the other keys are; only a finding under a key with dots, brackets or digits overwrites another string or makes `evaluate()` raise |
| `FullIsSoaked` | the main share of traffic never goes to a revision nobody observed |

A type invariant is part of one property of each run (`NoLoss`, `CopiesTrue`, `StatusTruthful`,
`NoSleepOnWork`, `BreakerCoherent`; `AnswersBest` covers every service), never a property of its own.

**Bounds.**  Each is a constant that appears in a guard.  Two or three calls, one
record and two caches suffice because the properties relate at most two requests,
one record with its server history, or one trial with one other report.  Thresholds are the smallest
value for which "fewer", "exactly" and "more" differ (`MaxAttempts`, `Threshold`,
`FailureThreshold` 2, `RecoveryThreshold` 3, `StablePasses` 2, `MaxReconnects` 1).  Batches
of 2 contain a second item to lose.  One crash, one `stop()`, one fault or one killed command
may fall at every step, which is where their danger lies; in `queue` one budget of two (`MaxTroubles`) is
shared by all that can go wrong, so that any two of them meet, and as the calls differ in nothing but
their host the first is taken to be stored first (`FirstIsC1`); `merge_lost_edit` needs an exception (or a failed
probe) so that a change of its own is pulled into a clean row; `MaxEdits`, `MaxRemote` leave room
for an edit during a push, a conflict and another edit.  `Families` of one
and `Hooks` of two let a command be half done; `MaxNotices` is how many listener tasks may be
waiting.  In `services`: two requests on two providers, so that one opens the circuit the other is
about to use; three senders, so that one replies, one is late and one is new; three calls of a tool for one slot;
two routes at a time, which is what a conflict needs; a cascade over a chain of three modules while two
tasks run; two user ids, so that an account can be deleted and its email registered again; one operated node and one other; two related devices, three overlapping saves and one death;
three deployments, so that a failed one lies between two others; payloads of one or two strings over plain keys,
list places and keys that read differently in a path (a dot or bracket, digits, a superscript, the empty key); scores
on both sides of the threshold of the soft category, up to two per category, and the default threshold of 0 of the
hard one.  The search part has one namespace, so that the run says nothing of isolation: that is the theorem
`QueriesFindBest`, for any set of namespaces.  `CHECK_DEADLOCK FALSE` stands where the system really comes to rest: all calls
made, all bounds used, nothing pending.  `outbox` identifies the two calls that share a key
(SYMMETRY; its properties are safety properties that treat all calls alike).

**Fairness.**  Weak fairness of each coroutine, thread or process that can take a step:
event loops, the interpreter and the kernel run what is runnable.  Time passes (back-off,
recovery time-outs, the hour of the flapping guard).  A process that died is started again
(its supervisor), and a started thread runs.  Nothing is assumed of the network, servers, users, operators, `stop()`,
crashes or failures: they may or may not happen.  A provider's call is cut off by `wait_for()`,
a tool's by its timeout, and a handler of the bridge returns or raises; nothing else of the services is fair.
A liveness property that needs more of the environment says so in its premise (`<>[]online`,
"the primary stays up and requests keep coming").  Nobody need call `start()` again when an exception has ended a thread
of `OfflineQueue` or `SyncMerge`; without that nothing is sent any more, so `StoredSettles` and `DirtySyncs` have as
their premise that the thread is there again and again.  `StoredSettles` further takes for granted that the queue is
not stopped, and of the hosts and requests only that those up to the one in question are not stuck (`WayIsFree`).

## 4. What is proved

All theorems hold for every value of the constants that satisfies the modules'
`ASSUME`s (thresholds and batch sizes at least 1, bounds natural numbers, every call has
a key); the bounds of the models are arbitrary constants there.  Where a theorem needs more of
its constants, it says so as a named hypothesis, which the run satisfies:

| Hypothesis | Theorem | Why it is needed, and what holds without it |
|---|---|---|
| `SingleProcess` | `ReplayedInOrder`, `DuplicatesHaveACause` | the lock is a thread lock: two processes on one file do overtake and repeat each other (section 6) |
| `~StoreMayFail`, `MaxStops = 0` | `InFlightIsDelivered` | a store that raises, or a `stop()`, leaves a row claimed (section 6) |
| `OneOperator` | `BanReachesAll` | two operated nodes may write the key and the messages in different orders |
| `AdminsHaveEmails` | `RowsStayConsistent` | the rows the platform starts with are consistent |
| `IdleOutlastsWindow` | `LimitHolds` | `prune_idle()` with a shorter time forgets a window that still counts; the code's defaults are an hour and a minute |
| `ScoresAreTenths` | `OnlyObjectionableStopped` | scores and thresholds lie in one range |
| `DependenciesAreTrees` | `QuarantineContains` | with two ways from one module to another containment fails (section 6, item 15) |
| `PayloadsAreTrees` | `CopiesAreAnonymized` | a payload is a dictionary: its strings lie under one key or more and no string has anything below it; a place of a list is not taken for digits |
| `ServicesConstants` | `ServicesTyped`, `QueriesFindBest` | limits, sizes and bounds are numbers, embeddings are sequences of integers, leaves of payloads hold what the scan tells apart (`PayloadsAreScanned`), what may fail is a module (`Failing`), a module is guarded, a breaker takes at least one trial, one attempt and one version; with `AdminsHaveEmails`, `ScoresAreTenths` and `IdleOutlastsWindow`, because the invariants of those sections are used for their types |

**`OutboxProofs`.**

- `TypeCorrect`: `Spec => []TypeOK`, one lemma per family of actions.
- `NeverLost`: `Spec => []NoLoss`.  `NoLoss` alone is not inductive: `complete()` deletes a row, so
  the proof needs that a drain completes only what the cloud has accepted.  `LossInv` adds
  `Confirmed` (a drain or orphan that is about to complete has its key in `cloud`) and `OneTaken`
  (at most one item in hand, so an answer belongs to the item sent).  The heart is `RowsStay`: no transaction but
  `complete` makes a row absent.
- `OneWriter`: `Spec => []SoleWriter`.  `WriterInv` adds `LockHeld` (at most one drain past the
  lock) and `DownQuiet` (no coroutine survives the process).  A claim succeeds only on a pending row, whereas
  claimed ones are in flight (`ClaimSucceeds`), and no other step moves a row out of
  flight (`InFlightKept`).  Every orphan has its own key by the same argument.
- `DirectSendsInOrder`: `Spec => NoOvertake`.  `OrderInv` strengthens it to the call that has counted the backlog:
  from then on no live row is older than its call, because ids only grow and a
  row that left the outbox never becomes live again under its old id (`DrainRevivesNone`,
  `EnvRevivesNone`); this needs `WriterInv`, as a stray writer could revive one.
- `DrainsInOrder`: `Spec => DrainFIFO`.  `FifoInv` adds what makes a batch a snapshot worth trusting: ids are unique
  and below the next one (`RowIds`), what drains hold has such ids too (`HeldIds`), and the batch of a drain is a
  prefix of the pending rows behind the item it delivers (`Ordered`).  Nothing is put back behind a drain's back
  until the first `stop()` (`NeverStopped`).
- `InFlightIsDelivered`: `Spec => []InFlightOwned`.  `OwnInv` is `WriterInv` with the property until a `stop()`; each
  write of a drain takes its row out of flight in the step in which the drain gives it up, and `_open()` puts back
  what a crash left.

**`OfflineQueueProofs`.**

- `StoredRequestsAreKept`: `Spec => []NoLoss`, for any number of processes and threads.  `QInv` says what a flush knows
  between the answer and the DELETE (`AnswerIsTrue`, `OneCur`), and who holds the lock (`HolderFlushes`).
- `ReplayedInOrder`: `Spec => FIFO`, and `DuplicatesHaveACause`: `Spec => DuplicatesExplained`, for one process.  While the
  lock is held the snapshot still is the table for the rows it has (`SnapshotCurrent`), every other pending row
  is newer (`LaterIsNewer`), and an accepted request that is pending was lost on the way or is in the
  flusher's hands (`Unnoticed`).  All three hold over exceptions that leave `flush()`: they take away what the flush knows,
  with the lock.

**`FailoverAgentProofs`.**

- `AgentImplementsMonitor`: `AgentSpec => MonSpec`.  The composition refines its part: every step is one of
  the monitor's or leaves its variables alone, so what is proved of the monitor holds in the composition.
- `StatusHasHysteresis`: `MonSpec => Hysteresis`.  `MonInv` ties the two streaks to the history of the results
  (`StreaksCount`) and the status to the streaks (`StatusFollows`); `AgentKeepsHysteresis` carries it over.
- `WorkerIsWoken`: `AgentSpec => []NoSleepOnWork`.  `AgentInv` says it also of a worker in its drain, which
  may end with the event it has not seen.

**`SyncMergeProofs`.**

- The merge rules, for any fields, values and time stamps: `NoEditDropped`, `NothingInvented`, `DevicesAgree` (two
  devices that resolve the same pair of edits from opposite sides agree, unless their time stamps are equal, when
  each keeps its own) and `OwnPushIsNoConflict` (a push whose answer was lost conflicts with itself harmlessly).
- `CopiesStayTrue`: `Spec => []CopiesTrue`.  `SyncInv` adds that the versions the synchroniser speaks of are the server's
  (`Versions`), that no stamp lies ahead of the clock (`Stamped`), and the reason for the check of `ts` in the
  answer: a row whose stamp is still the one sent is what was sent (`Unedited`, in `Pushed`).  A thread or process that ends
  takes with it what it had in hand (`EndKeepsSync`), and a push that was processed only adds versions (`PushGrows`).
- `CursorStaysSound`: `Spec => []CursorSound`.  `CursorInv`: every change before the cursor has reached its record, and
  every one before the next cursor has or still waits in the pull under way (`Covered`); no change takes a record
  back (`Ahead`); the log has at most one entry for each version (`Counted`).
- `MergesKeepBothSides`: `Spec => MergedWell`, from `SyncInv` and `NoEditDropped`.

**`ReconnectProofs`.**

- `OnOpensNoHole`: `Spec => NoHole`.  No call of an "on" takes a rule away; needs only the types, in particular that the
  script of any number of families and hooks consists of calls on its parts (`PerFamily`, `HookByHook`).
- `FlappingIsBounded`: `Spec => []FlappingGuard`.  `Rated` says that there is room for one more while the watchdog is
  between its gate and the record.
- `StatusTellsTheTruth`: `Spec => []StatusTruthful`.  `Tidy`: one command at a time under the lock (`Locked`), and while one
  runs, what its calls have done so far stands (`Progress`), so that at its end all parts are set or none.

**`FallbackRouterProofs`.**

- `BreakerStaysCoherent`: `Spec => [](TypeOK /\ BreakerCoherent)`, for any number of threads and
  threshold.  The conjunction is inductive; `ReportKeeps` treats a report in any state of
  the breaker, in particular the late ones.
- `TrialReports`: `Spec => []OneTrial`.  Inductive given the former: only an open breaker admits a trial, any
  report ends the half-open state, and a request that is under way either stays so or reports (`TrialGoesOn`).

**`ServicesProofs`.**  Each theorem is about `ServicesSpec`; a first lemma of each section (`ChatSteps`, `HoleSteps`, ...)
says that a step of the whole is one of its service or leaves it alone.

- `ClearedStaysCleared` (`RevivedOnlyByLateReply`).  `LateKnown`: while the session is gone, every call that awaits its provider was
  under way when it went, because without a session nobody begins one.
- `BanReachesAll` (`BanReaches`).  `Reached` says of every node what the last thing is it will hear or read: its last
  message, or the record its scan holds, or what it holds.  A publication makes that the ban for all that listen
  at once, whatever they have read, and whoever subscribes later finds the key.  `AllTold` says what is left of this when
  a call ended half-way: until the next publication only those who scan after it know the key, so the theorem is about
  bans that are not `silent`, and a call that publishes puts everything right, whatever ended before it (`EarlyEnds`).
- `BansSurvive` (`PromisesKept`).  Snapshots are saved in the order they were taken, so the last call under way on a device
  decides (`LastDecides`): all later snapshots and the memory agree with it but for expired bans that `check()`
  dropped.  When it returns, memory, file and pending snapshots agree on the device (`Settled`), which no save
  of another device changes.
- `TrialsReport` (`TrialUnderWay`).  Any report, late or not, ends the half-open state, so whoever was let in since is still
  in its call (`TrialsCalling`), until a caller is lost.
- `TrafficIsSoaked` (`FullIsSoaked`).  `DeployInv`: promotion and rollback are reached only from the end of a soak of the latest revision.
- `RowsStayConsistent` (`RowsConsistent`).  `RowsInv`: an address that a transaction has flushed is nobody's (`Reserved`), and no
  other transaction flushed it (`Apart`), so every commit keeps them unique.  `AccountsInv`: an id has at most one
  record and none before it is drawn, so that a deletion takes away exactly the entry of its email.
- `LimitHolds` (`AdmittedWithinLimit`).  `Followed`: the k-th last admission is matched by the k-th last request time of the record,
  which is as young.  Refused requests only help; what is trimmed or pruned is too old to match.
- `OnlyObjectionableStopped` (`ModeratedWell`).  `ModInv` ties what was heard to the stage; the maximum that `merge_scores()` takes
  exceeds a threshold if one of the scores does.
- `QuarantineContains` (`Contained`).  `Held`: what depends on a module out of service is quarantined or still to be visited.
  The delicate step is a module that recovers during the cascade: as dependencies are trees, the one module it
  depends on was visited before it (`CascadeReached`), and is not visited again.
- `Typed` and `GatewayKeepsPromise` (`Spec => KeepsPromise`, which is `Completion`'s specification under the mapping).  The
  mapping computes the calls made from stage and attempt (`made`), which is a function of the state only because attempts
  are 0 between providers and an unfinished request has no outcome (`Consistent`).  Every step is then a call, a passing
  over, an end, or hidden (`StepImplements`).  That requests end is checked by TLC, since it rests on fairness.
- `CopiesAreAnonymized` (`AnonymizedWell`).  A plain key is one part of a field path and that part is itself (`PlainKeyStays`), so a path
  of plain keys, written as text and split again, is itself (`PlainPathStays`), by induction over its length: a shortest
  counterexample has none (`FlattenOfOnes`, from `SmallestExists`).  Such a path leads to the string it came from and
  raises nothing (`PlainPathsDoNotRaise`), whatever the other keys of the payload read as; what the others may do is
  in `GuardInv`, which keeps of `evaluate()` that each string it changed is where a finding's parts lead.

**`ServicesTypesProofs`.**

- `ServicesTyped`: `ServicesSpec => []ServicesTypeOK`, a section and an invariant for each service (`TypesInv`).  Most types are
  kept by every step alone; the counts are not.  A pipeline that has begun has a number left for its revision
  (`DeployTyped`); a caller of an agent on its way to an attempt has one left, and the breaker lets in no
  trial above its limit (`AgentTyped`); the slots taken and the slots left of a tool make up its semaphore, so that none is given back
  twice (`ToolInv`); what the bridge has pending is a bag (`PublishedBag`, `ReducedBag`).
- `QueriesFindBest` (`AnswersBest`).  A score is a fraction with a positive denominator (`ScoreTypes`; `DotType` from the
  sum of squares), so that comparing scores without division orders records totally (`FractionsInOrder`,
  `BeforeOrders`).  The place of a record in the order is the number of those before it, which is what `Arranged` takes
  from `sorted()`: these numbers are a bijection with the places (`ArrangedInOrder`), and filtering keeps the order
  (`KeptInOrder`).  Of the sorted records the first `top_k` are taken and then filtered; as one that is as close as one
  below the threshold is below it too (`FailingIsClosed`), none that passes is lost by the order of the two
  (`MatchesAreBest`).  `SearchInv` adds that a namespace holds one record per id, through every upsert and deletion.
- A function defined by recursion (`Dot`, `Doubled`, `upsert_batch`) is what its equation says only if there is one
  that satisfies the equation: `FollowerExists` says so for every bound, from `KeptUpTo`, which is induction for a set of
  numbers instead of an operator and so within the provers' reach.

Only model-checked: every liveness property (`QueuedSettles`, `StoredSettles`, `ReportRechecks`, `FindsOut`, `PromptDrain`,
`DirtySyncs`, `ComesBack`, `RevertLifts`, `Recovers`, `EveryCallEnds` and the ends in `ImplementsCompletion`), as fairness
is out of the prover's reach.  Every other property of the passing runs is a theorem.

## 5. What is abstracted

Payloads, wording and logs; delays and intervals (a wait may end whenever its condition
allows); the cloud, HTTP servers, SQLite and firewall tools beyond the guarantees
the code relies on (a transaction is atomic and durable, a server deduplicates by key or version).  Also:

- `Outbox` leaves out the response cache of `LocalStore` and `status()`, which no decision reads.
- `OfflineQueue`: an `enqueue()` that raises stores nothing and is no step.  It is checked with one process; a second process on the same file is modelled
  (`Procs`, `ProcOf`) but breaks the lock's premise, see section 6.
- `SyncMerge` pushes all dirty records in one batch and has one synchroniser; `trigger()` and `stop()` only change
  when the loop goes round, and `stop()` and `start()` are those of `OfflineQueue` (item 2).
- `KillSwitch` leaves out allow lists, preflight and dry runs; a refused `on` changes nothing.
- `Reconnect` fixes the default configuration: script present, no managed interfaces.
- `FallbackRouter` has one path; the time to live of an entry only labels an answer.
- `NexusBridge`: modules subscribe to the wildcard alone, as `ModuleBase` does; the event history is left out.
- `BlackholeSync`: one target that is not allow-listed, memory that is not full, valid signatures.
- `ApiTransactions`: PostgreSQL at READ COMMITTED, with the locks and the unique index the routes rely on.
- `UserService`: the in-memory repository, the only one in the tree; `is_active`, which nobody clears; malformed emails.
- `ImmuneSystem`: the run's dependencies are a chain (section 6, item 15).
- `DeviceBans`: no save raises, and none is cancelled while it waits for the lock or its thread writes (such a call
  returns no promise, and what others were promised does not rest on it); the matching of fingerprints is an input.
- `Deployment`: a canary's share is the smaller one, `canary_percent` below 50 (10 by default).
- `Toolkit`: handlers end when they are cancelled.
- `VectorSearch`: a similarity threshold is zero, the default, or lower than any score.
- `Moderation` and `ComplianceGuard`: what patterns and classifier find is an input.  Of `Moderation` the run has the default
  threshold of a hard category only (item 16 is about others).  In `ComplianceGuard` every branch of a payload ends in
  strings, a number is written in one way, and whether a string is long enough to be indexed is a choice.

## 6. Disagreements between the code and what it says

1. `sync_manager.py:129` of the backend says `start()` drains "anything left over from a previous run".
   A `stop()` that cancels the worker while it awaits `claim()` leaves the row `in_flight`
   when the thread commits; only the next `LocalStore.open()` returns it to `pending`
   (run `outbox_leftovers`).
2. `offline_queue.py:12` shows `q.start()` as the way to have a background flusher.  `stop()` gives up
   waiting after 5 s, while a request may last 10 s; the `start()` after it sees the old thread
   alive and returns, and the old thread ends (run `queue_restart`).
3. `sync_manager.py:16` promises "only local changed -> keep local".  `_apply_server_change`
   reads the row before its transaction.  When the row it read was clean, an edit between the two is overwritten
   by the server's copy and marked clean, even when that copy is this device's own earlier edit: pushed, marked
   clean, and pulled again by a thread that was started anew (run `merge_lost_edit`).  When it was dirty, the edit
   is overwritten by a merge of the older row, which stays dirty.
4. `reconnect.py:31-33` says a HOLD file is never overridden.  `cycle()` looks once, before
   passes that take 40 s by default (run `watchdog_hold`).

Without a run of their own.  Item 14 was read in the source and is not modelled; items 5, 10, 15 and 16 need other constants
than the run's; the others are behaviours of the runs that pass, whose properties are stated with the condition that
excludes them.

5. `nexus_bridge.py:47-48`: "Raising from any of these never brings the bridge down".  Two modules that
   raise answer each other's reports for ever, and what publishes waits for them.
6. `ai_gateway.py:383-385` promises one exception type; a body that is not JSON raises `ValueError` past retries,
   circuit and fallbacks.
7. `Admin.py:118-122` means to keep an administrator; two who demote each other at once leave none.
8. `chat_service.py:208`: `end_session()` discards a session, and a late reply stores it again.
9. `orchestrator.py:169`: `rollback()` uses `--to-latest`, which is the failing canary, and gives it all traffic.
10. `orchestrator.py:178`: with the human-approval hook enabled every promotion is rejected.
11. `compliance_guard.py:253`: matches under keys with dots, brackets or digits stay in clear, or another string is
    overwritten in their place; a match under the empty key raises `IndexError`, one under a superscript `ValueError`, and
    a path that leads into a string `TypeError`.
12. `sentinel_core.py:332-335`: a client that only sends suspicious requests has no request times, so it counts as
    quiet, loses its strikes and is pruned.
13. `vector_search.py:327`: a store that awaits its embedding puts a record back after the purge of its namespace.
14. `useAppStore.js:75-76`: a late 401 of the old session clears the token of the new one (`api.js:136-141`), and
    `setUnauthorizedHandler` is never called.  Read, not modelled.
15. `auto_immune_patcher.py:106-113` visits a module once per cascade.  Where web depends on db and on auth, and auth on
    db, a cascade from db may visit web first and await its event callback for longer than the cooldowns; db
    recovers, web is put on trial, and when auth is quarantined web is passed over: it serves although what it
    depends on is quarantined.  `ImmuneSystem` with these dependencies violates `Contained` in twelve
    states; it came to light when the invariant `Held` turned out not to be inductive.

16. `moderation.py:54`: "Categories that should always hard-block regardless of confidence/config."  Whether a classifier's
    hit is flagged depends on the threshold configured (line 253); with a raised one for a hard category, a hit below
    it passes.
17. `offline_queue.py:12` and `118` ("background flusher", "Stops at the first network failure"): `_attempt()` catches
    `HTTPError` and `OSError` only.  A `ValueError` (unknown URL type), an `HTTPException` or an error of SQLite
    leaves `flush()`: the thread ends, and the row is not counted and raises again at the head of every later flush.  A
    host that cannot be reached holds up the requests to every other one in the same way, uncounted, for ever.
18. `sync_manager.py:9` and `39` (root): "watches the server's health endpoint", "synced automatically when online".
    Lines 221 and 329 catch `NetworkError` and `ServerError` only; an answer that is not JSON (211) or not HTTP, one
    without `results` (265) or an error of SQLite ends the watcher thread for good.

Weaker than one might expect, though nothing in the code promises more:

- A key submitted again after its row was parked as dead is answered "queued" (`local_store.py:130`);
  the row stays dead, for an operator.
- After a reconnection whose `sync_once()` failed, remote changes are not pulled again while the server stays
  up and nothing is dirty (`sync_manager.py:335`).
- Two processes on one `queue.db` do not exclude one another: their attempt counts overwrite each other and
  requests may be sent twice (the server deduplicates by key).
- The `--revert-after` process inherits the lock's descriptor and holds the lock while it
  sleeps: until it wakes every other `on` or `off` fails, including the watchdog's `reisolate()`,
  whose exit code is only logged.  `direct_unblock()` gets past it.
- After `no_internet`, or a crash before the re-check, a lift is never re-checked.
- An exception of `urllib` that is not one of `NETWORK_ERRORS` (a path that cannot be encoded) skips
  `record_failure()`.  If it was the trial the breaker stays half-open for ever, so
  `OneTrial` and `Recovers` are conditioned on `raises = 0`.
- A slow GET may put an older body over a newer one in a cache.
- A transaction that fails after the cloud has answered leaves its row in flight until the store is opened again.
- A trial of an external agent that is cancelled, or ends in an unknown exception, never gives its half-open slot back.
- A ban or unban whose call ends between the key and the message (Redis raises, the call is cancelled, the process dies:
  `quantum_blackhole_sync.py:117-119`, `127-129`) is not told to nodes that listen already: they go on without it until the
  next call about the target that publishes, or until they connect anew.
- A node passes over its own messages: an expired record that its scan still held replaces a ban it has just made.
- A cancelled cascade of the patcher leaves dependents in service.
- `ban(ttl=0)` of a device is permanent, like a ban without a ttl.

`PROJECT.json` lists the hazards with their lines and the properties that answer them.

## 7. Not modelled, and what could follow

- *Frontend.*  Presentation around one token; its disagreement is item 14 above.
- *Login and tokens of the routes; encryption and the vaults.*  Tokens are signatures and times, and the properties
  worth having are about the primitives.  `UserService`, which no route calls, is modelled with its tokens as payloads.
- *Feature generator.*  A straight line of steps over syntax trees without state.
- *Traffic limits.*  The windows repeat `Sentinel`; the regression is floating point.
- *Decoys.*  Random answers and logs on which nothing depends.
- *Deployment files and `main.py`.*  Configuration, and a start-up that cannot run in this tree.

What could follow on the side of proofs: for each liveness property, that the steps fairness promises decrease a measure
and that no other step increases it, which leaves to TLC only the argument from fairness.
