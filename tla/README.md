# Verification of the distributed live-streaming platform

TLA+ models of the platform under `src/codebase`, the TLC configurations that
check them on small instances, and TLAPS proofs that the safety properties of
each component hold for every value of its constants.
Paths below are relative to `src/codebase` unless they start with `src/`.

## 1. The system

A publisher streams RTMP to the ingest server, whose callbacks the ingest
service turns into API calls. The API keeps the life of every live in
PostgreSQL and announces changes through a transactional outbox. A relay in
each API process publishes the outbox to RabbitMQ. The orchestrator consumes
the events and keeps one FFmpeg worker container per running live. The worker
writes HLS segments to a shared volume, points the live's link `current` at its
own directory, and reports to the API that the live can be played. Viewers get
the catalogue from the BFF, video from the HLS origin, and chat from the chat
service. A health monitor restarts the orchestrator; a failover monitor
promotes the PostgreSQL replica.

```
publisher -> ingest -> API --(lives, sessions, outbox: PostgreSQL)
                        ^        |
                        |        v  OutboxRelay (one per API process)
             ready      |     RabbitMQ: orchestrator.live-lifecycle.v1 (+ dlq)
                        |        |
                     worker <- Docker <- orchestrator <- health monitor
                        |                (loads its state from PostgreSQL)
                        v
                   HLS volume -> origin -> viewers (BFF, frontend, chat)
```

### Inventory

| Component | State | Operations | Hard behaviour | What makes it correct | Module |
|---|---|---|---|---|---|
| API lifecycle (`api-service`: service, postgres) | rows of `lives`, `ingest_sessions`, `outbox_events` | create_live, ingest_started, ingest_stopped, worker_ready | processes interleave between read and compare-and-swap; duplicate, late and racing callbacks | one publisher; row, session and event agree; ended is final; the announced generation never falls | `LiveLifecycle`, `LiveService` |
| Outbox relay (`outbox.py`) | `published_at`, the batch in memory | poll, publish (2 attempts), mark | death between publish and mark; several relays with stale batches | nothing lost; first copies in order; everything published | `OutboxRelay` |
| RabbitMQ topology (`message-broker`) | lifecycle queue, DLQ | route, deliver, requeue, dead-letter | redelivery, delivery limit | (part of the orchestrator and the relay) | `Orchestrator` |
| Orchestrator (`worker-pool-orchestrator`) | records, processed events, lock; containers in Docker | handle, reconcile, load | two threads, every Docker call may fail half-way, memory is lost | one worker per live; no unwanted start; records never go back; workers come back | `Orchestrator` |
| Worker (`worker`) | FFmpeg process, `_ready_published`; directory and link on the volume | start, health poll, activate, notify, stop | report lost, refused, repeated; container begins again; generations in any order | viewers are sent where the API says something plays | `WorkerPublication` |
| Health monitor (`healthcheck`), with the orchestrator's health probe | failures, cooldown; `OrchestratorHealth` | check_once, restart; the consumer connects and fails | restart that fails or half-succeeds; slow boot; RabbitMQ away | restarts only when earned; no restart storm | `HealthMonitor` |
| PostgreSQL pair (`postgres-ha`) | nodes, roles, logs; HAProxy's view; monitor's counters | write, replicate, check, promote | two independent judges, no fencing, asynchronous replication | one history; writes resume | `PostgresFailover` |
| Chat hub (`chat-service`: hub, http) | sets of sockets by live and by user, owners; frames on their way | connect, disconnect, broadcast | `await` between check and add; sets replaced meanwhile; receivers of different speed | no ghosts; limits; nothing skipped | `ConnectionHub` |
| Chat broker (`chat-service`: service, broker, Redis/Lua) | sequence numbers, dedupe cache | send, publish_once | repetition, expiry, capacity, a Redis answer that is lost | one message per client key; broadcasts in order | `Chat` |
| Ingest callbacks (`ingest-service`) | none of its own; nginx-rtmp's streams, posts under way | on_publish, on_publish_done | blocking posts with a timeout; callbacks told once; client ids that begin again | who is on the air owns the live; an acknowledged stop is one | `Ingest` |
| BFF, frontend (`bff`, `frontend`) | reducer state, player, socket, requests under way | loadCatalog, selectLive, attach, close, chat | answers out of order; sockets left open | what is shown belongs together; the catalogue converges | `Viewer` |
| HLS origin, FFmpeg command, redis middleware, Patroni file, `backend/` prototypes | none, or not deployed | | | | not modelled |

Every component, with its reason when it is left out, is also in
`PROJECT.json`, together with the list of hazards and the map from definitions
to source lines.

## 2. The modules

`LiveLifecycle` is the abstract API: each transition of a live is one atomic
step that raises the row's version and puts its event in the outbox.
`LiveService` is the code: `Get` is `store.get`; `IngestStarted`,
`IngestStopped` and `WorkerReady` decide on that snapshot and write with
`WHERE version = expected_version`. The handlers are synchronous functions called on one
event loop, so a member of `Handlers` is an API *process*. The answer
202 is recorded in `accepted`, because two properties are about what a caller
was told. The statuses `provisioning`, `stopping` and `failed` are declared and
tested but never written, as in the code.

`OutboxRelay` has one relay per process. A batch is read once (`Poll`), and its
events are published (`Send`: once, or twice when the connection breaks after the
broker had the first copy) and marked (`Mark`). Any exception drops the batch
(`SendFails`, `BatchLost`). A batch is in the order of `occurred_at`, then of ids
that are random (`InOrder`). Each API process stamps its events by its own clock
(`occurred`, chosen freely at each `Commit`), so a batch need not have the events
of a live in the order of their versions.

`Orchestrator` has the two threads of the process. An operation holds
`_operation_lock` from its first Docker call to `mark_worker`/`mark_stopped`,
and each Docker call is a step: `List`, `StopWorker`, `StartWorker`, with a
failing twin that raises (and may have taken effect). `Plan` is the decision of
`_ensure_running`/`_ensure_stopped`. A consumer's exception returns the message
to the queue with its delivery counted; over the limit it goes to `dlq`. A
reconciler's exception ends the round. `Crash` loses everything in memory and
returns the open delivery; `Boot` starts with what the loader found. `Readable` is
`LifecycleEvent.from_json`: a message it does not take is dead-lettered at once
(`Reject`), and never requeued. Docker is
modelled as the code uses it (external): a container is healthy, unhealthy
(everything `list_workers` calls not healthy), being removed, or not there.

`WorkerPublication` has a live's workers. `Begin` is `start()` (it wipes the
generation's directory and forgets the report). `Activate` and `Notify` are the
two halves of the health poll under `_ready_lock`, before and after the HTTP
call. `NotifyRaises` is a lost answer, an unreachable API, or the end of the 3
seconds a worker waits; in the last case, and when a worker ends while it reports
(`Abandons`), the report may stay on its way (`late`), and the API takes it up at
any later time (`LateReport`), whatever runs by then. `NotifyRefused` is
an API that says the live is not to be played. FFmpeg is external.

`LiveSystem` composes them: `API == INSTANCE LiveLifecycle` (which `LiveService`
implements), `Outbox == INSTANCE OutboxRelay WITH sent <- queue`, the
orchestrator by `EXTENDS`, and `Worker == INSTANCE WorkerPublication` whose
`running` generations are the healthy containers (`WorkersFollow` is what a step of
Docker's means for the workers). The loader of a `Restart`
reads the API's rows: operational lives only. `occurred` is the version here,
because the API processes of `docker-compose.yml` are on one host and share its clock,
and a process stamps an event after it has read the one before.

`HealthMonitor` has check_once's outcome arithmetic, the retry loop of the
consumer, which decides what `/health/ready` answers (`health`, `retry`), RabbitMQ
as something that goes away and comes back, and an orchestrator that needs
`BootChecks` intervals to boot; `Sleep` is the passing of one interval. `PostgresFailover` has the two nodes, HAProxy's
`fall`/`rise` counters per server, and the monitor's loop with a step per query.
Both may be wrong about a live node, one fault each time (`Check`, `QueryFails`),
and any node that failed may be started again (`NodeReturns`).

`ConnectionHub` is at the granularity of `await`: between two awaits the event
loop runs one handler. `connect` keeps references to the sets it looked up
across `await accept()`, so a handler records in `holds` which of its keys still
led to those very sets; when a set leaves the table the references to it are
void. A broadcast appends the message to the `frames` of each socket in the
live's set; `Sent` and `SendFails` are the end of its `wait_for`. `Chat` EXTENDS it
with `live_chat`'s loop and both brokers. `publish_once` is called without an
await, so a message's number and its receivers are decided in one step.
`RedisRaises` is the exception no clause of the handler catches, before or after
the Lua script ran.

`Ingest` EXTENDS `LiveService` with what is in front of it: nginx-rtmp's streams,
callbacks the service has not begun, the single post under way (the handlers of the
service block their event loop), posts on their way to the API, and which post an
API process is at work on. The API's steps are `LiveService`'s own actions, so a
callback is read in one step and decided in another, in two processes. A stream
key is right, wrong, or malformed; the last stands for all of `_read_form`'s
and `_publisher`'s checks. `life` counts nginx's restarts, because client ids, and
with them session ids, begin again.

`Viewer` is one page: the reducer's actions are operators from a page to a page
(`Loaded`, `Selected`, `PlaybackLoaded`, `ChatMessage`), and the actions are
app.js's callbacks. A request is answered (`Serve`) with what the API says at
that moment and arrives later (`Arrive`), in any order. The BFF is stateless:
what it answers is in `Serve` and `Errs`. The chat service is `Chat` seen from
outside: a socket gets the messages from its admission on (`NothingSkipped`) until
it is dropped, but for those whose call of Redis raised after the script ran: they
have a number and reach nobody (`lost`).

Definitions whose comment begins with "Mutant of" are deliberate errors of the
kind a change to the code could make. Each property is shown to notice one of
them. They are no part of the models.

### Abstractions

* Titles, secrets, paths, timestamps, correlation ids and error texts are
  dropped. The stream secret is a Boolean (`authentic`).
* An event is identified by live, type and version. `_event` gives each commit a
  fresh id, and `EventsMatchRow` shows that no two events share these three.
* The limit of 50 events per poll is dropped: a relay's batch is everything pending.
* `worker_ready` for a live of status `provisioning` cannot happen and is not in
  `LiveLifecycle!Ready`; `LiveService` keeps the code's test.
* A worker's poll that is under way when its FFmpeg ends is not told apart from
  one that ends just before: what it does to the link, it could have done before
  the end, and its report is a late one.
* Sending to a socket that was closed raises an exception `hub.py:73` does not
  catch (it ends the handler of the sender); `SendFails` has that case only as far
  as the receiver goes: he is dropped.
* Of an error message the page keeps whether there is one.
* A catalogue is the set of its lives that are on the air; titles are dropped. `catalog.loading` is the
  status the page starts with; nothing else in app.js calls for it.
* A chat message is its live, user, client id, text and number. Chat names, the
  text's length and its whitespace are dropped, and a message the handler cannot
  parse (which it answers and forgets) is a step that changes nothing.
* In `LiveSystem` a live has one session, because `OnePublisher` (proved) lets
  in only one.

## 3. What is checked

| Run | Instance | Shows |
|---|---|---|
| `live_service` | 1 live, 2 sessions, generations 1..2, 2 processes, symmetric | `TypeOK`, `EventsMatchRow`, `OnePublisher`, `SessionsMatchRow`, `AcceptedStopIsFinal`, `PlaybackNeverGoesBack`, and `LifecycleSpec`: the code implements the abstract API |
| `orchestrator` | 2 lives, 3 events and an unreadable message in any order and number, queue 1, delivery limit 1, 1 failure, 1 death, loads find nothing or both | `TypeOK`, `OneWorker`, `StartsAreWanted`, `VersionsOnlyRise`, `WorkerRestored` |
| `outbox_relay` | 3 events of 2 lives, 2 relays, clocks that read 1 or 2 in any order, 1 failure | `TypeOK`, `NothingLost`, `FirstCopiesInOrder`, `AllPublished` |
| `worker_publication` | 1 live, generations 1..2 in any order, 4 failures | `TypeOK`, `ReportedIsCurrent`, `AnnouncedPlays` |
| `live_system` | 1 live, 1 relay, generations 1..2, 2 failures, 1 death, the load may fail | `NoRevival`, `PlayingWorkerSpared` |
| `live_system_liveness` | the same with delivery limit 1, 1 failure, 1 death, and a load that succeeds | `EndedLivesAreCleared`, `RunningLivesPlay` |
| `health_monitor` | threshold 2, cooldown 2, retry interval 2 (deployed), boot of 3 intervals, 4 failures | `TypeOK`, `RestartsAreEarned`, `Settles` |
| `postgres_failover` | threshold, fall and rise 2 (deployed), 3 writes, 4 faults of nodes, checks and queries; nodes come back | `TypeOK`, `OneHistory`, `WritesResume` |
| `chat` | 3 sockets of one user, two in one live (symmetric); limits 2/2/1; 1 client id, 2 texts; a memory cache of 1 entry and 1 live; 3 messages, 1 failure of Redis | `ChatTypeOK`, `NoGhosts`, `OvershootBounded`, `CreatedOnce`, `NothingSkipped` |
| `ingest` | 1 live, 2 client ids, 1 generation, 2 API processes, 1 failure (a timeout, a lost post, a death, a restart of nginx) | `IngestTypeOK`, `OnAirOwns`, `ToldMeansEnded` |
| `viewer` | 2 lives, 2 requests at a time, 2 clicks, 3 messages, 2 kept, 1 fault (a failed request, a dropped socket or a lost message) | `TypeOK`, `ShownTogether`, `CatalogConverges` |
| `live_system_revival` | as `live_system`, 2 relays, 1 failure | `NoRevival` fails (see Findings) |

Eight more configurations are counterexamples to read, not runs. Each ends with
a violation that shows what the code does not do:

| Configuration | Module | Violates | Because |
|---|---|---|---|
| `MCOutboxSkewed.cfg` | `MCOutboxRelay` | `VersionsInOrder` | the relay orders by `occurred_at` (`outbox.py:48`), and the API process that stopped the live has a clock behind that of the one that started it |
| `MCLiveSystemLeak.cfg` | `MCLiveSystem` | `EndedAlwaysCleared` | Docker fails until the stop is dead-lettered, the orchestrator dies, and its loader skips ended lives (`runtime.py:25`): the container stays for ever |
| `MCLiveSystemUnloaded.cfg` | `MCLiveSystem` | `RunningLivesPlay` | with `LoadMayFail`: a load that fails at the start is never repeated (`runtime.py:59`; see Findings) |
| `MCPostgresFailback.cfg` | `MCPostgresFailover` | `FailbackIsManual` | HAProxy gives the writes back to a primary that returns (`haproxy.cfg:17`; see Findings) |
| `MCPostgresUnattended.cfg` | `MCPostgresFailover` | `FailoverIsAutomatic` | a promotion that takes too long ends the monitor (`failover_monitor.py:38`; see Findings) |
| `MCChatDetached.cfg` | `MCChat` | `ViewersAreHeard` | `connect` adds to the sets it looked up before `await accept()`; when the last other viewer has left meanwhile they are in no table (`hub.py:44`, `hub.py:57`) |
| `MCViewerMixedUp.cfg` | `MCViewer` | `PlaysSelected` | `selectLive` attaches the player and the chat of an answer whatever is selected by then (`frontend/src/app.js:98`); only the reducer looks |
| `MCViewerOldError.cfg` | `MCViewer` | `OldErrorGoes` | `catalog.loaded` keeps `state.error` (`frontend/src/state.js:16`), and `renderCatalog` shows it where an empty list would be (`frontend/src/app.js:49`) |

Why the bounds are enough. Races at the API need two processes and two
sessions, and a generation that replaces another. The orchestrator needs two
lives only for what the lock and the order of the reconciliation do; one failure
and one death at *any* step cover every half-finished operation. With one failure a live
never needs more generations than the bound, so `MaxGeneration` cuts nothing off
there; in `live_system` it cuts off a third generation. A delivery limit of 1
(instead of 5) lets one failure dead-letter a message, in `orchestrator` and in
`live_system_liveness`; `live_system` and `live_system_revival` keep 5. `PlayingWorkerSpared` was also explored with two deaths and delivery limit 4
(2 failures: 2,516,973 states, no violation; with 3 failures the search was not
finished): that two deaths, a generation used twice and a late report of its first
worker come together is at the edge of what was explored.
The relay's hazards need two relays and two events of one live, plus
another live for the order between lives; two readings of a clock are enough to
have two events in order, at the same time, or in the wrong order. In the worker a generation must come
back after another one. Four failures let the health monitor fail twice in a
row after a restart, and RabbitMQ go twice. Three writes fork a history, and four
faults are what both judges of a live primary need to be wrong: `OneHistory` is
checked up to the point where it excuses a fork.

In the chat the tables can lose a set while another handshake holds it with
two sockets of one live; the third socket has the other live. All three share a
user, as in the deployment, so that the limits of a user and of a live differ.
Three messages let one be forgotten (by age, or from the cache of one entry) and
sent again. In front of the API, two client ids race for a live, and one failure
at any point is enough for a post that comes after its poster gave up, or for
client ids that begin again. On the page two clicks and the first catalogue
request are all that can overtake each other with two requests under way, and
two clicks leave a socket unclosed; three messages overflow a list of two, and
leave a gap in it when the second is lost. `ShownTogether` was also explored with
two faults, the lives taken as interchangeable.

`CHECK_DEADLOCK FALSE` is set where the modelled part really stops: nothing more
to relay, an ended live, all writes made, all sockets closed.

### Fairness

Only what the code's own loops and threads do is fair. Failures, publishers,
sockets and crashes never are.

* Relay: weak fairness of poll/send/mark, because `_run` loops for ever.
* Orchestrator: strong fairness of each of its two threads (`ConsumerRuns`,
  `ReconcilerRuns`), strong because both need the lock, which the other thread
  takes and releases again and again. The reconciler sleeps `reconcile_seconds`
  between rounds and the consumer waits for the broker, so neither starves the
  other. Weak fairness of the restart, which is the health monitor's work.
* Worker (in `LiveSystem`): weak fairness of FFmpeg writing and of the poll
  (`HEALTHCHECK` of the image). A removal Docker has accepted completes.
* Health monitor, the orchestrator's consumer thread, failover monitor,
  HAProxy's checks: weak fairness of loops. `Settles` is conditional: RabbitMQ is
  there in the end, and the orchestrator boots before cooldown and threshold
  are over.
* Viewer: the requests never stand still, because the timer ticks on, the BFF
  answers or fails (its client has a time limit), and an answer reaches the page.
  That any particular one gets there is not assumed. Clicks, sockets and messages
  are not fair.
* Nothing is fair about a late report: it may never reach the API.
* `WritesResume` is conditional: the replica stays up in the end and the monitor
  has not died (`PromoteTimesOut`: an exception nobody catches ends it, and the
  compose file does not restart it).

### Findings

*An ended live can be revived* (`live_system_revival`). The started event is
sent by two relays. The stale batch of one of them publishes its copy after the
stop has been consumed; the orchestrator has been restarted in between and does
not load ended lives, so `apply_desired_state` takes the event for the first of
a new live (`store.py:58`). `test_orchestrator.py:196` tests the case without
the restart.

*A restarted orchestrator may know nothing, for ever* (`MCLiveSystemUnloaded.cfg`). A
load that fails at the start is logged and never repeated (`runtime.py:59`). The
counterexample has a live with a worker, a restart during an outage of PostgreSQL,
and then a worker that dies and is not replaced, because no record asks for it.
`src/README.md:70` says the state is rebuilt from PostgreSQL, and line 73 that the
next generation is created without a new message.

*Failback is not manual* (`MCPostgresFailback.cfg`). HAProxy prefers the primary and
gives it the writes two checks after its return, while the promoted replica has
commits of its own (`postgres-ha/haproxy.cfg:17`). `src/README.md:75` says
failback is manual.

*Failover is not automatic when the promotion is slow* (`MCPostgresUnattended.cfg`).
`pg_promote` that waits in vain raises `RuntimeError` (`failover_monitor.py:38`), which
`except psycopg.Error` (line 62) lets through: the monitor ends, and the compose
file does not restart it. `src/README.md:71` and `:75` say the monitor promotes the
replica, automatically.

Further things seen on the models limit what the passing runs may claim:

* An ended live's container stays for ever when Docker fails until the stop is
  dead-lettered and the orchestrator dies afterwards (`Forgotten`,
  `MCLiveSystemLeak.cfg`); `EndedLivesAreCleared` excepts that case. A record whose
  Docker calls fail for ever starves the lives after it in each round
  (`service.py:77`); `WorkerRestored` assumes that failures end.
* With clocks that disagree a stop overtakes its start in the outbox
  (`MCOutboxSkewed.cfg`). The orchestrator sorts them out by their versions while it has
  the live's record.
* A report that the API takes up late can announce a generation while the link
  already points at another one; `AnnouncedPlays` promises the link at the announced
  generation only for a report that is still waited for.
* The history of the database forks, too, when HAProxy and the monitor are both
  wrong about a live primary for as long as they count (`OneHistory` excepts it).
* A generation that never reported ready is created twice after a restart, since
  only `worker_ready` writes `worker_generation`; no property claims otherwise.
* An acknowledged write that was not replicated is lost at a promotion.
* A publish-done that fails is not repeated, and a start that times out at the
  ingest service may still be accepted by the API: either leaves a live that
  only its own client id can end. So `ToldMeansEnded` speaks of acknowledged
  callbacks, and nothing is said about every departure.
* After a restart of nginx, client ids are handed out again, so a late
  publish-done of the life before can end the live of the session that is on the
  air now; `OnAirOwns` claims a running live only for nginx's first life.
* Nobody subscribes to the channel the Lua script publishes to. A second chat
  process would share numbers but not broadcasts; the deployment has one.

## 4. What is proved

Every invariant the passing runs check, and every action property but the two of
`LiveSystem`, is also a theorem, for all values of the constants that satisfy
the modules' assumptions: any number of lives, sessions, processes, relays,
sockets, messages and failures. The runs only show small instances. Each module
has an inductive invariant that TLC checked on the instance of the run before it
was proved.

| Module (about) | Theorem | Statement |
|---|---|---|
| `ApiProofs` (`LiveService`) | `Invariance` | `Spec => []IInv` |
| | `TypeCorrect` | `Spec => []TypeOK` |
| | `EventsCorrect` | `Spec => []EventsMatchRow` |
| | `PublisherUnique` | `Spec => []OnePublisher` |
| | `SessionsCorrect` | `Spec => []SessionsMatchRow` |
| | `StopFinal` | `Spec => []AcceptedStopIsFinal` |
| | `PlaybackMonotone` | `Spec => PlaybackNeverGoesBack` |
| | `Refinement` | `Spec => LifecycleSpec` |
| `ApiProofs` (`Ingest`) | `IngestInvariance` | `IngestSpec => []IngestInv` |
| | `IngestTypeCorrect` | `IngestSpec => []IngestTypeOK` |
| | `PublisherOnAirOwns` | `IngestSpec => []OnAirOwns` |
| | `ToldEnded` | `IngestSpec => []ToldMeansEnded` |
| `OutboxRelayProofs` | `Invariance` | `Spec => []IInv` |
| | `TypeCorrect` | `Spec => []TypeOK` |
| | `NeverLost` | `Spec => []NothingLost` |
| | `CopiesOrdered` | `Spec => []FirstCopiesInOrder` |
| `OrchestratorProofs` | `Invariance` | `Spec => []IInv` |
| | `TypeCorrect` | `Spec => []TypeOK` |
| | `WorkerUnique` | `Spec => []OneWorker` |
| | `WantedStarts` | `Spec => StartsAreWanted` |
| | `VersionsRise` | `Spec => VersionsOnlyRise` |
| `WorkerPublicationProofs` | `Invariance` | `WorkerSpec => []IInv` |
| | `TypeCorrect` | `WorkerSpec => []TypeOK` |
| | `ReportedCurrent` | `WorkerSpec => []ReportedIsCurrent` |
| | `AnnouncementsPlay` | `WorkerSpec => AnnouncedPlays` |
| `HealthMonitorProofs` | `Invariance` | `Spec => []IInv` |
| | `TypeCorrect` | `Spec => []TypeOK` |
| | `RestartEarned` | `Spec => []RestartsAreEarned` |
| `PostgresFailoverProofs` | `TypeCorrect` | `Spec => []TypeOK` |
| | `HistoriesDoNotFork` | `Spec => OneHistory` |
| `ChatProofs` (`ConnectionHub`, `Chat`) | `ChatInvariance` | `ChatSpec => []ChatInv` |
| | `ChatTypeCorrect` | `ChatSpec => []ChatTypeOK` |
| | `NobodyHaunts` | `ChatSpec => []NoGhosts` |
| | `LimitsHold` | `ChatSpec => []OvershootBounded` |
| | `MessagesUnique` | `ChatSpec => []CreatedOnce` |
| | `NoneSkipped` | `ChatSpec => []NothingSkipped` |
| `ViewerProofs` | `Invariance` | `Spec => []IInv` |
| | `TypeCorrect` | `Spec => []TypeOK` |
| | `ShownBelongsTogether` | `Spec => []ShownTogether` |

### The arguments

*LiveService.* None of the properties is inductive by itself, because a handler
writes from a snapshot it read earlier. `IInv` adds what ties the
snapshots to the table: a snapshot's version is at most the row's, and a
snapshot of the row's own version *is* the row. So a write whose
compare-and-swap succeeds starts from the current row (`SwapSeesRow`), and each
half of `IInv` is preserved by the three written rows (`StartWritten`,
`StopWritten`, `ReadyWritten`); all other outcomes are quiet (`RefusedStep`,
`QuietStep`). The same lemma gives the refinement: a successful swap is the
abstract transition, everything else a stutter.

*Ingest.* A step of `Ingest` is for the API a step of `LiveService` or none
(`ApiStep`), so `IInv` is kept as it stands. On top of it, `IngestInv` says which
callback stands behind each call (`ServesItsCall`), that each callback of
nginx's present life was sent once and is at one place (`AllSent`,
`AtOnePlace`), and that whoever is on the air, and whoever was told 200, has
an accepted start or stop behind him.

*OutboxRelay.* Several relays work off batches that are out of date. `BatchesOK`
says why the order still holds: whatever precedes an event of a batch, in version and
in time, is published
already, or stands before it in the same batch. So a relay that gets to an
event has published all before it, or another one has.

*Orchestrator.* What `_operation_lock` buys is the invariant: one operation at a
time (`OneOperation`), whose records are still those of the store (`RecordsFresh`),
and whose plan covers every container that stands, as spared or as
doomed (`PlanCovers`): a start is made only when all doomed are gone. A planned
start is for a record at `running`, under a generation above all there are
(`StartPlanOK`). Without `PlanCovers`, `OneWorker` is not inductive.

*WorkerPublication.* A live runs one worker (`OneRuns`), so nobody moves `current` between
`activate` and the answer to the report: a supervisor between the two, or past
them, is the one the link points at (`ReportsCurrent`). Of a report nobody waits for
only `ReportedLink` is left: it was made after the link was first set.

*HealthMonitor.* Failures counted were probes failed in a row (`FailuresInARow`),
and the cooldown left and the probes since the last attempt make up the whole
cooldown (`CooldownObserved`), as long as no probe succeeded. `FailuresBounded` is
the monitor's own oddity: a restart that fails leaves the counter above the
threshold, by as much as restarts failed.

*PostgresFailover.* The argument counts evidence. As long as the primary has been up
without a break, each failed check HAProxy holds against it (`ProxyEvidence`) and each
failed query of the monitor's (`MonitorEvidence`) was a fault, and together they
are no more than `faults` (`PrimaryLeads`). The replica gets commits of its own only
when both judges have all they need, `FailureThreshold + Fall`. If the primary did
go down, the history can fork only after it has returned, which `OneHistory` names.
`MCPostgresFailback.cfg` shows what happens then.

*Chat.* The limits are about sockets, but what `connect` checks is raced by
handshakes. `Counted` counts both: those in a table and those on their way to it
are within the limit by `peak`. `BrokerInv` says that what the cache dropped is
`forgotten`, and that numbers are handed out once (`Numbered`, `Remembered`).
`Chains` says that what a viewer heard last, the frames on their way to him and
the next number there will be form one chain without gaps but `lost` ones.

*Viewer.* `ShownTogether` is about gaps between two messages shown; the invariant
`NoGap` is about what comes after each of them, up to the one that has not been
said yet: all of it is shown, on its way or lost. It has to include the next message,
because a message said is only delivered if a socket is behind it; that the next one
is not lost already is `LostOK`. `NewestStay` is the
reducer's sort-and-cut: what is cut off is older than all that stays.
`SocketsCounted` shows that a number for a new socket is always there: a click
opens one request, and a request at most one socket.

### Assumptions

The theorems rest on the named assumptions of the modules, which TLC evaluates
in every run. Most say that a bound is a number and that `None`-like
values are no members. The others:

* `LivesAreOrdered`: the orchestrator's lives are numbers, as `reconcile()`
  works through them in a sorted order. `EventsAreTyped`, `LoadsAreRecords`: what
  arrives and what is loaded has the fields the code reads.
* `MaxTimeIsNat`: readings of a clock are numbers; nothing else is assumed of clocks.
* `SocketsAreFinite`, `LivesAreFinite`: their number is counted.
* `OwnersAreKnown`: every socket has a user. `TablesAreApart`: the hub has a
  table by live and one by user; one model variable holds both, so their keys
  must differ.
* `BrokerLimits`, `LimitsArePositive`, `ThresholdIsPositive`,
  `CountsArePositive`, `ViewerBounds`: limits are at least one, as configured.

### Only model-checked

* Liveness (`AllPublished`, `WorkerRestored`, `EndedLivesAreCleared`,
  `RunningLivesPlay`, `Settles`, `WritesResume`, `CatalogConverges`): fairness and
  `ENABLED` are beyond the prover. `FailoverIsAutomatic` and `FailbackIsManual` do not
  hold of the code.
* `NoRevival` and `PlayingWorkerSpared` of `LiveSystem`, the only safety properties
  without a theorem. `NoRevival` is true of one relay only.
* That `LiveSystem`'s instances of the component modules satisfy the
  components' invariants is not proved; there the components' actions are used,
  and their interleaving is what the runs check.

## 5. Not modelled

See the inventory. In short: what has no state and adds no order (the FFmpeg
command line, the HLS origin's nginx, the middleware library), rendering, and
code that is not deployed (`hls_origin/publication.py`, the Patroni file, the
prototypes in `backend/`). `docs/architecture/render_architecture.py` draws a
picture. RabbitMQ, Docker, FFmpeg, HAProxy and
PostgreSQL are modelled as far as the code relies on them. The partial loss
of RabbitMQ's queue and disk failures are not modelled. Clocks that run backwards
are in `OutboxRelay`, and nowhere else.

## 6. Plan

Done, in this order: the API and its abstraction; relay; orchestrator; worker;
their composition; health monitor with the orchestrator's health; PostgreSQL
pair; chat hub, then handlers and brokers on top of it; the ingest callbacks in
front of the API; the page and the BFF.

Then the proofs of section 4, from the components up.

Next: `NoRevival` for one relay, as a theorem about `LiveSystem`. The argument
crosses all components: the API starts a live once (`OnePublisher`); a relay
alone marks a started event before it sends the stopped one, so that in the queue
every copy of the start stands before every copy of the stop; requeueing keeps
that order; and once the stop is consumed the record is at `stopped` or forgotten,
and the loader does not bring it back. It extends the invariants of
`OutboxRelay` and `Orchestrator`. `PlayingWorkerSpared` after it.
