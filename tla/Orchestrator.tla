---------------------------- MODULE Orchestrator ----------------------------
(***************************************************************************)
(* The worker-pool orchestrator: OrchestratorService and its in-memory     *)
(* store, driven by the consumer thread (one unacknowledged delivery of    *)
(* the lifecycle queue at a time) and by the reconciler thread (every      *)
(* reconcile_seconds, all records).  Both hold _operation_lock for a whole *)
(* operation, which makes one Docker call per step; each call may fail,    *)
(* and the process may die between any two of them.                        *)
(*                                                                         *)
(* The environment is open: what is published, what the state loader finds *)
(* and what happens to containers is anything.  LiveSystem closes it.      *)
(***************************************************************************)
EXTENDS Integers, FiniteSets, Sequences, FiniteSetsExt

CONSTANTS Lives,          \* live ids; reconcile() works in their order
          Events,         \* lifecycle events [live, type, version]
          MaxGeneration,  \* bound: generations a container can have
          DeliveryLimit,  \* the queue's delivery-limit policy
          MaxQueue,       \* bound: messages in the queue
          Loads,          \* what the state loader may find: sets of records
          MaxFaults,      \* bound: failures of Docker, the broker, a worker
          MaxCrashes      \* bound: deaths of the orchestrator process

ASSUME LivesAreOrdered == Lives \subseteq Nat
ASSUME EventsAreTyped  == \A e \in Events : e.live \in Lives /\ e.version \in Int
ASSUME BoundsAreNat ==
    {MaxGeneration, DeliveryLimit, MaxQueue, MaxFaults, MaxCrashes} \subseteq Nat

VARIABLES up,         \* the process runs
          records,    \* _records: desired state and worker of each live
          processed,  \* _processed_events
          op,         \* what each thread is doing under _operation_lock
          delivery,   \* the delivery the consumer has not answered yet
          queue,      \* orchestrator.live-lifecycle.v1
          dlq,        \* orchestrator.live-lifecycle.dlq.v1
          containers, \* Docker: status of container worker-<live>-g<generation>
          faults,     \* failures so far
          crashes     \* deaths so far

memory == <<records, processed, op>>
broker == <<delivery, queue, dlq>>
orchestratorVars == <<up, memory, broker, containers, faults, crashes>>

Threads == {"consumer", "reconciler"}
Generation == 0 .. MaxGeneration   \* 0: no worker yet

\* LiveRecord; worker is the generation of the container in worker_id, or 0.
Record == [live : Lives, desired : {"running", "stopped"}, version : Nat,
           generation : Generation, worker : Generation]
NoRecord == [live |-> -1]

ASSUME LoadsAreRecords == Loads \subseteq SUBSET Record

Message == [event : Events, deliveries : 0 .. DeliveryLimit]
NoDelivery == [deliveries |-> -1]

\* An operation on one record: list its containers, remove the doomed ones,
\* then reach the goal.  `todo` are the records reconcile() has still to visit.
Idle == [step |-> "idle"]
Operation == [step : {"list", "act"}, record : Record, todo : SUBSET Record,
              doomed : SUBSET (1 .. MaxGeneration), goal : {"stopped", "adopt", "start"},
              generation : Generation]

\* DockerWorkerRuntime: "removing" is a removal Docker accepted and has not
\* finished; "unhealthy" stands for every state list_workers calls not healthy.
ContainerStatus == {"none", "healthy", "unhealthy", "removing"}
Present(l) == {g \in 1 .. MaxGeneration : containers[l][g] # "none"}
Healthy(l) == {g \in 1 .. MaxGeneration : containers[l][g] = "healthy"}

SetContainer(l, g, status) ==
    containers' = [containers EXCEPT ![l][g] = status]

Fault == faults < MaxFaults /\ faults' = faults + 1

Init == /\ up = FALSE
        /\ records = [l \in Lives |-> NoRecord]
        /\ processed = {}
        /\ op = [t \in Threads |-> Idle]
        /\ delivery = NoDelivery
        /\ queue = <<>>
        /\ dlq = {}
        /\ containers = [l \in Lives |-> [g \in 1 .. MaxGeneration |-> "none"]]
        /\ faults = 0
        /\ crashes = 0

----------------------------------------------------------------------------
(* InMemoryOrchestratorStore.                                              *)

\* from_json takes the message: one of the two event types, with a version (and
\* an envelope without a fault, which stands for the checks of its fields).
Readable(e) == e.type \in {"started", "stopped"} /\ e.version >= 1

DesiredBy(e) == IF e.type = "started" THEN "running" ELSE "stopped"

NewRecord(l, desired, version, generation) ==
    [live |-> l, desired |-> desired, version |-> version,
     generation |-> generation, worker |-> 0]

\* Mutant of Stale: events are applied in the order they arrive.
NeverStale(e) == FALSE

Stale(e)    == records[e.live] # NoRecord /\ e.version < records[e.live].version
Conflict(e) == /\ records[e.live] # NoRecord
               /\ e.version = records[e.live].version
               /\ DesiredBy(e) # records[e.live].desired

\* apply_desired_state, when the event is neither stale nor in conflict.
Applied(e) ==
    IF records[e.live] = NoRecord
    THEN NewRecord(e.live, DesiredBy(e), e.version, 0)
    ELSE [records[e.live] EXCEPT !.desired = DesiredBy(e), !.version = e.version]

MarkWorker(l, g) ==
    records' = [records EXCEPT ![l].generation = g, ![l].worker = g]
MarkStopped(l) == records' = [records EXCEPT ![l].worker = 0]

----------------------------------------------------------------------------
(* The consumer: RabbitLifecycleConsumer and MessageProcessor.             *)

\* Mutant of LockFree: the reconciler and the consumer do not share a lock.
LockNotShared(t) == op[t] = Idle

\* _operation_lock: thread t may enter, no operation is in progress.
LockFree(t) == \A u \in Threads \cup {t} : op[u] = Idle

\* Mutant of TooOften: one delivery more than the limit.
TooOftenLate(m) == m.deliveries > DeliveryLimit + 1

TooOften(m) == m.deliveries > DeliveryLimit

\* The message goes back to the head of the queue, or is dead-lettered when
\* it was returned more often than the policy allows.
Return ==
    /\ delivery' = NoDelivery
    /\ LET m == [delivery EXCEPT !.deliveries = @ + 1]
       IN  IF TooOften(m)
           THEN dlq' = dlq \cup {m.event} /\ UNCHANGED queue
           ELSE queue' = <<m>> \o queue /\ UNCHANGED dlq

\* A message that from_json refuses is not returned but dead-lettered at once.
Reject ==
    /\ delivery' = NoDelivery
    /\ dlq' = dlq \cup {delivery.event}
    /\ UNCHANGED queue

\* basic_ack; the connection may be gone by then, and the message comes back.
Ack ==
    \/ delivery' = NoDelivery /\ UNCHANGED <<queue, dlq, faults>>
    \/ Return /\ Fault

Deliver ==
    /\ up
    /\ delivery = NoDelivery
    /\ queue # <<>>
    /\ delivery' = Head(queue)
    /\ queue' = Tail(queue)
    /\ UNCHANGED <<up, memory, dlq, containers, faults, crashes>>

Begin(record, todo) ==
    [step |-> "list", record |-> record, todo |-> todo, doomed |-> {},
     goal |-> "stopped", generation |-> 0]

\* _handle up to the first Docker call.
Handle ==
    /\ delivery # NoDelivery
    /\ LockFree("consumer")
    /\ UNCHANGED <<up, containers, crashes>>
    /\ LET e == delivery.event
       IN  \/ /\ ~Readable(e)
              /\ Reject /\ UNCHANGED <<memory, faults>>
           \/ /\ e \in processed
              /\ Ack /\ UNCHANGED memory
           \/ /\ Readable(e) /\ e \notin processed /\ Stale(e)
              /\ processed' = processed \cup {e}
              /\ Ack /\ UNCHANGED <<records, op>>
           \/ /\ Readable(e) /\ e \notin processed /\ Conflict(e)
              /\ Return /\ UNCHANGED <<memory, faults>>
           \/ /\ Readable(e) /\ e \notin processed /\ ~Stale(e) /\ ~Conflict(e)
              /\ records' = [records EXCEPT ![e.live] = Applied(e)]
              /\ op' = [op EXCEPT !["consumer"] = Begin(Applied(e), {})]
              /\ UNCHANGED <<processed, broker, faults>>

----------------------------------------------------------------------------
(* reconcile(), and the Docker calls of _ensure_running / _ensure_stopped.  *)

First(todo) == CHOOSE r \in todo : \A q \in todo : r.live =< q.live

\* The operation on the next record of a reconciliation, or its end.
Advance(todo) == IF todo = {} THEN Idle
                 ELSE Begin(First(todo), todo \ {First(todo)})

Reconcile ==
    /\ up
    /\ LockFree("reconciler")
    /\ LET all == {records[l] : l \in {m \in Lives : records[m] # NoRecord}}
       IN  /\ all # {}
           /\ op' = [op EXCEPT !["reconciler"] = Advance(all)]
    /\ UNCHANGED <<up, records, processed, broker, containers, faults, crashes>>

\* An exception leaves the operation: the delivery is requeued, or the rest of
\* the reconciliation is dropped.
Raise(t) ==
    /\ op' = [op EXCEPT ![t] = Idle]
    /\ IF t = "consumer" THEN Return ELSE UNCHANGED broker
    /\ UNCHANGED processed

\* Mutants of Adoptable: an unhealthy container is adopted, or a container of
\* the recorded generation is not.
AdoptableUnhealthy(r) == {g \in Present(r.live) : g >= r.generation}
AdoptableNewer(r)     == {g \in Healthy(r.live) : g > r.generation}

Adoptable(r) == {g \in Healthy(r.live) : g >= r.generation}

\* What the listing calls for.
Plan(r) ==
    IF r.desired = "stopped" THEN [goal |-> "stopped", generation |-> 0]
    ELSE IF Adoptable(r) # {}
    THEN [goal |-> "adopt", generation |-> Max(Adoptable(r))]
    ELSE [goal |-> "start",
          generation |-> Max(Present(r.live) \cup {r.generation}) + 1]

\* Mutant of Doomed: only healthy containers are told to stop.
DoomedHealthy(r, plan) == Healthy(r.live) \ {plan.generation}

\* Every container of the live but the one adopted.
Doomed(r, plan) == IF plan.goal = "adopt" THEN Present(r.live) \ {plan.generation}
                   ELSE Present(r.live)

\* list_workers.
List(t) ==
    /\ op[t].step = "list"
    /\ LET r == op[t].record
           plan == Plan(r)
       IN  /\ plan.generation =< MaxGeneration
           /\ op' = [op EXCEPT ![t].step = "act",
                       ![t].doomed = Doomed(r, plan),
                       ![t].goal = plan.goal, ![t].generation = plan.generation]
    /\ UNCHANGED <<up, records, processed, broker, containers, faults, crashes>>

ListFails(t) ==
    /\ op[t].step = "list"
    /\ Fault
    /\ Raise(t)
    /\ UNCHANGED <<up, records, containers, crashes>>

\* stop_worker on any doomed container: a missing one (NotFound) and one being
\* removed already (409) count as stopped.
StopWorker(t) ==
    /\ op[t].step = "act"
    /\ \E g \in op[t].doomed :
          /\ op' = [op EXCEPT ![t].doomed = @ \ {g}]
          /\ IF containers[op[t].record.live][g] = "removing"
             THEN UNCHANGED containers
             ELSE SetContainer(op[t].record.live, g, "none")
    /\ UNCHANGED <<up, records, processed, broker, faults, crashes>>

\* Mutant of StopWorkerFails: every APIError is swallowed.
StopWorkerSwallows(t) ==
    /\ op[t].step = "act"
    /\ \E g \in op[t].doomed :
          op' = [op EXCEPT ![t].doomed = @ \ {g}]
    /\ Fault
    /\ UNCHANGED <<up, records, processed, broker, containers, crashes>>

\* The call raises; Docker may have begun the removal all the same.
StopWorkerFails(t) ==
    /\ op[t].step = "act"
    /\ \E g \in op[t].doomed :
          /\ containers[op[t].record.live][g] \notin {"none", "removing"}
          /\ \/ UNCHANGED containers
             \/ SetContainer(op[t].record.live, g, "removing")
    /\ Fault
    /\ Raise(t)
    /\ UNCHANGED <<up, records, crashes>>

\* The operation succeeded: mark_processed and ack, or the next record.
Done(t) ==
    IF t = "consumer"
    THEN /\ op' = [op EXCEPT ![t] = Idle]
         /\ processed' = processed \cup {delivery.event}
         /\ Ack
    ELSE /\ op' = [op EXCEPT ![t] = Advance(op[t].todo)]
         /\ UNCHANGED <<processed, broker, faults>>

AllStopped(t) == op[t].step = "act" /\ op[t].doomed = {}

Finish(t) ==
    /\ AllStopped(t)
    /\ \/ /\ op[t].goal = "stopped"
          /\ MarkStopped(op[t].record.live)
       \/ /\ op[t].goal = "adopt"
          /\ MarkWorker(op[t].record.live, op[t].generation)
    /\ Done(t)
    /\ UNCHANGED <<up, containers, crashes>>

\* start_worker under a container name that is free, then mark_worker.
StartWorker(t) ==
    LET l == op[t].record.live
        g == op[t].generation
    IN  /\ AllStopped(t)
        /\ op[t].goal = "start"
        /\ containers[l][g] = "none"
        /\ SetContainer(l, g, "healthy")
        /\ MarkWorker(l, g)
        /\ Done(t)
        /\ UNCHANGED <<up, crashes>>

\* run() raises: nothing was created, or a container that was created, or even
\* runs, though the caller does not know.
StartWorkerFails(t) ==
    LET l == op[t].record.live
        g == op[t].generation
    IN  /\ AllStopped(t)
        /\ op[t].goal = "start"
        /\ containers[l][g] = "none"
        /\ \E status \in {"none", "healthy", "unhealthy"} : SetContainer(l, g, status)
        /\ Fault
        /\ Raise(t)
        /\ UNCHANGED <<up, records, crashes>>

----------------------------------------------------------------------------
(* The process: OrchestratorRuntime.start and its death.                   *)

\* PostgresStateLoader.load found the records `loaded`, or failed (and the
\* failure was logged): the store starts with what there is.
Boot(loaded) ==
    /\ ~up
    /\ up' = TRUE
    /\ records' = [l \in Lives |->
                     IF \E r \in loaded : r.live = l
                     THEN CHOOSE r \in loaded : r.live = l ELSE NoRecord]
    /\ UNCHANGED <<processed, op, broker, containers, faults, crashes>>

\* Everything in memory is lost; the broker takes the open delivery back.
Crash ==
    /\ up
    /\ crashes < MaxCrashes
    /\ crashes' = crashes + 1
    /\ up' = FALSE
    /\ records' = [l \in Lives |-> NoRecord]
    /\ processed' = {}
    /\ op' = [t \in Threads |-> Idle]
    /\ IF delivery = NoDelivery THEN UNCHANGED broker ELSE Return
    /\ UNCHANGED <<containers, faults>>

----------------------------------------------------------------------------
(* Docker and the workers themselves.                                      *)

\* A worker dies or turns unhealthy, or somebody removes its container.
WorkerLost(l, g) ==
    /\ containers[l][g] \in {"healthy", "unhealthy"}
    /\ \E status \in {"unhealthy", "none"} \ {containers[l][g]} :
          SetContainer(l, g, status)
    /\ Fault
    /\ UNCHANGED <<up, memory, broker, crashes>>

\* restart_policy unless-stopped brings it back.
WorkerRecovers(l, g) ==
    /\ containers[l][g] = "unhealthy"
    /\ SetContainer(l, g, "healthy")
    /\ UNCHANGED <<up, memory, broker, faults, crashes>>

RemovalCompletes(l, g) ==
    /\ containers[l][g] = "removing"
    /\ SetContainer(l, g, "none")
    /\ UNCHANGED <<up, memory, broker, faults, crashes>>

\* A relay publishes: the topic exchange routes live.ingest.*.v1 here.
Publish(e) ==
    /\ Len(queue) < MaxQueue
    /\ queue' = Append(queue, [event |-> e, deliveries |-> 0])
    /\ UNCHANGED <<up, memory, delivery, dlq, containers, faults, crashes>>

ThreadStep(t) == \/ List(t) \/ ListFails(t)
                 \/ StopWorker(t) \/ StopWorkerFails(t)
                 \/ Finish(t)
                 \/ StartWorker(t) \/ StartWorkerFails(t)

ContainerStep == \E l \in Lives, g \in 1 .. MaxGeneration :
                    \/ WorkerLost(l, g)
                    \/ WorkerRecovers(l, g)
                    \/ RemovalCompletes(l, g)

ProcessStep == \/ Deliver \/ Handle \/ Reconcile \/ Crash
               \/ \E t \in Threads : ThreadStep(t)

Next == \/ ProcessStep
        \/ ContainerStep
        \/ \E loaded \in Loads : Boot(loaded)
        \/ \E e \in Events : Publish(e)

Spec == Init /\ [][Next]_orchestratorVars

\* The steps of either thread, as long as nothing fails.
Works(t)       == List(t) \/ StopWorker(t) \/ Finish(t) \/ StartWorker(t)
ConsumerRuns   == Deliver \/ Handle \/ Works("consumer")
ReconcilerRuns == Reconcile \/ Works("reconciler")

\* Threads run on; a thread waiting for the lock gets it in the end, because
\* the other one lets go of it between operations (the reconciler sleeps, the
\* consumer goes back to the broker); the process is restarted.
Fairness ==
    /\ SF_orchestratorVars(ConsumerRuns)
    /\ SF_orchestratorVars(ReconcilerRuns)
    /\ WF_orchestratorVars(\E loaded \in Loads : Boot(loaded))

FairSpec == Spec /\ Fairness

----------------------------------------------------------------------------
(* Properties.                                                             *)

TypeOK ==
    /\ up \in BOOLEAN
    /\ records \in [Lives -> Record \cup {NoRecord}]
    /\ \A l \in Lives : records[l] # NoRecord => records[l].live = l
    /\ processed \subseteq Events
    /\ op \in [Threads -> Operation \cup {Idle}]
    /\ delivery \in Message \cup {NoDelivery}
    /\ queue \in Seq(Message)
    /\ dlq \subseteq Events
    /\ containers \in [Lives -> [1 .. MaxGeneration -> ContainerStatus]]
    /\ faults \in 0 .. MaxFaults
    /\ crashes \in 0 .. MaxCrashes

\* One live never has two containers side by side (but for one Docker is
\* already removing), through failing and half-finished Docker calls, lost
\* workers, redelivered events, both threads and restarts of the process.
Standing(l) == {g \in 1 .. MaxGeneration :
                    containers[l][g] \in {"healthy", "unhealthy"}}
OneWorker == \A l \in Lives : Cardinality(Standing(l)) =< 1

\* A container is only ever created for a live whose record says running at
\* that very moment, whichever thread planned it, and under a generation above
\* the recorded one and above every container still there.
StartsAreWanted ==
    [][\A l \in Lives, g \in 1 .. MaxGeneration :
          containers[l][g] = "none" /\ containers'[l][g] # "none" =>
              /\ records[l] # NoRecord
              /\ records[l].desired = "running"
              /\ g > records[l].generation
              /\ \A k \in Present(l) : k < g
      ]_orchestratorVars

\* While the process lives, redelivered, duplicated and reordered events never
\* take a live back to an older version, nor change sides at one version.
VersionsOnlyRise ==
    [][up /\ up' => \A l \in Lives : records[l] # NoRecord =>
          /\ records'[l] # NoRecord
          /\ records'[l].version >= records[l].version
          /\ records'[l].version = records[l].version =>
                records'[l].desired = records[l].desired
      ]_orchestratorVars

\* Whatever was lost meanwhile, every live whose record says running has the
\* worker the record names again, healthy: a failing Docker call for one live
\* delays the others only as long as the failures last.
WorkerRestored ==
    \A l \in Lives :
        []<>(\/ ~up \/ records[l] = NoRecord \/ records[l].desired = "stopped"
             \/ /\ records[l].worker # 0
                /\ containers[l][records[l].worker] = "healthy")
============================================================================
