----------------------------- MODULE LiveSystem -----------------------------
(***************************************************************************)
(* The control plane put together: the API (by its abstract specification  *)
(* LiveLifecycle, which LiveService implements), the outbox relays, the    *)
(* lifecycle queue, the orchestrator with Docker, and the workers, which   *)
(* point the viewers' HLS link at themselves and report back to the API.   *)
(* Publishers come and go as they like.                                    *)
(***************************************************************************)
EXTENDS Orchestrator

CONSTANTS Session,      \* the one session that owns a live (OnePublisher)
          Relays,       \* API processes, each with a relay
          LoadMayFail   \* the state loader may find PostgreSQL unreachable

VARIABLES lives,      \* table `lives`
          outbox,     \* table `outbox_events`
          published,  \* its rows with published_at set
          relay,      \* the relays' batches
          manifest, current,   \* the HLS volume
          ready, late \* the workers' reports

NoSession == "none"

API == INSTANCE LiveLifecycle
          WITH Sessions <- {Session}, Generations <- 1 .. MaxGeneration

\* The API processes of one host share its clock: the times of a live's events
\* are in the order of their versions.
Outbox == INSTANCE OutboxRelay
             WITH sent <- queue, MaxTime <- MaxGeneration + 3,
                  occurred <- [e \in Events |-> e.version]

\* A worker's process runs in its container.
Worker == INSTANCE WorkerPublication
             WITH Sessions <- {Session}, Generations <- 1 .. MaxGeneration,
                  running <- [l \in Lives |-> Healthy(l)]

apiVars    == <<lives, outbox>>
relayVars  == <<published, relay>>
workerVars == <<manifest, current, ready, late>>
systemVars == <<orchestratorVars, apiVars, relayVars, workerVars>>

SysInit == /\ Init
           /\ API!Init
           /\ published = {}
           /\ relay = [r \in Relays |-> Outbox!Resting]
           /\ Worker!PublicationInit

----------------------------------------------------------------------------

\* RTMP callbacks at the API, by a user who does what he likes.
PublisherStep(l) ==
    /\ API!Create(l) \/ API!Start(l, Session) \/ API!Stop(l, Session)
    /\ UNCHANGED <<orchestratorVars, relayVars, workerVars>>

\* A worker publishes its playlist and reports to the API.
WorkerPublishes(l, g) ==
    /\ Worker!Publishes(l, g)
    /\ UNCHANGED <<orchestratorVars, relayVars>>

WorkerReportFails(l, g) ==
    /\ Worker!NotifyRaises(l, g)
    /\ Fault
    /\ UNCHANGED <<up, memory, broker, containers, crashes, relayVars>>

\* The API takes up a report whose worker gave it up, or is gone.
LateReport(l, g) ==
    /\ Worker!LateReport(l, g)
    /\ UNCHANGED <<orchestratorVars, relayVars>>

WorkerStep(l, g) ==
    WorkerPublishes(l, g) \/ WorkerReportFails(l, g) \/ LateReport(l, g)

RelayRuns(r) ==
    /\ \/ Outbox!Poll(r) \/ Outbox!Send(r) \/ Outbox!SendFails(r)
       \/ Outbox!Mark(r) \/ Outbox!BatchLost(r)
    /\ UNCHANGED <<lives, up, memory, delivery, dlq, containers, crashes, workerVars>>

\* The records PostgresStateLoader.load reads: operational lives only.
Loaded == {NewRecord(l, lives[l].desired, lives[l].version, lives[l].generation) :
              l \in {k \in Lives : lives[k].status \in
                        {"ingesting", "provisioning", "live", "stopping"}}}

Restart ==
    /\ Boot(Loaded)
    /\ UNCHANGED <<apiVars, relayVars, workerVars>>

\* load() raised: logged, and the orchestrator starts without records.
RestartUnloaded ==
    /\ LoadMayFail
    /\ Boot({})
    /\ UNCHANGED <<apiVars, relayVars, workerVars>>

\* Workers whose container a step of Docker's started: they begin by wiping
\* the generation's directory.
Began(l) == {g \in 1 .. MaxGeneration :
                containers[l][g] # "healthy" /\ containers'[l][g] = "healthy"}

\* Workers that such a step stopped, or made unhealthy.
StoppedBy(l) == {g \in Healthy(l) : containers'[l][g] # "healthy"}

WorkersFollow ==
    /\ Worker!Prepared([l \in Lives |-> Began(l)])
    /\ Worker!Abandons([l \in Lives |-> StoppedBy(l)])
    /\ UNCHANGED <<apiVars, relayVars, current>>

OrchestratorRuns == (ProcessStep \/ ContainerStep) /\ WorkersFollow

SysNext == \/ \E l \in Lives : PublisherStep(l)
           \/ \E l \in Lives, g \in 1 .. MaxGeneration : WorkerStep(l, g)
           \/ \E r \in Relays : RelayRuns(r)
           \/ Restart \/ RestartUnloaded
           \/ OrchestratorRuns

SysSpec == SysInit /\ [][SysNext]_systemVars

\* Threads run on, services are restarted, workers repeat their reports;
\* publishers do as they like, and nothing is said about failures.
SysFairness ==
    /\ WF_systemVars(\E l \in Lives, g \in 1 .. MaxGeneration : WorkerPublishes(l, g))
    /\ \A r \in Relays : WF_systemVars(
          RelayRuns(r) /\ (Outbox!Poll(r) \/ Outbox!Send(r) \/ Outbox!Mark(r)))
    /\ WF_systemVars(Restart \/ RestartUnloaded)
    /\ SF_systemVars(ConsumerRuns /\ WorkersFollow)
    /\ SF_systemVars(ReconcilerRuns /\ WorkersFollow)
    /\ WF_systemVars(
          /\ \E l \in Lives, g \in 1 .. MaxGeneration : RemovalCompletes(l, g)
          /\ WorkersFollow)

FairSysSpec == SysSpec /\ SysFairness

----------------------------------------------------------------------------
(* Properties.                                                             *)

\* The orchestrator has answered every copy of the live's stopped event that
\* was published.
StopConsumed(l) ==
    \E e \in published :
        /\ e.live = l /\ e.type = "stopped"
        /\ delivery # NoDelivery => delivery.event # e
        /\ \A i \in DOMAIN queue : queue[i].event # e
        /\ e \notin dlq

\* Once its stop has been consumed, a live never gets a worker again, however
\* late a copy of its started event arrives.
NoRevival ==
    [][\A l \in Lives, g \in 1 .. MaxGeneration :
          containers[l][g] = "none" /\ containers'[l][g] # "none" =>
              ~StopConsumed(l)
      ]_systemVars

\* The orchestrator never dooms the healthy worker that viewers of a live are
\* sent to while its publisher stays, whatever its record has missed or forgot.
PlayingWorkerSpared ==
    [][\A l \in Lives, t \in Threads :
          /\ op[t].step = "list" /\ op'[t].step = "act" /\ op[t].record.live = l
          /\ lives[l].status = "live"
          /\ current[l] \in Healthy(l)
          => current[l] \notin op'[t].doomed
      ]_systemVars

\* The stop of live l was dead-lettered, and the process that knew of it died:
\* the loader skips ended lives, so that nobody will clear this one.
Forgotten(l) ==
    /\ \E e \in dlq : e.live = l /\ e.type = "stopped"
    /\ up => records[l] = NoRecord

\* In the end an ended live has no container, and never has one again, unless
\* the orchestrator has lost its stop in one of the two places it is kept and
\* its record in the other.
EndedLivesAreCleared ==
    \A l \in Lives :
        lives[l].status = "ended" ~> [](Present(l) = {}) \/ []Forgotten(l)

\* No property of the code: an outage of Docker that dead-letters the stop, and
\* a restart of the orchestrator, leak the container for ever.
EndedAlwaysCleared ==
    \A l \in Lives : lives[l].status = "ended" ~> [](Present(l) = {})

\* A live whose publisher stays gets played, again and again: the link that
\* viewers of the API follow leads to the playlist of a healthy worker,
\* whatever was lost or failed before.
RunningLivesPlay ==
    \A l \in Lives :
        []<>(\/ lives[l].status \in {"absent", "created", "ended"}
             \/ /\ lives[l].status = "live"
                /\ current[l] \in Healthy(l) \cap manifest[l])
============================================================================
