-------------------------- MODULE WorkerPublication --------------------------
(***************************************************************************)
(* A worker's way to the viewers.  WorkerSupervisor wipes the directory    *)
(* g-<generation> and starts FFmpeg; the health poll that first sees a     *)
(* manifest points the live's symlink `current` at the directory and then  *)
(* reports the generation ready to the API, and the next polls do so again *)
(* until the API has accepted the report.                                  *)
(*                                                                         *)
(* The API is LiveLifecycle.  The orchestrator runs one worker of a live   *)
(* at a time (OneWorker of Orchestrator), of any generation.               *)
(***************************************************************************)
EXTENDS LiveLifecycle

CONSTANT MaxFaults  \* bound: workers that stop, reports that fail

ASSUME MaxFaultsIsNat == MaxFaults \in Nat

VARIABLES running,   \* the generations of a live whose FFmpeg runs
          manifest,  \* those whose directory has a manifest
          current,   \* the generation `current` points at, or 0
          ready,     \* how far a supervisor's report has come
          late,      \* generations with a report that its sender has given
                     \* up (timeout, or its process ended) but the API may
                     \* still take up
          faults     \* failures so far

volume == <<manifest, current>>
vars   == <<lifecycleVars, running, volume, ready, late, faults>>

\* _ready_published is TRUE in "yes"; "activated": _ready_lock is held between
\* activate and the API's answer.
Report == {"no", "activated", "yes"}

PublicationInit ==
    /\ manifest = [l \in Lives |-> {}]
    /\ current = [l \in Lives |-> 0]
    /\ ready = [l \in Lives |-> [g \in Generations |-> "no"]]
    /\ late = [l \in Lives |-> {}]

WorkerInit == /\ Init
              /\ PublicationInit
              /\ running = [l \in Lives |-> {}]
              /\ faults = 0

Fault == faults < MaxFaults /\ faults' = faults + 1

----------------------------------------------------------------------------

\* Mutant of Prepared: _ready_published survives.
PreparedKeepsReport(began) ==
    /\ manifest' = [l \in Lives |-> manifest[l] \ began[l]]
    /\ UNCHANGED ready

\* start(), in the workers began[l] of each live: prepare() wipes the
\* directory, the report starts over.
Prepared(began) ==
    /\ manifest' = [l \in Lives |-> manifest[l] \ began[l]]
    /\ ready' = [l \in Lives |-> [g \in Generations |->
                    IF g \in began[l] THEN "no" ELSE ready[l][g]]]

\* The container's process begins, the first time or again.
Begin(l, g) ==
    /\ lives[l].status \notin {"absent", "created"}
    /\ running[l] = {}
    /\ running' = [running EXCEPT ![l] = {g}]
    /\ Prepared([k \in Lives |-> IF k = l THEN {g} ELSE {}])
    /\ UNCHANGED <<lifecycleVars, current, late, faults>>

\* The workers ended[l] of each live stop: a report one of them was making may
\* be on its way to the API all the same.
Abandons(ended) ==
    late' \in {late, [l \in Lives |-> late[l] \cup
                          {g \in ended[l] : ready[l][g] = "activated"}]}

\* FFmpeg or the container ends; the volume keeps what was written.
Stops(l, g) ==
    /\ g \in running[l]
    /\ Fault
    /\ running' = [running EXCEPT ![l] = @ \ {g}]
    /\ Abandons([k \in Lives |-> IF k = l THEN {g} ELSE {}])
    /\ UNCHANGED <<lifecycleVars, volume, ready>>

\* FFmpeg has finished the first segment.
WriteManifest(l, g) ==
    /\ g \in running[l] \ manifest[l]
    /\ manifest' = [manifest EXCEPT ![l] = @ \cup {g}]
    /\ UNCHANGED <<lifecycleVars, current, ready, late>>

\* Mutant of Playable: the manifest is not waited for.
PlayableAtOnce(l) == running[l]

Playable(l) == running[l] \cap manifest[l]

\* Mutant of Activate: the link is left alone.
ActivateKeepsLink(l, g) ==
    /\ g \in Playable(l)
    /\ ready[l][g] = "no"
    /\ ready' = [ready EXCEPT ![l][g] = "activated"]
    /\ UNCHANGED <<lifecycleVars, volume, late>>

\* health() finds the manifest: `current` is replaced atomically.
Activate(l, g) ==
    /\ g \in Playable(l)
    /\ ready[l][g] = "no"
    /\ current' = [current EXCEPT ![l] = g]
    /\ ready' = [ready EXCEPT ![l][g] = "activated"]
    /\ UNCHANGED <<lifecycleVars, manifest, late>>

\* worker_ready's early return: this generation or a newer one is playing.
AlreadyPlaying(l, g) ==
    /\ lives[l].status = "live"
    /\ lives[l].generation >= g
    /\ UNCHANGED lifecycleVars

\* worker_ready raises: the live is not one to play (any more).
Refused(l) ==
    /\ lives[l].status \notin {"ingesting", "live"}
    /\ UNCHANGED lifecycleVars

\* notify_ready returned.
Notify(l, g) ==
    /\ g \in running[l]
    /\ ready[l][g] = "activated"
    /\ Ready(l, g) \/ AlreadyPlaying(l, g)
    /\ ready' = [ready EXCEPT ![l][g] = "yes"]
    /\ UNCHANGED <<volume, late>>

\* Mutant of AfterError: _ready_published is set before the call.
SetBeforeCall == "yes"

\* _ready_published when the call raises: nothing has set it.
AfterError == "no"

\* notify_ready raised: the answer was lost, the API could not be reached, or
\* the 3 seconds were over and the report is still on its way.
NotifyRaises(l, g) ==
    /\ g \in running[l]
    /\ ready[l][g] = "activated"
    /\ \/ Ready(l, g) /\ UNCHANGED late
       \/ UNCHANGED <<lifecycleVars, late>>
       \/ late' = [late EXCEPT ![l] = @ \cup {g}] /\ UNCHANGED lifecycleVars
    /\ ready' = [ready EXCEPT ![l][g] = AfterError]
    /\ UNCHANGED volume

\* The API answered that it refuses.
NotifyRefused(l, g) ==
    /\ g \in running[l]
    /\ ready[l][g] = "activated"
    /\ Refused(l)
    /\ ready' = [ready EXCEPT ![l][g] = "no"]
    /\ UNCHANGED <<volume, late>>

\* The API takes up a report nobody waits for any more.  (A second one of the
\* same generation would find it announced, or the live over.)
LateReport(l, g) ==
    /\ g \in late[l]
    /\ Ready(l, g) \/ AlreadyPlaying(l, g) \/ Refused(l)
    /\ late' = [late EXCEPT ![l] = @ \ {g}]
    /\ UNCHANGED <<volume, ready>>

Publishes(l, g) == \/ WriteManifest(l, g) \/ Activate(l, g)
                   \/ Notify(l, g) \/ NotifyRefused(l, g)

WorkerNext ==
    \/ /\ \E l \in Lives : Create(l) \/ \E s \in Sessions : Start(l, s) \/ Stop(l, s)
       /\ UNCHANGED <<running, volume, ready, late, faults>>
    \/ \E l \in Lives, g \in Generations :
          \/ Begin(l, g) \/ Stops(l, g)
          \/ Publishes(l, g) /\ UNCHANGED <<running, faults>>
          \/ LateReport(l, g) /\ UNCHANGED <<running, faults>>
          \/ NotifyRaises(l, g) /\ Fault /\ UNCHANGED running

WorkerSpec == WorkerInit /\ [][WorkerNext]_vars

----------------------------------------------------------------------------
(* Properties.                                                             *)

TypeOK ==
    /\ lives \in [Lives -> Row]
    /\ running \in [Lives -> SUBSET Generations]
    /\ manifest \in [Lives -> SUBSET Generations]
    /\ current \in [Lives -> Generations \cup {0}]
    /\ ready \in [Lives -> [Generations -> Report]]
    /\ late \in [Lives -> SUBSET Generations]
    /\ \A l \in Lives, g \in Generations : ready[l][g] # "no" => g \in manifest[l]
    /\ faults \in 0 .. MaxFaults

\* A supervisor that has stopped polling (_ready_published) is the one viewers
\* are sent to, although generations come, die, and come back.
ReportedIsCurrent ==
    \A l \in Lives : \A g \in running[l] : ready[l][g] = "yes" => current[l] = g

\* When the API announces a new generation as playable on a report its sender
\* waits for, `current` points at it and there is a manifest in it.  On a report
\* taken up late, another generation may have begun or taken the link since;
\* viewers are still sent to some generation.
AnnouncedPlays ==
    [][\A l \in Lives : lives'[l].generation # lives[l].generation =>
          IF late'[l] = late[l]
          THEN current[l] = lives'[l].generation /\ current[l] \in manifest[l]
          ELSE current[l] # 0
      ]_vars
=============================================================================
