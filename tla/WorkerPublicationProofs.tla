----------------------- MODULE WorkerPublicationProofs -----------------------
(***************************************************************************)
(* Proofs about WorkerPublication, for every set of lives and worker       *)
(* generations.  The inductive invariant IInv: a supervisor whose report   *)
(* is under way or accepted is the one `current` points at, because no     *)
(* other worker of the live runs that could have moved it since.           *)
(***************************************************************************)
EXTENDS WorkerPublication, TLAPS

OneRuns == \A l \in Lives : \A g, h \in running[l] : g = h

ReportsCurrent ==
    \A l \in Lives : \A g \in running[l] :
        ready[l][g] \in {"activated", "yes"} => current[l] = g

AbsentPlaysNothing == \A l \in Lives : lives[l].status = "absent" =>
                                          lives[l].generation = 0

\* A report, even one taken up late, was made after the link was set.
ReportedLink ==
    \A l \in Lives, g \in Generations :
        g \in late[l] \/ ready[l][g] = "activated" => current[l] # 0

IInv == /\ TypeOK
        /\ OneRuns
        /\ ReportedLink
        /\ ReportsCurrent
        /\ AbsentPlaysNothing

----------------------------------------------------------------------------
(* What a step of the API does to a live's row.                            *)

LEMMA RowTypes ==
    /\ Absent \in Row /\ Absent.status = "absent" /\ Absent.generation = 0
    /\ Created \in Row /\ Created.status = "created" /\ Created.generation = 0
    /\ \A row \in Row, s \in Sessions :
          /\ Started(row, s) \in Row
          /\ Started(row, s).status = "ingesting"
          /\ Started(row, s).generation = row.generation
    /\ \A row \in Row, g \in Generations :
          /\ Playing(row, g) \in Row
          /\ Playing(row, g).status = "live"
          /\ Playing(row, g).generation = g
    /\ \A row \in Row : /\ Ended(row) \in Row
                        /\ Ended(row).status = "ended"
                        /\ Ended(row).generation = row.generation
<1> USE DEF Row, LiveStatus
<1>1. Absent \in Row /\ Absent.status = "absent" /\ Absent.generation = 0
  BY DEF Absent
<1>2. Created \in Row /\ Created.status = "created" /\ Created.generation = 0
  BY <1>1 DEF Created, Absent
<1>3. ASSUME NEW row \in Row
      PROVE  row.version + 1 \in Nat
  OBVIOUS
<1>4. ASSUME NEW row \in Row, NEW s \in Sessions
      PROVE  /\ Started(row, s) \in Row
             /\ Started(row, s).status = "ingesting"
             /\ Started(row, s).generation = row.generation
  BY <1>3 DEF Started
<1>5. ASSUME NEW row \in Row, NEW g \in Generations
      PROVE  /\ Playing(row, g) \in Row
             /\ Playing(row, g).status = "live"
             /\ Playing(row, g).generation = g
  BY <1>3, GenerationsArePositive DEF Playing
<1>6. ASSUME NEW row \in Row
      PROVE  /\ Ended(row) \in Row
             /\ Ended(row).status = "ended"
             /\ Ended(row).generation = row.generation
  BY <1>3 DEF Ended
<1> QED
  BY <1>1, <1>2, <1>4, <1>5, <1>6

\* What the API's own steps keep: no live gets another generation.
LEMMA ApiStep ==
    ASSUME lives \in [Lives -> Row], AbsentPlaysNothing, NEW l \in Lives,
           Create(l) \/ \E s \in Sessions : Start(l, s) \/ Stop(l, s)
    PROVE  /\ lives' \in [Lives -> Row]
           /\ AbsentPlaysNothing'
           /\ \A k \in Lives : lives'[k].generation = lives[k].generation
<1>1. PICK row \in Row : /\ lives' = [lives EXCEPT ![l] = row]
                         /\ row.status # "absent"
                         /\ row.generation = lives[l].generation
  BY RowTypes DEF Create, Start, Stop, AbsentPlaysNothing
<1> QED
  BY <1>1 DEF AbsentPlaysNothing

LEMMA ReadyStep ==
    ASSUME lives \in [Lives -> Row], AbsentPlaysNothing,
           NEW l \in Lives, NEW g \in Generations, Ready(l, g)
    PROVE  /\ lives' \in [Lives -> Row]
           /\ AbsentPlaysNothing'
           /\ \A k \in Lives : lives'[k].generation =
                                  IF k = l THEN g ELSE lives[k].generation
<1>1. PICK row \in Row : /\ lives' = [lives EXCEPT ![l] = row]
                         /\ row.status # "absent"
                         /\ row.generation = g
  <2> DEFINE row == Playing(lives[l], g)
  <2>1. row \in Row /\ row.status = "live" /\ row.generation = g
    BY RowTypes
  <2>2. lives' = [lives EXCEPT ![l] = row]
    BY DEF Ready
  <2> QED
    BY <2>1, <2>2
<1> QED
  BY <1>1 DEF AbsentPlaysNothing

\* What an answer from the API means to the supervisor that asked.
LEMMA AnswerStep ==
    ASSUME IInv, NEW l \in Lives, NEW g \in Generations,
           Ready(l, g) \/ UNCHANGED lifecycleVars
    PROVE  /\ lives' \in [Lives -> Row]
           /\ AbsentPlaysNothing'
           /\ \A k \in Lives : lives'[k].generation # lives[k].generation =>
                                  k = l /\ lives'[k].generation = g
<1>1. CASE Ready(l, g)
  BY <1>1, ReadyStep DEF IInv, TypeOK
<1>2. CASE UNCHANGED lifecycleVars
  BY <1>2 DEF IInv, TypeOK, AbsentPlaysNothing, lifecycleVars
<1> QED
  BY <1>1, <1>2

LEMMA FaultTypes == ASSUME TypeOK, Fault PROVE faults' \in 0 .. MaxFaults
  BY MaxFaultsIsNat DEF TypeOK, Fault

----------------------------------------------------------------------------
(* One lemma per action.                                                   *)

LEMMA InitIInv == WorkerInit => IInv
<1> SUFFICES ASSUME WorkerInit PROVE IInv
  OBVIOUS
<1>1. lives = [l \in Lives |-> Absent] /\ faults = 0
  BY DEF WorkerInit, Init
<1>2. /\ running = [l \in Lives |-> {}]
      /\ manifest = [l \in Lives |-> {}]
      /\ current = [l \in Lives |-> 0]
      /\ ready = [l \in Lives |-> [g \in Generations |-> "no"]]
      /\ late = [l \in Lives |-> {}]
  BY DEF WorkerInit, PublicationInit
<1>3. TypeOK
  BY <1>1, <1>2, RowTypes, MaxFaultsIsNat DEF TypeOK, Report
<1> QED
  BY <1>1, <1>2, <1>3, RowTypes DEF IInv, OneRuns, ReportedLink, ReportsCurrent, AbsentPlaysNothing

LEMMA PublisherStep ==
    ASSUME IInv, NEW l \in Lives,
           Create(l) \/ \E s \in Sessions : Start(l, s) \/ Stop(l, s),
           UNCHANGED <<running, volume, ready, late, faults>>
    PROVE  IInv'
<1>1. lives' \in [Lives -> Row] /\ AbsentPlaysNothing'
  BY ApiStep DEF IInv, TypeOK
<1> QED
  BY <1>1 DEF IInv, TypeOK, OneRuns, ReportedLink, ReportsCurrent, volume

LEMMA BeginStep ==
    ASSUME IInv, NEW l \in Lives, NEW g \in Generations, Begin(l, g)
    PROVE  IInv'
<1> PICK began : began = [k \in Lives |-> IF k = l THEN {g} ELSE {}]
  OBVIOUS
<1>1. /\ running[l] = {}
      /\ running' = [running EXCEPT ![l] = {g}]
      /\ manifest' = [k \in Lives |-> manifest[k] \ began[k]]
      /\ ready' = [k \in Lives |-> [h \in Generations |->
                      IF h \in began[k] THEN "no" ELSE ready[k][h]]]
      /\ UNCHANGED <<lives, current, late, faults>>
  BY DEF Begin, Prepared, lifecycleVars
<1>2. \A k \in Lives : /\ manifest'[k] = manifest[k] \ began[k]
                       /\ running'[k] = IF k = l THEN {g} ELSE running[k]
  BY <1>1 DEF IInv, TypeOK
<1>3. \A k \in Lives, h \in Generations :
         ready'[k][h] = IF k = l /\ h = g THEN "no" ELSE ready[k][h]
  BY <1>1
<1>4. /\ manifest' \in [Lives -> SUBSET Generations]
      /\ running' \in [Lives -> SUBSET Generations]
  BY <1>1 DEF IInv, TypeOK
<1>5. ready' \in [Lives -> [Generations -> Report]]
  BY <1>1 DEF IInv, TypeOK, Report
<1>6. \A k \in Lives, h \in Generations : ready'[k][h] # "no" => h \in manifest'[k]
  BY <1>2, <1>3 DEF IInv, TypeOK
<1>7. TypeOK'
  BY <1>1, <1>4, <1>5, <1>6 DEF IInv, TypeOK
<1>8. OneRuns' /\ ReportsCurrent'
  BY <1>1, <1>2, <1>3 DEF IInv, TypeOK, OneRuns, ReportsCurrent
<1>9. ReportedLink'
  BY <1>1, <1>3 DEF IInv, ReportedLink
<1> QED
  BY <1>1, <1>7, <1>8, <1>9 DEF IInv, AbsentPlaysNothing

\* What a stop leaves on its way to the API.
LEMMA AbandonedTypes ==
    ASSUME IInv, NEW ended, \A l \in Lives : ended[l] \subseteq Generations,
           Abandons(ended)
    PROVE  /\ late' \in [Lives -> SUBSET Generations]
           /\ \A l \in Lives : \A g \in late'[l] :
                 g \in late[l] \/ ready[l][g] = "activated"
  BY DEF Abandons, IInv, TypeOK

LEMMA StopsStep ==
    ASSUME IInv, NEW l \in Lives, NEW g \in Generations, Stops(l, g)
    PROVE  IInv'
<1>1. /\ running' = [running EXCEPT ![l] = @ \ {g}]
      /\ UNCHANGED <<lives, manifest, current, ready>>
      /\ faults' \in 0 .. MaxFaults
  BY FaultTypes DEF Stops, lifecycleVars, volume, IInv
<1>2. \A k \in Lives : running'[k] \subseteq running[k]
  BY <1>1 DEF IInv, TypeOK
<1> PICK ended : ended = [k \in Lives |-> IF k = l THEN {g} ELSE {}]
  OBVIOUS
<1>3. /\ late' \in [Lives -> SUBSET Generations]
      /\ \A k \in Lives : \A h \in late'[k] : h \in late[k] \/ ready[k][h] = "activated"
  <2>1. Abandons(ended)
    BY DEF Stops
  <2>2. \A k \in Lives : ended[k] \subseteq Generations
    OBVIOUS
  <2> QED
    BY <2>1, <2>2, AbandonedTypes
<1>4. TypeOK'
  BY <1>1, <1>3 DEF IInv, TypeOK
<1>5. ReportedLink'
  BY <1>1, <1>3 DEF IInv, ReportedLink
<1> QED
  BY <1>1, <1>2, <1>4, <1>5 DEF IInv, OneRuns, ReportsCurrent, AbsentPlaysNothing

LEMMA WriteManifestStep ==
    ASSUME IInv, NEW l \in Lives, NEW g \in Generations, WriteManifest(l, g),
           UNCHANGED <<running, faults>>
    PROVE  IInv'
<1>1. /\ manifest' = [manifest EXCEPT ![l] = @ \cup {g}]
      /\ UNCHANGED <<lives, running, current, ready, late, faults>>
  BY DEF WriteManifest, lifecycleVars
<1>2. \A k \in Lives : manifest[k] \subseteq manifest'[k]
  BY <1>1 DEF IInv, TypeOK
<1>3. TypeOK'
  BY <1>1, <1>2 DEF IInv, TypeOK
<1> QED
  BY <1>1, <1>3 DEF IInv, OneRuns, ReportedLink, ReportsCurrent, AbsentPlaysNothing

LEMMA ActivateStep ==
    ASSUME IInv, NEW l \in Lives, NEW g \in Generations, Activate(l, g),
           UNCHANGED <<running, faults>>
    PROVE  IInv'
<1>1. /\ g \in running[l] /\ g \in manifest[l]
      /\ current' = [current EXCEPT ![l] = g]
      /\ ready' = [ready EXCEPT ![l][g] = "activated"]
      /\ UNCHANGED <<lives, manifest, running, late, faults>>
  BY DEF Activate, Playable, lifecycleVars
<1>2. /\ ready' \in [Lives -> [Generations -> Report]]
      /\ current' \in [Lives -> Generations \cup {0}]
      /\ \A k \in Lives, h \in Generations :
            ready'[k][h] = IF k = l /\ h = g THEN "activated" ELSE ready[k][h]
      /\ \A k \in Lives : current'[k] = IF k = l THEN g ELSE current[k]
  BY <1>1 DEF IInv, TypeOK, Report
<1>3. TypeOK'
  BY <1>1, <1>2 DEF IInv, TypeOK
<1>4. ReportsCurrent'
  BY <1>1, <1>2 DEF IInv, OneRuns, ReportsCurrent, TypeOK
<1>5. ReportedLink'
  BY <1>1, <1>2, GenerationsArePositive DEF IInv, ReportedLink
<1> QED
  BY <1>1, <1>3, <1>4, <1>5 DEF IInv, OneRuns, AbsentPlaysNothing

\* The answer to a report, or its loss: the report goes on to `outcome`.
LEMMA ReportStep ==
    ASSUME IInv, NEW l \in Lives, NEW g \in Generations,
           NEW outcome \in {"no", "yes"},
           g \in running[l], ready[l][g] = "activated",
           Ready(l, g) \/ UNCHANGED lifecycleVars,
           ready' = [ready EXCEPT ![l][g] = outcome],
           UNCHANGED <<volume, running>>,
           late' = late \/ late' = [late EXCEPT ![l] = @ \cup {g}],
           faults' \in 0 .. MaxFaults
    PROVE  IInv'
<1>1. lives' \in [Lives -> Row] /\ AbsentPlaysNothing'
  BY AnswerStep
<1>2. UNCHANGED <<manifest, current, running>>
  BY DEF volume
<1>3. /\ ready' \in [Lives -> [Generations -> Report]]
      /\ \A k \in Lives, h \in Generations :
            ready'[k][h] = IF k = l /\ h = g THEN outcome ELSE ready[k][h]
  BY DEF IInv, TypeOK, Report
<1>4. /\ late' \in [Lives -> SUBSET Generations]
      /\ \A k \in Lives : \A h \in late'[k] : h \in late[k] \/ (k = l /\ h = g)
  BY DEF IInv, TypeOK
<1>5. TypeOK'
  BY <1>1, <1>2, <1>3, <1>4 DEF IInv, TypeOK
<1>6. ReportsCurrent'
  BY <1>2, <1>3 DEF IInv, TypeOK, ReportsCurrent
<1>7. ReportedLink'
  BY <1>2, <1>3, <1>4 DEF IInv, ReportedLink
<1> QED
  BY <1>1, <1>2, <1>5, <1>6, <1>7 DEF IInv, OneRuns

LEMMA NotifyStep ==
    ASSUME IInv, NEW l \in Lives, NEW g \in Generations,
           \/ /\ Notify(l, g) \/ NotifyRefused(l, g)
              /\ UNCHANGED <<running, faults>>
           \/ NotifyRaises(l, g) /\ Fault /\ UNCHANGED running
    PROVE  IInv'
<1>1. faults' \in 0 .. MaxFaults
  BY FaultTypes DEF IInv, TypeOK
<1>2. PICK outcome \in {"no", "yes"} :
         ready' = [ready EXCEPT ![l][g] = outcome]
  BY DEF Notify, NotifyRefused, NotifyRaises, AfterError
<1>3. /\ g \in running[l] /\ ready[l][g] = "activated"
      /\ Ready(l, g) \/ UNCHANGED lifecycleVars
      /\ UNCHANGED <<volume, running>>
      /\ late' = late \/ late' = [late EXCEPT ![l] = @ \cup {g}]
  BY DEF Notify, AlreadyPlaying, NotifyRefused, Refused, NotifyRaises, lifecycleVars
<1> QED
  BY <1>1, <1>2, <1>3, ReportStep

\* The API takes up a report whose sender is gone.
LEMMA LateReportStep ==
    ASSUME IInv, NEW l \in Lives, NEW g \in Generations, LateReport(l, g),
           UNCHANGED <<running, faults>>
    PROVE  IInv'
<1>1. /\ Ready(l, g) \/ UNCHANGED lifecycleVars
      /\ late' = [late EXCEPT ![l] = @ \ {g}]
      /\ UNCHANGED <<manifest, current, ready>>
  BY DEF LateReport, AlreadyPlaying, Refused, volume
<1>2. lives' \in [Lives -> Row] /\ AbsentPlaysNothing'
  BY <1>1, AnswerStep
<1>3. /\ late' \in [Lives -> SUBSET Generations]
      /\ \A k \in Lives : late'[k] \subseteq late[k]
  BY <1>1 DEF IInv, TypeOK
<1>4. TypeOK'
  BY <1>1, <1>2, <1>3 DEF IInv, TypeOK
<1> QED
  BY <1>1, <1>2, <1>3, <1>4 DEF IInv, OneRuns, ReportedLink, ReportsCurrent

LEMMA StutterStep == ASSUME IInv, UNCHANGED vars PROVE IInv'
  BY DEF vars, volume, lifecycleVars, IInv, TypeOK, OneRuns, ReportedLink,
         ReportsCurrent, AbsentPlaysNothing

LEMMA NextStep == ASSUME IInv, [WorkerNext]_vars PROVE IInv'
<1>1. ASSUME NEW l \in Lives, NEW g \in Generations, Publishes(l, g),
             UNCHANGED <<running, faults>>
      PROVE  IInv'
  BY <1>1, WriteManifestStep, ActivateStep, NotifyStep DEF Publishes
<1> QED
  BY <1>1, PublisherStep, BeginStep, StopsStep, NotifyStep, LateReportStep, StutterStep
     DEF WorkerNext

----------------------------------------------------------------------------
(* The theorems.                                                           *)

\* IInv holds in every reachable state.
THEOREM Invariance == WorkerSpec => []IInv
<1>1. IInv /\ [WorkerNext]_vars => IInv'
  BY NextStep
<1> QED
  BY InitIInv, <1>1, PTL DEF WorkerSpec

\* Rows, directories, links and reports are well typed.
THEOREM TypeCorrect == WorkerSpec => []TypeOK
<1>1. IInv => TypeOK
  BY DEF IInv
<1> QED
  BY Invariance, <1>1, PTL

\* A supervisor whose report was accepted is the one viewers are sent to.
THEOREM ReportedCurrent == WorkerSpec => []ReportedIsCurrent
<1>1. IInv => ReportedIsCurrent
  BY DEF IInv, ReportsCurrent, ReportedIsCurrent
<1> QED
  BY Invariance, <1>1, PTL

\* Only a report changes the generation the API announces.
LEMMA AnnouncedByReport ==
    ASSUME IInv, [WorkerNext]_vars, NEW k \in Lives,
           lives'[k].generation # lives[k].generation
    PROVE  IF late'[k] = late[k]
           THEN current[k] = lives'[k].generation /\ current[k] \in manifest[k]
           ELSE current[k] # 0
<1>1. ~UNCHANGED lives
  OBVIOUS
<1>2. ASSUME NEW l \in Lives,
             Create(l) \/ \E s \in Sessions : Start(l, s) \/ Stop(l, s)
      PROVE  FALSE
  BY <1>2, ApiStep DEF IInv, TypeOK
<1>3. ASSUME NEW l \in Lives, NEW g \in Generations,
             Notify(l, g) \/ NotifyRaises(l, g)
      PROVE  current[k] = lives'[k].generation /\ current[k] \in manifest[k] /\ late' = late
  <2>1. /\ g \in running[l] /\ ready[l][g] = "activated"
        /\ Ready(l, g) \/ UNCHANGED lifecycleVars
        /\ UNCHANGED late
    BY <1>1, <1>3 DEF Notify, AlreadyPlaying, NotifyRaises, lifecycleVars
  <2>2. k = l /\ lives'[k].generation = g
    BY <2>1, AnswerStep
  <2>3. current[l] = g /\ g \in manifest[l]
    BY <2>1 DEF IInv, TypeOK, ReportsCurrent
  <2> QED
    BY <2>1, <2>2, <2>3
<1>4. ASSUME NEW l \in Lives, NEW g \in Generations, LateReport(l, g)
      PROVE  current[k] # 0 /\ late'[k] # late[k]
  <2>1. /\ g \in late[l]
        /\ Ready(l, g) \/ UNCHANGED lifecycleVars
        /\ late' = [late EXCEPT ![l] = @ \ {g}]
    BY <1>4 DEF LateReport, AlreadyPlaying, Refused
  <2>2. k = l
    BY <2>1, AnswerStep
  <2>3. late[k] \in SUBSET Generations /\ late'[k] = late[k] \ {g}
    BY <2>1, <2>2 DEF IInv, TypeOK
  <2>4. g \in late[k] /\ current[k] # 0
    BY <2>1, <2>2 DEF IInv, ReportedLink
  <2> QED
    BY <2>3, <2>4
<1> QED
  BY <1>1, <1>2, <1>3, <1>4
     DEF WorkerNext, Publishes, Begin, Stops, WriteManifest, Activate,
         NotifyRefused, Refused, lifecycleVars, vars

\* The API announces a generation on a report in time only when `current` points
\* at it, and at a manifest in it; on a late one, when `current` leads somewhere.
THEOREM AnnouncementsPlay == WorkerSpec => AnnouncedPlays
<1> DEFINE A == \A l \in Lives : lives'[l].generation # lives[l].generation =>
                    IF late'[l] = late[l]
                    THEN current[l] = lives'[l].generation /\ current[l] \in manifest[l]
                    ELSE current[l] # 0
<1>1. ASSUME IInv, [WorkerNext]_vars PROVE [A]_vars
  <2>1. A
    BY <1>1, AnnouncedByReport
  <2> QED
    BY <2>1
<1> QED
  BY Invariance, <1>1, PTL DEF WorkerSpec, AnnouncedPlays
=============================================================================
