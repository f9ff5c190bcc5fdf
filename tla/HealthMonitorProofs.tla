------------------------ MODULE HealthMonitorProofs ------------------------
(***************************************************************************)
(* Proofs about HealthMonitor, for every threshold, cooldown, boot time    *)
(* and number of failures.  The inductive invariant IInv ties the counters *)
(* of MonitorState to the histories: the failures it has counted were      *)
(* probes that failed in a row, and the cooldown that is left and the      *)
(* probes made since the last attempt make up the whole cooldown.          *)
(***************************************************************************)
EXTENDS HealthMonitor, TLAPS

\* Beyond the threshold, a failure is a restart that failed.
FailuresBounded == state.failures =< FailureThreshold - 1 + faults

\* Failed probes not counted yet: the one that led to the restart.
Uncounted == IF step = "restart" THEN 1 ELSE 0
FailuresInARow == state.failures + Uncounted =< streak \/ streak = Far

\* While no probe has succeeded since the last attempt.
CooldownObserved ==
    streak >= gap =>
       IF step = "restart" THEN gap > CooldownChecks
                           ELSE state.cooldown + gap >= CooldownChecks

ThresholdReached == step = "restart" => state.failures + 1 >= FailureThreshold

IInv == /\ TypeOK
        /\ FailuresBounded
        /\ FailuresInARow
        /\ CooldownObserved
        /\ ThresholdReached

----------------------------------------------------------------------------

LEMMA Constants ==
    /\ FailureThreshold \in Nat /\ FailureThreshold >= 1
    /\ CooldownChecks \in Nat /\ BootChecks \in Nat
    /\ RetryChecks \in Nat /\ MaxFaults \in Nat
    /\ Far \in Nat /\ Far = FailureThreshold + CooldownChecks + 1
    /\ CooldownAfterFailure \in Nat
    /\ CooldownAfterFailure >= CooldownChecks
    /\ CooldownAfterFailure > CooldownChecks => CooldownChecks = 0
  BY ThresholdIsPositive, OthersAreNat DEF Far, CooldownAfterFailure

LEMMA HealthFields ==
    /\ Starting.running = FALSE /\ Failing.running = FALSE /\ Consuming.running = TRUE
    /\ {Starting, Failing, Consuming} \subseteq {Starting, Consuming, Failing}
  BY DEF Starting, Failing, Consuming, OrchestratorHealth

LEMMA StateFields ==
    ASSUME NEW f, NEW c, NEW o
    PROVE  /\ MonitorState(f, c, o).failures = f
           /\ MonitorState(f, c, o).cooldown = c
           /\ MonitorState(f, c, o).outcome = o
  BY DEF MonitorState

LEMMA SaturatedRange ==
    ASSUME NEW n \in 0 .. Far
    PROVE  /\ Saturated(n) \in 0 .. Far
           /\ Saturated(n) >= 1
           /\ Saturated(n) = n + 1 \/ (n = Far /\ Saturated(n) = Far)
  BY Constants DEF Saturated

LEMMA FaultTypes ==
    ASSUME TypeOK, Fault
    PROVE  faults' \in 0 .. MaxFaults /\ faults' = faults + 1
  BY Constants DEF TypeOK, Fault

\* The parts of TypeOK: the orchestrator's process, and the monitor.
ProcessTypes ==
    /\ orchestrator \in Down .. BootChecks
    /\ health \in {Starting, Consuming, Failing}
    /\ health.running => broker /\ orchestrator = 0
    /\ retry \in 0 .. RetryChecks
    /\ broker \in BOOLEAN

MonitorTypes ==
    /\ state.failures \in 0 .. FailureThreshold + MaxFaults
    /\ state.cooldown \in 0 .. CooldownAfterFailure
    /\ state.cooldown > CooldownChecks => CooldownChecks = 0
    /\ state.outcome \in {"none", "healthy", "degraded", "restarted", "restart_failed"}
    /\ step \in Steps
    /\ streak \in 0 .. Far
    /\ gap \in 0 .. Far
    /\ faults \in 0 .. MaxFaults

LEMMA TypeParts == /\ TypeOK <=> (ProcessTypes /\ MonitorTypes)
                   /\ TypeOK' <=> (ProcessTypes' /\ MonitorTypes')
  BY DEF TypeOK, ProcessTypes, MonitorTypes, history

LEMMA InitIInv == Init => IInv
<1> SUFFICES ASSUME Init PROVE IInv
  OBVIOUS
<1> USE Constants
<1>1. ProcessTypes
  BY HealthFields DEF Init, ProcessTypes, Down
<1>2. /\ state.failures = 0 /\ state.cooldown = 0 /\ state.outcome = "none"
      /\ step = "probe" /\ streak = 0 /\ gap = Far /\ faults = 0
  BY StateFields DEF Init
<1>3. MonitorTypes
  BY <1>2 DEF MonitorTypes, Steps
<1> QED
  BY <1>1, <1>2, <1>3, TypeParts
     DEF IInv, FailuresBounded, FailuresInARow, Uncounted, CooldownObserved,
         ThresholdReached

\* The monitor does not move; the orchestrator and the broker may.
LEMMA MonitorRests ==
    ASSUME IInv, UNCHANGED <<state, step, history>>, ProcessTypes',
           faults' \in 0 .. MaxFaults, faults' >= faults
    PROVE  IInv'
<1> USE Constants
<1>1. UNCHANGED <<state, step, streak, gap>>
  BY DEF history
<1>2. MonitorTypes /\ MonitorTypes'
  BY <1>1, TypeParts DEF IInv, MonitorTypes
<1>3. TypeOK'
  BY <1>2, TypeParts
<1>4. FailuresBounded'
  BY <1>1, <1>2 DEF IInv, FailuresBounded, MonitorTypes
<1> QED
  BY <1>1, <1>3, <1>4
     DEF IInv, FailuresInARow, Uncounted, CooldownObserved, ThresholdReached

LEMMA OrchestratorStep ==
    ASSUME IInv,
           \/ ConsumerConnects \/ ConsumerFails \/ BrokerFails
           \/ BrokerReturns \/ Crash
    PROVE  IInv'
<1> USE Constants, HealthFields
<1>1. TypeOK /\ ProcessTypes /\ faults \in 0 .. MaxFaults
  BY TypeParts DEF IInv, MonitorTypes
<1>2. UNCHANGED <<state, step, history>>
  BY DEF ConsumerConnects, ConsumerFails, BrokerFails, BrokerReturns, Crash
<1>3. faults' \in 0 .. MaxFaults /\ faults' >= faults
  BY <1>1, FaultTypes
     DEF ConsumerConnects, ConsumerFails, BrokerFails, BrokerReturns, Crash
<1>4. CASE ConsumerConnects \/ ConsumerFails
  BY <1>1, <1>2, <1>3, <1>4, MonitorRests
     DEF ConsumerConnects, ConsumerFails, ConsumerDue, ProcessTypes
<1>5. CASE BrokerFails \/ BrokerReturns
  <2>1. CASE BrokerReturns
    BY <1>1, <1>2, <1>3, <2>1, MonitorRests DEF BrokerReturns, process, ProcessTypes
  <2>2. CASE BrokerFails
    <3>1. /\ UNCHANGED orchestrator
          /\ \/ health' = Failing /\ retry' = RetryChecks
             \/ ~health.running /\ UNCHANGED <<health, retry>>
      BY <2>2 DEF BrokerFails
    <3>2. broker' \in BOOLEAN
      BY <2>2, Zenon DEF BrokerFails
    <3>3. health' \in {Starting, Consuming, Failing} /\ ~health'.running
      BY <1>1, <3>1 DEF ProcessTypes
    <3>4. ProcessTypes'
      BY <1>1, <3>1, <3>2, <3>3 DEF ProcessTypes
    <3> QED
      BY <1>2, <1>3, <3>4, MonitorRests
  <2> QED
    BY <1>5, <2>1, <2>2
<1>6. CASE Crash
  BY <1>1, <1>2, <1>3, <1>6, MonitorRests DEF Crash, Becomes, Down, ProcessTypes
<1> QED
  BY <1>4, <1>5, <1>6

LEMMA SleepStep == ASSUME IInv, Sleep PROVE IInv'
<1> USE Constants
<1>1. /\ step = "sleep" /\ step' = "probe"
      /\ UNCHANGED <<health, broker, state, streak, gap, faults>>
  BY DEF Sleep, history
<1>2. ProcessTypes /\ MonitorTypes
  BY TypeParts DEF IInv
<1>3. /\ orchestrator' \in Down .. BootChecks
      /\ retry' \in 0 .. RetryChecks
      /\ orchestrator = 0 => orchestrator' = 0
  BY <1>2 DEF Sleep, ProcessTypes, Down
<1>4. ProcessTypes'
  BY <1>1, <1>2, <1>3 DEF ProcessTypes
<1>5. MonitorTypes'
  BY <1>1, <1>2 DEF MonitorTypes, Steps
<1> QED
  BY <1>1, <1>4, <1>5, TypeParts
     DEF IInv, FailuresBounded, FailuresInARow, Uncounted, CooldownObserved,
         ThresholdReached

LEMMA ProbeSucceedsStep == ASSUME IInv, ProbeSucceeds PROVE IInv'
<1> USE Constants
<1>1. /\ step' = "sleep" /\ streak' = 0 /\ gap' = Saturated(gap)
      /\ UNCHANGED <<orchestrator, health, retry, broker, faults>>
      /\ state' = MonitorState(0, 0, "healthy")
  BY DEF ProbeSucceeds, process
<1>2. state'.failures = 0 /\ state'.cooldown = 0 /\ state'.outcome = "healthy"
  BY <1>1, StateFields
<1>3. ProcessTypes /\ MonitorTypes
  BY TypeParts DEF IInv
<1>4. gap' \in 0 .. Far /\ gap' >= 1
  BY <1>1, <1>3, SaturatedRange DEF MonitorTypes
<1>5. ProcessTypes' /\ MonitorTypes'
  BY <1>1, <1>2, <1>3, <1>4 DEF ProcessTypes, MonitorTypes, Steps
<1> QED
  BY <1>1, <1>2, <1>3, <1>4, <1>5, TypeParts
     DEF IInv, FailuresBounded, FailuresInARow, Uncounted, CooldownObserved,
         ThresholdReached, MonitorTypes

LEMMA ProbeFailsStep == ASSUME IInv, ProbeFails PROVE IInv'
<1> USE Constants
<1>1. /\ step = "probe"
      /\ streak' = Saturated(streak) /\ gap' = Saturated(gap)
      /\ UNCHANGED <<orchestrator, health, retry, broker>>
  BY DEF ProbeFails, process
<1>2. ProcessTypes /\ MonitorTypes
  BY TypeParts DEF IInv
<1>3. ProcessTypes'
  BY <1>1, <1>2 DEF ProcessTypes
<1>4. faults' \in 0 .. MaxFaults /\ faults' >= faults
  BY <1>2, FaultTypes DEF ProbeFails, IInv, MonitorTypes
<1>5. /\ streak' \in 0 .. Far /\ gap' \in 0 .. Far
      /\ streak' = streak + 1 \/ (streak = Far /\ streak' = Far)
      /\ gap' = gap + 1 \/ (gap = Far /\ gap' = Far)
  BY <1>1, <1>2, SaturatedRange DEF MonitorTypes
<1>6. /\ state.failures \in Nat /\ state.cooldown \in Nat
      /\ streak \in 0 .. Far /\ gap \in 0 .. Far /\ faults \in Nat
      /\ state.failures =< FailureThreshold - 1 + faults
      /\ state.failures =< streak \/ streak = Far
      /\ streak >= gap => state.cooldown + gap >= CooldownChecks
  BY <1>1, <1>2 DEF MonitorTypes, IInv, FailuresBounded, FailuresInARow, Uncounted,
                    CooldownObserved
<1>7. streak' >= gap' => \/ gap' = gap + 1 /\ state.cooldown + gap >= CooldownChecks
                         \/ gap' = Far
  BY <1>5, <1>6
<1>8. CASE OnlyCounts /\ state' = Counted /\ step' = "sleep"
  <2>1. CASE state.cooldown > 0
    <3>1. state' = MonitorState(state.failures, state.cooldown - 1, "degraded")
      BY <1>8, <2>1 DEF Counted, CooledBy
    <3>2. /\ state'.failures = state.failures
          /\ state'.cooldown = state.cooldown - 1
          /\ state'.outcome = "degraded"
      BY <3>1, StateFields
    <3>3. MonitorTypes'
      BY <1>2, <1>4, <1>5, <1>8, <2>1, <3>2 DEF MonitorTypes, Steps
    <3>4. FailuresBounded' /\ ThresholdReached'
      BY <1>4, <1>6, <1>8, <3>2 DEF FailuresBounded, ThresholdReached
    <3>5. FailuresInARow'
      BY <1>5, <1>6, <1>8, <3>2 DEF FailuresInARow, Uncounted
    <3>6. CooldownObserved'
      BY <1>5, <1>6, <1>8, <2>1, <3>2 DEF CooldownObserved
    <3> QED
      BY <1>3, <3>3, <3>4, <3>5, <3>6, TypeParts DEF IInv
  <2>2. CASE ~(state.cooldown > 0)
    <3>1. state' = MonitorState(state.failures + 1, 0, "degraded")
      BY <1>8, <2>2 DEF Counted
    <3>2. /\ state'.failures = state.failures + 1
          /\ state'.cooldown = 0
          /\ state'.outcome = "degraded"
      BY <3>1, StateFields
    <3>3. state.failures + 1 < FailureThreshold /\ state.cooldown = 0
      BY <1>6, <1>8, <2>2 DEF OnlyCounts
    <3>4. MonitorTypes'
      BY <1>2, <1>4, <1>5, <1>6, <1>8, <3>2, <3>3 DEF MonitorTypes, Steps
    <3>5. FailuresBounded' /\ ThresholdReached'
      BY <1>4, <1>6, <1>8, <3>2, <3>3 DEF FailuresBounded, ThresholdReached
    <3>6. FailuresInARow'
      BY <1>5, <1>6, <1>8, <3>2 DEF FailuresInARow, Uncounted
    <3>7. CooldownObserved'
      <4>1. state'.cooldown = state.cooldown
        BY <3>2, <3>3
      <4> QED
        BY <1>5, <1>6, <1>7, <1>8, <4>1 DEF CooldownObserved
    <3> QED
      BY <1>3, <3>4, <3>5, <3>6, <3>7, TypeParts DEF IInv
  <2> QED
    BY <2>1, <2>2
<1>9. CASE ~OnlyCounts /\ step' = "restart" /\ UNCHANGED state
  <2>1. state.cooldown = 0 /\ state.failures + 1 >= FailureThreshold
    BY <1>6, <1>9 DEF OnlyCounts
  <2>2. MonitorTypes'
    BY <1>2, <1>4, <1>5, <1>9 DEF MonitorTypes, Steps
  <2>3. FailuresBounded' /\ ThresholdReached'
    BY <1>4, <1>6, <1>9, <2>1 DEF FailuresBounded, ThresholdReached
  <2>4. FailuresInARow'
    BY <1>5, <1>6, <1>9 DEF FailuresInARow, Uncounted
  <2>5. CooldownObserved'
    BY <1>5, <1>6, <1>9, <2>1 DEF CooldownObserved
  <2> QED
    BY <1>3, <2>2, <2>3, <2>4, <2>5, TypeParts DEF IInv
<1> QED
  BY <1>8, <1>9 DEF ProbeFails

LEMMA RestartStep == ASSUME IInv, Restart PROVE IInv'
<1> USE Constants
<1>1. /\ state' = MonitorState(0, CooldownChecks, "restarted")
      /\ step' = "sleep" /\ gap' = 0
      /\ orchestrator' = BootChecks /\ health' = Starting /\ retry' = 0
      /\ UNCHANGED <<broker, streak, faults>>
  BY DEF Restart, Becomes
<1>2. /\ state'.failures = 0
      /\ state'.cooldown = CooldownChecks
      /\ state'.outcome = "restarted"
  BY <1>1, StateFields
<1>3. ProcessTypes /\ MonitorTypes
  BY TypeParts DEF IInv
<1>4. ProcessTypes'
  BY <1>1, <1>3, HealthFields DEF ProcessTypes, Down
<1>5. MonitorTypes'
  BY <1>1, <1>2, <1>3 DEF MonitorTypes, Steps
<1>6. FailuresBounded' /\ FailuresInARow' /\ CooldownObserved' /\ ThresholdReached'
  BY <1>1, <1>2, <1>3
     DEF FailuresBounded, FailuresInARow, Uncounted, CooldownObserved,
         ThresholdReached, MonitorTypes
<1> QED
  BY <1>4, <1>5, <1>6, TypeParts DEF IInv

LEMMA RestartFailsStep == ASSUME IInv, RestartFails PROVE IInv'
<1> USE Constants
<1>1. /\ step = "restart" /\ step' = "sleep" /\ gap' = 0
      /\ state' = MonitorState(state.failures + 1, CooldownAfterFailure, "restart_failed")
      /\ UNCHANGED <<broker, streak>>
      /\ \/ orchestrator' = BootChecks /\ health' = Starting /\ retry' = 0
         \/ UNCHANGED <<orchestrator, health, retry>>
  BY DEF RestartFails, Becomes, process
<1>2. /\ state'.failures = state.failures + 1
      /\ state'.cooldown = CooldownAfterFailure
      /\ state'.outcome = "restart_failed"
  BY <1>1, StateFields
<1>3. ProcessTypes /\ MonitorTypes
  BY TypeParts DEF IInv
<1>4. faults' \in 0 .. MaxFaults /\ faults' = faults + 1
  BY FaultTypes DEF RestartFails, IInv
<1>5. ProcessTypes'
  BY <1>1, <1>3, HealthFields DEF ProcessTypes, Down
<1>6. /\ state.failures \in Nat /\ faults \in Nat /\ streak \in 0 .. Far
      /\ state.failures =< FailureThreshold - 1 + faults
      /\ state.failures + 1 =< streak \/ streak = Far
  BY <1>1, <1>3 DEF MonitorTypes, IInv, FailuresBounded, FailuresInARow, Uncounted
<1>7. MonitorTypes'
  BY <1>1, <1>2, <1>3, <1>4, <1>6 DEF MonitorTypes, Steps
<1>8. FailuresBounded' /\ FailuresInARow' /\ CooldownObserved' /\ ThresholdReached'
  BY <1>1, <1>2, <1>4, <1>6
     DEF FailuresBounded, FailuresInARow, Uncounted, CooldownObserved, ThresholdReached
<1> QED
  BY <1>5, <1>7, <1>8, TypeParts DEF IInv

LEMMA StutterStep == ASSUME IInv, UNCHANGED vars PROVE IInv'
<1>1. UNCHANGED <<orchestrator, health, retry, broker, state, step, history, faults>>
  BY DEF vars, process
<1>2. ProcessTypes' /\ faults' \in 0 .. MaxFaults /\ faults' >= faults
  BY <1>1, TypeParts, Constants DEF IInv, ProcessTypes, MonitorTypes
<1> QED
  BY <1>1, <1>2, MonitorRests

LEMMA NextStep == ASSUME IInv, [Next]_vars PROVE IInv'
  BY OrchestratorStep, SleepStep, ProbeSucceedsStep, ProbeFailsStep, RestartStep,
     RestartFailsStep, StutterStep DEF Next

----------------------------------------------------------------------------
(* The theorems.                                                           *)

\* IInv holds in every reachable state.
THEOREM Invariance == Spec => []IInv
<1>1. IInv /\ [Next]_vars => IInv'
  BY NextStep
<1> QED
  BY InitIInv, <1>1, PTL DEF Spec

\* The counters stay within the threshold, the cooldown and the failures.
THEOREM TypeCorrect == Spec => []TypeOK
<1>1. IInv => TypeOK
  BY DEF IInv
<1> QED
  BY Invariance, <1>1, PTL

\* Only a whole threshold of failed probes in a row restarts the orchestrator,
\* and only after the whole cooldown of the last attempt.
THEOREM RestartEarned == Spec => []RestartsAreEarned
<1>1. ASSUME IInv PROVE RestartsAreEarned
  <2> SUFFICES ASSUME step = "restart"
               PROVE  /\ streak >= FailureThreshold
                      /\ streak >= gap => gap > CooldownChecks
    BY DEF RestartsAreEarned
  <2>1. MonitorTypes
    BY <1>1, TypeParts DEF IInv
  <2>2. /\ state.failures + 1 >= FailureThreshold
        /\ state.failures + 1 =< streak \/ streak = Far
        /\ streak >= gap => gap > CooldownChecks
    BY <1>1 DEF IInv, ThresholdReached, FailuresInARow, Uncounted, CooldownObserved
  <2> QED
    BY <2>1, <2>2, Constants DEF MonitorTypes
<1> QED
  BY Invariance, <1>1, PTL
============================================================================
