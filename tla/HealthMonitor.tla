---------------------------- MODULE HealthMonitor ----------------------------
(***************************************************************************)
(* The health monitor: one loop probes the orchestrator's /health/ready,   *)
(* counts consecutive failures, and restarts the container at a threshold, *)
(* holding back for a number of checks after every attempt.  A restarted   *)
(* orchestrator answers again only after BootChecks intervals, and every   *)
(* restart throws its memory away, so one restart too many is an outage.   *)
(*                                                                         *)
(* It says it is ready while its consumer is connected to RabbitMQ, which  *)
(* it tries anew every RetryChecks intervals: a failing broker makes a     *)
(* healthy process look dead.                                              *)
(***************************************************************************)
EXTENDS Integers

CONSTANTS FailureThreshold,  \* failure_threshold
          CooldownChecks,    \* cooldown_checks
          BootChecks,        \* check intervals an orchestrator takes to boot
          RetryChecks,       \* retry_seconds of its consumer, in intervals
          MaxFaults          \* bound: crashes, lost probes, failed restarts

ASSUME ThresholdIsPositive == FailureThreshold \in Nat \ {0}
ASSUME OthersAreNat == {CooldownChecks, BootChecks, RetryChecks, MaxFaults} \subseteq Nat

VARIABLES orchestrator,  \* Down, or the intervals until its process runs
          health,        \* its OrchestratorHealth
          retry,         \* intervals until its consumer tries to connect again
          broker,        \* whether RabbitMQ is there
          state,         \* MonitorState
          step,          \* where the loop of check_once stands
          streak,        \* history: failed probes since the last good one
          gap,           \* history: probes since the last restart attempt
          faults         \* failures so far

history == <<streak, gap>>
process == <<orchestrator, health, retry>>
vars    == <<process, broker, state, step, history, faults>>

Down == -1
Far  == FailureThreshold + CooldownChecks + 1  \* where the histories saturate

\* check_once between its two critical sections ("restart") and the loop's
\* sleep ("sleep").
Steps == {"probe", "restart", "sleep"}

MonitorState(failures, cooldown, outcome) ==
    [failures |-> failures, cooldown |-> cooldown, outcome |-> outcome]

\* OrchestratorProbe: running and leader as soon as the consumer consumes, and
\* neither, with the last error, once it does not.
OrchestratorHealth(running, leader, error) ==
    [running |-> running, leader |-> leader, error |-> error]
Starting  == OrchestratorHealth(FALSE, FALSE, FALSE)
Consuming == OrchestratorHealth(TRUE, TRUE, FALSE)
Failing   == OrchestratorHealth(FALSE, FALSE, TRUE)

Init == /\ orchestrator = 0
        /\ health = Starting
        /\ retry = 0
        /\ broker = TRUE
        /\ state = MonitorState(0, 0, "none")
        /\ step = "probe"
        /\ streak = 0
        /\ gap = Far
        /\ faults = 0

Fault == faults < MaxFaults /\ faults' = faults + 1

----------------------------------------------------------------------------
(* The consumer thread of the orchestrator.                                *)

\* _run is about to connect.
ConsumerDue == orchestrator = 0 /\ ~health.running /\ retry = 0

ConsumerConnects ==
    /\ ConsumerDue
    /\ broker
    /\ health' = Consuming
    /\ UNCHANGED <<orchestrator, retry, broker, state, step, history, faults>>

ConsumerFails ==
    /\ ConsumerDue
    /\ ~broker
    /\ health' = Failing
    /\ retry' = RetryChecks
    /\ UNCHANGED <<orchestrator, broker, state, step, history, faults>>

\* RabbitMQ goes, and with it the consumer's connection.
BrokerFails ==
    /\ broker
    /\ Fault
    /\ broker' = FALSE
    /\ IF health.running THEN health' = Failing /\ retry' = RetryChecks
                         ELSE UNCHANGED <<health, retry>>
    /\ UNCHANGED <<orchestrator, state, step, history>>

BrokerReturns ==
    /\ ~broker
    /\ broker' = TRUE
    /\ UNCHANGED <<process, state, step, history, faults>>

\* /health/ready.
Ready == orchestrator = 0 /\ health.running /\ health.leader /\ ~health.error

\* The process is gone, or begins with nothing.
Becomes(n) == orchestrator' = n /\ health' = Starting /\ retry' = 0

----------------------------------------------------------------------------
(* check_once.                                                             *)

Saturated(n) == IF n < Far THEN n + 1 ELSE Far

\* is_healthy: /health/ready answered 200.
ProbeSucceeds ==
    /\ step = "probe"
    /\ Ready
    /\ state' = MonitorState(0, 0, "healthy")
    /\ step' = "sleep"
    /\ streak' = 0
    /\ gap' = Saturated(gap)
    /\ UNCHANGED <<process, broker, faults>>

\* Mutant of OnlyCounts: the cooldown is not looked at.
OnlyCountsAlways == state.failures + 1 < FailureThreshold

\* A failed check that leads to no restart.
OnlyCounts == state.cooldown > 0 \/ state.failures + 1 < FailureThreshold

\* Mutant of CooledBy: the cooldown never runs out.
CooledByNothing == 0

CooledBy == 1

\* A check during the cooldown counts down, any other one counts a failure.
Counted ==
    IF state.cooldown > 0
    THEN MonitorState(state.failures, state.cooldown - CooledBy, "degraded")
    ELSE MonitorState(state.failures + 1, 0, "degraded")

\* The orchestrator is not ready, or its answer does not arrive.
ProbeFails ==
    /\ step = "probe"
    /\ \/ ~Ready /\ UNCHANGED faults
       \/ Ready /\ Fault
    /\ streak' = Saturated(streak)
    /\ gap' = Saturated(gap)
    /\ \/ OnlyCounts /\ state' = Counted /\ step' = "sleep"
       \/ ~OnlyCounts /\ step' = "restart" /\ UNCHANGED state
    /\ UNCHANGED <<process, broker>>

\* controller.restart() returned: the container starts from its image.
Restart ==
    /\ step = "restart"
    /\ Becomes(BootChecks)
    /\ state' = MonitorState(0, CooldownChecks, "restarted")
    /\ step' = "sleep"
    /\ gap' = 0
    /\ UNCHANGED <<broker, streak, faults>>

\* Mutant of CooldownAfterFailure: one more than the cooldown.
CooldownPlusOne == CooldownChecks + 1

CooldownAfterFailure == IF CooldownChecks > 1 THEN CooldownChecks ELSE 1

\* restart() raised, whether or not Docker restarted the container.
RestartFails ==
    /\ step = "restart"
    /\ Fault
    /\ Becomes(BootChecks) \/ UNCHANGED process
    /\ state' = MonitorState(state.failures + 1, CooldownAfterFailure, "restart_failed")
    /\ step' = "sleep"
    /\ gap' = 0
    /\ UNCHANGED <<broker, streak>>

\* monitor_loop sleeps for one interval, in which the orchestrator gets on; an
\* attempt to connect takes less than one.
Sleep ==
    /\ step = "sleep"
    /\ ~ConsumerDue
    /\ step' = "probe"
    /\ orchestrator' = IF orchestrator > 0 THEN orchestrator - 1 ELSE orchestrator
    /\ retry' = IF retry > 0 THEN retry - 1 ELSE 0
    /\ UNCHANGED <<health, broker, state, history, faults>>

\* The process dies, running or booting, or it finds no Docker when it starts
\* and goes on without a consumer.
Crash ==
    /\ orchestrator # Down
    /\ Fault
    /\ Becomes(Down)
    /\ UNCHANGED <<broker, state, step, history>>

Next == \/ ProbeSucceeds \/ ProbeFails \/ Restart \/ RestartFails \/ Sleep
        \/ Crash \/ ConsumerConnects \/ ConsumerFails \/ BrokerFails \/ BrokerReturns

\* monitor_loop goes on for ever, and so does the thread of the consumer.
Spec == /\ Init
        /\ [][Next]_vars
        /\ WF_vars(ProbeSucceeds \/ ProbeFails \/ Restart \/ Sleep)
        /\ WF_vars(ConsumerConnects \/ ConsumerFails)

----------------------------------------------------------------------------
(* Properties.                                                             *)

TypeOK ==
    /\ orchestrator \in Down .. BootChecks
    /\ health \in {Starting, Consuming, Failing}
    /\ health.running => broker /\ orchestrator = 0
    /\ retry \in 0 .. RetryChecks
    /\ broker \in BOOLEAN
    /\ state.failures \in 0 .. FailureThreshold + MaxFaults
    /\ state.cooldown \in 0 .. CooldownAfterFailure
    /\ state.cooldown > CooldownChecks => CooldownChecks = 0
    /\ state.outcome \in {"none", "healthy", "degraded", "restarted", "restart_failed"}
    /\ step \in Steps
    /\ history \in (0 .. Far) \X (0 .. Far)
    /\ faults \in 0 .. MaxFaults

\* The orchestrator is restarted only after FailureThreshold failed probes in
\* a row; and while no probe has succeeded since the last attempt, successful
\* or not, only after more than CooldownChecks probes.
RestartsAreEarned ==
    step = "restart" => /\ streak >= FailureThreshold
                        /\ streak >= gap => gap > CooldownChecks

\* An orchestrator that boots before cooldown and threshold are over, in check
\* intervals, ends up consuming and is left alone once failures end and RabbitMQ
\* stays: no restart strikes one that was on its way up.
Settles ==
    BootChecks < CooldownChecks + FailureThreshold /\ <>[]broker =>
        <>[](Ready /\ state.outcome = "healthy")
============================================================================
