--------------------------- MODULE PostgresFailover ---------------------------
(***************************************************************************)
(* The database pair: the primary with its streaming (asynchronous)        *)
(* replica, HAProxy routing writes by TCP checks, and failover_monitor.py, *)
(* which promotes the replica.  HAProxy and the monitor judge the nodes    *)
(* independently, each by its own count of failures, and neither fences    *)
(* the old primary.                                                        *)
(***************************************************************************)
EXTENDS Naturals, Sequences, SequencesExt

CONSTANTS FailureThreshold,  \* of the monitor
          Fall, Rise,        \* of HAProxy's checks
          MaxWrites,         \* bound: writes the clients make
          MaxFaults          \* bound: nodes that fail, answers that are lost

ASSUME CountsArePositive ==
    {FailureThreshold, Fall, Rise} \subseteq Nat \ {0}
ASSUME BoundsAreNat == {MaxWrites, MaxFaults} \subseteq Nat

VARIABLES up,       \* the nodes whose server answers
          standby,  \* the nodes in recovery: read-only
          log,      \* the writes each node has, in its order
          writes,   \* how many writes clients were told are committed
          proxy,    \* HAProxy's view of each server
          monitor   \* the monitor: failures, promoted, what it does next

VARIABLES faults,   \* failures so far
          returned  \* history: a primary that failed was started again

vars == <<up, standby, log, writes, proxy, monitor, faults, returned>>

Nodes == {"primary", "replica"}

Init == /\ up = Nodes
        /\ standby = {"replica"}
        /\ log = [n \in Nodes |-> <<>>]
        /\ writes = 0
        /\ proxy = [n \in Nodes |-> [in |-> TRUE, count |-> 0]]
        /\ monitor = [failures |-> 0, promoted |-> FALSE, step |-> "query"]
        /\ faults = 0
        /\ returned = FALSE

Fault == faults < MaxFaults /\ faults' = faults + 1

----------------------------------------------------------------------------
(* Clients, replication, HAProxy.                                          *)

\* Mutants of WriteServer: the order of postgres_replicas; no backup server.
ReplicaFirst == IF proxy["replica"].in THEN "replica" ELSE "primary"
NoBackup     == "primary"

\* backend postgres_primary: the replica is a backup server.
WriteServer == IF proxy["primary"].in THEN "primary" ELSE "replica"
Routable    == proxy[WriteServer].in

\* A transaction through port 5432: the node HAProxy picks must be there and
\* must not be read-only.
Writable == Routable /\ WriteServer \in up \ standby

Write ==
    /\ writes < MaxWrites
    /\ Writable
    /\ writes' = writes + 1
    /\ log' = [log EXCEPT ![WriteServer] = Append(@, writes')]
    /\ UNCHANGED <<up, standby, proxy, monitor, faults, returned>>

\* Streaming replication, some time after the commit.
Replicate ==
    /\ up = Nodes
    /\ standby = {"replica"}
    /\ Len(log["replica"]) < Len(log["primary"])
    /\ log' = [log EXCEPT !["replica"] = Append(@, log["primary"][Len(@) + 1])]
    /\ UNCHANGED <<up, standby, writes, proxy, monitor, faults, returned>>

\* Mutant of Short: one more failure or success than the limit.
ShortByTwo(count, limit) == count < limit

\* Another result like this one is still not enough.
Short(count, limit) == count + 1 < limit

\* A check of HAProxy's ended in ok: fall failures in a row take a server out,
\* rise successes put it back.
Counts(n, ok) ==
    LET s     == proxy[n]
        limit == IF s.in THEN Fall ELSE Rise
    IN  IF ok = s.in
        THEN s.count # 0 /\ proxy' = [proxy EXCEPT ![n].count = 0]
        ELSE IF Short(s.count, limit)
        THEN proxy' = [proxy EXCEPT ![n].count = @ + 1]
        ELSE proxy' = [proxy EXCEPT ![n] = [in |-> ~@.in, count |-> 0]]

\* option tcp-check: it may fail on a server that is there, too.
Check(n) ==
    /\ \/ Counts(n, n \in up) /\ UNCHANGED faults
       \/ n \in up /\ Counts(n, FALSE) /\ Fault
    /\ UNCHANGED <<up, standby, log, writes, monitor, returned>>

----------------------------------------------------------------------------
(* failover_monitor.py.                                                    *)

ActiveHost == IF monitor.promoted THEN "replica" ELSE "primary"

\* query_recovery(active_host) is false: the active node takes writes.
QueryAnswered ==
    /\ monitor.step = "query"
    /\ ActiveHost \in up \ standby
    /\ monitor' = [monitor EXCEPT !.failures = 0, !.step = "sleep"]
    /\ UNCHANGED <<up, standby, log, writes, proxy, faults, returned>>

\* Below the threshold, or after the one promotion, a failure only counts.
CountsUp(failures) == failures < FailureThreshold \/ monitor.promoted

\* The query failed, or found the node in recovery: promote at the threshold.
\* (Above the threshold the count plays no role.)
QueryFails ==
    /\ monitor.step = "query"
    /\ \/ ActiveHost \notin up \ standby /\ UNCHANGED faults
       \/ ActiveHost \in up \ standby /\ Fault
    /\ LET failures == IF monitor.failures < FailureThreshold
                       THEN monitor.failures + 1 ELSE FailureThreshold
       IN  monitor' = [monitor EXCEPT !.failures = failures,
                          !.step = IF CountsUp(failures) THEN "sleep" ELSE "promote"]
    /\ UNCHANGED <<up, standby, log, writes, proxy, returned>>

\* promote_replica: an unreachable replica is tried again after the next
\* failed query; one that is no standby is left alone.
Promote ==
    /\ monitor.step = "promote"
    /\ IF "replica" \in up
       THEN standby' = {} /\ monitor' = [monitor EXCEPT !.step = "verify"]
       ELSE UNCHANGED standby /\ monitor' = [monitor EXCEPT !.step = "sleep"]
    /\ UNCHANGED <<up, log, writes, proxy, faults, returned>>

\* pg_promote waited in vain: RuntimeError, which nobody catches, ends the
\* monitor; the server may be promoted all the same.
PromoteTimesOut ==
    /\ monitor.step = "promote"
    /\ "replica" \in up \cap standby
    /\ Fault
    /\ standby' \in {standby, {}}
    /\ monitor' = [monitor EXCEPT !.step = "dead"]
    /\ UNCHANGED <<up, log, writes, proxy, returned>>

\* promoted = not query_recovery(REPLICA_HOST).
Verify ==
    /\ monitor.step = "verify"
    /\ monitor' = IF "replica" \in up
                  THEN [failures |-> 0, promoted |-> "replica" \notin standby,
                        step |-> "sleep"]
                  ELSE [monitor EXCEPT !.step = "sleep"]
    /\ UNCHANGED <<up, standby, log, writes, proxy, faults, returned>>

Sleep ==
    /\ monitor.step = "sleep"
    /\ monitor' = [monitor EXCEPT !.step = "query"]
    /\ UNCHANGED <<up, standby, log, writes, proxy, faults, returned>>

----------------------------------------------------------------------------
(* The servers.                                                            *)

NodeFails(n) ==
    /\ n \in up
    /\ Fault
    /\ up' = up \ {n}
    /\ UNCHANGED <<standby, log, writes, proxy, monitor, returned>>

\* Started again, in the role and with the data it had.
NodeReturns(n) ==
    /\ n \notin up
    /\ up' = up \cup {n}
    /\ returned' = (returned \/ n = "primary")
    /\ UNCHANGED <<standby, log, writes, proxy, monitor, faults>>

MonitorStep == QueryAnswered \/ QueryFails \/ Promote \/ Verify \/ Sleep

Next == \/ Write \/ Replicate
        \/ MonitorStep \/ PromoteTimesOut
        \/ \E n \in Nodes : Check(n) \/ NodeFails(n) \/ NodeReturns(n)

Spec == Init /\ [][Next]_vars

\* HAProxy checks every server, and the monitor loops, for ever.
FairSpec == Spec /\ WF_vars(MonitorStep) /\ \A n \in Nodes : WF_vars(Check(n))

----------------------------------------------------------------------------
(* Properties.                                                             *)

TypeOK ==
    /\ up \subseteq Nodes
    /\ standby \subseteq {"replica"}
    /\ log \in [Nodes -> Seq(1 .. MaxWrites)]
    /\ writes \in 0 .. MaxWrites
    /\ \A n \in Nodes : /\ proxy[n].in \in BOOLEAN
                         /\ proxy[n].count \in 0 .. (IF proxy[n].in THEN Fall ELSE Rise) - 1
    /\ monitor \in [failures : 0 .. FailureThreshold, promoted : BOOLEAN,
                    step : {"query", "promote", "verify", "sleep", "dead"}]
    /\ faults \in 0 .. MaxFaults
    /\ returned \in BOOLEAN

\* No node commits a write while the other is there with commits of its own,
\* however differently HAProxy and the monitor judge the nodes, but in two
\* cases: a primary that failed was started again with the data it had, or both
\* judges were wrong about a live primary, each for its whole row of failures.
OneHistory ==
    [][\A n, m \in Nodes : n # m /\ Len(log'[n]) > Len(log[n]) =>
          \/ m \notin up
          \/ IsPrefix(log[m], log[n]) \/ IsPrefix(log'[n], log[m])
          \/ returned
          \/ faults >= FailureThreshold + Fall
      ]_vars

\* As long as the replica is there in the end, and the monitor lives, clients
\* can write again, whatever failed before.
WritesResume ==
    <>[]("replica" \in up /\ monitor.step # "dead") => []<>Writable

\* What the README says without the second condition: the failover is
\* automatic.
FailoverIsAutomatic == <>[]("replica" \in up) => []<>Writable

\* What the README says of the way back: failback is manual, so that once the
\* replica has commits of its own, no write goes to the old primary.
FailbackIsManual ==
    [][~IsPrefix(log["replica"], log["primary"]) =>
          log'["primary"] = log["primary"]]_vars
===============================================================================
