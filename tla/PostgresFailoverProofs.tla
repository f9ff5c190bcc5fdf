----------------------- MODULE PostgresFailoverProofs -----------------------
(***************************************************************************)
(* Proofs about PostgresFailover, for every threshold of the monitor and   *)
(* of HAProxy and any number of writes and faults.  That histories do not  *)
(* fork rests on a count of evidence: as long as the primary is up without *)
(* a break, what HAProxy and the monitor hold against it was paid for by   *)
(* one fault each.                                                         *)
(***************************************************************************)
EXTENDS PostgresFailover, SequenceTheorems, TLAPS

\* HAProxy has a view of each server.
ProxyOK == proxy \in [Nodes -> [in : BOOLEAN, count : Nat]]

TypeInv == TypeOK /\ ProxyOK

\* What HAProxy holds against the primary, in failed checks.
ProxyEvidence == IF proxy["primary"].in THEN proxy["primary"].count ELSE Fall

\* What the monitor holds against it, in failed queries.
MonitorEvidence ==
    IF \/ monitor.step \in {"promote", "verify"}
       \/ monitor.promoted \/ standby = {}
    THEN FailureThreshold ELSE monitor.failures

\* The promoted replica is no standby.
PromotionOK == monitor.promoted \/ monitor.step = "verify" => standby = {}

\* Against a primary that is up without a break, each failed check and each
\* failed query was a fault; and until both judges have decided against it,
\* the replica has nothing of its own.
PrimaryLeads ==
    "primary" \in up /\ ~returned =>
        /\ ProxyEvidence + MonitorEvidence =< faults
        /\ faults < FailureThreshold + Fall =>
              IsPrefix(log["replica"], log["primary"])

----------------------------------------------------------------------------
(* Prefixes.                                                               *)

\* IsPrefix, element by element.
LEMMA PrefixElements ==
    ASSUME NEW S, NEW s \in Seq(S), NEW t \in Seq(S)
    PROVE  IsPrefix(s, t) <=> /\ Len(s) =< Len(t)
                              /\ \A i \in 1 .. Len(s) : s[i] = t[i]
<1>1. CASE Len(s) =< Len(t)
  <2>1. /\ SubSeq(s, 1, Len(s)) = s
        /\ SubSeq(t, 1, Len(s)) \in Seq(S)
        /\ Len(SubSeq(t, 1, Len(s))) = Len(s)
        /\ \A i \in 1 .. Len(s) : SubSeq(t, 1, Len(s))[i] = t[i]
    BY <1>1
  <2>2. s = SubSeq(t, 1, Len(s)) <=> \A i \in 1 .. Len(s) : s[i] = t[i]
    BY <2>1, SeqEqual
  <2> QED
    BY <1>1, <2>1, <2>2 DEF IsPrefix
<1>2. CASE ~(Len(s) =< Len(t))
  BY <1>2 DEF IsPrefix
<1> QED
  BY <1>1, <1>2

\* What lies before stays before when the longer one grows.
LEMMA PrefixOfAppended ==
    ASSUME NEW S, NEW s \in Seq(S), NEW t \in Seq(S), NEW x \in S, IsPrefix(s, t)
    PROVE  IsPrefix(s, Append(t, x))
<1>1. Len(s) =< Len(t) /\ \A i \in 1 .. Len(s) : s[i] = t[i]
  BY PrefixElements
<1>2. /\ Append(t, x) \in Seq(S) /\ Len(Append(t, x)) = Len(t) + 1
      /\ \A i \in 1 .. Len(t) : Append(t, x)[i] = t[i]
  BY AppendProperties
<1>3. Len(s) =< Len(Append(t, x)) /\ \A i \in 1 .. Len(s) : s[i] = Append(t, x)[i]
  BY <1>1, <1>2
<1> QED
  BY <1>2, <1>3, PrefixElements

\* Copying the next element of the longer one keeps it longer or as long.
LEMMA PrefixCopied ==
    ASSUME NEW S, NEW s \in Seq(S), NEW t \in Seq(S), IsPrefix(s, t), Len(s) < Len(t)
    PROVE  /\ Append(s, t[Len(s) + 1]) \in Seq(S)
           /\ IsPrefix(Append(s, t[Len(s) + 1]), t)
<1> DEFINE x == t[Len(s) + 1]
<1>1. x \in S
  BY ElementOfSeq
<1>2. Len(s) =< Len(t) /\ \A i \in 1 .. Len(s) : s[i] = t[i]
  BY PrefixElements
<1>3. /\ Append(s, x) \in Seq(S) /\ Len(Append(s, x)) = Len(s) + 1
      /\ \A i \in 1 .. Len(s) : Append(s, x)[i] = s[i]
      /\ Append(s, x)[Len(s) + 1] = x
  BY <1>1, AppendProperties
<1>4. Len(Append(s, x)) =< Len(t) /\ \A i \in 1 .. Len(Append(s, x)) : Append(s, x)[i] = t[i]
  BY <1>2, <1>3
<1> QED
  BY <1>3, <1>4, PrefixElements

----------------------------------------------------------------------------
(* Types: one lemma per action that does more than move the monitor.       *)

LEMMA TypeParts ==
    ASSUME TypeInv
    PROVE  /\ writes \in Nat /\ faults \in Nat
           /\ log["primary"] \in Seq(1 .. MaxWrites)
           /\ log["replica"] \in Seq(1 .. MaxWrites)
           /\ \A n \in Nodes : /\ proxy[n] \in [in : BOOLEAN, count : Nat]
                               /\ log[n] \in Seq(1 .. MaxWrites)
BY BoundsAreNat DEF TypeInv, TypeOK, ProxyOK, Nodes

LEMMA FaultCounted ==
    ASSUME TypeInv, Fault
    PROVE  faults' \in 0 .. MaxFaults
BY BoundsAreNat DEF TypeInv, TypeOK, Fault

LEMMA WriteTypes ==
    ASSUME TypeInv, Write
    PROVE  /\ TypeInv'
           /\ WriteServer \in Nodes /\ writes' \in 1 .. MaxWrites
<1>1. WriteServer \in Nodes
  BY DEF WriteServer, Nodes
<1>2. writes' \in 1 .. MaxWrites
  BY TypeParts, BoundsAreNat DEF TypeInv, TypeOK, Write
<1>3. Append(log[WriteServer], writes') \in Seq(1 .. MaxWrites)
  BY <1>1, <1>2, TypeParts, AppendProperties
<1>4. /\ log' = [log EXCEPT ![WriteServer] = Append(log[WriteServer], writes')]
      /\ UNCHANGED <<up, standby, proxy, monitor, faults, returned>>
  BY DEF Write
<1>5. log' \in [Nodes -> Seq(1 .. MaxWrites)] /\ writes' \in 0 .. MaxWrites
  BY <1>1, <1>2, <1>3, <1>4 DEF TypeInv, TypeOK
<1> QED
  BY <1>1, <1>2, <1>4, <1>5 DEF TypeInv, TypeOK, ProxyOK

LEMMA ReplicateTypes ==
    ASSUME TypeInv, Replicate
    PROVE  TypeInv'
<1> DEFINE r == log["replica"]
           q == log["primary"]
<1>1. r \in Seq(1 .. MaxWrites) /\ q \in Seq(1 .. MaxWrites) /\ Len(r) < Len(q)
  BY TypeParts DEF Replicate
<1>2. q[Len(r) + 1] \in 1 .. MaxWrites
  <2>1. Len(r) + 1 \in 1 .. Len(q)
    BY <1>1
  <2> HIDE DEF r, q
  <2> QED
    BY <1>1, <2>1, ElementOfSeq
<1>3. Append(r, q[Len(r) + 1]) \in Seq(1 .. MaxWrites)
  BY <1>1, <1>2, AppendProperties
<1>4. /\ log' = [log EXCEPT !["replica"] = Append(r, q[Len(r) + 1])]
      /\ UNCHANGED <<up, standby, writes, proxy, monitor, faults, returned>>
  BY DEF Replicate
<1>5. log' \in [Nodes -> Seq(1 .. MaxWrites)]
  BY <1>3, <1>4 DEF TypeInv, TypeOK, Nodes
<1> QED
  BY <1>4, <1>5 DEF TypeInv, TypeOK, ProxyOK

\* A result moves the count of one server below its limit, or turns the server.
LEMMA CountsTypes ==
    ASSUME TypeInv, NEW n \in Nodes, NEW ok \in BOOLEAN, Counts(n, ok),
           UNCHANGED <<up, standby, log, writes, monitor, returned>>,
           faults' = faults \/ Fault
    PROVE  /\ TypeInv'
           /\ \A m \in Nodes : m # n => proxy'[m] = proxy[m]
           /\ ok /\ proxy[n].in => proxy'[n].in /\ proxy'[n].count = 0
           /\ ~ok /\ proxy[n].in =>
                 \/ proxy'[n].in /\ proxy'[n].count = proxy[n].count + 1
                 \/ ~proxy'[n].in /\ proxy[n].count + 1 = Fall
           /\ ~proxy[n].in => proxy'[n].in = FALSE \/ proxy'[n].count = 0
<1> DEFINE s == proxy[n]
           limit == IF s.in THEN Fall ELSE Rise
           Limit(v) == IF v.in THEN Fall ELSE Rise
<1>1. /\ s \in [in : BOOLEAN, count : Nat] /\ s.count \in 0 .. limit - 1
      /\ s.in \in BOOLEAN
      /\ proxy \in [Nodes -> [in : BOOLEAN, count : Nat]]
  BY DEF TypeInv, TypeOK, ProxyOK
<1>2. Fall \in Nat /\ Rise \in Nat /\ Fall > 0 /\ Rise > 0
  BY CountsArePositive
<1>3. PICK v \in [in : BOOLEAN, count : Nat] :
         /\ proxy' = [proxy EXCEPT ![n] = v]
         /\ v.count \in 0 .. Limit(v) - 1
         /\ ok /\ s.in => v.in /\ v.count = 0
         /\ ~ok /\ s.in => \/ v.in /\ v.count = s.count + 1
                           \/ ~v.in /\ s.count + 1 = Fall
         /\ ~s.in => v.in = FALSE \/ v.count = 0
  <2>1. CASE ok = s.in
    <3>1. proxy' = [proxy EXCEPT ![n] = [s EXCEPT !.count = 0]]
      BY <2>1 DEF Counts
    <3>2. /\ [s EXCEPT !.count = 0] \in [in : BOOLEAN, count : Nat]
          /\ [s EXCEPT !.count = 0].in = s.in /\ [s EXCEPT !.count = 0].count = 0
      BY <1>1
    <3>3. 0 \in 0 .. limit - 1
      BY <1>2
    <3> QED
      BY <2>1, <3>1, <3>2, <3>3
  <2>2. CASE ok # s.in /\ Short(s.count, limit)
    <3> DEFINE v == [s EXCEPT !.count = s.count + 1]
    <3>1. proxy' = [proxy EXCEPT ![n] = v]
      BY <2>2 DEF Counts
    <3>2. /\ v \in [in : BOOLEAN, count : Nat]
          /\ v.in = s.in /\ v.count = s.count + 1
      BY <1>1
    <3>3. s.count + 1 \in 0 .. limit - 1
      BY <1>1, <1>2, <2>2 DEF Short
    <3>4. ~(ok /\ s.in)
      BY <2>2
    <3>5. s.in \in BOOLEAN
      BY <1>1
    <3>6. Limit(v) = limit
      BY <3>2
    <3>7. v.count \in 0 .. Limit(v) - 1
      BY <3>2, <3>3, <3>6
    <3>8. v \in [in : BOOLEAN, count : Nat] /\ v.in = s.in /\ v.count = s.count + 1
      BY <3>2
    <3> HIDE DEF v, s
    <3>9. /\ ~(ok /\ s.in)
          /\ s.in => v.in /\ v.count = s.count + 1
          /\ ~s.in => v.in = FALSE
      <4>1. CASE s.in
        BY <3>4, <3>8, <4>1, Zenon
      <4>2. CASE ~s.in
        <5>1. s.in = FALSE
          BY <3>5, <4>2
        <5> QED
          BY <3>8, <4>2, <5>1, Zenon
      <4> QED
        BY <4>1, <4>2
    <3> QED
      BY <3>1, <3>7, <3>8, <3>9
  <2>3. CASE ok # s.in /\ ~Short(s.count, limit)
    <3> DEFINE v == [in |-> ~s.in, count |-> 0]
    <3>1. proxy' = [proxy EXCEPT ![n] = v]
      BY <2>3 DEF Counts
    <3>2. v \in [in : BOOLEAN, count : Nat] /\ v.count = 0 /\ v.in = ~s.in
      BY <1>1
    <3>3. 0 \in 0 .. Limit(v) - 1
      BY <1>2
    <3>4. ~(ok /\ s.in)
      BY <2>3
    <3>5. s.in => s.count + 1 = Fall
      BY <1>1, <1>2, <2>3 DEF Short
    <3> HIDE DEF v
    <3> QED
      BY <3>1, <3>2, <3>3, <3>4, <3>5
  <2> QED
    BY <2>1, <2>2, <2>3
<1> HIDE DEF s, limit
<1>4. /\ proxy'[n] = v /\ proxy' \in [Nodes -> [in : BOOLEAN, count : Nat]]
      /\ \A m \in Nodes : m # n => proxy'[m] = proxy[m]
  BY <1>1, <1>3
<1>5. \A m \in Nodes : /\ proxy'[m].in \in BOOLEAN
                       /\ proxy'[m].count \in 0 .. (IF proxy'[m].in THEN Fall ELSE Rise) - 1
  <2> SUFFICES ASSUME NEW m \in Nodes
               PROVE  /\ proxy'[m].in \in BOOLEAN
                      /\ proxy'[m].count \in 0 .. (IF proxy'[m].in THEN Fall ELSE Rise) - 1
    OBVIOUS
  <2>1. CASE m = n
    BY <1>3, <1>4, <2>1
  <2>2. CASE m # n
    BY <1>4, <2>2 DEF TypeInv, TypeOK
  <2> QED
    BY <2>1, <2>2
<1>6. faults' \in 0 .. MaxFaults
  BY FaultCounted DEF TypeInv, TypeOK
<1>7. TypeInv'
  BY <1>4, <1>5, <1>6 DEF TypeInv, TypeOK, ProxyOK
<1> QED
  BY <1>3, <1>4, <1>7 DEF s

\* A check adds to what HAProxy holds against a primary that is there only
\* with a fault.
LEMMA CheckTypes ==
    ASSUME TypeInv, NEW n \in Nodes, Check(n)
    PROVE  /\ TypeInv'
           /\ UNCHANGED <<up, standby, log, monitor, returned>>
           /\ "primary" \in up =>
                 \/ faults' = faults     /\ ProxyEvidence' =< ProxyEvidence
                 \/ faults' = faults + 1 /\ ProxyEvidence' =< ProxyEvidence + 1
<1>1. UNCHANGED <<up, standby, log, writes, monitor, returned>>
  BY DEF Check
<1>2. PICK ok \in BOOLEAN :
         /\ Counts(n, ok)
         /\ \/ ok = (n \in up) /\ UNCHANGED faults
            \/ ~ok /\ n \in up /\ Fault
  <2>1. CASE Counts(n, n \in up) /\ UNCHANGED faults
    <3>1. CASE n \in up
      <4>1. (n \in up) = TRUE
        BY <3>1
      <4> QED
        BY <2>1, <4>1, Zenon
    <3>2. CASE n \notin up
      <4>1. (n \in up) = FALSE
        BY <3>2
      <4> QED
        BY <2>1, <4>1, Zenon
    <3> QED
      BY <3>1, <3>2
  <2>2. CASE n \in up /\ Counts(n, FALSE) /\ Fault
    BY <2>2, Zenon
  <2> QED
    BY <2>1, <2>2 DEF Check
<1>3. faults' = faults \/ Fault
  BY <1>2
<1>4. /\ TypeInv'
      /\ \A m \in Nodes : m # n => proxy'[m] = proxy[m]
      /\ ok /\ proxy[n].in => proxy'[n].in /\ proxy'[n].count = 0
      /\ ~ok /\ proxy[n].in =>
            \/ proxy'[n].in /\ proxy'[n].count = proxy[n].count + 1
            \/ ~proxy'[n].in /\ proxy[n].count + 1 = Fall
      /\ ~proxy[n].in => proxy'[n].in = FALSE \/ proxy'[n].count = 0
  BY <1>1, <1>2, <1>3, CountsTypes
<1>5. /\ proxy["primary"].count \in Nat /\ proxy["primary"].in \in BOOLEAN
      /\ proxy'["primary"].in \in BOOLEAN /\ proxy'["primary"].count \in Nat
      /\ faults \in Nat /\ Fall \in Nat /\ Fall > 0 /\ "primary" \in Nodes
  <2>1. "primary" \in Nodes
    BY DEF Nodes
  <2>2. /\ proxy["primary"].count \in Nat /\ proxy["primary"].in \in BOOLEAN
    <3>1. ProxyOK
      BY DEF TypeInv
    <3> QED
      BY <2>1, <3>1 DEF ProxyOK
  <2>3. /\ proxy'["primary"].in \in BOOLEAN /\ proxy'["primary"].count \in Nat
    <3>1. ProxyOK'
      BY <1>4 DEF TypeInv
    <3> QED
      BY <2>1, <3>1 DEF ProxyOK, Nodes
  <2>4. faults \in Nat
    BY BoundsAreNat DEF TypeInv, TypeOK
  <2> QED
    BY <2>1, <2>2, <2>3, <2>4, BoundsAreNat, CountsArePositive
<1>6. ASSUME "primary" \in up
      PROVE  \/ faults' = faults     /\ ProxyEvidence' =< ProxyEvidence
             \/ faults' = faults + 1 /\ ProxyEvidence' =< ProxyEvidence + 1
  <2>1. CASE n # "primary"
    <3>1. proxy'["primary"] = proxy["primary"]
      BY <1>4, <1>5, <2>1
    <3>2. faults' = faults \/ faults' = faults + 1
      BY <1>3 DEF Fault
    <3> QED
      BY <1>5, <3>1, <3>2 DEF ProxyEvidence
  <2>2. CASE n = "primary" /\ ok
    <3>1. faults' = faults
      BY <1>2, <2>2
    <3> QED
      BY <1>4, <1>5, <2>2, <3>1 DEF ProxyEvidence
  <2>3. CASE n = "primary" /\ ~ok
    <3>1. faults' = faults + 1
      BY <1>2, <1>6, <2>3 DEF Fault
    <3> QED
      BY <1>4, <1>5, <2>3, <3>1 DEF ProxyEvidence
  <2> QED
    BY <2>1, <2>2, <2>3
<1> QED
  BY <1>1, <1>4, <1>6

Steps   == {"query", "promote", "verify", "sleep", "dead"}
Monitor == [failures : 0 .. FailureThreshold, promoted : BOOLEAN, step : Steps]

\* Neither the monitor nor a node that fails or returns touches the data.
LEMMA OtherTypes ==
    ASSUME TypeInv, UNCHANGED <<log, writes, proxy>>, up' \subseteq Nodes,
           standby' \subseteq {"replica"}, monitor' \in Monitor,
           faults' = faults \/ Fault, returned' \in BOOLEAN
    PROVE  TypeInv'
<1>1. faults' \in 0 .. MaxFaults
  BY FaultCounted DEF TypeInv, TypeOK
<1> QED
  BY <1>1 DEF TypeInv, TypeOK, ProxyOK, Monitor, Steps

LEMMA MonitorValues ==
    ASSUME NEW m \in Monitor, NEW f \in 0 .. FailureThreshold, NEW p \in BOOLEAN,
           NEW s \in Steps
    PROVE  /\ [failures |-> f, promoted |-> p, step |-> s] \in Monitor
           /\ [m EXCEPT !.failures = f, !.step = s] \in Monitor
           /\ [m EXCEPT !.step = s] \in Monitor
BY DEF Monitor

LEMMA MonitorTypes ==
    ASSUME TypeInv, MonitorStep \/ PromoteTimesOut
    PROVE  TypeInv' /\ UNCHANGED <<up, log, proxy, returned>>
<1>1. monitor \in Monitor /\ up \subseteq Nodes /\ standby \subseteq {"replica"}
  BY DEF TypeInv, TypeOK, Monitor, Steps
<1>2. FailureThreshold \in Nat /\ FailureThreshold > 0
  BY CountsArePositive
<1>3. /\ UNCHANGED <<up, log, writes, proxy, returned>>
      /\ faults' = faults \/ Fault
      /\ standby' \subseteq {"replica"}
  BY <1>1 DEF MonitorStep, QueryAnswered, QueryFails, Promote, Verify, Sleep,
              PromoteTimesOut
<1>4. monitor' \in Monitor
  <2> 0 \in 0 .. FailureThreshold
    BY <1>2
  <2>1. CASE QueryAnswered
    BY <1>1, <2>1, MonitorValues DEF QueryAnswered, Steps
  <2>2. CASE QueryFails
    <3> DEFINE failures == IF monitor.failures < FailureThreshold
                           THEN monitor.failures + 1 ELSE FailureThreshold
               step     == IF CountsUp(failures) THEN "sleep" ELSE "promote"
    <3>1. monitor' = [monitor EXCEPT !.failures = failures, !.step = step]
      BY <2>2 DEF QueryFails
    <3>2. failures \in 0 .. FailureThreshold
      BY <1>1, <1>2 DEF Monitor
    <3>3. step \in Steps
      BY DEF Steps
    <3> HIDE DEF failures, step
    <3> QED
      BY <1>1, <3>1, <3>2, <3>3 DEF Monitor
  <2>3. CASE Promote
    BY <1>1, <2>3 DEF Promote, Monitor, Steps
  <2>4. CASE Verify
    <3> PICK promoted \in BOOLEAN : promoted = ("replica" \notin standby)
      OBVIOUS
    <3>1. \/ monitor' = [failures |-> 0, promoted |-> promoted, step |-> "sleep"]
          \/ monitor' = [monitor EXCEPT !.step = "sleep"]
      BY <2>4 DEF Verify
    <3>2. "sleep" \in Steps
      BY DEF Steps
    <3> QED
      BY <1>1, <3>1, <3>2, MonitorValues
  <2>5. CASE Sleep
    BY <1>1, <2>5 DEF Sleep, Monitor, Steps
  <2>6. CASE PromoteTimesOut
    BY <1>1, <2>6 DEF PromoteTimesOut, Monitor, Steps
  <2> QED
    BY <2>1, <2>2, <2>3, <2>4, <2>5, <2>6 DEF MonitorStep
<1>5. returned' \in BOOLEAN
  BY <1>3 DEF TypeInv, TypeOK
<1> QED
  BY <1>1, <1>3, <1>4, <1>5, OtherTypes

LEMMA NodeTypes ==
    ASSUME TypeInv, NEW n \in Nodes, NodeFails(n) \/ NodeReturns(n)
    PROVE  TypeInv' /\ UNCHANGED <<log, proxy>>
<1>1. monitor \in Monitor /\ up \subseteq Nodes /\ standby \subseteq {"replica"}
  BY DEF TypeInv, TypeOK, Monitor, Steps
<1>2. /\ UNCHANGED <<standby, log, writes, proxy, monitor>>
      /\ up' \subseteq Nodes
      /\ faults' = faults \/ Fault
      /\ returned' \in BOOLEAN
  BY <1>1 DEF NodeFails, NodeReturns, TypeInv, TypeOK
<1> QED
  BY <1>1, <1>2, OtherTypes

LEMMA InitTypes == Init => TypeInv
<1> SUFFICES ASSUME Init PROVE TypeInv
  OBVIOUS
<1>1. /\ FailureThreshold \in Nat /\ MaxWrites \in Nat /\ MaxFaults \in Nat
      /\ Fall \in Nat /\ Rise \in Nat /\ Fall > 0 /\ Rise > 0
  BY CountsArePositive, BoundsAreNat
<1>2. /\ proxy \in [Nodes -> [in : BOOLEAN, count : Nat]]
      /\ \A n \in Nodes : proxy[n].in = TRUE /\ proxy[n].count = 0
  BY DEF Init
<1>3. log \in [Nodes -> Seq(1 .. MaxWrites)]
  <2>1. << >> \in Seq(1 .. MaxWrites)
    OBVIOUS
  <2> QED
    BY <2>1 DEF Init
<1>4. /\ monitor \in [failures : 0 .. FailureThreshold, promoted : BOOLEAN,
                      step : {"query", "promote", "verify", "sleep", "dead"}]
      /\ writes \in 0 .. MaxWrites /\ faults \in 0 .. MaxFaults
  BY <1>1 DEF Init
<1>5. up \subseteq Nodes /\ standby \subseteq {"replica"} /\ returned \in BOOLEAN
  BY DEF Init
<1>6. \A n \in Nodes : /\ proxy[n].in \in BOOLEAN
                       /\ proxy[n].count \in 0 .. (IF proxy[n].in THEN Fall ELSE Rise) - 1
  BY <1>1, <1>2
<1> QED
  BY <1>2, <1>3, <1>4, <1>5, <1>6 DEF TypeInv, TypeOK, ProxyOK

LEMMA StepTypes ==
    ASSUME TypeInv, [Next]_vars
    PROVE  TypeInv'
<1>1. CASE UNCHANGED vars
  BY <1>1 DEF vars, TypeInv, TypeOK, ProxyOK
<1>2. CASE Next
  BY <1>2, WriteTypes, ReplicateTypes, MonitorTypes, CheckTypes, NodeTypes DEF Next
<1> QED
  BY <1>1, <1>2

LEMMA TypeInvariance == Spec => []TypeInv
<1>1. TypeInv /\ [Next]_vars => TypeInv'
  BY StepTypes
<1> QED
  BY InitTypes, <1>1, PTL DEF Spec

\* HAProxy's counts stay below their limits, the monitor's below its threshold,
\* whatever fails and whether or not a primary returns.
THEOREM TypeCorrect == Spec => []TypeOK
<1>1. TypeInv => TypeOK
  BY DEF TypeInv
<1> QED
  BY TypeInvariance, <1>1, PTL

----------------------------------------------------------------------------
(* One history.                                                            *)

Inv == TypeInv /\ PromotionOK /\ PrimaryLeads

LEMMA EvidenceTypes ==
    ASSUME TypeInv
    PROVE  /\ ProxyEvidence \in Nat /\ MonitorEvidence \in Nat /\ faults \in Nat
           /\ monitor.failures \in 0 .. FailureThreshold
           /\ FailureThreshold \in Nat /\ Fall \in Nat
           /\ MonitorEvidence =< FailureThreshold
<1>1. /\ proxy["primary"].count \in Nat
      /\ monitor.failures \in 0 .. FailureThreshold
      /\ faults \in Nat /\ Fall \in Nat /\ FailureThreshold \in Nat
  BY BoundsAreNat, CountsArePositive DEF TypeInv, TypeOK, ProxyOK, Nodes
<1> QED
  BY <1>1 DEF ProxyEvidence, MonitorEvidence

LEMMA InitLeads == Init => Inv
<1> SUFFICES ASSUME Init PROVE Inv
  OBVIOUS
<1>1. /\ proxy["primary"].in /\ proxy["primary"].count = 0
      /\ log["replica"] = << >> /\ log["primary"] = << >>
      /\ monitor.failures = 0 /\ monitor.promoted = FALSE /\ monitor.step = "query"
      /\ standby = {"replica"} /\ faults = 0
  BY DEF Init, Nodes
<1>2. << >> \in Seq(1 .. MaxWrites) /\ Len(<< >>) = 0
  OBVIOUS
<1>3. IsPrefix(<< >>, << >>)
  BY <1>2 DEF IsPrefix
<1>4. ProxyEvidence = 0 /\ MonitorEvidence = 0
  BY <1>1 DEF ProxyEvidence, MonitorEvidence
<1> QED
  BY <1>1, <1>3, <1>4, InitTypes DEF Inv, PrimaryLeads, PromotionOK

\* The monitor adds to what it holds against a primary that is there only with
\* a fault.
LEMMA MonitorJudges ==
    ASSUME TypeInv, PromotionOK, MonitorStep \/ PromoteTimesOut
    PROVE  /\ PromotionOK'
           /\ "primary" \in up =>
                 \/ faults' = faults     /\ MonitorEvidence' =< MonitorEvidence
                 \/ faults' = faults + 1 /\ MonitorEvidence' =< MonitorEvidence + 1
<1>1. /\ monitor \in Monitor /\ standby \subseteq {"replica"}
      /\ FailureThreshold \in Nat /\ FailureThreshold > 0 /\ faults \in Nat
  BY BoundsAreNat, CountsArePositive DEF TypeInv, TypeOK, Monitor, Steps
<1>2. /\ monitor.failures \in Nat /\ monitor.failures =< FailureThreshold
      /\ FailureThreshold \in Nat /\ faults \in Nat
      /\ monitor.promoted \/ monitor.step = "verify" => standby = {}
  BY <1>1 DEF Monitor, PromotionOK
<1>3. CASE QueryAnswered
  <2>1. /\ monitor'.failures = 0 /\ monitor'.step = "sleep"
        /\ monitor'.promoted = monitor.promoted
        /\ UNCHANGED <<standby, faults>> /\ monitor.step = "query"
    BY <1>1, <1>3 DEF QueryAnswered, Monitor
  <2> QED
    BY <1>2, <2>1 DEF PromotionOK, MonitorEvidence
<1>4. CASE QueryFails
  <2> DEFINE failures == IF monitor.failures < FailureThreshold
                         THEN monitor.failures + 1 ELSE FailureThreshold
             step     == IF CountsUp(failures) THEN "sleep" ELSE "promote"
  <2>1. monitor' = [monitor EXCEPT !.failures = failures, !.step = step]
    BY <1>4 DEF QueryFails
  <2>2. /\ monitor'.failures = failures /\ monitor'.step = step
        /\ monitor'.promoted = monitor.promoted
    BY <1>1, <2>1 DEF Monitor
  <2>3. UNCHANGED standby /\ monitor.step = "query"
    BY <1>4 DEF QueryFails
  <2>4. /\ failures \in 0 .. FailureThreshold /\ failures =< monitor.failures + 1
        /\ step = "promote" => failures = FailureThreshold
        /\ step # "verify"
    BY <1>1, <1>2 DEF CountsUp
  <2>5. PromotionOK'
    BY <1>2, <2>2, <2>3, <2>4 DEF PromotionOK
  <2>6. faults' = faults \/ faults' = faults + 1
    BY <1>4 DEF QueryFails, Fault
  <2>7. CASE monitor.promoted \/ standby = {}
    BY <1>1, <1>2, <2>2, <2>3, <2>5, <2>6, <2>7 DEF MonitorEvidence
  <2>8. CASE ~monitor.promoted /\ standby # {}
    <3>1. "primary" \in up => faults' = faults + 1
      BY <1>1, <1>4, <2>8 DEF QueryFails, ActiveHost, Fault
    <3>2. MonitorEvidence = monitor.failures /\ MonitorEvidence' = failures
      BY <2>2, <2>3, <2>4, <2>8 DEF MonitorEvidence
    <3> QED
      BY <1>1, <1>2, <2>4, <2>5, <3>1, <3>2
  <2> QED
    BY <2>7, <2>8
<1>5. CASE Promote
  <2>1. /\ monitor.step = "promote" /\ UNCHANGED faults
        /\ monitor'.failures = monitor.failures
        /\ monitor'.promoted = monitor.promoted
        /\ \/ standby' = {}
           \/ UNCHANGED standby /\ monitor'.step = "sleep"
    BY <1>1, <1>5 DEF Promote, Monitor
  <2> QED
    BY <1>2, <2>1 DEF PromotionOK, MonitorEvidence
<1>6. CASE Verify
  <2>1. /\ monitor.step = "verify" /\ UNCHANGED <<standby, faults>> /\ standby = {}
    BY <1>2, <1>6 DEF Verify
  <2> QED
    BY <1>2, <2>1 DEF PromotionOK, MonitorEvidence
<1>7. CASE Sleep
  <2>1. /\ monitor.step = "sleep" /\ monitor'.step = "query"
        /\ monitor'.failures = monitor.failures
        /\ monitor'.promoted = monitor.promoted /\ UNCHANGED <<standby, faults>>
    BY <1>1, <1>7 DEF Sleep, Monitor
  <2> QED
    BY <1>2, <2>1 DEF PromotionOK, MonitorEvidence
<1>8. CASE PromoteTimesOut
  <2>1. /\ monitor.step = "promote" /\ faults' = faults + 1
        /\ monitor'.failures = monitor.failures /\ monitor'.step = "dead"
        /\ monitor'.promoted = monitor.promoted
        /\ standby' = standby \/ standby' = {}
    BY <1>1, <1>8 DEF PromoteTimesOut, Monitor, Fault
  <2> QED
    BY <1>2, <2>1 DEF PromotionOK, MonitorEvidence
<1> QED
  BY <1>3, <1>4, <1>5, <1>6, <1>7, <1>8 DEF MonitorStep

\* What one judge adds, its fault pays for.
LEMMA Sums ==
    \A p, q, f, p2, q2, f2 \in Nat :
        /\ p + q =< f
        /\ \/ f2 = f     /\ p2 =< p     /\ q2 = q
           \/ f2 = f     /\ p2 = p      /\ q2 =< q
           \/ f2 = f + 1 /\ p2 =< p + 1 /\ q2 = q
           \/ f2 = f + 1 /\ p2 = p      /\ q2 =< q + 1
        => p2 + q2 =< f2 /\ f2 >= f
OBVIOUS

\* Where both have decided, each spent its row of faults.
LEMMA BothWrong ==
    ASSUME TypeInv, PrimaryLeads, "primary" \in up, ~returned,
           ~proxy["primary"].in, standby = {}
    PROVE  faults >= FailureThreshold + Fall
BY EvidenceTypes DEF PrimaryLeads, ProxyEvidence, MonitorEvidence

LEMMA StepLeads ==
    ASSUME Inv, [Next]_vars
    PROVE  Inv'
<1>1. TypeInv /\ PromotionOK /\ PrimaryLeads /\ TypeInv'
  BY StepTypes DEF Inv
<1>2. PromotionOK'
  <2>1. CASE MonitorStep \/ PromoteTimesOut
    BY <1>1, <2>1, MonitorJudges
  <2>2. CASE UNCHANGED <<standby, monitor>>
    BY <1>1, <2>2 DEF PromotionOK
  <2>3. CASE \/ Write \/ Replicate \/ UNCHANGED vars
             \/ \E n \in Nodes : Check(n) \/ NodeFails(n) \/ NodeReturns(n)
    BY <2>2, <2>3 DEF Write, Replicate, vars, Check, NodeFails, NodeReturns
  <2> QED
    BY <2>1, <2>3 DEF Next
<1> SUFFICES ASSUME "primary" \in up', ~returned'
             PROVE  /\ ProxyEvidence' + MonitorEvidence' =< faults'
                    /\ faults' < FailureThreshold + Fall =>
                          IsPrefix(log'["replica"], log'["primary"])
  BY <1>1, <1>2 DEF Inv, PrimaryLeads
<1>3. "primary" \in up /\ ~returned
  <2>1. CASE MonitorStep \/ PromoteTimesOut
    BY <1>1, <2>1, MonitorTypes
  <2>2. CASE Write \/ Replicate \/ UNCHANGED vars \/ \E n \in Nodes : Check(n)
    <3>1. UNCHANGED <<up, returned>>
      BY <2>2 DEF Write, Replicate, vars, Check
    <3> QED
      BY <3>1
  <2>3. ASSUME NEW n \in Nodes, NodeFails(n) PROVE "primary" \in up /\ ~returned
    BY <2>3 DEF NodeFails
  <2>4. ASSUME NEW n \in Nodes, NodeReturns(n) PROVE "primary" \in up /\ ~returned
    <3>1. returned \in BOOLEAN
      BY <1>1 DEF TypeInv, TypeOK
    <3> QED
      BY <2>4, <3>1 DEF NodeReturns
  <2> QED
    BY <2>1, <2>2, <2>3, <2>4 DEF Next
<1>4. /\ ProxyEvidence + MonitorEvidence =< faults
      /\ faults < FailureThreshold + Fall => IsPrefix(log["replica"], log["primary"])
  BY <1>1, <1>3 DEF PrimaryLeads
<1>5. /\ log["primary"] \in Seq(1 .. MaxWrites)
      /\ log["replica"] \in Seq(1 .. MaxWrites)
      /\ "primary" \in Nodes /\ "replica" \in Nodes
      /\ DOMAIN log = Nodes
  BY <1>1, TypeParts DEF Nodes, TypeInv, TypeOK
<1>6. /\ ProxyEvidence \in Nat /\ MonitorEvidence \in Nat /\ faults \in Nat
      /\ ProxyEvidence' \in Nat /\ MonitorEvidence' \in Nat /\ faults' \in Nat
      /\ FailureThreshold \in Nat /\ Fall \in Nat
  <2>1. (ProxyEvidence \in Nat /\ MonitorEvidence \in Nat /\ faults \in Nat)'
    BY <1>1, EvidenceTypes, PTL
  <2> QED
    BY <1>1, <2>1, EvidenceTypes
<1>7. CASE Write
  <2>1. /\ log' = [log EXCEPT ![WriteServer] = Append(log[WriteServer], writes')]
        /\ writes' \in 1 .. MaxWrites
        /\ UNCHANGED <<standby, proxy, monitor, faults>>
        /\ Writable
    BY <1>1, <1>7, WriteTypes DEF Write
  <2>2. ProxyEvidence' = ProxyEvidence /\ MonitorEvidence' = MonitorEvidence
    BY <2>1 DEF ProxyEvidence, MonitorEvidence
  <2>3. CASE proxy["primary"].in
    <3>1. /\ log'["primary"] = Append(log["primary"], writes')
          /\ log'["replica"] = log["replica"]
      BY <1>5, <2>1, <2>3 DEF WriteServer
    <3> QED
      BY <1>4, <1>5, <2>1, <2>2, <3>1, PrefixOfAppended
  <2>4. CASE ~proxy["primary"].in
    <3>1. standby = {}
      BY <1>1, <2>1, <2>4 DEF Writable, WriteServer, TypeInv, TypeOK
    <3>2. faults >= FailureThreshold + Fall
      BY <1>1, <1>3, <2>4, <3>1, BothWrong
    <3> QED
      BY <1>4, <1>6, <2>1, <2>2, <3>2
  <2> QED
    BY <2>3, <2>4
<1>8. CASE Replicate
  <2>1. /\ Len(log["replica"]) < Len(log["primary"])
        /\ UNCHANGED <<standby, proxy, monitor, faults>>
        /\ log' = [log EXCEPT !["replica"] =
                         Append(log["replica"], log["primary"][Len(log["replica"]) + 1])]
    BY <1>8 DEF Replicate
  <2>2. /\ log'["primary"] = log["primary"]
        /\ log'["replica"] = Append(log["replica"], log["primary"][Len(log["replica"]) + 1])
    BY <1>5, <2>1
  <2>3. ProxyEvidence' = ProxyEvidence /\ MonitorEvidence' = MonitorEvidence
    BY <2>1 DEF ProxyEvidence, MonitorEvidence
  <2> QED
    BY <1>4, <1>5, <2>1, <2>2, <2>3, PrefixCopied
<1>9. ASSUME NEW n \in Nodes, Check(n)
      PROVE  /\ ProxyEvidence' + MonitorEvidence' =< faults'
             /\ log' = log /\ faults' >= faults
  <2>1. /\ UNCHANGED <<log, standby, monitor>>
        /\ \/ faults' = faults     /\ ProxyEvidence' =< ProxyEvidence
           \/ faults' = faults + 1 /\ ProxyEvidence' =< ProxyEvidence + 1
    BY <1>1, <1>3, <1>9, CheckTypes
  <2>2. MonitorEvidence' = MonitorEvidence
    BY <2>1 DEF MonitorEvidence
  <2> QED
    BY <1>4, <1>6, <2>1, <2>2, Sums
<1>10. ASSUME MonitorStep \/ PromoteTimesOut
       PROVE  /\ ProxyEvidence' + MonitorEvidence' =< faults'
              /\ log' = log /\ faults' >= faults
  <2>1. /\ UNCHANGED <<log, proxy>>
        /\ \/ faults' = faults     /\ MonitorEvidence' =< MonitorEvidence
           \/ faults' = faults + 1 /\ MonitorEvidence' =< MonitorEvidence + 1
    BY <1>1, <1>3, <1>10, MonitorTypes, MonitorJudges
  <2>2. ProxyEvidence' = ProxyEvidence
    BY <2>1 DEF ProxyEvidence
  <2> QED
    BY <1>4, <1>6, <2>1, <2>2, Sums
<1>11. ASSUME \/ UNCHANGED vars
              \/ \E n \in Nodes : NodeFails(n) \/ NodeReturns(n)
       PROVE  /\ ProxyEvidence' + MonitorEvidence' =< faults'
              /\ log' = log /\ faults' >= faults
  <2>1. /\ UNCHANGED <<log, proxy, standby, monitor>>
        /\ faults' = faults \/ faults' = faults + 1
    BY <1>11 DEF vars, NodeFails, NodeReturns, Fault
  <2>2. ProxyEvidence' = ProxyEvidence /\ MonitorEvidence' = MonitorEvidence
    BY <2>1 DEF ProxyEvidence, MonitorEvidence
  <2> QED
    BY <1>4, <1>6, <2>1, <2>2
<1>12. CASE /\ ProxyEvidence' + MonitorEvidence' =< faults'
            /\ log' = log /\ faults' >= faults
  <2>1. faults' < FailureThreshold + Fall => faults < FailureThreshold + Fall
    BY <1>6, <1>12
  <2> QED
    BY <1>4, <1>12, <2>1
<1> QED
  BY <1>7, <1>8, <1>9, <1>10, <1>11, <1>12 DEF Next

\* The step that OneHistory speaks of.
Extends ==
    \A n, m \in Nodes : n # m /\ Len(log'[n]) > Len(log[n]) =>
        \/ m \notin up
        \/ IsPrefix(log[m], log[n]) \/ IsPrefix(log'[n], log[m])
        \/ returned
        \/ faults >= FailureThreshold + Fall

LEMMA StepExtends ==
    ASSUME Inv, [Next]_vars
    PROVE  Extends
<1> SUFFICES ASSUME NEW n \in Nodes, NEW m \in Nodes, n # m, m \in up,
                    Len(log'[n]) > Len(log[n]),
                    ~returned, ~(faults >= FailureThreshold + Fall)
             PROVE  IsPrefix(log[m], log[n]) \/ IsPrefix(log'[n], log[m])
  BY DEF Extends
<1>1. /\ log[n] \in Seq(1 .. MaxWrites) /\ log[m] \in Seq(1 .. MaxWrites)
      /\ DOMAIN log = Nodes /\ TypeInv /\ PrimaryLeads
      /\ faults < FailureThreshold + Fall
  BY TypeParts, EvidenceTypes DEF Inv, TypeInv, TypeOK
<1>2. "primary" \in up => IsPrefix(log["replica"], log["primary"])
  BY <1>1 DEF PrimaryLeads
<1>3. Write \/ Replicate
  <2>1. log' # log
    BY <1>1
  <2> QED
    BY <1>1, <2>1, MonitorTypes, NodeTypes DEF Next, vars, Check
<1>4. CASE Write
  <2>1. n = WriteServer
    BY <1>1, <1>4 DEF Write
  <2>2. CASE n = "primary"
    BY <1>2, <1>4, <2>1, <2>2 DEF Write, Writable, Nodes
  <2>3. CASE n = "replica"
    <3>1. m = "primary" /\ ~proxy["primary"].in
      BY <2>1, <2>3 DEF WriteServer, Nodes
    <3>2. standby = {}
      BY <1>1, <1>4, <2>1, <2>3 DEF Write, Writable, TypeInv, TypeOK
    <3> QED
      BY <1>1, <3>1, <3>2, BothWrong
  <2> QED
    BY <2>2, <2>3 DEF Nodes
<1>5. CASE Replicate
  <2>1. n = "replica" /\ m = "primary" /\ IsPrefix(log[n], log[m])
    BY <1>1, <1>2, <1>5 DEF Replicate, Nodes
  <2>2. log'[n] = Append(log[n], log[m][Len(log[n]) + 1]) /\ Len(log[n]) < Len(log[m])
    BY <1>1, <1>5, <2>1 DEF Replicate
  <2> QED
    BY <1>1, <2>1, <2>2, PrefixCopied
<1> QED
  BY <1>3, <1>4, <1>5

\* No node commits a write while the other is there with commits of its own,
\* unless a primary that failed was started again, or HAProxy and the monitor
\* were both wrong about a live primary, each for its whole row of failures.
THEOREM HistoriesDoNotFork == Spec => OneHistory
<1>1. Init => Inv
  BY InitLeads
<1>2. Inv /\ [Next]_vars => Inv'
  BY StepLeads
<1>3. Inv /\ [Next]_vars => [Extends]_vars
  BY StepExtends
<1> QED
  BY <1>1, <1>2, <1>3, PTL DEF Spec, OneHistory, Extends
=============================================================================
