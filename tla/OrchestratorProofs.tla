------------------------- MODULE OrchestratorProofs -------------------------
(***************************************************************************)
(* Proofs about Orchestrator, for every set of lives and events, and every *)
(* bound.  The inductive invariant IInv says what _operation_lock buys: at *)
(* most one operation runs, the record it works on is the one in the       *)
(* store, and what it planned from the container list still covers every   *)
(* container that stands, however many calls and crashes later.            *)
(***************************************************************************)
EXTENDS Orchestrator, WellFoundedInduction, FiniteSetTheorems, TLAPS

\* _operation_lock: one operation at a time.
OneOperation == \A t, u \in Threads : op[t] # Idle /\ op[u] # Idle => t = u

\* A dead process runs nothing and holds no delivery; an operation of the
\* consumer is always about an unanswered delivery.
ProcessOK ==
    /\ ~up => delivery = NoDelivery /\ \A t \in Threads : op[t] = Idle
    /\ op["consumer"] # Idle => delivery # NoDelivery

\* The records an operation carries are still those of the store.
RecordsFresh(o) ==
    /\ records[o.record.live] = o.record
    /\ \A r \in o.todo : records[r.live] = r /\ r.live # o.record.live

\* What the operation spares, and what it removes, is all that stands.
Spared(o) == IF o.goal = "adopt" THEN {o.generation} ELSE {}
PlanCovers(o) == Standing(o.record.live) \subseteq o.doomed \cup Spared(o)

\* A planned start is wanted, under a generation nothing has had.
StartPlanOK(o) ==
    o.goal = "start" =>
       /\ o.record.desired = "running"
       /\ o.generation > o.record.generation
       /\ \A g \in Present(o.record.live) : g < o.generation

OpOK(o) == /\ RecordsFresh(o)
           /\ o.step = "act" => PlanCovers(o) /\ StartPlanOK(o)
OpsOK   == \A t \in Threads : op[t] # Idle => OpOK(op[t])

\* OneWorker, without counting.
OneStands == \A l \in Lives : \A g, h \in Standing(l) : g = h

IInv == /\ TypeOK
        /\ OneOperation
        /\ ProcessOK
        /\ OpsOK
        /\ OneStands

----------------------------------------------------------------------------
(* The operators the actions are built from.                               *)

LEMMA Least ==
    ASSUME NEW S, S \subseteq Nat, S # {}
    PROVE  \E m \in S : \A n \in S : m =< n
<1> DEFINE R == OpToRel(<, Nat)
<1>1. IsWellFoundedOn(R, Nat)
  BY NatLessThanWellFounded
<1>2. PICK m \in S : \A n \in S : <<n, m>> \notin R
  <2> HIDE DEF R
  <2> QED
    BY <1>1, WFMin
<1>3. \A n \in S : ~(n < m)
  BY <1>2 DEF OpToRel
<1> QED
  BY <1>3

LEMMA Greatest ==
    ASSUME NEW N \in Nat, NEW S, S \subseteq 0 .. N, S # {}
    PROVE  Max(S) \in S /\ \A n \in S : Max(S) >= n
<1> DEFINE T == {n \in Nat : \E k \in S : k = N - n}
<1>1. T \subseteq Nat /\ T # {}
  <2> PICK k \in S : TRUE
    OBVIOUS
  <2>1. N - k \in Nat /\ k = N - (N - k)
    OBVIOUS
  <2> QED
    BY <2>1
<1>2. PICK m \in T : \A n \in T : m =< n
  BY <1>1, Least
<1>3. PICK k \in S : k = N - m
  OBVIOUS
<1>4. \A n \in S : k >= n
  <2> TAKE n \in S
  <2>1. N - n \in Nat /\ n = N - (N - n)
    OBVIOUS
  <2>2. m =< N - n
    BY <1>2, <2>1
  <2> QED
    BY <1>3, <2>2
<1> QED
  BY <1>4 DEF Max

LEMMA FirstIsOne ==
    ASSUME NEW todo, todo \subseteq Record, todo # {}
    PROVE  First(todo) \in todo
<1> DEFINE S == {n \in Nat : \E r \in todo : r.live = n}
<1>1. \A r \in todo : r.live \in Nat
  BY LivesAreOrdered DEF Record
<1>2. S # {} /\ S \subseteq Nat
  BY <1>1
<1>3. PICK m \in S : \A n \in S : m =< n
  BY <1>2, Least
<1>4. PICK r \in todo : r.live = m
  OBVIOUS
<1>5. \A q \in todo : r.live =< q.live
  BY <1>1, <1>3, <1>4
<1> QED
  BY <1>5 DEF First

LEMMA RecordIsKnown == ASSUME NEW r \in Record PROVE r # NoRecord
  BY LivesAreOrdered DEF Record, NoRecord

LEMMA BeginFields ==
    ASSUME NEW r \in Record, NEW todo, todo \subseteq Record
    PROVE  /\ Begin(r, todo) \in Operation
           /\ Begin(r, todo) # Idle
           /\ Begin(r, todo).step = "list"
           /\ Begin(r, todo).record = r
           /\ Begin(r, todo).todo = todo
  BY BoundsAreNat DEF Begin, Operation, Idle, Generation

\* The next operation of a reconciliation works on records of the store.
LEMMA AdvanceOK ==
    ASSUME NEW todo, todo \subseteq Record
    PROVE  \/ Advance(todo) = Idle
           \/ \E r \in todo : Advance(todo) = Begin(r, todo \ {r})
  BY FirstIsOne DEF Advance

LEMMA OperationFields ==
    ASSUME TypeOK, NEW t \in Threads, op[t].step # "idle"
    PROVE  /\ op[t] # Idle
           /\ op[t] \in Operation
           /\ op[t].record \in Record
           /\ op[t].record.live \in Lives
           /\ op[t].todo \subseteq Record
           /\ op[t].doomed \subseteq 1 .. MaxGeneration
           /\ op[t].generation \in Generation
<1>1. op[t] \in Operation \cup {Idle}
  BY DEF TypeOK
<1>2. op[t] \in Operation /\ op[t] # Idle
  BY <1>1 DEF Idle
<1> QED
  BY <1>2 DEF Operation, Record

LEMMA ContainersSet ==
    ASSUME TypeOK, NEW l \in Lives, NEW g \in 1 .. MaxGeneration,
           NEW status \in ContainerStatus, SetContainer(l, g, status)
    PROVE  /\ containers' \in [Lives -> [1 .. MaxGeneration -> ContainerStatus]]
           /\ \A k \in Lives, h \in 1 .. MaxGeneration :
                 containers'[k][h] = IF k = l /\ h = g THEN status
                                     ELSE containers[k][h]
  BY DEF TypeOK, SetContainer

LEMMA ReturnTypes ==
    ASSUME TypeOK, delivery # NoDelivery, Return
    PROVE  /\ delivery' = NoDelivery
           /\ queue' \in Seq(Message)
           /\ dlq' \subseteq Events
<1> DEFINE m == [delivery EXCEPT !.deliveries = @ + 1]
<1>1. delivery \in Message
  BY DEF TypeOK
<1>2. m.event \in Events /\ (~TooOften(m) => m \in Message)
  BY <1>1, BoundsAreNat DEF Message, TooOften
<1>3. /\ delivery' = NoDelivery
      /\ \/ TooOften(m) /\ dlq' = dlq \cup {m.event} /\ UNCHANGED queue
         \/ ~TooOften(m) /\ queue' = <<m>> \o queue /\ UNCHANGED dlq
  BY DEF Return
<1> HIDE DEF m
<1>4. queue \in Seq(Message) /\ dlq \subseteq Events
  BY DEF TypeOK
<1>5. ASSUME m \in Message PROVE <<m>> \o queue \in Seq(Message)
  BY <1>4, <1>5
<1>6. CASE TooOften(m)
  <2>1. dlq' = dlq \cup {m.event} /\ queue' = queue
    BY <1>3, <1>6
  <2> QED
    BY <1>2, <1>3, <1>4, <2>1
<1>7. CASE ~TooOften(m)
  <2>1. queue' = <<m>> \o queue /\ dlq' = dlq
    BY <1>3, <1>7
  <2> QED
    BY <1>2, <1>3, <1>4, <1>5, <1>7, <2>1
<1> QED
  BY <1>6, <1>7

LEMMA FaultTypes == ASSUME TypeOK, Fault PROVE faults' \in 0 .. MaxFaults
  BY BoundsAreNat DEF TypeOK, Fault

LEMMA AckTypes ==
    ASSUME TypeOK, delivery # NoDelivery, Ack
    PROVE  /\ delivery' = NoDelivery
           /\ queue' \in Seq(Message)
           /\ dlq' \subseteq Events
           /\ faults' \in 0 .. MaxFaults
<1>1. CASE Return /\ Fault
  BY <1>1, ReturnTypes, FaultTypes
<1>2. CASE delivery' = NoDelivery /\ UNCHANGED <<queue, dlq, faults>>
  BY <1>2 DEF TypeOK
<1> QED
  BY <1>1, <1>2 DEF Ack

----------------------------------------------------------------------------
(* What keeps the invariant when memory, or Docker, is left alone.         *)

\* Only thread t has an operation after the step, if any has.
LEMMA OneThread ==
    ASSUME TypeOK, NEW t \in Threads, NEW o,
           \A u \in Threads : u # t => op[u] = Idle,
           op' = [op EXCEPT ![t] = o]
    PROVE  /\ OneOperation'
           /\ \A u \in Threads : op'[u] # Idle => u = t /\ op'[u] = o
  BY DEF TypeOK, OneOperation

\* Containers that only disappear spoil no plan.
LEMMA ContainersShrink ==
    ASSUME IInv, UNCHANGED <<records, op>>,
           \A l \in Lives : /\ Standing(l)' \subseteq Standing(l)
                            /\ Present(l)' \subseteq Present(l)
    PROVE  OpsOK' /\ OneStands'
<1>1. OneStands'
  BY DEF IInv, OneStands
<1>2. ASSUME NEW t \in Threads, op[t] # Idle
      PROVE  OpOK(op[t])'
  <2>1. OpOK(op[t]) /\ op[t].record.live \in Lives
    BY <1>2 DEF IInv, OpsOK, TypeOK, Operation, Record
  <2>2. RecordsFresh(op[t])'
    BY <2>1 DEF OpOK, RecordsFresh
  <2>3. ASSUME op[t].step = "act" PROVE PlanCovers(op[t])' /\ StartPlanOK(op[t])'
    BY <2>1, <2>3 DEF OpOK, PlanCovers, StartPlanOK, Spared
  <2> QED
    BY <2>2, <2>3 DEF OpOK
<1> QED
  BY <1>1, <1>2 DEF OpsOK

LEMMA MemoryKept ==
    ASSUME IInv, UNCHANGED <<records, op, containers>>
    PROVE  OneOperation' /\ OpsOK' /\ OneStands'
<1>1. \A l \in Lives : Standing(l)' = Standing(l) /\ Present(l)' = Present(l)
  BY DEF Standing, Present
<1> QED
  BY <1>1, ContainersShrink DEF IInv, OneOperation

\* With no operation left there is nothing to keep.
LEMMA NothingRuns ==
    ASSUME IInv, UNCHANGED containers, \A t \in Threads : op'[t] = Idle
    PROVE  OneOperation' /\ OpsOK' /\ OneStands'
  BY DEF IInv, OneOperation, OpsOK, OneStands, Standing

----------------------------------------------------------------------------
(* The store and the listing.                                              *)

LEMMA AppliedFields ==
    ASSUME TypeOK, NEW e \in Events, Readable(e)
    PROVE  /\ Applied(e) \in Record
           /\ Applied(e).live = e.live
           /\ Applied(e).version = e.version
           /\ Applied(e).desired = DesiredBy(e)
<1>1. /\ e.live \in Lives
      /\ e.version \in Nat
      /\ DesiredBy(e) \in {"running", "stopped"}
  BY EventsAreTyped DEF Readable, DesiredBy
<1>2. CASE records[e.live] = NoRecord
  <2>1. Applied(e) = NewRecord(e.live, DesiredBy(e), e.version, 0)
    BY <1>2 DEF Applied
  <2> QED
    BY <1>1, <2>1, BoundsAreNat DEF NewRecord, Record, Generation
<1>3. CASE records[e.live] # NoRecord
  <2>1. records[e.live] \in Record /\ records[e.live].live = e.live
    BY <1>1, <1>3 DEF TypeOK
  <2>2. Applied(e) = [records[e.live] EXCEPT !.desired = DesiredBy(e),
                                             !.version = e.version]
    BY <1>3 DEF Applied
  <2> QED
    BY <1>1, <2>1, <2>2 DEF Record
<1> QED
  BY <1>2, <1>3

\* The plan spares or removes all that stands; what it starts is new.
LEMMA PlanGood ==
    ASSUME TypeOK, NEW r \in Record, Plan(r).generation =< MaxGeneration
    PROVE  /\ Plan(r).goal \in {"stopped", "adopt", "start"}
           /\ Plan(r).generation \in Generation
           /\ Doomed(r, Plan(r)) \subseteq 1 .. MaxGeneration
           /\ Standing(r.live) \subseteq
                 Doomed(r, Plan(r)) \cup
                 (IF Plan(r).goal = "adopt" THEN {Plan(r).generation} ELSE {})
           /\ Plan(r).goal = "start" =>
                 /\ r.desired = "running"
                 /\ Plan(r).generation > r.generation
                 /\ \A g \in Present(r.live) : g < Plan(r).generation
<1> DEFINE P == Present(r.live) \cup {r.generation}
<1> USE BoundsAreNat
<1>1. /\ MaxGeneration \in Nat /\ Generation = 0 .. MaxGeneration
      /\ P \subseteq 0 .. MaxGeneration
      /\ Present(r.live) \subseteq 1 .. MaxGeneration
      /\ Adoptable(r) \subseteq 1 .. MaxGeneration
      /\ r.desired \in {"running", "stopped"}
  BY DEF Generation, Record, Present, Adoptable, Healthy
<1>2. Standing(r.live) \subseteq Present(r.live)
  BY DEF Standing, Present
<1>3. Doomed(r, Plan(r)) \subseteq 1 .. MaxGeneration
  BY <1>1 DEF Doomed
<1>4. Standing(r.live) \subseteq
         Doomed(r, Plan(r)) \cup
         (IF Plan(r).goal = "adopt" THEN {Plan(r).generation} ELSE {})
  BY <1>2 DEF Doomed
<1>5. CASE r.desired = "stopped"
  BY <1>1, <1>3, <1>4, <1>5 DEF Plan
<1>6. CASE r.desired # "stopped" /\ Adoptable(r) # {}
  <2>1. Plan(r) = [goal |-> "adopt", generation |-> Max(Adoptable(r))]
    BY <1>6 DEF Plan
  <2>2. Max(Adoptable(r)) \in Adoptable(r)
    BY <1>1, <1>6, Greatest
  <2> QED
    BY <1>1, <1>3, <1>4, <2>1, <2>2
<1>7. CASE r.desired # "stopped" /\ Adoptable(r) = {}
  <2>1. Max(P) \in P /\ \A n \in P : Max(P) >= n
    BY <1>1, Greatest
  <2> PICK m : m = Max(P)
    OBVIOUS
  <2>2. m \in 0 .. MaxGeneration /\ \A n \in P : m >= n
    BY <1>1, <2>1
  <2>3. Plan(r) = [goal |-> "start", generation |-> m + 1]
    BY <1>7 DEF Plan
  <2>4. Plan(r).goal = "start" /\ Plan(r).generation = m + 1
    BY <2>3
  <2>5. m >= r.generation /\ r.generation \in 0 .. MaxGeneration
    BY <1>1, <2>2
  <2>6. \A g \in Present(r.live) : g =< m /\ g \in 1 .. MaxGeneration
    BY <1>1, <2>2
  <2> HIDE DEF P
  <2>7. m + 1 > r.generation /\ m + 1 \in 0 .. MaxGeneration
    BY <1>1, <2>2, <2>4, <2>5
  <2>8. \A g \in Present(r.live) : g < m + 1
    BY <1>1, <2>2, <2>6
  <2> QED
    BY <1>1, <1>3, <1>4, <1>7, <2>4, <2>7, <2>8
<1> QED
  BY <1>5, <1>6, <1>7

----------------------------------------------------------------------------
(* One lemma per action.                                                   *)

LEMMA InitIInv == Init => IInv
<1> SUFFICES ASSUME Init PROVE IInv
  OBVIOUS
<1>1. TypeOK
  <2>1. /\ records \in [Lives -> Record \cup {NoRecord}]
        /\ \A l \in Lives : records[l] = NoRecord
    BY DEF Init
  <2>2. queue \in Seq(Message) /\ op \in [Threads -> Operation \cup {Idle}]
    BY DEF Init
  <2>3. containers \in [Lives -> [1 .. MaxGeneration -> ContainerStatus]]
    BY DEF Init, ContainerStatus
  <2>4. faults \in 0 .. MaxFaults /\ crashes \in 0 .. MaxCrashes
    BY BoundsAreNat DEF Init
  <2> QED
    BY <2>1, <2>2, <2>3, <2>4 DEF Init, TypeOK
<1>2. \A t \in Threads : op[t] = Idle
  BY DEF Init
<1>3. OneStands
  BY DEF Init, OneStands, Standing
<1>4. OneOperation /\ ProcessOK /\ OpsOK
  BY <1>2 DEF Init, OneOperation, ProcessOK, OpsOK, Threads
<1> QED
  BY <1>1, <1>3, <1>4 DEF IInv

LEMMA DeliverStep == ASSUME IInv, Deliver PROVE IInv'
<1>1. TypeOK /\ UNCHANGED <<up, records, op, processed, containers, dlq, faults, crashes>>
  BY DEF IInv, Deliver, memory
<1>2. /\ delivery' \in Message /\ queue' \in Seq(Message)
  BY <1>1 DEF TypeOK, Deliver
<1>3. TypeOK'
  BY <1>1, <1>2 DEF TypeOK
<1>4. delivery' # NoDelivery
  BY <1>2, BoundsAreNat DEF Message, NoDelivery
<1>5. ProcessOK'
  BY <1>1, <1>4 DEF IInv, ProcessOK, Deliver
<1> QED
  BY <1>1, <1>3, <1>5, MemoryKept DEF IInv

LEMMA PublishStep == ASSUME IInv, NEW e \in Events, Publish(e) PROVE IInv'
<1>1. /\ TypeOK
      /\ UNCHANGED <<up, records, op, processed, delivery, containers, dlq, faults, crashes>>
  BY DEF IInv, Publish, memory
<1>2. [event |-> e, deliveries |-> 0] \in Message
  BY BoundsAreNat DEF Message
<1>3. queue' \in Seq(Message)
  BY <1>1, <1>2 DEF TypeOK, Publish
<1>4. TypeOK'
  BY <1>1, <1>3 DEF TypeOK
<1>5. ProcessOK'
  BY <1>1 DEF IInv, ProcessOK
<1> QED
  BY <1>1, <1>4, <1>5, MemoryKept DEF IInv

\* An answer to the broker that starts no operation.
LEMMA AnsweredStep ==
    ASSUME IInv, up,
           UNCHANGED <<up, records, op, containers, crashes>>,
           \A t \in Threads : op[t] = Idle,
           processed' \subseteq Events,
           delivery' = NoDelivery,
           queue' \in Seq(Message),
           dlq' \subseteq Events,
           faults' \in 0 .. MaxFaults
    PROVE  IInv'
<1>1. TypeOK'
  BY DEF IInv, TypeOK
<1>2. ProcessOK'
  BY DEF ProcessOK, Threads
<1> QED
  BY <1>1, <1>2, MemoryKept DEF IInv

LEMMA HandleStep == ASSUME IInv, Handle PROVE IInv'
<1> PICK e : e = delivery.event
  OBVIOUS
<1>1. /\ TypeOK
      /\ delivery # NoDelivery
      /\ UNCHANGED <<up, containers, crashes>>
      /\ \A t \in Threads : op[t] = Idle
  BY DEF IInv, Handle, LockFree, Threads
<1>2. up
  BY <1>1 DEF IInv, ProcessOK
<1>3. e \in Events
  BY <1>1 DEF TypeOK, Message
<1>4. CASE Reject /\ UNCHANGED <<memory, faults>>
  <2>1. /\ UNCHANGED <<records, processed, op, faults, queue>>
        /\ delivery' = NoDelivery
        /\ dlq' = dlq \cup {e}
    BY <1>4 DEF Reject, memory
  <2>2. /\ processed' \subseteq Events /\ queue' \in Seq(Message)
        /\ dlq' \subseteq Events /\ faults' \in 0 .. MaxFaults
    BY <1>1, <1>3, <2>1 DEF TypeOK
  <2> QED
    BY <1>1, <1>2, <2>1, <2>2, AnsweredStep
<1>5. CASE Ack /\ UNCHANGED memory
  <2>1. UNCHANGED <<records, processed, op>> /\ processed' \subseteq Events
    BY <1>1, <1>5 DEF memory, TypeOK
  <2> QED
    BY <1>1, <1>2, <1>5, <2>1, AckTypes, AnsweredStep
<1>6. CASE processed' = processed \cup {e} /\ Ack /\ UNCHANGED <<records, op>>
  <2>1. processed' \subseteq Events
    BY <1>1, <1>3, <1>6 DEF TypeOK
  <2> QED
    BY <1>1, <1>2, <1>6, <2>1, AckTypes, AnsweredStep
<1>7. CASE Return /\ UNCHANGED <<memory, faults>>
  <2>1. /\ UNCHANGED <<records, processed, op>>
        /\ processed' \subseteq Events /\ faults' \in 0 .. MaxFaults
    BY <1>1, <1>7 DEF memory, TypeOK
  <2> QED
    BY <1>1, <1>2, <1>7, <2>1, ReturnTypes, AnsweredStep
<1>8. CASE /\ Readable(e)
           /\ records' = [records EXCEPT ![e.live] = Applied(e)]
           /\ op' = [op EXCEPT !["consumer"] = Begin(Applied(e), {})]
           /\ UNCHANGED <<processed, broker, faults>>
  <2> PICK r : r = Applied(e)
    OBVIOUS
  <2> PICK o : o = Begin(r, {})
    OBVIOUS
  <2>1. /\ records' = [records EXCEPT ![e.live] = r]
        /\ op' = [op EXCEPT !["consumer"] = o]
        /\ UNCHANGED <<processed, delivery, queue, dlq, faults>>
    BY <1>8 DEF broker
  <2>2. r \in Record /\ r.live = e.live /\ e.live \in Lives
    BY <1>1, <1>3, <1>8, AppliedFields, EventsAreTyped
  <2>3. /\ o \in Operation /\ o # Idle /\ o.step = "list"
        /\ o.record = r /\ o.todo = {}
    BY <2>2, BeginFields
  <2>4. TypeOK'
    BY <1>1, <2>1, <2>2, <2>3, RecordIsKnown DEF TypeOK
  <2>5. OneOperation' /\ \A u \in Threads : op'[u] # Idle => op'[u] = o
    BY <1>1, <2>1, OneThread DEF Threads
  <2>6. ProcessOK'
    BY <1>1, <1>2, <2>1 DEF ProcessOK
  <2>7. records'[r.live] = r
    BY <1>1, <2>1, <2>2 DEF TypeOK
  <2>8. OpOK(o)'
    BY <2>3, <2>7 DEF OpOK, RecordsFresh
  <2>9. OpsOK'
    BY <2>5, <2>8 DEF OpsOK
  <2>10. OneStands'
    BY <1>1 DEF IInv, OneStands, Standing
  <2> QED
    BY <2>4, <2>5, <2>6, <2>9, <2>10 DEF IInv
<1> QED
  BY <1>4, <1>5, <1>6, <1>7, <1>8 DEF Handle

LEMMA ReconcileStep == ASSUME IInv, Reconcile PROVE IInv'
<1> PICK all : all = {records[l] : l \in {m \in Lives : records[m] # NoRecord}}
  OBVIOUS
<1> PICK o : o = Advance(all)
  OBVIOUS
<1>1. /\ TypeOK /\ up
      /\ op' = [op EXCEPT !["reconciler"] = o]
      /\ UNCHANGED <<up, records, processed, delivery, queue, dlq,
                     containers, faults, crashes>>
      /\ \A t \in Threads : op[t] = Idle
  BY DEF IInv, Reconcile, LockFree, broker, Threads
<1>2. /\ all \subseteq Record
      /\ \A r \in all : records[r.live] = r
  BY <1>1 DEF TypeOK
<1>3. o = Idle \/ \E r \in all : o = Begin(r, all \ {r})
  BY <1>2, AdvanceOK
<1>4. o # Idle => o \in Operation /\ OpOK(o)'
  <2> SUFFICES ASSUME NEW r \in all, o = Begin(r, all \ {r})
               PROVE  o \in Operation /\ OpOK(o)'
    BY <1>3
  <2>1. /\ o \in Operation /\ o.step = "list"
        /\ o.record = r /\ o.todo = all \ {r}
    <3> PICK rest : rest = all \ {r}
      OBVIOUS
    <3>1. r \in Record /\ rest \subseteq Record /\ o = Begin(r, rest)
      BY <1>2
    <3>2. /\ o \in Operation /\ o.step = "list"
          /\ o.record = r /\ o.todo = rest
      BY ONLY <3>1, BeginFields
    <3> QED
      BY <3>2
  <2>2. \A q \in all \ {r} : q.live # r.live
    BY <1>2
  <2>3. RecordsFresh(o)'
    BY <1>1, <1>2, <2>1, <2>2 DEF RecordsFresh
  <2> QED
    BY <2>1, <2>3 DEF OpOK
<1>5. TypeOK'
  BY <1>1, <1>4 DEF TypeOK
<1>6. OneOperation' /\ \A u \in Threads : op'[u] # Idle => op'[u] = o
  BY <1>1, OneThread DEF Threads
<1>7. OpsOK'
  BY <1>4, <1>6 DEF OpsOK
<1>8. OneStands'
  BY <1>1 DEF IInv, OneStands, Standing
<1>9. ProcessOK'
  BY <1>1 DEF ProcessOK, Threads, TypeOK
<1> QED
  BY <1>5, <1>6, <1>7, <1>8, <1>9 DEF IInv

\* A thread in the middle of an operation.
LEMMA BusyThread ==
    ASSUME IInv, NEW t \in Threads, op[t].step # "idle"
    PROVE  /\ TypeOK
           /\ up
           /\ op[t] # Idle /\ OpOK(op[t])
           /\ \A u \in Threads : u # t => op[u] = Idle
           /\ t = "consumer" => delivery # NoDelivery
<1>1. op[t] # Idle
  BY DEF Idle
<1> QED
  BY <1>1 DEF IInv, ProcessOK, OneOperation, OpsOK

LEMMA ListStep == ASSUME IInv, NEW t \in Threads, List(t) PROVE IInv'
<1> PICK r, p : r = op[t].record /\ p = Plan(r)
  OBVIOUS
<1> PICK d : d = Doomed(r, p)
  OBVIOUS
<1> PICK o : o = [op[t] EXCEPT !.step = "act", !.doomed = d,
                               !.goal = p.goal, !.generation = p.generation]
  OBVIOUS
<1>1. /\ op[t].step = "list"
      /\ p.generation =< MaxGeneration
      /\ UNCHANGED <<up, records, processed, delivery, queue, dlq,
                     containers, faults, crashes>>
  BY DEF List, broker
<1>2. op' = [op EXCEPT ![t] = o]
  BY <1>1 DEF List, IInv, TypeOK
<1>3. /\ TypeOK /\ up /\ op[t] # Idle /\ OpOK(op[t])
      /\ \A u \in Threads : u # t => op[u] = Idle
      /\ t = "consumer" => delivery # NoDelivery
  BY <1>1, BusyThread
<1>4. op[t] \in Operation /\ r \in Record /\ r.live \in Lives
  BY <1>1, <1>3, OperationFields
<1>5. /\ p.goal \in {"stopped", "adopt", "start"}
      /\ p.generation \in Generation
      /\ d \subseteq 1 .. MaxGeneration
      /\ Standing(r.live) \subseteq
            d \cup (IF p.goal = "adopt" THEN {p.generation} ELSE {})
      /\ p.goal = "start" =>
            /\ r.desired = "running"
            /\ p.generation > r.generation
            /\ \A g \in Present(r.live) : g < p.generation
  BY <1>1, <1>3, <1>4, PlanGood
<1>6. /\ o \in Operation
      /\ o.step = "act" /\ o.record = r /\ o.todo = op[t].todo
      /\ o.doomed = d /\ o.goal = p.goal /\ o.generation = p.generation
  BY <1>4, <1>5 DEF Operation
<1>7. TypeOK'
  BY <1>1, <1>2, <1>3, <1>6 DEF TypeOK
<1>8. OneOperation' /\ \A u \in Threads : op'[u] # Idle => u = t /\ op'[u] = o
  <2>1. TypeOK /\ \A u \in Threads : u # t => op[u] = Idle
    BY <1>3
  <2> QED
    BY ONLY <1>2, <2>1, OneThread
<1>9. OpOK(o)'
  <2>1. RecordsFresh(o)'
    BY <1>1, <1>3, <1>6 DEF OpOK, RecordsFresh
  <2>2. Standing(r.live)' = Standing(r.live) /\ Present(r.live)' = Present(r.live)
    BY <1>1 DEF Standing, Present
  <2>3. PlanCovers(o)' /\ StartPlanOK(o)'
    BY <1>5, <1>6, <2>2 DEF PlanCovers, StartPlanOK, Spared
  <2> QED
    BY <2>1, <2>3 DEF OpOK
<1>10. OpsOK'
  BY <1>8, <1>9 DEF OpsOK
<1>11. ProcessOK'
  BY <1>1, <1>3, <1>8 DEF ProcessOK, Threads
<1>12. OneStands'
  BY <1>1 DEF IInv, OneStands, Standing
<1> QED
  BY <1>7, <1>8, <1>10, <1>11, <1>12 DEF IInv

\* An operation given up: no thread has one any more, and the records stay.
LEMMA RaisedStep ==
    ASSUME IInv, NEW t \in Threads, op[t].step # "idle",
           Raise(t), Fault,
           UNCHANGED <<up, records, crashes>>,
           containers' \in [Lives -> [1 .. MaxGeneration -> ContainerStatus]],
           OneStands'
    PROVE  IInv'
<1>1. /\ TypeOK /\ up
      /\ \A u \in Threads : u # t => op[u] = Idle
      /\ t = "consumer" => delivery # NoDelivery
  BY BusyThread
<1>2. /\ op' = [op EXCEPT ![t] = Idle] /\ processed' = processed
      /\ IF t = "consumer" THEN Return ELSE UNCHANGED broker
  BY DEF Raise
<1>3. \A u \in Threads : op'[u] = Idle
  BY <1>1, <1>2 DEF TypeOK
<1>4. /\ delivery' \in Message \cup {NoDelivery}
      /\ queue' \in Seq(Message) /\ dlq' \subseteq Events
  <2>1. CASE t = "consumer"
    BY <1>1, <1>2, <2>1, ReturnTypes
  <2>2. CASE t # "consumer"
    BY <1>1, <1>2, <2>2 DEF broker, TypeOK
  <2> QED
    BY <2>1, <2>2
<1>5. faults' \in 0 .. MaxFaults
  BY <1>1, FaultTypes
<1>6. op' \in [Threads -> Operation \cup {Idle}]
  BY <1>1, <1>2 DEF TypeOK
<1>7. TypeOK'
  BY <1>1, <1>2, <1>4, <1>5, <1>6 DEF TypeOK
<1>8. OneOperation' /\ ProcessOK' /\ OpsOK'
  BY <1>1, <1>3 DEF OneOperation, ProcessOK, OpsOK, Threads
<1> QED
  BY <1>7, <1>8 DEF IInv

LEMMA ListFailsStep == ASSUME IInv, NEW t \in Threads, ListFails(t) PROVE IInv'
<1>1. /\ op[t].step # "idle" /\ Raise(t) /\ Fault
      /\ UNCHANGED <<up, records, containers, crashes>>
  BY DEF ListFails
<1>2. /\ containers' \in [Lives -> [1 .. MaxGeneration -> ContainerStatus]]
      /\ OneStands'
  BY <1>1 DEF IInv, TypeOK, OneStands, Standing
<1> QED
  BY <1>1, <1>2, RaisedStep

\* A container that is set to a state in which it does not stand.
LEMMA ContainerFalls ==
    ASSUME TypeOK, NEW l \in Lives, NEW g \in 1 .. MaxGeneration,
           NEW status \in ContainerStatus, SetContainer(l, g, status),
           containers[l][g] # "none",
           status \in {"healthy", "unhealthy"} =>
              containers[l][g] \in {"healthy", "unhealthy"}
    PROVE  /\ containers' \in [Lives -> [1 .. MaxGeneration -> ContainerStatus]]
           /\ \A k \in Lives : /\ Standing(k)' \subseteq Standing(k)
                               /\ Present(k)' \subseteq Present(k)
           /\ status \notin {"healthy", "unhealthy"} => g \notin Standing(l)'
  BY ContainersSet DEF Standing, Present

\* Of the doomed containers only those still there can fail to go.
LEMMA StopWorkerFailsStep ==
    ASSUME IInv, NEW t \in Threads, StopWorkerFails(t) PROVE IInv'
<1>1. /\ op[t].step # "idle" /\ Raise(t) /\ Fault
      /\ UNCHANGED <<up, records, crashes>>
  BY DEF StopWorkerFails
<1>2. TypeOK /\ op[t].record.live \in Lives /\ op[t].doomed \subseteq 1 .. MaxGeneration
  BY <1>1, OperationFields DEF IInv
<1> PICK l \in Lives : l = op[t].record.live
  BY <1>2
<1>3. PICK g \in op[t].doomed :
         /\ containers[l][g] \notin {"none", "removing"}
         /\ \/ UNCHANGED containers
            \/ SetContainer(l, g, "removing")
  BY DEF StopWorkerFails
<1>4. /\ containers' \in [Lives -> [1 .. MaxGeneration -> ContainerStatus]]
      /\ OneStands'
  <2>1. CASE UNCHANGED containers
    BY <2>1, <1>2 DEF IInv, TypeOK, OneStands, Standing
  <2>2. CASE SetContainer(l, g, "removing")
    <3>1. g \in 1 .. MaxGeneration /\ "removing" \in ContainerStatus
      BY <1>2 DEF ContainerStatus
    <3>2. /\ containers' \in [Lives -> [1 .. MaxGeneration -> ContainerStatus]]
          /\ \A k \in Lives : Standing(k)' \subseteq Standing(k)
      BY <1>2, <1>3, <2>2, <3>1, ContainerFalls
    <3> QED
      BY <3>2 DEF IInv, OneStands
  <2> QED
    BY <1>3, <2>1, <2>2
<1> QED
  BY <1>1, <1>4, RaisedStep

LEMMA StopWorkerStep == ASSUME IInv, NEW t \in Threads, StopWorker(t) PROVE IInv'
<1>1. /\ op[t].step = "act"
      /\ UNCHANGED <<up, records, processed, delivery, queue, dlq, faults, crashes>>
  BY DEF StopWorker, broker
<1>2. /\ TypeOK /\ up /\ op[t] # Idle /\ OpOK(op[t])
      /\ \A u \in Threads : u # t => op[u] = Idle
      /\ t = "consumer" => delivery # NoDelivery
  BY <1>1, BusyThread
<1>3. /\ op[t] \in Operation /\ op[t].record.live \in Lives
      /\ op[t].doomed \subseteq 1 .. MaxGeneration
  BY <1>1, <1>2, OperationFields
<1> PICK l \in Lives : l = op[t].record.live
  BY <1>3
<1>4. PICK g \in op[t].doomed :
         /\ op' = [op EXCEPT ![t].doomed = @ \ {g}]
         /\ IF containers[l][g] = "removing" THEN UNCHANGED containers
            ELSE SetContainer(l, g, "none")
  BY DEF StopWorker
<1> PICK o : o = [op[t] EXCEPT !.doomed = @ \ {g}]
  OBVIOUS
<1>5. /\ o \in Operation /\ o.step = "act" /\ o.record = op[t].record
      /\ o.todo = op[t].todo /\ o.doomed = op[t].doomed \ {g}
      /\ o.goal = op[t].goal /\ o.generation = op[t].generation
  BY <1>1, <1>3 DEF Operation
<1>6. op' = [op EXCEPT ![t] = o]
  BY <1>2, <1>4 DEF TypeOK
<1>7. /\ containers' \in [Lives -> [1 .. MaxGeneration -> ContainerStatus]]
      /\ \A k \in Lives : /\ Standing(k)' \subseteq Standing(k)
                          /\ Present(k)' \subseteq Present(k)
      /\ g \notin Standing(l)'
  <2>1. CASE containers[l][g] = "removing"
    BY <1>2, <1>4, <2>1 DEF TypeOK, Standing, Present
  <2>2. CASE containers[l][g] # "removing"
    <3>1. /\ SetContainer(l, g, "none") /\ "none" \in ContainerStatus
          /\ g \in 1 .. MaxGeneration
      BY <1>3, <1>4, <2>2 DEF ContainerStatus
    <3> QED
      BY <1>2, <3>1, ContainersSet DEF Standing, Present
  <2> QED
    BY <2>1, <2>2
<1>8. TypeOK'
  BY <1>1, <1>2, <1>5, <1>6, <1>7 DEF TypeOK
<1>9. OneOperation' /\ \A u \in Threads : op'[u] # Idle => u = t /\ op'[u] = o
  <2>1. TypeOK /\ \A u \in Threads : u # t => op[u] = Idle
    BY <1>2
  <2> QED
    BY ONLY <1>6, <2>1, OneThread
<1>10. OpOK(o)'
  <2>1. RecordsFresh(o)'
    BY <1>1, <1>2, <1>5 DEF OpOK, RecordsFresh
  <2>2. PlanCovers(o)'
    BY <1>1, <1>2, <1>5, <1>7 DEF OpOK, PlanCovers, Spared
  <2>3. StartPlanOK(o)'
    BY <1>1, <1>2, <1>5, <1>7 DEF OpOK, StartPlanOK
  <2> QED
    BY <2>1, <2>2, <2>3 DEF OpOK
<1>11. OpsOK'
  BY <1>9, <1>10 DEF OpsOK
<1>12. ProcessOK'
  BY <1>1, <1>2, <1>9 DEF ProcessOK, Threads
<1>13. OneStands'
  BY <1>7 DEF IInv, OneStands
<1> QED
  BY <1>8, <1>9, <1>11, <1>12, <1>13 DEF IInv

\* The end of an operation that stored record r for its live.
LEMMA DoneStep ==
    ASSUME IInv, NEW t \in Threads, op[t].step # "idle", Done(t),
           NEW r \in Record, r.live = op[t].record.live,
           records' = [records EXCEPT ![op[t].record.live] = r],
           UNCHANGED <<up, crashes>>,
           containers' \in [Lives -> [1 .. MaxGeneration -> ContainerStatus]],
           OneStands'
    PROVE  IInv'
<1>1. /\ TypeOK /\ up /\ op[t] # Idle /\ OpOK(op[t])
      /\ \A u \in Threads : u # t => op[u] = Idle
      /\ t = "consumer" => delivery # NoDelivery
  BY BusyThread
<1>2. op[t].record.live \in Lives /\ op[t].todo \subseteq Record
  BY <1>1, OperationFields
<1> PICK l \in Lives : l = op[t].record.live
  BY <1>2
<1> PICK todo : todo = op[t].todo
  OBVIOUS
<1> PICK o : o = IF t = "consumer" THEN Idle ELSE Advance(todo)
  OBVIOUS
<1>3. op' = [op EXCEPT ![t] = o]
  BY DEF Done
<1>4. /\ processed' \subseteq Events /\ faults' \in 0 .. MaxFaults
      /\ delivery' \in Message \cup {NoDelivery}
      /\ queue' \in Seq(Message) /\ dlq' \subseteq Events
      /\ t # "consumer" => delivery' = delivery
  <2>1. CASE t = "consumer"
    <3>1. processed' = processed \cup {delivery.event} /\ Ack
      BY <2>1 DEF Done
    <3>2. delivery.event \in Events /\ processed \subseteq Events
      BY <1>1, <2>1 DEF TypeOK, Message
    <3> QED
      BY <1>1, <2>1, <3>1, <3>2, AckTypes
  <2>2. CASE t # "consumer"
    BY <1>1, <2>2 DEF Done, broker, TypeOK
  <2> QED
    BY <2>1, <2>2
<1>5. /\ records' \in [Lives -> Record \cup {NoRecord}]
      /\ \A k \in Lives : records'[k] = IF k = l THEN r ELSE records[k]
      /\ \A k \in Lives : records'[k] # NoRecord => records'[k].live = k
  BY <1>1, <1>2 DEF TypeOK
<1>6. \A q \in todo : records'[q.live] = q /\ q \in Record
  <2>1. \A q \in todo : /\ q \in Record /\ q.live \in Lives
                        /\ records[q.live] = q /\ q.live # l
    BY <1>1, <1>2 DEF OpOK, RecordsFresh, Record
  <2> QED
    BY <1>5, <2>1
<1>7. o # Idle => o \in Operation /\ OpOK(o)'
  <2> SUFFICES ASSUME NEW q \in todo, o = Begin(q, todo \ {q})
               PROVE  o \in Operation /\ OpOK(o)'
    BY <1>2, AdvanceOK
  <2> PICK rest : rest = todo \ {q}
    OBVIOUS
  <2>1. q \in Record /\ rest \subseteq Record /\ o = Begin(q, rest)
    BY <1>6
  <2>2. /\ o \in Operation /\ o.step = "list"
        /\ o.record = q /\ o.todo = rest
    BY ONLY <2>1, BeginFields
  <2>3. \A u \in rest : u.live # q.live
    BY <1>6
  <2>4. RecordsFresh(o)'
    BY <1>6, <2>2, <2>3 DEF RecordsFresh
  <2> QED
    BY <2>2, <2>4 DEF OpOK
<1>8. TypeOK'
  <2>1. op' \in [Threads -> Operation \cup {Idle}]
    BY <1>1, <1>3, <1>7 DEF TypeOK
  <2> QED
    BY <1>1, <1>4, <1>5, <2>1 DEF TypeOK
<1>9. OneOperation' /\ \A u \in Threads : op'[u] # Idle => u = t /\ op'[u] = o
  <2>1. TypeOK /\ \A u \in Threads : u # t => op[u] = Idle
    BY <1>1
  <2> QED
    BY ONLY <1>3, <2>1, OneThread
<1>10. OpsOK'
  BY <1>7, <1>9 DEF OpsOK
<1>11. ProcessOK'
  BY <1>1, <1>9 DEF ProcessOK, Threads
<1> QED
  BY <1>8, <1>9, <1>10, <1>11 DEF IInv

\* mark_worker and mark_stopped store a record of the same live.
LEMMA MarkedRecord ==
    ASSUME TypeOK, NEW r \in Record, NEW g \in Generation,
           r.live \in Lives, records[r.live] = r
    PROVE  /\ MarkWorker(r.live, g) =>
                \E new \in Record : /\ new.live = r.live
                                    /\ new.version = r.version
                                    /\ new.desired = r.desired
                                    /\ records' = [records EXCEPT ![r.live] = new]
           /\ MarkStopped(r.live) =>
                \E new \in Record : /\ new.live = r.live
                                    /\ new.version = r.version
                                    /\ new.desired = r.desired
                                    /\ records' = [records EXCEPT ![r.live] = new]
<1> DEFINE worked  == [r EXCEPT !.generation = g, !.worker = g]
           stopped == [r EXCEPT !.worker = 0]
<1>1. /\ worked \in Record /\ worked.live = r.live
      /\ worked.version = r.version /\ worked.desired = r.desired
  BY DEF Record
<1>2. /\ stopped \in Record /\ stopped.live = r.live
      /\ stopped.version = r.version /\ stopped.desired = r.desired
  BY BoundsAreNat DEF Record, Generation
<1>3. ASSUME MarkWorker(r.live, g)
      PROVE  records' = [records EXCEPT ![r.live] = worked]
  BY <1>3 DEF MarkWorker, TypeOK
<1>4. ASSUME MarkStopped(r.live)
      PROVE  records' = [records EXCEPT ![r.live] = stopped]
  BY <1>4 DEF MarkStopped, TypeOK
<1> HIDE DEF worked, stopped
<1> QED
  BY <1>1, <1>2, <1>3, <1>4

LEMMA FinishStep == ASSUME IInv, NEW t \in Threads, Finish(t) PROVE IInv'
<1>1. /\ op[t].step # "idle" /\ Done(t)
      /\ UNCHANGED <<up, containers, crashes>>
  BY DEF Finish, AllStopped
<1>2. TypeOK /\ op[t] # Idle /\ OpOK(op[t])
  BY <1>1, BusyThread
<1>3. /\ op[t].record \in Record /\ op[t].record.live \in Lives
      /\ op[t].generation \in Generation
  BY <1>1, <1>2, OperationFields
<1> PICK r \in Record, g \in Generation : r = op[t].record /\ g = op[t].generation
  BY <1>3
<1>4. MarkStopped(r.live) \/ MarkWorker(r.live, g)
  BY DEF Finish
<1>5. records[r.live] = r
  BY <1>2 DEF OpOK, RecordsFresh
<1>6. PICK new \in Record : /\ new.live = r.live
                            /\ records' = [records EXCEPT ![r.live] = new]
  BY <1>2, <1>3, <1>4, <1>5, MarkedRecord
<1>7. /\ containers' \in [Lives -> [1 .. MaxGeneration -> ContainerStatus]]
      /\ OneStands'
  BY <1>1 DEF IInv, TypeOK, OneStands, Standing
<1> QED
  BY <1>1, <1>6, <1>7, DoneStep

\* A start finds no container standing, and a generation in range.
LEMMA StartFindsNone ==
    ASSUME IInv, NEW t \in Threads, AllStopped(t), op[t].goal = "start"
    PROVE  /\ op[t].step # "idle"
           /\ op[t].record.live \in Lives
           /\ op[t].generation \in 1 .. MaxGeneration
           /\ Standing(op[t].record.live) = {}
           /\ records[op[t].record.live] = op[t].record
           /\ op[t].record \in Record
           /\ op[t].record.desired = "running"
           /\ op[t].generation > op[t].record.generation
           /\ \A g \in Present(op[t].record.live) : g < op[t].generation
<1>1. op[t].step = "act" /\ op[t].doomed = {}
  BY DEF AllStopped
<1>2. TypeOK /\ OpOK(op[t])
  BY <1>1, BusyThread
<1>3. /\ op[t].record \in Record /\ op[t].record.live \in Lives
      /\ op[t].generation \in Generation
  BY <1>1, <1>2, OperationFields
<1>4. /\ records[op[t].record.live] = op[t].record
      /\ op[t].record.desired = "running"
      /\ op[t].generation > op[t].record.generation
      /\ \A g \in Present(op[t].record.live) : g < op[t].generation
      /\ Standing(op[t].record.live) = {}
  BY <1>1, <1>2 DEF OpOK, RecordsFresh, PlanCovers, StartPlanOK, Spared
<1>5. op[t].generation \in 1 .. MaxGeneration
  BY <1>3, <1>4, BoundsAreNat DEF Record, Generation
<1> QED
  BY <1>1, <1>3, <1>4, <1>5

LEMMA FirstStands ==
    ASSUME IInv, NEW l \in Lives, NEW g \in 1 .. MaxGeneration,
           NEW status \in ContainerStatus, SetContainer(l, g, status),
           Standing(l) = {}
    PROVE  /\ containers' \in [Lives -> [1 .. MaxGeneration -> ContainerStatus]]
           /\ OneStands'
<1>1. /\ containers' \in [Lives -> [1 .. MaxGeneration -> ContainerStatus]]
      /\ \A k \in Lives, h \in 1 .. MaxGeneration :
            containers'[k][h] = IF k = l /\ h = g THEN status
                                ELSE containers[k][h]
  BY ContainersSet DEF IInv
<1>2. \A k \in Lives : IF k = l THEN Standing(k)' \subseteq {g}
                       ELSE Standing(k)' = Standing(k)
  BY <1>1 DEF Standing
<1> QED
  BY <1>1, <1>2 DEF IInv, OneStands

LEMMA StartWorkerStep == ASSUME IInv, NEW t \in Threads, StartWorker(t) PROVE IInv'
<1>1. /\ AllStopped(t) /\ op[t].goal = "start"
      /\ SetContainer(op[t].record.live, op[t].generation, "healthy")
      /\ MarkWorker(op[t].record.live, op[t].generation)
      /\ Done(t)
      /\ UNCHANGED <<up, crashes>>
  BY DEF StartWorker
<1>2. /\ op[t].step # "idle"
      /\ op[t].record \in Record /\ op[t].record.live \in Lives
      /\ op[t].generation \in 1 .. MaxGeneration
      /\ Standing(op[t].record.live) = {}
      /\ records[op[t].record.live] = op[t].record
  BY <1>1, StartFindsNone
<1> PICK r \in Record, g \in 1 .. MaxGeneration :
            r = op[t].record /\ g = op[t].generation
  BY <1>2
<1>3. g \in Generation /\ "healthy" \in ContainerStatus /\ TypeOK
  BY BoundsAreNat DEF Generation, ContainerStatus, IInv
<1>4. PICK new \in Record : /\ new.live = r.live
                            /\ records' = [records EXCEPT ![r.live] = new]
  BY <1>1, <1>2, <1>3, MarkedRecord
<1>5. /\ containers' \in [Lives -> [1 .. MaxGeneration -> ContainerStatus]]
      /\ OneStands'
  BY <1>1, <1>2, <1>3, FirstStands
<1> QED
  BY <1>1, <1>2, <1>4, <1>5, DoneStep

LEMMA StartWorkerFailsStep ==
    ASSUME IInv, NEW t \in Threads, StartWorkerFails(t) PROVE IInv'
<1>1. /\ AllStopped(t) /\ op[t].goal = "start"
      /\ Fault /\ Raise(t)
      /\ UNCHANGED <<up, records, crashes>>
  BY DEF StartWorkerFails
<1>2. PICK status \in {"none", "healthy", "unhealthy"} :
         SetContainer(op[t].record.live, op[t].generation, status)
  BY DEF StartWorkerFails
<1>3. status \in ContainerStatus
  BY DEF ContainerStatus
<1>4. /\ op[t].step # "idle" /\ op[t].record.live \in Lives
      /\ op[t].generation \in 1 .. MaxGeneration
      /\ Standing(op[t].record.live) = {}
  BY <1>1, StartFindsNone
<1>5. /\ containers' \in [Lives -> [1 .. MaxGeneration -> ContainerStatus]]
      /\ OneStands'
  BY <1>2, <1>3, <1>4, FirstStands
<1> QED
  BY <1>1, <1>4, <1>5, RaisedStep

LEMMA BootStep == ASSUME IInv, NEW loaded \in Loads, Boot(loaded) PROVE IInv'
<1>1. /\ TypeOK /\ ~up /\ up' = TRUE
      /\ UNCHANGED <<processed, op, delivery, queue, dlq, containers, faults, crashes>>
      /\ \A t \in Threads : op[t] = Idle
  BY DEF IInv, ProcessOK, Boot, broker
<1>2. loaded \subseteq Record
  BY LoadsAreRecords
<1>3. ASSUME NEW l \in Lives
      PROVE  /\ records'[l] \in Record \cup {NoRecord}
             /\ records'[l] # NoRecord => records'[l].live = l
  <2>1. records'[l] = IF \E r \in loaded : r.live = l
                      THEN CHOOSE r \in loaded : r.live = l ELSE NoRecord
    BY DEF Boot
  <2> QED
    BY <1>2, <2>1
<1>4. records' \in [Lives -> Record \cup {NoRecord}]
  <2>1. records' = [l \in Lives |-> records'[l]]
    BY DEF Boot
  <2> QED
    BY <1>3, <2>1
<1>5. TypeOK'
  BY <1>1, <1>3, <1>4 DEF TypeOK
<1>6. ProcessOK'
  BY <1>1 DEF ProcessOK, Threads
<1> QED
  BY <1>1, <1>5, <1>6, NothingRuns DEF IInv

LEMMA CrashStep == ASSUME IInv, Crash PROVE IInv'
<1>1. /\ TypeOK /\ up' = FALSE
      /\ records' = [l \in Lives |-> NoRecord]
      /\ processed' = {}
      /\ op' = [t \in Threads |-> Idle]
      /\ crashes < MaxCrashes /\ crashes' = crashes + 1
      /\ UNCHANGED <<containers, faults>>
      /\ IF delivery = NoDelivery THEN UNCHANGED broker ELSE Return
  BY DEF IInv, Crash
<1>2. /\ delivery' = NoDelivery
      /\ queue' \in Seq(Message) /\ dlq' \subseteq Events
  <2>1. CASE delivery = NoDelivery
    BY <1>1, <2>1 DEF broker, TypeOK
  <2>2. CASE delivery # NoDelivery
    BY <1>1, <2>2, ReturnTypes
  <2> QED
    BY <2>1, <2>2
<1>3. crashes' \in 0 .. MaxCrashes
  BY <1>1, BoundsAreNat DEF TypeOK
<1>4. TypeOK'
  BY <1>1, <1>2, <1>3 DEF TypeOK
<1>5. \A t \in Threads : op'[t] = Idle
  BY <1>1
<1>6. ProcessOK'
  BY <1>1, <1>2, <1>5 DEF ProcessOK, Threads
<1> QED
  BY <1>1, <1>4, <1>5, <1>6, NothingRuns DEF IInv

LEMMA ContainerStepStep == ASSUME IInv, ContainerStep PROVE IInv'
<1>1. PICK l \in Lives, g \in 1 .. MaxGeneration :
         WorkerLost(l, g) \/ WorkerRecovers(l, g) \/ RemovalCompletes(l, g)
  BY DEF ContainerStep
<1>2. PICK status \in ContainerStatus :
         /\ SetContainer(l, g, status)
         /\ containers[l][g] # "none"
         /\ status \in {"healthy", "unhealthy"} =>
               containers[l][g] \in {"healthy", "unhealthy"}
  BY <1>1 DEF WorkerLost, WorkerRecovers, RemovalCompletes, ContainerStatus
<1>3. /\ TypeOK
      /\ UNCHANGED <<up, records, processed, op, delivery, queue, dlq, crashes>>
  BY <1>1 DEF IInv, WorkerLost, WorkerRecovers, RemovalCompletes, memory, broker
<1>4. faults' \in 0 .. MaxFaults
  BY <1>1, <1>3, FaultTypes DEF WorkerLost, WorkerRecovers, RemovalCompletes, TypeOK
<1>5. /\ containers' \in [Lives -> [1 .. MaxGeneration -> ContainerStatus]]
      /\ \A k \in Lives : /\ Standing(k)' \subseteq Standing(k)
                          /\ Present(k)' \subseteq Present(k)
  BY <1>2, <1>3, ContainerFalls
<1>6. TypeOK'
  BY <1>3, <1>4, <1>5 DEF TypeOK
<1>7. OpsOK' /\ OneStands'
  BY <1>3, <1>5, ContainersShrink
<1>8. OneOperation' /\ ProcessOK'
  BY <1>3 DEF IInv, OneOperation, ProcessOK
<1> QED
  BY <1>6, <1>7, <1>8 DEF IInv

LEMMA StutterStep == ASSUME IInv, UNCHANGED orchestratorVars PROVE IInv'
<1>1. UNCHANGED <<up, records, processed, op, delivery, queue, dlq,
                  containers, faults, crashes>>
  BY DEF orchestratorVars, memory, broker
<1>2. TypeOK' /\ ProcessOK'
  BY <1>1 DEF IInv, TypeOK, ProcessOK
<1> QED
  BY <1>1, <1>2, MemoryKept DEF IInv

LEMMA NextStep == ASSUME IInv, [Next]_orchestratorVars PROVE IInv'
<1>1. ASSUME NEW t \in Threads, ThreadStep(t) PROVE IInv'
  BY <1>1, ListStep, ListFailsStep, StopWorkerStep, StopWorkerFailsStep,
     FinishStep, StartWorkerStep, StartWorkerFailsStep DEF ThreadStep
<1>2. CASE ProcessStep
  BY <1>1, <1>2, DeliverStep, HandleStep, ReconcileStep, CrashStep DEF ProcessStep
<1>3. CASE ContainerStep
  BY <1>3, ContainerStepStep
<1>4. CASE \E loaded \in Loads : Boot(loaded)
  BY <1>4, BootStep
<1>5. CASE \E e \in Events : Publish(e)
  BY <1>5, PublishStep
<1>6. CASE UNCHANGED orchestratorVars
  BY <1>6, StutterStep
<1> QED
  BY <1>2, <1>3, <1>4, <1>5, <1>6 DEF Next

----------------------------------------------------------------------------
(* The invariants, for every instance.                                     *)

\* IInv holds in every reachable state.
THEOREM Invariance == Spec => []IInv
<1>1. IInv /\ [Next]_orchestratorVars => IInv'
  BY NextStep
<1> QED
  BY InitIInv, <1>1, PTL DEF Spec

\* Records, operations, deliveries, queues and containers are well typed.
THEOREM TypeCorrect == Spec => []TypeOK
<1>1. IInv => TypeOK
  BY DEF IInv
<1> QED
  BY Invariance, <1>1, PTL

\* A live never has two containers side by side.
THEOREM WorkerUnique == Spec => []OneWorker
<1>1. ASSUME IInv PROVE OneWorker
  <2> SUFFICES ASSUME NEW l \in Lives PROVE Cardinality(Standing(l)) =< 1
    BY DEF OneWorker
  <2>1. CASE Standing(l) = {}
    BY <2>1, FS_EmptySet
  <2>2. CASE Standing(l) # {}
    <3>1. PICK g : Standing(l) = {g}
      BY <1>1, <2>2 DEF IInv, OneStands
    <3> QED
      BY <3>1, FS_Singleton
  <2> QED
    BY <2>1, <2>2
<1> QED
  BY Invariance, <1>1, PTL

----------------------------------------------------------------------------
(* What a step may never do.                                               *)

\* Only start_worker fills a place that was empty.
LEMMA FillsNothing ==
    ASSUME IInv, NEW l \in Lives, NEW g \in 1 .. MaxGeneration,
           containers[l][g] = "none",
           \/ UNCHANGED containers
           \/ \E k \in Lives, h \in 1 .. MaxGeneration, status \in ContainerStatus :
                 /\ SetContainer(k, h, status)
                 /\ containers[k][h] # "none" \/ status = "none"
    PROVE  containers'[l][g] = "none"
  BY ContainersSet DEF IInv

LEMMA StartIsWanted ==
    ASSUME IInv, [Next]_orchestratorVars, NEW l \in Lives,
           NEW g \in 1 .. MaxGeneration,
           containers[l][g] = "none", containers'[l][g] # "none"
    PROVE  /\ records[l] # NoRecord
           /\ records[l].desired = "running"
           /\ g > records[l].generation
           /\ \A k \in Present(l) : k < g
<1> DEFINE Wanted == /\ records[l] # NoRecord
                     /\ records[l].desired = "running"
                     /\ g > records[l].generation
                     /\ \A k \in Present(l) : k < g
<1>1. ~UNCHANGED containers
  OBVIOUS
<1>2. ASSUME NEW t \in Threads, StartWorker(t) \/ StartWorkerFails(t)
      PROVE  Wanted
  <2>1. /\ AllStopped(t) /\ op[t].goal = "start"
        /\ \E status \in {"none", "healthy", "unhealthy"} :
              SetContainer(op[t].record.live, op[t].generation, status)
    BY <1>2 DEF StartWorker, StartWorkerFails
  <2>2. /\ op[t].record.live \in Lives
        /\ op[t].generation \in 1 .. MaxGeneration
        /\ records[op[t].record.live] = op[t].record
        /\ op[t].record \in Record
        /\ op[t].record.desired = "running"
        /\ op[t].generation > op[t].record.generation
        /\ \A k \in Present(op[t].record.live) : k < op[t].generation
    BY <2>1, StartFindsNone
  <2>3. op[t].record.live = l /\ op[t].generation = g
    BY <2>1, <2>2 DEF SetContainer, IInv, TypeOK
  <2> QED
    BY <2>2, <2>3, RecordIsKnown
<1>3. ASSUME NEW t \in Threads, StopWorker(t) \/ StopWorkerFails(t)
      PROVE  FALSE
  <2>1. op[t].step # "idle"
    BY <1>3 DEF StopWorker, StopWorkerFails
  <2>2. op[t].record.live \in Lives /\ op[t].doomed \subseteq 1 .. MaxGeneration
    BY <2>1, OperationFields DEF IInv
  <2>3. \E h \in op[t].doomed :
           \/ SetContainer(op[t].record.live, h, "none")
           \/ /\ SetContainer(op[t].record.live, h, "removing")
              /\ containers[op[t].record.live][h] # "none"
    BY <1>1, <1>3 DEF StopWorker, StopWorkerFails
  <2> QED
    BY <2>2, <2>3, FillsNothing DEF ContainerStatus
<1>4. ASSUME ContainerStep PROVE FALSE
  <2>1. PICK k \in Lives, h \in 1 .. MaxGeneration :
           WorkerLost(k, h) \/ WorkerRecovers(k, h) \/ RemovalCompletes(k, h)
    BY <1>4 DEF ContainerStep
  <2>2. \E status \in ContainerStatus :
           SetContainer(k, h, status) /\ containers[k][h] # "none"
    BY <2>1 DEF WorkerLost, WorkerRecovers, RemovalCompletes, ContainerStatus
  <2> QED
    BY <2>2, FillsNothing
<1> QED
  BY <1>1, <1>2, <1>3, <1>4
     DEF Next, ProcessStep, ThreadStep, Deliver, Handle, Reconcile, Crash, List,
         ListFails, Finish, Boot, Publish, orchestratorVars

\* Containers are only created for a live whose record says running, under a
\* generation above the recorded one and above every container still there.
THEOREM WantedStarts == Spec => StartsAreWanted
<1> DEFINE A == \A l \in Lives, g \in 1 .. MaxGeneration :
                   containers[l][g] = "none" /\ containers'[l][g] # "none" =>
                       /\ records[l] # NoRecord
                       /\ records[l].desired = "running"
                       /\ g > records[l].generation
                       /\ \A k \in Present(l) : k < g
<1>1. ASSUME IInv, [Next]_orchestratorVars PROVE [A]_orchestratorVars
  <2>1. A
    BY <1>1, StartIsWanted
  <2> QED
    BY <2>1
<1> QED
  BY Invariance, <1>1, PTL DEF Spec, StartsAreWanted

\* A record's fields that the store orders events by.
Follows(old, new) == /\ new # NoRecord
                     /\ new.version >= old.version
                     /\ new.version = old.version => new.desired = old.desired

LEMMA RecordFollows ==
    ASSUME IInv, [Next]_orchestratorVars, up, up',
           NEW l \in Lives, records[l] # NoRecord
    PROVE  Follows(records[l], records'[l])
<1>1. records[l] \in Record /\ records[l].version \in Nat
  BY DEF IInv, TypeOK, Record
<1>2. Follows(records[l], records[l])
  BY <1>1 DEF Follows
<1>3. CASE UNCHANGED records
  BY <1>2, <1>3
<1>4. ASSUME Handle, ~UNCHANGED records
      PROVE  Follows(records[l], records'[l])
  <2> PICK e : e = delivery.event
    OBVIOUS
  <2>1. /\ delivery # NoDelivery
        /\ Readable(e) /\ ~Stale(e) /\ ~Conflict(e)
        /\ records' = [records EXCEPT ![e.live] = Applied(e)]
    BY <1>4 DEF Handle, memory
  <2>2. e \in Events /\ e.live \in Lives /\ e.version \in Int
    BY <2>1, EventsAreTyped DEF IInv, TypeOK, Message
  <2>3. /\ Applied(e) \in Record
        /\ Applied(e).version = e.version
        /\ Applied(e).desired = DesiredBy(e)
    BY <2>1, <2>2, AppliedFields DEF IInv
  <2>4. CASE e.live = l
    <3>1. records'[l] = Applied(e)
      BY <2>1, <2>4 DEF IInv, TypeOK
    <3>2. /\ e.version >= records[l].version
          /\ e.version = records[l].version => DesiredBy(e) = records[l].desired
      BY <1>1, <2>1, <2>2, <2>4 DEF Stale, Conflict
    <3> QED
      BY <2>3, <3>1, <3>2, RecordIsKnown DEF Follows
  <2>5. CASE e.live # l
    BY <1>2, <2>1, <2>2, <2>5 DEF IInv, TypeOK
  <2> QED
    BY <2>4, <2>5
<1>5. ASSUME NEW t \in Threads, Finish(t) \/ StartWorker(t)
      PROVE  Follows(records[l], records'[l])
  <2>1. /\ op[t].step # "idle"
        /\ \/ MarkStopped(op[t].record.live)
           \/ MarkWorker(op[t].record.live, op[t].generation)
    BY <1>5 DEF Finish, StartWorker, AllStopped
  <2>2. /\ TypeOK /\ OpOK(op[t]) /\ op[t].record \in Record
        /\ op[t].record.live \in Lives /\ op[t].generation \in Generation
    BY <2>1, BusyThread, OperationFields
  <2> PICK r \in Record, g \in Generation : r = op[t].record /\ g = op[t].generation
    BY <2>2
  <2>3. records[r.live] = r
    BY <2>2 DEF OpOK, RecordsFresh
  <2>4. PICK new \in Record : /\ new.version = r.version
                              /\ new.desired = r.desired
                              /\ records' = [records EXCEPT ![r.live] = new]
    BY <2>1, <2>2, <2>3, MarkedRecord
  <2>5. records'[l] = IF l = r.live THEN new ELSE records[l]
    BY <2>2, <2>4 DEF TypeOK
  <2> QED
    BY <1>1, <1>2, <2>3, <2>4, <2>5, RecordIsKnown DEF Follows
<1> QED
  BY <1>3, <1>4, <1>5
     DEF Next, ProcessStep, ThreadStep, Deliver, Reconcile, Crash, List, ListFails,
         StopWorker, StopWorkerFails, StartWorkerFails, Boot, Publish, ContainerStep,
         WorkerLost, WorkerRecovers, RemovalCompletes, memory, orchestratorVars

\* While the process lives, no order or repetition of events takes a live back
\* to an older version, or to the other side at the same version.
THEOREM VersionsRise == Spec => VersionsOnlyRise
<1> DEFINE A == up /\ up' => \A l \in Lives : records[l] # NoRecord =>
                   /\ records'[l] # NoRecord
                   /\ records'[l].version >= records[l].version
                   /\ records'[l].version = records[l].version =>
                         records'[l].desired = records[l].desired
<1>1. ASSUME IInv, [Next]_orchestratorVars PROVE [A]_orchestratorVars
  <2>1. A
    BY <1>1, RecordFollows DEF Follows
  <2> QED
    BY <2>1
<1> QED
  BY Invariance, <1>1, PTL DEF Spec, VersionsOnlyRise
=============================================================================
