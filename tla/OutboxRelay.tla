---------------------------- MODULE OutboxRelay ----------------------------
(***************************************************************************)
(* The transactional outbox: each API process runs one OutboxRelay thread  *)
(* that polls the unpublished events, publishes them in order and marks    *)
(* each one published; an exception ends the batch, the next poll begins   *)
(* again.  The broker's log `sent` holds the messages it accepted.         *)
(***************************************************************************)
EXTENDS Naturals, Sequences, FiniteSets, SequencesExt

CONSTANTS Events,    \* lifecycle events; [live, version, ...]
          Relays,    \* API processes
          MaxTime,   \* bound: readings of the API processes' clocks
          MaxFaults  \* bound: broker, database and process failures

ASSUME MaxFaultsIsNat == MaxFaults \in Nat
ASSUME MaxTimeIsNat == MaxTime \in Nat

VARIABLES outbox,     \* rows of outbox_events
          occurred,   \* occurred_at of a row; 0 before it is committed
          published,  \* those with published_at set
          relay,      \* each relay's batch, and whether its head was sent
          sent,       \* messages the broker accepted, in order
          faults      \* failures so far

vars == <<outbox, occurred, published, relay, sent, faults>>

Resting == [batch |-> <<>>, headSent |-> FALSE]

\* What a subscriber gets of an event: a message never delivered before.
Message(e) == [event |-> e, deliveries |-> 0]

Init == /\ outbox = {}
        /\ occurred = [e \in Events |-> 0]
        /\ published = {}
        /\ relay = [r \in Relays |-> Resting]
        /\ sent = <<>>
        /\ faults = 0

Fault == faults < MaxFaults /\ faults' = faults + 1

----------------------------------------------------------------------------

\* save_with_event committed: the events of one live in version order, each
\* stamped by the clock of the API process that wrote it, which may be behind
\* the clock that stamped the event before.
Commit(e) ==
    /\ e \notin outbox
    /\ \A f \in Events : f.live = e.live /\ f.version < e.version => f \in outbox
    /\ outbox' = outbox \cup {e}
    /\ \E t \in 1 .. MaxTime : occurred' = [occurred EXCEPT ![e] = t]
    /\ UNCHANGED <<published, relay, sent, faults>>

\* Mutant of InOrder: the query forgets ORDER BY occurred_at.
AnyOrder(batch) == TRUE

\* ORDER BY occurred_at, id; the ids are random, so ties come in any order.
InOrder(batch) ==
    \A i, j \in DOMAIN batch : i < j => occurred[batch[i]] =< occurred[batch[j]]

\* Mutant of HasWork: it waits for a second event (> 1 for > 0).
HasWorkForTwo == Cardinality(outbox \ published) > 1

HasWork == outbox \ published # {}

\* dispatch_once begins: pending().
Poll(r) ==
    /\ relay[r].batch = <<>>
    /\ HasWork
    /\ \E batch \in SetToSeqs(outbox \ published) :
          /\ InOrder(batch)
          /\ relay' = [relay EXCEPT ![r].batch = batch]
    /\ UNCHANGED <<outbox, occurred, published, sent, faults>>

\* The broker accepted n copies of the head of r's batch.
Accept(r, n) == sent' = sent \o [i \in 1 .. n |-> Message(Head(relay[r].batch))]

ToSend(r) == relay[r].batch # <<>> /\ ~relay[r].headSent

\* publish returned: confirmed at once, or at the second attempt, when the
\* connection broke after the broker had the first copy.
Send(r) ==
    /\ ToSend(r)
    /\ \/ Accept(r, 1) /\ UNCHANGED faults
       \/ Accept(r, 2) /\ Fault
    /\ relay' = [relay EXCEPT ![r].headSent = TRUE]
    /\ UNCHANGED <<outbox, occurred, published>>

\* Mutant of SendFails: the loop goes on with mark_published.
SendFailsSwallowed(r) ==
    /\ ToSend(r)
    /\ Fault
    /\ relay' = [relay EXCEPT ![r].headSent = TRUE]
    /\ UNCHANGED <<outbox, occurred, published, sent>>

\* publish raised, whatever the broker had accepted by then: record_failure,
\* and the batch is dropped.
SendFails(r) ==
    /\ ToSend(r)
    /\ \E n \in 0 .. 2 : Accept(r, n)
    /\ Fault
    /\ relay' = [relay EXCEPT ![r] = Resting]
    /\ UNCHANGED <<outbox, occurred, published>>

\* Mutant of Mark: the flag of the event before it stays set.
MarkKeepsFlag(r) ==
    /\ relay[r].headSent
    /\ published' = published \cup {Head(relay[r].batch)}
    /\ relay' = [relay EXCEPT ![r].batch = Tail(@)]
    /\ UNCHANGED <<outbox, occurred, sent, faults>>

\* mark_published, then the next event of the batch.
Mark(r) ==
    /\ relay[r].headSent
    /\ published' = published \cup {Head(relay[r].batch)}
    /\ relay' = [relay EXCEPT ![r] = [batch |-> Tail(@.batch), headSent |-> FALSE]]
    /\ UNCHANGED <<outbox, occurred, sent, faults>>

\* mark_published raised, or the process died: what it sent is sent again.
BatchLost(r) ==
    /\ relay[r].batch # <<>>
    /\ Fault
    /\ relay' = [relay EXCEPT ![r] = Resting]
    /\ UNCHANGED <<outbox, occurred, published, sent>>

RelayStep(r) == Poll(r) \/ Send(r) \/ SendFails(r) \/ Mark(r) \/ BatchLost(r)

Next == \/ \E e \in Events : Commit(e)
        \/ \E r \in Relays : RelayStep(r)

Spec == Init /\ [][Next]_vars

\* _run polls for ever, and a batch that nothing interrupts is worked off.
FairSpec == Spec /\ \A r \in Relays : WF_vars(Poll(r) \/ Send(r) \/ Mark(r))

----------------------------------------------------------------------------
(* Properties.                                                             *)

WasSent(e) == \E i \in DOMAIN sent : sent[i].event = e

TypeOK ==
    /\ published \subseteq outbox /\ outbox \subseteq Events
    /\ occurred \in [Events -> 0 .. MaxTime]
    /\ relay \in [Relays -> [batch : Seq(Events), headSent : BOOLEAN]]
    /\ \A r \in Relays : relay[r].headSent => relay[r].batch # <<>>
    /\ \A i \in DOMAIN sent : sent[i].event \in outbox
    /\ faults \in 0 .. MaxFaults

\* An event is never marked published before the broker has it: a death
\* between publish and mark_published duplicates, it never loses.
NothingLost == \A e \in published : WasSent(e)

\* Although batches are cut short, repeated, and worked off by several relays
\* at once, the broker sees the first copy of an event only after one of each
\* event the live had before it, where the clocks tell which came before: one
\* process stamped both, or the clocks of two agree so far.
FirstCopiesInOrder ==
    \A j \in DOMAIN sent, e \in Events :
        /\ e.live = sent[j].event.live
        /\ e.version < sent[j].event.version
        /\ occurred[e] < occurred[sent[j].event]
        => \E i \in 1 .. j - 1 : sent[i].event = e

\* No property of the code: first copies come in the order of the versions.
\* Where the clock of the process that stopped a live is behind that of the
\* one that started it, the stop overtakes the start.
VersionsInOrder ==
    \A j \in DOMAIN sent, e \in Events :
        e.live = sent[j].event.live /\ e.version < sent[j].event.version =>
            \E i \in 1 .. j - 1 : sent[i].event = e

\* Every committed event is published and marked in the end.
AllPublished == \A e \in Events : e \in outbox ~> e \in published
============================================================================
