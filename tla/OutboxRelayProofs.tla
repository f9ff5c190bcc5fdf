------------------------- MODULE OutboxRelayProofs -------------------------
(***************************************************************************)
(* Proofs about OutboxRelay, for any number of relays, any set of events   *)
(* and any number of failures.  The inductive invariant IInv says why the  *)
(* batches of relays that know nothing of each other keep the order: what  *)
(* precedes an event of a batch is published already, or stands before it  *)
(* in the same batch.                                                      *)
(***************************************************************************)
EXTENDS OutboxRelay, FiniteSetTheorems, SequenceTheorems, TLAPS

\* e comes before f in the life of their live, ...
Older(e, f) == e.live = f.live /\ e.version < f.version

\* ... and the clocks say so too.
Earlier(e, f) == Older(e, f) /\ occurred[e] < occurred[f]

SentOK == sent \in Seq({Message(e) : e \in Events})

\* The outbox has every event of a live up to the last one committed.
OutboxOK ==
    /\ IsFiniteSet(outbox)
    /\ \A f \in outbox, e \in Events : Older(e, f) => e \in outbox

\* A relay's batch: committed events, the head sent when the flag says so, and
\* nothing left out before any of them.
BatchOK(b, headSent) ==
    /\ \A i \in DOMAIN b : b[i] \in outbox
    /\ headSent => WasSent(Head(b))
    /\ \A i \in DOMAIN b, e \in Events :
          Earlier(e, b[i]) => e \in published \/ \E j \in 1 .. i - 1 : b[j] = e

BatchesOK == \A r \in Relays : BatchOK(relay[r].batch, relay[r].headSent)

IInv == /\ TypeOK
        /\ SentOK
        /\ OutboxOK
        /\ BatchesOK
        /\ NothingLost
        /\ FirstCopiesInOrder

----------------------------------------------------------------------------
(* The broker's log and the relays' batches.                               *)

LEMMA RelayFields ==
    ASSUME TypeOK, NEW r \in Relays
    PROVE  /\ relay[r] \in [batch : Seq(Events), headSent : BOOLEAN]
           /\ relay[r].batch \in Seq(Events)
           /\ relay[r].headSent => relay[r].batch # <<>>
  BY DEF TypeOK

LEMMA HeadIsFirst ==
    ASSUME NEW b \in Seq(Events), b # <<>>
    PROVE  /\ 1 \in DOMAIN b
           /\ Head(b) = b[1]
           /\ Head(b) \in Events
           /\ Tail(b) \in Seq(Events)
           /\ \A i \in DOMAIN Tail(b) : i + 1 \in DOMAIN b /\ Tail(b)[i] = b[i + 1]
  OBVIOUS

LEMMA RelayRecords ==
    ASSUME NEW x \in [batch : Seq(Events), headSent : BOOLEAN],
           NEW b, NEW flag
    PROVE  /\ [x EXCEPT !.headSent = flag] = [batch |-> x.batch, headSent |-> flag]
           /\ [x EXCEPT !.batch = b] = [batch |-> b, headSent |-> x.headSent]
  OBVIOUS

\* Accepting copies keeps the log as it was and adds the event at its end.
LEMMA LogGrows ==
    ASSUME IInv, NEW r \in Relays, relay[r].batch # <<>>,
           NEW n \in 0 .. 2, Accept(r, n),
           NEW h, h = Head(relay[r].batch)
    PROVE  /\ h \in Events
           /\ SentOK'
           /\ \A i \in DOMAIN sent : i \in DOMAIN sent' /\ sent'[i] = sent[i]
           /\ \A i \in DOMAIN sent' :
                 i \in DOMAIN sent \/ (sent'[i].event = h /\ i > Len(sent))
           /\ n > 0 => \E i \in DOMAIN sent' : sent'[i].event = h
<1> PICK m : m = Message(h)
  OBVIOUS
<1> DEFINE M == {Message(e) : e \in Events}
           copies == [i \in 1 .. n |-> m]
<1>1. relay[r].batch \in Seq(Events)
  BY RelayFields DEF IInv
<1>2. h \in Events
  BY <1>1, HeadIsFirst
<1>3. m \in M /\ m.event = h
  BY <1>2 DEF Message
<1> HIDE DEF M
<1>4. sent \in Seq(M)
  BY DEF IInv, SentOK, M
<1>5. copies \in Seq(M) /\ Len(copies) = n
  BY <1>3
<1>6. sent' = sent \o copies
  BY DEF Accept
<1> HIDE DEF copies
<1>7. sent' \in Seq(M) /\ Len(sent') = Len(sent) + n
  BY <1>4, <1>5, <1>6, ConcatProperties
<1>8. \A i \in 1 .. Len(sent) + n :
         sent'[i] = IF i =< Len(sent) THEN sent[i] ELSE copies[i - Len(sent)]
  BY <1>4, <1>5, <1>6, ConcatProperties
<1>9. \A i \in 1 .. n : copies[i] = m
  BY DEF copies
<1>10. Len(sent) \in Nat /\ n \in Nat
  BY <1>4
<1>11. DOMAIN sent = 1 .. Len(sent) /\ DOMAIN sent' = 1 .. Len(sent')
  BY <1>4, <1>7
<1>12. SentOK'
  BY <1>7 DEF SentOK, M
<1>13. \A i \in DOMAIN sent : i \in DOMAIN sent' /\ sent'[i] = sent[i]
  BY <1>7, <1>8, <1>10, <1>11
<1>14. \A i \in DOMAIN sent' :
          i \in DOMAIN sent \/ (sent'[i].event = h /\ i > Len(sent))
  <2> SUFFICES ASSUME NEW i \in DOMAIN sent', i \notin DOMAIN sent
               PROVE  sent'[i].event = h /\ i > Len(sent)
    OBVIOUS
  <2>1. i \in 1 .. Len(sent) + n /\ i > Len(sent)
    BY <1>7, <1>10, <1>11
  <2>2. i - Len(sent) \in 1 .. n
    BY <1>10, <2>1
  <2> QED
    BY <1>3, <1>8, <1>9, <1>10, <2>1, <2>2
<1>15. ASSUME n > 0
       PROVE  \E i \in DOMAIN sent' : sent'[i].event = h
  <2>1. Len(sent) + 1 \in DOMAIN sent' /\ Len(sent) + 1 > Len(sent)
    BY <1>7, <1>10, <1>11, <1>15
  <2>2. Len(sent) + 1 \notin DOMAIN sent
    BY <1>10, <1>11
  <2> QED
    BY <1>14, <2>1, <2>2
<1> QED
  BY <1>2, <1>12, <1>13, <1>14, <1>15

\* What the growing log keeps: the head of a batch is only sent after all that
\* precedes it is published, and so sent.
LEMMA LogStaysOrdered ==
    ASSUME IInv, NEW r \in Relays, relay[r].batch # <<>>,
           NEW n \in 0 .. 2, Accept(r, n), UNCHANGED <<outbox, occurred, published>>,
           NEW h, h = Head(relay[r].batch)
    PROVE  /\ SentOK'
           /\ NothingLost'
           /\ FirstCopiesInOrder'
           /\ \A i \in DOMAIN sent' : sent'[i].event \in outbox
           /\ \A e \in Events : WasSent(e) => WasSent(e)'
           /\ n > 0 => \E i \in DOMAIN sent' : sent'[i].event = h
<1>1. /\ SentOK'
      /\ \A i \in DOMAIN sent : i \in DOMAIN sent' /\ sent'[i] = sent[i]
      /\ \A i \in DOMAIN sent' :
            i \in DOMAIN sent \/ (sent'[i].event = h /\ i > Len(sent))
      /\ n > 0 => \E i \in DOMAIN sent' : sent'[i].event = h
  BY LogGrows
<1>2. /\ TypeOK /\ BatchOK(relay[r].batch, relay[r].headSent)
      /\ sent \in Seq({Message(e) : e \in Events})
  BY DEF IInv, BatchesOK, SentOK
<1>3. relay[r].batch \in Seq(Events)
  BY <1>2, RelayFields
<1>4. 1 \in DOMAIN relay[r].batch /\ h = relay[r].batch[1] /\ h \in Events
  BY <1>3, HeadIsFirst
<1>5. \A e \in Events : Earlier(e, h) => e \in published
  BY <1>2, <1>4 DEF BatchOK
<1>6. h \in outbox
  BY <1>2, <1>4 DEF BatchOK
<1>7. \A i \in DOMAIN sent' : sent'[i].event \in outbox
  BY <1>1, <1>2, <1>6 DEF TypeOK
<1>8. \A e \in Events : WasSent(e) => WasSent(e)'
  BY <1>1 DEF WasSent
<1>9. NothingLost'
  BY <1>2, <1>8 DEF IInv, NothingLost, TypeOK
<1>10. FirstCopiesInOrder'
  <2> SUFFICES ASSUME NEW j \in DOMAIN sent', NEW e \in Events,
                      Earlier(e, sent'[j].event)
               PROVE  \E i \in 1 .. j - 1 : sent'[i].event = e
    BY DEF FirstCopiesInOrder, Earlier, Older
  <2>1. DOMAIN sent = 1 .. Len(sent) /\ Len(sent) \in Nat /\ j \in Nat
    BY <1>1, <1>2 DEF SentOK
  <2>2. CASE j \in DOMAIN sent
    <3>1. \E i \in 1 .. j - 1 : sent[i].event = e
      BY <1>1, <2>2 DEF IInv, FirstCopiesInOrder, Earlier, Older
    <3> QED
      BY <1>1, <2>1, <2>2, <3>1
  <2>3. CASE sent'[j].event = h /\ j > Len(sent)
    <3>1. e \in published
      BY <1>5, <2>3
    <3>2. PICK i \in DOMAIN sent : sent[i].event = e
      BY <3>1 DEF IInv, NothingLost, WasSent
    <3>3. i \in 1 .. j - 1
      BY <2>1, <2>3, <3>2
    <3> QED
      BY <1>1, <3>2, <3>3
  <2> QED
    BY <1>1, <2>2, <2>3
<1> QED
  BY <1>1, <1>7, <1>8, <1>9, <1>10

\* pending() returns every unpublished event, and one before another.
LEMMA PendingIsComplete ==
    ASSUME IInv, NEW b \in SetToSeqs(outbox \ published)
    PROVE  /\ b \in Seq(Events)
           /\ \A i \in DOMAIN b : b[i] \in outbox \ published
           /\ \A e \in outbox \ published : \E i \in DOMAIN b : b[i] = e
<1> DEFINE T == outbox \ published
           D == 1 .. Cardinality(T)
<1>1. IsFiniteSet(T)
  BY FS_Subset DEF IInv, OutboxOK
<1>2. Cardinality(T) \in Nat
  BY <1>1, FS_CardinalityType
<1>3. b \in [D -> T] /\ \A i, j \in D : i # j => b[i] # b[j]
  BY DEF SetToSeqs
<1>4. T \subseteq Events
  BY DEF IInv, TypeOK
<1> HIDE DEF T
<1>5. b \in Seq(Events) /\ DOMAIN b = D /\ \A i \in D : b[i] \in T
  BY <1>2, <1>3, <1>4
<1>6. IsFiniteSet(D) /\ Cardinality(D) = Cardinality(T)
  BY <1>2, FS_Interval
<1> HIDE DEF D
<1>7. b \in Injection(D, T)
  BY <1>3 DEF Injection, IsInjective
<1>8. b \in Surjection(D, T)
  BY <1>1, <1>6, <1>7, FS_Injection
<1>9. \A e \in T : \E i \in D : b[i] = e
  BY <1>8 DEF Surjection
<1> QED
  BY <1>5, <1>9 DEF T

----------------------------------------------------------------------------
(* One lemma per action.                                                   *)

\* The batches of the relays after relay r put a new one in its place.
LEMMA OneBatch ==
    ASSUME IInv, NEW r \in Relays, NEW b \in Seq(Events), NEW flag \in BOOLEAN,
           relay' = [relay EXCEPT ![r] = [batch |-> b, headSent |-> flag]],
           flag => b # <<>>,
           outbox \subseteq outbox', occurred' = occurred,
           published \subseteq published',
           \A e \in Events : WasSent(e) => WasSent(e)',
           BatchOK(b, flag)'
    PROVE  /\ relay' \in [Relays -> [batch : Seq(Events), headSent : BOOLEAN]]
           /\ \A q \in Relays : relay'[q].headSent => relay'[q].batch # <<>>
           /\ BatchesOK'
<1>1. /\ relay' \in [Relays -> [batch : Seq(Events), headSent : BOOLEAN]]
      /\ \A q \in Relays : relay'[q] = IF q = r THEN [batch |-> b, headSent |-> flag]
                                       ELSE relay[q]
  BY DEF IInv, TypeOK
<1>2. \A q \in Relays : relay'[q].headSent => relay'[q].batch # <<>>
  BY <1>1 DEF IInv, TypeOK
<1>3. ASSUME NEW q \in Relays
      PROVE  BatchOK(relay[q].batch, relay[q].headSent)'
  <2>1. CASE q = r
    <3>1. relay'[q].batch = b /\ relay'[q].headSent = flag
      BY <1>1, <2>1
    <3> QED
      BY <3>1 DEF BatchOK, WasSent, Earlier
  <2>2. CASE q # r
    <3> PICK c, f : c = relay[q].batch /\ f = relay[q].headSent
      OBVIOUS
    <3>1. /\ relay'[q].batch = c /\ relay'[q].headSent = f
          /\ c \in Seq(Events) /\ (f => c # <<>>)
      BY <1>1, <2>2, RelayFields DEF IInv
    <3>2. BatchOK(c, f)
      BY DEF IInv, BatchesOK
    <3>3. BatchOK(c, f)'
      <4>1. f => WasSent(Head(c))'
        BY <3>1, <3>2, HeadIsFirst DEF BatchOK
      <4> QED
        BY <3>2, <4>1 DEF BatchOK, Earlier
    <3> QED
      BY <3>1, <3>3 DEF BatchOK, WasSent
  <2> QED
    BY <2>1, <2>2
<1> QED
  BY <1>1, <1>2, <1>3 DEF BatchesOK

LEMMA NoBatch == BatchOK(<<>>, FALSE)'
  BY DEF BatchOK

LEMMA InitIInv == Init => IInv
<1> SUFFICES ASSUME Init PROVE IInv
  OBVIOUS
<1>1. TypeOK
  BY MaxFaultsIsNat, MaxTimeIsNat DEF Init, TypeOK, Resting
<1>2. SentOK /\ FirstCopiesInOrder /\ NothingLost
  BY DEF Init, SentOK, FirstCopiesInOrder, NothingLost
<1>3. OutboxOK
  BY FS_EmptySet DEF Init, OutboxOK
<1>4. BatchesOK
  BY DEF Init, BatchesOK, BatchOK, Resting
<1> QED
  BY <1>1, <1>2, <1>3, <1>4 DEF IInv

LEMMA CommitStep == ASSUME IInv, NEW e \in Events, Commit(e) PROVE IInv'
<1>1. /\ outbox' = outbox \cup {e} /\ e \notin outbox
      /\ UNCHANGED <<published, relay, sent, faults>>
      /\ \A f \in Events : f.live = e.live /\ f.version < e.version => f \in outbox
  BY DEF Commit
<1>2. PICK t \in 1 .. MaxTime : occurred' = [occurred EXCEPT ![e] = t]
  BY DEF Commit
<1>3. occurred' \in [Events -> 0 .. MaxTime]
  BY <1>2, MaxTimeIsNat DEF IInv, TypeOK
<1>4. TypeOK'
  BY <1>1, <1>3 DEF IInv, TypeOK
<1>5. OutboxOK'
  BY <1>1, FS_AddElement DEF IInv, OutboxOK, Older
\* What precedes an event of the outbox is there, with its time, already.
<1>6. ASSUME NEW f \in outbox, NEW d \in Events, Earlier(d, f)'
      PROVE  Earlier(d, f)
  <2>1. Older(d, f) /\ d \in outbox
    BY <1>6 DEF Earlier, Older, IInv, OutboxOK
  <2>2. d # e /\ f # e /\ f \in Events
    BY <1>1, <2>1 DEF IInv, TypeOK
  <2>3. occurred'[d] = occurred[d] /\ occurred'[f] = occurred[f]
    BY <1>2, <2>2 DEF IInv, TypeOK
  <2> QED
    BY <1>6, <2>1, <2>3 DEF Earlier
<1>7. SentOK' /\ NothingLost'
  BY <1>1 DEF IInv, SentOK, NothingLost, WasSent
<1>8. FirstCopiesInOrder'
  <2> SUFFICES ASSUME NEW j \in DOMAIN sent, NEW d \in Events,
                      Earlier(d, sent[j].event)'
               PROVE  \E i \in 1 .. j - 1 : sent[i].event = d
    BY <1>1 DEF FirstCopiesInOrder, Earlier, Older
  <2>1. sent[j].event \in outbox
    BY DEF IInv, TypeOK
  <2>2. PICK f : f = sent[j].event
    OBVIOUS
  <2>3. Earlier(d, f)'
    BY <1>1, <2>2 DEF Earlier, Older
  <2>4. Earlier(d, f)
    BY <1>6, <2>1, <2>2, <2>3
  <2> QED
    BY <2>2, <2>4 DEF IInv, FirstCopiesInOrder, Earlier, Older
<1>9. BatchesOK'
  <2> SUFFICES ASSUME NEW r \in Relays
               PROVE  BatchOK(relay[r].batch, relay[r].headSent)'
    BY DEF BatchesOK
  <2> PICK b, flag : b = relay[r].batch /\ flag = relay[r].headSent
    OBVIOUS
  <2>1. BatchOK(b, flag)
    BY DEF IInv, BatchesOK
  <2>2. relay'[r].batch = b /\ relay'[r].headSent = flag
    BY <1>1
  <2>3. \A i \in DOMAIN b : b[i] \in outbox
    BY <2>1 DEF BatchOK
  <2>4. \A i \in DOMAIN b, d \in Events : Earlier(d, b[i])' => Earlier(d, b[i])
    <3> SUFFICES ASSUME NEW i \in DOMAIN b, NEW d \in Events, Earlier(d, b[i])'
                 PROVE  Earlier(d, b[i])
      OBVIOUS
    <3> PICK f : f = b[i]
      OBVIOUS
    <3> QED
      BY <1>6, <2>3 DEF Earlier, Older
  <2>5. BatchOK(b, flag)'
    BY <1>1, <2>1, <2>4 DEF BatchOK, WasSent
  <2> QED
    BY <2>2, <2>5 DEF BatchOK, WasSent, Earlier
<1> QED
  BY <1>4, <1>5, <1>7, <1>8, <1>9 DEF IInv

LEMMA PollStep == ASSUME IInv, NEW r \in Relays, Poll(r) PROVE IInv'
<1>1. PICK b \in SetToSeqs(outbox \ published) :
         /\ InOrder(b)
         /\ relay' = [relay EXCEPT ![r].batch = b]
  BY DEF Poll
<1>2. /\ relay[r].batch = <<>>
      /\ UNCHANGED <<outbox, occurred, published, sent, faults>>
  BY DEF Poll
<1>3. /\ relay[r].headSent = FALSE
      /\ relay[r] \in [batch : Seq(Events), headSent : BOOLEAN]
  BY <1>2, RelayFields DEF IInv
<1>4. relay' = [relay EXCEPT ![r] = [batch |-> b, headSent |-> FALSE]]
  BY <1>1, <1>3, RelayRecords DEF IInv, TypeOK
<1>5. /\ b \in Seq(Events)
      /\ \A i \in DOMAIN b : b[i] \in outbox \ published
      /\ \A e \in outbox \ published : \E i \in DOMAIN b : b[i] = e
  BY PendingIsComplete
<1>6. BatchOK(b, FALSE)'
  <2>1. ASSUME NEW i \in DOMAIN b, NEW e \in Events, Earlier(e, b[i]), e \notin published
        PROVE  \E j \in 1 .. i - 1 : b[j] = e
    <3>1. e \in outbox
      BY <1>5, <2>1 DEF IInv, OutboxOK, Earlier
    <3>2. PICK j \in DOMAIN b : b[j] = e
      BY <1>5, <2>1, <3>1
    <3>3. i \in Nat /\ j \in Nat /\ j >= 1
      BY <1>5
    <3>4. b[i] \in Events /\ occurred[e] < occurred[b[i]]
      BY <1>5, <2>1 DEF Earlier
    <3>5. occurred[b[i]] \in Nat /\ occurred[e] \in Nat
      BY <3>4, MaxTimeIsNat DEF IInv, TypeOK
    <3>6. ~(i < j)
      BY <1>1, <3>2, <3>4, <3>5 DEF InOrder
    <3>7. i # j
      BY <3>2, <3>4, <3>5
    <3> QED
      BY <3>2, <3>3, <3>6, <3>7
  <2> QED
    BY <1>2, <1>5, <2>1 DEF BatchOK, Earlier
<1>7. \A e \in Events : WasSent(e) => WasSent(e)'
  BY <1>2 DEF WasSent
<1>8. /\ relay' \in [Relays -> [batch : Seq(Events), headSent : BOOLEAN]]
      /\ \A q \in Relays : relay'[q].headSent => relay'[q].batch # <<>>
      /\ BatchesOK'
  BY <1>2, <1>4, <1>5, <1>6, <1>7, OneBatch
<1>9. TypeOK'
  BY <1>2, <1>8 DEF IInv, TypeOK
<1> QED
  BY <1>2, <1>8, <1>9
     DEF IInv, SentOK, OutboxOK, NothingLost, FirstCopiesInOrder, WasSent

LEMMA FaultTypes == ASSUME TypeOK, Fault PROVE faults' \in 0 .. MaxFaults
  BY MaxFaultsIsNat DEF TypeOK, Fault

LEMMA SendStep == ASSUME IInv, NEW r \in Relays, Send(r) PROVE IInv'
<1>1. /\ relay[r].batch # <<>>
      /\ relay' = [relay EXCEPT ![r].headSent = TRUE]
      /\ UNCHANGED <<outbox, occurred, published>>
  BY DEF Send, ToSend
<1>2. faults' \in 0 .. MaxFaults
  BY FaultTypes DEF Send, IInv, TypeOK
<1>3. PICK n \in 1 .. 2 : Accept(r, n)
  BY DEF Send
<1> PICK b, h : b = relay[r].batch /\ h = Head(b)
  OBVIOUS
<1>4. /\ SentOK' /\ NothingLost' /\ FirstCopiesInOrder'
      /\ \A i \in DOMAIN sent' : sent'[i].event \in outbox
      /\ \A e \in Events : WasSent(e) => WasSent(e)'
      /\ \E i \in DOMAIN sent' : sent'[i].event = h
  <2>1. n \in 0 .. 2 /\ n > 0 /\ h = Head(relay[r].batch)
    OBVIOUS
  <2> QED
    BY <1>1, <1>3, <2>1, LogStaysOrdered
<1>5. b \in Seq(Events) /\ relay[r] \in [batch : Seq(Events), headSent : BOOLEAN]
  BY RelayFields DEF IInv
<1>6. relay' = [relay EXCEPT ![r] = [batch |-> b, headSent |-> TRUE]]
  BY <1>1, <1>5, RelayRecords DEF IInv, TypeOK
<1>7. BatchOK(b, TRUE)'
  <2>1. BatchOK(b, relay[r].headSent)
    BY DEF IInv, BatchesOK
  <2>2. WasSent(Head(b))'
    BY <1>4 DEF WasSent
  <2> QED
    BY <1>1, <2>1, <2>2 DEF BatchOK, Earlier
<1>8. /\ relay' \in [Relays -> [batch : Seq(Events), headSent : BOOLEAN]]
      /\ \A q \in Relays : relay'[q].headSent => relay'[q].batch # <<>>
      /\ BatchesOK'
  BY <1>1, <1>4, <1>5, <1>6, <1>7, OneBatch
<1>9. TypeOK'
  BY <1>1, <1>2, <1>4, <1>8 DEF IInv, TypeOK
<1> QED
  BY <1>1, <1>4, <1>8, <1>9 DEF IInv, OutboxOK

\* The batch is given up; what the broker has by then stays.
LEMMA DroppedStep ==
    ASSUME IInv, NEW r \in Relays,
           relay' = [relay EXCEPT ![r] = Resting],
           UNCHANGED <<outbox, occurred, published>>, Fault,
           SentOK', NothingLost', FirstCopiesInOrder',
           \A i \in DOMAIN sent' : sent'[i].event \in outbox,
           \A e \in Events : WasSent(e) => WasSent(e)'
    PROVE  IInv'
<1>1. /\ <<>> \in Seq(Events) /\ BatchOK(<<>>, FALSE)'
      /\ relay' = [relay EXCEPT ![r] = [batch |-> <<>>, headSent |-> FALSE]]
  BY NoBatch, EmptySeq DEF Resting
<1>2. /\ relay' \in [Relays -> [batch : Seq(Events), headSent : BOOLEAN]]
      /\ \A q \in Relays : relay'[q].headSent => relay'[q].batch # <<>>
      /\ BatchesOK'
  BY <1>1, OneBatch
<1>3. faults' \in 0 .. MaxFaults
  BY FaultTypes DEF IInv
<1>4. TypeOK'
  BY <1>2, <1>3 DEF IInv, TypeOK
<1> QED
  BY <1>2, <1>4 DEF IInv, OutboxOK

LEMMA SendFailsStep == ASSUME IInv, NEW r \in Relays, SendFails(r) PROVE IInv'
<1> PICK h : h = Head(relay[r].batch)
  OBVIOUS
<1>1. /\ relay[r].batch # <<>>
      /\ relay' = [relay EXCEPT ![r] = Resting]
      /\ Fault
      /\ UNCHANGED <<outbox, occurred, published>>
  BY DEF SendFails, ToSend
<1>2. PICK n \in 0 .. 2 : Accept(r, n)
  BY DEF SendFails
<1>3. /\ SentOK' /\ NothingLost' /\ FirstCopiesInOrder'
      /\ \A i \in DOMAIN sent' : sent'[i].event \in outbox
      /\ \A e \in Events : WasSent(e) => WasSent(e)'
  BY <1>1, <1>2, LogStaysOrdered
<1> QED
  BY <1>1, <1>3, DroppedStep

LEMMA BatchLostStep == ASSUME IInv, NEW r \in Relays, BatchLost(r) PROVE IInv'
<1>1. /\ relay' = [relay EXCEPT ![r] = Resting]
      /\ Fault
      /\ UNCHANGED <<outbox, occurred, published, sent>>
  BY DEF BatchLost
<1>2. /\ SentOK' /\ NothingLost' /\ FirstCopiesInOrder'
      /\ \A i \in DOMAIN sent' : sent'[i].event \in outbox
      /\ \A e \in Events : WasSent(e) => WasSent(e)'
  BY <1>1 DEF IInv, TypeOK, SentOK, NothingLost, FirstCopiesInOrder, WasSent
<1> QED
  BY <1>1, <1>2, DroppedStep

\* The event the relay sent is marked, and what followed it comes next.
LEMMA MarkStep == ASSUME IInv, NEW r \in Relays, Mark(r) PROVE IInv'
<1> PICK b, h, rest : b = relay[r].batch /\ h = Head(b) /\ rest = Tail(b)
  OBVIOUS
<1>1. /\ relay[r].headSent
      /\ published' = published \cup {h}
      /\ UNCHANGED <<outbox, occurred, sent, faults>>
      /\ relay' = [relay EXCEPT ![r] = [batch |-> rest, headSent |-> FALSE]]
  BY DEF Mark, IInv, TypeOK
<1>2. b \in Seq(Events) /\ b # <<>>
  BY <1>1, RelayFields DEF IInv
<1>3. /\ 1 \in DOMAIN b /\ h = b[1] /\ h \in Events /\ rest \in Seq(Events)
      /\ \A i \in DOMAIN rest : i + 1 \in DOMAIN b /\ rest[i] = b[i + 1]
  BY <1>2, HeadIsFirst
<1>4. BatchOK(b, TRUE)
  BY <1>1 DEF IInv, BatchesOK, TypeOK
<1>5. h \in outbox /\ WasSent(h)
  BY <1>3, <1>4 DEF BatchOK
<1>6. BatchOK(rest, FALSE)'
  <2>1. ASSUME NEW i \in DOMAIN rest, NEW e \in Events, Earlier(e, rest[i])
        PROVE  e \in published' \/ \E j \in 1 .. i - 1 : rest[j] = e
    <3>1. i \in 1 .. Len(rest) /\ i + 1 \in DOMAIN b /\ Earlier(e, b[i + 1])
      BY <1>3, <2>1
    <3>2. e \in published \/ \E j \in 1 .. (i + 1) - 1 : b[j] = e
      BY <1>4, <3>1 DEF BatchOK
    <3>3. ASSUME NEW j \in 1 .. (i + 1) - 1, b[j] = e
          PROVE  e \in published' \/ \E k \in 1 .. i - 1 : rest[k] = e
      <4>1. CASE j = 1
        BY <1>1, <1>3, <3>3, <4>1
      <4>2. CASE j # 1
        <5>1. j - 1 \in DOMAIN rest /\ j - 1 \in 1 .. i - 1 /\ (j - 1) + 1 = j
          <6>1. rest \in Seq(Events)
            BY <1>3
          <6>2. Len(rest) \in Nat /\ DOMAIN rest = 1 .. Len(rest)
            BY <6>1, LenProperties
          <6>3. i \in 1 .. Len(rest)
            BY <3>1
          <6>4. j \in 2 .. i
            BY <4>2, <6>2, <6>3
          <6> QED
            BY <6>2, <6>3, <6>4
        <5>2. rest[j - 1] = e
          BY <1>3, <3>3, <5>1
        <5> QED
          BY <5>1, <5>2
      <4> QED
        BY <4>1, <4>2
    <3> QED
      BY <1>1, <3>2, <3>3
  <2>2. \A i \in DOMAIN rest : rest[i] \in outbox'
    BY <1>1, <1>3, <1>4 DEF BatchOK
  <2> QED
    BY <1>1, <2>1, <2>2 DEF BatchOK, Earlier
<1>7. \A e \in Events : WasSent(e) => WasSent(e)'
  BY <1>1 DEF WasSent
<1>8. /\ relay' \in [Relays -> [batch : Seq(Events), headSent : BOOLEAN]]
      /\ \A q \in Relays : relay'[q].headSent => relay'[q].batch # <<>>
      /\ BatchesOK'
  BY <1>1, <1>3, <1>6, <1>7, OneBatch
<1>9. TypeOK'
  BY <1>1, <1>5, <1>8 DEF IInv, TypeOK
<1>10. NothingLost'
  BY <1>1, <1>5 DEF IInv, NothingLost, WasSent
<1> QED
  BY <1>1, <1>8, <1>9, <1>10 DEF IInv, SentOK, OutboxOK, FirstCopiesInOrder

LEMMA StutterStep == ASSUME IInv, UNCHANGED vars PROVE IInv'
  BY DEF vars, IInv, TypeOK, SentOK, OutboxOK, BatchesOK, BatchOK, NothingLost,
         FirstCopiesInOrder, WasSent, Earlier

LEMMA NextStep == ASSUME IInv, [Next]_vars PROVE IInv'
<1>1. ASSUME NEW r \in Relays, RelayStep(r) PROVE IInv'
  BY <1>1, PollStep, SendStep, SendFailsStep, MarkStep, BatchLostStep DEF RelayStep
<1> QED
  BY <1>1, CommitStep, StutterStep DEF Next

----------------------------------------------------------------------------
(* The theorems.                                                           *)

\* IInv holds in every reachable state, for any number of relays.
THEOREM Invariance == Spec => []IInv
<1>1. IInv /\ [Next]_vars => IInv'
  BY NextStep
<1> QED
  BY InitIInv, <1>1, PTL DEF Spec

\* The outbox, the batches and the broker's log are well typed.
THEOREM TypeCorrect == Spec => []TypeOK
<1>1. IInv => TypeOK
  BY DEF IInv
<1> QED
  BY Invariance, <1>1, PTL

\* An event is never marked published before the broker has it.
THEOREM NeverLost == Spec => []NothingLost
<1>1. IInv => NothingLost
  BY DEF IInv
<1> QED
  BY Invariance, <1>1, PTL

\* The first copies of a live's events reach the broker in their order,
\* wherever the clocks that stamped them tell it.
THEOREM CopiesOrdered == Spec => []FirstCopiesInOrder
<1>1. IInv => FirstCopiesInOrder
  BY DEF IInv
<1> QED
  BY Invariance, <1>1, PTL
============================================================================
