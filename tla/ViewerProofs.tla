---------------------------- MODULE ViewerProofs ----------------------------
(***************************************************************************)
(* Proofs about Viewer, for any number of lives, clicks, requests under    *)
(* way, messages and faults.  The inductive invariant IInv says why the    *)
(* list has no gap although sockets overlap: behind each message shown,    *)
(* every later one is shown too, on its way or lost, and the next one to   *)
(* be said is on its way.  And no click ever leaves app.js more than one socket.        *)
(***************************************************************************)
EXTENDS Viewer, FiniteSetTheorems, SequenceTheorems, WellFoundedInduction, TLAPS

Ordered(q) == \A i, j \in DOMAIN q : i < j => q[i].sequence < q[j].sequence

\* The page shows messages that were said in the live selected.
PageOK ==
    /\ page.selected \in page.lives \cup {NoLive}
    /\ page.playback \in {page.selected, NoLive}
    /\ \A i \in DOMAIN page.messages :
          /\ page.messages[i].live = page.selected
          /\ page.messages[i].sequence =< said[page.selected]
    /\ Ordered(page.messages)

\* A socket has no message that was not said.
SocketsOK ==
    /\ sockets \in [DOMAIN sockets -> Socket]
    /\ \A s \in DOMAIN sockets :
          sockets[s].open => sockets[s].next =< said[sockets[s].live] + 1

\* Each click opens one request, and each of these at most one socket.
Playbacks == {i \in DOMAIN requests : requests[i].live # NoLive}
InUse     == (DOMAIN sockets \cup {socket}) \ {0}
SocketsCounted == Cardinality(InUse) + Cardinality(Playbacks) =< selections

Shown(n) == \E i \in DOMAIN page.messages : page.messages[i].sequence = n

Lost(l, n) == [live |-> l, sequence |-> n] \in lost

\* What was lost had its number.
LostOK == \A m \in lost : m.sequence =< said[m.live]

\* Behind a message shown no other is missing, but those on their way or lost.
NoGap ==
    page.selected \notin torn =>
       \A i \in DOMAIN page.messages :
          \A n \in page.messages[i].sequence + 1 .. said[page.selected] + 1 :
             Shown(n) \/ OnItsWay(page.selected, n) \/ Lost(page.selected, n)

IInv == /\ TypeOK
        /\ PageOK
        /\ SocketsOK
        /\ SocketsCounted
        /\ LostOK
        /\ NoGap

-----------------------------------------------------------------------------
(* Sorting a message into the list.                                        *)

LEMMA Least ==
    ASSUME NEW S, S \subseteq Nat, S # {}
    PROVE  \E m \in S : \A n \in S : m =< n
<1> DEFINE R == OpToRel(<, Nat)
<1>1. PICK m \in S : \A n \in S : <<n, m>> \notin R
  <2>1. IsWellFoundedOn(R, Nat)
    BY NatLessThanWellFounded
  <2> HIDE DEF R
  <2> QED
    BY <2>1, WFMin
<1>2. \A n \in S : ~(n < m)
  BY <1>1 DEF OpToRel
<1> QED
  BY <1>2

LEMMA SequenceIsNat ==
    ASSUME NEW m \in Message
    PROVE  m.live \in Lives /\ m.sequence \in 1 .. MaxMessages /\ m.sequence \in Nat
  BY ViewerBounds DEF Message

LEMMA Elements ==
    ASSUME NEW q \in Seq(Message)
    PROVE  /\ Len(q) \in Nat /\ DOMAIN q = 1 .. Len(q)
           /\ \A i \in 1 .. Len(q) : /\ q[i] \in Message
                                     /\ q[i].live \in Lives
                                     /\ q[i].sequence \in Nat \ {0}
<1>1. Len(q) \in Nat /\ DOMAIN q = 1 .. Len(q)
  BY LenProperties
<1>2. \A i \in 1 .. Len(q) : q[i] \in Message
  BY ElementOfSeq
<1>3. MaxMessages \in Nat
  BY ViewerBounds
<1> QED
  BY <1>1, <1>2, <1>3 DEF Message

\* Where a message belongs in a list that is in order.
LEMMA Place ==
    ASSUME NEW q \in Seq(Message), Ordered(q), NEW m \in Message
    PROVE  \E k \in 0 .. Len(q) :
              /\ \A i \in 1 .. k : q[i].sequence =< m.sequence
              /\ \A i \in k + 1 .. Len(q) : q[i].sequence > m.sequence
<1> DEFINE L == Len(q)
           S == {i \in 1 .. L + 1 : i = L + 1 \/ q[i].sequence > m.sequence}
<1>1. /\ L \in Nat /\ DOMAIN q = 1 .. L /\ m.sequence \in Nat
      /\ \A i \in 1 .. L : q[i].sequence \in Nat
  BY Elements, SequenceIsNat
<1> HIDE DEF L
<1>2. S \subseteq Nat /\ L + 1 \in S
  BY <1>1
<1>3. PICK n \in S : \A i \in S : n =< i
  BY <1>2, Least
<1>4. n \in 1 .. L + 1 /\ n - 1 \in 0 .. L
  BY <1>1, <1>3
<1>5. ASSUME NEW i \in 1 .. n - 1
      PROVE  q[i].sequence =< m.sequence
  <2>1. i \in 1 .. L /\ i < n
    BY <1>1, <1>4
  <2>2. i \notin S
    BY <1>1, <1>3, <1>4, <2>1
  <2>3. ~(q[i].sequence > m.sequence)
    BY <1>1, <2>1, <2>2
  <2> QED
    BY <1>1, <2>1, <2>3
<1>6. ASSUME NEW i \in n - 1 + 1 .. L
      PROVE  q[i].sequence > m.sequence
  <2>1. i \in 1 .. L /\ n \in 1 .. L /\ n =< i
    BY <1>1, <1>4
  <2>2. q[n].sequence > m.sequence
    BY <1>1, <1>3, <2>1
  <2>3. i = n \/ q[n].sequence < q[i].sequence
    BY <1>1, <2>1 DEF Ordered
  <2> QED
    BY <1>1, <2>1, <2>2, <2>3
<1> QED
  BY <1>4, <1>5, <1>6 DEF L

\* The list with one more message can be put in order, and is.
LEMMA SortInserts ==
    ASSUME NEW q \in Seq(Message), Ordered(q), NEW m \in Message,
           \A i \in DOMAIN q : q[i].sequence # m.sequence
    PROVE  /\ Sorted(Append(q, m)) \in Seq(Message)
           /\ Len(Sorted(Append(q, m))) = Len(q) + 1
           /\ Ordered(Sorted(Append(q, m)))
           /\ Range(Sorted(Append(q, m))) = Range(q) \cup {m}
<1> DEFINE L == Len(q)
           D == 1 .. L + 1
           a == Append(q, m)
           Sorts(p) == \A i, j \in D : i < j =>
                          \/ a[p[i]].sequence < a[p[j]].sequence
                          \/ a[p[i]].sequence = a[p[j]].sequence /\ p[i] < p[j]
<1>1. /\ L \in Nat /\ DOMAIN q = 1 .. L /\ m.sequence \in Nat
      /\ \A i \in 1 .. L : q[i] \in Message /\ q[i].sequence \in Nat
  BY Elements, SequenceIsNat
<1>2. /\ a \in Seq(Message) /\ DOMAIN a = D /\ a[L + 1] = m
      /\ \A i \in 1 .. L : a[i] = q[i]
  BY AppendProperties, LenProperties
<1> HIDE DEF a, L
<1>3. \A i \in D : a[i] \in Message /\ a[i].sequence \in Nat
  BY <1>1, <1>2
<1>4. \A i, j \in D : i # j => a[i].sequence # a[j].sequence
  <2> SUFFICES ASSUME NEW i \in D, NEW j \in D, i < j
               PROVE  a[i].sequence # a[j].sequence
    BY <1>1
  <2>1. i \in 1 .. L /\ a[i] = q[i]
    BY <1>1, <1>2
  <2>2. CASE j = L + 1
    BY <1>1, <1>2, <2>1, <2>2
  <2>3. CASE j # L + 1
    <3>1. j \in 1 .. L /\ a[j] = q[j]
      BY <1>1, <1>2, <2>3
    <3> QED
      BY <1>1, <2>1, <3>1 DEF Ordered
  <2> QED
    BY <2>2, <2>3
<1>5. \E p \in Bijection(D, D) : Sorts(p)
  <2>1. PICK k \in 0 .. L : /\ \A i \in 1 .. k : q[i].sequence =< m.sequence
                            /\ \A i \in k + 1 .. L : q[i].sequence > m.sequence
    BY Place DEF L
  <2> DEFINE p == [i \in D |-> IF i =< k THEN i ELSE IF i = k + 1 THEN L + 1 ELSE i - 1]
  <2>2. p \in [D -> D]
    BY <1>1
  <2>3. \A i, j \in D : p[i] = p[j] => i = j
    BY <1>1
  <2>4. ASSUME NEW t \in D PROVE \E i \in D : p[i] = t
    <3>1. CASE t =< k
      BY <1>1, <3>1
    <3>2. CASE t = L + 1
      <4>1. k + 1 \in D /\ p[k + 1] = L + 1
        BY <1>1
      <4> QED
        BY <3>2, <4>1
    <3>3. CASE t > k /\ t # L + 1
      <4>1. t + 1 \in D /\ p[t + 1] = t
        BY <1>1, <3>3
      <4> QED
        BY <4>1
    <3> QED
      BY <1>1, <3>1, <3>2, <3>3
  <2>5. p \in Bijection(D, D)
    BY <2>2, <2>3, <2>4 DEF Bijection, Injection, Surjection, IsInjective
  <2>6. ASSUME NEW i \in D, NEW j \in D, i < j
        PROVE  a[p[i]].sequence < a[p[j]].sequence
    <3>1. CASE j =< k
      <4>1. i \in 1 .. L /\ j \in 1 .. L /\ p[i] = i /\ p[j] = j
        BY <1>1, <2>6, <3>1
      <4> QED
        BY <1>1, <1>2, <2>6, <4>1 DEF Ordered
    <3>2. CASE j = k + 1
      <4>1. i \in 1 .. k /\ i \in 1 .. L /\ p[i] = i /\ p[j] = L + 1
        BY <1>1, <2>6, <3>2
      <4>2. q[i].sequence =< m.sequence /\ q[i].sequence # m.sequence
        BY <1>1, <2>1, <4>1
      <4>3. a[i] = q[i] /\ a[L + 1] = m /\ q[i].sequence \in Nat
        BY <1>1, <1>2, <4>1
      <4> QED
        BY <1>1, <4>1, <4>2, <4>3
    <3>3. CASE j > k + 1 /\ i = k + 1
      <4>1. j - 1 \in k + 1 .. L /\ j - 1 \in 1 .. L /\ p[i] = L + 1 /\ p[j] = j - 1
        BY <1>1, <3>3
      <4> QED
        BY <1>1, <1>2, <2>1, <4>1
    <3>4. CASE j > k + 1 /\ i =< k
      <4>1. i \in 1 .. L /\ j - 1 \in 1 .. L /\ i < j - 1 /\ p[i] = i /\ p[j] = j - 1
        BY <1>1, <3>4
      <4> QED
        BY <1>1, <1>2, <4>1 DEF Ordered
    <3>5. CASE j > k + 1 /\ i > k + 1
      <4>1. i - 1 \in 1 .. L /\ j - 1 \in 1 .. L /\ i - 1 < j - 1
        BY <1>1, <2>6, <3>5
      <4>2. p[i] = i - 1 /\ p[j] = j - 1
        BY <1>1, <3>5
      <4> QED
        BY <1>1, <1>2, <4>1, <4>2 DEF Ordered
    <3> QED
      BY <1>1, <3>1, <3>2, <3>3, <3>4, <3>5
  <2> HIDE DEF p
  <2> QED
    BY <2>5, <2>6
<1> DEFINE P == CHOOSE p \in Bijection(D, D) : Sorts(p)
           r == Sorted(a)
<1>6. P \in Bijection(D, D) /\ Sorts(P)
  BY <1>5
<1>7. r = [i \in D |-> a[P[i]]]
  BY <1>2 DEF Sorted
<1> HIDE DEF P, r
<1>8. /\ P \in [D -> D]
      /\ \A t \in D : \E i \in D : P[i] = t
  BY <1>6 DEF Bijection, Injection, Surjection
<1>9. r \in Seq(Message) /\ Len(r) = L + 1 /\ DOMAIN r = D
  <2>1. ASSUME NEW i \in D PROVE a[P[i]] \in Message
    BY <1>3, <1>8
  <2>2. r \in [1 .. L + 1 -> Message] /\ L + 1 \in Nat
    BY <1>1, <1>7, <2>1
  <2>3. r \in Seq(Message)
    BY <2>2
  <2> QED
    BY <2>2, <2>3, LenProperties
<1>10. Ordered(r)
  <2> SUFFICES ASSUME NEW i \in D, NEW j \in D, i < j
               PROVE  r[i].sequence < r[j].sequence
    BY <1>9 DEF Ordered
  <2>1. P[i] \in D /\ P[j] \in D /\ r[i] = a[P[i]] /\ r[j] = a[P[j]]
    BY <1>7, <1>8
  <2>2. \/ a[P[i]].sequence < a[P[j]].sequence
        \/ a[P[i]].sequence = a[P[j]].sequence /\ P[i] < P[j]
    BY <1>6
  <2>3. P[i] < P[j] => a[P[i]].sequence # a[P[j]].sequence
    BY <1>1, <1>4, <2>1
  <2> QED
    BY <2>1, <2>2, <2>3
<1>11. Range(r) = Range(q) \cup {m}
  <2>1. ASSUME NEW i \in D PROVE r[i] \in Range(q) \cup {m}
    <3>1. P[i] \in D /\ r[i] = a[P[i]]
      BY <1>7, <1>8
    <3>2. P[i] = L + 1 \/ P[i] \in 1 .. L
      BY <1>1, <3>1
    <3> QED
      BY <1>1, <1>2, <3>1, <3>2 DEF Range
  <2>2. ASSUME NEW t \in D PROVE a[t] \in Range(r)
    <3>1. PICK i \in D : P[i] = t
      BY <1>8
    <3> QED
      BY <1>7, <1>9, <3>1 DEF Range
  <2>3. m \in Range(r)
    BY <1>1, <1>2, <2>2
  <2>4. ASSUME NEW i \in 1 .. L PROVE q[i] \in Range(r)
    BY <1>1, <1>2, <2>2
  <2> QED
    BY <1>1, <1>9, <2>1, <2>3, <2>4 DEF Range
<1> QED
  BY <1>9, <1>10, <1>11 DEF a, r, L

LEMMA Bounds ==
    /\ Keep \in Nat /\ Keep >= 1
    /\ MaxRequests \in Nat /\ MaxRequests >= 1
    /\ MaxSelections \in Nat /\ MaxSelections >= 1
    /\ MaxMessages \in Nat /\ MaxFaults \in Nat
    /\ NoLive \notin Lives
BY ViewerBounds

\* The newest of the list keep their order, and what is cut off is older than
\* all that stays.
LEMMA NewestStay ==
    ASSUME NEW q \in Seq(Message), Ordered(q), NEW m \in Message,
           \A i \in DOMAIN q : q[i].sequence # m.sequence
    PROVE  LET r == Newest(Append(q, m))
           IN  /\ r \in Seq(Message) /\ Len(r) =< Keep /\ Ordered(r)
               /\ Range(r) \subseteq Range(q) \cup {m}
               /\ \A x \in Range(q) \cup {m}, y \in Range(r) :
                     x.sequence >= y.sequence => x \in Range(r)
<1> DEFINE s == Sorted(Append(q, m))
           r == Newest(Append(q, m))
           L == Len(s)
<1>1. s \in Seq(Message) /\ Ordered(s) /\ Range(s) = Range(q) \cup {m}
  BY SortInserts
<1>2. r = IF L =< Keep THEN s ELSE SubSeq(s, L - Keep + 1, L)
  BY DEF Newest
<1> HIDE DEF s, r
<1>3. L \in Nat /\ DOMAIN s = 1 .. L /\ \A i \in 1 .. L : s[i] \in Message
  BY <1>1, LenProperties, ElementOfSeq
<1> HIDE DEF L
<1>4. CASE L =< Keep
  BY <1>1, <1>2, <1>3, <1>4 DEF r, L
<1>5. CASE ~(L =< Keep)
  <2> DEFINE k == L - Keep
  <2>1. k \in Nat /\ k + 1 \in 1 .. L /\ L - (k + 1) + 1 = Keep
    BY <1>3, <1>5, Bounds
  <2>2. /\ r \in Seq(Message) /\ Len(r) = Keep
        /\ \A i \in 1 .. Keep : r[i] = s[k + 1 + i - 1]
    <3>1. \A i \in k + 1 .. L : s[i] \in Message
      BY <1>3, <2>1
    <3> QED
      BY <1>1, <1>2, <1>5, <2>1, <3>1, SubSeqProperties, Bounds DEF L
  <2>3. /\ DOMAIN r = 1 .. Keep
        /\ \A i \in 1 .. Keep : k + i \in 1 .. L /\ r[i] = s[k + i]
    <3>1. \A i \in 1 .. Keep : k + 1 + i - 1 = k + i /\ k + i \in 1 .. L
      BY <1>3, <2>1, Bounds
    <3> QED
      BY <2>2, <3>1, LenProperties
  <2> HIDE DEF k
  <2>4. Ordered(r)
    <3> SUFFICES ASSUME NEW i \in 1 .. Keep, NEW j \in 1 .. Keep, i < j
                 PROVE  r[i].sequence < r[j].sequence
      BY <2>3 DEF Ordered
    <3>1. k + i \in 1 .. L /\ k + j \in 1 .. L /\ k + i < k + j
      BY <1>3, <2>1, <2>3, Bounds DEF k
    <3>2. s[k + i].sequence < s[k + j].sequence
      BY <1>1, <1>3, <3>1 DEF Ordered
    <3> QED
      BY <2>3, <3>2
  <2>5. Range(r) \subseteq Range(s)
    BY <1>3, <2>3 DEF Range
  <2>6. ASSUME NEW x \in Range(s), NEW y \in Range(r), x.sequence >= y.sequence
        PROVE  x \in Range(r)
    <3>1. PICK i \in 1 .. L : x = s[i]
      BY <1>3 DEF Range
    <3>2. PICK j \in 1 .. Keep : y = r[j]
      BY <2>3 DEF Range
    <3>3. k + j \in 1 .. L /\ y = s[k + j]
      BY <2>3, <3>2
    <3>4. ~(i < k + j)
      <4>1. x.sequence \in Nat /\ y.sequence \in Nat
        BY <1>3, <3>1, <3>3, SequenceIsNat
      <4>2. i < k + j => x.sequence < y.sequence
        BY <1>1, <1>3, <3>1, <3>3 DEF Ordered
      <4> QED
        BY <2>6, <4>1, <4>2
    <3>5. i - k \in 1 .. Keep /\ k + (i - k) = i
      BY <1>3, <2>1, <3>4, Bounds DEF k
    <3>6. r[i - k] = s[i]
      BY <2>3, <3>5
    <3> QED
      BY <2>3, <3>1, <3>5, <3>6 DEF Range
  <2>7. Len(r) =< Keep
    BY <2>2, Bounds
  <2> QED
    BY <1>1, <2>2, <2>4, <2>5, <2>6, <2>7 DEF r
<1> QED
  BY <1>4, <1>5

-----------------------------------------------------------------------------
(* Requests under way, and the sockets they lead to.                       *)

LEMMA Finite ==
    ASSUME TypeOK
    PROVE  /\ IsFiniteSet(Playbacks) /\ IsFiniteSet(InUse)
           /\ Cardinality(Playbacks) \in Nat /\ Cardinality(InUse) \in Nat
           /\ Len(requests) \in Nat /\ DOMAIN requests = 1 .. Len(requests)
           /\ \A i \in DOMAIN requests : requests[i] \in Request
<1>1. requests \in Seq(Request)
  BY DEF TypeOK
<1>2. /\ Len(requests) \in Nat /\ DOMAIN requests = 1 .. Len(requests)
      /\ \A i \in DOMAIN requests : requests[i] \in Request
  BY <1>1, LenProperties, ElementOfSeq
<1>3. IsFiniteSet(Playbacks)
  <2>1. IsFiniteSet(1 .. Len(requests)) /\ Playbacks \subseteq 1 .. Len(requests)
    BY <1>2, FS_Interval DEF Playbacks
  <2> QED
    BY <2>1, FS_Subset
<1>4. IsFiniteSet(InUse)
  <2>1. InUse \subseteq 1 .. MaxSelections + 1
    BY Bounds DEF InUse, TypeOK
  <2>2. IsFiniteSet(1 .. MaxSelections + 1)
    BY Bounds, FS_Interval
  <2> QED
    BY <2>1, <2>2, FS_Subset
<1> QED
  BY <1>2, <1>3, <1>4, FS_CardinalityType

LEMMA Asked ==
    ASSUME TypeOK, NEW l \in Maybe, NEW silent \in BOOLEAN, Asks(l, silent),
           Len(requests) < MaxRequests
    PROVE  /\ requests' \in Seq(Request) /\ Len(requests') =< MaxRequests
           /\ Cardinality(Playbacks') =
                 Cardinality(Playbacks) + (IF l = NoLive THEN 0 ELSE 1)
<1> DEFINE r == [live |-> l, silent |-> silent, answer |-> {"pending"}]
           L == Len(requests)
<1>1. r \in Request
  BY DEF Request
<1>2. requests' = Append(requests, r) /\ requests \in Seq(Request)
  BY DEF Asks, TypeOK
<1>3. r.live = l
  OBVIOUS
<1> HIDE DEF r
<1>4. L \in Nat /\ DOMAIN requests = 1 .. L
  BY Finite
<1>5. /\ requests' \in Seq(Request) /\ Len(requests') = L + 1
      /\ DOMAIN requests' = 1 .. L + 1
      /\ \A i \in 1 .. L : requests'[i] = requests[i]
      /\ requests'[L + 1] = r
  BY <1>1, <1>2, AppendProperties, LenProperties
<1>6. CASE l = NoLive
  <2>1. Playbacks' = Playbacks
    BY <1>3, <1>4, <1>5, <1>6 DEF Playbacks
  <2> QED
    BY <1>4, <1>5, <1>6, <2>1, Finite, Bounds
<1>7. CASE l # NoLive
  <2>1. Playbacks' = Playbacks \cup {L + 1} /\ L + 1 \notin Playbacks
    BY <1>3, <1>4, <1>5, <1>7 DEF Playbacks
  <2>2. Cardinality(Playbacks') = Cardinality(Playbacks) + 1
    BY <2>1, Finite, FS_AddElement
  <2> QED
    BY <1>4, <1>5, <1>7, <2>2, Bounds
<1> QED
  BY <1>6, <1>7

\* RemoveAt takes one request out and moves the later ones up.
LEMMA Removed ==
    ASSUME NEW S, NEW s \in Seq(S), NEW i \in 1 .. Len(s)
    PROVE  /\ RemoveAt(s, i) \in Seq(S)
           /\ Len(RemoveAt(s, i)) = Len(s) - 1
           /\ \A j \in 1 .. Len(s) - 1 :
                 RemoveAt(s, i)[j] = s[IF j < i THEN j ELSE j + 1]
<1> DEFINE a == SubSeq(s, 1, i - 1)
           b == SubSeq(s, i + 1, Len(s))
           r == RemoveAt(s, i)
<1>1. /\ a \in Seq(S) /\ Len(a) = i - 1
      /\ \A j \in 1 .. i - 1 : a[j] = s[j]
  <2>1. \A j \in 1 .. i - 1 : s[j] \in S
    BY ElementOfSeq
  <2> QED
    BY <2>1, SubSeqProperties
<1>2. /\ b \in Seq(S) /\ Len(b) = Len(s) - i
      /\ \A j \in 1 .. Len(s) - i : b[j] = s[i + j]
  <2>1. \A j \in i + 1 .. Len(s) : s[j] \in S
    BY ElementOfSeq
  <2> QED
    BY <2>1, SubSeqProperties
<1>3. r = a \o b
  BY DEF RemoveAt
<1> HIDE DEF a, b, r
<1>4. /\ r \in Seq(S) /\ Len(r) = Len(s) - 1
      /\ \A j \in 1 .. Len(s) - 1 :
            r[j] = IF j =< i - 1 THEN a[j] ELSE b[j - (i - 1)]
  <2>1. /\ r \in Seq(S) /\ Len(r) = Len(a) + Len(b)
        /\ \A j \in 1 .. Len(a) + Len(b) :
              r[j] = IF j =< Len(a) THEN a[j] ELSE b[j - Len(a)]
    BY <1>1, <1>2, <1>3, ConcatProperties
  <2>2. Len(a) + Len(b) = Len(s) - 1
    BY <1>1, <1>2
  <2> QED
    BY <1>1, <2>1, <2>2
<1>5. ASSUME NEW j \in 1 .. Len(s) - 1
      PROVE  r[j] = s[IF j < i THEN j ELSE j + 1]
  <2>1. CASE j < i
    BY <1>1, <1>4, <2>1
  <2>2. CASE ~(j < i)
    <3> DEFINE n == j - (i - 1)
    <3>1. n \in 1 .. Len(s) - i /\ i + n = j + 1 /\ ~(j =< i - 1)
      BY <2>2
    <3>2. r[j] = b[n] /\ b[n] = s[i + n]
      BY <1>2, <1>4, <3>1
    <3> QED
      BY <2>2, <3>1, <3>2
  <2> QED
    BY <2>1, <2>2
<1> QED
  BY <1>4, <1>5 DEF r

LEMMA Answered ==
    ASSUME TypeOK, NEW i \in DOMAIN requests, requests' = RemoveAt(requests, i)
    PROVE  /\ requests' \in Seq(Request) /\ Len(requests') =< MaxRequests
           /\ Cardinality(Playbacks') \in Nat
           /\ Cardinality(Playbacks') =<
                 Cardinality(Playbacks) - (IF requests[i].live = NoLive THEN 0 ELSE 1)
<1> DEFINE L == Len(requests)
           shift == [j \in Playbacks' |-> IF j < i THEN j ELSE j + 1]
           rest == Playbacks \ {i}
<1>1. /\ L \in Nat /\ i \in 1 .. L /\ requests \in Seq(Request)
      /\ DOMAIN requests = 1 .. L /\ L =< MaxRequests
  BY Finite DEF TypeOK
<1>2. /\ requests' \in Seq(Request) /\ Len(requests') = L - 1
      /\ \A j \in 1 .. L - 1 : requests'[j] = requests[IF j < i THEN j ELSE j + 1]
  BY <1>1, Removed
<1>3. DOMAIN requests' = 1 .. L - 1
  BY <1>2, LenProperties
<1>4. \A j \in Playbacks' :
         /\ j \in 1 .. L - 1
         /\ (IF j < i THEN j ELSE j + 1) \in rest
  <2> SUFFICES ASSUME NEW j \in 1 .. L - 1, requests'[j].live # NoLive
               PROVE  (IF j < i THEN j ELSE j + 1) \in rest
    BY <1>3 DEF Playbacks
  <2>1. (IF j < i THEN j ELSE j + 1) \in 1 .. L /\ (IF j < i THEN j ELSE j + 1) # i
    BY <1>1
  <2>2. requests[IF j < i THEN j ELSE j + 1].live # NoLive
    BY <1>2
  <2> QED
    BY <1>1, <2>1, <2>2 DEF Playbacks
<1>5. shift \in Injection(Playbacks', rest)
  <2>1. shift \in [Playbacks' -> rest]
    BY <1>4
  <2>2. \A j, k \in Playbacks' : shift[j] = shift[k] => j = k
    BY <1>1, <1>4
  <2> QED
    BY <2>1, <2>2 DEF Injection, IsInjective
<1>6. /\ IsFiniteSet(rest)
      /\ Cardinality(rest) =
            Cardinality(Playbacks) - (IF requests[i].live = NoLive THEN 0 ELSE 1)
  <2>1. i \in Playbacks <=> requests[i].live # NoLive
    BY DEF Playbacks
  <2>2. /\ IsFiniteSet(rest)
        /\ Cardinality(rest) = IF i \in Playbacks THEN Cardinality(Playbacks) - 1
                               ELSE Cardinality(Playbacks)
    <3>1. IsFiniteSet(Playbacks)
      BY Finite
    <3> QED
      BY <3>1, FS_RemoveElement
  <2>3. Cardinality(Playbacks) \in Nat
    BY Finite
  <2> HIDE DEF rest
  <2> QED
    BY <2>1, <2>2, <2>3
<1> HIDE DEF shift, rest
<1>7. IsFiniteSet(Playbacks') /\ Cardinality(Playbacks') =< Cardinality(rest)
  BY <1>5, <1>6, FS_Injection
<1>8. Cardinality(Playbacks') \in Nat
  BY <1>7, FS_CardinalityType
<1> QED
  BY <1>1, <1>2, <1>6, <1>7, <1>8, Bounds

-----------------------------------------------------------------------------
(* The invariant, action by action.                                        *)

LEMMA PageFields ==
    ASSUME TypeOK
    PROVE  /\ page \in Page
           /\ page.lives \in SUBSET Lives
           /\ page.selected \in Maybe /\ page.playback \in Maybe
           /\ page.messages \in Seq(Message)
           /\ Len(page.messages) \in Nat
           /\ DOMAIN page.messages = 1 .. Len(page.messages)
           /\ \A i \in DOMAIN page.messages :
                 /\ page.messages[i] \in Message
                 /\ page.messages[i].live \in Lives
                 /\ page.messages[i].sequence \in Nat
           /\ \A l \in Lives : said[l] \in Nat /\ said[l] =< MaxMessages
<1>1. page \in Page /\ page.messages \in Seq(Message)
  BY DEF TypeOK, Page
<1>2. \A l \in Lives : said[l] \in Nat /\ said[l] =< MaxMessages
  BY Bounds DEF TypeOK
<1> QED
  BY <1>1, <1>2, Elements DEF Page

LEMMA InitInv == Init => IInv
<1> SUFFICES ASSUME Init PROVE IInv
  OBVIOUS
<1>1. <<>> \in Seq(Message) /\ Len(<<>>) = 0 /\ DOMAIN <<>> = {}
  OBVIOUS
<1>2. sockets \in [DOMAIN sockets -> Socket] /\ DOMAIN sockets = {}
  <2>1. <<>> \in [1 .. Len(<<>>) -> Socket]
    BY EmptySeq, LenProperties
  <2> QED
    BY <1>1, <2>1 DEF Init
<1>3. /\ requests \in Seq(Request) /\ Len(requests) = 1
      /\ DOMAIN requests = {1} /\ requests[1].live = NoLive
  <2> DEFINE r == [live |-> NoLive, silent |-> FALSE, answer |-> {"pending"}]
  <2>1. r \in Request /\ r.live = NoLive
    BY DEF Request, Maybe
  <2> HIDE DEF r
  <2> QED
    BY <2>1 DEF Init, r
<1>4. /\ page \in Page /\ page.messages = <<>>
      /\ page.selected = NoLive /\ page.playback = NoLive
  BY <1>1 DEF Init, Page, Maybe
<1>5. TypeOK
  BY <1>1, <1>2, <1>3, <1>4, Bounds DEF Init, TypeOK, Maybe, Range
<1>6. PageOK /\ NoGap /\ LostOK
  BY <1>1, <1>4 DEF Init, PageOK, NoGap, LostOK, Ordered
<1>7. SocketsOK
  BY <1>2 DEF SocketsOK
<1>8. SocketsCounted
  <2>1. Playbacks = {} /\ InUse = {}
    BY <1>2, <1>3 DEF Init, Playbacks, InUse
  <2> QED
    BY <2>1, FS_EmptySet DEF SocketsCounted, Init
<1> QED
  BY <1>5, <1>6, <1>7, <1>8 DEF IInv

\* Whoever leaves page and sockets alone, leaves what is said of them alone.
LEMMA PageKept ==
    ASSUME IInv, UNCHANGED <<said, lost, page, wires>>
    PROVE  PageOK' /\ SocketsOK' /\ LostOK' /\ NoGap' /\ InUse' = InUse
BY DEF IInv, PageOK, SocketsOK, LostOK, NoGap, InUse, wires, Shown, OnItsWay, Lost, Ordered

LEMMA PollStep ==
    ASSUME IInv, Poll
    PROVE  IInv'
<1>1. /\ UNCHANGED <<world, page, wires, selections, faults>>
      /\ Len(requests) < MaxRequests /\ Asks(NoLive, TRUE)
  BY DEF Poll
<1>2. TypeOK /\ NoLive \in Maybe /\ TRUE \in BOOLEAN
  BY DEF IInv, Maybe
<1>3. /\ requests' \in Seq(Request) /\ Len(requests') =< MaxRequests
      /\ Cardinality(Playbacks') = Cardinality(Playbacks) + 0
  BY <1>1, <1>2, Asked
<1>4. TypeOK'
  BY <1>1, <1>2, <1>3 DEF TypeOK, world, wires
<1>5. PageOK' /\ SocketsOK' /\ LostOK' /\ NoGap' /\ InUse' = InUse
  BY <1>1, PageKept DEF world
<1>6. SocketsCounted'
  BY <1>1, <1>2, <1>3, <1>5, Finite DEF IInv, SocketsCounted
<1> QED
  BY <1>4, <1>5, <1>6 DEF IInv

LEMMA ServeStep ==
    ASSUME IInv, Serve
    PROVE  IInv'
<1>1. UNCHANGED <<world, page, wires, selections>>
  BY DEF Serve
<1>2. TypeOK /\ requests \in Seq(Request)
  BY DEF IInv, TypeOK
<1>3. PICK i \in DOMAIN requests, a \in {{"pending"}, {"failed"}} \cup SUBSET Lives :
          requests' = [requests EXCEPT ![i].answer = a]
  <2>1. PICK i \in DOMAIN requests :
            /\ requests[i].answer = {"pending"}
            /\ \/ requests' = [requests EXCEPT ![i].answer =
                     IF @ # {"pending"} THEN @
                     ELSE IF requests[i].live = NoLive THEN OnAir
                     ELSE OnAir \cap {requests[i].live}]
               \/ requests' = [requests EXCEPT ![i].answer = {"failed"}]
    BY DEF Serve
  <2>2. OnAir \in SUBSET Lives
    BY DEF OnAir
  <2> QED
    BY <2>1, <2>2
<1>4. requests[i] \in Request /\ i \in 1 .. Len(requests)
  BY <1>2, Finite
<1>5. /\ [requests[i] EXCEPT !.answer = a] \in Request
      /\ [requests[i] EXCEPT !.answer = a].live = requests[i].live
  BY <1>4 DEF Request
<1>6. requests' = [requests EXCEPT ![i] = [requests[i] EXCEPT !.answer = a]]
  BY <1>3
<1>7. /\ requests' \in Seq(Request) /\ Len(requests') = Len(requests)
      /\ DOMAIN requests' = DOMAIN requests
      /\ \A j \in DOMAIN requests : requests'[j].live = requests[j].live
  <2> DEFINE r == [requests[i] EXCEPT !.answer = a]
  <2>1. r \in Request /\ r.live = requests[i].live
    BY <1>5
  <2>2. requests' = [requests EXCEPT ![i] = r]
    BY <1>6
  <2> HIDE DEF r
  <2>3. requests' \in Seq(Request) /\ Len(requests') = Len(requests)
    BY <1>2, <1>4, <2>1, <2>2, ExceptSeq
  <2> QED
    BY <1>2, <1>4, <2>1, <2>2, <2>3, LenProperties
<1>8. Playbacks' = Playbacks
  BY <1>7 DEF Playbacks
<1>9. faults' \in 0 .. MaxFaults
  BY <1>2, Bounds DEF Serve, TypeOK
<1>10. TypeOK'
  BY <1>1, <1>2, <1>7, <1>9 DEF TypeOK, world, wires
<1>11. PageOK' /\ SocketsOK' /\ LostOK' /\ NoGap' /\ InUse' = InUse
  BY <1>1, PageKept DEF world
<1> QED
  BY <1>1, <1>8, <1>10, <1>11 DEF IInv, SocketsCounted

\* A page without messages has nothing out of place.
LEMMA EmptyList ==
    ASSUME page'.messages = <<>>, page'.selected \in page'.lives \cup {NoLive},
           page'.playback \in {page'.selected, NoLive}
    PROVE  PageOK' /\ NoGap'
<1>1. DOMAIN page'.messages = {}
  OBVIOUS
<1> QED
  BY <1>1 DEF PageOK, NoGap, Ordered

LEMMA SelectStep ==
    ASSUME IInv, NEW l \in Lives, SelectLive(l)
    PROVE  IInv'
<1>1. /\ Listed(l) /\ Len(requests) < MaxRequests /\ Asks(l, FALSE)
      /\ selections < MaxSelections /\ selections' = selections + 1
      /\ ClosePlayback /\ page' = Selected(l)
      /\ UNCHANGED <<world, faults>>
  BY DEF SelectLive
<1>2. TypeOK /\ l \in Maybe /\ FALSE \in BOOLEAN /\ l # NoLive
  BY Bounds DEF IInv, Maybe
<1>3. /\ requests' \in Seq(Request) /\ Len(requests') =< MaxRequests
      /\ Cardinality(Playbacks') = Cardinality(Playbacks) + 1
  BY <1>1, <1>2, Asked
<1>4. /\ video' = NoLive /\ socket' = 0 /\ torn' = torn
      /\ sockets' = [s \in DOMAIN sockets \ {socket} |-> sockets[s]]
  BY <1>1 DEF ClosePlayback
<1>5. /\ DOMAIN sockets' = DOMAIN sockets \ {socket}
      /\ \A s \in DOMAIN sockets' : sockets'[s] = sockets[s]
      /\ sockets' \in [DOMAIN sockets' -> Socket]
      /\ Range(sockets') \subseteq Socket
  BY <1>4 DEF IInv, SocketsOK, Range
<1>6. /\ page' \in Page /\ page'.messages = <<>> /\ page'.selected = l
      /\ page'.playback = NoLive /\ page'.lives = page.lives
  <2>1. <<>> \in Seq(Message)
    OBVIOUS
  <2> QED
    BY <1>1, <1>2, <2>1, PageFields DEF Selected, Page, Maybe
<1>7. TypeOK'
  <2>1. Len(page'.messages) =< Keep
    BY <1>6, Bounds
  <2>2. selections' \in 0 .. MaxSelections
    BY <1>1, <1>2, Bounds DEF TypeOK
  <2>3. socket' \in 0 .. MaxSelections + 1 /\ video' \in Maybe
    BY <1>4, Bounds DEF Maybe
  <2>4. DOMAIN sockets' \subseteq 1 .. MaxSelections + 1
    BY <1>2, <1>5 DEF TypeOK
  <2> QED
    BY <1>1, <1>2, <1>3, <1>4, <1>5, <1>6, <2>1, <2>2, <2>3, <2>4 DEF TypeOK, world
<1>8. PageOK' /\ NoGap'
  BY <1>1, <1>6, EmptyList DEF Listed
<1>9. SocketsOK' /\ LostOK'
  BY <1>1, <1>5 DEF IInv, SocketsOK, LostOK, world
<1>10. SocketsCounted'
  <2>1. InUse' \subseteq InUse
    BY <1>4, <1>5 DEF InUse
  <2>2. Cardinality(InUse') =< Cardinality(InUse) /\ Cardinality(InUse') \in Nat
    BY <1>2, <2>1, Finite, FS_Subset, FS_CardinalityType
  <2>3. selections \in Nat
    BY <1>2, Bounds DEF TypeOK
  <2> QED
    BY <1>1, <1>2, <1>3, <2>2, <2>3, Finite DEF IInv, SocketsCounted
<1> QED
  BY <1>7, <1>8, <1>9, <1>10 DEF IInv

\* An answer to the timer, or the answer to a click, changes the page thus.
LEMMA LoadedPage ==
    ASSUME IInv, NEW found \in SUBSET Lives, page' = Loaded(found),
           UNCHANGED <<said, lost, wires>>
    PROVE  page' \in Page /\ Len(page'.messages) =< Keep /\ PageOK' /\ NoGap'
<1>1. TypeOK /\ Len(page.messages) =< Keep
  BY DEF IInv, TypeOK
<1>2. CASE page.selected \notin found
  <2>1. /\ page' \in Page /\ page'.messages = <<>>
        /\ page'.selected = NoLive /\ page'.playback = NoLive
    <3>1. <<>> \in Seq(Message)
      OBVIOUS
    <3> QED
      BY <1>1, <1>2, <3>1, PageFields DEF Loaded, Page, Maybe
  <2>2. PageOK' /\ NoGap'
    BY <2>1, EmptyList
  <2> QED
    BY <2>1, <2>2, Bounds
<1>3. CASE page.selected \in found
  <2>1. /\ page' \in Page /\ page'.messages = page.messages
        /\ page'.selected = page.selected /\ page'.playback = page.playback
        /\ page'.lives = found
    BY <1>1, <1>3, PageFields DEF Loaded, Page, Maybe
  <2>2. PageOK' /\ NoGap'
    BY <1>3, <2>1 DEF IInv, PageOK, NoGap, Ordered, Shown, OnItsWay, Lost, wires
  <2> QED
    BY <1>1, <2>1, <2>2
<1> QED
  BY <1>2, <1>3

LEMMA OtherPage ==
    ASSUME IInv, UNCHANGED <<said, lost>>, torn' = torn,
           \/ page' = page \/ page' = Failed
           \/ \E l \in Lives : page' = PlaybackLoaded(l),
           \A l \in Lives, n \in Int : OnItsWay(l, n) => OnItsWay(l, n)'
    PROVE  page' \in Page /\ Len(page'.messages) =< Keep /\ PageOK' /\ NoGap'
<1>1. TypeOK /\ Len(page.messages) =< Keep
  BY DEF IInv, TypeOK
<1>2. /\ page' \in Page /\ page'.messages = page.messages /\ page'.lives = page.lives
      /\ page'.selected = page.selected
      /\ page'.playback \in {page.playback, page.selected}
  BY <1>1, PageFields DEF Failed, PlaybackLoaded, Page, Maybe
<1>3. PageOK'
  BY <1>2 DEF IInv, PageOK, Ordered
<1>4. NoGap'
  <2> SUFFICES ASSUME page.selected \notin torn, NEW l, l = page.selected,
                      NEW i \in DOMAIN page.messages,
                      NEW n \in page.messages[i].sequence + 1 .. said[l] + 1
               PROVE  Shown(n) \/ OnItsWay(l, n)' \/ Lost(l, n)
    BY <1>2 DEF NoGap, Shown, OnItsWay, Lost
  <2>1. Shown(n) \/ OnItsWay(l, n) \/ Lost(l, n)
    BY DEF IInv, NoGap
  <2>2. l \in Lives /\ n \in Int
    BY <1>1, PageFields DEF IInv, PageOK
  <2> QED
    BY <2>1, <2>2
<1> QED
  BY <1>1, <1>2, <1>3, <1>4

\* A new socket gets a number of its own, and no more of them are used than
\* viewers clicked.
LEMMA AttachStep ==
    ASSUME IInv, NEW l \in Lives, Attach(l), UNCHANGED said,
           Cardinality(InUse) + 1 =< MaxSelections
    PROVE  /\ socket' \in 1 .. MaxSelections + 1 /\ video' \in Maybe
           /\ DOMAIN sockets' \subseteq 1 .. MaxSelections + 1
           /\ Range(sockets') \subseteq Socket
           /\ SocketsOK'
           /\ Cardinality(InUse') =< Cardinality(InUse) + 1
           /\ Cardinality(InUse') \in Nat
           /\ \A k \in Lives, n \in Int : OnItsWay(k, n) => OnItsWay(k, n)'
<1> DEFINE Free == {n \in 1 .. MaxSelections + 1 : n \notin DOMAIN sockets \cup {socket}}
           s == CHOOSE n \in 1 .. MaxSelections + 1 : n \notin DOMAIN sockets \cup {socket}
           new == [live |-> l, open |-> FALSE, next |-> 1]
<1>1. TypeOK
  BY DEF IInv
<1>2. IsFiniteSet(InUse) /\ Cardinality(InUse) \in Nat
  BY <1>1, Finite
<1>3. \E n \in 1 .. MaxSelections + 1 : n \notin DOMAIN sockets \cup {socket}
  <2> SUFFICES ASSUME \A n \in 1 .. MaxSelections + 1 : n \in DOMAIN sockets \cup {socket}
               PROVE  FALSE
    OBVIOUS
  <2>1. 1 .. MaxSelections + 1 \subseteq InUse
    BY Bounds DEF InUse
  <2>2. Cardinality(1 .. MaxSelections + 1) = MaxSelections + 1
    BY Bounds, FS_Interval
  <2>3. Cardinality(1 .. MaxSelections + 1) =< Cardinality(InUse)
    BY <1>2, <2>1, FS_Subset
  <2> QED
    BY <1>2, <2>2, <2>3, Bounds
<1>4. s \in 1 .. MaxSelections + 1 /\ s \notin DOMAIN sockets
  BY <1>3
<1>5. /\ video' = l /\ socket' = s /\ torn' = torn
      /\ sockets' = [n \in DOMAIN sockets \cup {s} |-> IF n = s THEN new ELSE sockets[n]]
  BY DEF Attach
<1>6. new \in Socket /\ ~new.open
  BY Bounds DEF Socket
<1> HIDE DEF s, new
<1>7. /\ DOMAIN sockets' = DOMAIN sockets \cup {s} /\ sockets'[s] = new
      /\ \A n \in DOMAIN sockets : sockets'[n] = sockets[n]
  BY <1>4, <1>5
<1>8. /\ sockets' \in [DOMAIN sockets' -> Socket]
      /\ Range(sockets') \subseteq Socket
  <2>1. \A n \in DOMAIN sockets : sockets[n] \in Socket
    BY DEF IInv, SocketsOK
  <2> QED
    BY <1>5, <1>6, <1>7, <2>1 DEF Range
<1>9. SocketsOK'
  BY <1>6, <1>7, <1>8 DEF IInv, SocketsOK
<1>10. InUse' \subseteq InUse \cup {s}
  BY <1>5, <1>7 DEF InUse
<1>11. /\ Cardinality(InUse') =< Cardinality(InUse) + 1
       /\ Cardinality(InUse') \in Nat
  <2>1. /\ IsFiniteSet(InUse \cup {s})
        /\ Cardinality(InUse \cup {s}) \in {Cardinality(InUse), Cardinality(InUse) + 1}
    BY <1>2, FS_AddElement
  <2>2. /\ IsFiniteSet(InUse')
        /\ Cardinality(InUse') =< Cardinality(InUse \cup {s})
    BY <1>10, <2>1, FS_Subset
  <2>3. Cardinality(InUse') \in Nat
    BY <2>2, FS_CardinalityType
  <2> QED
    BY <1>2, <2>1, <2>2, <2>3
<1>12. \A k \in Lives, n \in Int : OnItsWay(k, n) => OnItsWay(k, n)'
  BY <1>7 DEF OnItsWay
<1> QED
  BY <1>1, <1>4, <1>5, <1>7, <1>8, <1>9, <1>11, <1>12, Bounds DEF TypeOK, Maybe

LEMMA ArriveStep ==
    ASSUME IInv, Arrive
    PROVE  IInv'
<1>1. PICK i \in DOMAIN requests :
          /\ requests[i].answer # {"pending"}
          /\ CatalogArrives(requests[i]) \/ PlaybackArrives(requests[i])
          /\ requests' = RemoveAt(requests, i)
  BY DEF Arrive
<1>2. UNCHANGED <<world, selections, faults>>
  BY DEF Arrive
<1>3. TypeOK /\ selections \in Nat /\ selections =< MaxSelections
  BY Bounds DEF IInv, TypeOK
<1>4. requests[i] \in Request
  BY <1>3, Finite
<1>5. /\ requests' \in Seq(Request) /\ Len(requests') =< MaxRequests
      /\ Cardinality(Playbacks') \in Nat
      /\ Cardinality(Playbacks') =<
            Cardinality(Playbacks) - (IF requests[i].live = NoLive THEN 0 ELSE 1)
  BY <1>1, <1>3, Answered
<1>6. /\ Cardinality(Playbacks) \in Nat /\ Cardinality(InUse) \in Nat
      /\ Cardinality(InUse) + Cardinality(Playbacks) =< selections
  BY <1>3, Finite DEF IInv, SocketsCounted
<1>7. CASE UNCHANGED wires
  <2>1. page' \in Page /\ Len(page'.messages) =< Keep /\ PageOK' /\ NoGap'
    <3>1. CASE \E found \in SUBSET Lives : page' = Loaded(found)
      BY <1>2, <1>7, <3>1, LoadedPage DEF world
    <3>2. CASE page' \in {page, Failed}
      <4>1. \A l \in Lives, n \in Int : OnItsWay(l, n) => OnItsWay(l, n)'
        BY <1>7 DEF OnItsWay, wires
      <4> QED
        BY <1>2, <1>7, <3>2, <4>1, OtherPage DEF world, wires
    <3>3. CASE PlaybackArrives(requests[i]) /\ ~Errs(requests[i])
      <4>1. requests[i].live \in Lives /\ page' = PlaybackLoaded(requests[i].live)
        BY <1>4, <3>3 DEF PlaybackArrives, Request, Maybe
      <4>2. \A l \in Lives, n \in Int : OnItsWay(l, n) => OnItsWay(l, n)'
        BY <1>7 DEF OnItsWay, wires
      <4> QED
        BY <1>2, <1>7, <4>1, <4>2, OtherPage DEF world, wires
    <3> QED
      BY <1>1, <1>4, <3>1, <3>2, <3>3
         DEF CatalogArrives, PlaybackArrives, Errs, Request
  <2>2. SocketsOK' /\ LostOK' /\ InUse' = InUse
    BY <1>2, <1>7 DEF IInv, SocketsOK, LostOK, InUse, wires, world
  <2>3. TypeOK'
    BY <1>2, <1>3, <1>5, <1>7, <2>1 DEF TypeOK, wires, world
  <2>4. SocketsCounted'
    BY <1>2, <1>3, <1>5, <1>6, <2>2 DEF SocketsCounted
  <2> QED
    BY <2>1, <2>2, <2>3, <2>4 DEF IInv
<1>8. CASE /\ requests[i].live # NoLive
           /\ page' = PlaybackLoaded(requests[i].live) /\ Attach(requests[i].live)
  <2> DEFINE l == requests[i].live
  <2>1. l \in Lives
    BY <1>4, <1>8 DEF Request, Maybe
  <2>2. Cardinality(InUse) + 1 =< MaxSelections
    BY <1>3, <1>5, <1>6, <1>8, Bounds
  <2>3. UNCHANGED <<said, lost>> /\ Attach(l) /\ page' = PlaybackLoaded(l)
    BY <1>2, <1>8 DEF world
  <2> HIDE DEF l
  <2>4. /\ socket' \in 1 .. MaxSelections + 1 /\ video' \in Maybe
        /\ DOMAIN sockets' \subseteq 1 .. MaxSelections + 1
        /\ Range(sockets') \subseteq Socket
        /\ SocketsOK'
        /\ Cardinality(InUse') =< Cardinality(InUse) + 1
        /\ Cardinality(InUse') \in Nat
        /\ \A k \in Lives, n \in Int : OnItsWay(k, n) => OnItsWay(k, n)'
    BY <2>1, <2>2, <2>3, AttachStep
  <2>5. torn' = torn
    BY <2>3 DEF Attach
  <2>6. page' \in Page /\ Len(page'.messages) =< Keep /\ PageOK' /\ NoGap'
    BY <2>1, <2>3, <2>4, <2>5, OtherPage
  <2>7. TypeOK'
    BY <1>2, <1>3, <1>5, <2>4, <2>5, <2>6, Bounds DEF TypeOK, world
  <2>8. SocketsCounted' /\ LostOK'
    BY <1>2, <1>3, <1>5, <1>6, <1>8, <2>4 DEF IInv, SocketsCounted, LostOK, world
  <2> QED
    BY <2>4, <2>6, <2>7, <2>8 DEF IInv
<1> QED
  BY <1>1, <1>7, <1>8 DEF CatalogArrives, PlaybackArrives

LEMMA OpenStep ==
    ASSUME IInv, NEW s \in DOMAIN sockets, Open(s)
    PROVE  IInv'
<1>1. /\ UNCHANGED <<world, page, video, socket, requests, torn, selections, faults>>
      /\ ~sockets[s].open
      /\ sockets' = [sockets EXCEPT ![s].open = TRUE,
                                    ![s].next = said[sockets[s].live] + 1]
  BY DEF Open
<1>2. TypeOK /\ sockets \in [DOMAIN sockets -> Socket]
  BY DEF IInv, SocketsOK
<1>3. /\ sockets[s].live \in Lives
      /\ said[sockets[s].live] + 1 \in 1 .. MaxMessages + 1
  <2>1. sockets[s].live \in Lives
    BY <1>2 DEF Socket
  <2> QED
    BY <1>2, <2>1, PageFields, Bounds
<1>4. /\ DOMAIN sockets' = DOMAIN sockets /\ sockets' \in [DOMAIN sockets' -> Socket]
      /\ \A t \in DOMAIN sockets : t # s => sockets'[t] = sockets[t]
      /\ sockets'[s].live = sockets[s].live /\ sockets'[s].open
      /\ sockets'[s].next = said[sockets[s].live] + 1
  BY <1>1, <1>2, <1>3 DEF Socket
<1>5. Range(sockets') \subseteq Socket
  BY <1>4 DEF Range
<1>6. TypeOK'
  BY <1>1, <1>2, <1>4, <1>5 DEF TypeOK, world
<1>7. SocketsOK'
  <2>1. \A t \in DOMAIN sockets' :
           sockets'[t].open => sockets'[t].next =< said[sockets'[t].live] + 1
    BY <1>3, <1>4 DEF IInv, SocketsOK
  <2> QED
    BY <1>1, <1>4, <2>1 DEF SocketsOK, world
<1>8. PageOK' /\ NoGap' /\ LostOK'
  <2>1. \A l \in Lives, n \in Int : OnItsWay(l, n) => OnItsWay(l, n)'
    BY <1>1, <1>4 DEF OnItsWay
  <2> QED
    BY <1>1, <2>1, OtherPage DEF IInv, LostOK, world
<1>9. InUse' = InUse /\ Playbacks' = Playbacks
  BY <1>1, <1>4 DEF InUse, Playbacks
<1> QED
  BY <1>1, <1>6, <1>7, <1>8, <1>9 DEF IInv, SocketsCounted

LEMMA DroppedStep ==
    ASSUME IInv, NEW s \in DOMAIN sockets, Dropped(s)
    PROVE  IInv'
<1>1. /\ UNCHANGED <<world, page, video, socket, requests, selections>>
      /\ faults < MaxFaults /\ faults' = faults + 1
      /\ sockets' = [n \in DOMAIN sockets \ {s} |-> sockets[n]]
      /\ torn' = IF sockets[s].open THEN torn \cup {sockets[s].live} ELSE torn
  BY DEF Dropped
<1>2. TypeOK /\ sockets \in [DOMAIN sockets -> Socket]
  BY DEF IInv, SocketsOK
<1>3. /\ DOMAIN sockets' = DOMAIN sockets \ {s}
      /\ sockets' \in [DOMAIN sockets' -> Socket]
      /\ \A t \in DOMAIN sockets' : sockets'[t] = sockets[t]
  BY <1>1, <1>2
<1>4. Range(sockets') \subseteq Socket
  BY <1>3 DEF Range
<1>5. torn' \subseteq Lives /\ faults' \in 0 .. MaxFaults
  <2>1. sockets[s].live \in Lives
    BY <1>2 DEF Socket
  <2> QED
    BY <1>1, <1>2, <2>1, Bounds DEF TypeOK
<1>6. TypeOK'
  BY <1>1, <1>2, <1>3, <1>4, <1>5 DEF TypeOK, world
<1>7. PageOK' /\ SocketsOK' /\ LostOK'
  BY <1>1, <1>3 DEF IInv, PageOK, SocketsOK, LostOK, Ordered, world
<1>8. NoGap'
  <2> SUFFICES ASSUME page.selected \notin torn', NEW l, l = page.selected,
                      NEW i \in DOMAIN page.messages,
                      NEW n \in page.messages[i].sequence + 1 .. said[l] + 1,
                      ~Shown(n), ~Lost(l, n)
               PROVE  OnItsWay(l, n)'
    BY <1>1 DEF NoGap, Shown, OnItsWay, Lost, world
  <2>1. page.selected \notin torn
    BY <1>1
  <2>2. PICK t \in DOMAIN sockets :
            sockets[t].open /\ sockets[t].live = l /\ sockets[t].next =< n
    BY <2>1 DEF IInv, NoGap, OnItsWay
  <2>3. t # s
    BY <1>1, <2>2
  <2> QED
    BY <1>3, <2>2, <2>3 DEF OnItsWay
<1>9. SocketsCounted'
  <2>1. InUse' \subseteq InUse /\ Playbacks' = Playbacks
    BY <1>1, <1>3 DEF InUse, Playbacks
  <2>2. Cardinality(InUse') =< Cardinality(InUse) /\ Cardinality(InUse') \in Nat
    BY <1>2, <2>1, Finite, FS_Subset, FS_CardinalityType
  <2>3. selections \in Nat
    BY <1>2, Bounds DEF TypeOK
  <2> QED
    BY <1>1, <1>2, <2>1, <2>2, <2>3, Finite DEF IInv, SocketsCounted
<1> QED
  BY <1>6, <1>7, <1>8, <1>9 DEF IInv

\* A message for the live selected is sorted in, unless it is there already.
LEMMA ReceiveStep ==
    ASSUME IInv, NEW s \in DOMAIN sockets, Receive(s)
    PROVE  IInv'
<1> DEFINE l == sockets[s].live
           k == sockets[s].next
           m == [live |-> l, sequence |-> k]
           q == page.messages
<1>1. /\ UNCHANGED <<world, video, socket, requests, torn, selections, faults>>
      /\ sockets[s].open /\ k =< said[l]
      /\ sockets' = [sockets EXCEPT ![s].next = @ + 1]
      /\ page' = IF m \in lost THEN page ELSE ChatMessage(m)
  BY DEF Receive
<1>2. TypeOK /\ sockets \in [DOMAIN sockets -> Socket] /\ sockets[s] \in Socket
  BY DEF IInv, SocketsOK
<1>3. l \in Lives /\ k \in Nat /\ k >= 1 /\ k =< MaxMessages /\ said[l] \in Nat
  <2>1. l \in Lives /\ k \in 1 .. MaxMessages + 1
    BY <1>2 DEF Socket
  <2>2. said[l] \in Nat /\ said[l] =< MaxMessages
    BY <1>2, <2>1, PageFields
  <2> QED
    BY <1>1, <2>1, <2>2, Bounds
<1>4. m \in Message /\ m.live = l /\ m.sequence = k
  BY <1>3, Bounds DEF Message
<1>5. /\ DOMAIN sockets' = DOMAIN sockets
      /\ sockets' \in [DOMAIN sockets' -> Socket]
      /\ \A t \in DOMAIN sockets : t # s => sockets'[t] = sockets[t]
      /\ sockets'[s].open /\ sockets'[s].live = l /\ sockets'[s].next = k + 1
  BY <1>1, <1>2, <1>3, Bounds DEF Socket
<1>6. Range(sockets') \subseteq Socket
  BY <1>5 DEF Range
<1>7. SocketsOK' /\ LostOK'
  BY <1>1, <1>3, <1>5 DEF IInv, SocketsOK, LostOK, world
<1>8. \A h \in Lives, n \in Int :
         OnItsWay(h, n) => (h = l /\ n = k) \/ OnItsWay(h, n)'
  <2> SUFFICES ASSUME NEW h \in Lives, NEW n \in Int, NEW t \in DOMAIN sockets,
                      sockets[t].open, sockets[t].live = h, sockets[t].next =< n,
                      ~(h = l /\ n = k)
               PROVE  OnItsWay(h, n)'
    BY DEF OnItsWay
  <2>1. CASE t # s
    BY <1>5, <2>1 DEF OnItsWay
  <2>2. CASE t = s
    <3>1. k + 1 =< n
      BY <1>3, <2>2
    <3> QED
      BY <1>5, <2>2, <3>1 DEF OnItsWay
  <2> QED
    BY <2>1, <2>2
<1>9. q \in Seq(Message) /\ Ordered(q) /\ Len(q) =< Keep
  BY <1>2, PageFields DEF IInv, PageOK, TypeOK
<1>10. \A x \in Range(q) : /\ x \in Message /\ x.live = page.selected
                           /\ x.sequence \in Nat /\ x.sequence =< said[page.selected]
  BY <1>2, PageFields DEF IInv, PageOK, Range
<1>11. /\ page' \in Page /\ Len(page'.messages) =< Keep
       /\ PageOK' /\ NoGap'
  <2> HIDE DEF m, q
  <2>1. CASE l # page.selected \/ m \in Range(q) \/ m \in lost
    <3>1. page' = page
      BY <1>1, <1>4, <2>1 DEF ChatMessage, q
    <3>2. PageOK'
      BY <1>1, <3>1 DEF IInv, PageOK, Ordered, world
    <3>3. NoGap'
      <4> SUFFICES ASSUME page.selected \notin torn, NEW h, h = page.selected,
                          NEW i \in DOMAIN page.messages,
                          NEW n \in page.messages[i].sequence + 1 .. said[h] + 1,
                          ~Shown(n), ~Lost(h, n)
                   PROVE  OnItsWay(h, n)'
        BY <1>1, <3>1 DEF NoGap, Shown, OnItsWay, Lost, world
      <4>1. OnItsWay(h, n)
        BY DEF IInv, NoGap
      <4>2. h \in Lives /\ n \in Int
        BY <1>2, PageFields DEF IInv, PageOK
      <4>3. ~(h = l /\ n = k)
        BY <1>4, <2>1 DEF Shown, Lost, Range, m, q
      <4> QED
        BY <1>8, <4>1, <4>2, <4>3
    <3> QED
      BY <1>2, <3>1, <3>2, <3>3 DEF TypeOK
  <2>2. CASE l = page.selected /\ m \notin Range(q) /\ m \notin lost
    <3> DEFINE r == Newest(Append(q, m))
    <3>1. \A x \in Range(q) : x.sequence # m.sequence
      <4> SUFFICES ASSUME NEW x \in Range(q), x.sequence = m.sequence
                   PROVE  x = m
        BY <2>2
      <4> QED
        BY <1>4, <1>10, <2>2 DEF Message
    <3>2. \A i \in DOMAIN q : q[i].sequence # m.sequence
      BY <3>1 DEF Range
    <3>3. /\ r \in Seq(Message) /\ Len(r) =< Keep /\ Ordered(r)
          /\ Range(r) \subseteq Range(q) \cup {m}
          /\ \A x \in Range(q) \cup {m}, y \in Range(r) :
                x.sequence >= y.sequence => x \in Range(r)
      BY <1>4, <1>9, <3>2, NewestStay
    <3>4. page' = [page EXCEPT !.messages = r]
      BY <1>1, <1>4, <2>2 DEF ChatMessage, q
    <3> HIDE DEF r
    <3>5. /\ page' \in Page /\ page'.messages = r /\ page'.lives = page.lives
          /\ page'.selected = page.selected /\ page'.playback = page.playback
      BY <1>2, <3>3, <3>4, PageFields DEF Page
    <3>6. PageOK'
      <4>1. \A i \in DOMAIN r : /\ r[i].live = page.selected
                                /\ r[i].sequence =< said[page.selected]
        BY <1>1, <1>3, <1>4, <1>10, <2>2, <3>3 DEF Range
      <4> QED
        BY <1>1, <3>3, <3>5, <4>1 DEF IInv, PageOK, Ordered, world
    <3>7. NoGap'
      <4> SUFFICES ASSUME page.selected \notin torn, NEW h, h = l,
                          NEW y \in Range(r),
                          NEW n \in y.sequence + 1 .. said[h] + 1
                   PROVE  \/ \E x \in Range(r) : x.sequence = n
                          \/ OnItsWay(h, n)' \/ Lost(h, n)
        <5> SUFFICES ASSUME page.selected \notin torn, NEW h, h = l,
                            NEW i \in DOMAIN r,
                            NEW n \in r[i].sequence + 1 .. said[h] + 1
                     PROVE  \/ \E j \in DOMAIN r : r[j].sequence = n
                            \/ OnItsWay(h, n)' \/ Lost(h, n)
          BY <1>1, <2>2, <3>5 DEF NoGap, Shown, OnItsWay, Lost, world
        <5> QED
          BY DEF Range
      <4>1. n \in Int /\ y.sequence \in Nat /\ n > y.sequence
        BY <1>3, <1>4, <1>10, <3>3
      <4>2. CASE y = m
        <5>1. k + 1 =< n
          BY <1>3, <1>4, <4>1, <4>2
        <5> QED
          BY <1>5, <5>1 DEF OnItsWay
      <4>3. CASE y \in Range(q)
        <5>1. (\E x \in Range(q) : x.sequence = n) \/ OnItsWay(h, n) \/ Lost(h, n)
          BY <2>2, <4>3 DEF IInv, NoGap, Shown, Range, q
        <5>2. CASE OnItsWay(h, n) /\ n # k
          <6>1. OnItsWay(h, n)'
            BY <1>3, <1>8, <4>1, <5>2
          <6> QED
            BY <6>1
        <5>3. CASE n = k
          <6>1. m.sequence >= y.sequence /\ m.sequence = n
            BY <1>3, <1>4, <4>1, <5>3
          <6> QED
            BY <3>3, <6>1
        <5>4. ASSUME NEW x \in Range(q), x.sequence = n
              PROVE  x \in Range(r)
          BY <3>3, <4>1, <5>4
        <5> QED
          BY <5>1, <5>2, <5>3, <5>4
      <4> QED
        BY <3>3, <4>2, <4>3
    <3> QED
      BY <3>3, <3>5, <3>6, <3>7
  <2> QED
    BY <2>1, <2>2
<1>12. TypeOK'
  BY <1>1, <1>2, <1>5, <1>6, <1>11 DEF TypeOK, world
<1>13. InUse' = InUse /\ Playbacks' = Playbacks
  BY <1>1, <1>5 DEF InUse, Playbacks
<1> QED
  BY <1>1, <1>7, <1>11, <1>12, <1>13 DEF IInv, SocketsCounted

\* The bound on all messages together is one on those of a live.
LEMMA RoomForOne ==
    ASSUME TypeOK, NEW l \in Lives,
           Cardinality({m \in Message : m.sequence =< said[m.live]}) < MaxMessages
    PROVE  said[l] + 1 \in 0 .. MaxMessages
<1> DEFINE T == {m \in Message : m.sequence =< said[m.live]}
           pair == [m \in Message |-> <<m.live, m.sequence>>]
           nth == [n \in 1 .. said[l] |-> [live |-> l, sequence |-> n]]
<1>1. said[l] \in Nat /\ said[l] =< MaxMessages
  BY PageFields
<1>2. IsFiniteSet(Message)
  <2>1. IsFiniteSet(Lives \X (1 .. MaxMessages))
    <3>1. IsFiniteSet(1 .. MaxMessages)
      BY Bounds, FS_Interval
    <3> QED
      BY <3>1, LivesAreFinite, FS_Product
  <2>2. pair \in [Message -> Lives \X (1 .. MaxMessages)]
    BY SequenceIsNat
  <2>3. \A m, n \in Message : pair[m] = pair[n] => m = n
    BY DEF Message
  <2>4. pair \in Injection(Message, Lives \X (1 .. MaxMessages))
    BY <2>2, <2>3 DEF Injection, IsInjective
  <2> HIDE DEF pair
  <2> QED
    BY <2>1, <2>4, FS_Injection
<1>3. IsFiniteSet(T) /\ Cardinality(T) \in Nat
  BY <1>2, FS_Subset, FS_CardinalityType
<1>4. nth \in Injection(1 .. said[l], T)
  <2>1. \A n \in 1 .. said[l] : [live |-> l, sequence |-> n] \in T
    BY <1>1, Bounds DEF Message
  <2>2. nth \in [1 .. said[l] -> T]
    BY <2>1
  <2>3. \A i, j \in 1 .. said[l] : nth[i] = nth[j] => i = j
    <3> SUFFICES ASSUME NEW i \in 1 .. said[l], NEW j \in 1 .. said[l], nth[i] = nth[j]
                 PROVE  i = j
      OBVIOUS
    <3>1. nth[i].sequence = i /\ nth[j].sequence = j
      OBVIOUS
    <3> QED
      BY <3>1
  <2> QED
    BY <2>2, <2>3 DEF Injection, IsInjective
<1> HIDE DEF T, nth
<1>5. Cardinality(1 .. said[l]) =< Cardinality(T)
  BY <1>3, <1>4, FS_Injection
<1>6. Cardinality(1 .. said[l]) = said[l]
  BY <1>1, FS_Interval
<1> QED
  BY <1>1, <1>3, <1>5, <1>6, Bounds DEF T

\* The next message of a live shown is on its way before it is said.
LEMMA SaysStep ==
    ASSUME IInv, NEW l \in Lives, Says(l)
    PROVE  IInv'
<1>1. /\ UNCHANGED <<stage, page, wires, requests, selections>>
      /\ said' = [said EXCEPT ![l] = @ + 1]
      /\ Cardinality({m \in Message : m.sequence =< said[m.live]}) < MaxMessages
      /\ \/ UNCHANGED <<lost, faults>>
         \/ /\ faults < MaxFaults /\ faults' = faults + 1
            /\ lost' = lost \cup {[live |-> l, sequence |-> said'[l]]}
  BY DEF Says
<1>2. TypeOK /\ said \in [Lives -> 0 .. MaxMessages]
  BY DEF IInv, TypeOK
<1>3. said' \in [Lives -> 0 .. MaxMessages]
  BY <1>1, <1>2, RoomForOne
<1>4. /\ lost \subseteq Message /\ lost' \subseteq Message
      /\ \A m \in lost' : m \in lost \/ m = [live |-> l, sequence |-> said'[l]]
      /\ lost \subseteq lost' /\ faults' \in 0 .. MaxFaults
  <2>1. said'[l] = said[l] + 1 /\ said'[l] \in 1 .. MaxMessages
    <3>1. said[l] \in Nat
      BY <1>2, PageFields
    <3>2. said'[l] = said[l] + 1 /\ said'[l] \in 0 .. MaxMessages
      BY <1>1, <1>2, <1>3
    <3> QED
      BY <3>1, <3>2, Bounds
  <2> HIDE <1>3
  <2> QED
    BY <1>1, <1>2, <2>1, Bounds DEF TypeOK, Message
<1>5. TypeOK'
  BY <1>1, <1>2, <1>3, <1>4 DEF TypeOK, wires
<1>6. \A h \in Lives : /\ said[h] \in Nat /\ said'[h] \in Nat /\ said[h] =< said'[h]
                       /\ said'[h] =< said[h] + 1
  BY <1>1, <1>2, <1>3, PageFields, Bounds
<1>7. PageOK'
  <2>1. \A i \in DOMAIN page.messages : /\ page.messages[i].live = page.selected
                                        /\ page.messages[i].sequence =< said'[page.selected]
    <3> SUFFICES ASSUME NEW i \in DOMAIN page.messages
                 PROVE  /\ page.messages[i].live = page.selected
                        /\ page.messages[i].sequence =< said'[page.selected]
      OBVIOUS
    <3>1. /\ page.messages[i].live = page.selected /\ page.selected \in Lives
          /\ page.messages[i].sequence \in Nat
          /\ page.messages[i].sequence =< said[page.selected]
      BY <1>2, PageFields DEF IInv, PageOK
    <3> QED
      BY <1>6, <3>1
  <2> QED
    BY <1>1, <2>1 DEF IInv, PageOK, Ordered
<1>8. SocketsOK'
  <2>1. \A s \in DOMAIN sockets :
           sockets[s].open => sockets[s].next =< said'[sockets[s].live] + 1
    <3> SUFFICES ASSUME NEW s \in DOMAIN sockets, sockets[s].open
                 PROVE  sockets[s].next =< said'[sockets[s].live] + 1
      OBVIOUS
    <3>1. /\ sockets[s].live \in Lives /\ sockets[s].next \in Nat
          /\ sockets[s].next =< said[sockets[s].live] + 1
      BY Bounds DEF IInv, SocketsOK, Socket
    <3> QED
      BY <1>6, <3>1
  <2> QED
    BY <1>1, <2>1 DEF IInv, SocketsOK, wires
<1>9. LostOK'
  <2> SUFFICES ASSUME NEW m \in lost' PROVE m.sequence =< said'[m.live]
    BY DEF LostOK
  <2>1. CASE m \in lost
    <3>1. m.live \in Lives /\ m.sequence \in Nat /\ m.sequence =< said[m.live]
      BY <1>4, <2>1, SequenceIsNat DEF IInv, LostOK
    <3> QED
      BY <1>6, <3>1
  <2>2. CASE m = [live |-> l, sequence |-> said'[l]]
    BY <1>6, <2>2
  <2> QED
    BY <1>4, <2>1, <2>2
<1>10. NoGap'
  <2> SUFFICES ASSUME page.selected \notin torn, NEW h, h = page.selected,
                      NEW i \in DOMAIN page.messages,
                      NEW n \in page.messages[i].sequence + 1 .. said'[h] + 1
               PROVE  Shown(n) \/ OnItsWay(h, n) \/ Lost(h, n)
    BY <1>1, <1>4 DEF NoGap, Shown, OnItsWay, Lost, wires
  <2>1. /\ h \in Lives /\ page.messages[i].sequence \in Nat
        /\ page.messages[i].sequence =< said[h]
    BY <1>2, PageFields DEF IInv, PageOK
  <2>2. \A k \in page.messages[i].sequence + 1 .. said[h] + 1 :
           Shown(k) \/ OnItsWay(h, k) \/ Lost(h, k)
    BY DEF IInv, NoGap
  <2>3. CASE n =< said[h] + 1
    BY <1>6, <2>1, <2>2, <2>3
  <2>4. CASE n > said[h] + 1
    <3>1. said[h] + 1 \in page.messages[i].sequence + 1 .. said[h] + 1
      BY <1>6, <2>1
    <3>2. ~Shown(said[h] + 1)
      <4> SUFFICES ASSUME NEW j \in DOMAIN page.messages,
                          page.messages[j].sequence = said[h] + 1
                   PROVE  FALSE
        BY DEF Shown
      <4>1. page.messages[j].sequence =< said[h]
        BY DEF IInv, PageOK
      <4> QED
        BY <1>6, <2>1, <4>1
    <3>3. ~Lost(h, said[h] + 1)
      BY <1>6, <2>1 DEF IInv, LostOK, Lost
    <3>4. PICK s \in DOMAIN sockets : /\ sockets[s].open /\ sockets[s].live = h
                                      /\ sockets[s].next =< said[h] + 1
      BY <2>2, <3>1, <3>2, <3>3 DEF OnItsWay
    <3>5. sockets[s].next \in Nat
      BY Bounds DEF IInv, SocketsOK, Socket
    <3>6. sockets[s].next =< n
      BY <1>6, <2>1, <2>4, <3>4, <3>5
    <3> QED
      BY <3>4, <3>6 DEF OnItsWay
  <2> QED
    BY <1>6, <2>1, <2>3, <2>4
<1>11. InUse' = InUse /\ Playbacks' = Playbacks
  BY <1>1 DEF InUse, Playbacks, wires
<1> QED
  BY <1>1, <1>5, <1>7, <1>8, <1>9, <1>10, <1>11 DEF IInv, SocketsCounted

LEMMA LiveMovesStep ==
    ASSUME IInv, NEW l \in Lives, LiveMoves(l)
    PROVE  IInv'
<1>1. /\ UNCHANGED <<said, lost, page, wires, requests, selections, faults>>
      /\ stage' = [stage EXCEPT ![l] = IF @ = "soon" THEN "live" ELSE "ended"]
  BY DEF LiveMoves
<1>2. TypeOK'
  BY <1>1 DEF IInv, TypeOK, wires
<1>3. PageOK' /\ SocketsOK' /\ LostOK' /\ NoGap' /\ InUse' = InUse
  BY <1>1, PageKept
<1>4. Playbacks' = Playbacks
  BY <1>1 DEF Playbacks
<1> QED
  BY <1>1, <1>2, <1>3, <1>4 DEF IInv, SocketsCounted

LEMMA Step == IInv /\ [Next]_vars => IInv'
<1> SUFFICES ASSUME IInv, [Next]_vars PROVE IInv'
  OBVIOUS
<1>1. CASE UNCHANGED vars
  <2>1. UNCHANGED <<stage, said, lost, page, video, socket, sockets, torn, requests,
                    selections, faults>>
    BY <1>1 DEF vars, world, wires
  <2>2. PageOK' /\ SocketsOK' /\ LostOK' /\ NoGap' /\ InUse' = InUse
    BY <2>1, PageKept DEF wires
  <2>3. TypeOK' /\ Playbacks' = Playbacks
    BY <2>1 DEF IInv, TypeOK, Playbacks
  <2> QED
    BY <2>1, <2>2, <2>3 DEF IInv, SocketsCounted
<1>2. CASE Poll \/ Serve \/ Arrive
  BY <1>2, PollStep, ServeStep, ArriveStep
<1>3. CASE \E l \in Lives : SelectLive(l) \/ Says(l) \/ LiveMoves(l)
  BY <1>3, SelectStep, SaysStep, LiveMovesStep
<1>4. CASE \E s \in DOMAIN sockets : Open(s) \/ Dropped(s) \/ Receive(s)
  BY <1>4, OpenStep, DroppedStep, ReceiveStep
<1> QED
  BY <1>1, <1>2, <1>3, <1>4 DEF Next

-----------------------------------------------------------------------------
(* The theorems.                                                           *)

\* The inductive invariant: page, sockets and requests of any number of clicks.
THEOREM Invariance == Spec => []IInv
<1>1. Init => IInv
  BY InitInv
<1>2. IInv /\ [Next]_vars => IInv'
  BY Step
<1> QED
  BY <1>1, <1>2, PTL DEF Spec

\* The page, its sockets and its requests keep their types: the list is never
\* longer than it may be, and a new socket is never one in use.
THEOREM TypeCorrect == Spec => []TypeOK
<1>1. IInv => TypeOK
  BY DEF IInv
<1> QED
  BY <1>1, Invariance, PTL

\* What the page shows is of the one live selected, in order, and whatever is
\* missing in between is on its way, or lost to everybody, or the chat dropped
\* a socket of this page, however many sockets deliver.
THEOREM ShownBelongsTogether == Spec => []ShownTogether
<1>1. ASSUME IInv PROVE ShownTogether
  <2> DEFINE q == page.messages
  <2>1. /\ Len(q) \in Nat /\ DOMAIN q = 1 .. Len(q)
        /\ \A i \in DOMAIN q : q[i].sequence \in Nat /\ q[i].live \in Lives
        /\ \A l \in Lives : said[l] \in Nat
    BY <1>1, PageFields DEF IInv
  <2>2. /\ page.selected \in page.lives \cup {NoLive}
        /\ page.playback \in {page.selected, NoLive}
        /\ \A m \in Range(q) : m.live = page.selected
    BY <1>1 DEF IInv, PageOK, Range
  <2>3. ASSUME NEW i \in 1 .. Len(q) - 1
        PROVE  /\ q[i].sequence < q[i + 1].sequence
               /\ page.selected \notin torn =>
                     \A n \in q[i].sequence + 1 .. q[i + 1].sequence - 1 :
                        OnItsWay(page.selected, n) \/ Lost(page.selected, n)
    <3>1. i \in DOMAIN q /\ i + 1 \in DOMAIN q /\ i < i + 1
      BY <2>1
    <3>2. q[i].sequence < q[i + 1].sequence
      BY <1>1, <3>1 DEF IInv, PageOK, Ordered
    <3>3. ASSUME page.selected \notin torn,
                 NEW n \in q[i].sequence + 1 .. q[i + 1].sequence - 1
          PROVE  OnItsWay(page.selected, n) \/ Lost(page.selected, n)
      <4>1. /\ q[i + 1].sequence =< said[page.selected]
            /\ page.selected \in Lives
        BY <1>1, <2>1, <3>1 DEF IInv, PageOK
      <4>2. n \in q[i].sequence + 1 .. said[page.selected] + 1
        BY <2>1, <3>1, <4>1
      <4>3. Shown(n) \/ OnItsWay(page.selected, n) \/ Lost(page.selected, n)
        BY <1>1, <3>1, <3>3, <4>2 DEF IInv, NoGap
      <4>4. ASSUME NEW j \in DOMAIN q, q[j].sequence = n
            PROVE  FALSE
        <5>1. j =< i \/ j >= i + 1
          BY <2>1, <3>1, <4>4
        <5>2. CASE j =< i
          <6>1. j = i \/ q[j].sequence < q[i].sequence
            BY <1>1, <2>1, <3>1, <5>2 DEF IInv, PageOK, Ordered
          <6> QED
            BY <2>1, <3>1, <4>4, <6>1
        <5>3. CASE j >= i + 1
          <6>1. j = i + 1 \/ q[i + 1].sequence < q[j].sequence
            BY <1>1, <2>1, <3>1, <5>3 DEF IInv, PageOK, Ordered
          <6> QED
            BY <2>1, <3>1, <4>4, <6>1
        <5> QED
          BY <5>1, <5>2, <5>3
      <4> QED
        BY <4>3, <4>4 DEF Shown
    <3> QED
      BY <3>2, <3>3
  <2> QED
    BY <2>2, <2>3 DEF ShownTogether, Lost
<1> QED
  BY <1>1, Invariance, PTL
=============================================================================
