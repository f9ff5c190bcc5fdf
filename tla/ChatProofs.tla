----------------------------- MODULE ChatProofs -----------------------------
(***************************************************************************)
(* Proofs about ConnectionHub and Chat, for every set of sockets, every    *)
(* limit of the hub and of the brokers and any number of messages.  The    *)
(* hub's invariant counts a handshake in flight among the sockets it will  *)
(* join; the broker's says that what it has forgotten is known, and that   *)
(* the numbers on their way to a viewer form one chain with the last one   *)
(* he heard and the next one there will be.                                *)
(***************************************************************************)
EXTENDS Chat, FiniteSetTheorems, SequenceTheorems, TLAPS

\* A handshake holds sets of its own keys, and nobody else holds any.
HoldsOK ==
    \A w \in Sockets :
        /\ handler[w].holds \subseteq KeysOf(w)
        /\ handler[w].holds # {} => At(w, "accepting")

Accepting  == {w \in Sockets : At(w, "accepting")}
Joining(k) == {w \in Accepting : k \in handler[w].holds}
Limit(k)   == IF k \in Lives THEN MaxPerLive ELSE MaxPerUser

\* Sockets and handshakes together stay within the limits by the peak.
Counted ==
    /\ Cardinality(Accepting) =< peak
    /\ Cardinality(owners \cup Accepting) =< MaxConnections - 1 + peak
    /\ \A k \in Keys : Cardinality(members[k] \cup Joining(k)) =< Limit(k) - 1 + peak

\* Nothing is sent to a socket before it is admitted.
Unheard ==
    \A w \in Sockets :
        ~At(w, "serving") /\ ~At(w, "over") => frames[w] = << >> /\ heard[w] = 0

HubInv == HubTypeOK /\ HoldsOK /\ NoGhosts /\ Counted /\ Unheard

----------------------------------------------------------------------------
(* Keys, counts and maxima.                                                *)

LEMMA KeyFacts ==
    /\ \A w \in Sockets : /\ LiveOf(w) \in Lives /\ Owner[w] \in Range(Owner)
                          /\ KeysOf(w) \subseteq Keys
                          /\ Limit(LiveOf(w)) = MaxPerLive
                          /\ Limit(Owner[w]) = MaxPerUser
                          /\ \A l \in Lives : l \in KeysOf(w) => l = LiveOf(w)
    /\ Lives \subseteq Keys
    /\ \A k \in Keys : Limit(k) \in Nat \ {0}
    /\ MaxConnections \in Nat \ {0}
<1>1. \A w \in Sockets : LiveOf(w) \in Lives /\ Owner[w] \in Range(Owner)
  BY OwnersAreKnown DEF Lives, Range
<1>2. \A w \in Sockets : Owner[w] \notin Lives
  BY <1>1, TablesAreApart
<1>3. \A w \in Sockets : KeysOf(w) \subseteq Keys
  BY <1>1 DEF KeysOf, Keys
<1>4. \A w \in Sockets, l \in Lives : l \in KeysOf(w) => l = LiveOf(w)
  BY <1>2 DEF KeysOf
<1>5. \A w \in Sockets : Limit(LiveOf(w)) = MaxPerLive /\ Limit(Owner[w]) = MaxPerUser
  BY <1>1, <1>2 DEF Limit
<1>6. /\ \A k \in Keys : Limit(k) \in Nat \ {0}
      /\ MaxConnections \in Nat \ {0}
  BY LimitsArePositive DEF Limit
<1>7. Lives \subseteq Keys
  BY DEF Keys
<1> QED
  BY <1>1, <1>3, <1>4, <1>5, <1>6, <1>7

LEMMA Counting ==
    ASSUME NEW T, T \subseteq Sockets, NEW S, S \subseteq T
    PROVE  /\ Cardinality(S) \in Nat /\ Cardinality(T) \in Nat
           /\ Cardinality(S) =< Cardinality(T)
           /\ Cardinality(T) =< Cardinality(Sockets) /\ Cardinality(Sockets) \in Nat
<1>1. IsFiniteSet(T) /\ Cardinality(T) =< Cardinality(Sockets)
  BY SocketsAreFinite, FS_Subset
<1>2. IsFiniteSet(S) /\ Cardinality(S) =< Cardinality(T)
  BY <1>1, FS_Subset
<1> QED
  BY <1>1, <1>2, SocketsAreFinite, FS_CardinalityType

LEMMA TogetherAtMost ==
    ASSUME NEW S, S \subseteq Sockets, NEW T, T \subseteq Sockets
    PROVE  Cardinality(S \cup T) =< Cardinality(S) + Cardinality(T)
<1>1. IsFiniteSet(S) /\ IsFiniteSet(T)
  BY SocketsAreFinite, FS_Subset
<1>2. IsFiniteSet(S \cap T) /\ IsFiniteSet(S \cup T)
  BY <1>1, FS_Intersection, FS_Union
<1>3. Cardinality(S \cap T) \in Nat /\ Cardinality(S) \in Nat /\ Cardinality(T) \in Nat
  BY <1>1, <1>2, FS_CardinalityType
<1>4. Cardinality(S \cup T) = Cardinality(S) + Cardinality(T) - Cardinality(S \cap T)
  BY <1>1, FS_Union
<1> QED
  BY <1>3, <1>4

LEMMA MaxOfTwo ==
    ASSUME NEW a \in Nat, NEW b \in Nat
    PROVE  /\ Max({a, b}) \in {a, b}
           /\ Max({a, b}) >= a /\ Max({a, b}) >= b
<1> DEFINE P(x) == x \in {a, b} /\ \A y \in {a, b} : x >= y
<1>1. \E x \in {a, b} : \A y \in {a, b} : x >= y
  <2>1. CASE a >= b
    BY <2>1
  <2>2. CASE ~(a >= b)
    BY <2>2
  <2> QED
    BY <2>1, <2>2
<1> QED
  BY <1>1 DEF Max

----------------------------------------------------------------------------
(* The hub, one lemma per step.                                            *)

LEMMA HubParts ==
    ASSUME HubInv
    PROVE  /\ members \in [Keys -> SUBSET Sockets]
           /\ owners \subseteq Sockets
           /\ \A w \in owners : At(w, "serving")
           /\ handler \in [Sockets -> Handler]
           /\ frames \in [Sockets -> Seq(Nat)]
           /\ heard \in [Sockets -> Nat]
           /\ peak \in Nat
           /\ Accepting \subseteq Sockets
           /\ \A k \in Keys : /\ members[k] \subseteq Sockets
                              /\ Joining(k) \subseteq Accepting
                              /\ members[k] \cup Joining(k) \subseteq Sockets
<1>1. peak \in Nat
  BY DEF HubInv, HubTypeOK
<1>2. members \in [Keys -> SUBSET Sockets]
  BY DEF HubInv, HubTypeOK
<1> QED
  BY <1>1, <1>2 DEF HubInv, HubTypeOK, Accepting, Joining

\* Handshakes that only become sockets, or less, are counted already.
LEMMA CountedKept ==
    ASSUME HubInv, peak' = peak,
           Accepting' \subseteq Accepting,
           owners' \subseteq owners \cup Accepting,
           \A k \in Keys : members'[k] \cup Joining(k)' \subseteq members[k] \cup Joining(k)
    PROVE  Counted'
<1> USE HubParts, KeyFacts
<1>1. Cardinality(Accepting') =< peak
  <2>1. /\ Cardinality(Accepting') \in Nat /\ Cardinality(Accepting) \in Nat
        /\ Cardinality(Accepting') =< Cardinality(Accepting)
    BY Counting
  <2> QED
    BY <2>1 DEF HubInv, Counted
<1>2. Cardinality(owners' \cup Accepting') =< MaxConnections - 1 + peak
  <2>1. /\ owners' \cup Accepting' \subseteq owners \cup Accepting
        /\ owners \cup Accepting \subseteq Sockets
    OBVIOUS
  <2>2. /\ Cardinality(owners' \cup Accepting') \in Nat
        /\ Cardinality(owners \cup Accepting) \in Nat
        /\ Cardinality(owners' \cup Accepting') =< Cardinality(owners \cup Accepting)
    BY <2>1, Counting
  <2> QED
    BY <2>2 DEF HubInv, Counted
<1>3. ASSUME NEW k \in Keys
      PROVE  Cardinality(members'[k] \cup Joining(k)') =< Limit(k) - 1 + peak
  <2>1. /\ Cardinality(members'[k] \cup Joining(k)') \in Nat
        /\ Cardinality(members[k] \cup Joining(k)) \in Nat
        /\ Cardinality(members'[k] \cup Joining(k)') =< Cardinality(members[k] \cup Joining(k))
    BY Counting
  <2> QED
    BY <2>1 DEF HubInv, Counted
<1> QED
  BY <1>1, <1>2, <1>3 DEF Counted

LEMMA HandlerTypes ==
    ASSUME HubInv, NEW w \in Sockets, NEW new \in Handler,
           handler' = [handler EXCEPT ![w] = new]
    PROVE  /\ handler' \in [Sockets -> Handler]
           /\ handler'[w] = new
           /\ \A v \in Sockets : v # w => handler'[v] = handler[v]
BY HubParts

LEMMA ConnectStep ==
    ASSUME HubInv, NEW w \in Sockets, Connect(w)
    PROVE  HubInv'
<1> DEFINE new == IF Full(w) THEN [step |-> "refusing", holds |-> {}]
                  ELSE [step |-> "accepting", holds |-> KeysOf(w)]
<1>1. new \in Handler
  BY KeyFacts DEF Handler
<1>2. /\ handler' = [handler EXCEPT ![w] = new]
      /\ handler[w].step = "new"
      /\ UNCHANGED <<members, owners, frames, heard>>
  BY DEF Connect, Goes, At
<1>3. /\ handler' \in [Sockets -> Handler]
      /\ handler'[w] = new
      /\ \A v \in Sockets : v # w => handler'[v] = handler[v]
  BY <1>1, <1>2, HandlerTypes
<1>4. /\ ~Full(w) => handler'[w].step = "accepting" /\ handler'[w].holds = KeysOf(w)
      /\ Full(w) => handler'[w].step = "refusing" /\ handler'[w].holds = {}
  BY <1>3
<1> HIDE DEF new
<1>5. /\ Accepting' \subseteq Sockets /\ w \notin Accepting
      /\ Full(w) => Accepting' = Accepting
  BY <1>2, <1>3, <1>4 DEF Accepting, At
<1>6. /\ peak' \in Nat /\ peak' >= peak /\ peak' >= Cardinality(Accepting')
      /\ peak' =< Cardinality(Sockets)
  <2>1. peak' = Max({peak, Cardinality(Accepting')})
    BY DEF Connect, Accepting, At
  <2>2. /\ Cardinality(Accepting') \in Nat
        /\ Cardinality(Accepting') =< Cardinality(Sockets)
        /\ Cardinality(Sockets) \in Nat
    BY <1>5, Counting
  <2>3. peak \in Nat /\ peak =< Cardinality(Sockets)
    BY <2>2 DEF HubInv, HubTypeOK
  <2> QED
    BY <2>1, <2>2, <2>3, MaxOfTwo
<1>7. \A v \in owners : v # w
  BY <1>2, HubParts DEF At
<1>8. HubTypeOK'
  <2>1. \A v \in owners : handler'[v].step = "serving"
    BY <1>3, <1>7, HubParts DEF At
  <2>2. peak' \in 0 .. Cardinality(Sockets)
    <3>1. Cardinality(Sockets) \in Nat
      BY <1>5, Counting
    <3> QED
      BY <1>6, <3>1
  <2> QED
    BY <1>2, <1>3, <2>1, <2>2, HubParts DEF HubTypeOK, At
<1>9. HoldsOK'
  BY <1>3, <1>4 DEF HubInv, HoldsOK, At
<1>10. NoGhosts'
  BY <1>2 DEF HubInv, NoGhosts
<1>11. Unheard'
  BY <1>2, <1>3 DEF HubInv, Unheard, At
<1>12. Counted'
  <2>1. /\ Cardinality(owners \cup Accepting) =< MaxConnections - 1 + peak
        /\ Cardinality(owners \cup Accepting) \in Nat
        /\ owners \cup Accepting' \subseteq Sockets
        /\ Cardinality(owners) \in Nat /\ Cardinality(Accepting') \in Nat
    BY <1>5, HubParts, Counting DEF HubInv, Counted
  <2>2. Cardinality(owners \cup Accepting') =< MaxConnections - 1 + peak'
    <3>1. CASE Full(w)
      BY <1>5, <1>6, <2>1, <3>1, HubParts, KeyFacts
    <3>2. CASE ~Full(w)
      <4>1. Cardinality(owners) < MaxConnections
        BY <2>1, <3>2, KeyFacts DEF Full
      <4>2. Cardinality(owners \cup Accepting') =< Cardinality(owners) + Cardinality(Accepting')
        BY <1>5, HubParts, TogetherAtMost
      <4>3. Cardinality(owners \cup Accepting') \in Nat
        BY <2>1, Counting
      <4> QED
        BY <1>6, <2>1, <4>1, <4>2, <4>3, KeyFacts
    <3> QED
      BY <3>1, <3>2
  <2>3. ASSUME NEW k \in Keys
        PROVE  Cardinality(members[k] \cup Joining(k)') =< Limit(k) - 1 + peak'
    <3>1. /\ Cardinality(members[k] \cup Joining(k)) =< Limit(k) - 1 + peak
          /\ Cardinality(members[k] \cup Joining(k)) \in Nat
          /\ Limit(k) \in Nat /\ peak \in Nat
      BY HubParts, Counting, KeyFacts DEF HubInv, Counted
    <3>2. CASE k \in handler'[w].holds
      <4>1. ~Full(w) /\ k \in KeysOf(w)
        BY <1>4, <3>2
      <4>2. members[k] \subseteq Sockets /\ Joining(k)' \subseteq Accepting'
        BY HubParts DEF Joining
      <4>3. /\ Cardinality(members[k]) \in Nat /\ Cardinality(Joining(k)') \in Nat
            /\ Cardinality(Joining(k)') =< Cardinality(Accepting')
        BY <1>5, <4>2, Counting
      <4>4. Cardinality(members[k]) < Limit(k)
        BY <4>1, <4>3, KeyFacts DEF Full, KeysOf
      <4>5. /\ Cardinality(members[k] \cup Joining(k)') =<
                  Cardinality(members[k]) + Cardinality(Joining(k)')
            /\ Cardinality(members[k] \cup Joining(k)') \in Nat
        <5>1. Joining(k)' \subseteq Sockets
          BY <1>5, <4>2
        <5> QED
          BY <4>2, <5>1, TogetherAtMost, Counting
      <4> QED
        BY <1>6, <2>1, <3>1, <4>3, <4>4, <4>5
    <3>3. CASE k \notin handler'[w].holds
      <4>1. Joining(k)' = Joining(k)
        BY <1>2, <1>3, <1>5, <3>3 DEF Joining, Accepting, At
      <4> QED
        BY <1>6, <3>1, <4>1
    <3> QED
      BY <3>2, <3>3
  <2> QED
    BY <1>2, <1>6, <2>2, <2>3 DEF Counted
<1> QED
  BY <1>8, <1>9, <1>10, <1>11, <1>12 DEF HubInv

\* A handshake that was refused or broke off is over.
LEMMA EndedStep ==
    ASSUME HubInv, NEW w \in Sockets, Refuse(w) \/ AcceptFails(w)
    PROVE  HubInv'
<1> DEFINE new == [step |-> "over", holds |-> {}]
<1>1. new \in Handler
  BY DEF Handler
<1>2. /\ handler' = [handler EXCEPT ![w] = new]
      /\ handler[w].step \in {"refusing", "accepting"}
      /\ UNCHANGED <<members, owners, frames, heard, peak>>
  BY DEF Refuse, AcceptFails, Goes, At
<1>3. /\ handler' \in [Sockets -> Handler]
      /\ handler'[w] = new
      /\ \A v \in Sockets : v # w => handler'[v] = handler[v]
  BY <1>1, <1>2, HandlerTypes
<1>4. handler'[w].step = "over" /\ handler'[w].holds = {}
  BY <1>3
<1> HIDE DEF new
<1>5. \A v \in owners : v # w
  BY <1>2, HubParts DEF At
<1>6. HubTypeOK'
  <2>1. \A v \in owners : handler'[v].step = "serving"
    BY <1>3, <1>5, HubParts DEF At
  <2> QED
    BY <1>2, <1>3, <2>1 DEF HubInv, HubTypeOK, At
<1>7. HoldsOK'
  BY <1>3, <1>4 DEF HubInv, HoldsOK, At
<1>8. NoGhosts' /\ Unheard'
  BY <1>2, <1>3, <1>4 DEF HubInv, NoGhosts, Unheard, At
<1>9. Counted'
  <2>1. Accepting' \subseteq Accepting
    BY <1>3, <1>4 DEF Accepting, At
  <2>2. \A k \in Keys : Joining(k)' \subseteq Joining(k)
    BY <1>3, <1>4, <2>1 DEF Joining, Accepting, At
  <2> QED
    BY <1>2, <2>1, <2>2, CountedKept
<1> QED
  BY <1>6, <1>7, <1>8, <1>9 DEF HubInv

LEMMA AcceptStep ==
    ASSUME HubInv, NEW w \in Sockets, Accept(w)
    PROVE  HubInv'
<1> DEFINE new == [step |-> "serving", holds |-> {}]
<1>1. new \in Handler
  BY DEF Handler
<1>2. /\ handler' = [handler EXCEPT ![w] = new]
      /\ handler[w].step = "accepting" /\ w \in Accepting
      /\ owners' = owners \cup {w}
      /\ members' = [k \in Keys |-> IF k \in handler[w].holds
                                    THEN members[k] \cup {w} ELSE members[k]]
      /\ UNCHANGED <<frames, heard, peak>>
  BY DEF Accept, Goes, At, Accepting
<1>3. /\ handler' \in [Sockets -> Handler]
      /\ handler'[w] = new
      /\ \A v \in Sockets : v # w => handler'[v] = handler[v]
  BY <1>1, <1>2, HandlerTypes
<1>4. handler'[w].step = "serving" /\ handler'[w].holds = {}
  BY <1>3
<1> HIDE DEF new
<1>5. /\ members' \in [Keys -> SUBSET Sockets]
      /\ \A k \in Keys : /\ members'[k] \subseteq members[k] \cup {w}
                         /\ w \in members'[k] => w \in members[k] \/ k \in handler[w].holds
  BY <1>2, HubParts
<1>6. HubTypeOK'
  <2>1. \A v \in owners' : handler'[v].step = "serving"
    BY <1>2, <1>3, <1>4, HubParts DEF At
  <2> QED
    BY <1>2, <1>3, <1>5, <2>1, HubParts DEF HubInv, HubTypeOK, At
<1>7. HoldsOK'
  BY <1>3, <1>4 DEF HubInv, HoldsOK, At
<1>8. NoGhosts'
  BY <1>2, <1>5 DEF HubInv, NoGhosts, HoldsOK
<1>9. Unheard'
  BY <1>2, <1>3, <1>4 DEF HubInv, Unheard, At
<1>10. Counted'
  <2>1. Accepting' \subseteq Accepting
    BY <1>3, <1>4 DEF Accepting, At
  <2>2. ASSUME NEW k \in Keys
        PROVE  members'[k] \cup Joining(k)' \subseteq members[k] \cup Joining(k)
    <3>1. Joining(k)' \subseteq Joining(k)
      BY <1>3, <1>4, <2>1 DEF Joining, Accepting, At
    <3>2. k \in handler[w].holds => w \in Joining(k)
      BY <1>2 DEF Joining
    <3> QED
      BY <1>5, <3>1, <3>2
  <2> QED
    BY <1>2, <2>1, <2>2, CountedKept
<1> QED
  BY <1>6, <1>7, <1>8, <1>9, <1>10 DEF HubInv

Over == [step |-> "over", holds |-> {}]

\* disconnect takes the socket out of the tables and touches no other socket.
LEMMA Disconnected ==
    ASSUME HubInv, NEW w \in Sockets, NEW own \in {handler[w], Over},
           Disconnect(w, own), peak' = peak
    PROVE  /\ members' \in [Keys -> SUBSET Sockets]
           /\ owners' \subseteq owners
           /\ own = Over => w \notin owners'
           /\ \A v \in owners' : At(v, "serving")'
           /\ handler' \in [Sockets -> Handler]
           /\ handler'[w] = own
           /\ \A v \in Sockets : v # w => handler'[v].step = handler[v].step
           /\ \A k \in Keys : /\ members'[k] \subseteq members[k]
                              /\ w \notin members'[k]
           /\ HoldsOK' /\ NoGhosts' /\ Counted'
<1>1. own \in Handler /\ Over.step = "over" /\ Over.holds = {}
  BY HubParts DEF Over, Handler
<1>2. CASE w \notin owners
  <2>1. handler' = [handler EXCEPT ![w] = own] /\ UNCHANGED <<members, owners>>
    BY <1>2 DEF Disconnect
  <2>2. /\ handler' \in [Sockets -> Handler]
        /\ handler'[w] = own
        /\ \A v \in Sockets : v # w => handler'[v] = handler[v]
    BY <1>1, <2>1, HandlerTypes
  <2>3. \A v \in Sockets : \/ handler'[v] = handler[v]
                           \/ v = w /\ handler'[v].step = "over" /\ handler'[v].holds = {}
    BY <1>1, <2>2
  <2>4. Accepting' \subseteq Accepting
    BY <2>3 DEF Accepting, At
  <2>5. \A k \in Keys : Joining(k)' \subseteq Joining(k)
    BY <2>3, <2>4 DEF Joining, Accepting, At
  <2>6. Counted'
    BY <2>1, <2>4, <2>5, CountedKept
  <2>7. NoGhosts' /\ \A k \in Keys : w \notin members[k]
    BY <1>2, <2>1 DEF HubInv, NoGhosts
  <2>8. HoldsOK'
    BY <2>3 DEF HubInv, HoldsOK, At
  <2>9. \A v \in owners' : At(v, "serving")'
    BY <1>2, <2>1, <2>2, HubParts DEF At
  <2> QED
    BY <1>2, <2>1, <2>2, <2>6, <2>7, <2>8, <2>9, HubParts
<1>3. CASE w \in owners
  <2>1. /\ owners' = owners \ {w}
        /\ members' = [k \in Keys |-> IF k \in KeysOf(w)
                                      THEN members[k] \ {w} ELSE members[k]]
        /\ handler' = [v \in Sockets |->
                         IF v = w THEN own
                         ELSE [handler[v] EXCEPT !.holds = @ \ Popped(w)]]
    BY <1>3 DEF Disconnect, KeysLeft
  <2>2. ASSUME NEW v \in Sockets, v # w
        PROVE  /\ handler'[v] \in Handler
               /\ handler'[v].step = handler[v].step
               /\ handler'[v].holds \subseteq handler[v].holds
    <3>1. handler'[v] = [handler[v] EXCEPT !.holds = handler[v].holds \ Popped(w)]
      BY <2>1, <2>2
    <3>2. handler[v] \in Handler
      BY HubParts
    <3> QED
      BY <3>1, <3>2 DEF Handler
  <2>3. handler'[w] = own
    BY <2>1
  <2>4. handler' \in [Sockets -> Handler]
    BY <1>1, <2>1, <2>2, <2>3
  <2>5. \A v \in Sockets : /\ handler'[v].holds \subseteq handler[v].holds
                           /\ \/ handler'[v].step = handler[v].step
                              \/ v = w /\ handler'[v].step = "over" /\ handler'[v].holds = {}
    BY <1>1, <2>2, <2>3
  <2>6. Accepting' \subseteq Accepting
    BY <2>5 DEF Accepting, At
  <2>7. \A k \in Keys : Joining(k)' \subseteq Joining(k)
    BY <2>5, <2>6 DEF Joining, Accepting, At
  <2>8. \A k \in Keys : /\ members'[k] \subseteq members[k]
                        /\ w \notin members'[k]
    BY <2>1 DEF HubInv, NoGhosts
  <2>9. members' \in [Keys -> SUBSET Sockets]
    BY <2>1, HubParts
  <2>10. Counted'
    BY <2>1, <2>6, <2>7, <2>8, CountedKept
  <2>11. NoGhosts'
    BY <2>1, <2>8 DEF HubInv, NoGhosts
  <2>12. HoldsOK'
    BY <2>5 DEF HubInv, HoldsOK, At
  <2>13. \A v \in owners' : At(v, "serving")'
    BY <2>1, <2>2, HubParts DEF At
  <2> QED
    BY <2>1, <2>2, <2>3, <2>4, <2>8, <2>9, <2>10, <2>11, <2>12, <2>13
<1> QED
  BY <1>2, <1>3

LEMMA TailOfFrames ==
    ASSUME HubInv, NEW w \in Sockets, frames[w] # << >>
    PROVE  /\ Head(frames[w]) = frames[w][1] /\ Head(frames[w]) \in Nat
           /\ Tail(frames[w]) \in Seq(Nat)
           /\ Len(frames[w]) \in Nat /\ Len(frames[w]) > 0
           /\ Len(Tail(frames[w])) = Len(frames[w]) - 1
           /\ \A i \in 1 .. Len(frames[w]) - 1 : Tail(frames[w])[i] = frames[w][i + 1]
<1> PICK q \in Seq(Nat) : q = frames[w]
  BY HubParts
<1>1. q # << >>
  OBVIOUS
<1> QED
  BY <1>1, HeadTailProperties

LEMMA LeaveStep ==
    ASSUME HubInv, NEW w \in Sockets, Leave(w)
    PROVE  HubInv'
<1>1. Disconnect(w, Over) /\ UNCHANGED <<frames, heard, peak>> /\ At(w, "serving")
  BY DEF Leave, Over
<1>2. /\ members' \in [Keys -> SUBSET Sockets]
      /\ owners' \subseteq owners
      /\ \A v \in owners' : At(v, "serving")'
      /\ handler' \in [Sockets -> Handler]
      /\ handler'[w] = Over
      /\ \A v \in Sockets : v # w => handler'[v].step = handler[v].step
      /\ HoldsOK' /\ NoGhosts' /\ Counted'
  BY <1>1, Disconnected
<1>3. HubTypeOK'
  BY <1>1, <1>2, HubParts DEF HubInv, HubTypeOK
<1>4. Unheard'
  BY <1>1, <1>2 DEF HubInv, Unheard, At, Over
<1> QED
  BY <1>2, <1>3, <1>4 DEF HubInv

LEMMA SendFailsStep ==
    ASSUME HubInv, NEW w \in Sockets, SendFails(w)
    PROVE  HubInv'
<1>1. /\ frames[w] # << >>
      /\ frames' = [frames EXCEPT ![w] = Tail(frames[w])]
      /\ heard' = heard \/ heard' = [heard EXCEPT ![w] = Head(frames[w])]
      /\ Disconnect(w, handler[w])
      /\ peak' = peak
  BY DEF SendFails, Gets
<1>2. /\ members' \in [Keys -> SUBSET Sockets]
      /\ owners' \subseteq owners
      /\ \A v \in owners' : At(v, "serving")'
      /\ handler' \in [Sockets -> Handler]
      /\ handler'[w] = handler[w]
      /\ \A v \in Sockets : v # w => handler'[v].step = handler[v].step
      /\ HoldsOK' /\ NoGhosts' /\ Counted'
  BY <1>1, Disconnected
<1>3. /\ frames' \in [Sockets -> Seq(Nat)] /\ heard' \in [Sockets -> Nat]
      /\ \A v \in Sockets : v # w => frames'[v] = frames[v] /\ heard'[v] = heard[v]
  BY <1>1, TailOfFrames, HubParts
<1>4. HubTypeOK'
  BY <1>1, <1>2, <1>3, HubParts DEF HubInv, HubTypeOK
<1>5. Unheard'
  BY <1>1, <1>2, <1>3 DEF HubInv, Unheard, At
<1> QED
  BY <1>2, <1>4, <1>5 DEF HubInv

\* Frames and what was heard may change for sockets that are served or over.
LEMMA FramesStep ==
    ASSUME HubInv, UNCHANGED <<members, owners, handler, peak>>,
           frames' \in [Sockets -> Seq(Nat)], heard' \in [Sockets -> Nat],
           \A w \in Sockets : \/ frames'[w] = frames[w] /\ heard'[w] = heard[w]
                              \/ At(w, "serving") \/ At(w, "over")
    PROVE  HubInv'
<1>1. HubTypeOK'
  BY DEF HubInv, HubTypeOK, At
<1>2. HoldsOK' /\ NoGhosts'
  BY DEF HubInv, HoldsOK, NoGhosts, At
<1>3. Counted'
  BY CountedKept DEF Accepting, Joining, At
<1>4. Unheard'
  BY DEF HubInv, Unheard, At
<1> QED
  BY <1>1, <1>2, <1>3, <1>4 DEF HubInv

LEMMA SentStep ==
    ASSUME HubInv, NEW w \in Sockets, Sent(w)
    PROVE  HubInv'
<1>1. /\ frames[w] # << >> /\ At(w, "serving")
      /\ frames' = [frames EXCEPT ![w] = Tail(frames[w])]
      /\ heard' = [heard EXCEPT ![w] = Head(frames[w])]
      /\ UNCHANGED <<members, owners, handler, peak>>
  BY DEF Sent, Gets
<1>2. /\ frames' \in [Sockets -> Seq(Nat)] /\ heard' \in [Sockets -> Nat]
      /\ \A v \in Sockets : v # w => frames'[v] = frames[v] /\ heard'[v] = heard[v]
  BY <1>1, TailOfFrames, HubParts
<1> QED
  BY <1>1, <1>2, FramesStep

LEMMA BroadcastStep ==
    ASSUME HubInv, NEW l \in Lives, NEW frame \in Nat, Broadcast(l, frame)
    PROVE  /\ HubInv'
           /\ \A w \in Sockets : frames'[w] = IF w \in members[l] THEN Append(frames[w], frame)
                                              ELSE frames[w]
<1>1. /\ frames' = [w \in Sockets |-> IF w \in members[l] THEN Append(frames[w], frame)
                                      ELSE frames[w]]
      /\ UNCHANGED <<members, owners, handler, heard, peak>>
  BY DEF Broadcast
<1>2. \A w \in Sockets : Append(frames[w], frame) \in Seq(Nat)
  BY HubParts, AppendProperties
<1>3. frames' \in [Sockets -> Seq(Nat)] /\ heard' \in [Sockets -> Nat]
  BY <1>1, <1>2, HubParts
<1>4. \A w \in Sockets : frames'[w] = frames[w] \/ At(w, "serving")
  <2>1. \A w \in members[l] : w \in owners
    BY KeyFacts DEF HubInv, NoGhosts
  <2> QED
    BY <1>1, <2>1, HubParts
<1> QED
  BY <1>1, <1>3, <1>4, FramesStep

LEMMA HubStepKeeps ==
    ASSUME HubInv, NEW w \in Sockets, HubStep(w)
    PROVE  HubInv'
BY ConnectStep, EndedStep, AcceptStep, SentStep, SendFailsStep, LeaveStep DEF HubStep

LEMMA HubInitInv == HubInit => HubInv
<1> SUFFICES ASSUME HubInit PROVE HubInv
  OBVIOUS
<1>1. /\ members = [k \in Keys |-> {}] /\ owners = {} /\ peak = 0
      /\ handler = [w \in Sockets |-> [step |-> "new", holds |-> {}]]
      /\ frames = [w \in Sockets |-> << >>] /\ heard = [w \in Sockets |-> 0]
  BY DEF HubInit, New
<1>2. /\ \A w \in Sockets : handler[w].step = "new" /\ handler[w].holds = {}
      /\ handler \in [Sockets -> Handler]
  BY <1>1 DEF Handler
<1>3. Accepting = {} /\ \A k \in Keys : Joining(k) = {}
  BY <1>2 DEF Accepting, Joining, At
<1>4. Cardinality({}) = 0
  BY FS_EmptySet
<1>5. Cardinality(Sockets) \in Nat
  BY SocketsAreFinite, FS_CardinalityType
<1>6. HubTypeOK
  BY <1>1, <1>2, <1>5 DEF HubTypeOK
<1>7. HoldsOK /\ NoGhosts /\ Unheard
  BY <1>1, <1>2 DEF HoldsOK, NoGhosts, Unheard
<1>8. Counted
  <2>1. Cardinality(Accepting) =< peak
    BY <1>1, <1>3, <1>4
  <2>2. Cardinality(owners \cup Accepting) =< MaxConnections - 1 + peak
    <3>1. owners \cup Accepting = {}
      BY <1>1, <1>3
    <3>2. Cardinality(owners \cup Accepting) = 0
      BY <1>4, <3>1, Zenon
    <3> QED
      BY <1>1, <3>2, KeyFacts
  <2>3. ASSUME NEW k \in Keys
        PROVE  Cardinality(members[k] \cup Joining(k)) =< Limit(k) - 1 + peak
    <3>1. members[k] \cup Joining(k) = {}
      BY <1>1, <1>3
    <3>2. Cardinality(members[k] \cup Joining(k)) = 0
      BY <1>4, <3>1, Zenon
    <3> QED
      BY <1>1, <3>2, KeyFacts
  <2> QED
    BY <2>1, <2>2, <2>3 DEF Counted
<1> QED
  BY <1>6, <1>7, <1>8 DEF HubInv

----------------------------------------------------------------------------
(* The broker.                                                             *)

\* What was created is remembered, or known to be forgotten.
Remembered == \A m \in log : m \in Range(stored) \/ KeyOf(m) \in forgotten

\* The messages of a live have the numbers up to its last one.
Numbered ==
    /\ \A m \in log : m.sequence \in 1 .. number[m.live]
    /\ \A l \in Lives : number[l] =< Cardinality(log)

BrokerInv ==
    /\ backend \in {"redis", "memory"}
    /\ number \in [Lives -> Nat]
    /\ log \subseteq ChatMessage
    /\ IsFiniteSet(log) /\ Cardinality(log) =< MaxMessages
    /\ stored \in Seq(ChatMessage) /\ Range(stored) \subseteq log
    /\ backend = "memory" => Len(stored) =< MaxEntries
    /\ Numbered
    /\ Remembered
    /\ CreatedOnce

LEMMA BrokerParts ==
    ASSUME BrokerInv
    PROVE  /\ Cardinality(log) \in Nat /\ MaxMessages \in Nat
           /\ MaxEntries \in Nat \ {0} /\ MaxFaults \in Nat
           /\ Len(stored) \in Nat /\ DOMAIN stored = 1 .. Len(stored)
           /\ \A l \in Lives : number[l] \in Nat /\ number[l] \in 0 .. MaxMessages
           /\ \A i \in DOMAIN stored : stored[i] \in log
<1>1. Cardinality(log) \in Nat /\ IsFiniteSet(log)
  BY FS_CardinalityType DEF BrokerInv
<1>2. MaxMessages \in Nat /\ MaxEntries \in Nat \ {0} /\ MaxFaults \in Nat
  BY BrokerLimits, ChatBounds
<1>3. \A l \in Lives : number[l] \in Nat /\ number[l] \in 0 .. MaxMessages
  BY <1>1, <1>2 DEF BrokerInv, Numbered
<1>4. Len(stored) \in Nat /\ DOMAIN stored = 1 .. Len(stored)
  BY DEF BrokerInv
<1>5. \A i \in DOMAIN stored : stored[i] \in log
  BY DEF BrokerInv, Range
<1> QED
  BY <1>1, <1>2, <1>3, <1>4, <1>5

LEMMA DraftFields ==
    ASSUME NEW w \in Sockets, NEW id \in Ids, NEW text \in Texts, BrokerInv
    PROVE  /\ Draft(w, id, text) \in ChatMessage
           /\ Draft(w, id, text).live = LiveOf(w)
           /\ LiveOf(w) \in Lives
           /\ Draft(w, id, text).sequence = number[LiveOf(w)] + 1
<1>1. LiveOf(w) \in Lives /\ Owner[w] \in Range(Owner)
  BY KeyFacts
<1>2. number[LiveOf(w)] + 1 \in Nat
  BY <1>1, BrokerParts
<1> QED
  BY <1>1, <1>2 DEF Draft, ChatMessage, NextNumber

\* An element taken out of a sequence is the only one missing.
LEMMA Without ==
    ASSUME NEW S, NEW s \in Seq(S), NEW i \in 1 .. Len(s)
    PROVE  /\ RemoveAt(s, i) \in Seq(S)
           /\ Len(RemoveAt(s, i)) = Len(s) - 1
           /\ Range(RemoveAt(s, i)) \subseteq Range(s)
           /\ Range(s) \subseteq Range(RemoveAt(s, i)) \cup {s[i]}
<1> DEFINE a == SubSeq(s, 1, i - 1)
           b == SubSeq(s, i + 1, Len(s))
           r == RemoveAt(s, i)
<1>1. /\ a \in Seq(S) /\ Len(a) = i - 1
      /\ \A j \in 1 .. i - 1 : a[j] = s[j]
  <2>1. \A j \in 1 .. i - 1 : s[j] \in S
    BY ElementOfSeq
  <2> QED
    BY <2>1, SubSeqProperties
<1>2. /\ b \in Seq(S) /\ Len(b) = Len(s) - i
      /\ \A j \in 1 .. Len(s) - i : b[j] = s[i + j]
  <2>1. \A j \in i + 1 .. Len(s) : s[j] \in S
    BY ElementOfSeq
  <2> QED
    BY <2>1, SubSeqProperties
<1>3. r = a \o b
  BY DEF RemoveAt
<1> HIDE DEF a, b, r
<1>4. /\ r \in Seq(S) /\ Len(r) = Len(s) - 1
      /\ \A j \in 1 .. i - 1 : r[j] = a[j]
      /\ \A j \in 1 .. Len(s) - i : r[i - 1 + j] = b[j]
  BY <1>1, <1>2, <1>3, ConcatProperties
<1>5. /\ \A j \in 1 .. i - 1 : r[j] = s[j]
      /\ \A j \in i .. Len(s) - 1 : r[j] = s[j + 1]
  <2>1. \A j \in 1 .. i - 1 : r[j] = s[j]
    BY <1>1, <1>4
  <2>2. ASSUME NEW j \in i .. Len(s) - 1
        PROVE  r[j] = s[j + 1]
    <3> DEFINE n == j - i + 1
    <3>1. n \in 1 .. Len(s) - i /\ i - 1 + n = j /\ i + n = j + 1
      OBVIOUS
    <3>2. r[i - 1 + n] = b[n] /\ b[n] = s[i + n]
      BY <1>2, <1>4, <3>1
    <3> QED
      BY <3>1, <3>2
  <2> QED
    BY <2>1, <2>2
<1>6. \A j \in 1 .. Len(r) : \E k \in 1 .. Len(s) : r[j] = s[k]
  <2> SUFFICES ASSUME NEW j \in 1 .. Len(r)
               PROVE  \E k \in 1 .. Len(s) : r[j] = s[k]
    OBVIOUS
  <2>1. CASE j < i
    BY <1>4, <1>5, <2>1
  <2>2. CASE j >= i
    <3>1. j \in i .. Len(s) - 1 /\ j + 1 \in 1 .. Len(s)
      BY <1>4, <2>2
    <3> QED
      BY <1>5, <3>1
  <2> QED
    BY <2>1, <2>2
<1>7. \A k \in 1 .. Len(s) : s[k] = s[i] \/ \E j \in 1 .. Len(r) : r[j] = s[k]
  <2> SUFFICES ASSUME NEW k \in 1 .. Len(s), k # i
               PROVE  \E j \in 1 .. Len(r) : r[j] = s[k]
    OBVIOUS
  <2>1. CASE k < i
    BY <1>4, <1>5, <2>1
  <2>2. CASE k > i
    <3>1. k - 1 \in i .. Len(s) - 1 /\ k - 1 \in 1 .. Len(r) /\ (k - 1) + 1 = k
      BY <1>4, <2>2
    <3> QED
      BY <1>5, <3>1
  <2> QED
    BY <2>1, <2>2
<1>8. DOMAIN r = 1 .. Len(r) /\ DOMAIN s = 1 .. Len(s)
  BY <1>4
<1>9. Range(r) \subseteq Range(s)
  BY <1>6, <1>8 DEF Range
<1>10. Range(s) \subseteq Range(r) \cup {s[i]}
  BY <1>7, <1>8 DEF Range
<1> QED
  BY <1>4, <1>9, <1>10 DEF r

LEMMA RangeOfAppend ==
    ASSUME NEW S, NEW s \in Seq(S), NEW x \in S
    PROVE  /\ Append(s, x) \in Seq(S) /\ Len(Append(s, x)) = Len(s) + 1
           /\ Range(Append(s, x)) = Range(s) \cup {x}
<1>1. /\ Append(s, x) \in Seq(S) /\ Len(Append(s, x)) = Len(s) + 1
      /\ \A i \in 1 .. Len(s) : Append(s, x)[i] = s[i]
      /\ Append(s, x)[Len(s) + 1] = x
      /\ Len(s) \in Nat
  BY AppendProperties
<1>2. DOMAIN s = 1 .. Len(s) /\ DOMAIN Append(s, x) = 1 .. Len(s) + 1
  BY <1>1
<1>3. Range(Append(s, x)) \subseteq Range(s) \cup {x}
  <2> SUFFICES ASSUME NEW i \in 1 .. Len(s) + 1
               PROVE  Append(s, x)[i] \in Range(s) \cup {x}
    BY <1>2 DEF Range
  <2> QED
    BY <1>1, <1>2 DEF Range
<1>4. Range(s) \cup {x} \subseteq Range(Append(s, x))
  <2>1. Len(s) + 1 \in 1 .. Len(s) + 1 /\ 1 .. Len(s) \subseteq 1 .. Len(s) + 1
    BY <1>1
  <2> QED
    BY <1>1, <1>2, <2>1 DEF Range
<1> QED
  BY <1>1, <1>3, <1>4

\* A new message gets the number after the last one, and pushes at most one
\* remembered message out.
LEMMA StoresStep ==
    ASSUME BrokerInv, NEW m \in ChatMessage, m.sequence = number[m.live] + 1,
           Stores(m), backend' = backend
    PROVE  BrokerInv'
<1>1. /\ Existing(m) = {}
      /\ Cardinality(log) < MaxMessages
      /\ number' = [number EXCEPT ![m.live] = m.sequence]
      /\ log' = log \cup {m}
      /\ stored' = Kept(Append(stored, m))
      /\ forgotten' = forgotten \cup {KeyOf(e) : e \in Range(Append(stored, m)) \ Range(stored')}
  BY DEF Stores
<1>2. m.live \in Lives /\ m.sequence \in Nat /\ log \subseteq ChatMessage
  BY DEF ChatMessage, BrokerInv
<1>3. number[m.live] \in Nat /\ m.sequence > 0
  BY <1>2, BrokerParts
<1>4. \A e \in log : e.live \in Lives /\ e.sequence \in 1 .. number[e.live]
  BY DEF BrokerInv, Numbered, ChatMessage
<1>5. m \notin log
  BY <1>3, <1>4
<1>6. /\ IsFiniteSet(log') /\ Cardinality(log') = Cardinality(log) + 1
      /\ Cardinality(log') =< MaxMessages
  <2>1. IsFiniteSet(log) /\ Cardinality(log) \in Nat /\ MaxMessages \in Nat
    BY BrokerParts DEF BrokerInv
  <2>2. IsFiniteSet(log') /\ Cardinality(log') = Cardinality(log) + 1
    BY <1>1, <1>5, <2>1, FS_AddElement
  <2> QED
    BY <1>1, <2>1, <2>2
<1>7. /\ number' \in [Lives -> Nat]
      /\ number'[m.live] = number[m.live] + 1
      /\ \A l \in Lives : l # m.live => number'[l] = number[l]
  BY <1>1, <1>2 DEF BrokerInv
<1>8. Numbered'
  <2>1. \A e \in log' : e.sequence \in 1 .. number'[e.live]
    <3> SUFFICES ASSUME NEW e \in log'
                 PROVE  e.sequence \in 1 .. number'[e.live]
      OBVIOUS
    <3>1. CASE e = m
      BY <1>2, <1>3, <1>7, <3>1
    <3>2. CASE e \in log
      <4>1. number[e.live] \in Nat
        BY <1>4, <3>2, BrokerParts
      <4> QED
        BY <1>4, <1>7, <3>2, <4>1
    <3> QED
      BY <1>1, <3>1, <3>2
  <2>2. \A l \in Lives : number'[l] =< Cardinality(log')
    BY <1>6, <1>7, BrokerParts DEF BrokerInv, Numbered
  <2> QED
    BY <2>1, <2>2 DEF Numbered
<1> DEFINE entries == Append(stored, m)
<1>9. /\ entries \in Seq(ChatMessage) /\ Len(entries) = Len(stored) + 1
      /\ Range(entries) = Range(stored) \cup {m}
  BY RangeOfAppend DEF BrokerInv
<1>10. /\ stored' \in Seq(ChatMessage) /\ Range(stored') \subseteq Range(entries)
       /\ backend = "memory" => Len(stored') =< MaxEntries
  <2>1. CASE backend = "memory" /\ Len(entries) > MaxEntries
    <3>1. stored' = Tail(entries) /\ entries # << >>
      BY <1>1, <1>9, <2>1, BrokerParts DEF Kept
    <3>2. /\ Tail(entries) \in Seq(ChatMessage)
          /\ Len(Tail(entries)) = Len(entries) - 1
          /\ \A i \in 1 .. Len(Tail(entries)) : Tail(entries)[i] = entries[i + 1]
      BY <1>9, <3>1, HeadTailProperties
    <3>3. Range(Tail(entries)) \subseteq Range(entries)
      <4> SUFFICES ASSUME NEW i \in DOMAIN Tail(entries)
                   PROVE  Tail(entries)[i] \in Range(entries)
        BY DEF Range
      <4>1. i \in 1 .. Len(Tail(entries)) /\ i + 1 \in DOMAIN entries
        BY <1>9, <3>2
      <4> QED
        BY <3>2, <4>1 DEF Range
    <3>4. backend = "memory" => Len(Tail(entries)) =< MaxEntries
      BY <1>9, <3>2, BrokerParts DEF BrokerInv
    <3> QED
      BY <3>1, <3>2, <3>3, <3>4
  <2>2. CASE ~(backend = "memory" /\ Len(entries) > MaxEntries)
    <3>1. stored' = entries
      BY <1>1, <2>2 DEF Kept
    <3> QED
      BY <1>9, <2>2, <3>1, BrokerParts
  <2> QED
    BY <2>1, <2>2
<1>11. \A e \in Range(entries) : e \in Range(stored') \/ KeyOf(e) \in forgotten'
  BY <1>1
<1> HIDE DEF entries
<1>12. Remembered'
  BY <1>1, <1>9, <1>11 DEF BrokerInv, Remembered
<1>13. \A e \in log : KeyOf(e) = KeyOf(m) => KeyOf(e) \in forgotten
  BY <1>1 DEF BrokerInv, Remembered, Existing
<1>14. CreatedOnce'
  BY <1>1, <1>13 DEF BrokerInv, CreatedOnce
<1> QED
  BY <1>1, <1>6, <1>7, <1>8, <1>9, <1>10, <1>12, <1>14 DEF BrokerInv

\* The remembered messages only change places, or the rest stays.
LEMMA RepeatsStep ==
    ASSUME BrokerInv, NEW w, NEW m, Repeats(w, m)
    PROVE  BrokerInv'
<1>1. UNCHANGED <<backend, number, log, forgotten>>
  BY DEF Repeats
<1>2. /\ stored' \in Seq(ChatMessage) /\ Len(stored') = Len(stored)
      /\ Range(stored') = Range(stored)
  <2>1. CASE stored' = stored
    BY <2>1 DEF BrokerInv
  <2>2. CASE stored' # stored
    <3>1. PICK i \in DOMAIN stored : stored' = Append(RemoveAt(stored, i), stored[i])
      BY <2>2 DEF Repeats
    <3>2. /\ i \in 1 .. Len(stored) /\ stored[i] \in ChatMessage
          /\ stored[i] \in Range(stored) /\ stored \in Seq(ChatMessage)
      BY BrokerParts DEF BrokerInv, Range
    <3>3. /\ RemoveAt(stored, i) \in Seq(ChatMessage)
          /\ Len(RemoveAt(stored, i)) = Len(stored) - 1
          /\ Range(RemoveAt(stored, i)) \subseteq Range(stored)
          /\ Range(stored) \subseteq Range(RemoveAt(stored, i)) \cup {stored[i]}
      BY <3>2, Without
    <3>4. /\ stored' \in Seq(ChatMessage) /\ Len(stored') = Len(stored) - 1 + 1
          /\ Range(stored') = Range(RemoveAt(stored, i)) \cup {stored[i]}
      BY <3>1, <3>2, <3>3, RangeOfAppend
    <3> QED
      BY <3>2, <3>3, <3>4, BrokerParts
  <2> QED
    BY <2>1, <2>2
<1> QED
  BY <1>1, <1>2 DEF BrokerInv, Numbered, Remembered, CreatedOnce

LEMMA ExpiresStep ==
    ASSUME BrokerInv, Expires
    PROVE  BrokerInv'
<1>1. PICK i \in DOMAIN stored : /\ stored' = RemoveAt(stored, i)
                                 /\ forgotten' = forgotten \cup {KeyOf(stored[i])}
  BY DEF Expires
<1>2. UNCHANGED <<backend, number, log>> /\ backend = "redis"
  BY DEF Expires
<1>3. i \in 1 .. Len(stored) /\ stored \in Seq(ChatMessage)
  BY BrokerParts DEF BrokerInv
<1>4. /\ stored' \in Seq(ChatMessage)
      /\ Range(stored') \subseteq Range(stored)
      /\ Range(stored) \subseteq Range(stored') \cup {stored[i]}
  BY <1>1, <1>3, Without
<1>5. Remembered'
  BY <1>1, <1>2, <1>4 DEF BrokerInv, Remembered
<1> QED
  BY <1>1, <1>2, <1>4, <1>5 DEF BrokerInv, Numbered, CreatedOnce

----------------------------------------------------------------------------
(* The numbers on their way to a viewer.                                   *)

Member(w) == w \in members[LiveOf(w)]

\* Between a and b the viewer missed only what was lost.
Follows(w, a, b) ==
    /\ a < b
    /\ Member(w) =>
          \A n \in a + 1 .. b - 1 : \E m \in lost : m.live = LiveOf(w) /\ m.sequence = n

\* The last number that is on its way to him, or that he heard.
LastNumber(w) == IF frames[w] = << >> THEN heard[w] ELSE frames[w][Len(frames[w])]

Chain(w) ==
    /\ \A i \in 1 .. Len(frames[w]) : frames[w][i] \in 1 .. number[LiveOf(w)]
    /\ heard[w] =< number[LiveOf(w)]
    /\ \A i \in 1 .. Len(frames[w]) - 1 : Follows(w, frames[w][i], frames[w][i + 1])
    /\ heard[w] # 0 /\ frames[w] # << >> => Follows(w, heard[w], frames[w][1])
    /\ LastNumber(w) # 0 => Follows(w, LastNumber(w), number[LiveOf(w)] + 1)

Chains == \A w \in Sockets : Chain(w)

\* A gap stays filled when more is lost and nobody joins.
LEMMA GapStays ==
    ASSUME NEW w, NEW a, NEW b, Follows(w, a, b), lost \subseteq lost',
           Member(w)' => Member(w)
    PROVE  Follows(w, a, b)'
BY DEF Follows

\* The viewer's frames stay, and his live's last number stays or is followed by
\* one that he misses because it was lost or he has left.
LEMMA ChainStays ==
    ASSUME HubInv, BrokerInv, NEW w \in Sockets, Chain(w), lost \subseteq lost',
           frames'[w] = frames[w], heard'[w] = heard[w],
           Member(w)' => Member(w),
           \/ number'[LiveOf(w)] = number[LiveOf(w)]
           \/ /\ number'[LiveOf(w)] = number[LiveOf(w)] + 1
              /\ \/ ~Member(w)'
                 \/ \E m \in lost' : /\ m.live = LiveOf(w)
                                     /\ m.sequence = number[LiveOf(w)] + 1
    PROVE  Chain(w)'
<1> PICK q \in Seq(Nat), h \in Nat : q = frames[w] /\ h = heard[w]
  BY HubParts
<1> PICK n \in Nat : n = number[LiveOf(w)]
  BY KeyFacts, BrokerParts
<1> PICK n1 \in Nat : n1 = number'[LiveOf(w)] /\ (n1 = n \/ n1 = n + 1)
  OBVIOUS
<1> PICK x : x = IF q = << >> THEN h ELSE q[Len(q)]
  OBVIOUS
<1>1. x \in Nat /\ Len(q) \in Nat
  <2>1. q # << >> => Len(q) \in 1 .. Len(q)
    OBVIOUS
  <2> QED
    BY <2>1, ElementOfSeq
<1>2. /\ \A i \in 1 .. Len(q) : q[i] \in 1 .. n
      /\ h =< n
      /\ \A i \in 1 .. Len(q) - 1 : Follows(w, q[i], q[i + 1])
      /\ h # 0 /\ q # << >> => Follows(w, h, q[1])
      /\ x # 0 => Follows(w, x, n + 1)
  BY DEF Chain, LastNumber
<1>3. /\ \A i \in 1 .. Len(q) - 1 : Follows(w, q[i], q[i + 1])'
      /\ h # 0 /\ q # << >> => Follows(w, h, q[1])'
      /\ x # 0 => Follows(w, x, n + 1)'
  BY <1>2, GapStays
<1>4. x # 0 => Follows(w, x, n1 + 1)'
  <2>1. CASE n1 = n
    BY <1>3, <2>1
  <2>2. CASE n1 = n + 1
    <3> SUFFICES ASSUME x # 0
                 PROVE  /\ x < n + 2
                        /\ Member(w)' => \A k \in x + 1 .. n + 1 :
                              \E m \in lost' : m.live = LiveOf(w) /\ m.sequence = k
      BY <2>2 DEF Follows
    <3>1. /\ x < n + 1
          /\ Member(w)' => \A k \in x + 1 .. n :
                \E m \in lost' : m.live = LiveOf(w) /\ m.sequence = k
      BY <1>3 DEF Follows
    <3>2. Member(w)' => \E m \in lost' : m.live = LiveOf(w) /\ m.sequence = n + 1
      BY <2>2
    <3>3. \A k \in x + 1 .. n + 1 : k \in x + 1 .. n \/ k = n + 1
      BY <1>1
    <3> QED
      BY <1>1, <3>1, <3>2, <3>3
  <2> QED
    BY <2>1, <2>2
<1>5. (\A i \in 1 .. Len(q) : q[i] \in 1 .. n1) /\ h =< n1
  BY <1>2
<1> QED
  BY <1>3, <1>4, <1>5 DEF Chain, LastNumber

\* The next number is put on its way.
LEMMA ChainGrows ==
    ASSUME HubInv, BrokerInv, NEW w \in Sockets, Chain(w), lost' = lost,
           Member(w)' => Member(w), heard'[w] = heard[w],
           frames'[w] = Append(frames[w], number[LiveOf(w)] + 1),
           number'[LiveOf(w)] = number[LiveOf(w)] + 1
    PROVE  Chain(w)'
<1> PICK q \in Seq(Nat), h \in Nat : q = frames[w] /\ h = heard[w]
  BY HubParts
<1> PICK n \in Nat : n = number[LiveOf(w)]
  BY KeyFacts, BrokerParts
<1> PICK r : r = Append(q, n + 1)
  OBVIOUS
<1>1. /\ r \in Seq(Nat) /\ Len(r) = Len(q) + 1 /\ Len(q) \in Nat
      /\ \A i \in 1 .. Len(q) : r[i] = q[i]
      /\ r[Len(q) + 1] = n + 1 /\ r # << >>
      /\ frames'[w] = r
  BY AppendProperties
<1>2. /\ \A i \in 1 .. Len(q) : q[i] \in 1 .. n
      /\ h =< n
      /\ \A i \in 1 .. Len(q) - 1 : Follows(w, q[i], q[i + 1])
      /\ h # 0 /\ q # << >> => Follows(w, h, q[1])
      /\ q # << >> /\ q[Len(q)] # 0 => Follows(w, q[Len(q)], n + 1)
      /\ q = << >> /\ h # 0 => Follows(w, h, n + 1)
  BY DEF Chain, LastNumber
<1>3. /\ \A i \in 1 .. Len(q) - 1 : Follows(w, q[i], q[i + 1])'
      /\ h # 0 /\ q # << >> => Follows(w, h, q[1])'
      /\ q # << >> /\ q[Len(q)] # 0 => Follows(w, q[Len(q)], n + 1)'
      /\ q = << >> /\ h # 0 => Follows(w, h, n + 1)'
  BY <1>2, GapStays
<1>4. \A i \in 1 .. Len(r) : r[i] \in 1 .. n + 1
  BY <1>1, <1>2
<1>5. ASSUME NEW i \in 1 .. Len(r) - 1
      PROVE  Follows(w, r[i], r[i + 1])'
  <2>1. i \in 1 .. Len(q) /\ r[i] = q[i] /\ q[i] # 0
    BY <1>1, <1>2
  <2>2. CASE i = Len(q)
    <3>1. q # << >> /\ r[i + 1] = n + 1
      BY <1>1, <2>1, <2>2
    <3> QED
      BY <1>3, <2>1, <2>2, <3>1
  <2>3. CASE i # Len(q)
    <3>1. i \in 1 .. Len(q) - 1 /\ i + 1 \in 1 .. Len(q)
      BY <1>1, <2>1, <2>3
    <3>2. r[i + 1] = q[i + 1]
      BY <1>1, <3>1
    <3> QED
      BY <1>3, <2>1, <3>1, <3>2
  <2> QED
    BY <2>2, <2>3
<1>6. ASSUME h # 0
      PROVE  Follows(w, h, r[1])'
  <2>1. CASE q = << >>
    <3>1. r[1] = n + 1
      BY <1>1, <2>1
    <3> QED
      BY <1>3, <1>6, <2>1, <3>1
  <2>2. CASE q # << >>
    <3>1. r[1] = q[1]
      BY <1>1, <2>2
    <3> QED
      BY <1>3, <1>6, <2>2, <3>1
  <2> QED
    BY <2>1, <2>2
<1>7. Follows(w, n + 1, n + 2)'
  <2>1. n + 1 + 1 .. n + 2 - 1 = {}
    OBVIOUS
  <2> QED
    BY <2>1 DEF Follows
<1>8. LastNumber(w)' = n + 1 /\ number'[LiveOf(w)] + 1 = n + 2
  BY <1>1 DEF LastNumber
<1>9. heard'[w] = h /\ h =< number'[LiveOf(w)] /\ number'[LiveOf(w)] = n + 1
  BY <1>2
<1> QED
  BY <1>1, <1>4, <1>5, <1>6, <1>7, <1>8, <1>9 DEF Chain

LEMMA Shifted ==
    ASSUME NEW q \in Seq(Nat), NEW r \in Seq(Nat),
           Len(r) = Len(q) - 1, \A i \in 1 .. Len(r) : r[i] = q[i + 1]
    PROVE  /\ \A i \in 1 .. Len(r) : i + 1 \in 1 .. Len(q) /\ r[i] = q[i + 1]
           /\ \A i \in 1 .. Len(r) - 1 :
                 i + 1 \in 1 .. Len(q) - 1 /\ r[i] = q[i + 1] /\ r[i + 1] = q[(i + 1) + 1]
           /\ r = << >> => Len(q) = 1
           /\ r # << >> => /\ 1 \in 1 .. Len(q) - 1 /\ r[1] = q[1 + 1]
                           /\ q[1] \in Nat /\ q[1 + 1] \in Nat
                           /\ r[Len(r)] = q[Len(q)]
<1>1. Len(r) \in Nat /\ Len(q) \in Nat
  OBVIOUS
<1>2. ASSUME NEW i \in 1 .. Len(r)
      PROVE  i + 1 \in 1 .. Len(q) /\ r[i] = q[i + 1]
  BY <1>1
<1>3. ASSUME NEW i \in 1 .. Len(r) - 1
      PROVE  i + 1 \in 1 .. Len(q) - 1 /\ r[i] = q[i + 1] /\ r[i + 1] = q[(i + 1) + 1]
  <2>1. i \in 1 .. Len(r) /\ i + 1 \in 1 .. Len(r) /\ i + 1 \in 1 .. Len(q) - 1
    BY <1>1
  <2> QED
    BY <1>2, <2>1
<1>4. ASSUME r = << >>
      PROVE  Len(q) = 1
  <2>1. Len(r) = 0
    BY <1>4
  <2> QED
    BY <1>1, <2>1
<1>5. ASSUME r # << >>
      PROVE  /\ 1 \in 1 .. Len(q) - 1 /\ r[1] = q[1 + 1]
             /\ q[1] \in Nat /\ q[1 + 1] \in Nat
             /\ r[Len(r)] = q[Len(q)]
  <2>1. Len(r) > 0
    BY <1>5, EmptySeq
  <2>2. /\ 1 \in 1 .. Len(r) /\ Len(r) \in 1 .. Len(r)
        /\ 1 \in 1 .. Len(q) /\ 1 + 1 \in 1 .. Len(q) /\ Len(r) + 1 = Len(q)
        /\ 1 \in 1 .. Len(q) - 1
    BY <1>1, <2>1
  <2>3. r[1] = q[1 + 1] /\ r[Len(r)] = q[Len(r) + 1]
    BY <1>2, <2>2
  <2> QED
    BY <2>2, <2>3, ElementOfSeq
<1> QED
  BY <1>2, <1>3, <1>4, <1>5

\* The first frame is heard, or dropped with the viewer.
LEMMA ChainShrinks ==
    ASSUME HubInv, BrokerInv, NEW w \in Sockets, Chain(w), lost' = lost,
           Member(w)' => Member(w),
           frames[w] # << >>, frames'[w] = Tail(frames[w]),
           heard'[w] = Head(frames[w]) \/ (heard'[w] = heard[w] /\ ~Member(w)'),
           number'[LiveOf(w)] = number[LiveOf(w)]
    PROVE  Chain(w)'
<1> PICK q \in Seq(Nat), h \in Nat : q = frames[w] /\ h = heard[w]
  BY HubParts
<1> PICK n \in Nat : n = number[LiveOf(w)]
  BY KeyFacts, BrokerParts
<1>1. PICK r \in Seq(Nat) :
         /\ Head(q) = q[1] /\ Len(q) \in Nat /\ Len(q) > 0
         /\ frames'[w] = r /\ number'[LiveOf(w)] = n
         /\ \A i \in 1 .. Len(r) : i + 1 \in 1 .. Len(q) /\ r[i] = q[i + 1]
         /\ \A i \in 1 .. Len(r) - 1 :
               i + 1 \in 1 .. Len(q) - 1 /\ r[i] = q[i + 1] /\ r[i + 1] = q[(i + 1) + 1]
         /\ r = << >> => Len(q) = 1
         /\ r # << >> => /\ 1 \in 1 .. Len(q) - 1 /\ r[1] = q[1 + 1]
                         /\ q[1] \in Nat /\ q[1 + 1] \in Nat
                         /\ r[Len(r)] = q[Len(q)]
  <2>1. /\ Tail(q) \in Seq(Nat)
        /\ Len(Tail(q)) = Len(q) - 1 /\ Len(q) \in Nat /\ Len(q) > 0
        /\ \A i \in 1 .. Len(q) - 1 : Tail(q)[i] = q[i + 1]
        /\ Head(q) = q[1]
    BY TailOfFrames
  <2> PICK r \in Seq(Nat) : r = Tail(q)
    BY <2>1
  <2>2. Len(r) = Len(q) - 1 /\ \A i \in 1 .. Len(r) : r[i] = q[i + 1]
    BY <2>1
  <2>3. frames'[w] = r /\ number'[LiveOf(w)] = n
    OBVIOUS
  <2> QED
    BY <2>1, <2>2, <2>3, Shifted
<1>2. /\ \A i \in 1 .. Len(q) : q[i] \in 1 .. n
      /\ \A i \in 1 .. Len(q) - 1 : Follows(w, q[i], q[i + 1])
      /\ h # 0 => Follows(w, h, q[1])
      /\ h =< n
      /\ Follows(w, q[Len(q)], n + 1)
  <2>1. /\ \A i \in 1 .. Len(q) : q[i] \in 1 .. n
        /\ \A i \in 1 .. Len(q) - 1 : Follows(w, q[i], q[i + 1])
        /\ h # 0 => Follows(w, h, q[1])
        /\ h =< n
        /\ q[Len(q)] # 0 => Follows(w, q[Len(q)], n + 1)
    BY DEF Chain, LastNumber
  <2>2. Len(q) \in 1 .. Len(q)
    BY <1>1
  <2>3. q[Len(q)] \in 1 .. n
    BY <2>1, <2>2, Zenon
  <2>4. q[Len(q)] # 0
    BY <2>3
  <2> QED
    BY <2>1, <2>4
<1>3. /\ \A i \in 1 .. Len(q) - 1 : Follows(w, q[i], q[i + 1])'
      /\ Follows(w, q[Len(q)], n + 1)'
  BY <1>2, GapStays
<1>4. \A i \in 1 .. Len(r) : r[i] \in 1 .. n
  BY <1>1, <1>2, Zenon
<1>5. \A i \in 1 .. Len(r) - 1 : Follows(w, r[i], r[i + 1])'
  <2> SUFFICES ASSUME NEW i \in 1 .. Len(r) - 1
               PROVE  Follows(w, r[i], r[i + 1])'
    OBVIOUS
  <2>1. Follows(w, q[i + 1], q[(i + 1) + 1])'
    BY <1>1, <1>3, Zenon
  <2> QED
    BY <1>1, <2>1
<1>6. PICK g \in Nat : g = heard'[w] /\ (g = q[1] \/ (g = h /\ ~Member(w)'))
  <2>1. 1 \in 1 .. Len(q)
    BY <1>1
  <2>2. q[1] \in Nat
    BY <2>1, ElementOfSeq
  <2> QED
    BY <1>1, <2>2
<1>7. g =< n
  <2>1. 1 \in 1 .. Len(q)
    BY <1>1
  <2>2. q[1] \in 1 .. n
    BY <1>2, <2>1
  <2> QED
    BY <1>2, <1>6, <2>2
<1>8. ASSUME g # 0, r # << >>
      PROVE  Follows(w, g, r[1])'
  <2>1. 1 \in 1 .. Len(q) - 1 /\ r[1] = q[1 + 1] /\ q[1] \in Nat /\ q[1 + 1] \in Nat
    BY <1>1, <1>8
  <2>2. Follows(w, q[1], q[1 + 1])'
    BY <1>3, <2>1, Zenon
  <2>3. CASE g = q[1]
    BY <2>1, <2>2, <2>3
  <2>4. CASE g = h /\ ~Member(w)'
    <3>1. h < q[1] /\ q[1] < q[1 + 1]
      BY <1>2, <1>8, <2>2, <2>4 DEF Follows
    <3>2. g < q[1 + 1]
      BY <2>1, <2>4, <3>1
    <3> QED
      BY <2>1, <2>4, <3>2 DEF Follows
  <2> QED
    BY <1>6, <2>3, <2>4
<1>9. ASSUME r # << >>
      PROVE  Follows(w, r[Len(r)], n + 1)'
  BY <1>1, <1>3, <1>9
<1>10. ASSUME r = << >>, g # 0
       PROVE  Follows(w, g, n + 1)'
  <2>1. Len(q) = 1
    BY <1>1, <1>10
  <2>2. CASE g = q[1]
    BY <1>3, <2>1, <2>2
  <2>3. CASE g = h /\ ~Member(w)'
    <3>1. g < n + 1
      BY <1>2, <2>3
    <3> QED
      BY <2>3, <3>1 DEF Follows
  <2> QED
    BY <1>6, <2>2, <2>3
<1>11. LastNumber(w)' = IF r = << >> THEN g ELSE r[Len(r)]
  BY <1>1, <1>6 DEF LastNumber
<1> QED
  BY <1>1, <1>4, <1>5, <1>6, <1>7, <1>8, <1>9, <1>10, <1>11 DEF Chain

\* Nothing is on its way to a socket that is being admitted.
LEMMA ChainBegins ==
    ASSUME BrokerInv, NEW w \in Sockets, frames'[w] = << >>, heard'[w] = 0,
           number' = number
    PROVE  Chain(w)'
<1>1. number[LiveOf(w)] \in Nat /\ LiveOf(w) \in Lives
  BY KeyFacts, BrokerParts
<1>2. Len(frames'[w]) = 0 /\ LastNumber(w)' = 0
  BY DEF LastNumber
<1> QED
  BY <1>1, <1>2 DEF Chain

\* One chain from the last number heard to the next one there will be.
LEMMA ChainDue ==
    ASSUME HubInv, BrokerInv, NEW w \in Sockets, Chain(w)
    PROVE  LET due == Hears(w) \o IF w \in members[LiveOf(w)] THEN <<number[LiveOf(w)] + 1>>
                                  ELSE <<>>
           IN  \A i \in 1 .. Len(due) - 1 : Follows(w, due[i], due[i + 1])
<1> PICK q \in Seq(Nat), h \in Nat : q = frames[w] /\ h = heard[w]
  BY HubParts
<1> PICK n \in Nat : n = number[LiveOf(w)]
  BY KeyFacts, BrokerParts
<1>1. PICK hs \in Seq(Nat) : hs = Hears(w)
  <2>1. (IF h = 0 THEN << >> ELSE <<h>>) \in Seq(Nat)
    OBVIOUS
  <2>2. Hears(w) \in Seq(Nat)
    BY <2>1, ConcatProperties DEF Hears
  <2> QED
    BY <2>2
<1>2. /\ \A i \in 1 .. Len(q) : q[i] \in 1 .. n
      /\ \A i \in 1 .. Len(q) - 1 : Follows(w, q[i], q[i + 1])
      /\ h # 0 /\ q # << >> => Follows(w, h, q[1])
      /\ q # << >> /\ q[Len(q)] # 0 => Follows(w, q[Len(q)], n + 1)
      /\ q = << >> /\ h # 0 => Follows(w, h, n + 1)
  BY DEF Chain, LastNumber
<1>3. Len(q) \in Nat /\ Len(hs) \in Nat /\ (q = << >> <=> Len(q) = 0)
  <2>1. Len(q) \in Nat /\ Len(hs) \in Nat
    OBVIOUS
  <2>2. q = << >> => Len(q) = 0
    OBVIOUS
  <2>3. q # << >> => Len(q) # 0
    BY EmptySeq
  <2> QED
    BY <2>1, <2>2, <2>3
<1>4. q # << >> => Follows(w, q[Len(q)], n + 1)
  <2> SUFFICES ASSUME q # << >> PROVE Follows(w, q[Len(q)], n + 1)
    OBVIOUS
  <2>1. Len(q) \in 1 .. Len(q)
    BY <1>3
  <2>2. q[Len(q)] \in 1 .. n
    BY <1>2, <2>1, Zenon
  <2>3. q[Len(q)] # 0
    BY <2>2
  <2> QED
    BY <1>2, <2>3
<1>5. /\ \A i \in 1 .. Len(hs) - 1 : Follows(w, hs[i], hs[i + 1])
      /\ Len(hs) > 0 => Follows(w, hs[Len(hs)], n + 1)
  <2>1. CASE h = 0
    <3>1. hs = q
      BY <1>1, <2>1, ConcatEmptySeq DEF Hears
    <3> QED
      BY <1>2, <1>3, <1>4, <3>1
  <2>2. CASE h # 0
    <3>1. /\ <<h>> \in Seq(Nat) /\ Len(<<h>>) = 1 /\ <<h>>[1] = h
          /\ hs = <<h>> \o q
      BY <1>1, <2>2 DEF Hears
    <3>2. /\ Len(hs) = 1 + Len(q)
          /\ hs[1] = h
          /\ \A i \in 1 .. Len(q) : hs[1 + i] = q[i]
      BY <3>1, ConcatProperties
    <3>3. ASSUME NEW i \in 1 .. Len(hs) - 1
          PROVE  Follows(w, hs[i], hs[i + 1])
      <4>1. CASE i = 1
        <5>1. q # << >> /\ hs[i + 1] = q[1] /\ hs[i] = h
          BY <1>3, <3>2, <4>1
        <5> QED
          BY <1>2, <2>2, <5>1
      <4>2. CASE i # 1
        <5> DEFINE j == i - 1
        <5>1. /\ j \in 1 .. Len(q) - 1 /\ j \in 1 .. Len(q) /\ j + 1 \in 1 .. Len(q)
              /\ 1 + j = i /\ 1 + (j + 1) = i + 1
          BY <1>3, <3>2, <4>2
        <5> HIDE DEF j
        <5>2. hs[i] = q[j] /\ hs[i + 1] = q[j + 1]
          <6>1. hs[1 + j] = q[j] /\ hs[1 + (j + 1)] = q[j + 1]
            BY <3>2, <5>1, Zenon
          <6> QED
            BY <5>1, <6>1
        <5> QED
          BY <1>2, <5>1, <5>2
      <4> QED
        BY <4>1, <4>2
    <3>4. Follows(w, hs[Len(hs)], n + 1)
      <4>1. CASE q = << >>
        BY <1>2, <1>3, <2>2, <3>2, <4>1
      <4>2. CASE q # << >>
        <5>1. Len(q) \in 1 .. Len(q)
          BY <1>3, <4>2
        <5>2. hs[1 + Len(q)] = q[Len(q)]
          BY <3>2, <5>1, Zenon
        <5> QED
          BY <1>4, <3>2, <4>2, <5>2
      <4> QED
        BY <4>1, <4>2
    <3> QED
      BY <3>3, <3>4
  <2> QED
    BY <2>1, <2>2
<1>6. CASE w \in members[LiveOf(w)]
  <2> PICK due : due = hs \o <<n + 1>>
    OBVIOUS
  <2>1. <<n + 1>> \in Seq(Nat) /\ Len(<<n + 1>>) = 1 /\ <<n + 1>>[1] = n + 1
    OBVIOUS
  <2>2. /\ Len(due) = Len(hs) + 1
        /\ \A i \in 1 .. Len(hs) : due[i] = hs[i]
        /\ \A i \in 1 .. 1 : due[Len(hs) + i] = <<n + 1>>[i]
    BY <2>1, ConcatProperties
  <2>3. due[Len(hs) + 1] = n + 1
    BY <2>1, <2>2
  <2>4. ASSUME NEW i \in 1 .. Len(due) - 1
        PROVE  Follows(w, due[i], due[i + 1])
    <3>1. i \in 1 .. Len(hs) /\ due[i] = hs[i]
      BY <1>3, <2>2
    <3>2. CASE i = Len(hs)
      BY <1>5, <2>3, <3>1, <3>2
    <3>3. CASE i # Len(hs)
      <4>1. i \in 1 .. Len(hs) - 1 /\ i + 1 \in 1 .. Len(hs)
        BY <1>3, <3>1, <3>3
      <4>2. due[i + 1] = hs[i + 1]
        BY <2>2, <4>1
      <4> QED
        BY <1>5, <3>1, <4>1, <4>2
    <3> QED
      BY <3>2, <3>3
  <2>5. due = Hears(w) \o IF w \in members[LiveOf(w)] THEN <<number[LiveOf(w)] + 1>> ELSE <<>>
    BY <1>1, <1>6
  <2> QED
    BY <2>4, <2>5, Zenon
<1>7. CASE w \notin members[LiveOf(w)]
  <2>1. hs = Hears(w) \o IF w \in members[LiveOf(w)] THEN <<number[LiveOf(w)] + 1>> ELSE <<>>
    BY <1>1, <1>7, ConcatEmptySeq
  <2> QED
    BY <1>5, <2>1, Zenon
<1> QED
  BY <1>6, <1>7

----------------------------------------------------------------------------
(* The steps of the service.                                               *)

ChatInv == /\ HubInv
           /\ BrokerInv
           /\ Chains
           /\ lost \subseteq log
           /\ faults \in 0 .. MaxFaults

LEMMA ChatInitInv == ChatInit => ChatInv
<1> SUFFICES ASSUME ChatInit PROVE ChatInv
  OBVIOUS
<1>1. HubInv
  BY HubInitInv DEF ChatInit
<1>2. /\ backend \in {"redis", "memory"}
      /\ number = [l \in Lives |-> 0]
      /\ stored = << >> /\ log = {} /\ forgotten = {} /\ lost = {} /\ faults = 0
      /\ frames = [w \in Sockets |-> << >>] /\ heard = [w \in Sockets |-> 0]
  BY DEF ChatInit, HubInit
<1>3. MaxEntries \in Nat /\ MaxMessages \in Nat /\ MaxFaults \in Nat
  BY BrokerLimits, ChatBounds
<1>4. IsFiniteSet(log) /\ Cardinality(log) = 0
  BY <1>2, FS_EmptySet
<1>5. /\ stored \in Seq(ChatMessage) /\ Len(stored) = 0 /\ DOMAIN stored = {}
      /\ Range(stored) = {}
  <2>1. << >> \in Seq(ChatMessage) /\ Len(<< >>) = 0 /\ DOMAIN << >> = {}
    OBVIOUS
  <2> QED
    BY <1>2, <2>1 DEF Range
<1>6. BrokerInv
  BY <1>2, <1>3, <1>4, <1>5 DEF BrokerInv, Numbered, Remembered, CreatedOnce
<1>7. ASSUME NEW w \in Sockets
      PROVE  Chain(w)
  <2>1. /\ number[LiveOf(w)] = 0 /\ frames[w] = << >> /\ heard[w] = 0 /\ Len(<< >>) = 0
    BY <1>2, KeyFacts
  <2>2. LastNumber(w) = 0
    BY <2>1 DEF LastNumber
  <2> QED
    BY <2>1, <2>2 DEF Chain
<1> QED
  BY <1>1, <1>2, <1>3, <1>6, <1>7 DEF ChatInv, Chains

\* The broker's variables are left alone.
LEMMA BrokerIdle ==
    ASSUME BrokerInv, UNCHANGED <<backend, number, stored, log, forgotten>>
    PROVE  BrokerInv'
BY DEF BrokerInv, Numbered, Remembered, CreatedOnce

LEMMA LeaveMembers ==
    ASSUME HubInv, NEW w \in Sockets, NEW own \in {handler[w], Over},
           Disconnect(w, own), peak' = peak
    PROVE  /\ \A v \in Sockets : Member(v)' => Member(v)
           /\ ~Member(w)'
BY Disconnected, KeyFacts DEF Member

LEMMA HubChains ==
    ASSUME ChatInv, NEW w \in Sockets, HubStep(w), UNCHANGED <<number, lost>>
    PROVE  Chains'
<1> SUFFICES ASSUME NEW v \in Sockets
             PROVE  Chain(v)'
  BY DEF Chains
<1>1. HubInv /\ BrokerInv /\ Chain(v)
  BY DEF ChatInv, Chains
<1>2. CASE Connect(w) \/ Refuse(w) \/ AcceptFails(w)
  <2>1. frames' = frames /\ heard' = heard /\ members' = members
    BY <1>2 DEF Connect, Refuse, AcceptFails
  <2> QED
    BY <1>1, <2>1, ChainStays DEF Member
<1>3. CASE Accept(w)
  <2>1. /\ frames' = frames /\ heard' = heard /\ At(w, "accepting")
        /\ \A k \in Keys : members'[k] \subseteq members[k] \cup {w}
    BY <1>3 DEF Accept
  <2>2. CASE v = w
    <3>1. frames[w] = << >> /\ heard[w] = 0
      BY <1>1, <2>1 DEF HubInv, Unheard, At
    <3> QED
      BY <1>1, <2>1, <2>2, <3>1, ChainBegins
  <2>3. CASE v # w
    <3>1. Member(v)' => Member(v)
      BY <2>1, <2>3, KeyFacts DEF Member
    <3> QED
      BY <1>1, <2>1, <3>1, ChainStays
  <2> QED
    BY <2>2, <2>3
<1>4. CASE Sent(w)
  <2>1. /\ frames[w] # << >>
        /\ frames' = [frames EXCEPT ![w] = Tail(frames[w])]
        /\ heard' = [heard EXCEPT ![w] = Head(frames[w])]
        /\ members' = members
    BY <1>4 DEF Sent, Gets
  <2>2. /\ frames'[w] = Tail(frames[w]) /\ heard'[w] = Head(frames[w])
        /\ v # w => frames'[v] = frames[v] /\ heard'[v] = heard[v]
        /\ Member(v)' => Member(v)
    BY <1>1, <2>1, HubParts DEF Member
  <2>3. CASE v = w
    BY <1>1, <2>1, <2>2, <2>3, ChainShrinks
  <2>4. CASE v # w
    BY <1>1, <2>2, <2>4, ChainStays
  <2> QED
    BY <2>3, <2>4
<1>5. CASE SendFails(w)
  <2>1. /\ frames[w] # << >>
        /\ frames' = [frames EXCEPT ![w] = Tail(frames[w])]
        /\ heard' = heard \/ heard' = [heard EXCEPT ![w] = Head(frames[w])]
        /\ Disconnect(w, handler[w]) /\ peak' = peak
    BY <1>5 DEF SendFails, Gets
  <2>2. /\ frames'[w] = Tail(frames[w])
        /\ heard'[w] = Head(frames[w]) \/ heard'[w] = heard[w]
        /\ v # w => frames'[v] = frames[v] /\ heard'[v] = heard[v]
    BY <1>1, <2>1, HubParts
  <2>3. (Member(v)' => Member(v)) /\ ~Member(w)'
    BY <1>1, <2>1, LeaveMembers
  <2>4. CASE v = w
    BY <1>1, <2>1, <2>2, <2>3, <2>4, ChainShrinks
  <2>5. CASE v # w
    BY <1>1, <2>2, <2>3, <2>5, ChainStays
  <2> QED
    BY <2>4, <2>5
<1>6. CASE Leave(w)
  <2>1. Disconnect(w, Over) /\ UNCHANGED <<frames, heard, peak>>
    BY <1>6 DEF Leave, Over
  <2>2. Member(v)' => Member(v)
    BY <1>1, <2>1, LeaveMembers
  <2> QED
    BY <1>1, <2>1, <2>2, ChainStays
<1> QED
  BY <1>2, <1>3, <1>4, <1>5, <1>6 DEF HubStep

LEMMA PublishesStep ==
    ASSUME ChatInv, NEW w \in Sockets, NEW m \in ChatMessage,
           m.sequence = number[m.live] + 1, Publishes(w, m)
    PROVE  ChatInv'
<1>1. HubInv /\ BrokerInv /\ m.live \in Lives /\ m.sequence \in Nat
  BY DEF ChatInv, ChatMessage
<1>2. /\ Stores(m) /\ Broadcast(m.live, m.sequence)
      /\ UNCHANGED <<backend, lost, faults>>
  BY DEF Publishes
<1>3. /\ HubInv'
      /\ \A v \in Sockets : frames'[v] = IF v \in members[m.live]
                                         THEN Append(frames[v], m.sequence)
                                         ELSE frames[v]
  BY <1>1, <1>2, BroadcastStep
<1>4. BrokerInv'
  BY <1>1, <1>2, StoresStep
<1>5. /\ number' = [number EXCEPT ![m.live] = number[m.live] + 1]
      /\ log' = log \cup {m}
  BY <1>2 DEF Stores
<1>6. ASSUME NEW v \in Sockets
      PROVE  Chain(v)'
  <2>1. /\ Chain(v) /\ lost \subseteq lost' /\ lost' = lost
        /\ heard'[v] = heard[v] /\ (Member(v)' => Member(v))
    BY <1>2 DEF ChatInv, Chains, Broadcast, Member
  <2>2. number \in [Lives -> Nat] /\ LiveOf(v) \in Lives
    BY <1>1, KeyFacts DEF BrokerInv
  <2>3. CASE v \in members[m.live]
    <3>1. LiveOf(v) = m.live
      BY <1>1, <2>3, KeyFacts DEF HubInv, NoGhosts
    <3>2. /\ frames'[v] = Append(frames[v], number[LiveOf(v)] + 1)
          /\ number'[LiveOf(v)] = number[LiveOf(v)] + 1
      BY <1>3, <1>5, <2>2, <2>3, <3>1
    <3> QED
      BY <1>1, <2>1, <3>2, ChainGrows
  <2>4. CASE v \notin members[m.live]
    <3>1. frames'[v] = frames[v]
      BY <1>3, <2>4
    <3>2. \/ number'[LiveOf(v)] = number[LiveOf(v)]
          \/ number'[LiveOf(v)] = number[LiveOf(v)] + 1 /\ ~Member(v)'
      BY <1>2, <1>5, <2>2, <2>4 DEF Member, Broadcast
    <3> QED
      BY <1>1, <2>1, <3>1, <3>2, ChainStays
  <2> QED
    BY <2>3, <2>4
<1>7. lost' \subseteq log' /\ faults' \in 0 .. MaxFaults
  BY <1>2, <1>5 DEF ChatInv
<1> QED
  BY <1>3, <1>4, <1>6, <1>7 DEF ChatInv, Chains

LEMMA RedisRaisesStep ==
    ASSUME ChatInv, NEW w \in Sockets, NEW m \in ChatMessage,
           m.sequence = number[m.live] + 1, RedisRaises(w, m)
    PROVE  ChatInv'
<1>1. HubInv /\ BrokerInv /\ m.live \in Lives
  BY DEF ChatInv, ChatMessage
<1>2. /\ Leave(w) /\ backend' = backend /\ faults < MaxFaults /\ faults' = faults + 1
      /\ \/ Stores(m) /\ lost' = lost \cup {m}
         \/ UNCHANGED <<number, stored, log, forgotten, lost>>
  BY DEF RedisRaises
<1>3. HubInv'
  BY <1>1, <1>2, LeaveStep
<1>4. BrokerInv'
  BY <1>1, <1>2, StoresStep, BrokerIdle
<1>5. lost' \subseteq log' /\ faults' \in 0 .. MaxFaults
  <2>1. faults' \in 0 .. MaxFaults
    BY <1>1, <1>2, BrokerParts DEF ChatInv
  <2> QED
    BY <1>2, <2>1 DEF ChatInv, Stores
<1>6. ASSUME NEW v \in Sockets
      PROVE  Chain(v)'
  <2>1. /\ Chain(v) /\ lost \subseteq lost'
        /\ UNCHANGED <<frames, heard, peak>> /\ Disconnect(w, Over)
    BY <1>2 DEF ChatInv, Chains, Leave, Over
  <2>2. Member(v)' => Member(v)
    BY <1>1, <2>1, LeaveMembers
  <2>3. number \in [Lives -> Nat] /\ LiveOf(v) \in Lives
    BY <1>1, KeyFacts DEF BrokerInv
  <2>4. \/ number'[LiveOf(v)] = number[LiveOf(v)]
        \/ /\ number'[LiveOf(v)] = number[LiveOf(v)] + 1
           /\ m \in lost' /\ m.live = LiveOf(v) /\ m.sequence = number[LiveOf(v)] + 1
    BY <1>1, <1>2, <2>3 DEF Stores
  <2> QED
    BY <1>1, <2>1, <2>2, <2>4, ChainStays
<1> QED
  BY <1>3, <1>4, <1>5, <1>6 DEF ChatInv, Chains

\* What is stored changes, and nothing else a viewer can see.
LEMMA UnseenStep ==
    ASSUME ChatInv, BrokerInv', UNCHANGED <<hubVars, number, log, lost, faults>>
    PROVE  ChatInv'
<1>1. UNCHANGED <<members, owners, handler, frames, heard, peak>>
  BY DEF hubVars
<1>2. HubInv'
  <2>1. \A w \in Sockets : frames'[w] = frames[w] /\ heard'[w] = heard[w]
    BY <1>1
  <2>2. frames' \in [Sockets -> Seq(Nat)] /\ heard' \in [Sockets -> Nat] /\ HubInv
    BY <1>1, HubParts DEF ChatInv
  <2> QED
    BY <1>1, <2>1, <2>2, FramesStep
<1>3. Chains'
  <2> SUFFICES ASSUME NEW v \in Sockets
               PROVE  Chain(v)'
    BY DEF Chains
  <2>1. HubInv /\ BrokerInv /\ Chain(v)
    BY DEF ChatInv, Chains
  <2> QED
    BY <1>1, <2>1, ChainStays DEF Member
<1> QED
  BY <1>2, <1>3 DEF ChatInv

LEMMA ChatStep ==
    ASSUME ChatInv, [ChatNext]_chatVars
    PROVE  ChatInv'
<1>1. ASSUME NEW w \in Sockets, HubStep(w), UNCHANGED brokerVars
      PROVE  ChatInv'
  <2>1. UNCHANGED <<backend, number, stored, log, forgotten, lost, faults>>
    BY <1>1 DEF brokerVars
  <2>2. HubInv' /\ BrokerInv' /\ Chains'
    BY <1>1, <2>1, HubStepKeeps, BrokerIdle, HubChains DEF ChatInv
  <2> QED
    BY <2>1, <2>2 DEF ChatInv
<1>2. ASSUME NEW w \in Sockets, NEW id \in Ids, NEW text \in Texts,
             NEW m, m = Draft(w, id, text),
             Publishes(w, m) \/ Repeats(w, m) \/ Complains(w, m) \/ RedisRaises(w, m)
      PROVE  ChatInv'
  <2>1. m \in ChatMessage /\ m.sequence = number[m.live] + 1
    BY <1>2, DraftFields DEF ChatInv
  <2>2. CASE Repeats(w, m)
    <3>1. BrokerInv'
      BY <2>2, RepeatsStep DEF ChatInv
    <3> QED
      BY <2>2, <3>1, UnseenStep DEF Repeats
  <2>3. CASE Complains(w, m)
    <3>1. UNCHANGED hubVars /\ UNCHANGED <<backend, number, stored, log, forgotten, lost, faults>>
      BY <2>3 DEF Complains, chatVars, brokerVars
    <3>2. BrokerInv'
      BY <3>1, BrokerIdle DEF ChatInv
    <3> QED
      BY <3>1, <3>2, UnseenStep
  <2> QED
    BY <1>2, <2>1, <2>2, <2>3, PublishesStep, RedisRaisesStep
<1>3. CASE Expires
  <2>1. BrokerInv'
    BY <1>3, ExpiresStep DEF ChatInv
  <2> QED
    BY <1>3, <2>1, UnseenStep DEF Expires
<1>4. CASE UNCHANGED chatVars
  <2>1. UNCHANGED hubVars /\ UNCHANGED <<backend, number, stored, log, forgotten, lost, faults>>
    BY <1>4 DEF chatVars, brokerVars
  <2>2. BrokerInv'
    BY <2>1, BrokerIdle DEF ChatInv
  <2> QED
    BY <2>1, <2>2, UnseenStep
<1> QED
  BY <1>1, <1>2, <1>3, <1>4 DEF ChatNext

\* The inductive invariant holds of every behaviour.
THEOREM ChatInvariance == ChatSpec => []ChatInv
<1>1. ChatInv /\ [ChatNext]_chatVars => ChatInv'
  BY ChatStep
<1> QED
  BY ChatInitInv, <1>1, PTL DEF ChatSpec

\* The tables, the handlers and the broker's data are well typed; only a socket
\* that is served owns a place, and what is remembered was created.
THEOREM ChatTypeCorrect == ChatSpec => []ChatTypeOK
<1>1. ASSUME ChatInv
      PROVE  ChatTypeOK
  <2>1. HubInv /\ BrokerInv
    BY <1>1 DEF ChatInv
  <2>2. number \in [Lives -> 0 .. MaxMessages]
    BY <2>1, BrokerParts DEF BrokerInv
  <2> QED
    BY <1>1, <2>1, <2>2 DEF ChatInv, HubInv, BrokerInv, ChatTypeOK
<1> QED
  BY ChatInvariance, <1>1, PTL

\* No table holds a socket that has left or was dropped.
THEOREM NobodyHaunts == ChatSpec => []NoGhosts
<1>1. ChatInv => NoGhosts
  BY DEF ChatInv, HubInv
<1> QED
  BY ChatInvariance, <1>1, PTL

\* The limits are exceeded by overlapping handshakes only, and by as many.
THEOREM LimitsHold == ChatSpec => []OvershootBounded
<1>1. ASSUME ChatInv
      PROVE  OvershootBounded
  <2>1. HubInv
    BY <1>1 DEF ChatInv
  <2>2. Within(owners, MaxConnections)
    <3>1. /\ Cardinality(owners) =< Cardinality(owners \cup Accepting)
          /\ Cardinality(owners) \in Nat /\ Cardinality(owners \cup Accepting) \in Nat
      <4>1. owners \subseteq owners \cup Accepting /\ owners \cup Accepting \subseteq Sockets
        BY <2>1, HubParts
      <4> QED
        BY <4>1, Counting
    <3>2. Cardinality(owners \cup Accepting) =< MaxConnections - 1 + peak
      BY <2>1 DEF HubInv, Counted
    <3>3. peak \in Nat /\ MaxConnections \in Nat
      BY <2>1, HubParts, KeyFacts
    <3> QED
      BY <3>1, <3>2, <3>3 DEF Within
  <2>3. ASSUME NEW k \in Keys
        PROVE  Within(members[k], Limit(k))
    <3>1. /\ Cardinality(members[k]) =< Cardinality(members[k] \cup Joining(k))
          /\ Cardinality(members[k]) \in Nat
          /\ Cardinality(members[k] \cup Joining(k)) \in Nat
      <4>1. /\ members[k] \subseteq members[k] \cup Joining(k)
            /\ members[k] \cup Joining(k) \subseteq Sockets
        BY <2>1, HubParts
      <4> QED
        BY <4>1, Counting
    <3>2. Cardinality(members[k] \cup Joining(k)) =< Limit(k) - 1 + peak
      BY <2>1 DEF HubInv, Counted
    <3>3. peak \in Nat /\ Limit(k) \in Nat
      BY <2>1, HubParts, KeyFacts
    <3> QED
      BY <3>1, <3>2, <3>3 DEF Within
  <2>4. \A w \in Sockets : /\ LiveOf(w) \in Keys /\ Limit(LiveOf(w)) = MaxPerLive
                           /\ Owner[w] \in Keys /\ Limit(Owner[w]) = MaxPerUser
    BY KeyFacts DEF Keys
  <2>5. ASSUME NEW w \in Sockets
        PROVE  Within(members[LiveOf(w)], MaxPerLive) /\ Within(members[Owner[w]], MaxPerUser)
    <3>1. /\ Within(members[LiveOf(w)], Limit(LiveOf(w)))
          /\ Within(members[Owner[w]], Limit(Owner[w]))
      BY <2>3, <2>4
    <3> QED
      BY <2>4, <3>1, Zenon
  <2> QED
    BY <2>2, <2>5 DEF OvershootBounded
<1> QED
  BY ChatInvariance, <1>1, PTL

\* A message sent again is not created again while its key is remembered.
THEOREM MessagesUnique == ChatSpec => []CreatedOnce
<1>1. ChatInv => CreatedOnce
  BY DEF ChatInv, BrokerInv
<1> QED
  BY ChatInvariance, <1>1, PTL

\* A viewer hears the messages of his live in order, and all of them from the
\* first he hears, but those whose answer Redis lost.
THEOREM NoneSkipped == ChatSpec => []NothingSkipped
<1>1. ASSUME ChatInv
      PROVE  NothingSkipped
  <2> SUFFICES ASSUME NEW w \in Sockets
               PROVE  LET due == Hears(w) \o IF w \in members[LiveOf(w)]
                                             THEN <<number[LiveOf(w)] + 1>> ELSE <<>>
                      IN  \A i \in 1 .. Len(due) - 1 :
                             /\ due[i] < due[i + 1]
                             /\ w \in members[LiveOf(w)] =>
                                   \A n \in due[i] + 1 .. due[i + 1] - 1 :
                                      \E m \in lost : m.live = LiveOf(w) /\ m.sequence = n
    BY DEF NothingSkipped
  <2>1. HubInv /\ BrokerInv /\ Chain(w)
    BY <1>1 DEF ChatInv, Chains
  <2> QED
    BY <2>1, ChainDue DEF Follows, Member
<1> QED
  BY ChatInvariance, <1>1, PTL
=============================================================================
