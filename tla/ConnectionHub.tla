---------------------------- MODULE ConnectionHub ----------------------------
(***************************************************************************)
(* The chat's ConnectionHub and the WebSocket handlers that use it.  All   *)
(* run on one event loop, so the code between two awaits is atomic; but    *)
(* connect() looks up its sets and counts them before it awaits accept(),  *)
(* and adds to those same sets afterwards, whatever other handlers did.    *)
(*                                                                         *)
(* A set that has left the tables is never looked at again, so of such a   *)
(* set the model keeps only that a handler still holds it.                 *)
(***************************************************************************)
EXTENDS Naturals, FiniteSets, Sequences, FiniteSetsExt, Functions

CONSTANTS Sockets,     \* WebSockets; each is one handler
          Owner,       \* the <<live, user>> each socket connects for
          MaxConnections, MaxPerLive, MaxPerUser

ASSUME LimitsArePositive ==
    {MaxConnections, MaxPerLive, MaxPerUser} \subseteq Nat \ {0}

VARIABLES members,  \* _connections and _user_connections: the set of each key
          owners,   \* the keys of _owners
          handler,  \* what each socket's handler does
          frames,   \* the broadcasts on their way to each socket, in order
          heard,    \* history: the last of them each socket got
          peak      \* history: the most handshakes there were at a time

hubVars == <<members, owners, handler, frames, heard, peak>>

LiveOf(w) == Owner[w][1]
Lives     == {LiveOf(w) : w \in Sockets}
Keys      == Lives \cup Range(Owner)
KeysOf(w) == {LiveOf(w), Owner[w]}

\* Every socket connects for somebody, and the hub's two tables share no key.
ASSUME SocketsAreFinite == IsFiniteSet(Sockets)
ASSUME OwnersAreKnown   == DOMAIN Owner = Sockets
ASSUME TablesAreApart   == Lives \cap Range(Owner) = {}

\* A handler waits for its socket, awaits accept() holding two sets, awaits the
\* close of a refused socket, serves it, or is over.  `holds` are the keys whose
\* set in the tables is the one it found.
New     == [step |-> "new", holds |-> {}]
Handler == [step : {"new", "accepting", "refusing", "serving", "over"},
            holds : SUBSET Keys]

HubInit == /\ members = [k \in Keys |-> {}]
           /\ owners = {}
           /\ handler = [w \in Sockets |-> New]
           /\ frames = [w \in Sockets |-> <<>>]
           /\ heard = [w \in Sockets |-> 0]
           /\ peak = 0

At(w, step) == handler[w].step = step
Goes(w, step, holds) == [handler EXCEPT ![w] = [step |-> step, holds |-> holds]]

----------------------------------------------------------------------------
(* connect.                                                                *)

\* Mutant of Full: the sockets of the user are compared with >.
FullOneLate(w) ==
    \/ Cardinality(owners) >= MaxConnections
    \/ Cardinality(members[LiveOf(w)]) >= MaxPerLive
    \/ Cardinality(members[Owner[w]]) > MaxPerUser

Full(w) ==
    \/ Cardinality(owners) >= MaxConnections
    \/ Cardinality(members[LiveOf(w)]) >= MaxPerLive
    \/ Cardinality(members[Owner[w]]) >= MaxPerUser

\* connect() up to its first await: setdefault finds the set of either key, or
\* puts an empty one in the table.
Connect(w) ==
    /\ At(w, "new")
    /\ handler' = IF Full(w) THEN Goes(w, "refusing", {})
                  ELSE Goes(w, "accepting", KeysOf(w))
    /\ peak' = Max({peak, Cardinality({v \in Sockets : handler'[v].step = "accepting"})})
    /\ UNCHANGED <<members, owners, frames, heard>>

\* The close with code 4429 is sent.
Refuse(w) ==
    /\ At(w, "refusing")
    /\ handler' = Goes(w, "over", {})
    /\ UNCHANGED <<members, owners, frames, heard, peak>>

\* accept() returned: the socket joins the sets that were found before it, in
\* the tables or not.
Accept(w) ==
    /\ At(w, "accepting")
    /\ members' = [k \in Keys |-> IF k \in handler[w].holds
                                  THEN members[k] \cup {w} ELSE members[k]]
    /\ owners' = owners \cup {w}
    /\ handler' = Goes(w, "serving", {})
    /\ UNCHANGED <<frames, heard, peak>>

\* accept() raised, the client is gone: connect() is outside the handler's try.
AcceptFails(w) ==
    /\ At(w, "accepting")
    /\ handler' = Goes(w, "over", {})
    /\ UNCHANGED <<members, owners, frames, heard, peak>>

----------------------------------------------------------------------------
(* disconnect and broadcast.                                               *)

\* Mutant of KeysLeft: the set of the user is forgotten.
KeysLeftLive(w) == {LiveOf(w)}

KeysLeft(w) == KeysOf(w)

\* The keys whose set is empty without w: disconnect takes it out of the table.
Popped(w) == {k \in KeysLeft(w) : members[k] \subseteq {w}}

\* The socket leaves the sets the tables hold now, and who holds a set that
\* leaves the tables holds it alone.  `own` is the handler of w afterwards.
Disconnect(w, own) ==
    IF w \notin owners
    THEN handler' = [handler EXCEPT ![w] = own] /\ UNCHANGED <<members, owners>>
    ELSE /\ owners' = owners \ {w}
         /\ members' = [k \in Keys |-> IF k \in KeysLeft(w)
                                       THEN members[k] \ {w} ELSE members[k]]
         /\ handler' = [v \in Sockets |->
                          IF v = w THEN own
                          ELSE [handler[v] EXCEPT !.holds = @ \ Popped(w)]]

\* One task per socket of the live's set, started in order; each writes its
\* frame before any later one, and waits for the socket.
Broadcast(l, frame) ==
    /\ frames' = [w \in Sockets |-> IF w \in members[l] THEN Append(frames[w], frame)
                                    ELSE frames[w]]
    /\ UNCHANGED <<members, owners, handler, heard, peak>>

Gets(w) == heard' = [heard EXCEPT ![w] = Head(frames[w])]

Sent(w) ==
    /\ At(w, "serving")
    /\ frames[w] # <<>>
    /\ frames' = [frames EXCEPT ![w] = Tail(@)]
    /\ Gets(w)
    /\ UNCHANGED <<members, owners, handler, peak>>

\* A receiver that is too slow, with the frame written, or gone, is dropped;
\* its handler goes on.
SendFails(w) ==
    /\ frames[w] # <<>>
    /\ frames' = [frames EXCEPT ![w] = Tail(@)]
    /\ Gets(w) \/ UNCHANGED heard
    /\ Disconnect(w, handler[w])
    /\ UNCHANGED peak

\* Mutant of Leave: no finally.
LeaveSilently(w) ==
    /\ At(w, "serving")
    /\ handler' = Goes(w, "over", {})
    /\ UNCHANGED <<members, owners, frames, heard, peak>>

\* The client disconnects, or an error ends the handler: finally, disconnect.
Leave(w) ==
    /\ At(w, "serving")
    /\ Disconnect(w, [step |-> "over", holds |-> {}])
    /\ UNCHANGED <<frames, heard, peak>>

HubStep(w) == \/ Connect(w) \/ Refuse(w) \/ Accept(w) \/ AcceptFails(w)
              \/ Sent(w) \/ SendFails(w) \/ Leave(w)

----------------------------------------------------------------------------
(* Properties.                                                             *)

HubTypeOK ==
    /\ members \in [Keys -> SUBSET Sockets]
    /\ owners \subseteq {w \in Sockets : At(w, "serving")}
    /\ handler \in [Sockets -> Handler]
    /\ frames \in [Sockets -> Seq(Nat)]
    /\ heard \in [Sockets -> Nat]
    /\ peak \in 0 .. Cardinality(Sockets)

\* The tables never hold a socket whose handler has ended or that was dropped,
\* nor one of another live or user: a broadcast only goes where somebody is.
NoGhosts ==
    \A k \in Keys : \A w \in members[k] : w \in owners /\ k \in KeysOf(w)

\* The limits of the hub, of a live and of a user are exceeded only by handshakes
\* that overlap.
Within(set, limit) ==
    Cardinality(set) > limit => Cardinality(set) =< limit - 1 + peak
OvershootBounded ==
    /\ Within(owners, MaxConnections)
    /\ \A w \in Sockets : /\ Within(members[LiveOf(w)], MaxPerLive)
                          /\ Within(members[Owner[w]], MaxPerUser)

\* Every socket the hub admitted, and has not dropped, gets the broadcasts of
\* its live.
ViewersAreHeard == \A w \in owners : w \in members[LiveOf(w)]
============================================================================
