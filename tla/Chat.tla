-------------------------------- MODULE Chat --------------------------------
(***************************************************************************)
(* The chat service: live_chat handlers on one event loop, the hub, and    *)
(* the broker that numbers the messages of a live and remembers what each  *)
(* client sent, so that a message sent again is not published again.  The  *)
(* broker is Redis (a Lua script, atomic there) or, without REDIS_URL, in  *)
(* memory.  Either is called without an await, so what a message is given  *)
(* by the broker and whom it is broadcast to is decided in one step.       *)
(***************************************************************************)
EXTENDS ConnectionHub, SequencesExt

CONSTANTS Ids, Texts,    \* the client_message_ids and texts clients send
          MaxEntries,    \* max_deduplication_entries
          MaxLives,      \* max_active_lives
          MaxMessages,   \* bound: messages created
          MaxFaults      \* bound: failed calls of Redis

ASSUME BrokerLimits == {MaxEntries, MaxLives} \subseteq Nat \ {0}
ASSUME ChatBounds   == {MaxMessages, MaxFaults} \subseteq Nat

VARIABLES backend,    \* which broker main.py made
          number,     \* the last sequence number of each live
          stored,     \* the messages remembered, the next to forget first
          log,        \* history: the messages created
          forgotten,  \* history: the keys whose message was forgotten
          lost,       \* history: messages whose answer Redis did not deliver
          faults

brokerVars == <<backend, number, stored, log, forgotten, lost, faults>>
chatVars   == <<hubVars, brokerVars>>

ChatMessage == [live : Lives, user : {o[2] : o \in Range(Owner)}, id : Ids,
                text : Texts, sequence : Nat]

ChatInit == /\ HubInit
            /\ backend \in {"redis", "memory"}
            /\ number = [l \in Lives |-> 0]
            /\ stored = <<>>
            /\ log = {}
            /\ forgotten = {}
            /\ lost = {}
            /\ faults = 0

----------------------------------------------------------------------------
(* publish_once.                                                           *)

\* Mutant of NextNumber: it is counted in the messages remembered.
NumberOfStored(l) == Cardinality({i \in DOMAIN stored : stored[i].live = l}) + 1

NextNumber(l) == number[l] + 1

Draft(w, id, text) ==
    [live |-> LiveOf(w), user |-> Owner[w][2], id |-> id, text |-> text,
     sequence |-> NextNumber(LiveOf(w))]

KeyOf(m) == <<m.live, m.user, m.id>>

\* The remembered messages of m's live, user and client_message_id.
Existing(m) == {e \in Range(stored) : KeyOf(e) = KeyOf(m)}

\* The memory broker takes no more lives.
NoRoom(l) == /\ backend = "memory"
             /\ number[l] = 0
             /\ Cardinality({k \in Lives : number[k] > 0}) >= MaxLives

\* What is forgotten when m is remembered: in memory, the oldest entries.
Kept(entries) ==
    IF backend = "memory" /\ Len(entries) > MaxEntries THEN Tail(entries) ELSE entries

\* Mutant of Stores: the client key is not written.
StoresNot(m) ==
    /\ Existing(m) = {}
    /\ ~NoRoom(m.live)
    /\ Cardinality(log) < MaxMessages
    /\ number' = [number EXCEPT ![m.live] = m.sequence]
    /\ log' = log \cup {m}
    /\ UNCHANGED <<stored, forgotten>>

\* A new message is numbered and remembered.
Stores(m) ==
    /\ Existing(m) = {}
    /\ ~NoRoom(m.live)
    /\ Cardinality(log) < MaxMessages
    /\ number' = [number EXCEPT ![m.live] = m.sequence]
    /\ log' = log \cup {m}
    /\ stored' = Kept(Append(stored, m))
    /\ forgotten' = forgotten \cup {KeyOf(e) : e \in Range(Append(stored, m)) \ Range(stored')}

----------------------------------------------------------------------------
(* live_chat with a message of its client.                                 *)

\* It is new: everyone in the live's set gets it.
Publishes(w, m) ==
    /\ At(w, "serving")
    /\ Stores(m)
    /\ Broadcast(m.live, m.sequence)
    /\ UNCHANGED <<backend, lost, faults>>

\* It was sent before: the sender alone is answered, and the memory broker
\* will forget it later.
Repeats(w, m) ==
    /\ At(w, "serving")
    /\ \E i \in DOMAIN stored :
          /\ KeyOf(stored[i]) = KeyOf(m)
          /\ stored[i].text = m.text
          /\ stored' = IF backend = "memory"
                       THEN Append(RemoveAt(stored, i), stored[i])
                       ELSE stored
    /\ UNCHANGED <<hubVars, backend, number, log, forgotten, lost, faults>>

\* The key was used for another text, or the broker has no room for the live:
\* the sender is told, and nothing happens.
Complains(w, m) ==
    /\ At(w, "serving")
    /\ (\E e \in Existing(m) : e.text # m.text) \/ (Existing(m) = {} /\ NoRoom(m.live))
    /\ UNCHANGED chatVars

\* The call of Redis raises, before or after the script ran, which no except
\* clause catches: the handler ends.
RedisRaises(w, m) ==
    /\ backend = "redis"
    /\ faults < MaxFaults
    /\ faults' = faults + 1
    /\ Leave(w)
    /\ \/ Stores(m) /\ lost' = lost \cup {m}
       \/ UNCHANGED <<number, stored, log, forgotten, lost>>
    /\ UNCHANGED backend

\* Redis forgets a client key after its TTL.
Expires ==
    /\ backend = "redis"
    /\ \E i \in DOMAIN stored :
          /\ stored' = RemoveAt(stored, i)
          /\ forgotten' = forgotten \cup {KeyOf(stored[i])}
    /\ UNCHANGED <<hubVars, backend, number, log, lost, faults>>

ChatNext ==
    \/ \E w \in Sockets :
          \/ HubStep(w) /\ UNCHANGED brokerVars
          \/ \E id \in Ids, text \in Texts :
                LET m == Draft(w, id, text)
                IN  \/ Publishes(w, m) \/ Repeats(w, m) \/ Complains(w, m)
                    \/ RedisRaises(w, m)
    \/ Expires

ChatSpec == ChatInit /\ [][ChatNext]_chatVars

----------------------------------------------------------------------------
(* Properties.                                                             *)

ChatTypeOK ==
    /\ HubTypeOK
    /\ backend \in {"redis", "memory"}
    /\ number \in [Lives -> 0 .. MaxMessages]
    /\ log \subseteq ChatMessage
    /\ Range(stored) \subseteq log
    /\ backend = "memory" => Len(stored) =< MaxEntries
    /\ lost \subseteq log
    /\ faults \in 0 .. MaxFaults

\* However often a client sends a message, through however many sockets, and
\* whether or not the broker's answer arrived, it is created once as long as
\* its key has not been forgotten.
CreatedOnce ==
    \A m, n \in log : m # n /\ KeyOf(m) = KeyOf(n) => KeyOf(m) \in forgotten

\* The last number a viewer heard and those on their way to him.
Hears(w) == (IF heard[w] = 0 THEN <<>> ELSE <<heard[w]>>) \o frames[w]

\* The broadcasts of a live reach viewers in the order of their numbers, and one
\* who is in the live's set misses none after the first one he hears,
\* but those whose answer was lost between Redis and the service.
NothingSkipped ==
    \A w \in Sockets :
        LET due == Hears(w) \o IF w \in members[LiveOf(w)] THEN <<number[LiveOf(w)] + 1>>
                               ELSE <<>>
        IN  \A i \in 1 .. Len(due) - 1 :
               /\ due[i] < due[i + 1]
               /\ w \in members[LiveOf(w)] =>
                     \A n \in due[i] + 1 .. due[i + 1] - 1 :
                        \E m \in lost : m.live = LiveOf(w) /\ m.sequence = n
============================================================================
