---------------------------- MODULE LiveService ----------------------------
(***************************************************************************)
(* The API service: LiveService over the `lives`, `ingest_sessions` and    *)
(* `outbox_events` tables.  A handler reads the row (store.get), decides   *)
(* on that snapshot, and writes with a compare-and-swap on the version     *)
(* (save, save_with_event); between the two the other API processes run.   *)
(* Inside one process the handlers are synchronous and never interleave,   *)
(* so a member of Handlers is an API process.                              *)
(***************************************************************************)
EXTENDS Naturals, FiniteSets

CONSTANTS Lives, Sessions, Generations, NoSession,
          Handlers       \* API processes, each with at most one call in flight

ASSUME NoSessionIsNone == NoSession \notin Sessions
ASSUME GenerationsArePositive == Generations \subseteq Nat \ {0}

VARIABLES lives,     \* table `lives`
          sessions,  \* table `ingest_sessions`: status of each <<live, session>>
          outbox,    \* table `outbox_events`
          call,      \* the call each process is serving, with its snapshot
          accepted   \* the callbacks answered with 202: <<kind, live, session>>

vars == <<lives, sessions, outbox, call, accepted>>

Lifecycle == INSTANCE LiveLifecycle

\* _live reads a row of LIVE_COLUMNS back into a Live.
Row   == Lifecycle!Row
Event == Lifecycle!Event

Idle == [op |-> "idle"]

Call == [op         : {"started", "stopped", "ready"},
         live       : Lives,
         session    : Sessions \cup {NoSession},
         generation : Generations \cup {0},
         authentic  : BOOLEAN,          \* the stream secret matches the hash
         read       : Row]              \* the snapshot store.get returned

----------------------------------------------------------------------------
(* The store.                                                              *)

Init == /\ lives = [l \in Lives |-> Lifecycle!Absent]
        /\ sessions = [p \in Lives \X Sessions |-> "none"]
        /\ outbox = {}
        /\ call = [h \in Handlers |-> Idle]
        /\ accepted = {}

\* Mutant of Unchanged: the UPDATE forgets "AND version = expected_version".
UnchangedIgnored(c) == TRUE

\* UPDATE lives ... WHERE id AND version = expected_version matched the row.
Unchanged(c) == lives[c.live].version = c.read.version

\* The partial unique index on ingest_sessions (live_id) of connected sessions
\* lets the session in: no other session of the live is connected.
SessionFits(c) ==
    \A s \in Sessions \ {c.session} : sessions[<<c.live, s>>] # "connected"

\* Mutant of SessionStatus: a stop leaves the session row alone.
SessionLeftConnected(old, type) ==
    IF type = "started" /\ old = "none" THEN "connected" ELSE old

\* INSERT ... ON CONFLICT (id) DO NOTHING on a start, UPDATE ... WHERE id AND
\* live_id on a stop.
SessionStatus(old, type) ==
    CASE type = "started" -> IF old = "none" THEN "connected" ELSE old
      [] type = "stopped" -> IF old = "none" THEN "none" ELSE "disconnected"

\* Mutants of EventOf: the event is built from the live that was read.
EventOfOldVersion(c, row, type) ==
    Lifecycle!Announce(type, c.live, c.session, c.read)
EventOfOldSession(c, row, type) ==
    Lifecycle!Announce(type, c.live, c.read.session, row)

\* The event built from the updated live, for the callback's session.
EventOf(c, row, type) == Lifecycle!Announce(type, c.live, c.session, row)

\* save_with_event: row, session and event are one transaction.
SaveWithEvent(c, row, type) ==
    /\ lives' = [lives EXCEPT ![c.live] = row]
    /\ sessions' = [sessions EXCEPT ![<<c.live, c.session>>] =
                                        SessionStatus(@, type)]
    /\ outbox' = outbox \cup {EventOf(c, row, type)}

\* save: the row only, no event.
Save(c, row) ==
    /\ lives' = [lives EXCEPT ![c.live] = row]
    /\ UNCHANGED <<sessions, outbox>>

StoreUnchanged == UNCHANGED <<lives, sessions, outbox>>

----------------------------------------------------------------------------
(* create_live, and the first half of the three callbacks: store.get.      *)

CreateLive(l) ==
    /\ lives[l].status = "absent"
    /\ lives' = [lives EXCEPT ![l] = Lifecycle!Created]
    /\ UNCHANGED <<sessions, outbox, call, accepted>>

Get(h, l, op, s, g, authentic) ==
    /\ call[h] = Idle
    /\ lives[l].status # "absent"
    /\ call' = [call EXCEPT ![h] =
                  [op |-> op, live |-> l, session |-> s, generation |-> g,
                   authentic |-> authentic, read |-> lives[l]]]
    /\ StoreUnchanged
    /\ UNCHANGED accepted

GetForStarted(h, l, s, authentic) == Get(h, l, "started", s, 0, authentic)
GetForStopped(h, l, s)            == Get(h, l, "stopped", s, 0, TRUE)
GetForReady(h, l, g)              == Get(h, l, "ready", NoSession, g, TRUE)

----------------------------------------------------------------------------
(* The second half: decide on the snapshot, write, answer.                 *)

Operational == {"ingesting", "provisioning", "live"}

\* The call is over; `ok` tells a 202 from an error answer.
Answer(h, ok) ==
    /\ call' = [call EXCEPT ![h] = Idle]
    /\ accepted' = IF ok
                   THEN accepted \cup
                          {<<call[h].op, call[h].live, call[h].session>>}
                   ELSE accepted

SameSession(c) == c.read.session = c.session /\ c.read.status \in Operational
MayStart(c)    == c.authentic /\ ~SameSession(c) /\ c.read.status = "created"

IngestStarted(h) ==
    LET c == call[h]
    IN  /\ c.op = "started"
        /\ \/ /\ ~c.authentic \/ (~SameSession(c) /\ c.read.status # "created")
              /\ StoreUnchanged /\ Answer(h, FALSE)
           \/ /\ c.authentic /\ SameSession(c)
              /\ StoreUnchanged /\ Answer(h, TRUE)
           \/ /\ MayStart(c) /\ SessionFits(c) /\ Unchanged(c)
              /\ SaveWithEvent(c, Lifecycle!Started(c.read, c.session), "started")
              /\ Answer(h, TRUE)
           \/ /\ MayStart(c) /\ ~(SessionFits(c) /\ Unchanged(c))
              /\ StoreUnchanged /\ Answer(h, FALSE)

NothingToStop(c) == \/ c.read.session # c.session
                    \/ c.read.status \in {"stopping", "ended"}
MayStop(c) == /\ c.read.session = c.session
              /\ c.read.status \in Operational \cup {"failed"}

IngestStopped(h) ==
    LET c == call[h]
    IN  /\ c.op = "stopped"
        /\ \/ /\ \/ c.read.session = NoSession
                 \/ ~NothingToStop(c) /\ ~MayStop(c)
              /\ StoreUnchanged /\ Answer(h, FALSE)
           \/ /\ c.read.session # NoSession /\ NothingToStop(c)
              /\ StoreUnchanged /\ Answer(h, TRUE)
           \/ /\ MayStop(c) /\ Unchanged(c)
              /\ SaveWithEvent(c, Lifecycle!Ended(c.read), "stopped")
              /\ Answer(h, TRUE)
           \/ /\ MayStop(c) /\ ~Unchanged(c)
              /\ StoreUnchanged /\ Answer(h, FALSE)

\* Mutants of AlreadyReady: the duplicate report is not recognised (> for >=),
\* or the generation is not compared at all.
AlreadyReadyStrict(c) == /\ c.read.status = "live"
                         /\ c.read.generation > c.generation
AlreadyReadyNever(c) == FALSE

AlreadyReady(c) == /\ c.read.status = "live"
                   /\ c.read.generation >= c.generation

WorkerReady(h) ==
    LET c == call[h]
    IN  /\ c.op = "ready"
        /\ call' = [call EXCEPT ![h] = Idle]
        /\ UNCHANGED accepted
        /\ \/ /\ AlreadyReady(c) \/ c.read.status \notin Operational
              /\ StoreUnchanged
           \/ /\ ~AlreadyReady(c) /\ c.read.status \in Operational
              /\ Unchanged(c)
              /\ Save(c, Lifecycle!Playing(c.read, c.generation))
           \/ /\ ~AlreadyReady(c) /\ c.read.status \in Operational
              /\ ~Unchanged(c)
              /\ StoreUnchanged

\* The process dies between its read and its write: nothing is stored.
HandlerDies(h) ==
    /\ call[h] # Idle
    /\ call' = [call EXCEPT ![h] = Idle]
    /\ StoreUnchanged
    /\ UNCHANGED accepted

Next ==
    \/ \E l \in Lives : CreateLive(l)
    \/ \E h \in Handlers :
          \/ \E l \in Lives, s \in Sessions :
                \/ \E authentic \in BOOLEAN : GetForStarted(h, l, s, authentic)
                \/ GetForStopped(h, l, s)
          \/ \E l \in Lives, g \in Generations : GetForReady(h, l, g)
          \/ IngestStarted(h)
          \/ IngestStopped(h)
          \/ WorkerReady(h)
          \/ HandlerDies(h)

Spec == Init /\ [][Next]_vars

----------------------------------------------------------------------------
(* Properties.                                                             *)

TypeOK ==
    /\ lives \in [Lives -> Row]
    /\ sessions \in [Lives \X Sessions -> {"none", "connected", "disconnected"}]
    /\ outbox \subseteq Event
    /\ call \in [Handlers -> Call \cup {Idle}]
    /\ accepted \subseteq {"started", "stopped"} \X Lives \X Sessions

\* The outbox says exactly what happened to the row: a started event exists
\* just when the row has an owner, a stopped event just when the row is ended,
\* never two of a kind, both name the owner, and the stopped event carries the
\* row's last version, above the started event's.  (ingest_started and
\* ingest_stopped racing each other and worker_ready in several processes.)
EventsOf(l, type) == {e \in outbox : e.live = l /\ e.type = type}

EventsMatchRow ==
    \A l \in Lives :
        /\ (EventsOf(l, "started") # {}) <=> (lives[l].session # NoSession)
        /\ (EventsOf(l, "stopped") # {}) <=> (lives[l].status = "ended")
        /\ \A e, f \in outbox :
              e.live = l /\ f.live = l /\ e.type = f.type => e = f
        /\ \A e \in outbox : e.live = l => e.session = lives[l].session
        /\ \A e \in EventsOf(l, "stopped") : e.version = lives[l].version
        /\ \A e \in EventsOf(l, "started") :
              \/ e.version < lives[l].version
              \/ e.version = lives[l].version /\ lives[l].status = "ingesting"

\* Whoever holds the stream key, only one publisher is ever let in: a
\* published callback answered with 202 names the row's owner, even when two
\* publishers race through two processes and the first has left again.
OnePublisher ==
    \A l \in Lives, s \in Sessions :
        <<"started", l, s>> \in accepted => lives[l].session = s

\* ingest_sessions agrees with `lives`: a session is connected just while it
\* owns a live that has not ended (two tables written by two statements).
SessionsMatchRow ==
    \A l \in Lives, s \in Sessions :
        sessions[<<l, s>>] = "connected" <=>
            lives[l].session = s /\ lives[l].status \in Operational

\* A publish-done callback answered with 202 to the owner means the live has
\* ended and stays so, whatever a late worker_ready is about to write.
AcceptedStopIsFinal ==
    \A l \in Lives, s \in Sessions :
        <<"stopped", l, s>> \in accepted /\ lives[l].session = s =>
            lives[l].status = "ended"

\* Playback never goes back to an older worker generation, although workers of
\* two generations report in any order through any process.
PlaybackNeverGoesBack ==
    [][\A l \in Lives : lives'[l].generation >= lives[l].generation]_vars

\* Reading, deciding and swapping in several processes is indistinguishable
\* from the atomic transitions of LiveLifecycle.
LifecycleSpec == Lifecycle!Spec
============================================================================
