----------------------------- MODULE ApiProofs -----------------------------
(***************************************************************************)
(* Proofs about LiveService and about Ingest in front of it, for every set *)
(* of lives, sessions, generations and API processes and any number of     *)
(* faults.  First the API: IInv adds to the checked invariants what makes  *)
(* compare-and-swap sound, namely that a snapshot a handler still holds is *)
(* the current row or an older version of it, and that what it shows about *)
(* ownership and about the end of the live still holds.                    *)
(*                                                                         *)
(* Then the callbacks, whose steps at the API are LiveService's, so that   *)
(* IInv is kept.  On top of it come which callback stands behind each      *)
(* call, that a callback of nginx's present life is one nginx has sent,    *)
(* and what nginx was told.                                                *)
(***************************************************************************)
EXTENDS Ingest, TLAPS

(***************************************************************************)
(* LiveService.                                                            *)
(***************************************************************************)

\* The statuses a row really takes, and which of them have an owner.
RowOK ==
    \A l \in Lives :
        /\ lives[l].status \in {"absent", "created", "ingesting", "live", "ended"}
        /\ lives[l].session = NoSession <=> lives[l].status \in {"absent", "created"}
        /\ lives[l].status = "absent" => lives[l] = Lifecycle!Absent
        /\ lives[l].status \in {"created", "ingesting"} => lives[l].generation = 0

\* Only the owner's session was ever inserted into ingest_sessions.
SessionsOK ==
    \A l \in Lives, s \in Sessions :
        sessions[<<l, s>>] # "none" => lives[l].session = s

\* A snapshot in a handler's hands is the row or an older version of it.
SnapshotOK(c) ==
    LET row == lives[c.live]
    IN  /\ row.status # "absent"
        /\ c.read.status \in {"created", "ingesting", "live", "ended"}
        /\ c.read.version =< row.version
        /\ c.read.version = row.version => c.read = row
        /\ c.read.session # NoSession => row.session = c.read.session
        /\ c.read.status = "ended" => row.status = "ended"

CallOK(c) ==
    /\ c.op \in {"started", "stopped"} => c.session \in Sessions
    /\ c.op = "ready" => c.generation \in Generations
    /\ SnapshotOK(c)

CallsOK == \A h \in Handlers : call[h] # Idle => CallOK(call[h])

\* A departure is only ever accepted for a live that has an owner.
StoppedHasOwner ==
    \A l \in Lives, s \in Sessions :
        <<"stopped", l, s>> \in accepted => lives[l].session # NoSession

IInv == /\ TypeOK
        /\ RowOK
        /\ SessionsOK
        /\ CallsOK
        /\ EventsMatchRow
        /\ OnePublisher
        /\ SessionsMatchRow
        /\ AcceptedStopIsFinal
        /\ StoppedHasOwner

----------------------------------------------------------------------------
(* Facts about the rows the four transitions write.                        *)

LEMMA RowTypes ==
    /\ Lifecycle!Absent \in Row
    /\ Lifecycle!Created \in Row
    /\ \A row \in Row, s \in Sessions : Lifecycle!Started(row, s) \in Row
    /\ \A row \in Row, g \in Generations : Lifecycle!Playing(row, g) \in Row
    /\ \A row \in Row : Lifecycle!Ended(row) \in Row
<1> USE DEF Row, Lifecycle!Row, Lifecycle!LiveStatus
<1>1. Lifecycle!Absent \in Row
  BY DEF Lifecycle!Absent
<1>2. Lifecycle!Created \in Row
  BY <1>1 DEF Lifecycle!Created
<1>3. ASSUME NEW row \in Row, NEW s \in Sessions
      PROVE  Lifecycle!Started(row, s) \in Row
  <2> DEFINE v == row.version + 1
  <2>1. v \in Nat
    OBVIOUS
  <2>2. Lifecycle!Started(row, s) =
           [row EXCEPT !.status = "ingesting", !.session = s, !.version = v]
    BY DEF Lifecycle!Started
  <2> HIDE DEF v
  <2> QED
    BY <2>1, <2>2
<1>4. ASSUME NEW row \in Row, NEW g \in Generations
      PROVE  Lifecycle!Playing(row, g) \in Row
  <2> DEFINE v == row.version + 1
  <2>1. v \in Nat /\ g \in Nat
    BY GenerationsArePositive
  <2>2. Lifecycle!Playing(row, g) =
           [row EXCEPT !.status = "live", !.generation = g, !.version = v]
    BY DEF Lifecycle!Playing
  <2> HIDE DEF v
  <2> QED
    BY <2>1, <2>2
<1>5. ASSUME NEW row \in Row
      PROVE  Lifecycle!Ended(row) \in Row
  <2> DEFINE v == row.version + 1
  <2>1. v \in Nat
    OBVIOUS
  <2>2. Lifecycle!Ended(row) =
           [row EXCEPT !.status = "ended", !.desired = "stopped", !.version = v]
    BY DEF Lifecycle!Ended
  <2> HIDE DEF v
  <2> QED
    BY <2>1, <2>2
<1> QED
  BY <1>1, <1>2, <1>3, <1>4, <1>5

LEMMA RowFields ==
    ASSUME NEW row \in Row, NEW s \in Sessions, NEW g \in Generations
    PROVE  /\ Lifecycle!Started(row, s).status = "ingesting"
           /\ Lifecycle!Started(row, s).session = s
           /\ Lifecycle!Started(row, s).generation = row.generation
           /\ Lifecycle!Started(row, s).version = row.version + 1
           /\ Lifecycle!Playing(row, g).status = "live"
           /\ Lifecycle!Playing(row, g).session = row.session
           /\ Lifecycle!Playing(row, g).generation = g
           /\ Lifecycle!Playing(row, g).version = row.version + 1
           /\ Lifecycle!Ended(row).status = "ended"
           /\ Lifecycle!Ended(row).session = row.session
           /\ Lifecycle!Ended(row).generation = row.generation
           /\ Lifecycle!Ended(row).version = row.version + 1
BY DEF Row, Lifecycle!Row, Lifecycle!Started, Lifecycle!Playing, Lifecycle!Ended

\* A handler that serves a call holds a Call.
LEMMA BusyHandler ==
    ASSUME TypeOK, NEW h \in Handlers, call[h].op # "idle"
    PROVE  call[h] \in Call /\ call[h] # Idle
BY DEF TypeOK, Idle

\* What a committed write may do to the row of a live it knows: raise the
\* version, keep an owner, keep an end.
Advances(row, new) ==
    /\ new.status # "absent"
    /\ new.version > row.version
    /\ row.session # NoSession => new.session = row.session
    /\ row.status = "ended" => new.status = "ended"

\* Other handlers' snapshots stay good when a row advances and calls end.
LEMMA SnapshotsStayGood ==
    ASSUME IInv, NEW l \in Lives, NEW new \in Row,
           Advances(lives[l], new),
           lives' = [lives EXCEPT ![l] = new],
           \A h \in Handlers : call'[h] \in {call[h], Idle}
    PROVE  CallsOK'
<1> SUFFICES ASSUME NEW h \in Handlers, call'[h] # Idle
             PROVE  CallOK(call[h])'
  BY DEF CallsOK
<1>1. call'[h] = call[h] /\ call[h] \in Call /\ CallOK(call[h])
  BY DEF IInv, TypeOK, CallsOK
<1> DEFINE c == call[h]
<1>2. lives \in [Lives -> Row] /\ c.live \in Lives /\ c.read \in Row
  BY <1>1 DEF IInv, TypeOK, Call
<1>3. CASE c.live # l
  BY <1>1, <1>2, <1>3 DEF CallOK, SnapshotOK
<1>4. CASE c.live = l
  <2>1. lives'[c.live] = new
    BY <1>2, <1>4
  <2>2. c.read.version \in Nat /\ lives[l].version \in Nat /\ new.version \in Nat
    BY <1>2 DEF Row, Lifecycle!Row
  <2>3. SnapshotOK(c)
    BY <1>1 DEF CallOK
  <2> QED
    BY <1>1, <1>4, <2>1, <2>2, <2>3 DEF CallOK, SnapshotOK, Advances
<1> QED
  BY <1>3, <1>4

----------------------------------------------------------------------------
(* One lemma per action.                                                   *)

LEMMA InitIInv == Init => IInv
<1> SUFFICES ASSUME Init PROVE IInv
  OBVIOUS
<1>1. TypeOK
  BY RowTypes DEF Init, TypeOK
<1>2. \A l \in Lives : lives[l] = Lifecycle!Absent
  BY DEF Init
<1>3. /\ Lifecycle!Absent.status = "absent"
      /\ Lifecycle!Absent.session = NoSession
  BY DEF Lifecycle!Absent
<1>4. RowOK
  BY <1>2, <1>3 DEF RowOK
<1>5. SessionsOK /\ CallsOK
  BY DEF Init, SessionsOK, CallsOK
<1>6. EventsMatchRow
  BY <1>2, <1>3 DEF Init, EventsMatchRow, EventsOf
<1>7. OnePublisher /\ AcceptedStopIsFinal /\ StoppedHasOwner
  BY DEF Init, OnePublisher, AcceptedStopIsFinal, StoppedHasOwner
<1>8. SessionsMatchRow
  BY <1>2, <1>3 DEF Init, SessionsMatchRow, Operational
<1> QED
  BY <1>1, <1>4, <1>5, <1>6, <1>7, <1>8 DEF IInv

LEMMA CreateLiveStep ==
    ASSUME IInv, NEW l \in Lives, CreateLive(l)
    PROVE  IInv'
<1> DEFINE new == Lifecycle!Created
<1> USE NoSessionIsNone
<1>1. lives' = [lives EXCEPT ![l] = new] /\ new \in Row
  BY RowTypes DEF CreateLive
<1>2. /\ new.status = "created" /\ new.session = NoSession
      /\ new.version = 1 /\ new.generation = 0
  BY DEF Lifecycle!Created, Lifecycle!Absent
<1>3. /\ lives[l] = Lifecycle!Absent
      /\ lives[l].status = "absent"
      /\ lives[l].session = NoSession
      /\ lives[l].version = 0
  BY DEF CreateLive, IInv, RowOK, Lifecycle!Absent
<1>4. lives \in [Lives -> Row]
  BY DEF IInv, TypeOK
<1>5. UNCHANGED <<sessions, outbox, call, accepted>>
  BY DEF CreateLive
<1> HIDE DEF new
<1>6. TypeOK'
  BY <1>1, <1>4, <1>5 DEF IInv, TypeOK
<1>7. RowOK'
  BY <1>1, <1>2, <1>4 DEF IInv, RowOK, Lifecycle!Absent
<1>8. SessionsOK'
  BY <1>1, <1>2, <1>3, <1>4, <1>5 DEF IInv, SessionsOK
<1>9. CallsOK'
  <2>1. Advances(lives[l], new)
    BY <1>2, <1>3 DEF Advances
  <2> QED
    BY <1>1, <1>5, <2>1, SnapshotsStayGood
<1>10. EventsMatchRow'
  <2>1. EventsOf(l, "started") = {} /\ EventsOf(l, "stopped") = {}
    BY <1>3 DEF IInv, EventsMatchRow
  <2>2. \A k \in Lives : /\ lives'[k].session = lives[k].session
                         /\ k # l => lives'[k] = lives[k]
    BY <1>1, <1>2, <1>3, <1>4
  <2>3. \A k \in Lives, t \in {"started", "stopped"} : EventsOf(k, t)' = EventsOf(k, t)
    BY <1>5 DEF EventsOf
  <2> QED
    BY <1>1, <1>2, <1>3, <1>4, <1>5, <2>1, <2>2, <2>3 DEF IInv, EventsMatchRow
<1>11. OnePublisher' /\ AcceptedStopIsFinal' /\ StoppedHasOwner'
  BY <1>1, <1>2, <1>3, <1>4, <1>5
     DEF IInv, OnePublisher, AcceptedStopIsFinal, StoppedHasOwner
<1>12. SessionsMatchRow'
  BY <1>1, <1>2, <1>3, <1>4, <1>5 DEF IInv, SessionsMatchRow, Operational
<1> QED
  BY <1>6, <1>7, <1>8, <1>9, <1>10, <1>11, <1>12 DEF IInv

LEMMA GetStep ==
    ASSUME IInv, NEW h \in Handlers, NEW l \in Lives,
           NEW op \in {"started", "stopped", "ready"},
           NEW s \in Sessions \cup {NoSession}, NEW g \in Generations \cup {0},
           NEW authentic \in BOOLEAN,
           op \in {"started", "stopped"} => s \in Sessions,
           op = "ready" => g \in Generations,
           Get(h, l, op, s, g, authentic)
    PROVE  IInv'
<1> DEFINE c == [op |-> op, live |-> l, session |-> s, generation |-> g,
                 authentic |-> authentic, read |-> lives[l]]
<1>1. /\ call' = [call EXCEPT ![h] = c]
      /\ UNCHANGED <<lives, sessions, outbox, accepted>>
      /\ lives[l].status # "absent"
  BY DEF Get, StoreUnchanged
<1>2. TypeOK
  BY DEF IInv
<1>3. lives[l] \in Row
  BY <1>2 DEF TypeOK
<1>4. c \in Call
  BY <1>3 DEF Call
<1>5. CallOK(c)
  BY <1>1, <1>3 DEF CallOK, SnapshotOK, Row, Lifecycle!Row, IInv, RowOK
<1> HIDE DEF c
<1>6. TypeOK'
  BY <1>1, <1>2, <1>4 DEF TypeOK
<1>7. CallsOK'
  <2> SUFFICES ASSUME NEW k \in Handlers, call'[k] # Idle
               PROVE  CallOK(call[k])'
    BY DEF CallsOK
  <2>1. CASE k = h
    <3>1. call'[k] = c
      BY <1>1, <1>2, <2>1 DEF TypeOK
    <3> QED
      BY <1>1, <1>5, <3>1 DEF CallOK, SnapshotOK
  <2>2. CASE k # h
    <3>1. call'[k] = call[k]
      BY <1>1, <1>2, <2>2 DEF TypeOK
    <3> QED
      BY <1>1, <3>1 DEF IInv, CallsOK, CallOK, SnapshotOK
  <2> QED
    BY <2>1, <2>2
<1> QED
  BY <1>1, <1>6, <1>7
     DEF IInv, RowOK, SessionsOK, EventsMatchRow, EventsOf, OnePublisher,
         SessionsMatchRow, AcceptedStopIsFinal, StoppedHasOwner

\* A call that ends without a write; what it accepted, the row bears out.
LEMMA QuietStep ==
    ASSUME IInv, NEW h \in Handlers,
           StoreUnchanged,
           call' = [call EXCEPT ![h] = Idle],
           accepted' \subseteq {"started", "stopped"} \X Lives \X Sessions,
           OnePublisher', AcceptedStopIsFinal', StoppedHasOwner'
    PROVE  IInv'
<1>1. TypeOK' 
  BY DEF IInv, TypeOK, StoreUnchanged
<1>2. CallsOK'
  <2> SUFFICES ASSUME NEW k \in Handlers, call'[k] # Idle
               PROVE  CallOK(call[k])'
    BY DEF CallsOK
  <2>1. call'[k] = call[k]
    BY DEF IInv, TypeOK
  <2> QED
    BY <2>1 DEF StoreUnchanged, IInv, CallsOK, CallOK, SnapshotOK
<1> QED
  BY <1>1, <1>2
     DEF IInv, RowOK, SessionsOK, EventsMatchRow, EventsOf, SessionsMatchRow,
         StoreUnchanged

LEMMA HandlerDiesStep ==
    ASSUME IInv, NEW h \in Handlers, HandlerDies(h)
    PROVE  IInv'
<1>1. /\ StoreUnchanged
      /\ call' = [call EXCEPT ![h] = Idle]
      /\ UNCHANGED <<lives, accepted>>
  BY DEF HandlerDies, StoreUnchanged
<1>2. /\ accepted' \subseteq {"started", "stopped"} \X Lives \X Sessions
      /\ OnePublisher' /\ AcceptedStopIsFinal' /\ StoppedHasOwner'
  BY <1>1
     DEF IInv, TypeOK, OnePublisher, AcceptedStopIsFinal, StoppedHasOwner
<1> QED
  BY <1>1, <1>2, QuietStep

\* A write that matched the expected version saw the row as it is.
LEMMA SwapSeesRow ==
    ASSUME IInv, NEW h \in Handlers, call[h] # Idle, Unchanged(call[h])
    PROVE  /\ call[h] \in Call
           /\ call[h].live \in Lives
           /\ call[h].read = lives[call[h].live]
           /\ lives[call[h].live] \in Row
           /\ lives[call[h].live].version \in Nat
<1>1. call[h] \in Call
  BY DEF IInv, TypeOK
<1>2. SnapshotOK(call[h])
  BY DEF IInv, CallsOK, CallOK
<1> QED
  BY <1>1, <1>2
     DEF Unchanged, SnapshotOK, Call, IInv, TypeOK, Row, Lifecycle!Row

LEMMA StartWritten ==
    ASSUME IInv, NEW h \in Handlers, NEW l \in Lives, NEW s \in Sessions,
           lives[l].status = "created",
           lives' = [lives EXCEPT ![l] = Lifecycle!Started(lives[l], s)],
           sessions' = [sessions EXCEPT ![<<l, s>>] = SessionStatus(@, "started")],
           outbox' = outbox \cup
              {Lifecycle!Announce("started", l, s, Lifecycle!Started(lives[l], s))},
           call' = [call EXCEPT ![h] = Idle],
           accepted' = accepted \cup {<<"started", l, s>>}
    PROVE  IInv'
<1> DEFINE new == Lifecycle!Started(lives[l], s)
           e == Lifecycle!Announce("started", l, s, new)
<1> USE NoSessionIsNone
<1>1. TypeOK
  BY DEF IInv
<1>2. lives[l] \in Row /\ lives[l].version \in Nat
  BY <1>1 DEF TypeOK, Row, Lifecycle!Row
<1>4. lives[l].session = NoSession
  BY DEF IInv, RowOK
<1>5. /\ new \in Row /\ new.status = "ingesting" /\ new.session = s
      /\ new.version = lives[l].version + 1
      /\ new.generation = lives[l].generation
  BY <1>2, RowTypes DEF Lifecycle!Started, Row, Lifecycle!Row
<1>6. e = [live |-> l, type |-> "started", session |-> s, version |-> new.version]
  BY DEF Lifecycle!Announce
<1>7. /\ lives' = [lives EXCEPT ![l] = new]
      /\ outbox' = outbox \cup {e}
  OBVIOUS
<1>8. \A k \in Sessions : sessions[<<l, k>>] = "none"
  BY <1>4 DEF IInv, SessionsOK
<1>9. sessions' = [sessions EXCEPT ![<<l, s>>] = "connected"]
  BY <1>1, <1>8 DEF SessionStatus, TypeOK
<1> HIDE DEF new, e
<1>11. TypeOK'
  <2>1. e \in Event
    BY <1>2, <1>5, <1>6 DEF Event, Lifecycle!Event, Row, Lifecycle!Row
  <2>2. accepted' \subseteq {"started", "stopped"} \X Lives \X Sessions
    BY <1>2, <1>7, <1>1 DEF TypeOK
  <2>3. outbox' \subseteq Event
    BY <1>7, <1>1, <2>1 DEF TypeOK
  <2>4. lives' \in [Lives -> Row]
    BY <1>5, <1>7, <1>1 DEF TypeOK
  <2>5. sessions' \in [Lives \X Sessions -> {"none", "connected", "disconnected"}]
    BY <1>9, <1>1 DEF TypeOK
  <2>6. call' \in [Handlers -> Call \cup {Idle}]
    BY <1>7, <1>1 DEF TypeOK
  <2> QED
    BY <2>2, <2>3, <2>4, <2>5, <2>6 DEF TypeOK
<1>12. \A k \in Lives : lives'[k] = IF k = l THEN new ELSE lives[k]
  BY <1>7, <1>1 DEF TypeOK
<1>13. \A p \in Lives \X Sessions :
          sessions'[p] = IF p = <<l, s>> THEN "connected" ELSE sessions[p]
  BY <1>9, <1>1 DEF TypeOK
<1>14. RowOK'
  BY <1>5, <1>12 DEF IInv, RowOK
<1>15. SessionsOK'
  BY <1>4, <1>5, <1>8, <1>12, <1>13 DEF IInv, SessionsOK
<1>16. CallsOK'
  <2>1. Advances(lives[l], new)
    BY <1>2, <1>4, <1>5 DEF Advances
  <2>2. \A k \in Handlers : call'[k] \in {call[k], Idle}
    BY <1>7, <1>1 DEF TypeOK
  <2> QED
    BY <1>2, <1>5, <1>7, <2>1, <2>2, SnapshotsStayGood
<1>17. EventsMatchRow'
  <2>1. EventsOf(l, "started") = {} /\ EventsOf(l, "stopped") = {}
    BY <1>2, <1>4 DEF IInv, EventsMatchRow
  <2>2. \A f \in outbox : f.live # l
    BY <1>2, <1>1, <2>1 DEF EventsOf, TypeOK, Event, Lifecycle!Event
  <2>3. \A k \in Lives, t \in {"started", "stopped"} :
          EventsOf(k, t)' = IF k = l THEN (IF t = "started" THEN {e} ELSE {})
                            ELSE EventsOf(k, t)
    BY <1>6, <1>7, <2>2 DEF EventsOf
  <2>4. /\ EventsOf(l, "started")' = {e}
        /\ EventsOf(l, "stopped")' = {}
    BY <1>2, <2>3
  <2> SUFFICES ASSUME NEW k \in Lives
               PROVE  /\ (EventsOf(k, "started")' # {}) <=> (lives'[k].session # NoSession)
                      /\ (EventsOf(k, "stopped")' # {}) <=> (lives'[k].status = "ended")
                      /\ \A f, g \in outbox' :
                            f.live = k /\ g.live = k /\ f.type = g.type => f = g
                      /\ \A f \in outbox' : f.live = k => f.session = lives'[k].session
                      /\ \A f \in EventsOf(k, "stopped")' : f.version = lives'[k].version
                      /\ \A f \in EventsOf(k, "started")' :
                            \/ f.version < lives'[k].version
                            \/ f.version = lives'[k].version /\ lives'[k].status = "ingesting"
    BY DEF EventsMatchRow
  <2>5. CASE k = l
    BY <1>5, <1>6, <1>7, <1>12, <2>2, <2>4, <2>5
  <2>6. CASE k # l
    BY <1>6, <1>7, <1>12, <2>3, <2>6 DEF IInv, EventsMatchRow
  <2> QED
    BY <2>5, <2>6
<1>18. OnePublisher'
  BY <1>4, <1>5, <1>7, <1>12 DEF IInv, OnePublisher
<1>19. AcceptedStopIsFinal' /\ StoppedHasOwner'
  BY <1>4, <1>5, <1>7, <1>12 DEF IInv, AcceptedStopIsFinal, StoppedHasOwner
<1>20. SessionsMatchRow'
  <2> SUFFICES ASSUME NEW m \in Lives, NEW k \in Sessions
               PROVE  sessions'[<<m, k>>] = "connected" <=>
                        lives'[m].session = k /\ lives'[m].status \in Operational
    BY DEF SessionsMatchRow, Operational
  <2>1. CASE m = l /\ k = s
    BY <1>5, <1>12, <1>13, <2>1 DEF Operational
  <2>2. CASE m = l /\ k # s
    BY <1>5, <1>8, <1>12, <1>13, <2>2
  <2>3. CASE m # l
    BY <1>12, <1>13, <2>3 DEF IInv, SessionsMatchRow, Operational
  <2> QED
    BY <2>1, <2>2, <2>3
<1> QED
  BY <1>11, <1>14, <1>15, <1>16, <1>17, <1>18, <1>19, <1>20 DEF IInv

LEMMA StopWritten ==
    ASSUME IInv, NEW h \in Handlers, NEW l \in Lives, NEW s \in Sessions,
           lives[l].status \in {"ingesting", "live"},
           lives[l].session = s,
           lives' = [lives EXCEPT ![l] = Lifecycle!Ended(lives[l])],
           sessions' = [sessions EXCEPT ![<<l, s>>] = SessionStatus(@, "stopped")],
           outbox' = outbox \cup
              {Lifecycle!Announce("stopped", l, s, Lifecycle!Ended(lives[l]))},
           call' = [call EXCEPT ![h] = Idle],
           accepted' = accepted \cup {<<"stopped", l, s>>}
    PROVE  IInv'
<1> DEFINE new == Lifecycle!Ended(lives[l])
           e == Lifecycle!Announce("stopped", l, s, new)
<1> USE NoSessionIsNone
<1>1. TypeOK
  BY DEF IInv
<1>2. lives[l] \in Row /\ lives[l].version \in Nat
  BY <1>1 DEF TypeOK, Row, Lifecycle!Row
<1>3. /\ new \in Row /\ new.status = "ended" /\ new.session = s
      /\ new.version = lives[l].version + 1
  BY <1>2, RowTypes DEF Lifecycle!Ended, Row, Lifecycle!Row
<1>4. e = [live |-> l, type |-> "stopped", session |-> s, version |-> new.version]
  BY DEF Lifecycle!Announce
<1>5. /\ lives' = [lives EXCEPT ![l] = new]
      /\ outbox' = outbox \cup {e}
  OBVIOUS
<1>6. sessions[<<l, s>>] = "connected"
  BY DEF IInv, SessionsMatchRow, Operational
<1>7. sessions' = [sessions EXCEPT ![<<l, s>>] = "disconnected"]
  BY <1>1, <1>6 DEF SessionStatus, TypeOK
<1> HIDE DEF new, e
<1>8. TypeOK'
  <2>1. e \in Event
    BY <1>3, <1>4 DEF Event, Lifecycle!Event, Row, Lifecycle!Row
  <2>2. accepted' \subseteq {"started", "stopped"} \X Lives \X Sessions
    BY <1>1 DEF TypeOK
  <2>3. outbox' \subseteq Event
    BY <1>1, <1>5, <2>1 DEF TypeOK
  <2>4. lives' \in [Lives -> Row]
    BY <1>1, <1>3, <1>5 DEF TypeOK
  <2>5. sessions' \in [Lives \X Sessions -> {"none", "connected", "disconnected"}]
    BY <1>1, <1>7 DEF TypeOK
  <2>6. call' \in [Handlers -> Call \cup {Idle}]
    BY <1>1 DEF TypeOK
  <2> QED
    BY <2>2, <2>3, <2>4, <2>5, <2>6 DEF TypeOK
<1>9. \A k \in Lives : lives'[k] = IF k = l THEN new ELSE lives[k]
  BY <1>1, <1>5 DEF TypeOK
<1>10. \A p \in Lives \X Sessions :
          sessions'[p] = IF p = <<l, s>> THEN "disconnected" ELSE sessions[p]
  BY <1>1, <1>7 DEF TypeOK
<1>11. RowOK'
  BY <1>3, <1>9 DEF IInv, RowOK
<1>12. SessionsOK'
  BY <1>3, <1>9, <1>10 DEF IInv, SessionsOK
<1>13. CallsOK'
  <2>1. Advances(lives[l], new)
    BY <1>2, <1>3 DEF Advances
  <2>2. \A k \in Handlers : call'[k] \in {call[k], Idle}
    BY <1>1 DEF TypeOK
  <2> QED
    BY <1>3, <1>5, <2>1, <2>2, SnapshotsStayGood
<1>14. EventsMatchRow'
  <2>1. EventsOf(l, "started") # {} /\ EventsOf(l, "stopped") = {}
    BY DEF IInv, EventsMatchRow
  <2>2. \A f \in outbox : f.live = l => f.type = "started" /\ f.session = s
    BY <1>1, <2>1 DEF EventsOf, TypeOK, Event, Lifecycle!Event, IInv, EventsMatchRow
  <2>3. \A k \in Lives, t \in {"started", "stopped"} :
          EventsOf(k, t)' = IF k = l /\ t = "stopped" THEN {e} ELSE EventsOf(k, t)
    BY <1>4, <1>5, <2>1 DEF EventsOf
  <2>4. \A f \in EventsOf(l, "started") : f.version < new.version
    <3> SUFFICES ASSUME NEW f \in EventsOf(l, "started")
                 PROVE  f.version < new.version
      OBVIOUS
    <3>1. f.version \in Nat
      BY <1>1 DEF EventsOf, TypeOK, Event, Lifecycle!Event
    <3>2. f.version =< lives[l].version
      BY <1>2, <3>1 DEF IInv, EventsMatchRow
    <3> QED
      BY <1>2, <1>3, <3>1, <3>2
  <2> SUFFICES ASSUME NEW k \in Lives
               PROVE  /\ (EventsOf(k, "started")' # {}) <=> (lives'[k].session # NoSession)
                      /\ (EventsOf(k, "stopped")' # {}) <=> (lives'[k].status = "ended")
                      /\ \A f, g \in outbox' :
                            f.live = k /\ g.live = k /\ f.type = g.type => f = g
                      /\ \A f \in outbox' : f.live = k => f.session = lives'[k].session
                      /\ \A f \in EventsOf(k, "stopped")' : f.version = lives'[k].version
                      /\ \A f \in EventsOf(k, "started")' :
                            \/ f.version < lives'[k].version
                            \/ f.version = lives'[k].version /\ lives'[k].status = "ingesting"
    BY DEF EventsMatchRow
  <2>5. CASE k = l
    <3>1. EventsOf(k, "started")' = EventsOf(l, "started") /\ EventsOf(k, "stopped")' = {e}
      BY <2>3, <2>5
    <3>2. \A f, g \in outbox' : f.live = k /\ g.live = k /\ f.type = g.type => f = g
      BY <1>4, <1>5, <2>2, <2>5 DEF IInv, EventsMatchRow
    <3>3. \A f \in outbox' : f.live = k => f.session = s
      BY <1>4, <1>5, <2>2, <2>5
    <3> QED
      BY <1>3, <1>4, <1>9, <2>1, <2>4, <2>5, <3>1, <3>2, <3>3
  <2>6. CASE k # l
    BY <1>4, <1>5, <1>9, <2>3, <2>6 DEF IInv, EventsMatchRow
  <2> QED
    BY <2>5, <2>6
<1>15. OnePublisher'
  BY <1>3, <1>9 DEF IInv, OnePublisher
<1>16. AcceptedStopIsFinal' /\ StoppedHasOwner'
  BY <1>3, <1>9 DEF IInv, AcceptedStopIsFinal, StoppedHasOwner
<1>17. SessionsMatchRow'
  <2> SUFFICES ASSUME NEW m \in Lives, NEW k \in Sessions
               PROVE  sessions'[<<m, k>>] = "connected" <=>
                        lives'[m].session = k /\ lives'[m].status \in Operational
    BY DEF SessionsMatchRow, Operational
  <2>1. CASE m = l /\ k = s
    BY <1>3, <1>9, <1>10, <2>1 DEF Operational
  <2>2. CASE m = l /\ k # s
    BY <1>3, <1>9, <1>10, <2>2 DEF IInv, SessionsMatchRow
  <2>3. CASE m # l
    BY <1>9, <1>10, <2>3 DEF IInv, SessionsMatchRow, Operational
  <2> QED
    BY <2>1, <2>2, <2>3
<1> QED
  BY <1>8, <1>11, <1>12, <1>13, <1>14, <1>15, <1>16, <1>17 DEF IInv

LEMMA ReadyWritten ==
    ASSUME IInv, NEW h \in Handlers, NEW l \in Lives, NEW g \in Generations,
           lives[l].status \in {"ingesting", "live"},
           lives' = [lives EXCEPT ![l] = Lifecycle!Playing(lives[l], g)],
           call' = [call EXCEPT ![h] = Idle],
           UNCHANGED <<sessions, outbox, accepted>>
    PROVE  IInv'
<1> DEFINE new == Lifecycle!Playing(lives[l], g)
<1>1. TypeOK
  BY DEF IInv
<1>2. lives[l] \in Row /\ lives[l].version \in Nat
  BY <1>1 DEF TypeOK, Row, Lifecycle!Row
<1>3. /\ new \in Row /\ new.status = "live" /\ new.session = lives[l].session
      /\ new.version = lives[l].version + 1
  BY <1>2, RowTypes DEF Lifecycle!Playing, Row, Lifecycle!Row
<1>4. lives' = [lives EXCEPT ![l] = new]
  OBVIOUS
<1> HIDE DEF new
<1>5. TypeOK'
  BY <1>1, <1>3, <1>4 DEF TypeOK
<1>6. \A k \in Lives : lives'[k] = IF k = l THEN new ELSE lives[k]
  BY <1>1, <1>4 DEF TypeOK
<1>7. RowOK'
  BY <1>3, <1>6 DEF IInv, RowOK
<1>8. SessionsOK'
  BY <1>3, <1>6 DEF IInv, SessionsOK
<1>9. CallsOK'
  <2>1. Advances(lives[l], new)
    BY <1>2, <1>3 DEF Advances
  <2>2. \A k \in Handlers : call'[k] \in {call[k], Idle}
    BY <1>1 DEF TypeOK
  <2> QED
    BY <1>3, <1>4, <2>1, <2>2, SnapshotsStayGood
<1>10. EventsMatchRow'
  <2>1. \A k \in Lives, t \in {"started", "stopped"} : EventsOf(k, t)' = EventsOf(k, t)
    BY DEF EventsOf
  <2>2. EventsOf(l, "stopped") = {}
    BY DEF IInv, EventsMatchRow
  <2>3. \A f \in EventsOf(l, "started") : f.version < new.version
    <3> SUFFICES ASSUME NEW f \in EventsOf(l, "started")
                 PROVE  f.version < new.version
      OBVIOUS
    <3>1. f.version \in Nat
      BY <1>1 DEF EventsOf, TypeOK, Event, Lifecycle!Event
    <3>2. f.version =< lives[l].version
      BY <1>2, <3>1 DEF IInv, EventsMatchRow
    <3> QED
      BY <1>2, <1>3, <3>1, <3>2
  <2> SUFFICES ASSUME NEW k \in Lives
               PROVE  /\ (EventsOf(k, "started")' # {}) <=> (lives'[k].session # NoSession)
                      /\ (EventsOf(k, "stopped")' # {}) <=> (lives'[k].status = "ended")
                      /\ \A e, f \in outbox' :
                            e.live = k /\ f.live = k /\ e.type = f.type => e = f
                      /\ \A f \in outbox' : f.live = k => f.session = lives'[k].session
                      /\ \A f \in EventsOf(k, "stopped")' : f.version = lives'[k].version
                      /\ \A f \in EventsOf(k, "started")' :
                            \/ f.version < lives'[k].version
                            \/ f.version = lives'[k].version /\ lives'[k].status = "ingesting"
    BY DEF EventsMatchRow
  <2>4. CASE k = l
    BY <1>3, <1>6, <2>1, <2>2, <2>3, <2>4 DEF IInv, EventsMatchRow
  <2>5. CASE k # l
    BY <1>6, <2>1, <2>5 DEF IInv, EventsMatchRow
  <2> QED
    BY <2>4, <2>5
<1>11. OnePublisher' /\ AcceptedStopIsFinal' /\ StoppedHasOwner'
  BY <1>3, <1>6 DEF IInv, OnePublisher, AcceptedStopIsFinal, StoppedHasOwner
<1>12. SessionsMatchRow'
  <2> SUFFICES ASSUME NEW m \in Lives, NEW k \in Sessions
               PROVE  sessions'[<<m, k>>] = "connected" <=>
                        lives'[m].session = k /\ lives'[m].status \in Operational
    BY DEF SessionsMatchRow, Operational
  <2>1. CASE m = l
    BY <1>3, <1>6, <2>1 DEF IInv, SessionsMatchRow, Operational
  <2>2. CASE m # l
    BY <1>6, <2>2 DEF IInv, SessionsMatchRow, Operational
  <2> QED
    BY <2>1, <2>2
<1> QED
  BY <1>5, <1>7, <1>8, <1>9, <1>10, <1>11, <1>12 DEF IInv

----------------------------------------------------------------------------
(* A handler's second half either writes one of these rows or is quiet.    *)

LEMMA RefusedStep ==
    ASSUME IInv, NEW h \in Handlers,
           StoreUnchanged,
           call' = [call EXCEPT ![h] = Idle],
           accepted' = accepted
    PROVE  IInv'
<1>1. /\ accepted' \subseteq {"started", "stopped"} \X Lives \X Sessions
      /\ OnePublisher' /\ AcceptedStopIsFinal' /\ StoppedHasOwner'
  BY DEF IInv, TypeOK, OnePublisher, AcceptedStopIsFinal, StoppedHasOwner,
         StoreUnchanged
<1> QED
  BY <1>1, QuietStep

LEMMA IngestStartedStep ==
    ASSUME IInv, NEW h \in Handlers, IngestStarted(h)
    PROVE  IInv'
<1>1. call[h] # Idle
  BY DEF IngestStarted, Idle
<1>2. /\ call[h] \in Call /\ call[h].op = "started"
      /\ call[h].session \in Sessions /\ call[h].live \in Lives
      /\ SnapshotOK(call[h])
  BY <1>1 DEF IngestStarted, IInv, TypeOK, CallsOK, CallOK, Call
<1> PICK l \in Lives, s \in Sessions : l = call[h].live /\ s = call[h].session
  BY <1>2
<1>3. CASE StoreUnchanged /\ Answer(h, FALSE)
  BY <1>3, RefusedStep DEF Answer
<1>4. CASE SameSession(call[h]) /\ StoreUnchanged /\ Answer(h, TRUE)
  <2>1. lives[l].session = s
    BY <1>2, <1>4, NoSessionIsNone DEF SameSession, SnapshotOK
  <2>2. /\ accepted' = accepted \cup {<<"started", l, s>>}
        /\ call' = [call EXCEPT ![h] = Idle]
        /\ lives' = lives
    BY <1>2, <1>4 DEF Answer, StoreUnchanged
  <2>3. /\ accepted' \subseteq {"started", "stopped"} \X Lives \X Sessions
        /\ OnePublisher' /\ AcceptedStopIsFinal' /\ StoppedHasOwner'
    BY <2>1, <2>2
       DEF IInv, TypeOK, OnePublisher, AcceptedStopIsFinal, StoppedHasOwner
  <2> QED
    BY <1>4, <2>2, <2>3, QuietStep
<1>5. CASE /\ MayStart(call[h]) /\ Unchanged(call[h])
           /\ SaveWithEvent(call[h],
                 Lifecycle!Started(call[h].read, call[h].session), "started")
           /\ Answer(h, TRUE)
  <2>1. call[h].read = lives[l]
    BY <1>1, <1>5, SwapSeesRow
  <2>2. lives[l].status = "created"
    BY <1>5, <2>1 DEF MayStart
  <2>3. /\ lives' = [lives EXCEPT ![l] = Lifecycle!Started(lives[l], s)]
        /\ sessions' = [sessions EXCEPT ![<<l, s>>] = SessionStatus(@, "started")]
        /\ outbox' = outbox \cup
              {Lifecycle!Announce("started", l, s, Lifecycle!Started(lives[l], s))}
    BY <1>5, <2>1 DEF SaveWithEvent, EventOf
  <2>4. /\ call' = [call EXCEPT ![h] = Idle]
        /\ accepted' = accepted \cup {<<"started", l, s>>}
    BY <1>2, <1>5 DEF Answer
  <2> QED
    BY <2>2, <2>3, <2>4, StartWritten
<1> QED
  BY <1>3, <1>4, <1>5 DEF IngestStarted

LEMMA IngestStoppedStep ==
    ASSUME IInv, NEW h \in Handlers, IngestStopped(h)
    PROVE  IInv'
<1>1. call[h] # Idle
  BY DEF IngestStopped, Idle
<1>2. /\ call[h] \in Call /\ call[h].op = "stopped"
      /\ call[h].session \in Sessions /\ call[h].live \in Lives
      /\ SnapshotOK(call[h])
  BY <1>1 DEF IngestStopped, IInv, TypeOK, CallsOK, CallOK, Call
<1> PICK l \in Lives, s \in Sessions : l = call[h].live /\ s = call[h].session
  BY <1>2
<1>3. CASE StoreUnchanged /\ Answer(h, FALSE)
  BY <1>3, RefusedStep DEF Answer
<1>4. CASE /\ call[h].read.session # NoSession
           /\ call[h].read.session # s \/ call[h].read.status = "ended"
           /\ StoreUnchanged /\ Answer(h, TRUE)
  <2>1. /\ lives[l].session # NoSession
        /\ lives[l].session # s \/ lives[l].status = "ended"
    BY <1>2, <1>4 DEF SnapshotOK
  <2>2. /\ accepted' = accepted \cup {<<"stopped", l, s>>}
        /\ call' = [call EXCEPT ![h] = Idle]
        /\ lives' = lives
    BY <1>2, <1>4 DEF Answer, StoreUnchanged
  <2>3. /\ accepted' \subseteq {"started", "stopped"} \X Lives \X Sessions
        /\ OnePublisher' /\ AcceptedStopIsFinal' /\ StoppedHasOwner'
    BY <2>1, <2>2
       DEF IInv, TypeOK, OnePublisher, AcceptedStopIsFinal, StoppedHasOwner
  <2> QED
    BY <1>4, <2>2, <2>3, QuietStep
<1>5. CASE /\ MayStop(call[h]) /\ Unchanged(call[h])
           /\ SaveWithEvent(call[h], Lifecycle!Ended(call[h].read), "stopped")
           /\ Answer(h, TRUE)
  <2>1. call[h].read = lives[l]
    BY <1>1, <1>5, SwapSeesRow
  <2>2. lives[l].status \in {"ingesting", "live"} /\ lives[l].session = s
    BY <1>5, <2>1 DEF MayStop, Operational, IInv, RowOK
  <2>3. /\ lives' = [lives EXCEPT ![l] = Lifecycle!Ended(lives[l])]
        /\ sessions' = [sessions EXCEPT ![<<l, s>>] = SessionStatus(@, "stopped")]
        /\ outbox' = outbox \cup
              {Lifecycle!Announce("stopped", l, s, Lifecycle!Ended(lives[l]))}
    BY <1>5, <2>1 DEF SaveWithEvent, EventOf
  <2>4. /\ call' = [call EXCEPT ![h] = Idle]
        /\ accepted' = accepted \cup {<<"stopped", l, s>>}
    BY <1>2, <1>5 DEF Answer
  <2> QED
    BY <2>2, <2>3, <2>4, StopWritten
<1>6. call[h].read.status # "stopping"
  BY <1>2 DEF SnapshotOK
<1> QED
  BY <1>3, <1>4, <1>5, <1>6 DEF IngestStopped, NothingToStop

LEMMA WorkerReadyStep ==
    ASSUME IInv, NEW h \in Handlers, WorkerReady(h)
    PROVE  IInv'
<1>1. call[h] # Idle
  BY DEF WorkerReady, Idle
<1>2. /\ call[h] \in Call
      /\ call[h].generation \in Generations /\ call[h].live \in Lives
  BY <1>1 DEF WorkerReady, IInv, TypeOK, CallsOK, CallOK, Call
<1> PICK l \in Lives, g \in Generations : l = call[h].live /\ g = call[h].generation
  BY <1>2
<1>3. call' = [call EXCEPT ![h] = Idle] /\ accepted' = accepted
  BY DEF WorkerReady
<1>4. CASE StoreUnchanged
  BY <1>3, <1>4, RefusedStep
<1>5. CASE /\ call[h].read.status \in Operational
           /\ Unchanged(call[h])
           /\ Save(call[h], Lifecycle!Playing(call[h].read, call[h].generation))
  <2>1. call[h].read = lives[l]
    BY <1>1, <1>5, SwapSeesRow
  <2>2. lives[l].status \in {"ingesting", "live"}
    BY <1>5, <2>1 DEF Operational, IInv, RowOK
  <2>3. /\ lives' = [lives EXCEPT ![l] = Lifecycle!Playing(lives[l], g)]
        /\ UNCHANGED <<sessions, outbox>>
    BY <1>5, <2>1 DEF Save
  <2> QED
    BY <1>3, <2>2, <2>3, ReadyWritten
<1> QED
  BY <1>4, <1>5 DEF WorkerReady

LEMMA StutterStep ==
    ASSUME IInv, UNCHANGED vars
    PROVE  IInv'
BY DEF vars, IInv, TypeOK, RowOK, SessionsOK, CallsOK, CallOK, SnapshotOK,
       EventsMatchRow, EventsOf, OnePublisher, SessionsMatchRow,
       AcceptedStopIsFinal, StoppedHasOwner

LEMMA NextStep ==
    ASSUME IInv, [Next]_vars
    PROVE  IInv'
<1>1. CASE \E l \in Lives : CreateLive(l)
  BY <1>1, CreateLiveStep
<1>2. ASSUME NEW h \in Handlers, NEW l \in Lives, NEW s \in Sessions,
             NEW authentic \in BOOLEAN, GetForStarted(h, l, s, authentic)
      PROVE  IInv'
  BY <1>2, GetStep DEF GetForStarted
<1>3. ASSUME NEW h \in Handlers, NEW l \in Lives, NEW s \in Sessions,
             GetForStopped(h, l, s)
      PROVE  IInv'
  BY <1>3, GetStep DEF GetForStopped
<1>4. ASSUME NEW h \in Handlers, NEW l \in Lives, NEW g \in Generations,
             GetForReady(h, l, g)
      PROVE  IInv'
  BY <1>4, GetStep DEF GetForReady
<1>5. ASSUME NEW h \in Handlers,
             \/ IngestStarted(h) \/ IngestStopped(h)
             \/ WorkerReady(h)   \/ HandlerDies(h)
      PROVE  IInv'
  BY <1>5, IngestStartedStep, IngestStoppedStep, WorkerReadyStep, HandlerDiesStep
<1>6. CASE UNCHANGED vars
  BY <1>6, StutterStep
<1> QED
  BY <1>1, <1>2, <1>3, <1>4, <1>5, <1>6 DEF Next

----------------------------------------------------------------------------
(* The theorems.                                                           *)

\* IInv holds in every reachable state, for any number of API processes.
THEOREM Invariance == Spec => []IInv
<1>1. IInv /\ [Next]_vars => IInv'
  BY NextStep
<1> QED
  BY InitIInv, <1>1, PTL DEF Spec

\* The tables, the calls in flight and the answers given are well typed.
THEOREM TypeCorrect == Spec => []TypeOK
<1>1. IInv => TypeOK
  BY DEF IInv
<1> QED
  BY Invariance, <1>1, PTL

\* The outbox tells the row's history: one started and one stopped event at
\* most, by the owner, in version order, exactly when the row says so.
THEOREM EventsCorrect == Spec => []EventsMatchRow
<1>1. IInv => EventsMatchRow
  BY DEF IInv
<1> QED
  BY Invariance, <1>1, PTL

\* Only one publisher of a live is ever accepted.
THEOREM PublisherUnique == Spec => []OnePublisher
<1>1. IInv => OnePublisher
  BY DEF IInv
<1> QED
  BY Invariance, <1>1, PTL

\* ingest_sessions and lives agree on who is connected.
THEOREM SessionsCorrect == Spec => []SessionsMatchRow
<1>1. IInv => SessionsMatchRow
  BY DEF IInv
<1> QED
  BY Invariance, <1>1, PTL

\* An accepted departure of the owner has ended the live.
THEOREM StopFinal == Spec => []AcceptedStopIsFinal
<1>1. IInv => AcceptedStopIsFinal
  BY DEF IInv
<1> QED
  BY Invariance, <1>1, PTL

\* What one step does to the two tables LiveLifecycle speaks of.
LEMMA StepRefines ==
    ASSUME IInv, [Next]_vars
    PROVE  [Lifecycle!Next]_(Lifecycle!lifecycleVars)
<1> USE DEF Lifecycle!lifecycleVars
<1>1. ASSUME NEW l \in Lives, CreateLive(l)
      PROVE  Lifecycle!Next
  BY <1>1 DEF CreateLive, Lifecycle!Create, Lifecycle!Next
<1>2. ASSUME UNCHANGED <<lives, outbox>>
      PROVE  [Lifecycle!Next]_(Lifecycle!lifecycleVars)
  BY <1>2
<1>3. ASSUME NEW h \in Handlers, IngestStarted(h), ~UNCHANGED <<lives, outbox>>
      PROVE  Lifecycle!Next
  <2>1. call[h] # Idle
    BY <1>3 DEF IngestStarted, Idle
  <2>2. call[h].session \in Sessions /\ call[h].live \in Lives
    BY <1>3, <2>1 DEF IngestStarted, IInv, TypeOK, CallsOK, CallOK, Call
  <2> PICK l \in Lives, s \in Sessions : l = call[h].live /\ s = call[h].session
    BY <2>2
  <2>3. /\ MayStart(call[h]) /\ Unchanged(call[h])
        /\ SaveWithEvent(call[h],
              Lifecycle!Started(call[h].read, call[h].session), "started")
    BY <1>3 DEF IngestStarted, StoreUnchanged
  <2>4. call[h].read = lives[l] /\ lives[l] \in Row
    BY <2>1, <2>3, SwapSeesRow
  <2>5. lives' = [lives EXCEPT ![l] = Lifecycle!Started(lives[l], s)]
    BY <2>3, <2>4 DEF SaveWithEvent, EventOf
  <2>6. lives'[l] = Lifecycle!Started(lives[l], s)
    BY <2>5 DEF IInv, TypeOK
  <2>7. outbox' = outbox \cup {Lifecycle!Announce("started", l, s, lives'[l])}
    BY <2>3, <2>4, <2>6 DEF SaveWithEvent, EventOf
  <2>8. lives[l].status = "created"
    BY <2>3, <2>4 DEF MayStart
  <2> QED
    BY <2>5, <2>7, <2>8 DEF Lifecycle!Start, Lifecycle!Next
<1>4. ASSUME NEW h \in Handlers, IngestStopped(h), ~UNCHANGED <<lives, outbox>>
      PROVE  Lifecycle!Next
  <2>1. call[h] # Idle
    BY <1>4 DEF IngestStopped, Idle
  <2>2. call[h].session \in Sessions /\ call[h].live \in Lives
    BY <1>4, <2>1 DEF IngestStopped, IInv, TypeOK, CallsOK, CallOK, Call
  <2> PICK l \in Lives, s \in Sessions : l = call[h].live /\ s = call[h].session
    BY <2>2
  <2>3. /\ MayStop(call[h]) /\ Unchanged(call[h])
        /\ SaveWithEvent(call[h], Lifecycle!Ended(call[h].read), "stopped")
    BY <1>4 DEF IngestStopped, StoreUnchanged
  <2>4. call[h].read = lives[l] /\ lives[l] \in Row
    BY <2>1, <2>3, SwapSeesRow
  <2>5. lives' = [lives EXCEPT ![l] = Lifecycle!Ended(lives[l])]
    BY <2>3, <2>4 DEF SaveWithEvent, EventOf
  <2>6. lives'[l] = Lifecycle!Ended(lives[l])
    BY <2>5 DEF IInv, TypeOK
  <2>7. outbox' = outbox \cup {Lifecycle!Announce("stopped", l, s, lives'[l])}
    BY <2>3, <2>4, <2>6 DEF SaveWithEvent, EventOf
  <2>8. lives[l].status \in {"ingesting", "live"} /\ lives[l].session = s
    BY <2>3, <2>4 DEF MayStop, Operational, IInv, RowOK
  <2> QED
    BY <2>5, <2>7, <2>8 DEF Lifecycle!Stop, Lifecycle!Next
<1>5. ASSUME NEW h \in Handlers, WorkerReady(h), ~UNCHANGED <<lives, outbox>>
      PROVE  Lifecycle!Next
  <2>1. call[h] # Idle
    BY <1>5 DEF WorkerReady, Idle
  <2>2. call[h].generation \in Generations /\ call[h].live \in Lives
    BY <1>5, <2>1 DEF WorkerReady, IInv, TypeOK, CallsOK, CallOK, Call
  <2> PICK l \in Lives, g \in Generations : l = call[h].live /\ g = call[h].generation
    BY <2>2
  <2>3. /\ ~AlreadyReady(call[h]) /\ call[h].read.status \in Operational
        /\ Unchanged(call[h])
        /\ Save(call[h], Lifecycle!Playing(call[h].read, call[h].generation))
    BY <1>5 DEF WorkerReady, StoreUnchanged
  <2>4. call[h].read = lives[l] /\ lives[l] \in Row
    BY <2>1, <2>3, SwapSeesRow
  <2>5. /\ lives' = [lives EXCEPT ![l] = Lifecycle!Playing(lives[l], g)]
        /\ UNCHANGED outbox
    BY <2>3, <2>4 DEF Save
  <2>6. \/ lives[l].status = "ingesting"
        \/ lives[l].status = "live" /\ lives[l].generation < g
    <3>1. lives[l].generation \in Nat /\ g \in Nat
      BY <2>4, GenerationsArePositive DEF Row, Lifecycle!Row
    <3>2. lives[l].status \in {"ingesting", "live"}
      BY <2>3, <2>4 DEF Operational, IInv, RowOK
    <3>3. lives[l].status = "live" => ~(lives[l].generation >= g)
      BY <2>3, <2>4 DEF AlreadyReady
    <3> QED
      BY <3>1, <3>2, <3>3
  <2> QED
    BY <2>5, <2>6 DEF Lifecycle!Ready, Lifecycle!Next
<1>6. ASSUME NEW h \in Handlers, HandlerDies(h)
      PROVE  UNCHANGED <<lives, outbox>>
  BY <1>6 DEF HandlerDies, StoreUnchanged
<1>7. ASSUME NEW h \in Handlers, NEW l \in Lives, NEW s \in Sessions,
             NEW g \in Generations, NEW authentic \in BOOLEAN,
             \/ GetForStarted(h, l, s, authentic)
             \/ GetForStopped(h, l, s)
             \/ GetForReady(h, l, g)
      PROVE  UNCHANGED <<lives, outbox>>
  BY <1>7 DEF GetForStarted, GetForStopped, GetForReady, Get, StoreUnchanged
<1>8. CASE UNCHANGED vars
  BY <1>8, <1>2 DEF vars
<1> QED
  BY <1>1, <1>2, <1>3, <1>4, <1>5, <1>6, <1>7, <1>8
     DEF Next, GetForStarted, GetForStopped, GetForReady, Get, StoreUnchanged

\* Read, decide, compare-and-swap, in any number of processes, implements the
\* atomic lifecycle.
THEOREM Refinement == Spec => LifecycleSpec
<1>1. Init => Lifecycle!Init
  BY DEF Init, Lifecycle!Init
<1>2. IInv /\ [Next]_vars => [Lifecycle!Next]_(Lifecycle!lifecycleVars)
  BY StepRefines
<1> QED
  BY Invariance, <1>1, <1>2, PTL DEF Spec, LifecycleSpec, Lifecycle!Spec

\* A step of the lifecycle never lowers a live's worker generation.
LEMMA GenerationKept ==
    ASSUME IInv, [Lifecycle!Next]_(Lifecycle!lifecycleVars), NEW k \in Lives
    PROVE  lives'[k].generation >= lives[k].generation
<1>1. lives \in [Lives -> Row]
  BY DEF IInv, TypeOK
<1>2. lives[k].generation \in Nat
  BY <1>1 DEF Row, Lifecycle!Row
<1>3. ASSUME NEW l \in Lives, Lifecycle!Create(l)
      PROVE  lives'[k].generation >= lives[k].generation
  <2>1. lives[l].generation = 0 /\ Lifecycle!Created.generation = 0
    BY <1>3 DEF Lifecycle!Create, Lifecycle!Created, Lifecycle!Absent, IInv, RowOK
  <2> QED
    BY <1>1, <1>2, <1>3, <2>1 DEF Lifecycle!Create
<1>4. ASSUME NEW l \in Lives, NEW s \in Sessions,
             Lifecycle!Start(l, s) \/ Lifecycle!Stop(l, s)
      PROVE  lives'[k].generation >= lives[k].generation
  <2>1. /\ Lifecycle!Started(lives[l], s).generation = lives[l].generation
        /\ Lifecycle!Ended(lives[l]).generation = lives[l].generation
    BY <1>1 DEF Lifecycle!Started, Lifecycle!Ended, Row, Lifecycle!Row
  <2> QED
    BY <1>1, <1>2, <1>4, <2>1 DEF Lifecycle!Start, Lifecycle!Stop
<1>5. ASSUME NEW l \in Lives, NEW g \in Generations, Lifecycle!Ready(l, g)
      PROVE  lives'[k].generation >= lives[k].generation
  <2>1. Lifecycle!Playing(lives[l], g).generation = g /\ g \in Nat
    BY <1>1, GenerationsArePositive DEF Lifecycle!Playing, Row, Lifecycle!Row
  <2>2. lives[l].generation \in Nat /\ g >= lives[l].generation
    <3>1. lives[l].generation \in Nat
      BY <1>1 DEF Row, Lifecycle!Row
    <3>2. lives[l].generation = 0 \/ lives[l].generation < g
      BY <1>5 DEF Lifecycle!Ready, IInv, RowOK
    <3> QED
      BY <2>1, <3>1, <3>2
  <2>3. lives' = [lives EXCEPT ![l] = Lifecycle!Playing(lives[l], g)]
    BY <1>5 DEF Lifecycle!Ready
  <2> QED
    BY <1>1, <1>2, <2>1, <2>2, <2>3
<1>6. CASE UNCHANGED Lifecycle!lifecycleVars
  BY <1>2, <1>6 DEF Lifecycle!lifecycleVars
<1> QED
  BY <1>3, <1>4, <1>5, <1>6 DEF Lifecycle!Next

\* Playback never moves back to an older worker generation.
THEOREM PlaybackMonotone == Spec => PlaybackNeverGoesBack
<1>1. ASSUME IInv, [Next]_vars
      PROVE  [\A l \in Lives : lives'[l].generation >= lives[l].generation]_vars
  <2>1. \A l \in Lives : lives'[l].generation >= lives[l].generation
    BY <1>1, StepRefines, GenerationKept
  <2> QED
    BY <2>1
<1> QED
  BY Invariance, <1>1, PTL DEF Spec, PlaybackNeverGoesBack

(***************************************************************************)
(* Ingest.                                                                 *)
(***************************************************************************)

\* Each process serves one callback or none, and every life of nginx but its
\* first began with a fault.
ServingOK ==
    /\ serving \in [Handlers -> Callback \cup {None}]
    /\ life =< faults

\* The API's call is the one the callback asked for.
Serves(h) ==
    /\ call[h] # Idle
    /\ call[h].op = serving[h].kind
    /\ call[h].live = serving[h].stream[1]
    /\ call[h].session = serving[h].stream[2]

ServesOrElse(h) ==
    IF serving[h] = None THEN call[h] = Idle \/ call[h].op = "ready" ELSE Serves(h)

ServesItsCall == \A h \in Handlers : ServesOrElse(h)

\* nginx sent this callback, if it is of its present life.
Sent(c) ==
    /\ c.life =< life
    /\ c.life = life /\ c.kind = "started" => stream[c.stream] # "none"
    /\ c.life = life /\ c.kind = "stopped" => stream[c.stream] = "gone"

AllSent ==
    /\ \A c \in callbacks \cup posts : Sent(c)
    /\ ingest # None => Sent(ingest)
    /\ \A h \in Handlers : serving[h] # None => Sent(serving[h])

\* A callback is at one place only: waiting, posted or served.
AtOnePlace ==
    /\ callbacks \cap posts = {}
    /\ \A h \in Handlers : serving[h] \notin callbacks \cup posts

\* Who is on the air was accepted, and so was the end of whom nginx was told it.
OnAirAccepted ==
    \A l \in Lives, s \in Sessions :
        stream[<<l, s>>] = "onair" => <<"started", l, s>> \in accepted

ToldAccepted ==
    \A l \in Lives, s \in Sessions :
        <<l, s>> \in told => <<"stopped", l, s>> \in accepted

\* Before nginx was ever restarted, a live is over only when its owner left.
OverWhenGone ==
    \A l \in Lives, s \in Sessions :
        /\ life = 0
        /\ lives[l].session = s
        /\ lives[l].status = "ended"
        => stream[<<l, s>>] = "gone"

IngestInv == /\ IInv
             /\ IngestTypeOK
             /\ ServingOK
             /\ ServesItsCall
             /\ AllSent
             /\ AtOnePlace
             /\ OnAirAccepted
             /\ ToldAccepted
             /\ OverWhenGone

----------------------------------------------------------------------------
(* The API's part of a step.                                               *)

LEMMA ApiStep ==
    ASSUME IInv, IngestTypeOK, IngestNext
    PROVE  IInv'
<1>1. [Next]_vars
  <2>1. ASSUME NEW p \in Streams, Departs(p) PROVE UNCHANGED vars
    BY <2>1 DEF Departs
  <2>2. ASSUME NEW p \in Streams, NEW k \in Keys, Publish(p, k) PROVE UNCHANGED vars
    BY <2>2 DEF Publish
  <2>3. CASE NginxRestarts
    BY <2>3 DEF NginxRestarts
  <2>4. ASSUME NEW c \in callbacks, Begins(c) \/ Rejects(c) PROVE UNCHANGED vars
    BY <2>4 DEF Begins, Rejects
  <2>5. CASE PostFails
    BY <2>5 DEF PostFails
  <2>6. ASSUME NEW c \in posts, NotFound(c) PROVE UNCHANGED vars
    BY <2>6 DEF NotFound
  <2>7. ASSUME NEW c \in posts, NEW h \in Handlers, Takes(h, c) PROVE Next
    <3>1. c.stream[1] \in Lives /\ c.stream[2] \in Sessions
      BY DEF IngestTypeOK, Callback, Streams
    <3>2. (c.key = "right") \in BOOLEAN
      OBVIOUS
    <3> QED
      BY <2>7, <3>1, <3>2 DEF Takes, Next
  <2>8. ASSUME NEW h \in Handlers, Decides(h) \/ Dies(h) PROVE Next
    BY <2>8 DEF Decides, Dies, Next
  <2>9. CASE ElsewhereAtTheApi
    BY <2>9 DEF ElsewhereAtTheApi, Next
  <2> QED
    BY <2>1, <2>2, <2>3, <2>4, <2>5, <2>6, <2>7, <2>8, <2>9 DEF IngestNext
<1> QED
  BY <1>1, NextStep


----------------------------------------------------------------------------
(* What an answer does to nginx.                                           *)

\* Publisher p goes on the air or is refused by the answer to c.
Settles(p, c, ok) ==
    /\ c.kind = "started" /\ c.stream = p /\ c.life = life
    /\ stream[p] = "asking"
    /\ (stream'[p] = "onair" /\ ok) \/ stream'[p] = "refused"

Heard(c, ok) ==
    /\ stream' \in [Streams -> {"none", "asking", "onair", "refused", "gone"}]
    /\ told' \subseteq Streams
    /\ \A p \in Streams : stream'[p] = stream[p] \/ Settles(p, c, ok)
    /\ \A p \in told' : p \in told \/ (c.kind = "stopped" /\ ok /\ p = c.stream)

LEMMA NoneIsNoCallback ==
    /\ None \notin Callback
    /\ None.kind = "none"
    /\ \A c \in Callback : c.kind # "none" /\ c.stream \in Streams /\ c.life \in Nat
BY MaxFaultsIsNat DEF None, Callback

LEMMA HeardAnswer ==
    ASSUME IngestTypeOK, NEW c \in Callback \cup {None}, NEW ok \in BOOLEAN,
           Answered(c, ok)
    PROVE  Heard(c, ok)
<1>1. stream \in [Streams -> {"none", "asking", "onair", "refused", "gone"}]
  BY DEF IngestTypeOK
<1>2. told \subseteq Streams
  BY DEF IngestTypeOK
<1>3. CASE c.kind = "started" /\ c.life = life /\ stream[c.stream] = "asking"
  <2>1. c \in Callback /\ c.stream \in Streams
    BY <1>3, NoneIsNoCallback
  <2>2. /\ stream' = [stream EXCEPT ![c.stream] = IF ok THEN "onair" ELSE "refused"]
        /\ told' = told
    BY <1>3 DEF Answered
  <2> QED
    BY <1>1, <1>2, <1>3, <2>1, <2>2 DEF Heard, Settles
<1>4. CASE ~(c.kind = "started" /\ c.life = life /\ stream[c.stream] = "asking")
  <2>1. stream' = stream
    BY <1>4 DEF Answered
  <2>2. CASE c.kind = "stopped" /\ ok
    <3>1. c \in Callback /\ c.stream \in Streams
      BY <2>2, NoneIsNoCallback
    <3>2. told' = told \cup {c.stream}
      BY <2>2 DEF Answered
    <3> QED
      BY <1>1, <1>2, <2>1, <2>2, <3>1, <3>2 DEF Heard
  <2>3. CASE ~(c.kind = "stopped" /\ ok)
    <3>1. told' = told
      BY <2>3 DEF Answered
    <3> QED
      BY <1>1, <1>2, <2>1, <3>1 DEF Heard
  <2> QED
    BY <2>2, <2>3
<1> QED
  BY <1>3, <1>4

LEMMA HeardNothing ==
    ASSUME IngestTypeOK, NEW c, NEW ok, UNCHANGED <<stream, told>>
    PROVE  Heard(c, ok)
BY DEF IngestTypeOK, Heard

LEMMA HeardAnswers ==
    ASSUME IngestTypeOK, NEW c \in Callback \cup {None}, NEW ok \in BOOLEAN,
           Answers(c, ok)
    PROVE  Heard(c, ok) /\ ingest' \in {ingest, None}
<1>1. CASE ingest = c
  BY <1>1, HeardAnswer DEF Answers
<1>2. CASE ingest # c
  <2>1. UNCHANGED <<stream, told, ingest>>
    BY <1>2 DEF Answers
  <2> QED
    BY <2>1, HeardNothing
<1> QED
  BY <1>1, <1>2

\* Nginx goes on in the same life: who came stays, who left stays away.
GoesOn ==
    /\ life' = life
    /\ \A p \in Streams : /\ stream[p] # "none" => stream'[p] # "none"
                          /\ stream[p] = "gone" => stream'[p] = "gone"

LEMMA HeardGoesOn ==
    ASSUME NEW c, NEW ok, Heard(c, ok), life' = life
    PROVE  GoesOn
BY DEF Heard, Settles, GoesOn

\* A callback nginx sent stays one.
LEMMA StaysSent ==
    ASSUME NEW c \in Callback, Sent(c), GoesOn
    PROVE  Sent(c)'
BY NoneIsNoCallback DEF Sent, GoesOn

----------------------------------------------------------------------------
(* What many steps keep.                                                   *)

\* Callbacks that only move on were sent still.
LEMMA AllSentKept ==
    ASSUME IngestInv, GoesOn,
           callbacks' \cup posts' \subseteq callbacks \cup posts,
           ingest' \in callbacks \cup {ingest, None},
           \A h \in Handlers : serving'[h] \in posts \cup {serving[h], None}
    PROVE  AllSent'
<1>1. /\ callbacks \subseteq Callback /\ posts \subseteq Callback
      /\ ingest \in Callback \cup {None}
      /\ \A h \in Handlers : serving[h] \in Callback \cup {None}
  BY DEF IngestInv, IngestTypeOK, ServingOK
<1>2. AllSent
  BY DEF IngestInv
<1>3. \A c \in callbacks' \cup posts' : Sent(c)'
  BY <1>1, <1>2, StaysSent DEF AllSent
<1>4. ASSUME ingest' # None
      PROVE  ingest' \in Callback /\ Sent(ingest)'
  <2> PICK c \in Callback : c = ingest'
    BY <1>1, <1>4
  <2>1. Sent(c)
    BY <1>2, <1>4 DEF AllSent
  <2>2. Sent(c)'
    BY <2>1, StaysSent
  <2> QED
    BY <2>2 DEF Sent
<1>5. ASSUME NEW h \in Handlers, serving'[h] # None
      PROVE  Sent(serving[h])'
  <2> PICK c \in Callback : c = serving'[h]
    BY <1>1, <1>5
  <2>1. Sent(c)
    BY <1>2, <1>5 DEF AllSent
  <2>2. Sent(c)'
    BY <2>1, StaysSent
  <2> QED
    BY <2>2 DEF Sent
<1> QED
  BY <1>3, <1>4, <1>5 DEF AllSent

\* A step that gives no good news and stores nothing.
LEMMA ToldNothing ==
    ASSUME IngestInv, NEW c, Heard(c, FALSE), UNCHANGED <<lives, accepted>>,
           life' = life
    PROVE  OnAirAccepted' /\ ToldAccepted' /\ OverWhenGone'
<1>1. OnAirAccepted /\ ToldAccepted /\ OverWhenGone
  BY DEF IngestInv
<1>2. \A l \in Lives, s \in Sessions : <<l, s>> \in Streams
  BY DEF Streams
<1>3. \A p \in Streams : /\ stream'[p] = "onair" => stream[p] = "onair"
                         /\ stream[p] = "gone" => stream'[p] = "gone"
                         /\ p \in told' => p \in told
  BY DEF Heard, Settles
<1>4. OnAirAccepted'
  BY <1>1, <1>2, <1>3 DEF OnAirAccepted
<1>5. ToldAccepted'
  BY <1>1, <1>2, <1>3 DEF ToldAccepted
<1>6. OverWhenGone'
  BY <1>1, <1>2, <1>3 DEF OverWhenGone
<1> QED
  BY <1>4, <1>5, <1>6

\* A fault is counted within its bound.
LEMMA FaultCounted ==
    ASSUME IngestInv, Fault
    PROVE  faults' \in 0 .. MaxFaults /\ faults' = faults + 1 /\ life + 1 \in 0 .. MaxFaults
BY MaxFaultsIsNat DEF IngestInv, IngestTypeOK, ServingOK, Fault

LEMMA LifeBelowFaults ==
    ASSUME IngestInv, life' = life, faults' = faults \/ Fault
    PROVE  life' \in 0 .. MaxFaults /\ faults' \in 0 .. MaxFaults /\ life' =< faults'
BY MaxFaultsIsNat DEF IngestInv, IngestTypeOK, ServingOK, Fault

\* An untouched process serves as before.
LEMMA ServesAsBefore ==
    ASSUME NEW h \in Handlers, ServesOrElse(h),
           call'[h] = call[h], serving'[h] = serving[h]
    PROVE  ServesOrElse(h)'
BY DEF ServesOrElse, Serves

----------------------------------------------------------------------------
(* One lemma per action; IInv is left to ApiStep.                          *)

Kept == /\ IngestTypeOK'
        /\ ServingOK'
        /\ ServesItsCall'
        /\ AllSent'
        /\ AtOnePlace'
        /\ OnAirAccepted'
        /\ ToldAccepted'
        /\ OverWhenGone'

\* nginx puts a callback of this life of its in the queue.
LEMMA CallbackAdded ==
    ASSUME IngestInv, NEW p \in Streams, NEW c \in Callback,
           c.stream = p, c.life = life,
           c.kind = "started" => stream[p] = "none" /\ stream'[p] # "none",
           c.kind = "stopped" => stream[p] # "gone" /\ stream'[p] = "gone",
           \A q \in Streams : q # p => stream'[q] = stream[q],
           stream'[p] \in {"asking", "gone"}, stream[p] # "gone",
           stream' \in [Streams -> {"none", "asking", "onair", "refused", "gone"}],
           key' \in [Streams -> Keys],
           callbacks' = callbacks \cup {c},
           UNCHANGED <<vars, life, ingest, posts, serving, told, faults>>
    PROVE  Kept
<1>1. IngestTypeOK /\ ServingOK /\ AllSent /\ AtOnePlace
  BY DEF IngestInv
<1>2. UNCHANGED <<lives, call, accepted>>
  BY DEF vars
<1>3. GoesOn
  BY DEF GoesOn
<1>4. c \notin posts /\ \A h \in Handlers : serving[h] # c
  <2>1. ~Sent(c)
    BY <1>1, NoneIsNoCallback DEF Sent, Callback
  <2> QED
    BY <1>1, <2>1, NoneIsNoCallback DEF AllSent
<1>5. IngestTypeOK'
  BY <1>1, <1>2 DEF IngestTypeOK
<1>6. ServingOK'
  BY <1>1 DEF ServingOK
<1>7. ServesItsCall'
  BY <1>2, ServesAsBefore DEF IngestInv, ServesItsCall
<1>8. AllSent'
  <2>1. Sent(c)'
    BY <1>1 DEF Sent, IngestTypeOK
  <2>2. \A d \in callbacks \cup posts : Sent(d)'
    BY <1>1, <1>3, StaysSent DEF AllSent, IngestTypeOK
  <2>3. ASSUME ingest # None
        PROVE  Sent(ingest)'
    <3> PICK d \in Callback : d = ingest
      BY <1>1, <2>3 DEF IngestTypeOK
    <3>1. Sent(d)'
      BY <1>1, <1>3, <2>3, StaysSent DEF AllSent
    <3> QED
      BY <3>1 DEF Sent
  <2>4. ASSUME NEW h \in Handlers, serving[h] # None
        PROVE  Sent(serving[h])'
    <3> PICK d \in Callback : d = serving[h]
      BY <1>1, <2>4 DEF ServingOK
    <3>1. Sent(d)'
      BY <1>1, <1>3, <2>4, StaysSent DEF AllSent
    <3> QED
      BY <3>1 DEF Sent
  <2>5. \A d \in callbacks' \cup posts' : Sent(d)'
    BY <2>1, <2>2
  <2> QED
    BY <2>5, <2>3, <2>4 DEF AllSent
<1>9. AtOnePlace'
  BY <1>1, <1>4 DEF AtOnePlace
<1>10. OnAirAccepted' /\ ToldAccepted' /\ OverWhenGone'
  <2>1. \A q \in Streams : /\ stream'[q] = "onair" => stream[q] = "onair"
                           /\ stream[q] = "gone" => stream'[q] = "gone"
    OBVIOUS
  <2>2. \A l \in Lives, s \in Sessions : <<l, s>> \in Streams
    BY DEF Streams
  <2> QED
    BY <1>2, <2>1, <2>2 DEF IngestInv, OnAirAccepted, ToldAccepted, OverWhenGone
<1> QED
  BY <1>5, <1>6, <1>7, <1>8, <1>9, <1>10 DEF Kept

LEMMA PublishStep ==
    ASSUME IngestInv, NEW p \in Streams, NEW k \in Keys, Publish(p, k)
    PROVE  Kept
<1>1. IngestTypeOK
  BY DEF IngestInv
<1> PICK c : c = About("started", p, k)
  OBVIOUS
<1>2. c \in Callback /\ c.stream = p /\ c.life = life /\ c.kind = "started"
  BY <1>1 DEF About, Callback, IngestTypeOK
<1>3. /\ stream[p] = "none"
      /\ stream' = [stream EXCEPT ![p] = "asking"]
      /\ key' = [key EXCEPT ![p] = k]
      /\ callbacks' = callbacks \cup {c}
      /\ UNCHANGED <<vars, life, ingest, posts, serving, told, faults>>
  BY DEF Publish
<1>4. /\ stream' \in [Streams -> {"none", "asking", "onair", "refused", "gone"}]
      /\ key' \in [Streams -> Keys]
      /\ stream'[p] = "asking"
      /\ \A q \in Streams : q # p => stream'[q] = stream[q]
  BY <1>1, <1>3 DEF IngestTypeOK
<1> QED
  BY <1>2, <1>3, <1>4, CallbackAdded

LEMMA DepartsStep ==
    ASSUME IngestInv, NEW p \in Streams, Departs(p)
    PROVE  Kept
<1>1. IngestTypeOK
  BY DEF IngestInv
<1> PICK c : c = About("stopped", p, key[p])
  OBVIOUS
<1>2. c \in Callback /\ c.stream = p /\ c.life = life /\ c.kind = "stopped"
  BY <1>1 DEF About, Callback, IngestTypeOK
<1>3. /\ stream[p] \in {"asking", "onair", "refused"}
      /\ stream' = [stream EXCEPT ![p] = "gone"]
      /\ callbacks' = callbacks \cup {c}
      /\ UNCHANGED <<vars, key, life, ingest, posts, serving, told, faults>>
  BY DEF Departs
<1>4. /\ stream' \in [Streams -> {"none", "asking", "onair", "refused", "gone"}]
      /\ key' \in [Streams -> Keys]
      /\ stream'[p] = "gone"
      /\ \A q \in Streams : q # p => stream'[q] = stream[q]
  BY <1>1, <1>3 DEF IngestTypeOK
<1> QED
  BY <1>2, <1>3, <1>4, CallbackAdded

LEMMA NginxRestartsStep ==
    ASSUME IngestInv, NginxRestarts
    PROVE  Kept
<1>1. IngestTypeOK /\ ServingOK /\ AllSent /\ AtOnePlace
  BY DEF IngestInv
<1>2. /\ UNCHANGED <<lives, call, accepted, callbacks, ingest, posts, serving, told>>
      /\ life' = life + 1
      /\ stream' = [p \in Streams |-> "none"]
      /\ key' = [p \in Streams |-> "right"]
  BY DEF NginxRestarts, vars
<1>3. faults' \in 0 .. MaxFaults /\ faults' = faults + 1 /\ life' \in 0 .. MaxFaults
  BY <1>2, FaultCounted DEF NginxRestarts
<1>4. life \in Nat /\ faults \in Nat
  BY <1>1, MaxFaultsIsNat DEF IngestTypeOK
<1>5. IngestTypeOK'
  BY <1>1, <1>2, <1>3 DEF IngestTypeOK, Keys
<1>6. ServingOK'
  BY <1>1, <1>2, <1>3, <1>4 DEF ServingOK
<1>7. ServesItsCall'
  BY <1>2, ServesAsBefore DEF IngestInv, ServesItsCall
<1>8. \A c \in Callback : Sent(c) => Sent(c)'
  BY <1>2, <1>4, NoneIsNoCallback DEF Sent
<1>9. AllSent'
  <2>1. ASSUME ingest # None
        PROVE  Sent(ingest)'
    <3> PICK d \in Callback : d = ingest
      BY <1>1, <2>1 DEF IngestTypeOK
    <3>1. Sent(d)'
      BY <1>1, <1>8, <2>1 DEF AllSent
    <3> QED
      BY <1>2, <3>1 DEF Sent
  <2>2. ASSUME NEW h \in Handlers, serving[h] # None
        PROVE  Sent(serving[h])'
    <3> PICK d \in Callback : d = serving[h]
      BY <1>1, <2>2 DEF ServingOK
    <3>1. Sent(d)'
      BY <1>1, <1>8, <2>2 DEF AllSent
    <3> QED
      BY <1>2, <3>1 DEF Sent
  <2>3. \A d \in callbacks' \cup posts' : Sent(d)'
    BY <1>1, <1>2, <1>8 DEF AllSent, IngestTypeOK
  <2> QED
    BY <1>2, <2>1, <2>2, <2>3 DEF AllSent
<1>10. AtOnePlace'
  BY <1>1, <1>2 DEF AtOnePlace
<1>11. OnAirAccepted' /\ ToldAccepted' /\ OverWhenGone'
  <2>1. \A l \in Lives, s \in Sessions : stream'[<<l, s>>] = "none"
    BY <1>2 DEF Streams
  <2>2. life' # 0
    BY <1>2, <1>4
  <2> QED
    BY <1>2, <2>1, <2>2 DEF IngestInv, OnAirAccepted, ToldAccepted, OverWhenGone
<1> QED
  BY <1>5, <1>6, <1>7, <1>9, <1>10, <1>11 DEF Kept

LEMMA BeginsStep ==
    ASSUME IngestInv, NEW c \in callbacks, Begins(c)
    PROVE  Kept
<1>1. IngestTypeOK /\ ServingOK /\ AllSent /\ AtOnePlace /\ c \in Callback
  BY DEF IngestInv, IngestTypeOK
<1>2. /\ UNCHANGED <<lives, call, accepted>>
      /\ UNCHANGED <<stream, key, life, serving, told, faults>>
      /\ callbacks' = callbacks \ {c}
      /\ ingest' = c
      /\ posts' = posts \cup {c}
  BY DEF Begins, vars
<1>3. \A h \in Handlers : serving[h] # c
  BY <1>1 DEF AtOnePlace
<1>4. IngestTypeOK'
  BY <1>1, <1>2, <1>3 DEF IngestTypeOK
<1>5. ServingOK' /\ AtOnePlace'
  BY <1>1, <1>2 DEF ServingOK, AtOnePlace
<1>6. ServesItsCall'
  BY <1>2, ServesAsBefore DEF IngestInv, ServesItsCall
<1>7. Heard(c, FALSE)
  BY <1>1, <1>2, HeardNothing
<1>8. AllSent'
  BY <1>1, <1>2, <1>7, HeardGoesOn, AllSentKept
<1> QED
  BY <1>2, <1>4, <1>5, <1>6, <1>7, <1>8, ToldNothing DEF Kept

\* A step that stores nothing and takes callbacks, posts or the post away.
LEMMA BadNews ==
    ASSUME IngestInv, NEW c, Heard(c, FALSE),
           UNCHANGED <<lives, accepted, key, life>>,
           faults' = faults \/ Fault,
           callbacks' \subseteq callbacks, posts' \subseteq posts,
           ingest' \in {ingest, None},
           \A h \in Handlers : \/ serving'[h] = serving[h] /\ call'[h] = call[h]
                               \/ serving'[h] = None /\ call'[h] = Idle,
           serving' \in [Handlers -> Callback \cup {None}]
    PROVE  Kept
<1>1. IngestTypeOK /\ ServingOK /\ AllSent /\ AtOnePlace /\ ServesItsCall
  BY DEF IngestInv
<1>2. life' \in 0 .. MaxFaults /\ faults' \in 0 .. MaxFaults /\ life' =< faults'
  BY LifeBelowFaults
<1>3. IngestTypeOK'
  <2>1. ASSUME NEW h \in Handlers
        PROVE  \/ serving'[h] = None
               \/ /\ serving'[h] \in Callback \ posts'
                  /\ serving'[h].kind = call'[h].op
    BY <1>1 DEF IngestTypeOK
  <2> QED
    BY <1>1, <1>2, <2>1 DEF IngestTypeOK, Heard
<1>4. ServingOK'
  BY <1>2 DEF ServingOK
<1>5. AtOnePlace'
  <2>1. None \notin callbacks \cup posts
    BY <1>1, NoneIsNoCallback DEF IngestTypeOK
  <2> QED
    BY <1>1, <2>1 DEF AtOnePlace
<1>6. ServesItsCall'
  <2> SUFFICES ASSUME NEW h \in Handlers
               PROVE  ServesOrElse(h)'
    BY DEF ServesItsCall
  <2>1. CASE serving'[h] = serving[h] /\ call'[h] = call[h]
    BY <1>1, <2>1, ServesAsBefore DEF ServesItsCall
  <2>2. CASE serving'[h] = None /\ call'[h] = Idle
    BY <2>2 DEF ServesOrElse
  <2> QED
    BY <2>1, <2>2
<1>7. AllSent'
  BY <1>1, HeardGoesOn, AllSentKept
<1> QED
  BY <1>3, <1>4, <1>5, <1>6, <1>7, ToldNothing DEF Kept

LEMMA RejectsStep ==
    ASSUME IngestInv, NEW c \in callbacks, Rejects(c)
    PROVE  Kept
<1>1. IngestTypeOK /\ ServingOK /\ c \in Callback
  BY DEF IngestInv, IngestTypeOK
<1>2. /\ UNCHANGED <<lives, call, accepted, key, life, ingest, posts, serving, faults>>
      /\ callbacks' = callbacks \ {c}
      /\ Answered(c, FALSE)
  BY DEF Rejects, vars
<1>3. Heard(c, FALSE)
  BY <1>1, <1>2, HeardAnswer
<1>4. serving' \in [Handlers -> Callback \cup {None}]
  BY <1>1, <1>2 DEF ServingOK
<1> QED
  BY <1>2, <1>3, <1>4, BadNews

LEMMA PostFailsStep ==
    ASSUME IngestInv, PostFails
    PROVE  Kept
<1>1. IngestTypeOK /\ ServingOK
  BY DEF IngestInv
<1> PICK c \in Callback \cup {None} : c = ingest
  BY <1>1 DEF IngestTypeOK
<1>2. /\ UNCHANGED <<lives, call, accepted, key, life, callbacks, serving>>
      /\ Fault
      /\ ingest' = None
      /\ posts' \subseteq posts
      /\ Answered(c, FALSE)
  BY DEF PostFails, vars, AfterError
<1>3. Heard(c, FALSE)
  BY <1>1, <1>2, HeardAnswer
<1>4. serving' \in [Handlers -> Callback \cup {None}]
  BY <1>1, <1>2 DEF ServingOK
<1> QED
  BY <1>2, <1>3, <1>4, BadNews

LEMMA NotFoundStep ==
    ASSUME IngestInv, NEW c \in posts, NotFound(c)
    PROVE  Kept
<1>1. IngestTypeOK /\ ServingOK /\ c \in Callback
  BY DEF IngestInv, IngestTypeOK
<1>2. /\ UNCHANGED <<lives, call, accepted, key, life, callbacks, serving, faults>>
      /\ posts' = posts \ {c}
      /\ Answers(c, FALSE)
  BY DEF NotFound, vars
<1>3. Heard(c, FALSE) /\ ingest' \in {ingest, None}
  BY <1>1, <1>2, HeardAnswers
<1>4. serving' \in [Handlers -> Callback \cup {None}]
  BY <1>1, <1>2 DEF ServingOK
<1> QED
  BY <1>2, <1>3, <1>4, BadNews

LEMMA DiesStep ==
    ASSUME IngestInv, NEW h \in Handlers, Dies(h)
    PROVE  Kept
<1>1. IngestTypeOK /\ ServingOK /\ TypeOK
  BY DEF IngestInv, IInv
<1> PICK c \in Callback \cup {None} : c = serving[h]
  BY <1>1 DEF ServingOK
<1>2. /\ UNCHANGED <<lives, accepted, key, life, callbacks, posts>>
      /\ Fault
      /\ call' = [call EXCEPT ![h] = Idle]
      /\ serving' = [serving EXCEPT ![h] = None]
      /\ Answers(c, FALSE)
  BY DEF Dies, HandlerDies, StoreUnchanged, AfterError
<1>3. Heard(c, FALSE) /\ ingest' \in {ingest, None}
  BY <1>1, <1>2, HeardAnswers
<1>4. serving' \in [Handlers -> Callback \cup {None}]
  BY <1>1, <1>2 DEF ServingOK
<1>5. \A k \in Handlers : \/ serving'[k] = serving[k] /\ call'[k] = call[k]
                          \/ serving'[k] = None /\ call'[k] = Idle
  BY <1>1, <1>2 DEF ServingOK, TypeOK
<1> QED
  BY <1>2, <1>3, <1>4, <1>5, BadNews

LEMMA TakesStep ==
    ASSUME IngestInv, NEW c \in posts, NEW h \in Handlers, Takes(h, c)
    PROVE  Kept
<1>1. /\ IngestTypeOK /\ ServingOK /\ AllSent /\ AtOnePlace /\ TypeOK
      /\ ServesItsCall
      /\ c \in Callback /\ c.stream \in Streams /\ c # None
  BY NoneIsNoCallback DEF IngestInv, IngestTypeOK, IInv
<1>2. /\ UNCHANGED <<lives, accepted>>
      /\ UNCHANGED <<stream, key, life, callbacks, ingest, told, faults>>
      /\ posts' = posts \ {c}
      /\ serving' = [serving EXCEPT ![h] = c]
  BY DEF Takes, GetForStarted, GetForStopped, Get, StoreUnchanged
<1>3. PICK a \in BOOLEAN :
        call' = [call EXCEPT ![h] =
                   [op |-> c.kind, live |-> c.stream[1], session |-> c.stream[2],
                    generation |-> 0, authentic |-> a, read |-> lives[c.stream[1]]]]
  BY DEF Takes, GetForStarted, GetForStopped, Get
<1>4. /\ call'[h] # Idle
      /\ call'[h].op = c.kind
      /\ call'[h].live = c.stream[1]
      /\ call'[h].session = c.stream[2]
      /\ \A k \in Handlers : k # h => call'[k] = call[k]
  <2>1. c.kind # "idle"
    BY <1>1 DEF Callback
  <2> QED
    BY <1>1, <1>3, <2>1 DEF TypeOK, Idle
<1>5. /\ serving' \in [Handlers -> Callback \cup {None}]
      /\ serving'[h] = c
      /\ \A k \in Handlers : k # h => serving'[k] = serving[k]
  BY <1>1, <1>2 DEF ServingOK
<1>6. IngestTypeOK'
  <2>1. ASSUME NEW k \in Handlers
        PROVE  \/ serving'[k] = None
               \/ /\ serving'[k] \in Callback \ posts'
                  /\ serving'[k].kind = call'[k].op
    BY <1>1, <1>2, <1>4, <1>5 DEF IngestTypeOK
  <2> QED
    BY <1>1, <1>2, <2>1 DEF IngestTypeOK
<1>7. ServingOK'
  BY <1>1, <1>2, <1>5 DEF ServingOK
<1>8. ServesItsCall'
  <2> SUFFICES ASSUME NEW k \in Handlers
               PROVE  ServesOrElse(k)'
    BY DEF ServesItsCall
  <2>1. CASE k = h
    BY <1>1, <1>4, <1>5, <2>1 DEF ServesOrElse, Serves
  <2>2. CASE k # h
    BY <1>1, <1>4, <1>5, <2>2, ServesAsBefore DEF ServesItsCall
  <2> QED
    BY <2>1, <2>2
<1>9. AtOnePlace'
  BY <1>1, <1>2, <1>5 DEF AtOnePlace
<1>10. Heard(c, FALSE)
  BY <1>1, <1>2, HeardNothing
<1>11. AllSent'
  BY <1>1, <1>2, <1>5, <1>10, HeardGoesOn, AllSentKept
<1> QED
  BY <1>2, <1>6, <1>7, <1>8, <1>9, <1>10, <1>11, ToldNothing DEF Kept

\* The handler's write and its answer, as nginx's side depends on them.
LEMMA Decided ==
    ASSUME IngestInv, NEW h \in Handlers,
           IngestStarted(h) \/ IngestStopped(h)
    PROVE  /\ serving[h] \in Callback
           /\ call' = [call EXCEPT ![h] = Idle]
           /\ accepted \subseteq accepted'
           /\ Accepts(call[h]) => <<serving[h].kind, call[h].live, call[h].session>> \in accepted'
           /\ \A l \in Lives :
                 lives'[l].status = "ended" =>
                    \/ lives'[l] = lives[l]
                    \/ /\ serving[h].kind = "stopped" /\ l = call[h].live
                       /\ lives'[l].session = call[h].session
<1>1. call[h].op \in {"started", "stopped"}
  BY DEF IngestStarted, IngestStopped
<1>2. call[h] \in Call /\ lives \in [Lives -> Row]
  BY <1>1, BusyHandler DEF IngestInv, IInv, TypeOK
<1>3. call[h].read \in Row /\ call[h].live \in Lives
  BY <1>2 DEF Call
<1>4. serving[h] \in Callback /\ serving[h].kind = call[h].op
  <2>1. call[h] # Idle
    BY <1>1 DEF Idle
  <2>2. serving[h] # None
    BY <1>1, <2>1 DEF IngestInv, ServesItsCall, ServesOrElse
  <2> QED
    BY <2>2 DEF IngestInv, ServingOK, ServesItsCall, ServesOrElse, Serves
<1>5. CASE IngestStarted(h)
  <2> DEFINE row == Lifecycle!Started(call[h].read, call[h].session)
  <2>1. call[h].op = "started"
    BY <1>5 DEF IngestStarted
  <2>2. call' = [call EXCEPT ![h] = Idle] /\ accepted \subseteq accepted'
    BY <1>5 DEF IngestStarted, Answer
  <2>3. Accepts(call[h]) => <<call[h].op, call[h].live, call[h].session>> \in accepted'
    BY <1>5, <2>1 DEF IngestStarted, Answer, Accepts, MayStart
  <2>4. row.status = "ingesting"
    BY <1>3 DEF Lifecycle!Started, Row, Lifecycle!Row
  <2>5. lives' = lives \/ lives' = [lives EXCEPT ![call[h].live] = row]
    BY <1>5 DEF IngestStarted, StoreUnchanged, SaveWithEvent
  <2> HIDE DEF row
  <2>6. \A l \in Lives : lives'[l].status = "ended" => lives'[l] = lives[l]
    BY <1>2, <1>3, <2>4, <2>5
  <2> QED
    BY <1>4, <2>2, <2>3, <2>6
<1>6. CASE IngestStopped(h)
  <2> DEFINE row == Lifecycle!Ended(call[h].read)
  <2>1. call[h].op = "stopped"
    BY <1>6 DEF IngestStopped
  <2>2. call' = [call EXCEPT ![h] = Idle] /\ accepted \subseteq accepted'
    BY <1>6 DEF IngestStopped, Answer
  <2>3. Accepts(call[h]) => <<call[h].op, call[h].live, call[h].session>> \in accepted'
    BY <1>6, <2>1 DEF IngestStopped, Answer, Accepts, NothingToStop, MayStop, Operational
  <2>4. row.session = call[h].read.session
    BY <1>3 DEF Lifecycle!Ended, Row, Lifecycle!Row
  <2>5. \/ lives' = lives
        \/ /\ lives' = [lives EXCEPT ![call[h].live] = row]
           /\ call[h].read.session = call[h].session
    BY <1>6 DEF IngestStopped, StoreUnchanged, SaveWithEvent, MayStop
  <2> HIDE DEF row
  <2>6. \A l \in Lives : \/ lives'[l] = lives[l]
                         \/ l = call[h].live /\ lives'[l].session = call[h].session
    BY <1>2, <1>3, <2>4, <2>5
  <2> QED
    BY <1>4, <2>1, <2>2, <2>3, <2>6
<1> QED
  BY <1>5, <1>6

LEMMA DecidesStep ==
    ASSUME IngestInv, NEW h \in Handlers, Decides(h)
    PROVE  Kept
<1>1. /\ IngestTypeOK /\ ServingOK /\ AllSent /\ AtOnePlace /\ TypeOK
      /\ ServesItsCall
  BY DEF IngestInv, IInv
<1> PICK c \in Callback : c = serving[h]
  BY Decided DEF Decides
<1>2. /\ call' = [call EXCEPT ![h] = Idle]
      /\ accepted \subseteq accepted'
      /\ Accepts(call[h]) => <<c.kind, call[h].live, call[h].session>> \in accepted'
      /\ \A l \in Lives :
            lives'[l].status = "ended" =>
               \/ lives'[l] = lives[l]
               \/ /\ c.kind = "stopped" /\ l = call[h].live
                  /\ lives'[l].session = call[h].session
  BY Decided DEF Decides
<1> PICK ok \in BOOLEAN : ok = Accepts(call[h])
  BY DEF Accepts
<1>3. /\ UNCHANGED <<key, life, callbacks, posts, faults>>
      /\ serving' = [serving EXCEPT ![h] = None]
      /\ Answers(c, ok)
  BY DEF Decides
<1>4. Heard(c, ok) /\ ingest' \in {ingest, None}
  BY <1>1, <1>3, HeardAnswers
<1>5. c.stream = <<call[h].live, call[h].session>> /\ c.stream \in Streams
  <2>1. c # None /\ c.stream \in Streams
    BY NoneIsNoCallback
  <2>2. c.stream[1] = call[h].live /\ c.stream[2] = call[h].session
    BY <1>1, <2>1 DEF ServesItsCall, ServesOrElse, Serves
  <2> QED
    BY <2>1, <2>2 DEF Streams
<1>6. /\ serving' \in [Handlers -> Callback \cup {None}]
      /\ serving'[h] = None /\ call'[h] = Idle
      /\ \A k \in Handlers : k # h => serving'[k] = serving[k] /\ call'[k] = call[k]
  BY <1>1, <1>2, <1>3 DEF ServingOK, TypeOK
<1>7. IngestTypeOK'
  <2>1. ASSUME NEW k \in Handlers
        PROVE  \/ serving'[k] = None
               \/ /\ serving'[k] \in Callback \ posts'
                  /\ serving'[k].kind = call'[k].op
    BY <1>1, <1>3, <1>6 DEF IngestTypeOK
  <2> QED
    BY <1>1, <1>3, <1>4, <2>1 DEF IngestTypeOK, Heard
<1>8. ServingOK'
  BY <1>1, <1>3, <1>6 DEF ServingOK
<1>9. ServesItsCall'
  <2> SUFFICES ASSUME NEW k \in Handlers
               PROVE  ServesOrElse(k)'
    BY DEF ServesItsCall
  <2>1. CASE k = h
    BY <1>6, <2>1 DEF ServesOrElse
  <2>2. CASE k # h
    BY <1>1, <1>6, <2>2, ServesAsBefore DEF ServesItsCall
  <2> QED
    BY <2>1, <2>2
<1>10. AllSent'
  BY <1>3, <1>4, <1>6, HeardGoesOn, AllSentKept
<1>11. AtOnePlace'
  <2>1. None \notin callbacks \cup posts
    BY <1>1, NoneIsNoCallback DEF IngestTypeOK
  <2> QED
    BY <1>1, <1>3, <1>6, <2>1 DEF AtOnePlace
<1>12. OnAirAccepted'
  <2> SUFFICES ASSUME NEW l \in Lives, NEW s \in Sessions, stream'[<<l, s>>] = "onair"
               PROVE  <<"started", l, s>> \in accepted'
    BY DEF OnAirAccepted
  <2>1. <<l, s>> \in Streams
    BY DEF Streams
  <2>2. CASE stream'[<<l, s>>] = stream[<<l, s>>]
    BY <1>2, <2>2 DEF IngestInv, OnAirAccepted
  <2>3. CASE Settles(<<l, s>>, c, ok)
    BY <1>2, <1>5, <2>3 DEF Settles
  <2> QED
    BY <1>4, <2>1, <2>2, <2>3 DEF Heard
<1>13. ToldAccepted'
  <2> SUFFICES ASSUME NEW l \in Lives, NEW s \in Sessions, <<l, s>> \in told'
               PROVE  <<"stopped", l, s>> \in accepted'
    BY DEF ToldAccepted
  <2>1. CASE <<l, s>> \in told
    BY <1>2, <2>1 DEF IngestInv, ToldAccepted
  <2>2. CASE c.kind = "stopped" /\ ok /\ <<l, s>> = c.stream
    BY <1>2, <1>5, <2>2
  <2> QED
    BY <1>4, <2>1, <2>2 DEF Heard
<1>14. OverWhenGone'
  <2> SUFFICES ASSUME NEW l \in Lives, NEW s \in Sessions, life = 0,
                      lives'[l].session = s, lives'[l].status = "ended"
               PROVE  stream'[<<l, s>>] = "gone"
    BY <1>3 DEF OverWhenGone
  <2>1. <<l, s>> \in Streams
    BY DEF Streams
  <2>2. stream[<<l, s>>] = "gone"
    <3>1. CASE lives'[l] = lives[l]
      BY <3>1 DEF IngestInv, OverWhenGone
    <3>2. CASE c.kind = "stopped" /\ c.stream = <<l, s>>
      <4>1. Sent(c) /\ c.life \in Nat
        BY <1>1, NoneIsNoCallback DEF AllSent
      <4> QED
        BY <3>2, <4>1 DEF Sent
    <3> QED
      BY <1>2, <1>5, <3>1, <3>2
  <2> QED
    BY <1>4, <2>1, <2>2 DEF Heard, Settles
<1> QED
  BY <1>7, <1>8, <1>9, <1>10, <1>11, <1>12, <1>13, <1>14 DEF Kept

\* What creations and workers' reports leave alone: who was accepted, how an
\* ended live stands, and the calls that serve callbacks.
ElsewhereKeeps ==
    /\ accepted' = accepted
    /\ \A l \in Lives : lives'[l].status = "ended" => lives'[l] = lives[l]
    /\ \A k \in Handlers :
          \/ call'[k] = call[k]
          \/ /\ call[k] = Idle \/ call[k].op = "ready"
             /\ call'[k] = Idle \/ call'[k].op = "ready"

LEMMA ElsewhereStep ==
    ASSUME IngestInv, ElsewhereAtTheApi
    PROVE  Kept
<1>1. /\ IngestTypeOK /\ ServingOK /\ AllSent /\ AtOnePlace /\ TypeOK
      /\ ServesItsCall
  BY DEF IngestInv, IInv
<1>2. UNCHANGED <<stream, key, life, callbacks, ingest, posts, serving, told, faults>>
  BY DEF ElsewhereAtTheApi, ingestVars
<1>3. ElsewhereKeeps
  <2>1. lives \in [Lives -> Row] /\ call \in [Handlers -> Call \cup {Idle}]
    BY <1>1 DEF TypeOK
  <2>2. ASSUME NEW l \in Lives, CreateLive(l)
        PROVE  ElsewhereKeeps
    <3>1. Lifecycle!Created.status = "created"
      BY DEF Lifecycle!Created, Lifecycle!Absent
    <3>2. lives' = [lives EXCEPT ![l] = Lifecycle!Created] /\ UNCHANGED <<call, accepted>>
      BY <2>2 DEF CreateLive
    <3> QED
      BY <2>1, <3>1, <3>2 DEF ElsewhereKeeps
  <2>3. ASSUME NEW h \in Handlers, NEW l \in Lives, NEW g \in Generations,
               GetForReady(h, l, g)
        PROVE  ElsewhereKeeps
    BY <2>1, <2>3 DEF GetForReady, Get, StoreUnchanged, ElsewhereKeeps
  <2>4. ASSUME NEW h \in Handlers, WorkerReady(h)
        PROVE  ElsewhereKeeps
    <3> DEFINE row == Lifecycle!Playing(call[h].read, call[h].generation)
    <3>1. /\ call[h].op = "ready" /\ accepted' = accepted
          /\ call' = [call EXCEPT ![h] = Idle]
          /\ lives' = lives \/ lives' = [lives EXCEPT ![call[h].live] = row]
      BY <2>4 DEF WorkerReady, StoreUnchanged, Save
    <3>2. call[h] \in Call
      BY <1>1, <3>1, BusyHandler
    <3>3. row.status = "live"
      BY <3>2 DEF Lifecycle!Playing, Call, Row, Lifecycle!Row
    <3> HIDE DEF row
    <3> QED
      BY <2>1, <3>1, <3>2, <3>3 DEF Call, ElsewhereKeeps
  <2> QED
    BY <2>2, <2>3, <2>4 DEF ElsewhereAtTheApi
<1>4. ASSUME NEW k \in Handlers, serving[k] # None
      PROVE  call'[k] = call[k]
  <2>1. Serves(k) /\ serving[k] \in Callback
    BY <1>1, <1>4 DEF ServesItsCall, ServesOrElse, ServingOK
  <2>2. serving[k].kind # "ready"
    BY <2>1 DEF Callback
  <2> QED
    BY <1>3, <2>1, <2>2 DEF Serves, ElsewhereKeeps
<1>5. IngestTypeOK'
  <2>1. ASSUME NEW k \in Handlers
        PROVE  \/ serving'[k] = None
               \/ /\ serving'[k] \in Callback \ posts'
                  /\ serving'[k].kind = call'[k].op
    BY <1>1, <1>2, <1>4 DEF IngestTypeOK
  <2> QED
    BY <1>1, <1>2, <2>1 DEF IngestTypeOK
<1>6. ServingOK' /\ AtOnePlace'
  BY <1>1, <1>2 DEF ServingOK, AtOnePlace
<1>7. ServesItsCall'
  <2> SUFFICES ASSUME NEW k \in Handlers
               PROVE  ServesOrElse(k)'
    BY DEF ServesItsCall
  <2>1. CASE serving[k] = None
    BY <1>1, <1>2, <1>3, <2>1 DEF ServesItsCall, ServesOrElse, ElsewhereKeeps
  <2>2. CASE serving[k] # None
    BY <1>1, <1>2, <1>4, <2>2, ServesAsBefore DEF ServesItsCall
  <2> QED
    BY <2>1, <2>2
<1>8. Heard(None, FALSE)
  BY <1>1, <1>2, HeardNothing
<1>9. AllSent'
  BY <1>2, <1>8, HeardGoesOn, AllSentKept
<1>10. OnAirAccepted' /\ ToldAccepted' /\ OverWhenGone'
  BY <1>2, <1>3
     DEF IngestInv, OnAirAccepted, ToldAccepted, OverWhenGone, ElsewhereKeeps
<1> QED
  BY <1>5, <1>6, <1>7, <1>9, <1>10 DEF Kept

----------------------------------------------------------------------------
(* The invariant and what it gives.                                        *)

LEMMA IngestInitInv == IngestInit => IngestInv
<1> SUFFICES ASSUME IngestInit PROVE IngestInv
  OBVIOUS
<1>1. IInv /\ call = [h \in Handlers |-> Idle]
  BY InitIInv DEF IngestInit, Init
<1>2. IngestTypeOK
  BY MaxFaultsIsNat DEF IngestInit, IngestTypeOK, Keys
<1>3. ServingOK /\ ServesItsCall /\ AllSent /\ AtOnePlace
  BY <1>1, MaxFaultsIsNat
     DEF IngestInit, ServingOK, ServesItsCall, ServesOrElse, AllSent, AtOnePlace
<1>4. OnAirAccepted /\ ToldAccepted
  BY DEF IngestInit, OnAirAccepted, ToldAccepted, Streams
<1>5. OverWhenGone
  <2>1. \A l \in Lives : lives[l].status = "absent"
    BY DEF IngestInit, Init, Lifecycle!Absent
  <2> QED
    BY <2>1 DEF OverWhenGone
<1> QED
  BY <1>1, <1>2, <1>3, <1>4, <1>5 DEF IngestInv

LEMMA IngestStep ==
    ASSUME IngestInv, [IngestNext]_<<vars, ingestVars>>
    PROVE  IngestInv'
<1>1. CASE IngestNext
  <2>1. IInv'
    BY <1>1, ApiStep DEF IngestInv
  <2>2. Kept
    BY <1>1, PublishStep, DepartsStep, NginxRestartsStep, BeginsStep, RejectsStep,
       PostFailsStep, NotFoundStep, TakesStep, DecidesStep, DiesStep, ElsewhereStep
       DEF IngestNext
  <2> QED
    BY <2>1, <2>2 DEF Kept, IngestInv
<1>2. CASE UNCHANGED <<vars, ingestVars>>
  <2>1. IInv'
    BY <1>2, StutterStep DEF IngestInv
  <2>2. UNCHANGED <<lives, call, accepted>>
    BY <1>2 DEF vars
  <2>3. Heard(None, FALSE) /\ UNCHANGED <<key, life, callbacks, ingest, posts, serving, faults>>
    BY <1>2, HeardNothing DEF ingestVars, IngestInv
  <2>4. serving' \in [Handlers -> Callback \cup {None}]
    BY <2>3 DEF IngestInv, ServingOK
  <2>5. Kept
    BY <2>2, <2>3, <2>4, BadNews
  <2> QED
    BY <2>1, <2>5 DEF Kept, IngestInv
<1> QED
  BY <1>1, <1>2

\* The inductive invariant holds of every behaviour.
THEOREM IngestInvariance == IngestSpec => []IngestInv
<1>1. IngestInv /\ [IngestNext]_<<vars, ingestVars>> => IngestInv'
  BY IngestStep
<1> QED
  BY IngestInitInv, <1>1, PTL DEF IngestSpec

\* Queues, posts and calls are well typed, and no post is served while it is
\* still to be taken up.
THEOREM IngestTypeCorrect == IngestSpec => []IngestTypeOK
<1>1. IngestInv => IngestTypeOK
  BY DEF IngestInv
<1> QED
  BY IngestInvariance, <1>1, PTL

\* Whoever is on the air owns the live, and the live is not over.
THEOREM PublisherOnAirOwns == IngestSpec => []OnAirOwns
<1>1. ASSUME IngestInv
      PROVE  OnAirOwns
  <2> SUFFICES ASSUME NEW l \in Lives, NEW s \in Sessions, stream[<<l, s>>] = "onair"
               PROVE  /\ lives[l].session = s
                      /\ life = 0 => lives[l].status \in Operational
    BY DEF OnAirOwns
  <2>1. <<"started", l, s>> \in accepted
    BY <1>1 DEF IngestInv, OnAirAccepted
  <2>2. lives[l].session = s
    BY <1>1, <2>1 DEF IngestInv, IInv, OnePublisher
  <2>3. life = 0 => lives[l].status # "ended"
    BY <1>1, <2>2 DEF IngestInv, OverWhenGone
  <2>4. lives[l].status \in {"ingesting", "live", "ended"}
    BY <1>1, <2>2, NoSessionIsNone DEF IngestInv, IInv, RowOK
  <2> QED
    BY <2>2, <2>3, <2>4 DEF Operational
<1> QED
  BY IngestInvariance, <1>1, PTL

\* Whose departure nginx was told the API took, his live is over.
THEOREM ToldEnded == IngestSpec => []ToldMeansEnded
<1>1. IngestInv => ToldMeansEnded
  BY DEF IngestInv, IInv, ToldAccepted, ToldMeansEnded, AcceptedStopIsFinal
<1> QED
  BY IngestInvariance, <1>1, PTL
=============================================================================
