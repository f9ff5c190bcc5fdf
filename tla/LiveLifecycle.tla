--------------------------- MODULE LiveLifecycle ---------------------------
(***************************************************************************)
(* What the API service promises about one live, whatever number of API    *)
(* processes serve it: every transition is a single atomic step of the row *)
(* in `lives`, it raises the row's version by one, and the event a         *)
(* transition announces enters the outbox in that same step.  LiveService  *)
(* (read, decide, compare-and-swap) is shown to implement this module, and *)
(* LiveSystem uses it as its model of the API.                             *)
(***************************************************************************)
EXTENDS Naturals

CONSTANTS Lives,        \* live ids
          Sessions,     \* ingest session ids
          Generations,  \* worker generations a worker may report
          NoSession     \* a row's current_ingest_session_id before the start

ASSUME NoSessionIsNone == NoSession \notin Sessions
ASSUME GenerationsArePositive == Generations \subseteq Nat \ {0}

VARIABLES lives,   \* the rows of table `lives`
          outbox   \* the rows of table `outbox_events`

lifecycleVars == <<lives, outbox>>

\* The members of LiveStatus; "absent" stands for a row that is not there.
LiveStatus == {"absent", "created", "ingesting", "provisioning", "live",
               "stopping", "ended", "failed"}

Row == [status     : LiveStatus,
        desired    : {"running", "stopped"},
        session    : Sessions \cup {NoSession},
        generation : Nat,
        version    : Nat]

Event == [live    : Lives,
          type    : {"started", "stopped"},
          session : Sessions,
          version : Nat]

Absent == [status |-> "absent", desired |-> "running", session |-> NoSession,
           generation |-> 0, version |-> 0]

\* The row create_live inserts.
Created == [Absent EXCEPT !.status = "created", !.version = 1]

\* The row a first published callback writes, from the row it read.
Started(row, s) == [row EXCEPT !.status = "ingesting", !.session = s,
                               !.version = @ + 1]

\* The row a worker's ready callback writes.
Playing(row, g) == [row EXCEPT !.status = "live", !.generation = g,
                               !.version = @ + 1]

\* The row a publish-done callback writes.
Ended(row) == [row EXCEPT !.status = "ended", !.desired = "stopped",
                          !.version = @ + 1]

\* _event: the lifecycle event that announces `row`, at the row's version.
Announce(type, l, s, row) ==
    [live |-> l, type |-> type, session |-> s, version |-> row.version]

----------------------------------------------------------------------------

Init == /\ lives = [l \in Lives |-> Absent]
        /\ outbox = {}

Create(l) ==
    /\ lives[l].status = "absent"
    /\ lives' = [lives EXCEPT ![l] = Created]
    /\ UNCHANGED outbox

\* The first publisher of a created live becomes its owner, for good.
Start(l, s) ==
    /\ lives[l].status = "created"
    /\ lives' = [lives EXCEPT ![l] = Started(lives[l], s)]
    /\ outbox' = outbox \cup {Announce("started", l, s, lives'[l])}

\* Playback moves to a newer worker generation; no event announces it.
Ready(l, g) ==
    /\ \/ lives[l].status = "ingesting"
       \/ lives[l].status = "live" /\ lives[l].generation < g
    /\ lives' = [lives EXCEPT ![l] = Playing(lives[l], g)]
    /\ UNCHANGED outbox

\* The owner's departure ends the live, for good.
Stop(l, s) ==
    /\ lives[l].status \in {"ingesting", "live"}
    /\ lives[l].session = s
    /\ lives' = [lives EXCEPT ![l] = Ended(lives[l])]
    /\ outbox' = outbox \cup {Announce("stopped", l, s, lives'[l])}

Next == \E l \in Lives :
            \/ Create(l)
            \/ \E s \in Sessions : Start(l, s) \/ Stop(l, s)
            \/ \E g \in Generations : Ready(l, g)

Spec == Init /\ [][Next]_lifecycleVars
============================================================================
