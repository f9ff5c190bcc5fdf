------------------------------- MODULE Ingest -------------------------------
(***************************************************************************)
(* RTMP ingest: nginx-rtmp asks the ingest service whether a publisher may *)
(* come in (on_publish) and tells it once that he left (on_publish_done);  *)
(* the service posts either callback to the API and hands its answer back. *)
(* Its handlers block, so it has one post at a time, for which it waits    *)
(* timeout_seconds; the API goes on with a post nobody waits for.          *)
(*                                                                         *)
(* An ingest session is uuid5 of the live and nginx's client id, and nginx *)
(* counts client ids from the start again when it is restarted: Sessions   *)
(* are the client ids.                                                     *)
(***************************************************************************)
EXTENDS LiveService

CONSTANT MaxFaults   \* bound: timeouts, lost calls, deaths, nginx restarts

ASSUME MaxFaultsIsNat == MaxFaults \in Nat

VARIABLES stream,     \* nginx: what became of each <<live, client id>>
          key,        \* the stream key each of them came with
          life,       \* nginx: how often it has been restarted
          callbacks,  \* callbacks the ingest service has not begun
          ingest,     \* the callback it is posting
          posts,      \* posts the API has not begun
          serving,    \* the post each API process is at work on
          told,       \* history: sessions whose publish-done was answered 200
          faults

ingestVars == <<stream, key, life, callbacks, ingest, posts, serving, told, faults>>

Streams == Lives \X Sessions
Keys    == {"right", "wrong", "malformed"}

Malformed(c) == c.key = "malformed"

\* The fields of a callback: the key is malformed when _read_form or _publisher
\* cannot make out the application, the live, the client id or a single token.
Callback == [kind : {"started", "stopped"}, stream : Streams, key : Keys,
             life : 0 .. MaxFaults]
None == [kind |-> "none"]

IngestInit ==
    /\ Init
    /\ stream = [p \in Streams |-> "none"]
    /\ key = [p \in Streams |-> "right"]
    /\ life = 0
    /\ callbacks = {}
    /\ ingest = None
    /\ posts = {}
    /\ serving = [h \in Handlers |-> None]
    /\ told = {}
    /\ faults = 0

Fault == faults < MaxFaults /\ faults' = faults + 1

----------------------------------------------------------------------------
(* nginx-rtmp.                                                             *)

About(kind, p, k) == [kind |-> kind, stream |-> p, key |-> k, life |-> life]

\* A publisher connects, and nginx lets him wait.
Publish(p, k) ==
    /\ stream[p] = "none"
    /\ stream' = [stream EXCEPT ![p] = "asking"]
    /\ key' = [key EXCEPT ![p] = k]
    /\ callbacks' = callbacks \cup {About("started", p, k)}
    /\ UNCHANGED <<vars, life, ingest, posts, serving, told, faults>>

\* A publisher leaves, on the air or not; of one that was refused nginx may
\* have nothing to tell.
Departs(p) ==
    /\ stream[p] \in {"asking", "onair", "refused"}
    /\ stream' = [stream EXCEPT ![p] = "gone"]
    /\ callbacks' = callbacks \cup {About("stopped", p, key[p])}
    /\ UNCHANGED <<vars, key, life, ingest, posts, serving, told, faults>>

\* nginx dies and comes back: no publish-done, and the client ids begin again.
NginxRestarts ==
    /\ Fault
    /\ life' = life + 1
    /\ stream' = [p \in Streams |-> "none"]
    /\ key' = [p \in Streams |-> "right"]
    /\ UNCHANGED <<vars, callbacks, ingest, posts, serving, told>>

\* What nginx makes of the answer to a callback of this life of its.
Answered(c, ok) ==
    /\ stream' = IF c.kind = "started" /\ c.life = life /\ stream[c.stream] = "asking"
                 THEN [stream EXCEPT ![c.stream] = IF ok THEN "onair" ELSE "refused"]
                 ELSE stream
    /\ told' = IF c.kind = "stopped" /\ ok THEN told \cup {c.stream} ELSE told

----------------------------------------------------------------------------
(* CallbackService and HttpApiGateway.                                     *)

\* on_publish, on_publish_done: the notification is posted.
Begins(c) ==
    /\ ingest = None
    /\ c \in callbacks
    /\ ~Malformed(c)
    /\ callbacks' = callbacks \ {c}
    /\ ingest' = c
    /\ posts' = posts \cup {c}
    /\ UNCHANGED <<vars, stream, key, life, serving, told, faults>>

\* InvalidCallback: 400, and the API hears nothing of it.
Rejects(c) ==
    /\ ingest = None
    /\ c \in callbacks
    /\ Malformed(c)
    /\ callbacks' = callbacks \ {c}
    /\ Answered(c, FALSE)
    /\ UNCHANGED <<vars, key, life, ingest, posts, serving, faults>>

\* Mutant of AfterError: a failed call is logged and the callback acknowledged.
AfterErrorOk == TRUE

\* UpstreamUnavailable is answered with 503.
AfterError == FALSE

\* The post fails on its way (it may still arrive), or its time is up.
PostFails ==
    /\ ingest # None
    /\ Fault
    /\ ingest' = None
    /\ posts' \in {posts, posts \ {ingest}}
    /\ Answered(ingest, AfterError)
    /\ UNCHANGED <<vars, key, life, callbacks, serving>>

\* The API's answer to c reaches the service, if it waits for it still.
Answers(c, ok) ==
    IF ingest = c THEN Answered(c, ok) /\ ingest' = None
    ELSE UNCHANGED <<stream, told, ingest>>

----------------------------------------------------------------------------
(* The API, whose steps are LiveService's.                                 *)

\* Mutant of Takes: the gateway's client sends the post a second time.
TakesTwice(h, c) ==
    /\ c \in posts
    /\ LET l == c.stream[1]
           s == c.stream[2]
       IN  \/ c.kind = "started" /\ GetForStarted(h, l, s, c.key = "right")
           \/ c.kind = "stopped" /\ GetForStopped(h, l, s)
    /\ serving' = [serving EXCEPT ![h] = c]
    /\ UNCHANGED <<stream, key, life, callbacks, ingest, posts, told, faults>>

\* A process takes a post up: the handler's read.
Takes(h, c) ==
    /\ c \in posts
    /\ LET l == c.stream[1]
           s == c.stream[2]
       IN  \/ c.kind = "started" /\ GetForStarted(h, l, s, c.key = "right")
           \/ c.kind = "stopped" /\ GetForStopped(h, l, s)
    /\ posts' = posts \ {c}
    /\ serving' = [serving EXCEPT ![h] = c]
    /\ UNCHANGED <<stream, key, life, callbacks, ingest, told, faults>>

\* There is no such live: 404.
NotFound(c) ==
    /\ c \in posts
    /\ lives[c.stream[1]].status = "absent"
    /\ posts' = posts \ {c}
    /\ Answers(c, FALSE)
    /\ UNCHANGED <<vars, key, life, callbacks, serving, faults>>

\* IngestStarted and IngestStopped answer 202.
Accepts(c) ==
    \/ /\ c.op = "started"
       /\ c.authentic
       /\ SameSession(c) \/ (MayStart(c) /\ SessionFits(c) /\ Unchanged(c))
    \/ /\ c.op = "stopped"
       /\ c.read.session # NoSession
       /\ NothingToStop(c) \/ (MayStop(c) /\ Unchanged(c))

\* The handler's write and its answer.
Decides(h) ==
    /\ IngestStarted(h) \/ IngestStopped(h)
    /\ Answers(serving[h], Accepts(call[h]))
    /\ serving' = [serving EXCEPT ![h] = None]
    /\ UNCHANGED <<key, life, callbacks, posts, faults>>

\* The process dies at it, and the connection breaks.
Dies(h) ==
    /\ Fault
    /\ HandlerDies(h)
    /\ Answers(serving[h], AfterError)
    /\ serving' = [serving EXCEPT ![h] = None]
    /\ UNCHANGED <<key, life, callbacks, posts>>

\* Meanwhile lives are created and workers report.
ElsewhereAtTheApi ==
    /\ \/ \E l \in Lives : CreateLive(l)
       \/ \E h \in Handlers : \/ \E l \in Lives, g \in Generations : GetForReady(h, l, g)
                              \/ WorkerReady(h)
    /\ UNCHANGED ingestVars

IngestNext ==
    \/ \E p \in Streams : Departs(p) \/ \E k \in Keys : Publish(p, k)
    \/ NginxRestarts
    \/ \E c \in callbacks : Begins(c) \/ Rejects(c)
    \/ PostFails
    \/ \E c \in posts : NotFound(c) \/ \E h \in Handlers : Takes(h, c)
    \/ \E h \in Handlers : Decides(h) \/ Dies(h)
    \/ ElsewhereAtTheApi

IngestSpec == IngestInit /\ [][IngestNext]_<<vars, ingestVars>>

----------------------------------------------------------------------------
(* Properties.                                                             *)

IngestTypeOK ==
    /\ stream \in [Streams -> {"none", "asking", "onair", "refused", "gone"}]
    /\ key \in [Streams -> Keys]
    /\ life \in 0 .. MaxFaults
    /\ callbacks \subseteq Callback
    /\ ingest \in Callback \cup {None}
    /\ posts \subseteq Callback
    /\ \A h \in Handlers :
          \/ serving[h] = None
          \/ serving[h] \in Callback \ posts /\ serving[h].kind = call[h].op
    /\ told \subseteq Streams
    /\ faults \in 0 .. MaxFaults

\* Whoever is on the air owns the live, however posts were delayed, lost or
\* overtaken; so nobody else is on the air with it.  And the live is not over,
\* unless nginx was restarted and a publish-done of a client id it has handed
\* out again was still on its way.
OnAirOwns ==
    \A l \in Lives, s \in Sessions :
        stream[<<l, s>>] = "onair" =>
            /\ lives[l].session = s
            /\ life = 0 => lives[l].status \in Operational

\* A publish-done answered with 200 was not for nothing: the live its
\* publisher owned is over, also when start and stop raced through different
\* processes, or the start was given up and came later.
ToldMeansEnded ==
    \A l \in Lives, s \in Sessions :
        <<l, s>> \in told /\ lives[l].session = s => lives[l].status = "ended"
============================================================================
