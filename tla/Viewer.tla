------------------------------- MODULE Viewer -------------------------------
(***************************************************************************)
(* One viewer's page: the reducer of state.js, and app.js around it, which *)
(* polls the catalogue, opens a playback session for the live clicked last *)
(* and attaches a video and a chat socket to what the BFF answers.  Nothing*)
(* cancels a request: answers arrive in any order, each to a page that has *)
(* moved on.                                                               *)
(***************************************************************************)
EXTENDS Naturals, FiniteSets, SequencesExt

CONSTANTS Lives, NoLive,
          Keep,            \* the messages the page keeps (200)
          MaxRequests,     \* bound: requests under way at a time
          MaxSelections,   \* bound: clicks on a live
          MaxMessages,     \* bound: messages of all chats together
          MaxFaults        \* bound: failed requests, dropped sockets, lost messages

ASSUME LivesAreFinite == IsFiniteSet(Lives)
ASSUME ViewerBounds ==
    /\ {Keep, MaxRequests, MaxSelections} \subseteq Nat \ {0}
    /\ {MaxMessages, MaxFaults} \subseteq Nat
    /\ NoLive \notin Lives

VARIABLES stage,       \* of each live, as the API tells it
          said,        \* how many messages each live's chat has numbered
          lost,        \* those of them that the chat service sends nobody
          page,        \* the reducer's state
          video,       \* the live whose manifest the player has
          socket,      \* the socket app.js holds, 0 for none
          sockets,     \* the sockets that are not closed, held or not
          requests,    \* the requests under way
          torn,        \* history: the lives whose chat dropped an open socket
          selections, faults

world == <<stage, said, lost>>
wires == <<video, socket, sockets, torn>>
vars  == <<world, page, wires, requests, selections, faults>>

OnAir == {l \in Lives : stage[l] = "live"}

Maybe   == Lives \cup {NoLive}
Message == [live : Lives, sequence : 1 .. MaxMessages]
Page    == [status : {"loading", "ready", "error"}, error : BOOLEAN,
            lives : SUBSET Lives, selected : Maybe, playback : Maybe,
            messages : Seq(Message)]

\* An open socket has still to deliver the messages from `next` on.
Socket  == [live : Lives, open : BOOLEAN, next : 1 .. MaxMessages + 1]

\* A catalogue request (live = NoLive) or one for a playback session; `answer` is
\* what the BFF said: nothing yet, the lives it listed, or that it failed.
Request == [live : Maybe, silent : BOOLEAN,
            answer : {{"pending"}, {"failed"}} \cup SUBSET Lives]
Asks(l, silent) ==
    requests' = Append(requests, [live |-> l, silent |-> silent, answer |-> {"pending"}])

----------------------------------------------------------------------------
(* reduce.  Whether there is an error message is all that is kept of it.    *)

\* Mutant of Loaded: the selection is kept whatever the catalogue says.
LoadedKeeps(lives) == [page EXCEPT !.status = "ready", !.lives = lives]

\* What the error was, if there was one, stays.
Loaded(lives) ==
    LET gone == page.selected \notin lives
    IN  [page EXCEPT !.status = "ready", !.lives = lives,
                     !.selected = IF gone THEN NoLive ELSE @,
                     !.playback = IF gone THEN NoLive ELSE @,
                     !.messages = IF gone THEN <<>> ELSE @]

Failed == [page EXCEPT !.status = "error", !.error = TRUE]

Selected(l) ==
    [page EXCEPT !.selected = l, !.playback = NoLive, !.messages = <<>>]

PlaybackLoaded(l) ==
    IF l = page.selected THEN [page EXCEPT !.playback = l] ELSE page

\* Array.sort by sequence, which leaves equal ones in their order.
Sorted(messages) ==
    LET p == CHOOSE q \in Bijection(DOMAIN messages, DOMAIN messages) :
                \A i, j \in DOMAIN messages : i < j =>
                   \/ messages[q[i]].sequence < messages[q[j]].sequence
                   \/ messages[q[i]].sequence = messages[q[j]].sequence /\ q[i] < q[j]
    IN  [i \in DOMAIN messages |-> messages[p[i]]]

\* Mutant of Newest: the list is not cut.
NewestAll(messages) == Sorted(messages)

Newest(messages) ==
    LET sorted == Sorted(messages)
    IN  IF Len(sorted) =< Keep THEN sorted
        ELSE SubSeq(sorted, Len(sorted) - Keep + 1, Len(sorted))

\* Mutant of ChatMessage: the message is not looked for in the list.
ChatMessageAgain(m) ==
    IF m.live # page.selected THEN page
    ELSE [page EXCEPT !.messages = Newest(Append(@, m))]

ChatMessage(m) ==
    IF m.live # page.selected \/ m \in Range(page.messages) THEN page
    ELSE [page EXCEPT !.messages = Newest(Append(@, m))]

----------------------------------------------------------------------------
(* app.js.                                                                 *)

\* The page starts with one catalogue request that is not silent.
Init == /\ stage \in [Lives -> {"soon", "live"}]
        /\ said = [l \in Lives |-> 0]
        /\ lost = {}
        /\ page = [status |-> "loading", error |-> FALSE, lives |-> {},
                   selected |-> NoLive, playback |-> NoLive, messages |-> <<>>]
        /\ video = NoLive
        /\ socket = 0
        /\ sockets = <<>>
        /\ requests = << [live |-> NoLive, silent |-> FALSE, answer |-> {"pending"}] >>
        /\ torn = {}
        /\ selections = 0
        /\ faults = 0

\* The timer ticks or the dialog is closed.
Poll == /\ Len(requests) < MaxRequests
        /\ Asks(NoLive, TRUE)
        /\ UNCHANGED <<world, page, wires, selections, faults>>

\* The list shows l, and not an error instead.
Listed(l) == page.status # "error" /\ l \in page.lives

\* The socket held is closed; of others nothing is known any more.
ClosePlayback ==
    /\ video' = NoLive
    /\ socket' = 0
    /\ sockets' = [s \in DOMAIN sockets \ {socket} |-> sockets[s]]
    /\ UNCHANGED torn

\* A click on a live.
SelectLive(l) ==
    /\ Listed(l)
    /\ selections < MaxSelections
    /\ Len(requests) < MaxRequests
    /\ selections' = selections + 1
    /\ ClosePlayback
    /\ page' = Selected(l)
    /\ Asks(l, FALSE)
    /\ UNCHANGED <<world, faults>>

\* The BFF answers with what the API says now: the lives on the air, or
\* whether this one is; or either of them fails.
Serve ==
    \E i \in DOMAIN requests :
        /\ requests[i].answer = {"pending"}
        /\ \/ /\ requests' = [requests EXCEPT ![i].answer =
                     IF @ # {"pending"} THEN @
                     ELSE IF requests[i].live = NoLive THEN OnAir
                     ELSE OnAir \cap {requests[i].live}]
              /\ UNCHANGED faults
           \/ /\ faults < MaxFaults
              /\ faults' = faults + 1
              /\ requests' = [requests EXCEPT ![i].answer = {"failed"}]
        /\ UNCHANGED <<world, page, wires, selections>>

\* The request raises: a failure, or 409 for a live that is not on the air.
Errs(r) == r.answer = {"failed"} \/ (r.live # NoLive /\ r.answer = {})

\* attachVideo and attachChat, whatever is selected by now.  The socket held
\* before, if an earlier answer has attached one since the click, stays open.
Attach(l) ==
    LET s == CHOOSE n \in 1 .. MaxSelections + 1 : n \notin DOMAIN sockets \cup {socket}
    IN  /\ video' = l
        /\ socket' = s
        /\ sockets' = [n \in DOMAIN sockets \cup {s} |->
                          IF n = s THEN [live |-> l, open |-> FALSE, next |-> 1]
                          ELSE sockets[n]]
        /\ UNCHANGED torn

\* The catalogue arrives, or its request raises, which the timer's do silently.
CatalogArrives(r) ==
    /\ r.live = NoLive
    /\ page' = IF ~Errs(r) THEN Loaded(r.answer)
               ELSE IF r.silent THEN page ELSE Failed
    /\ UNCHANGED wires

\* The playback session of a click arrives, or its request raises.
PlaybackArrives(r) ==
    /\ r.live # NoLive
    /\ \/ Errs(r) /\ page' = Failed /\ UNCHANGED wires
       \/ ~Errs(r) /\ page' = PlaybackLoaded(r.live) /\ Attach(r.live)

\* The answer of any request reaches the page.
Arrive ==
    \E i \in DOMAIN requests :
        /\ requests[i].answer # {"pending"}
        /\ CatalogArrives(requests[i]) \/ PlaybackArrives(requests[i])
        /\ requests' = RemoveAt(requests, i)
        /\ UNCHANGED <<world, selections, faults>>

\* The chat service admits a socket: it gets what is said from now on.
Open(s) ==
    /\ ~sockets[s].open
    /\ sockets' = [sockets EXCEPT ![s].open = TRUE, ![s].next = said[sockets[s].live] + 1]
    /\ UNCHANGED <<world, page, video, socket, requests, torn, selections, faults>>

\* It refuses the socket, or drops it; app.js does not connect again.
Dropped(s) ==
    /\ faults < MaxFaults
    /\ faults' = faults + 1
    /\ sockets' = [n \in DOMAIN sockets \ {s} |-> sockets[n]]
    /\ torn' = IF sockets[s].open THEN torn \cup {sockets[s].live} ELSE torn
    /\ UNCHANGED <<world, page, video, socket, requests, selections>>

\* A socket, held or not, has the next number for the page, but for one that
\* was lost: nothing comes of that.
Receive(s) ==
    LET c == sockets[s]
        m == [live |-> c.live, sequence |-> c.next]
    IN  /\ c.open
        /\ c.next =< said[c.live]
        /\ sockets' = [sockets EXCEPT ![s].next = @ + 1]
        /\ page' = IF m \in lost THEN page ELSE ChatMessage(m)
        /\ UNCHANGED <<world, video, socket, requests, torn, selections, faults>>

\* render enables the form when there is a playback and the socket is open.
ChatEnabled == page.playback # NoLive /\ socket \in DOMAIN sockets /\ sockets[socket].open

\* The viewer, or somebody else, says something in a live.  If the call to
\* Redis raises once the script has run, the number is taken and nobody is
\* sent the message, nor told that one is missing.  (The speaker's own socket
\* ends with that call: that is Dropped.)
Says(l) ==
    /\ stage[l] = "live" \/ (ChatEnabled /\ sockets[socket].live = l)
    /\ Cardinality({m \in Message : m.sequence =< said[m.live]}) < MaxMessages
    /\ said' = [said EXCEPT ![l] = @ + 1]
    /\ \/ UNCHANGED <<lost, faults>>
       \/ /\ faults < MaxFaults
          /\ faults' = faults + 1
          /\ lost' = lost \cup {[live |-> l, sequence |-> said'[l]]}
    /\ UNCHANGED <<stage, page, wires, requests, selections>>

\* A live begins to play, or ends.
LiveMoves(l) ==
    /\ stage[l] # "ended"
    /\ stage' = [stage EXCEPT ![l] = IF @ = "soon" THEN "live" ELSE "ended"]
    /\ UNCHANGED <<said, lost, page, wires, requests, selections, faults>>

Next == \/ Poll \/ Serve \/ Arrive
        \/ \E l \in Lives : SelectLive(l) \/ Says(l) \/ LiveMoves(l)
        \/ \E s \in DOMAIN sockets : Open(s) \/ Dropped(s) \/ Receive(s)

\* The requests never stand still: the timer keeps ticking, and the time limits
\* of the BFF's client and of the browser answer what nobody else does.
Spec == Init /\ [][Next]_vars /\ WF_requests(Next)

----------------------------------------------------------------------------
(* Properties.                                                             *)

TypeOK ==
    /\ stage \in [Lives -> {"soon", "live", "ended"}]
    /\ said \in [Lives -> 0 .. MaxMessages]
    /\ lost \subseteq Message
    /\ page \in Page
    /\ Len(page.messages) =< Keep
    /\ video \in Maybe
    /\ socket \in 0 .. MaxSelections + 1
    /\ DOMAIN sockets \subseteq 1 .. MaxSelections + 1
    /\ Range(sockets) \subseteq Socket
    /\ requests \in Seq(Request)
    /\ Len(requests) =< MaxRequests
    /\ torn \subseteq Lives
    /\ selections \in 0 .. MaxSelections
    /\ faults \in 0 .. MaxFaults

\* The message n of live l is still on its way.
OnItsWay(l, n) ==
    \E s \in DOMAIN sockets :
        sockets[s].open /\ sockets[s].live = l /\ sockets[s].next =< n

\* What the page shows is of one live that it lists: the messages are of the
\* live selected, each once, in the order of their numbers, and if one is left
\* out it is on its way, or was lost at Redis for everybody, or the chat dropped
\* a socket of this page: all that although old sockets keep delivering.
ShownTogether ==
    /\ page.selected \in page.lives \cup {NoLive}
    /\ page.playback \in {page.selected, NoLive}
    /\ \A m \in Range(page.messages) : m.live = page.selected
    /\ \A i \in 1 .. Len(page.messages) - 1 :
          LET a == page.messages[i].sequence
              b == page.messages[i + 1].sequence
          IN  /\ a < b
              /\ page.selected \notin torn =>
                     \A n \in a + 1 .. b - 1 :
                        \/ OnItsWay(page.selected, n)
                        \/ [live |-> page.selected, sequence |-> n] \in lost

\* In the end the page lists the lives on the air, is not in its error status,
\* and has nothing selected that is over, in whatever order the answers came.
\* An old error may still stand where an empty list is: see OldErrorGoes.
CatalogConverges ==
    <>[](/\ page.status = "ready"
         /\ page.lives = OnAir
         /\ page.selected \in OnAir \cup {NoLive})

\* What renderCatalog writes instead of a list.
ErrorShown == page.error /\ (page.status = "error" \/ page.lives = {})

\* The page stops showing an error.  It need not: a catalogue that arrives
\* after it does not clear it, and if nothing is on the air it is shown.
OldErrorGoes == <>[]~ErrorShown

\* The player and the chat the viewer writes to belong to the live the page
\* shows as selected.
PlaysSelected ==
    ChatEnabled => sockets[socket].live = page.selected /\ video = page.selected
============================================================================
