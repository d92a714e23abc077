-------------------------------- MODULE Hub --------------------------------
(***************************************************************************)
(* packages/websocket/hub.go with the event bus of packages/core/events.go *)
(* in front of it: one goroutine owns the clients and the presence map,    *)
(* each connection has a reader and a writer, and all of them talk through *)
(* channels that drop what does not fit.  A Client is one connection: a    *)
(* browser that reconnects is another one.                                 *)
(***************************************************************************)
EXTENDS Naturals, Sequences, FiniteSets

CONSTANTS
  Client, Path,
  User, Nobody,     \* usernames; Nobody is "", authentication disabled
  Topic,            \* what events are about: paths, and NoPath when they concern everyone
  NoPath,
  UserOf,           \* UserOf[c]: who opened connection c
  Allowed(_, _),    \* AccessFunc: may this user learn about this path
  SendCap, InboxCap, BroadcastCap,   \* capacities (16, 64 and 64 in the code)
  MaxMessages,      \* bound: presence messages from browsers
  MaxEvents         \* bound: events published

ASSUME HubAssumption ==
  /\ Nobody \in User /\ UserOf \in [Client -> User]
  /\ NoPath \notin Path /\ Topic \subseteq Path \cup {NoPath}
  /\ \A u \in User, p \in Path : Allowed(u, p) \in BOOLEAN
  /\ SendCap \in Nat \ {0} /\ InboxCap \in Nat \ {0} /\ BroadcastCap \in Nat \ {0}
  /\ MaxMessages \in Nat /\ MaxEvents \in Nat

VARIABLES
  clients,     \* run: the registered clients
  presence,    \* run: presence[p][c], "left" where the map has no entry
  todo,        \* run: the paths it is about to notify of; {} when it selects
  inbox, broadcast, send, \* the buffered channels; send[c] is client c's
  closed,      \* the clients whose send channel is closed
  panicked,    \* a closed channel was closed or sent to: the server is gone
  link,        \* link[c]: connection and reader of c
  view, heard, \* what browser c was told last: who is at p; p's last event
  last, lost,  \* p's last event published; the paths whose last one was dropped
  dropped, late, \* clients trySend gave up; clients that spoke when gone
  messages, events       \* how much of each bound is used

hubVars == <<clients, presence, todo>>
channels == <<inbox, broadcast, send, closed, panicked>>
history == <<view, heard, last, lost, dropped, late, messages, events>>
vars == <<hubVars, channels, link, history>>

States == {"viewing", "editing", "left"}
Who == [viewers: SUBSET User, editors: SUBSET User]
Unknown == [viewers |-> {Nobody}, editors |-> {Nobody}]  \* nothing heard yet
Payload == [type: {"presence"}, path: Path, who: Who]
             \cup [type: {"event"}, path: Topic, n: 1..MaxEvents]

HubTypeOK ==
  /\ clients \in SUBSET Client /\ closed \in SUBSET Client
  /\ presence \in [Path -> [Client -> States]]
  /\ todo \in SUBSET Path
  /\ inbox \in Seq([c: Client, path: Path, state: States]) /\ Len(inbox) <= InboxCap
  /\ broadcast \in Seq([type: {"event"}, path: Topic, n: 1..MaxEvents])
  /\ Len(broadcast) <= BroadcastCap
  /\ send \in [Client -> Seq(Payload)] /\ \A c \in Client : Len(send[c]) <= SendCap
  /\ panicked \in BOOLEAN
  /\ link \in [Client -> {"new", "up", "down", "ended"}]
  /\ dropped \in SUBSET Client /\ late \in SUBSET Client
  /\ view \in [Client -> [Path -> Who]]
  /\ heard \in [Client -> [Topic -> 0..MaxEvents]]
  /\ last \in [Topic -> 0..MaxEvents] /\ lost \in SUBSET Topic
  /\ messages \in 0..MaxMessages /\ events \in 0..MaxEvents

Init ==
  /\ clients = {} /\ closed = {} /\ todo = {}
  /\ presence = [p \in Path |-> [c \in Client |-> "left"]]
  /\ inbox = << >> /\ broadcast = << >> /\ send = [c \in Client |-> << >>]
  /\ panicked = FALSE
  /\ link = [c \in Client |-> "new"]
  /\ view = [c \in Client |-> [p \in Path |-> Unknown]]
  /\ heard = [c \in Client |-> [p \in Topic |-> 0]]
  /\ last = [p \in Topic |-> 0] /\ lost = {} /\ dropped = {} /\ late = {}
  /\ messages = 0 /\ events = 0

Visible(c, p) == p = NoPath \/ Allowed(UserOf[c], p)

In(state, p) == {UserOf[c] : c \in {d \in Client : presence[p][d] = state}} \ {Nobody}

At(p) == [viewers |-> In("viewing", p), editors |-> In("editing", p)]

-----------------------------------------------------------------------------
(* The hub's goroutine: one case of its select, then the notifications     *)

Selecting == todo = {} /\ ~panicked

\* A slip: the message is skipped and the client kept.
FanOutSkips(m) ==
  LET to == {c \in clients : Visible(c, m.path) /\ Len(send[c]) < SendCap}
  IN /\ send' = [c \in Client |-> IF c \in to THEN Append(send[c], m) ELSE send[c]]
     /\ panicked' = (to \cap closed # {})
     /\ UNCHANGED <<clients, closed, dropped>>

\* A slip: the hub waits for room.
FanOutWaits(m) ==
  LET to == {c \in clients : Visible(c, m.path)}
  IN /\ \A c \in to : Len(send[c]) < SendCap
     /\ send' = [c \in Client |-> IF c \in to THEN Append(send[c], m) ELSE send[c]]
     /\ panicked' = (to \cap closed # {})
     /\ UNCHANGED <<clients, closed, dropped>>

\* trySend to every client that may know: one whose channel is full is
\* disconnected instead of waited for. Its presence stays.
FanOut(m) ==
  LET to == {c \in clients : Visible(c, m.path)}
      slow == {c \in to : Len(send[c]) = SendCap}
  IN /\ send' = [c \in Client |-> IF c \in to \ slow THEN Append(send[c], m) ELSE send[c]]
     /\ clients' = clients \ slow
     /\ closed' = closed \cup slow
     /\ dropped' = dropped \cup slow
     /\ panicked' = (to \cap closed # {})

Notify ==
  \E p \in todo :
    /\ ~panicked
    /\ todo' = todo \ {p}
    /\ FanOut([type |-> "presence", path |-> p, who |-> At(p)])
    /\ UNCHANGED <<presence, inbox, broadcast, link, view, heard, last, lost,
                   late, messages, events>>

\* ServeWS blocks until run has taken the client, then starts both pumps.
\* What the browser shows of the notes it has loaded itself.
Register(c) ==
  /\ Selecting /\ link[c] = "new"
  /\ clients' = clients \cup {c}
  /\ link' = [link EXCEPT ![c] = "up"]
  /\ heard' = [heard EXCEPT ![c] = last]
  /\ UNCHANGED <<presence, todo, channels, view, last, lost, dropped, late, messages, events>>

\* A slip: whoever unregisters is closed.
UnregisterAlways(c) ==
  /\ Selecting /\ link[c] = "down"
  /\ link' = [link EXCEPT ![c] = "ended"]
  /\ clients' = clients \ {c}
  /\ closed' = closed \cup {c}
  /\ panicked' = (c \in closed)
  /\ todo' = {p \in Path : presence[p][c] # "left"}
  /\ presence' = [p \in Path |-> [presence[p] EXCEPT ![c] = "left"]]
  /\ UNCHANGED <<inbox, broadcast, send, history>>

\* A slip: the client goes and its presence stays.
UnregisterKeepsPresence(c) ==
  /\ Selecting /\ link[c] = "down"
  /\ link' = [link EXCEPT ![c] = "ended"]
  /\ clients' = clients \ {c}
  /\ closed' = closed \cup {c}
  /\ UNCHANGED <<presence, todo, inbox, broadcast, send, panicked, history>>

\* The reader's deferred unregister. A client trySend has given up already is
\* left alone: its channel is closed, and its presence stays. What the channel
\* still holds is garbage now.
Unregister(c) ==
  /\ Selecting /\ link[c] = "down"
  /\ link' = [link EXCEPT ![c] = "ended"]
  /\ IF c \in clients
     THEN /\ clients' = clients \ {c}
          /\ closed' = closed \cup {c}
          /\ todo' = {p \in Path : presence[p][c] # "left"}
          /\ presence' = [p \in Path |-> [presence[p] EXCEPT ![c] = "left"]]
     ELSE UNCHANGED <<clients, closed, todo, presence>>
  /\ panicked' = (c \in clients \cap closed)
  /\ send' = [send EXCEPT ![c] = << >>]
  /\ UNCHANGED <<inbox, broadcast, history>>

\* A presence message is applied whether or not its client is still there.
TakeInbox ==
  LET m == Head(inbox) IN
  /\ Selecting /\ inbox # << >>
  /\ inbox' = Tail(inbox)
  /\ presence' = [presence EXCEPT ![m.path][m.c] = m.state]
  /\ todo' = {m.path}
  /\ late' = IF m.c \in clients \/ m.state = "left" THEN late ELSE late \cup {m.c}
  /\ UNCHANGED <<clients, broadcast, send, closed, panicked, link,
                 view, heard, last, lost, dropped, messages, events>>

TakeBroadcast ==
  /\ Selecting /\ broadcast # << >>
  /\ broadcast' = Tail(broadcast)
  /\ FanOut(Head(broadcast))
  /\ UNCHANGED <<presence, todo, inbox, link, view, heard, last, lost,
                 late, messages, events>>

-----------------------------------------------------------------------------
(* Its surroundings                                                        *)

\* Publish calls the hub's subscriber in the publisher's goroutine.
Publish(p) ==
  LET n == events + 1 IN
  /\ ~panicked /\ events < MaxEvents
  /\ events' = n /\ last' = [last EXCEPT ![p] = n]
  /\ IF Len(broadcast) < BroadcastCap
     THEN /\ broadcast' = Append(broadcast, [type |-> "event", path |-> p, n |-> n])
          /\ lost' = lost \ {p}
     ELSE lost' = lost \cup {p} /\ UNCHANGED broadcast
  /\ UNCHANGED <<hubVars, inbox, send, closed, panicked, link,
                 view, heard, dropped, late, messages>>

\* A slip: the inbox is not bounded.
ReadUnbounded(c, p, state) ==
  /\ ~panicked /\ link[c] = "up" /\ messages < MaxMessages
  /\ messages' = messages + 1
  /\ inbox' = Append(inbox, [c |-> c, path |-> p, state |-> state])
  /\ UNCHANGED <<hubVars, broadcast, send, closed, panicked, link,
                 view, heard, last, lost, dropped, late, events>>

\* readPump: a message goes to the inbox, or nowhere when that is full.
Read(c, p, state) ==
  /\ ~panicked /\ link[c] = "up" /\ messages < MaxMessages
  /\ messages' = messages + 1
  /\ inbox' = IF Len(inbox) < InboxCap
              THEN Append(inbox, [c |-> c, path |-> p, state |-> state]) ELSE inbox
  /\ UNCHANGED <<hubVars, broadcast, send, closed, panicked, link,
                 view, heard, last, lost, dropped, late, events>>

\* The tab is closed, the network fails, or pongWait passes: what the browser
\* showed is gone too. Both pumps end, the writer at its next write or ping.
Disconnect(c) ==
  /\ ~panicked /\ link[c] = "up"
  /\ link' = [link EXCEPT ![c] = "down"]
  /\ view' = [view EXCEPT ![c] = [p \in Path |-> Unknown]]
  /\ heard' = [heard EXCEPT ![c] = [p \in Topic |-> 0]]
  /\ UNCHANGED <<hubVars, channels, last, lost, dropped, late, messages, events>>

\* writePump writes what is left in a closed channel, then closes the connection.
CloseConnection(c) == c \in closed /\ send[c] = << >> /\ Disconnect(c)

\* writePump: the next message is written.
Deliver(c) ==
  LET m == Head(send[c]) IN
  /\ ~panicked /\ link[c] = "up" /\ send[c] # << >>
  /\ send' = [send EXCEPT ![c] = Tail(@)]
  /\ \/ /\ m.type = "presence" /\ view' = [view EXCEPT ![c][m.path] = m.who]
        /\ UNCHANGED heard
     \/ /\ m.type = "event" /\ heard' = [heard EXCEPT ![c][m.path] = m.n]
        /\ UNCHANGED view
  /\ UNCHANGED <<hubVars, inbox, broadcast, closed, panicked, link,
                 last, lost, dropped, late, messages, events>>

\* What run does when there is something to do; nobody has to connect.
Work == Notify \/ TakeInbox \/ TakeBroadcast \/ \E c \in Client : Unregister(c)

Next ==
  \/ Work
  \/ \E c \in Client :
       \/ Register(c)
       \/ CloseConnection(c) \/ Disconnect(c) \/ Deliver(c)
       \/ \E p \in Path, state \in States : Read(c, p, state)
  \/ \E p \in Topic : Publish(p)

Spec == Init /\ [][Next]_vars

\* The hub's goroutine runs. Nothing is assumed of the browsers: they may be
\* as slow as they like, and never speak or leave.
Fairness == WF_vars(Work)

FairSpec == Spec /\ Fairness

-----------------------------------------------------------------------------
(* Properties                                                              *)

\* trySend and unregister both close a client's channel, and three places send
\* to it: none of them closes or sends to one that is closed, which would take
\* the whole server down.
NeverPanics == ~panicked

\* No message is under way.
Quiet ==
  /\ Selecting /\ inbox = << >> /\ broadcast = << >>
  /\ \A c \in clients : send[c] = << >>

PresenceCurrent(c) ==
  \A p \in Path : Visible(c, p) => view[c][p] \in {At(p), Unknown}

EventsCurrent(c) ==
  \A p \in Topic : Visible(c, p) => (heard[c][p] = last[p] \/ p \in lost)

\* When nothing is under way, every client that is still registered was told
\* who is at a note last, if anything changed there since it came, and of the
\* last event of every path it may see, unless the hub's own queue was full.
ViewsConverge ==
  Quiet => \A c \in clients : link[c] = "up" => PresenceCurrent(c) /\ EventsCurrent(c)

\* A connection that has ended is present nowhere, with two exceptions: it was
\* dropped for being slow, or a message of its own was taken after it left.
GhostsExplained ==
  \A c \in Client, p \in Path :
    (link[c] = "ended" /\ presence[p][c] # "left") => c \in dropped \cup late

\* A connection that breaks is unregistered, however slow the other clients
\* are: run never waits for a client.
EndingsNoticed == \A c \in Client : (link[c] = "down") ~> (link[c] = "ended")

\* What plans/01-safe-collaboration.md:148 and :202 promise: presence of a
\* closed tab goes away. In the code nothing removes it later than this state.
NoGhosts ==
  Quiet => \A c \in Client, p \in Path : link[c] = "ended" => presence[p][c] = "left"
=============================================================================
