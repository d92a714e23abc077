------------------------------ MODULE HubProofs ------------------------------
(***************************************************************************)
(* Proofs about Hub for any connections, notes, users, access rules and    *)
(* channel capacities.  The argument: a client leaves the hub's set at the *)
(* moment its channel is closed, so nothing closes or sends to it again;   *)
(* and what is still under way to a client ends in what the client is to   *)
(* know, so nothing under way means the client knows it.                   *)
(***************************************************************************)
EXTENDS Hub, SequenceTheorems, TLAPS

-----------------------------------------------------------------------------
(* Queues: what a queue says last about something                          *)

\* s holds nothing of M.
Lacks(s, M) == \A k \in 1..Len(s) : s[k] \notin M

\* The last member of M in s, if there is one, is in G.
EndsIn(s, M, G) ==
  \A k \in 1..Len(s) :
    s[k] \in M /\ (\A j \in 1..Len(s) : j > k => s[j] \notin M) => s[k] \in G

\* What is appended is the last word, if it is of M at all.
LEMMA AppendEnds ==
  ASSUME NEW S, NEW s \in Seq(S), NEW m \in S, NEW M, NEW G
  PROVE  /\ Lacks(Append(s, m), M) <=> Lacks(s, M) /\ m \notin M
         /\ m \in M /\ m \in G => EndsIn(Append(s, m), M, G)
         /\ m \notin M /\ EndsIn(s, M, G) => EndsIn(Append(s, m), M, G)
<1> DEFINE t == Append(s, m)
<1>1. /\ Len(s) \in Nat /\ Len(t) = Len(s) + 1
      /\ \A k \in 1..Len(s) : t[k] = s[k]
      /\ t[Len(s) + 1] = m
  BY AppendProperties, LenProperties
<1> HIDE DEF t
<1>2. Lacks(t, M) <=> Lacks(s, M) /\ m \notin M
  <2>1. Lacks(t, M) => Lacks(s, M) /\ m \notin M
    BY <1>1 DEF Lacks
  <2>2. Lacks(s, M) /\ m \notin M => Lacks(t, M)
    BY <1>1 DEF Lacks
  <2>. QED BY <2>1, <2>2
<1>3. m \in M /\ m \in G => EndsIn(t, M, G)
  BY <1>1 DEF EndsIn
<1>4. m \notin M /\ EndsIn(s, M, G) => EndsIn(t, M, G)
  <2> SUFFICES ASSUME m \notin M, EndsIn(s, M, G), NEW k \in 1..Len(t), t[k] \in M,
                      \A j \in 1..Len(t) : j > k => t[j] \notin M
               PROVE  t[k] \in G
    BY DEF EndsIn
  <2>1. k \in 1..Len(s) /\ s[k] = t[k]
    BY <1>1
  <2>2. \A j \in 1..Len(s) : j > k => s[j] \notin M
    BY <1>1
  <2>. QED BY <2>1, <2>2 DEF EndsIn
<1>. QED BY <1>2, <1>3, <1>4 DEF t

\* Taking the head leaves the last word as it was, unless it was the head.
LEMMA TailEnds ==
  ASSUME NEW S, NEW s \in Seq(S), s # << >>, NEW M, NEW G
  PROVE  /\ EndsIn(s, M, G) => EndsIn(Tail(s), M, G)
         /\ Lacks(s, M) <=> Lacks(Tail(s), M) /\ Head(s) \notin M
         /\ EndsIn(s, M, G) /\ Lacks(Tail(s), M) /\ Head(s) \in M => Head(s) \in G
<1> DEFINE t == Tail(s)
<1>1. /\ Len(s) \in Nat /\ Len(s) >= 1 /\ Len(t) = Len(s) - 1
      /\ \A k \in 1..Len(t) : t[k] = s[k + 1]
      /\ Head(s) = s[1]
  BY HeadTailProperties, EmptySeq, LenProperties
<1> HIDE DEF t
<1>2. EndsIn(s, M, G) => EndsIn(t, M, G)
  <2> SUFFICES ASSUME EndsIn(s, M, G), NEW k \in 1..Len(t), t[k] \in M,
                      \A j \in 1..Len(t) : j > k => t[j] \notin M
               PROVE  t[k] \in G
    BY DEF EndsIn
  <2>1. k + 1 \in 1..Len(s) /\ s[k + 1] = t[k]
    BY <1>1
  <2>2. ASSUME NEW j \in 1..Len(s), j > k + 1 PROVE s[j] \notin M
    <3>1. j - 1 \in 1..Len(t) /\ j - 1 > k /\ (j - 1) + 1 = j
      BY <1>1, <2>2
    <3>. QED BY <1>1, <3>1
  <2>. QED BY <2>1, <2>2 DEF EndsIn
<1>3. Lacks(s, M) <=> Lacks(t, M) /\ Head(s) \notin M
  <2>1. Lacks(s, M) => Lacks(t, M) /\ Head(s) \notin M
    BY <1>1 DEF Lacks
  <2>2. ASSUME Lacks(t, M), Head(s) \notin M, NEW k \in 1..Len(s) PROVE s[k] \notin M
    <3>1. CASE k = 1
      BY <1>1, <2>2, <3>1
    <3>2. CASE k # 1
      <4>1. k - 1 \in 1..Len(t) /\ (k - 1) + 1 = k
        BY <1>1, <3>2
      <4>. QED BY <1>1, <2>2, <4>1 DEF Lacks
    <3>. QED BY <3>1, <3>2
  <2>. QED BY <2>1, <2>2 DEF Lacks
<1>4. EndsIn(s, M, G) /\ Lacks(t, M) /\ Head(s) \in M => Head(s) \in G
  <2> SUFFICES ASSUME EndsIn(s, M, G), Lacks(t, M), Head(s) \in M PROVE Head(s) \in G
    OBVIOUS
  <2>1. ASSUME NEW j \in 1..Len(s), j > 1 PROVE s[j] \notin M
    <3>1. j - 1 \in 1..Len(t) /\ (j - 1) + 1 = j
      BY <1>1, <2>1
    <3>. QED BY <1>1, <3>1 DEF Lacks
  <2>. QED BY <1>1, <2>1 DEF EndsIn
<1>. QED BY <1>2, <1>3, <1>4 DEF t

\* The empty queue says nothing.
LEMMA EmptyEnds ==
  ASSUME NEW M, NEW G
  PROVE  Lacks(<< >>, M) /\ EndsIn(<< >>, M, G)
BY DEF Lacks, EndsIn

-----------------------------------------------------------------------------
(* Type correctness *)

LEMMA AtType ==
  ASSUME HubAssumption, NEW p \in Path
  PROVE  At(p) \in Who
BY DEF HubAssumption, At, In, Who

\* The hub's messages are payloads, and stay so.
LEMMA FanOutType ==
  ASSUME HubTypeOK, NEW m \in Payload, FanOut(m)
  PROVE  /\ clients' \in SUBSET Client /\ closed' \in SUBSET Client
         /\ dropped' \in SUBSET Client /\ panicked' \in BOOLEAN
         /\ send' \in [Client -> Seq(Payload)]
         /\ \A c \in Client : Len(send'[c]) <= SendCap
<1>1. \A c \in Client : /\ send[c] \in Seq(Payload) /\ Len(send[c]) \in Nat
                        /\ Append(send[c], m) \in Seq(Payload)
                        /\ Len(Append(send[c], m)) = Len(send[c]) + 1
  BY AppendProperties, LenProperties DEF HubTypeOK
<1> DEFINE to == {c \in clients : Visible(c, m.path)}
           slow == {c \in to : Len(send[c]) = SendCap}
<1>2. send' = [c \in Client |-> IF c \in to \ slow THEN Append(send[c], m) ELSE send[c]]
  BY DEF FanOut
<1>3. \A c \in to \ slow : Len(send[c]) # SendCap
  OBVIOUS
<1>4. SendCap \in Nat
  BY HubAssumption DEF HubAssumption
<1>. HIDE DEF to, slow
<1>5. send' \in [Client -> Seq(Payload)] /\ \A c \in Client : Len(send'[c]) <= SendCap
  BY <1>1, <1>2, <1>3, <1>4 DEF HubTypeOK
<1>. QED BY <1>5 DEF FanOut, HubTypeOK

LEMMA HubTypeStep ==
  ASSUME HubTypeOK, [Next]_vars
  PROVE  HubTypeOK'
<1>a. /\ SendCap \in Nat /\ InboxCap \in Nat /\ BroadcastCap \in Nat
      /\ MaxMessages \in Nat /\ MaxEvents \in Nat
      /\ Nobody \in User /\ Topic \subseteq Path \cup {NoPath}
  BY HubAssumption DEF HubAssumption
<1>1. CASE Notify
  <2>1. PICK p \in todo :
          /\ todo' = todo \ {p}
          /\ FanOut([type |-> "presence", path |-> p, who |-> At(p)])
          /\ UNCHANGED <<presence, inbox, broadcast, link, view, heard, last, lost,
                         late, messages, events>>
    BY <1>1 DEF Notify
  <2>2. [type |-> "presence", path |-> p, who |-> At(p)] \in Payload
    BY HubAssumption, AtType DEF Payload, HubTypeOK
  <2>. QED BY <2>1, <2>2, FanOutType DEF HubTypeOK
<1>2. CASE TakeInbox
  <2>1. inbox # << >> /\ inbox' = Tail(inbox)
    BY <1>2 DEF TakeInbox
  <2>2. /\ Head(inbox) \in [c: Client, path: Path, state: States]
        /\ Tail(inbox) \in Seq([c: Client, path: Path, state: States])
        /\ Len(Tail(inbox)) = Len(inbox) - 1 /\ Len(inbox) \in Nat
    BY <2>1, HeadTailProperties, LenProperties DEF HubTypeOK
  <2>3. presence' \in [Path -> [Client -> States]] /\ todo' \in SUBSET Path /\ late' \in SUBSET Client
    BY <1>2, <2>2 DEF TakeInbox, HubTypeOK
  <2>. QED BY <1>a, <1>2, <2>2, <2>3 DEF TakeInbox, HubTypeOK
<1>3. CASE TakeBroadcast
  <2>1. broadcast # << >> /\ broadcast' = Tail(broadcast) /\ FanOut(Head(broadcast))
    BY <1>3 DEF TakeBroadcast
  <2>2. /\ Head(broadcast) \in Payload
        /\ Tail(broadcast) \in Seq([type: {"event"}, path: Topic, n: 1..MaxEvents])
        /\ Len(Tail(broadcast)) = Len(broadcast) - 1 /\ Len(broadcast) \in Nat
    BY <2>1, HeadTailProperties, LenProperties DEF HubTypeOK, Payload
  <2>3. /\ clients' \in SUBSET Client /\ closed' \in SUBSET Client
        /\ dropped' \in SUBSET Client /\ panicked' \in BOOLEAN
        /\ send' \in [Client -> Seq(Payload)]
        /\ \A c \in Client : Len(send'[c]) <= SendCap
    BY <2>1, <2>2, FanOutType
  <2>4. Len(broadcast') <= BroadcastCap
    BY <1>a, <2>1, <2>2 DEF HubTypeOK
  <2>. QED BY <1>3, <2>1, <2>2, <2>3, <2>4 DEF TakeBroadcast, HubTypeOK
<1>4. ASSUME NEW c \in Client, Unregister(c) PROVE HubTypeOK'
  <2>1. presence' \in [Path -> [Client -> States]] /\ todo' \in SUBSET Path
    <3>1. \A p \in Path : [presence[p] EXCEPT ![c] = "left"] \in [Client -> States]
      BY DEF HubTypeOK, States
    <3>2. CASE c \in clients
      BY <1>4, <3>1, <3>2 DEF Unregister
    <3>3. CASE c \notin clients
      BY <1>4, <3>3 DEF Unregister, HubTypeOK
    <3>. QED BY <3>2, <3>3
  <2>2. /\ send' = [send EXCEPT ![c] = << >>]
        /\ << >> \in Seq(Payload) /\ Len(<< >>) = 0
    BY <1>4, EmptySeq DEF Unregister
  <2>3. send' \in [Client -> Seq(Payload)] /\ \A d \in Client : Len(send'[d]) <= SendCap
    BY <1>a, <2>2 DEF HubTypeOK
  <2>. QED BY <1>4, <2>1, <2>3 DEF Unregister, HubTypeOK, history
<1>5. ASSUME NEW c \in Client, Register(c) PROVE HubTypeOK'
  BY <1>5 DEF Register, HubTypeOK, channels
<1>6. ASSUME NEW c \in Client, Disconnect(c) PROVE HubTypeOK'
  BY <1>a, <1>6 DEF Disconnect, HubTypeOK, hubVars, channels, Unknown, Who
<1>7. ASSUME NEW c \in Client, Deliver(c) PROVE HubTypeOK'
  <2>1. send[c] # << >> /\ send' = [send EXCEPT ![c] = Tail(@)]
    BY <1>7 DEF Deliver
  <2>2. /\ Head(send[c]) \in Payload /\ Tail(send[c]) \in Seq(Payload)
        /\ Len(Tail(send[c])) = Len(send[c]) - 1 /\ Len(send[c]) \in Nat
    BY <2>1, HeadTailProperties, LenProperties DEF HubTypeOK
  <2>3. send' \in [Client -> Seq(Payload)] /\ \A d \in Client : Len(send'[d]) <= SendCap
    BY <1>a, <2>1, <2>2 DEF HubTypeOK
  <2>4. view' \in [Client -> [Path -> Who]] /\ heard' \in [Client -> [Topic -> 0..MaxEvents]]
    <3> DEFINE m == Head(send[c])
    <3>1. CASE m.type = "presence" /\ view' = [view EXCEPT ![c][m.path] = m.who] /\ UNCHANGED heard
      <4>1. m.path \in Path /\ m.who \in Who
        BY <2>2, <3>1 DEF Payload
      <4>. QED BY <3>1, <4>1 DEF HubTypeOK
    <3>2. CASE m.type = "event" /\ heard' = [heard EXCEPT ![c][m.path] = m.n] /\ UNCHANGED view
      <4>1. m.path \in Topic /\ m.n \in 0..MaxEvents
        BY <2>2, <3>2 DEF Payload
      <4>. QED BY <3>2, <4>1 DEF HubTypeOK
    <3>. QED BY <1>7, <3>1, <3>2 DEF Deliver
  <2>. QED BY <1>7, <2>3, <2>4 DEF Deliver, HubTypeOK, hubVars
<1>8. ASSUME NEW c \in Client, NEW p \in Path, NEW state \in States, Read(c, p, state)
      PROVE  HubTypeOK'
  <2> DEFINE m == [c |-> c, path |-> p, state |-> state]
  <2>1. m \in [c: Client, path: Path, state: States]
    OBVIOUS
  <2>. HIDE DEF m
  <2>2. /\ Append(inbox, m) \in Seq([c: Client, path: Path, state: States])
        /\ Len(Append(inbox, m)) = Len(inbox) + 1 /\ Len(inbox) \in Nat
    BY <2>1, AppendProperties, LenProperties DEF HubTypeOK
  <2>3. inbox' = IF Len(inbox) < InboxCap THEN Append(inbox, m) ELSE inbox
    BY <1>8 DEF Read, m
  <2>4. inbox' \in Seq([c: Client, path: Path, state: States]) /\ Len(inbox') <= InboxCap
    <3>1. CASE Len(inbox) < InboxCap
      BY <1>a, <2>2, <2>3, <3>1
    <3>2. CASE ~(Len(inbox) < InboxCap)
      BY <2>3, <3>2 DEF HubTypeOK
    <3>. QED BY <3>1, <3>2
  <2>. QED BY <1>a, <1>8, <2>4 DEF Read, HubTypeOK, hubVars
<1>9. ASSUME NEW p \in Topic, Publish(p) PROVE HubTypeOK'
  <2> DEFINE m == [type |-> "event", path |-> p, n |-> events + 1]
             T == [type: {"event"}, path: Topic, n: 1..MaxEvents]
  <2>1. m \in T
    BY <1>a, <1>9 DEF Publish, HubTypeOK
  <2>. HIDE DEF m
  <2>2. /\ Append(broadcast, m) \in Seq(T)
        /\ Len(Append(broadcast, m)) = Len(broadcast) + 1 /\ Len(broadcast) \in Nat
    BY <2>1, AppendProperties, LenProperties DEF HubTypeOK
  <2>3. broadcast' = IF Len(broadcast) < BroadcastCap THEN Append(broadcast, m) ELSE broadcast
    BY <1>9 DEF Publish, m
  <2>4. broadcast' \in Seq(T) /\ Len(broadcast') <= BroadcastCap
    <3>1. CASE Len(broadcast) < BroadcastCap
      BY <1>a, <2>2, <2>3, <3>1
    <3>2. CASE ~(Len(broadcast) < BroadcastCap)
      BY <2>3, <3>2 DEF HubTypeOK
    <3>. QED BY <3>1, <3>2
  <2>5. events' \in 0..MaxEvents /\ last' \in [Topic -> 0..MaxEvents] /\ lost' \in SUBSET Topic
    BY <1>a, <1>9 DEF Publish, HubTypeOK
  <2>. QED BY <1>9, <2>4, <2>5 DEF Publish, HubTypeOK, hubVars
<1>10. CASE UNCHANGED vars
  BY <1>10 DEF vars, hubVars, channels, history, HubTypeOK
<1>. QED
  BY <1>1, <1>2, <1>3, <1>4, <1>5, <1>6, <1>7, <1>8, <1>9, <1>10
  DEF Next, Work, CloseConnection

\* Every variable keeps its type, and no channel exceeds its capacity: what
\* does not fit is dropped or its client is (inbox, broadcast and send of
\* websocket/hub.go).
THEOREM HubTypeCorrect == Spec => []HubTypeOK
<1>1. Init => HubTypeOK
  <2>. SUFFICES ASSUME Init PROVE HubTypeOK
    OBVIOUS
  <2>1. \A S : << >> \in Seq(S) /\ Len(<< >>) = 0
    BY EmptySeq
  <2>2. Unknown \in Who /\ "left" \in States
    BY HubAssumption DEF HubAssumption, Unknown, Who, States
  <2>3. /\ SendCap \in Nat /\ InboxCap \in Nat /\ BroadcastCap \in Nat
        /\ MaxMessages \in Nat /\ MaxEvents \in Nat
    BY HubAssumption DEF HubAssumption
  <2>4. inbox \in Seq([c: Client, path: Path, state: States]) /\ Len(inbox) <= InboxCap
    BY <2>1, <2>3 DEF Init
  <2>5. /\ broadcast \in Seq([type: {"event"}, path: Topic, n: 1..MaxEvents])
        /\ Len(broadcast) <= BroadcastCap
    BY <2>1, <2>3 DEF Init
  <2>6. send \in [Client -> Seq(Payload)] /\ \A c \in Client : Len(send[c]) <= SendCap
    BY <2>1, <2>3 DEF Init
  <2>7. /\ presence \in [Path -> [Client -> States]]
        /\ link \in [Client -> {"new", "up", "down", "ended"}]
        /\ view \in [Client -> [Path -> Who]]
        /\ heard \in [Client -> [Topic -> 0..MaxEvents]]
        /\ last \in [Topic -> 0..MaxEvents]
    BY <2>2, <2>3 DEF Init
  <2>8. /\ clients \in SUBSET Client /\ closed \in SUBSET Client /\ todo \in SUBSET Path
        /\ dropped \in SUBSET Client /\ late \in SUBSET Client /\ lost \in SUBSET Topic
        /\ panicked \in BOOLEAN
    BY DEF Init
  <2>9. messages \in 0..MaxMessages /\ events \in 0..MaxEvents
    BY <2>3 DEF Init
  <2>. QED BY <2>3, <2>4, <2>5, <2>6, <2>7, <2>8, <2>9 DEF HubTypeOK
<1>2. HubTypeOK /\ [Next]_vars => HubTypeOK'
  BY HubTypeStep
<1>. QED BY <1>1, <1>2, PTL DEF Spec

-----------------------------------------------------------------------------
(* Connections and their presence *)

\* A registered client's channel is open; one that has not come or has ended
\* is not registered; whoever is present is registered or has an excuse.
ConnectionsOK ==
  /\ clients \cap closed = {} /\ ~panicked
  /\ \A c \in Client :
       /\ link[c] = "new" => c \notin closed /\ send[c] = << >> /\ \A p \in Path : view[c][p] = Unknown
       /\ link[c] \in {"new", "ended"} => c \notin clients
       /\ \A p \in Path : presence[p][c] # "left" => c \in clients \cup dropped \cup late

\* A fan-out to clients with open channels closes those of the slow ones, and
\* the others that may know have the message behind what they had.
LEMMA FanOutEffect ==
  ASSUME HubTypeOK, ConnectionsOK, NEW m \in Payload, FanOut(m)
  PROVE  /\ clients' \subseteq clients /\ clients' \cap closed' = {} /\ ~panicked'
         /\ closed' \subseteq closed \cup clients
         /\ clients \ clients' \subseteq dropped' /\ dropped \subseteq dropped'
         /\ \A c \in Client \ clients : send'[c] = send[c]
         /\ \A c \in clients' :
              send'[c] = IF Visible(c, m.path) THEN Append(send[c], m) ELSE send[c]
BY DEF FanOut, ConnectionsOK, HubTypeOK

LEMMA ConnectionsStep ==
  ASSUME HubTypeOK, ConnectionsOK, [Next]_vars
  PROVE  ConnectionsOK'
<1>1. CASE Notify
  <2>1. PICK p \in todo :
          /\ FanOut([type |-> "presence", path |-> p, who |-> At(p)])
          /\ UNCHANGED <<presence, link, view, late>>
    BY <1>1 DEF Notify
  <2>2. [type |-> "presence", path |-> p, who |-> At(p)] \in Payload
    BY HubAssumption, AtType DEF Payload, HubTypeOK
  <2>. QED BY <2>1, <2>2, FanOutEffect DEF ConnectionsOK
<1>2. CASE TakeBroadcast
  <2>1. Head(broadcast) \in Payload
    BY <1>2, HeadTailProperties DEF TakeBroadcast, HubTypeOK, Payload
  <2>. QED BY <1>2, <2>1, FanOutEffect DEF TakeBroadcast, ConnectionsOK
<1>3. CASE TakeInbox
  <2> DEFINE m == Head(inbox)
  <2>1. m \in [c: Client, path: Path, state: States]
    BY <1>3, HeadTailProperties DEF TakeInbox, HubTypeOK
  <2>2. /\ presence' = [presence EXCEPT ![m.path][m.c] = m.state]
        /\ m.state # "left" => m.c \in clients \cup late'
        /\ late \subseteq late'
        /\ UNCHANGED <<clients, send, closed, panicked, link, view, dropped>>
    BY <1>3 DEF TakeInbox
  <2>. HIDE DEF m
  <2>3. ASSUME NEW c \in Client, NEW p \in Path, presence'[p][c] # "left"
        PROVE  c \in clients \cup dropped \cup late'
    <3>1. CASE p = m.path /\ c = m.c
      BY <2>1, <2>2, <2>3, <3>1 DEF HubTypeOK
    <3>2. CASE ~(p = m.path /\ c = m.c)
      <4>1. presence'[p][c] = presence[p][c]
        BY <2>1, <2>2, <3>2 DEF HubTypeOK
      <4>. QED BY <2>2, <2>3, <4>1 DEF ConnectionsOK
    <3>. QED BY <3>1, <3>2
  <2>. QED BY <2>2, <2>3 DEF ConnectionsOK
<1>4. ASSUME NEW c \in Client, Unregister(c) PROVE ConnectionsOK'
  <2>1. CASE c \in clients
    BY <1>4, <2>1 DEF Unregister, ConnectionsOK, HubTypeOK, history
  <2>2. CASE c \notin clients
    BY <1>4, <2>2 DEF Unregister, ConnectionsOK, HubTypeOK, history
  <2>. QED BY <2>1, <2>2
<1>5. ASSUME NEW c \in Client, Register(c) PROVE ConnectionsOK'
  BY <1>5 DEF Register, ConnectionsOK, HubTypeOK, channels
<1>6. ASSUME NEW c \in Client, Disconnect(c) PROVE ConnectionsOK'
  BY <1>6 DEF Disconnect, ConnectionsOK, HubTypeOK, hubVars, channels
<1>7. ASSUME NEW c \in Client, Deliver(c) PROVE ConnectionsOK'
  <2>1. /\ link[c] = "up"
        /\ UNCHANGED <<clients, presence, closed, panicked, link, dropped, late>>
        /\ \A d \in Client \ {c} : send'[d] = send[d] /\ view'[d] = view[d]
    BY <1>7 DEF Deliver, hubVars, HubTypeOK
  <2>. QED BY <2>1 DEF ConnectionsOK
<1>8. CASE \/ \E c \in Client, p \in Path, state \in States : Read(c, p, state)
           \/ \E p \in Topic : Publish(p)
           \/ UNCHANGED vars
  <2>1. UNCHANGED <<clients, presence, send, closed, panicked, link, view, dropped, late>>
    BY <1>8 DEF Read, Publish, vars, hubVars, channels, history
  <2>. QED BY <2>1 DEF ConnectionsOK
<1>. QED
  BY <1>1, <1>2, <1>3, <1>4, <1>5, <1>6, <1>7, <1>8 DEF Next, Work, CloseConnection

LEMMA ConnectionsInvariant == Spec => []ConnectionsOK
<1>1. Init => ConnectionsOK
  BY DEF Init, ConnectionsOK
<1>2. HubTypeOK /\ ConnectionsOK /\ [Next]_vars => ConnectionsOK'
  BY ConnectionsStep
<1>. QED BY <1>1, <1>2, HubTypeCorrect, PTL DEF Spec

\* trySend, unregister and the three senders never touch a closed channel.
THEOREM HubNeverPanics == Spec => []NeverPanics
<1>1. ConnectionsOK => NeverPanics
  BY DEF ConnectionsOK, NeverPanics
<1>. QED BY <1>1, ConnectionsInvariant, PTL

\* Presence outlives its connection for two reasons only: the client was
\* dropped by trySend, or a message of its own was taken after it had gone.
THEOREM HubGhostsExplained == Spec => []GhostsExplained
<1>1. ConnectionsOK => GhostsExplained
  BY DEF ConnectionsOK, GhostsExplained
<1>. QED BY <1>1, ConnectionsInvariant, PTL

-----------------------------------------------------------------------------
(* What is under way *)

\* Messages that say who is at p, and those of them that are still true.
Presences(p) == {m \in Payload : m.type = "presence" /\ m.path = p}
TruePresences(p) == {m \in Presences(p) : m.who = At(p)}

\* The same for the events of p.
News(p) == {m \in Payload : m.type = "event" /\ m.path = p}
LastNews(p) == {m \in News(p) : m.n = last[p]}

\* Once c has received all it is sent, it knows who is at p, if it was told at
\* all; unless the hub is about to tell everybody.
PresenceUnderWay ==
  \A c \in clients, p \in Path \ todo : link[c] = "up" /\ Visible(c, p) =>
    /\ EndsIn(send[c], Presences(p), TruePresences(p))
    /\ Lacks(send[c], Presences(p)) => view[c][p] \in {At(p), Unknown}

\* Once the hub has emptied its queue and c its own, c knows the last event of
\* p, unless that one was dropped.
EventsUnderWay ==
  \A p \in Topic \ lost :
    /\ EndsIn(broadcast, News(p), LastNews(p))
    /\ Lacks(broadcast, News(p)) =>
         \A c \in clients : link[c] = "up" /\ Visible(c, p) =>
           /\ EndsIn(send[c], News(p), LastNews(p))
           /\ Lacks(send[c], News(p)) => heard[c][p] = last[p]

\* A message that is not about p changes nothing for p.
LEMMA OtherMessage ==
  ASSUME NEW s \in Seq(Payload), NEW m \in Payload, NEW M, m \notin M, NEW G,
         NEW t, t \in {s, Append(s, m)}
  PROVE  /\ EndsIn(s, M, G) => EndsIn(t, M, G)
         /\ Lacks(t, M) <=> Lacks(s, M)
<1>1. CASE t = s
  BY <1>1
<1>2. CASE t = Append(s, m)
  BY <1>2, AppendEnds
<1>. QED BY <1>1, <1>2

LEMMA PresenceStep ==
  ASSUME HubTypeOK, ConnectionsOK, PresenceUnderWay, [Next]_vars
  PROVE  PresenceUnderWay'
<1>a. \A p \in Path : presence'[p] = presence[p] =>
        At(p)' = At(p) /\ TruePresences(p)' = TruePresences(p)
  BY DEF At, In, TruePresences
<1>b. \A c \in Client : send[c] \in Seq(Payload)
  BY DEF HubTypeOK
<1>1. CASE Notify
  <2>1. PICK q \in todo :
          /\ todo' = todo \ {q}
          /\ FanOut([type |-> "presence", path |-> q, who |-> At(q)])
          /\ UNCHANGED <<presence, link, view>>
    BY <1>1 DEF Notify
  <2> DEFINE m == [type |-> "presence", path |-> q, who |-> At(q)]
  <2>2. m \in Payload /\ m \in Presences(q) /\ m \in TruePresences(q)
    BY HubAssumption, AtType DEF Payload, HubTypeOK, Presences, TruePresences
  <2>3. \A p \in Path \ {q} : m \notin Presences(p)
    BY DEF Presences
  <2>4. /\ clients' \subseteq clients
        /\ \A c \in clients' : send'[c] = IF Visible(c, q) THEN Append(send[c], m) ELSE send[c]
    BY <2>1, <2>2, FanOutEffect
  <2>. HIDE DEF m
  <2>5. SUFFICES ASSUME NEW c \in clients', NEW p \in Path \ todo', link[c] = "up", Visible(c, p)
                 PROVE  /\ EndsIn(send'[c], Presences(p), TruePresences(p))
                        /\ Lacks(send'[c], Presences(p)) => view[c][p] \in {At(p), Unknown}
    BY <2>1, <1>a DEF PresenceUnderWay
  <2>6. c \in clients /\ c \in Client /\ send[c] \in Seq(Payload)
    BY <1>b, <2>4 DEF HubTypeOK
  <2>7. CASE p = q
    <3>1. send'[c] = Append(send[c], m)
      BY <2>4, <2>5, <2>7
    <3>2. EndsIn(send'[c], Presences(p), TruePresences(p)) /\ ~Lacks(send'[c], Presences(p))
      BY <2>2, <2>6, <2>7, <3>1, AppendEnds
    <3>. QED BY <3>2
  <2>8. CASE p # q
    <3>1. /\ EndsIn(send[c], Presences(p), TruePresences(p))
          /\ Lacks(send[c], Presences(p)) => view[c][p] \in {At(p), Unknown}
      BY <2>1, <2>5, <2>6, <2>8 DEF PresenceUnderWay
    <3>2. send'[c] \in {send[c], Append(send[c], m)} /\ m \notin Presences(p)
      BY <2>3, <2>4, <2>8
    <3>. QED BY <2>2, <2>6, <3>1, <3>2, OtherMessage
  <2>. QED BY <2>7, <2>8
<1>2. CASE TakeBroadcast
  <2> DEFINE m == Head(broadcast)
  <2>1. m \in Payload /\ m.type = "event"
    <3>1. broadcast # << >> /\ broadcast \in Seq([type: {"event"}, path: Topic, n: 1..MaxEvents])
      BY <1>2 DEF TakeBroadcast, HubTypeOK
    <3>2. m \in [type: {"event"}, path: Topic, n: 1..MaxEvents]
      BY <3>1, HeadTailProperties
    <3>. QED BY <3>2 DEF Payload
  <2>2. /\ FanOut(m) /\ UNCHANGED <<presence, todo, link, view>>
    BY <1>2 DEF TakeBroadcast
  <2>3. \A p \in Path : m \notin Presences(p)
    BY <2>1 DEF Presences
  <2>. HIDE DEF m
  <2>4. /\ clients' \subseteq clients
        /\ \A c \in clients' : send'[c] \in {send[c], Append(send[c], m)}
    BY <2>1, <2>2, FanOutEffect
  <2>5. SUFFICES ASSUME NEW c \in clients', NEW p \in Path \ todo, link[c] = "up", Visible(c, p)
                 PROVE  /\ EndsIn(send'[c], Presences(p), TruePresences(p))
                        /\ Lacks(send'[c], Presences(p)) => view[c][p] \in {At(p), Unknown}
    BY <2>2, <1>a DEF PresenceUnderWay
  <2>6. c \in clients /\ send[c] \in Seq(Payload)
    BY <1>b, <2>4 DEF HubTypeOK
  <2>7. /\ EndsIn(send[c], Presences(p), TruePresences(p))
        /\ Lacks(send[c], Presences(p)) => view[c][p] \in {At(p), Unknown}
    BY <2>5, <2>6 DEF PresenceUnderWay
  <2>. QED BY <2>1, <2>3, <2>4, <2>6, <2>7, OtherMessage
<1>3. CASE TakeInbox
  <2> DEFINE m == Head(inbox)
  <2>1. /\ todo = {} /\ todo' = {m.path} /\ presence' = [presence EXCEPT ![m.path][m.c] = m.state]
        /\ UNCHANGED <<clients, send, link, view>>
    BY <1>3 DEF TakeInbox, Selecting
  <2>2. m \in [c: Client, path: Path, state: States]
    BY <1>3, HeadTailProperties DEF TakeInbox, HubTypeOK
  <2>. HIDE DEF m
  <2>3. \A p \in Path \ todo' : presence'[p] = presence[p]
    BY <2>1, <2>2 DEF HubTypeOK
  <2>. QED BY <1>a, <2>1, <2>3 DEF PresenceUnderWay
<1>4. ASSUME NEW c \in Client, Unregister(c) PROVE PresenceUnderWay'
  <2>1. /\ todo = {} /\ clients' = clients \ {c} /\ UNCHANGED view
        /\ \A d \in Client \ {c} : link'[d] = link[d] /\ send'[d] = send[d]
    BY <1>4 DEF Unregister, Selecting, HubTypeOK, history
  <2>2. \A p \in Path \ todo' : presence'[p] = presence[p]
    BY <1>4 DEF Unregister, HubTypeOK
  <2>. QED BY <1>a, <2>1, <2>2 DEF PresenceUnderWay, HubTypeOK
<1>5. ASSUME NEW c \in Client, Register(c) PROVE PresenceUnderWay'
  <2>1. /\ link[c] = "new" /\ clients' = clients \cup {c}
        /\ \A d \in Client \ {c} : link'[d] = link[d]
        /\ UNCHANGED <<presence, todo, send, view>>
    BY <1>5 DEF Register, channels, HubTypeOK
  <2>2. send[c] = << >> /\ \A p \in Path : view[c][p] = Unknown
    BY <2>1 DEF ConnectionsOK
  <2>. QED BY <1>a, <2>1, <2>2, EmptyEnds DEF PresenceUnderWay, HubTypeOK
<1>6. ASSUME NEW c \in Client, Disconnect(c) PROVE PresenceUnderWay'
  <2>1. /\ link'[c] = "down" /\ \A d \in Client \ {c} : link'[d] = link[d] /\ view'[d] = view[d]
        /\ UNCHANGED <<clients, presence, todo, send>>
    BY <1>6 DEF Disconnect, hubVars, channels, HubTypeOK
  <2>. QED BY <1>a, <2>1 DEF PresenceUnderWay, HubTypeOK
<1>7. ASSUME NEW c \in Client, Deliver(c) PROVE PresenceUnderWay'
  <2> DEFINE m == Head(send[c])
  <2>1. /\ send[c] # << >> /\ send'[c] = Tail(send[c])
        /\ \A d \in Client \ {c} : send'[d] = send[d] /\ view'[d] = view[d]
        /\ UNCHANGED <<clients, presence, todo, link>>
    BY <1>7 DEF Deliver, hubVars, HubTypeOK
  <2>2. m \in Payload
    BY <1>b, <2>1, HeadTailProperties
  <2>3. \A p \in Path : view'[c][p] = IF m \in Presences(p) THEN m.who ELSE view[c][p]
    <3>1. CASE m.type = "presence" /\ view' = [view EXCEPT ![c][m.path] = m.who]
      BY <2>2, <3>1 DEF HubTypeOK, Presences
    <3>2. CASE m.type = "event" /\ UNCHANGED view
      BY <3>2 DEF Presences
    <3>. QED BY <1>7, <3>1, <3>2 DEF Deliver
  <2>. HIDE DEF m
  <2>4. ASSUME NEW p \in Path \ todo, c \in clients, link[c] = "up", Visible(c, p)
        PROVE  /\ EndsIn(send'[c], Presences(p), TruePresences(p))
               /\ Lacks(send'[c], Presences(p)) => view'[c][p] \in {At(p), Unknown}
    <3>1. /\ EndsIn(send[c], Presences(p), TruePresences(p))
          /\ Lacks(send[c], Presences(p)) => view[c][p] \in {At(p), Unknown}
      BY <2>4 DEF PresenceUnderWay
    <3>2. /\ EndsIn(send'[c], Presences(p), TruePresences(p))
          /\ Lacks(send[c], Presences(p)) <=> Lacks(send'[c], Presences(p)) /\ m \notin Presences(p)
          /\ Lacks(send'[c], Presences(p)) /\ m \in Presences(p) => m \in TruePresences(p)
      BY <1>b, <2>1, <3>1, TailEnds DEF m
    <3>. QED BY <2>3, <3>1, <3>2 DEF TruePresences
  <2>5. SUFFICES ASSUME NEW d \in clients, NEW p \in Path \ todo, link[d] = "up", Visible(d, p)
                 PROVE  /\ EndsIn(send'[d], Presences(p), TruePresences(p))
                        /\ Lacks(send'[d], Presences(p)) => view'[d][p] \in {At(p), Unknown}
    BY <1>a, <2>1 DEF PresenceUnderWay
  <2>6. CASE d = c
    BY <2>4, <2>5, <2>6
  <2>7. CASE d # c
    BY <2>1, <2>5, <2>7 DEF PresenceUnderWay, HubTypeOK
  <2>. QED BY <2>6, <2>7
<1>8. CASE \/ \E c \in Client, p \in Path, state \in States : Read(c, p, state)
           \/ \E p \in Topic : Publish(p)
           \/ UNCHANGED vars
  <2>1. UNCHANGED <<clients, presence, todo, send, link, view>>
    BY <1>8 DEF Read, Publish, vars, hubVars, channels, history
  <2>. QED BY <1>a, <2>1 DEF PresenceUnderWay
<1>. QED
  BY <1>1, <1>2, <1>3, <1>4, <1>5, <1>6, <1>7, <1>8 DEF Next, Work, CloseConnection

LEMMA EventsStep ==
  ASSUME HubTypeOK, ConnectionsOK, EventsUnderWay, [Next]_vars
  PROVE  EventsUnderWay'
<1>a. \A p \in Topic : last'[p] = last[p] => LastNews(p)' = LastNews(p)
  BY DEF LastNews
<1>b. \A c \in Client : send[c] \in Seq(Payload)
  BY DEF HubTypeOK
<1>c. broadcast \in Seq(Payload)
  <2>1. [type: {"event"}, path: Topic, n: 1..MaxEvents] \subseteq Payload
    BY DEF Payload
  <2>. QED BY <2>1, SeqMonotonic DEF HubTypeOK
<1>1. CASE Notify
  <2>1. PICK q \in todo :
          /\ FanOut([type |-> "presence", path |-> q, who |-> At(q)])
          /\ UNCHANGED <<broadcast, link, heard, last, lost>>
    BY <1>1 DEF Notify
  <2> DEFINE m == [type |-> "presence", path |-> q, who |-> At(q)]
  <2>2. m \in Payload /\ \A p \in Topic : m \notin News(p)
    BY HubAssumption, AtType DEF Payload, HubTypeOK, News
  <2>3. /\ clients' \subseteq clients
        /\ \A c \in clients' : send'[c] \in {send[c], Append(send[c], m)}
    BY <2>1, <2>2, FanOutEffect
  <2>. HIDE DEF m
  <2>4. SUFFICES ASSUME NEW p \in Topic \ lost, Lacks(broadcast, News(p)),
                        NEW c \in clients', link[c] = "up", Visible(c, p)
                 PROVE  /\ EndsIn(send'[c], News(p), LastNews(p))
                        /\ Lacks(send'[c], News(p)) => heard[c][p] = last[p]
    BY <2>1, <1>a DEF EventsUnderWay
  <2>5. c \in clients /\ send[c] \in Seq(Payload)
    BY <1>b, <2>3 DEF HubTypeOK
  <2>6. /\ EndsIn(send[c], News(p), LastNews(p))
        /\ Lacks(send[c], News(p)) => heard[c][p] = last[p]
    BY <2>4, <2>5 DEF EventsUnderWay
  <2>. QED BY <2>2, <2>3, <2>5, <2>6, OtherMessage
<1>2. CASE TakeBroadcast
  <2> DEFINE m == Head(broadcast)
  <2>1. /\ broadcast # << >> /\ broadcast' = Tail(broadcast)
        /\ FanOut(m) /\ UNCHANGED <<link, heard, last, lost>>
    BY <1>2 DEF TakeBroadcast
  <2>2. m \in Payload
    BY <1>c, <2>1, HeadTailProperties
  <2>3. /\ clients' \subseteq clients
        /\ \A c \in clients' :
             send'[c] = IF Visible(c, m.path) THEN Append(send[c], m) ELSE send[c]
    BY <2>1, <2>2, FanOutEffect
  <2>4. \A p \in Topic \ lost :
          /\ EndsIn(Tail(broadcast), News(p), LastNews(p))
          /\ Lacks(broadcast, News(p)) <=> Lacks(Tail(broadcast), News(p)) /\ m \notin News(p)
          /\ Lacks(Tail(broadcast), News(p)) /\ m \in News(p) => m \in LastNews(p)
    BY <1>c, <2>1, TailEnds DEF EventsUnderWay
  <2>. HIDE DEF m
  <2>5. SUFFICES ASSUME NEW p \in Topic \ lost, Lacks(Tail(broadcast), News(p)),
                        NEW c \in clients', link[c] = "up", Visible(c, p)
                 PROVE  /\ EndsIn(send'[c], News(p), LastNews(p))
                        /\ Lacks(send'[c], News(p)) => heard[c][p] = last[p]
    BY <2>1, <2>4, <1>a DEF EventsUnderWay
  <2>6. c \in clients /\ send[c] \in Seq(Payload)
    BY <1>b, <2>3 DEF HubTypeOK
  <2>7. CASE m \in News(p)
    <3>1. send'[c] = Append(send[c], m)
      BY <2>3, <2>5, <2>7 DEF News
    <3>2. m \in LastNews(p)
      BY <2>4, <2>5, <2>7
    <3>3. EndsIn(send'[c], News(p), LastNews(p)) /\ ~Lacks(send'[c], News(p))
      BY <2>2, <2>6, <2>7, <3>1, <3>2, AppendEnds
    <3>. QED BY <3>3
  <2>8. CASE m \notin News(p)
    <3>1. /\ EndsIn(send[c], News(p), LastNews(p))
          /\ Lacks(send[c], News(p)) => heard[c][p] = last[p]
      BY <2>4, <2>5, <2>6, <2>8 DEF EventsUnderWay
    <3>. QED BY <2>2, <2>3, <2>6, <2>8, <3>1, OtherMessage
  <2>. QED BY <2>7, <2>8
<1>3. ASSUME NEW q \in Topic, Publish(q) PROVE EventsUnderWay'
  <2> DEFINE m == [type |-> "event", path |-> q, n |-> events + 1]
  <2>1. m \in News(q) /\ m \in LastNews(q)' /\ \A p \in Topic \ {q} : m \notin News(p)
    <3>1. events + 1 \in 1..MaxEvents /\ last'[q] = events + 1
      BY <1>3, HubAssumption DEF Publish, HubTypeOK, HubAssumption
    <3>2. m \in Payload
      BY <3>1 DEF Payload
    <3>3. m \in News(q) /\ \A p \in Topic \ {q} : m \notin News(p)
      BY <3>2 DEF News
    <3>. QED BY <3>1, <3>3 DEF LastNews, News
  <2>2. /\ \A p \in Topic \ {q} : last'[p] = last[p]
        /\ UNCHANGED <<clients, send, link, heard>>
        /\ \/ broadcast' = Append(broadcast, m) /\ lost' = lost \ {q}
           \/ UNCHANGED broadcast /\ lost' = lost \cup {q}
    BY <1>3 DEF Publish, hubVars, HubTypeOK
  <2>3. m \in Payload
    BY <2>1 DEF News
  <2>. HIDE DEF m
  <2>4. CASE UNCHANGED broadcast /\ lost' = lost \cup {q}
    BY <1>a, <2>2, <2>4 DEF EventsUnderWay
  <2>5. CASE broadcast' = Append(broadcast, m) /\ lost' = lost \ {q}
    <3>1. EndsIn(broadcast', News(q), LastNews(q)') /\ ~Lacks(broadcast', News(q))
      BY <1>c, <2>1, <2>3, <2>5, AppendEnds
    <3>2. \A p \in Topic \ {q} :
            /\ EndsIn(broadcast, News(p), LastNews(p)) => EndsIn(broadcast', News(p), LastNews(p))
            /\ Lacks(broadcast', News(p)) <=> Lacks(broadcast, News(p))
      BY <1>c, <2>1, <2>3, <2>5, OtherMessage
    <3>3. \A p \in Topic \ {q} : LastNews(p)' = LastNews(p)
      BY <1>a, <2>2
    <3>. QED BY <2>2, <2>5, <3>1, <3>2, <3>3 DEF EventsUnderWay
  <2>. QED BY <2>2, <2>4, <2>5
<1>4. ASSUME NEW c \in Client, Unregister(c) PROVE EventsUnderWay'
  <2>1. /\ clients' = clients \ {c} /\ UNCHANGED <<broadcast, heard, last, lost>>
        /\ \A d \in Client \ {c} : link'[d] = link[d] /\ send'[d] = send[d]
    BY <1>4 DEF Unregister, HubTypeOK, history
  <2>. QED BY <1>a, <2>1 DEF EventsUnderWay, HubTypeOK
<1>5. ASSUME NEW c \in Client, Register(c) PROVE EventsUnderWay'
  <2>1. /\ link[c] = "new" /\ clients' = clients \cup {c}
        /\ \A d \in Client \ {c} : link'[d] = link[d] /\ heard'[d] = heard[d]
        /\ heard'[c] = last
        /\ UNCHANGED <<broadcast, send, last, lost>>
    BY <1>5 DEF Register, channels, HubTypeOK
  <2>2. send[c] = << >>
    BY <2>1 DEF ConnectionsOK
  <2>3. SUFFICES ASSUME NEW p \in Topic \ lost, Lacks(broadcast, News(p)),
                        NEW d \in clients', link'[d] = "up", Visible(d, p)
                 PROVE  /\ EndsIn(send[d], News(p), LastNews(p))
                        /\ Lacks(send[d], News(p)) => heard'[d][p] = last[p]
    BY <1>a, <2>1 DEF EventsUnderWay
  <2>4. CASE d = c
    BY <2>1, <2>2, <2>4, EmptyEnds
  <2>5. CASE d # c
    BY <2>1, <2>3, <2>5 DEF EventsUnderWay, HubTypeOK
  <2>. QED BY <2>4, <2>5
<1>6. ASSUME NEW c \in Client, Disconnect(c) PROVE EventsUnderWay'
  <2>1. /\ link'[c] = "down" /\ \A d \in Client \ {c} : link'[d] = link[d] /\ heard'[d] = heard[d]
        /\ UNCHANGED <<clients, broadcast, send, last, lost>>
    BY <1>6 DEF Disconnect, hubVars, channels, HubTypeOK
  <2>2. SUFFICES ASSUME NEW p \in Topic \ lost, Lacks(broadcast, News(p)),
                        NEW d \in clients, link'[d] = "up", Visible(d, p)
                 PROVE  /\ EndsIn(send[d], News(p), LastNews(p))
                        /\ Lacks(send[d], News(p)) => heard'[d][p] = last[p]
    BY <1>a, <2>1 DEF EventsUnderWay
  <2>3. d # c /\ d \in Client
    BY <2>1, <2>2 DEF HubTypeOK
  <2>. QED BY <2>1, <2>2, <2>3 DEF EventsUnderWay
<1>7. ASSUME NEW c \in Client, Deliver(c) PROVE EventsUnderWay'
  <2> DEFINE m == Head(send[c])
  <2>1. /\ send[c] # << >> /\ send'[c] = Tail(send[c])
        /\ \A d \in Client \ {c} : send'[d] = send[d] /\ heard'[d] = heard[d]
        /\ UNCHANGED <<clients, broadcast, link, last, lost>>
    BY <1>7 DEF Deliver, hubVars, HubTypeOK
  <2>2. m \in Payload
    BY <1>b, <2>1, HeadTailProperties
  <2>3. \A p \in Topic : heard'[c][p] = IF m \in News(p) THEN m.n ELSE heard[c][p]
    <3>1. CASE m.type = "event" /\ heard' = [heard EXCEPT ![c][m.path] = m.n]
      BY <2>2, <3>1 DEF HubTypeOK, News
    <3>2. CASE m.type = "presence" /\ UNCHANGED heard
      BY <3>2 DEF News
    <3>. QED BY <1>7, <3>1, <3>2 DEF Deliver
  <2>. HIDE DEF m
  <2>4. SUFFICES ASSUME NEW p \in Topic \ lost, Lacks(broadcast, News(p)),
                        NEW d \in clients, link[d] = "up", Visible(d, p)
                 PROVE  /\ EndsIn(send'[d], News(p), LastNews(p))
                        /\ Lacks(send'[d], News(p)) => heard'[d][p] = last[p]
    BY <1>a, <2>1 DEF EventsUnderWay
  <2>5. /\ EndsIn(send[d], News(p), LastNews(p))
        /\ Lacks(send[d], News(p)) => heard[d][p] = last[p]
    BY <2>4 DEF EventsUnderWay
  <2>6. CASE d = c
    <3>1. /\ EndsIn(send'[c], News(p), LastNews(p))
          /\ Lacks(send[c], News(p)) <=> Lacks(send'[c], News(p)) /\ m \notin News(p)
          /\ Lacks(send'[c], News(p)) /\ m \in News(p) => m \in LastNews(p)
      BY <1>b, <2>1, <2>5, <2>6, TailEnds DEF m
    <3>. QED BY <2>3, <2>5, <2>6, <3>1 DEF LastNews
  <2>7. CASE d # c
    BY <2>1, <2>5, <2>7 DEF HubTypeOK
  <2>. QED BY <2>6, <2>7
<1>8. CASE \/ \E c \in Client, p \in Path, state \in States : Read(c, p, state)
           \/ TakeInbox
           \/ UNCHANGED vars
  <2>1. UNCHANGED <<clients, broadcast, send, link, heard, last, lost>>
    BY <1>8 DEF Read, TakeInbox, vars, hubVars, channels, history
  <2>. QED BY <1>a, <2>1 DEF EventsUnderWay
<1>. QED
  BY <1>1, <1>2, <1>3, <1>4, <1>5, <1>6, <1>7, <1>8 DEF Next, Work, CloseConnection

\* What has been said is what is so: with all queues empty, every registered
\* browser shows who is at a note and the note's last event, however its
\* messages were interleaved with comings, goings and dropped clients.
THEOREM HubViewsConverge == Spec => []ViewsConverge
<1>1. Init => PresenceUnderWay /\ EventsUnderWay
  BY EmptyEnds DEF Init, PresenceUnderWay, EventsUnderWay
<1>2. /\ HubTypeOK /\ ConnectionsOK /\ PresenceUnderWay /\ EventsUnderWay /\ [Next]_vars
      => PresenceUnderWay' /\ EventsUnderWay'
  BY PresenceStep, EventsStep
<1>3. PresenceUnderWay /\ EventsUnderWay => ViewsConverge
  <2>. SUFFICES ASSUME PresenceUnderWay, EventsUnderWay, Quiet, NEW c \in clients, link[c] = "up"
                PROVE  PresenceCurrent(c) /\ EventsCurrent(c)
    BY DEF ViewsConverge
  <2>1. todo = {} /\ send[c] = << >> /\ broadcast = << >>
    BY DEF Quiet, Selecting
  <2>2. PresenceCurrent(c)
    BY <2>1, EmptyEnds DEF PresenceUnderWay, PresenceCurrent
  <2>3. EventsCurrent(c)
    BY <2>1, EmptyEnds DEF EventsUnderWay, EventsCurrent
  <2>. QED BY <2>2, <2>3
<1>. QED BY <1>1, <1>2, <1>3, HubTypeCorrect, ConnectionsInvariant, PTL DEF Spec
=============================================================================
