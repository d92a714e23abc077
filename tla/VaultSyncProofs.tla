-------------------------- MODULE VaultSyncProofs --------------------------
(***************************************************************************)
(* Proofs about VaultSync for any users, notes and number of goroutines:   *)
(* what the watcher and its timers make of the changes they are told of.   *)
(***************************************************************************)
EXTENDS VaultSync, NoteServiceProofs

-----------------------------------------------------------------------------
(* Types *)

Event == [op: {"create", "write", "remove"}, path: Path]

\* What changes of the queue of events.
LEMMA Appended ==
  ASSUME NEW s \in Seq(Event), NEW e \in Event
  PROVE  /\ Append(s, e) \in Seq(Event) /\ Len(Append(s, e)) = Len(s) + 1 /\ Len(s) \in Nat
         /\ Append(s, e)[Len(s) + 1] = e
         /\ \A i \in 1..Len(s) : Append(s, e)[i] = s[i]
OBVIOUS

LEMMA Taken ==
  ASSUME NEW s \in Seq(Event), s # << >>
  PROVE  /\ Tail(s) \in Seq(Event) /\ Len(s) \in Nat \ {0} /\ Len(Tail(s)) = Len(s) - 1
         /\ Head(s) = s[1] /\ Head(s) \in Event
         /\ \A i \in 1..(Len(s) - 1) : Tail(s)[i] = s[i + 1]
OBVIOUS

\* A timer that will run: the entry's, or one that is in the map no more.
Timed(timer, p) == timer[p].entry = "armed" \/ timer[p].orphans > 0

\* What becomes of a map of timers when the one of p is armed, fires, or its
\* callback takes the entry out: no timer that will run is lost by the last.
Same(timer, new, p) == new \in [Path -> Timer] /\ \A q \in Path \ {p} : new[q] = timer[q]

LEMMA TimerSteps ==
  ASSUME NEW timer \in [Path -> Timer], NEW p \in Path, NEW new
  PROVE  /\ new = [timer EXCEPT ![p].entry = "armed"] =>
              Same(timer, new, p) /\ new[p].entry = "armed"
         /\ \/ timer[p].entry = "armed" /\ new = [timer EXCEPT ![p].entry = "fired"]
            \/ timer[p].orphans > 0 /\ new = [timer EXCEPT ![p].orphans = @ - 1]
            => Same(timer, new, p)
         /\ new = [timer EXCEPT ![p] =
              [entry |-> "none",
               orphans |-> IF @.entry = "armed" THEN @.orphans + 1 ELSE @.orphans]]
            => Same(timer, new, p) /\ (Timed(timer, p) => Timed(new, p))
<1>1. /\ timer[p] = [entry |-> timer[p].entry, orphans |-> timer[p].orphans]
      /\ timer[p].entry \in {"none", "armed", "fired"} /\ timer[p].orphans \in Nat
  BY DEF Timer
<1>2. ASSUME new = [timer EXCEPT ![p].entry = "armed"]
      PROVE  Same(timer, new, p) /\ new[p].entry = "armed"
  BY <1>1, <1>2 DEF Timer, Same
<1>3. ASSUME timer[p].entry = "armed" /\ new = [timer EXCEPT ![p].entry = "fired"]
      PROVE  Same(timer, new, p)
  BY <1>1, <1>3 DEF Timer, Same
<1>4. ASSUME timer[p].orphans > 0 /\ new = [timer EXCEPT ![p].orphans = @ - 1]
      PROVE  Same(timer, new, p)
  BY <1>1, <1>4 DEF Timer, Same
<1>5. ASSUME new = [timer EXCEPT ![p] =
              [entry |-> "none",
               orphans |-> IF @.entry = "armed" THEN @.orphans + 1 ELSE @.orphans]]
      PROVE  Same(timer, new, p) /\ (Timed(timer, p) => Timed(new, p))
  <2>1. /\ new[p].entry = "none"
        /\ new[p].orphans = IF timer[p].entry = "armed" THEN timer[p].orphans + 1 ELSE timer[p].orphans
        /\ new[p] = [entry |-> new[p].entry, orphans |-> new[p].orphans]
    BY <1>1, <1>5
  <2>2. new[p] \in Timer
    BY <1>1, <2>1 DEF Timer
  <2>3. Same(timer, new, p)
    BY <1>5, <2>2 DEF Same
  <2>4. Timed(timer, p) => Timed(new, p)
    BY <1>1, <2>1 DEF Timed
  <2>. QED BY <2>3, <2>4
<1>. QED
  BY <1>2, <1>3, <1>4, <1>5

\* The same of the two maps there are.
LEMMA WriteTimerSteps ==
  ASSUME SyncTypeOK, NEW p \in Path
  PROVE  /\ Arm(writeTimer, p) => Same(writeTimer, writeTimer', p) /\ writeTimer'[p].entry = "armed"
         /\ Fire(writeTimer, p) => Same(writeTimer, writeTimer', p)
         /\ Forget(writeTimer, p) =>
              Same(writeTimer, writeTimer', p) /\ (Timed(writeTimer, p) => Timed(writeTimer, p)')
<1>1. writeTimer \in [Path -> Timer]
  BY DEF SyncTypeOK
<1>2. PICK new : new = writeTimer'
  OBVIOUS
<1>3. Timed(new, p) <=> Timed(writeTimer, p)'
  BY <1>2 DEF Timed
<1>. QED
  BY <1>1, <1>2, <1>3, TimerSteps DEF Arm, Fire, Forget

LEMMA ExtTimerSteps ==
  ASSUME SyncTypeOK, NEW p \in Path
  PROVE  /\ Arm(extTimer, p) => Same(extTimer, extTimer', p) /\ extTimer'[p].entry = "armed"
         /\ Fire(extTimer, p) => Same(extTimer, extTimer', p)
         /\ Forget(extTimer, p) =>
              Same(extTimer, extTimer', p) /\ (Timed(extTimer, p) => Timed(extTimer, p)')
<1>1. extTimer \in [Path -> Timer]
  BY DEF SyncTypeOK
<1>2. PICK new : new = extTimer'
  OBVIOUS
<1>3. Timed(new, p) <=> Timed(extTimer, p)'
  BY <1>2 DEF Timed
<1>. QED
  BY <1>1, <1>2, <1>3, TimerSteps DEF Arm, Fire, Forget

\* A step of the service is one of NoteService, or one of HandleFSEvent's.
LEMMA ServiceSteps ==
  ASSUME [SyncNext]_allVars
  PROVE  \/ [Next]_vars
         \/ \E w \in Worker : IndexChanged(w) \/ UnindexRemoved(w) \/ RecordExternal(w) \/ ExternalFails(w)
<1>1. ASSUME NEW u \in User, Serve(u) \/ ServeFails(u) \/ Lock(u) \/ ServeOn(u) PROVE Next
  BY <1>1 DEF Serve, ServeFails, Lock, ServeOn, Next, Proceed
<1>2. ASSUME NEW p \in Path, EditSeen(p) PROVE Next
  BY <1>2 DEF EditSeen, Next
<1>3. CASE StartWatcher \/ Take
  BY <1>3 DEF StartWatcher, Take
<1>4. ASSUME NEW w \in Callback, Expire(w) PROVE UNCHANGED vars
  BY <1>4 DEF Expire, WriteSettles, ExternalSettles
<1>5. ASSUME NEW w \in Worker, EmitWrite(w) \/ ReadChanged(w) \/ ArmExternal(w) \/ ForgetExternal(w)
      PROVE UNCHANGED vars
  BY <1>5 DEF EmitWrite, ReadChanged, ArmExternal, ForgetExternal
<1>6. CASE UNCHANGED allVars
  BY <1>6 DEF allVars
<1>7. ASSUME NEW w \in Worker, Work(w) \/ ExternalFails(w)
      PROVE  \/ UNCHANGED vars
             \/ IndexChanged(w) \/ UnindexRemoved(w) \/ RecordExternal(w) \/ ExternalFails(w)
  BY <1>5, <1>7 DEF Work
<1>8. CASE SyncNext
  <2>1. \/ StartWatcher \/ Take
        \/ \E w \in Callback : Expire(w)
        \/ \E w \in Worker : Work(w) \/ ExternalFails(w)
        \/ \E u \in User : Serve(u) \/ ServeFails(u) \/ Lock(u) \/ ServeOn(u)
        \/ \E p \in Path : EditSeen(p)
    BY <1>8 DEF SyncNext
  <2>. QED BY <1>1, <1>2, <1>3, <1>4, <1>7, <2>1
<1>. QED
  BY <1>6, <1>8

LEMMA ServiceTypes ==
  ASSUME SyncTypeOK, [SyncNext]_allVars
  PROVE  TypeOK'
<1>a. TypeOK /\ task \in [Worker -> Task]
  BY DEF SyncTypeOK
<1>1. ASSUME NEW w \in Worker, IndexChanged(w) PROVE TypeOK'
  <2>1. task[w].path \in Path /\ task[w].found \in Note
    BY <1>a DEF Task
  <2>. QED BY <1>1, <1>a, <2>1 DEF IndexChanged, TypeOK, bounds, H!HistoryTypeOK
<1>2. ASSUME NEW w \in Worker, UnindexRemoved(w) PROVE TypeOK'
  BY <1>2, <1>a DEF UnindexRemoved, TypeOK, bounds, Note, H!HistoryTypeOK
<1>3. ASSUME NEW w \in Worker, RecordExternal(w) PROVE TypeOK'
  <2>1. task[w].path \in Path /\ task[w].action \in H!Action /\ External \in Actor
    BY <1>a DEF Task, H!Action, Actor
  <2>2. disk[task[w].path] \in Note
    BY <1>a, <2>1 DEF TypeOK
  <2>3. H!Record(External, task[w].path, task[w].action, disk[task[w].path])
    BY <1>3 DEF RecordExternal
  <2>4. H!HistoryTypeOK'
    BY <1>a, <2>1, <2>2, <2>3, RecordType DEF TypeOK
  <2>. QED BY <1>3, <1>a, <2>4 DEF RecordExternal, TypeOK, bounds
<1>4. ASSUME NEW w \in Worker, ExternalFails(w) PROVE TypeOK'
  BY <1>4, <1>a, ServiceAssumption DEF ExternalFails, TypeOK, H!HistoryTypeOK
<1>. QED
  BY <1>a, <1>1, <1>2, <1>3, <1>4, ServiceSteps, TypeStep

\* What an action of the watcher, of a timer or of a goroutine does to the rest.
LEMMA Reported ==
  ASSUME SyncTypeOK, NEW op \in {"create", "write", "remove"}, NEW p \in Path, Report(op, p)
  PROVE  events' \in Seq(Event)
BY Appended DEF SyncTypeOK, Report, Event

LEMMA TaskTypes ==
  ASSUME SyncTypeOK, NEW w \in Worker
  PROVE  /\ task[w] \in Task /\ task = [v \in Worker |-> task[v]]
         /\ task[w] = [step |-> task[w].step, path |-> task[w].path,
                       found |-> task[w].found, action |-> task[w].action]
         /\ task[w].path \in Path /\ task[w].found \in Note
BY DEF SyncTypeOK, Task

LEMMA IdleTask ==
  ASSUME SyncTypeOK, NEW w \in Worker, Idle(w)
  PROVE  task' = [task EXCEPT ![w] =
           [step |-> "idle", path |-> task[w].path, found |-> NoNote, action |-> "save"]]
<1>1. PICK t : t = task[w]
  OBVIOUS
<1>2. /\ t = [step |-> t.step, path |-> t.path, found |-> t.found, action |-> t.action]
      /\ task = [v \in Worker |-> task[v]]
  BY <1>1, TaskTypes
<1>3. PICK c : c = [[[t EXCEPT !.step = "idle"] EXCEPT !.found = NoNote] EXCEPT !.action = "save"]
  OBVIOUS
<1>4. /\ DOMAIN c = {"step", "path", "found", "action"} /\ c = [f \in DOMAIN c |-> c[f]]
      /\ c.step = "idle" /\ c.path = t.path /\ c.found = NoNote /\ c.action = "save"
  BY <1>2, <1>3
<1>5. c = [step |-> "idle", path |-> t.path, found |-> NoNote, action |-> "save"]
  BY <1>4
<1>6. task' = [task EXCEPT ![w] = c]
  BY <1>1, <1>2, <1>3 DEF Idle
<1>. QED
  BY <1>1, <1>5, <1>6

LEMMA SyncTypeStep ==
  ASSUME SyncTypeOK, [SyncNext]_allVars
  PROVE  SyncTypeOK'
<1>a. /\ TypeOK /\ TypeOK'
      /\ watching \in BOOLEAN /\ missed \in BOOLEAN /\ overtaken \in BOOLEAN
      /\ events \in Seq(Event) /\ task \in [Worker -> Task]
      /\ writeTimer \in [Path -> Timer] /\ extTimer \in [Path -> Timer]
  BY ServiceTypes DEF SyncTypeOK, Event
<1>b. ASSUME watching' \in BOOLEAN, missed' \in BOOLEAN, overtaken' \in BOOLEAN,
             events' \in Seq(Event), task' \in [Worker -> Task],
             writeTimer' \in [Path -> Timer], extTimer' \in [Path -> Timer]
      PROVE  SyncTypeOK'
  BY <1>a, <1>b DEF SyncTypeOK, Event
<1>c. ASSUME NEW p \in Path
      PROVE  /\ Arm(writeTimer, p) \/ Fire(writeTimer, p) \/ Forget(writeTimer, p)
                  => writeTimer' \in [Path -> Timer]
             /\ Arm(extTimer, p) \/ Fire(extTimer, p) \/ Forget(extTimer, p)
                  => extTimer' \in [Path -> Timer]
  BY WriteTimerSteps, ExtTimerSteps DEF Same
<1>d. \A w \in Worker, step \in {"read", "index", "arm", "record"} :
        To(w, step) => task' \in [Worker -> Task]
  BY <1>a DEF To, Task
<1>e. \A w \in Worker : Idle(w) => task' \in [Worker -> Task]
  <2>. SUFFICES ASSUME NEW w \in Worker, Idle(w) PROVE task' \in [Worker -> Task]
    OBVIOUS
  <2>. DEFINE r == [step |-> "idle", path |-> task[w].path, found |-> NoNote, action |-> "save"]
  <2>1. r \in Task
    BY TaskTypes DEF Task, Note
  <2>2. task' = [task EXCEPT ![w] = r]
    BY IdleTask
  <2>. QED BY <1>a, <2>1, <2>2
<1>f. \A w \in Worker, step \in {"fired", "read", "unindex", "expired"}, p \in Path,
         action \in {"save", "delete"} : Run(w, step, p, action) => task' \in [Worker -> Task]
  BY <1>a DEF Run, Task, Note
<1>g. Loop \in Worker /\ Callback \subseteq Worker
  BY DEF Worker
<1>1. CASE StartWatcher
  BY <1>1, <1>a, <1>b DEF StartWatcher
<1>2. CASE Take
  <2>1. /\ Head(events) \in Event /\ events' \in Seq(Event) /\ Handle(Head(events))
        /\ UNCHANGED <<watching, extTimer, missed, overtaken>>
    BY <1>2, <1>a, Taken DEF Take
  <2>2. PICK e \in Event : Handle(e)
    BY <2>1 DEF Handle, Run, Arm, Busy
  <2>3. task' \in [Worker -> Task] /\ writeTimer' \in [Path -> Timer]
    <3>1. CASE e.op = "create" /\ Run(Loop, "read", e.path, "save") /\ UNCHANGED writeTimer
      BY <1>a, <1>f, <1>g, <3>1 DEF Event
    <3>2. CASE e.op = "remove" /\ Run(Loop, "unindex", e.path, "delete") /\ UNCHANGED writeTimer
      BY <1>a, <1>f, <1>g, <3>2 DEF Event
    <3>3. CASE e.op = "write" /\ Arm(writeTimer, e.path) /\ UNCHANGED task
      BY <1>a, <1>c, <3>3 DEF Event
    <3>. QED BY <2>2, <3>1, <3>2, <3>3 DEF Handle
  <2>. QED BY <1>a, <1>b, <2>1, <2>3
<1>3. ASSUME NEW w \in Callback, WriteSettles(w) PROVE SyncTypeOK'
  <2>1. PICK p \in Path : Fire(writeTimer, p) /\ Run(w, "fired", p, "save")
    BY <1>3 DEF WriteSettles
  <2>2. writeTimer' \in [Path -> Timer]
    BY <1>a, <1>c, <2>1
  <2>3. task' \in [Worker -> Task]
    BY <1>f, <1>g, <2>1
  <2>. QED BY <1>3, <1>a, <1>b, <2>2, <2>3 DEF WriteSettles
<1>4. ASSUME NEW w \in Callback, ExternalSettles(w) PROVE SyncTypeOK'
  <2>1. PICK p \in Path : Fire(extTimer, p) /\ Run(w, "expired", p, "save")
    BY <1>4 DEF ExternalSettles
  <2>2. extTimer' \in [Path -> Timer]
    BY <1>a, <1>c, <2>1
  <2>3. task' \in [Worker -> Task]
    BY <1>f, <1>g, <2>1
  <2>. QED BY <1>4, <1>a, <1>b, <2>2, <2>3 DEF ExternalSettles
<1>5. ASSUME NEW w \in Worker, EmitWrite(w) PROVE SyncTypeOK'
  <2>1. writeTimer' \in [Path -> Timer]
    BY <1>5, <1>a, <1>c, TaskTypes DEF EmitWrite
  <2>. QED BY <1>5, <1>a, <1>b, <1>d, <2>1 DEF EmitWrite
<1>6. ASSUME NEW w \in Worker, ReadChanged(w) PROVE SyncTypeOK'
  <2>1. disk[task[w].path] \in Note
    BY <1>a, TaskTypes DEF TypeOK
  <2>2. task' \in [Worker -> Task]
    <3>1. PICK now \in Note : task' = [task EXCEPT ![w].found = now,
                            ![w].step = IF now = NoNote THEN "arm" ELSE "index"]
      BY <1>6, <2>1 DEF ReadChanged
    <3>. QED BY <1>a, <3>1 DEF Task
  <2>. QED BY <1>6, <1>a, <1>b, <2>2 DEF ReadChanged
<1>7. ASSUME NEW w \in Worker, IndexChanged(w) PROVE SyncTypeOK'
  BY <1>7, <1>a, <1>b, <1>d DEF IndexChanged
<1>8. ASSUME NEW w \in Worker, ArmExternal(w) PROVE SyncTypeOK'
  <2>1. extTimer' \in [Path -> Timer]
    BY <1>8, <1>a, <1>c, TaskTypes DEF ArmExternal
  <2>. QED BY <1>8, <1>a, <1>b, <1>e, <2>1 DEF ArmExternal
<1>9. ASSUME NEW w \in Worker, UnindexRemoved(w) PROVE SyncTypeOK'
  BY <1>9, <1>a, <1>b, <1>d DEF UnindexRemoved
<1>10. ASSUME NEW w \in Worker, ForgetExternal(w) PROVE SyncTypeOK'
  <2>1. extTimer' \in [Path -> Timer]
    BY <1>10, <1>a, <1>c, TaskTypes DEF ForgetExternal
  <2>. QED BY <1>10, <1>a, <1>b, <1>d, <2>1 DEF ForgetExternal
<1>11. ASSUME NEW w \in Worker, RecordExternal(w) \/ ExternalFails(w) PROVE SyncTypeOK'
  BY <1>11, <1>a, <1>b, <1>e DEF RecordExternal, ExternalFails
<1>12. ASSUME NEW u \in User, Serve(u) \/ Lock(u) PROVE SyncTypeOK'
  BY <1>12, <1>a, <1>b DEF Serve, Lock, syncVars
<1>13. ASSUME NEW u \in User, ServeOn(u) PROVE SyncTypeOK'
  <2>1. req[u].path \in Path
    BY <1>a DEF TypeOK, Request
  <2>2. events' \in Seq(Event) /\ overtaken' \in BOOLEAN
    BY <1>13, <1>a, <2>1, Reported DEF ServeOn
  <2>. QED BY <1>13, <1>a, <1>b, <2>2 DEF ServeOn
<1>13a. ASSUME NEW u \in User, ServeFails(u) PROVE SyncTypeOK'
  <2>1. req[u].path \in Path
    BY <1>a DEF TypeOK, Request
  <2>2. events' \in Seq(Event)
    BY <1>13a, <1>a, <2>1, Reported DEF ServeFails
  <2>. QED BY <1>13a, <1>a, <1>b, <2>2 DEF ServeFails
<1>14. ASSUME NEW p \in Path, EditSeen(p) PROVE SyncTypeOK'
  <2>1. events' \in Seq(Event)
    BY <1>14, Reported DEF EditSeen
  <2>. QED BY <1>14, <1>a, <1>b, <2>1 DEF EditSeen
<1>15. CASE UNCHANGED allVars
  BY <1>15, <1>a, <1>b DEF allVars, syncVars
<1>. QED
  <2>1. CASE SyncNext
    <3>1. \/ StartWatcher \/ Take
          \/ \E w \in Callback : Expire(w)
          \/ \E w \in Worker : Work(w) \/ ExternalFails(w)
          \/ \E u \in User : Serve(u) \/ ServeFails(u) \/ Lock(u) \/ ServeOn(u)
          \/ \E p \in Path : EditSeen(p)
      BY <2>1 DEF SyncNext
    <3>2. ASSUME NEW w \in Callback, Expire(w) PROVE SyncTypeOK'
      BY <1>3, <1>4, <3>2 DEF Expire
    <3>3. ASSUME NEW w \in Worker, Work(w) \/ ExternalFails(w) PROVE SyncTypeOK'
      BY <1>5, <1>6, <1>7, <1>8, <1>9, <1>10, <1>11, <3>3 DEF Work
    <3>. QED BY <1>1, <1>2, <1>12, <1>13, <1>13a, <1>14, <3>1, <3>2, <3>3
  <2>. QED BY <1>15, <2>1

LEMMA SyncInitTypes == SyncInit => SyncTypeOK
<1>. SUFFICES ASSUME SyncInit PROVE SyncTypeOK
  OBVIOUS
<1>1. TypeOK
  BY InitTypes DEF SyncInit
<1>2. Names[1] \in Path
  BY ServiceAssumption, EmptySeq, ElementOfSeq
<1>3. [step |-> "idle", path |-> Names[1], found |-> NoNote, action |-> "save"] \in Task
  BY <1>2 DEF Task, Note
<1>4. NoTimer \in Timer
  BY DEF NoTimer, Timer
<1>5. << >> \in Seq(Event)
  OBVIOUS
<1>6. /\ watching = FALSE /\ missed = FALSE /\ overtaken = FALSE /\ events = << >>
      /\ writeTimer \in [Path -> Timer] /\ extTimer \in [Path -> Timer]
  BY <1>4 DEF SyncInit
<1>7. task \in [Worker -> Task]
  BY <1>3 DEF SyncInit
<1>. QED
  BY <1>1, <1>5, <1>6, <1>7 DEF SyncTypeOK, Event

\* What the operating system reports, the timers and what the loop and the
\* goroutines are at have their types, and so has the service below them.
THEOREM SyncTypesHold == SyncSpec => []SyncTypeOK
<1>1. SyncTypeOK /\ [SyncNext]_allVars => SyncTypeOK'
  BY SyncTypeStep
<1>. QED
  BY <1>1, SyncInitTypes, PTL DEF SyncSpec

-----------------------------------------------------------------------------
(* The history *)

\* Something that ends in a revision of p: an event, a timer, or work on it.
Pending(p) ==
  \/ \E i \in 1..Len(events) : events[i].path = p
  \/ Timed(writeTimer, p) \/ Timed(extTimer, p)
  \/ \E w \in Worker : task[w].path = p /\ task[w].step # "idle"

\* The server listens when the watcher has started.
Listening == ~watching => \A u \in User : pc[u] = "idle"

\* What history does not hold is about to be recorded.
RecordOK ==
  ~missed /\ faults = 0 => \A p \in Path : H!Latest(p) = disk[p] \/ Pending(p)


\* What a report adds to the queue.
LEMMA ReportAdds ==
  ASSUME SyncTypeOK, NEW op \in {"create", "write", "remove"}, NEW p \in Path, Report(op, p)
  PROVE  /\ Len(events) \in Nat
         /\ \A i \in 1..Len(events) : i \in 1..Len(events') /\ events'[i] = events[i]
         /\ watching =>
              /\ Len(events') = Len(events) + 1
              /\ events'[Len(events')] = [op |-> op, path |-> p]
              /\ Len(events') \in 1..Len(events')
<1>1. events \in Seq(Event) /\ [op |-> op, path |-> p] \in Event
  BY DEF SyncTypeOK, Event
<1>2. CASE watching
  <2>1. events' = Append(events, [op |-> op, path |-> p])
    BY <1>2 DEF Report
  <2>2. PICK e \in Event : e = [op |-> op, path |-> p]
    BY <1>1
  <2>3. /\ Len(Append(events, e)) = Len(events) + 1 /\ Len(events) \in Nat
        /\ Append(events, e)[Len(events) + 1] = e
        /\ \A i \in 1..Len(events) : Append(events, e)[i] = events[i]
    BY <1>1, Appended
  <2>. QED BY <2>1, <2>2, <2>3
<1>3. CASE ~watching
  <2>1. events' = events /\ Len(events) \in Nat
    BY <1>1, <1>3 DEF Report
  <2>. QED BY <1>3, <2>1
<1>. QED
  BY <1>2, <1>3

\* What the loop takes leaves the rest in the queue.
LEMMA TakeLeaves ==
  ASSUME SyncTypeOK, Take
  PROVE  \E e \in Event :
           /\ Len(events) \in Nat \ {0} /\ Len(events') = Len(events) - 1
           /\ e = events[1] /\ Handle(e)
           /\ \A i \in 1..Len(events') : events'[i] = events[i + 1]
<1>1. events \in Seq(Event) /\ events # << >> /\ events' = Tail(events) /\ Handle(Head(events))
  BY DEF SyncTypeOK, Event, Take
<1>2. /\ Len(events) \in Nat \ {0} /\ Len(Tail(events)) = Len(events) - 1
      /\ Head(events) = events[1] /\ Head(events) \in Event
      /\ \A i \in 1..(Len(events) - 1) : Tail(events)[i] = events[i + 1]
  BY <1>1, Taken
<1>3. PICK e \in Event : e = Head(events)
  BY <1>2
<1>4. Handle(e)
  BY <1>1, <1>3 DEF Handle, Run, Arm, Busy
<1>. QED
  BY <1>1, <1>2, <1>3, <1>4

\* A change of the file by a request is reported; a revision it records is what
\* is on disk.
LEMMA RequestRecords ==
  ASSUME SyncTypeOK, NEW u \in User, ServeOn(u)
  PROVE  \E p \in Path :
         /\ p = req[u].path /\ UNCHANGED <<faults, missed, writeTimer, extTimer, task>>
         /\ \A q \in Path \ {p} : disk'[q] = disk[q] /\ H!Latest(q)' = H!Latest(q)
         /\ \/ UNCHANGED <<disk, events>> /\ H!Latest(p)' = H!Latest(p)
            \/ UNCHANGED <<disk, events>> /\ H!Latest(p)' = disk[p]
            \/ pc[u] # "idle" /\ \E op \in {"create", "write", "remove"} : Report(op, p)
<1>p. PICK p \in Path : p = req[u].path
  BY DEF SyncTypeOK, TypeOK, Request
<1>a. TypeOK /\ disk \in [Path -> Note] /\ H!HistoryTypeOK /\ disk[p] \in Note
  BY DEF SyncTypeOK, TypeOK
<1>b. revs' = revs => \A q \in Path : H!Latest(q)' = H!Latest(q)
  BY DEF H!Latest
<1>c. UNCHANGED <<missed, writeTimer, extTimer, task>>
  BY DEF ServeOn
<1>1. CASE Truncate(u) /\ Report(IF disk[p] # NoNote THEN "write" ELSE "create", p)
  BY <1>1, <1>p, <1>a, <1>b, <1>c DEF Truncate, At, bounds
<1>2. CASE Write(u) /\ Report("write", p)
  BY <1>2, <1>p, <1>a, <1>b, <1>c DEF Write, At, bounds
<1>3. CASE RemoveFile(u) /\ IF disk[p] # NoNote THEN Report("remove", p) ELSE UNCHANGED events
  BY <1>3, <1>p, <1>a, <1>b, <1>c DEF RemoveFile, At, bounds
<1>4. CASE (IndexNote(u) \/ Unindex(u)) /\ UNCHANGED events
  BY <1>4, <1>p, <1>a, <1>b, <1>c DEF IndexNote, Unindex, bounds
<1>5. CASE UNCHANGED events /\ (Probe(u) \/ CheckExists(u) \/ WriteLost(u))
  <2>1. UNCHANGED <<disk, revs, faults, events>>
    BY <1>5 DEF Probe, CheckExists, WriteLost, bounds
  <2>. QED BY <1>p, <1>a, <1>b, <1>c, <2>1
<1>6. CASE UNCHANGED events /\ (CompareSave(u) \/ CompareRestore(u))
  BY <1>6, <1>p, <1>a, <1>b, <1>c DEF CompareSave, CompareRestore, bounds
<1>7. CASE UNCHANGED events /\ SnapshotEdits(u)
  <2>1. H!Record(External, p, "save", disk[p]) /\ UNCHANGED <<disk, faults>>
    BY <1>7, <1>p DEF SnapshotEdits, bounds
  <2>2. External \in Actor /\ "save" \in H!Action
    BY DEF Actor, H!Action
  <2>3. /\ H!Latest(p)' = disk[p]
        /\ \A q \in Path \ {p} : H!Latest(q)' = H!Latest(q)
    BY <1>a, <2>1, <2>2, RecordLatest
  <2>. QED BY <1>7, <1>p, <1>a, <1>c, <2>1, <2>3
<1>8. CASE UNCHANGED events /\ RecordRevision(u)
  <2>1. H!Record(u, p, req[u].op, disk[p]) /\ UNCHANGED <<disk, faults>>
    BY <1>8, <1>p DEF RecordRevision, bounds
  <2>2. u \in Actor /\ req[u].op \in H!Action
    BY <1>a, ServiceAssumption DEF Actor, H!Action, TypeOK, Request
  <2>3. /\ H!Latest(p)' = disk[p]
        /\ \A q \in Path \ {p} : H!Latest(q)' = H!Latest(q)
    BY <1>a, <2>1, <2>2, RecordLatest
  <2>. QED BY <1>8, <1>p, <1>a, <1>c, <2>1, <2>3
<1>. QED
  BY <1>p, <1>1, <1>2, <1>3, <1>4, <1>5, <1>6, <1>7, <1>8 DEF ServeOn

LEMMA ListeningStep ==
  ASSUME SyncTypeOK, Listening, [SyncNext]_allVars
  PROVE  Listening'
<1>a. SyncTypeOK /\ pc \in [User -> Step]
  BY DEF SyncTypeOK, TypeOK
<1>1. ASSUME NEW u \in User, Serve(u) \/ ServeFails(u) PROVE Listening'
  BY <1>1 DEF Serve, ServeFails, syncVars, Listening
<1>2. ASSUME NEW u \in User, Lock(u) \/ ServeOn(u) PROVE Listening'
  <2>1. UNCHANGED watching
    BY <1>2 DEF Lock, ServeOn, syncVars
  <2>2. pc[u] # "idle"
    BY <1>2 DEF Lock, ServeOn, Acquire, Truncate, Write, RemoveFile, IndexNote, Unindex,
                Probe, CheckExists, CompareSave, CompareRestore, SnapshotEdits, WriteLost,
                RecordRevision, At
  <2>. QED BY <2>1, <2>2 DEF Listening
<1>3. ASSUME NEW p \in Path, EditSeen(p) PROVE Listening'
  BY <1>3 DEF EditSeen, Edit, Listening
<1>4. CASE StartWatcher
  BY <1>4 DEF StartWatcher, Listening
<1>5. CASE Take \/ \E w \in Callback : Expire(w)
  BY <1>5 DEF Take, Expire, WriteSettles, ExternalSettles, vars, Listening
<1>6. ASSUME NEW w \in Worker, Work(w) \/ ExternalFails(w) PROVE Listening'
  BY <1>6 DEF Work, EmitWrite, ReadChanged, IndexChanged, ArmExternal, UnindexRemoved, ForgetExternal,
              RecordExternal, ExternalFails, vars, Listening
<1>7. CASE UNCHANGED allVars
  BY <1>7 DEF allVars, vars, syncVars, Listening
<1>. QED
  <2>1. CASE SyncNext
    BY <1>1, <1>2, <1>3, <1>4, <1>5, <1>6, <2>1 DEF SyncNext
  <2>. QED BY <1>7, <2>1

LEMMA RecordStep ==
  ASSUME SyncTypeOK, Listening, RecordOK, [SyncNext]_allVars
  PROVE  RecordOK'
<1>a. /\ \A w \in Worker : task[w].path \in Path
      /\ task = [w \in Worker |-> task[w]] /\ \A w \in Worker : task[w] = [step |-> task[w].step, path |-> task[w].path,
                       found |-> task[w].found, action |-> task[w].action]
  BY TaskTypes DEF SyncTypeOK
<1>b. ASSUME ~missed' => ~missed, faults' = 0 => faults = 0,
             \A q \in Path : H!Latest(q) = disk[q] \/ Pending(q) => H!Latest(q)' = disk'[q] \/ Pending(q)'
      PROVE  RecordOK'
  BY <1>b DEF RecordOK
<1>c. UNCHANGED vars => /\ UNCHANGED <<disk, faults>> /\ \A q \in Path : H!Latest(q)' = H!Latest(q)
  BY DEF vars, H!Latest
<1>d. Loop \in Worker /\ Callback \subseteq Worker
  BY DEF Worker
<1>e. \A w \in Worker, step \in {"read", "index", "arm", "record"} : To(w, step) =>
        /\ \A v \in Worker : task'[v].path = task[v].path
        /\ \A v \in Worker : task'[v].step = IF v = w THEN step ELSE task[v].step
  BY <1>a DEF To
<1>f. \A w \in Worker : Idle(w) => \A v \in Worker : v # w => task'[v] = task[v]
  BY <1>a, IdleTask
<1>g. \A w \in Worker, step \in {"fired", "read", "unindex", "expired"}, p \in Path,
         action \in {"save", "delete"} : Run(w, step, p, action) =>
        /\ \A v \in Worker : v # w => task'[v] = task[v]
        /\ task[w].step = "idle" /\ task'[w].path = p /\ task'[w].step = step
  BY <1>a DEF Run, Busy
<1>1. CASE StartWatcher \/ UNCHANGED allVars
  <2>1. UNCHANGED <<vars, events, writeTimer, extTimer, task, missed>>
    BY <1>1 DEF StartWatcher, allVars, syncVars
  <2>. QED BY <1>b, <1>c, <2>1 DEF Pending, Timed
<1>2. CASE Take
  <2>1. UNCHANGED <<vars, extTimer, missed>>
    BY <1>2 DEF Take
  <2>2. PICK e \in Event :
          /\ Len(events) \in Nat \ {0} /\ Len(events') = Len(events) - 1
          /\ e = events[1] /\ Handle(e)
          /\ \A i \in 1..Len(events') : events'[i] = events[i + 1]
    BY <1>2, TakeLeaves
  <2>3. e.path \in Path
    BY DEF Event
  <2>4. Pending(e.path)'
    <3>1. CASE e.op = "create" /\ Run(Loop, "read", e.path, "save")
      BY <1>d, <1>g, <2>3, <3>1 DEF Pending
    <3>2. CASE e.op = "remove" /\ Run(Loop, "unindex", e.path, "delete")
      BY <1>d, <1>g, <2>3, <3>2 DEF Pending
    <3>3. CASE e.op = "write" /\ Arm(writeTimer, e.path)
      BY <2>3, <3>3, WriteTimerSteps DEF Pending, Timed
    <3>. QED BY <2>2, <3>1, <3>2, <3>3 DEF Handle
  <2>5. ASSUME NEW q \in Path, q # e.path, Pending(q) PROVE Pending(q)'
    <3>1. (\E i \in 1..Len(events) : events[i].path = q) => \E i \in 1..Len(events') : events'[i].path = q
      <4>. SUFFICES ASSUME NEW i \in 1..Len(events), events[i].path = q
           PROVE \E k \in 1..Len(events') : events'[k].path = q
        OBVIOUS
      <4>1. i # 1 /\ i - 1 \in 1..Len(events')
        BY <2>2, <2>5
      <4>2. events'[i - 1] = events[i]
        BY <2>2, <4>1
      <4>. QED BY <4>1, <4>2
    <3>2. writeTimer'[q] = writeTimer[q]
      BY <2>2, <2>3, <2>5, WriteTimerSteps DEF Handle, Same
    <3>3. \A w \in Worker : task[w].step # "idle" => task'[w] = task[w]
      BY <1>d, <1>g, <2>2, <2>3 DEF Handle, Event
    <3>. QED BY <2>1, <2>5, <3>1, <3>2, <3>3 DEF Pending, Timed
  <2>. QED BY <1>b, <1>c, <2>1, <2>4, <2>5
<1>3. ASSUME NEW w \in Callback, WriteSettles(w) PROVE RecordOK'
  <2>1. PICK p \in Path : Fire(writeTimer, p) /\ Run(w, "fired", p, "save")
    BY <1>3 DEF WriteSettles
  <2>2. UNCHANGED <<vars, events, extTimer, missed>>
    BY <1>3 DEF WriteSettles
  <2>3. /\ \A v \in Worker : v # w => task'[v] = task[v]
        /\ task[w].step = "idle" /\ task'[w].path = p /\ task'[w].step = "fired" /\ w \in Worker
    BY <1>d, <1>g, <2>1
  <2>4. \A q \in Path : q # p => writeTimer'[q] = writeTimer[q]
    BY <2>1, WriteTimerSteps DEF Same
  <2>5. \A q \in Path : Pending(q) => Pending(q)'
    BY <2>2, <2>3, <2>4 DEF Pending, Timed
  <2>. QED BY <1>b, <1>c, <2>2, <2>5
<1>4. ASSUME NEW w \in Callback, ExternalSettles(w) PROVE RecordOK'
  <2>1. PICK p \in Path : Fire(extTimer, p) /\ Run(w, "expired", p, "save")
    BY <1>4 DEF ExternalSettles
  <2>2. UNCHANGED <<vars, events, writeTimer, missed>>
    BY <1>4 DEF ExternalSettles
  <2>3. /\ \A v \in Worker : v # w => task'[v] = task[v]
        /\ task[w].step = "idle" /\ task'[w].path = p /\ task'[w].step = "expired" /\ w \in Worker
    BY <1>d, <1>g, <2>1
  <2>4. \A q \in Path : q # p => extTimer'[q] = extTimer[q]
    BY <2>1, ExtTimerSteps DEF Same
  <2>5. \A q \in Path : Pending(q) => Pending(q)'
    BY <2>2, <2>3, <2>4 DEF Pending, Timed
  <2>. QED BY <1>b, <1>c, <2>2, <2>5
<1>5. ASSUME NEW w \in Worker, EmitWrite(w) \/ ForgetExternal(w) PROVE RecordOK'
  <2>1. /\ UNCHANGED <<vars, events, missed>>
        /\ \E step \in {"read", "record"} : To(w, step)
    BY <1>5 DEF EmitWrite, ForgetExternal
  <2>2. /\ \A v \in Worker : task'[v].path = task[v].path
        /\ \A v \in Worker : task[v].step # "idle" => task'[v].step # "idle"
    BY <1>e, <2>1
  <2>3. PICK p \in Path : p = task[w].path
    BY <1>a
  <2>4. \A q \in Path : Timed(writeTimer, q) => Timed(writeTimer, q)'
    <3>1. CASE UNCHANGED writeTimer
      BY <3>1 DEF Timed
    <3>2. CASE Forget(writeTimer, p)
      BY <3>2, WriteTimerSteps DEF Same, Timed
    <3>. QED BY <1>5, <2>3, <3>1, <3>2 DEF EmitWrite, ForgetExternal
  <2>5. \A q \in Path : Timed(extTimer, q) => Timed(extTimer, q)'
    <3>1. CASE UNCHANGED extTimer
      BY <3>1 DEF Timed
    <3>2. CASE Forget(extTimer, p)
      BY <3>2, ExtTimerSteps DEF Same, Timed
    <3>. QED BY <1>5, <2>3, <3>1, <3>2 DEF EmitWrite, ForgetExternal
  <2>6. \A q \in Path : Pending(q) => Pending(q)'
    BY <2>1, <2>2, <2>4, <2>5 DEF Pending
  <2>. QED BY <1>b, <1>c, <2>1, <2>6
<1>6. ASSUME NEW w \in Worker, ReadChanged(w) \/ IndexChanged(w) \/ UnindexRemoved(w) PROVE RecordOK'
  <2>1. UNCHANGED <<disk, revs, faults, events, writeTimer, extTimer, missed>>
    BY <1>6 DEF ReadChanged, IndexChanged, UnindexRemoved, vars, bounds
  <2>2. /\ \A v \in Worker : task'[v].path = task[v].path
        /\ \A v \in Worker : task[v].step # "idle" => task'[v].step # "idle"
    BY <1>6, <1>a, <1>e DEF ReadChanged, IndexChanged, UnindexRemoved
  <2>3. \A q \in Path : Pending(q) => Pending(q)'
    BY <2>1, <2>2 DEF Pending, Timed
  <2>. QED BY <1>b, <2>1, <2>3 DEF H!Latest
<1>7. ASSUME NEW w \in Worker, ArmExternal(w) PROVE RecordOK'
  <2>1. UNCHANGED <<vars, events, writeTimer, missed>> /\ Arm(extTimer, task[w].path) /\ Idle(w)
    BY <1>7 DEF ArmExternal
  <2>2. PICK p \in Path : p = task[w].path
    BY <1>a
  <2>3. /\ \A q \in Path : q # p => extTimer'[q] = extTimer[q]
        /\ extTimer'[p].entry = "armed"
    BY <2>1, <2>2, ExtTimerSteps DEF Same
  <2>4. \A q \in Path : Pending(q) => Pending(q)'
    BY <1>f, <2>1, <2>2, <2>3 DEF Pending, Timed
  <2>. QED BY <1>b, <1>c, <2>1, <2>4
<1>8. ASSUME NEW w \in Worker, RecordExternal(w) PROVE RecordOK'
  <2>1. PICK p \in Path : p = task[w].path
    BY <1>a
  <2>2. /\ UNCHANGED <<disk, faults, events, writeTimer, extTimer, missed>> /\ Idle(w)
        /\ H!Record(External, p, task[w].action, disk[p])
    BY <1>8, <2>1 DEF RecordExternal, bounds
  <2>3. /\ disk[p] \in Note /\ External \in Actor /\ task[w].action \in H!Action /\ H!HistoryTypeOK
    BY <2>1 DEF SyncTypeOK, TypeOK, Task, Actor, H!Action
  <2>4. /\ H!Latest(p)' = disk[p]
        /\ \A q \in Path \ {p} : H!Latest(q)' = H!Latest(q)
    BY <2>2, <2>3, RecordLatest
  <2>5. \A q \in Path : q # p /\ Pending(q) => Pending(q)'
    BY <1>f, <2>1, <2>2 DEF Pending, Timed
  <2>. QED BY <1>b, <2>2, <2>4, <2>5
<1>9. ASSUME NEW w \in Worker, ExternalFails(w) PROVE RecordOK'
  BY <1>9 DEF ExternalFails, RecordOK, SyncTypeOK, TypeOK
<1>10. ASSUME NEW u \in User, Serve(u) \/ Lock(u) PROVE RecordOK'
  <2>1. CASE RecordFails(u) /\ Serve(u)
    BY <2>1 DEF RecordFails, RecordOK, SyncTypeOK, TypeOK
  <2>2. CASE UNCHANGED <<disk, revs, faults, syncVars, missed>>
    BY <1>b, <2>2 DEF Pending, Timed, syncVars, H!Latest
  <2>. QED BY <1>10, <2>1, <2>2 DEF Serve, Lock, Begin, StartSave, StartDelete, StartRestore,
              StartRestoreDeleted, StartCreate, Start, Acquire, bounds
<1>10a. ASSUME NEW u \in User, ServeFails(u) PROVE RecordOK'
  BY <1>10a DEF ServeFails, WriteFails, RecordOK, SyncTypeOK, TypeOK
<1>11. ASSUME NEW u \in User, ServeOn(u) PROVE RecordOK'
  <2>1. PICK p \in Path :
          /\ p = req[u].path /\ UNCHANGED <<faults, missed, writeTimer, extTimer, task>>
          /\ \A q \in Path \ {p} : disk'[q] = disk[q] /\ H!Latest(q)' = H!Latest(q)
          /\ \/ UNCHANGED <<disk, events>> /\ H!Latest(p)' = H!Latest(p)
             \/ UNCHANGED <<disk, events>> /\ H!Latest(p)' = disk[p]
             \/ pc[u] # "idle" /\ \E op \in {"create", "write", "remove"} : Report(op, p)
    BY <1>11, RequestRecords
  <2>2. CASE UNCHANGED <<disk, events>> /\ (H!Latest(p)' = H!Latest(p) \/ H!Latest(p)' = disk[p])
    <3>1. \A q \in Path : Pending(q) => Pending(q)'
      BY <2>1, <2>2 DEF Pending, Timed
    <3>2. \A q \in Path : H!Latest(q)' = H!Latest(q) \/ H!Latest(q)' = disk'[q]
      <4>. SUFFICES ASSUME NEW q \in Path PROVE H!Latest(q)' = H!Latest(q) \/ H!Latest(q)' = disk'[q]
        OBVIOUS
      <4>1. CASE q = p
        BY <2>1, <2>2, <4>1 DEF H!Latest
      <4>2. CASE q # p
        BY <2>1, <4>2
      <4>. QED BY <4>1, <4>2
    <3>. QED BY <1>b, <2>1, <2>2, <3>1, <3>2
  <2>3. CASE pc[u] # "idle" /\ \E op \in {"create", "write", "remove"} : Report(op, p)
    <3>1. PICK op \in {"create", "write", "remove"} : Report(op, p)
      BY <2>3
    <3>2. watching
      BY <2>3 DEF Listening
    <3>3. Pending(p)'
      <4>1. /\ Len(events') \in 1..Len(events')
            /\ events'[Len(events')] = [op |-> op, path |-> p]
        BY <3>1, <3>2, ReportAdds
      <4>2. events'[Len(events')].path = p
        BY <4>1
      <4>. QED BY <4>1, <4>2 DEF Pending
    <3>4. \A q \in Path : Pending(q) => Pending(q)'
      BY <2>1, <3>1, ReportAdds DEF Pending, Timed
    <3>. QED BY <1>b, <2>1, <3>3, <3>4
  <2>. QED BY <2>1, <2>2, <2>3
<1>12. ASSUME NEW p \in Path, EditSeen(p) PROVE RecordOK'
  <2>1. /\ UNCHANGED <<revs, faults, writeTimer, extTimer, task>>
        /\ \A q \in Path \ {p} : disk'[q] = disk[q]
        /\ missed' = (missed \/ ~watching)
        /\ \E op \in {"create", "write", "remove"} : Report(op, p)
    BY <1>12 DEF EditSeen, Edit, SyncTypeOK, TypeOK
  <2>2. PICK op \in {"create", "write", "remove"} : Report(op, p)
    BY <2>1
  <2>3. watching => Pending(p)'
    <3>. SUFFICES ASSUME watching PROVE Pending(p)'
      OBVIOUS
    <3>1. /\ Len(events') \in 1..Len(events')
          /\ events'[Len(events')] = [op |-> op, path |-> p]
      BY <2>2, ReportAdds
    <3>2. events'[Len(events')].path = p
      BY <3>1
    <3>. QED BY <3>1, <3>2 DEF Pending
  <2>4. \A q \in Path : Pending(q) => Pending(q)'
    BY <2>1, <2>2, ReportAdds DEF Pending, Timed
  <2>5. \A q \in Path : H!Latest(q)' = H!Latest(q)
    BY <2>1 DEF H!Latest
  <2>. QED BY <2>1, <2>3, <2>4, <2>5 DEF RecordOK
<1>. QED
  <2>1. CASE SyncNext
    <3>1. \/ StartWatcher \/ Take
          \/ \E w \in Callback : Expire(w)
          \/ \E w \in Worker : Work(w) \/ ExternalFails(w)
          \/ \E u \in User : Serve(u) \/ ServeFails(u) \/ Lock(u) \/ ServeOn(u)
          \/ \E p \in Path : EditSeen(p)
      BY <2>1 DEF SyncNext
    <3>2. ASSUME NEW w \in Callback, Expire(w) PROVE RecordOK'
      BY <1>3, <1>4, <3>2 DEF Expire
    <3>3. ASSUME NEW w \in Worker, Work(w) \/ ExternalFails(w) PROVE RecordOK'
      BY <1>5, <1>6, <1>7, <1>8, <1>9, <3>3 DEF Work
    <3>. QED BY <1>1, <1>2, <1>10, <1>10a, <1>11, <1>12, <3>1, <3>2, <3>3
  <2>. QED BY <1>1, <2>1

LEMMA RecordInit == SyncInit => Listening /\ RecordOK
<1>. SUFFICES ASSUME SyncInit PROVE Listening /\ RecordOK
  OBVIOUS
<1>1. /\ pc = [u \in User |-> "idle"] /\ disk \in [Path -> Note]
      /\ revs = H!Snapshot(disk)
  BY DEF SyncInit, Init
<1>2. \A p \in Path : H!Latest(p) = disk[p]
  <2>. SUFFICES ASSUME NEW p \in Path PROVE H!Latest(p) = disk[p]
    OBVIOUS
  <2>1. revs[p] = IF disk[p] = NoNote THEN << >>
                  ELSE << [actor |-> Local, action |-> "init", content |-> disk[p]] >>
    BY <1>1 DEF H!Snapshot
  <2>. QED BY <2>1 DEF H!Latest
<1>. QED
  BY <1>1, <1>2 DEF Listening, RecordOK

\* Direct edits reach the history (plans/01, acceptance 5; core/service.go
\* HandleFSEvent, recordExternalDebounced; filesystem/watcher.go): when nothing is
\* reported, timed or in progress, its newest revisions hold the vault, for any
\* number of users, notes, edits and goroutines, unless a change came before the
\* watcher or a commit failed.
THEOREM HistoryFollows == SyncSpec => []HistoryConverges
<1>1. /\ SyncTypeOK /\ Listening /\ [SyncNext]_allVars => Listening'
      /\ SyncTypeOK /\ Listening /\ RecordOK /\ [SyncNext]_allVars => RecordOK'
  BY ListeningStep, RecordStep
<1>2. SyncTypeOK /\ RecordOK => HistoryConverges
  <2>. SUFFICES ASSUME SyncTypeOK, RecordOK, Quiet PROVE \A p \in Path : ~Pending(p)
    BY DEF RecordOK, HistoryConverges
  <2>. QED BY DEF Quiet, Settled, Pending, Timed, Busy
<1>. QED
  BY <1>1, <1>2, RecordInit, SyncTypesHold, PTL DEF SyncSpec

-----------------------------------------------------------------------------
(* The index *)

\* An event that makes the loop, or a timer, read p; and one that takes p out.
Rewritten(p) == \E i \in 1..Len(events) : events[i].path = p /\ events[i].op # "remove"
Removed(p) == \E i \in 1..Len(events) : events[i].path = p /\ events[i].op = "remove"

\* Somebody reads what is on disk, or has, and indexes it.
Reading(p) ==
  \/ Rewritten(p) \/ Timed(writeTimer, p)
  \/ \E w \in Worker : /\ task[w].path = p
                       /\ \/ task[w].step = "fired" \/ task[w].step = "read"
                          \/ task[w].step = "index" /\ task[w].found = disk[p]
Removing(p) ==
  Removed(p) \/ \E w \in Worker : task[w].path = p /\ task[w].step = "unindex"

\* u has written or removed p and not yet updated the index.
Meddles(u, p) ==
  /\ req[u].path = p
  /\ pc[u] = "write" \/ pc[u] = "index" \/ (pc[u] = "unindex" /\ disk[p] # NoNote)

\* The index holds the disk and nobody is about to change that.
Level(p) ==
  /\ index[p] = disk[p]
  /\ \A w \in Worker : ~(task[w].path = p /\ task[w].step = "index")
  /\ \A u \in User : ~Meddles(u, p)

Follows(p) ==
  Level(p) \/ (disk[p] # NoNote /\ Reading(p)) \/ (disk[p] = NoNote /\ Removing(p))

\* Every removal of p in the queue has a creation or a write after it.
Trailed(p) ==
  \A i \in 1..Len(events) : events[i].path = p /\ events[i].op = "remove" =>
    \E j \in (i + 1)..Len(events) : events[j].path = p /\ events[j].op # "remove"

\* The removals of a note that is there are older than what made it.
Ordered(p) ==
  disk[p] # NoNote =>
    /\ Trailed(p)
    /\ (\E w \in Worker : task[w].path = p /\ task[w].step = "unindex") => Rewritten(p)

IndexOK ==
  /\ \A w \in Worker : task[w].step = "unindex" => w = Loop
  /\ ~missed => \A p \in Path : Ordered(p) /\ (~overtaken => Follows(p))

LEMMA ReportOrders ==
  ASSUME SyncTypeOK, watching, NEW op \in {"create", "write", "remove"}, NEW p \in Path, Report(op, p)
  PROVE  /\ \A q \in Path : (Rewritten(q) => Rewritten(q)') /\ (Removed(q) => Removed(q)')
         /\ \A q \in Path : q # p /\ Trailed(q) => Trailed(q)'
         /\ op = "remove" => Removed(p)'
         /\ op # "remove" => Rewritten(p)' /\ Trailed(p)'
<1>. PICK n \in Nat : n = Len(events)
  BY ReportAdds
<1>1. /\ \A i \in 1..n : events'[i] = events[i]
      /\ Len(events') = n + 1 /\ events'[n + 1] = [op |-> op, path |-> p]
      /\ n = Len(events)
  BY ReportAdds
<1>2. events'[n + 1].path = p /\ events'[n + 1].op = op
  BY <1>1
<1>3. \A q \in Path : (Rewritten(q) => Rewritten(q)') /\ (Removed(q) => Removed(q)')
  BY <1>1 DEF Rewritten, Removed
<1>4. ASSUME NEW q \in Path, q # p, Trailed(q) PROVE Trailed(q)'
  <2>. SUFFICES ASSUME NEW i \in 1..Len(events'), events'[i].path = q, events'[i].op = "remove"
       PROVE \E j \in (i + 1)..Len(events') : events'[j].path = q /\ events'[j].op # "remove"
    BY DEF Trailed
  <2>1. i \in 1..n
    BY <1>1, <1>2, <1>4
  <2>2. PICK j \in (i + 1)..n : events[j].path = q /\ events[j].op # "remove"
    BY <1>1, <1>4, <2>1 DEF Trailed
  <2>3. j \in (i + 1)..(n + 1) /\ j \in 1..n
    BY <2>1, <2>2
  <2>. QED BY <1>1, <2>2, <2>3
<1>5. op = "remove" => Removed(p)'
  BY <1>1, <1>2 DEF Removed
<1>6. ASSUME op # "remove" PROVE Rewritten(p)' /\ Trailed(p)'
  <2>1. Rewritten(p)'
    BY <1>1, <1>2, <1>6 DEF Rewritten
  <2>2. ASSUME NEW i \in 1..Len(events'), events'[i].path = p, events'[i].op = "remove"
        PROVE \E j \in (i + 1)..Len(events') : events'[j].path = p /\ events'[j].op # "remove"
    <3>1. i # n + 1
      BY <1>2, <1>6, <2>2
    <3>2. n + 1 \in (i + 1)..Len(events')
      BY <1>1, <3>1
    <3>. QED BY <1>2, <1>6, <3>2
  <2>. QED BY <2>1, <2>2 DEF Trailed
<1>. QED
  BY <1>3, <1>4, <1>5, <1>6

\* What a step of a request does to the note, the queue and the index.
LEMMA RequestIndexes ==
  ASSUME SyncTypeOK, NEW u \in User, ServeOn(u) \/ ServeFails(u)
  PROVE  \E p \in Path :
         /\ p = req[u].path /\ UNCHANGED <<missed, watching, writeTimer, extTimer, task>>
         /\ pc[u] # "idle" /\ (~overtaken' => ~overtaken)
         /\ \A q \in Path \ {p} : disk'[q] = disk[q] /\ index'[q] = index[q]
         /\ \A v \in User \ {u} : req'[v] = req[v] /\ pc'[v] = pc[v]
         /\ \/ /\ UNCHANGED req
               /\ \E op \in {"create", "write", "remove"} :
                    Report(op, p) /\ (disk'[p] = NoNote <=> op = "remove")
            \/ /\ UNCHANGED <<disk, events, index>>
               /\ pc'[u] # "write" /\ pc'[u] # "index" /\ pc'[u] # "unindex"
            \/ UNCHANGED <<disk, events, index, req>> /\ pc[u] = "write"
            \/ UNCHANGED <<disk, events, req>> /\ pc[u] = "index" /\ pc'[u] = "record"
            \/ UNCHANGED <<disk, events, req>> /\ pc[u] = "unindex" /\ pc'[u] = "record" /\ index'[p] = NoNote
<1>p. PICK p \in Path : p = req[u].path
  BY DEF SyncTypeOK, TypeOK, Request
<1>a. /\ TypeOK /\ disk \in [Path -> Note] /\ index \in [Path -> Note] /\ Empty # NoNote
      /\ pc = [v \in User |-> pc[v]] /\ req = [v \in User |-> req[v]]
  BY ServiceAssumption DEF SyncTypeOK, TypeOK
<1>b. Stored(u) # NoNote
  BY <1>a, StoredType, ServiceAssumption
<1>c. UNCHANGED <<missed, watching, writeTimer, extTimer, task>> /\ (~overtaken' => ~overtaken)
  <2>1. UNCHANGED <<missed, watching, writeTimer, extTimer, task>>
    BY DEF ServeOn, ServeFails
  <2>2. overtaken' = overtaken \/ overtaken' = (overtaken \/ \E w \in Worker : task[w].path = req[u].path /\ Busy(w, "index"))
    BY DEF ServeOn, ServeFails
  <2>3. ~overtaken' => ~overtaken
    BY <2>2
  <2>. QED BY <2>1, <2>3
<1>1. CASE Truncate(u) /\ Report(IF disk[p] # NoNote THEN "write" ELSE "create", p)
  BY <1>1, <1>p, <1>a, <1>c DEF Truncate, At, Goto, bounds
<1>2. CASE Write(u) /\ Report("write", p)
  BY <1>2, <1>p, <1>a, <1>b, <1>c DEF Write, At, Goto, bounds
<1>3. CASE RemoveFile(u) /\ IF disk[p] # NoNote THEN Report("remove", p) ELSE UNCHANGED events
  <2>1. CASE disk[p] = NoNote
    BY <1>3, <1>p, <1>a, <1>c, <2>1 DEF RemoveFile, Finish, At, Goto, bounds
  <2>2. CASE disk[p] # NoNote
    BY <1>3, <1>p, <1>a, <1>c, <2>2 DEF RemoveFile, At, Goto, bounds
  <2>. QED BY <2>1, <2>2
<1>4. CASE IndexNote(u) /\ UNCHANGED events
  BY <1>4, <1>p, <1>a, <1>c DEF IndexNote, At, Goto, bounds
<1>5. CASE Unindex(u) /\ UNCHANGED events
  BY <1>5, <1>p, <1>a, <1>c DEF Unindex, At, Goto, bounds
<1>6. CASE UNCHANGED events /\ WriteLost(u)
  BY <1>6, <1>p, <1>a, <1>c DEF WriteLost, At, Goto, bounds
<1>7. CASE UNCHANGED events /\ Probe(u)
  <2>1. pc[u] = "probe" /\ UNCHANGED <<disk, index>>
    BY <1>7 DEF Probe, At
  <2>2. /\ \A v \in User \ {u} : req'[v] = req[v] /\ pc'[v] = pc[v]
        /\ pc'[u] = "probe" \/ pc'[u] = "truncate"
    BY <1>7, <1>a, <2>1 DEF Probe, Goto
  <2>. QED BY <1>7, <1>p, <1>c, <2>1, <2>2
<1>8. CASE UNCHANGED events /\ (CheckExists(u) \/ SnapshotEdits(u))
  BY <1>8, <1>p, <1>a, <1>c DEF CheckExists, SnapshotEdits, At, Goto, bounds
<1>9. CASE UNCHANGED events /\ (CompareSave(u) \/ CompareRestore(u) \/ RecordRevision(u))
  <2>1. UNCHANGED <<disk, index, req>> /\ (pc[u] = "compare" \/ pc[u] = "record")
    BY <1>9 DEF CompareSave, CompareRestore, RecordRevision, At, bounds
  <2>2. pc' = [pc EXCEPT ![u] = "idle"] \/ pc' = [pc EXCEPT ![u] = "truncate"] \/ pc' = [pc EXCEPT ![u] = "snapshot"]
    BY <1>9 DEF CompareSave, CompareRestore, RecordRevision, Goto, Finish
  <2>. QED BY <1>9, <1>p, <1>a, <1>c, <2>1, <2>2
<1>10. CASE ServeFails(u)
  <2>1. /\ UNCHANGED <<index, req>> /\ pc' = [pc EXCEPT ![u] = "idle"] /\ pc[u] # "idle"
        /\ disk' = disk \/ \E c \in Pieces : disk' = [disk EXCEPT ![p] = c]
        /\ IF disk' = disk THEN UNCHANGED events ELSE Report("write", p)
    BY <1>10, <1>p DEF ServeFails, WriteFails, Finish, Goto, At
  <2>2. CASE disk' = disk
    BY <1>p, <1>a, <1>c, <2>1, <2>2
  <2>3. CASE disk' # disk
    <3>1. PICK c \in Pieces : disk' = [disk EXCEPT ![p] = c]
      BY <2>1, <2>3
    <3>2. disk'[p] # NoNote /\ \A q \in Path \ {p} : disk'[q] = disk[q]
      BY <1>a, <3>1, ServiceAssumption
    <3>. QED BY <1>p, <1>a, <1>c, <2>1, <2>3, <3>2
  <2>. QED BY <2>2, <2>3
<1>. QED
  BY <1>p, <1>1, <1>2, <1>3, <1>4, <1>5, <1>6, <1>7, <1>8, <1>9, <1>10 DEF ServeOn

\* A step that changes neither notes nor queues nor what is done about them.
LEMMA IndexUntouched ==
  ASSUME IndexOK, UNCHANGED <<disk, index, events, writeTimer, task, missed>>,
         ~overtaken' => ~overtaken,
         \A v \in User, q \in Path : Meddles(v, q)' => Meddles(v, q)
  PROVE  IndexOK'
<1>1. \A q \in Path : /\ Rewritten(q)' <=> Rewritten(q)
                      /\ Removed(q)' <=> Removed(q)
                      /\ Trailed(q)' <=> Trailed(q)
                      /\ Timed(writeTimer, q)' <=> Timed(writeTimer, q)
  BY DEF Rewritten, Removed, Trailed, Timed
<1>2. \A q \in Path : /\ Reading(q) => Reading(q)'
                      /\ Removing(q) => Removing(q)'
                      /\ Ordered(q) => Ordered(q)'
                      /\ Level(q) => Level(q)'
  BY <1>1 DEF Reading, Removing, Ordered, Level
<1>. QED
  BY <1>2 DEF IndexOK, Follows

LEMMA IndexStep ==
  ASSUME SyncTypeOK, Listening, IndexOK, [SyncNext]_allVars
  PROVE  IndexOK'
<1>a. /\ \A w \in Worker : task[w].path \in Path
      /\ task = [w \in Worker |-> task[w]]
      /\ \A w \in Worker : task[w] = [step |-> task[w].step, path |-> task[w].path,
                       found |-> task[w].found, action |-> task[w].action]
      /\ \A w \in Worker : task[w].step = "unindex" => w = Loop
      /\ disk \in [Path -> Note] /\ index \in [Path -> Note]
      /\ pc = [v \in User |-> pc[v]] /\ req = [v \in User |-> req[v]]
  BY TaskTypes DEF SyncTypeOK, TypeOK, IndexOK
<1>b. ASSUME \A w \in Worker : task'[w].step = "unindex" => w = Loop,
             ~missed' => ~missed,
             \A q \in Path : ~missed' /\ Ordered(q) /\ (~overtaken => Follows(q)) =>
                               Ordered(q)' /\ (~overtaken' => Follows(q)')
      PROVE  IndexOK'
  BY <1>b DEF IndexOK
<1>c. UNCHANGED vars => UNCHANGED <<disk, index>> /\ \A v \in User, q \in Path : Meddles(v, q)' => Meddles(v, q)
  BY DEF vars, Meddles
<1>d. Loop \in Worker /\ Callback \subseteq Worker /\ Loop \notin Callback
  BY SyncAssumption DEF Worker
<1>e. \A w \in Worker, step \in {"read", "index", "arm", "record"} : To(w, step) =>
        \A v \in Worker : /\ task'[v].path = task[v].path /\ task'[v].found = task[v].found
                          /\ task'[v].step = IF v = w THEN step ELSE task[v].step
  BY <1>a DEF To
<1>f. \A w \in Worker : Idle(w) => /\ \A v \in Worker : v # w => task'[v] = task[v]
                                   /\ task'[w].step = "idle"
  BY <1>a, IdleTask
<1>g. \A w \in Worker, step \in {"fired", "read", "unindex", "expired"}, p \in Path,
         action \in {"save", "delete"} : Run(w, step, p, action) =>
        /\ \A v \in Worker : v # w => task'[v] = task[v]
        /\ task[w].step = "idle" /\ task'[w].path = p /\ task'[w].step = step
  BY <1>a DEF Run, Busy
<1>1. CASE StartWatcher \/ UNCHANGED allVars
  <2>1. UNCHANGED <<vars, events, writeTimer, task, missed, overtaken>>
    BY <1>1 DEF StartWatcher, allVars, syncVars
  <2>. QED BY <1>c, <2>1, IndexUntouched
<1>2. ASSUME NEW u \in User, Serve(u) \/ Lock(u) PROVE IndexOK'
  <2>1. UNCHANGED <<disk, index, events, writeTimer, task, missed, overtaken>>
    BY <1>2 DEF Serve, Lock, syncVars, Begin, StartSave, StartDelete, StartRestore, StartRestoreDeleted,
                StartCreate, Start, Acquire, RecordFails, bounds
  <2>2. /\ \A v \in User \ {u} : pc'[v] = pc[v] /\ req'[v] = req[v]
        /\ pc'[u] # "write" /\ pc'[u] # "index" /\ pc'[u] # "unindex"
    BY <1>2, <1>a DEF Serve, Lock, Begin, StartSave, StartDelete, StartRestore, StartRestoreDeleted,
                StartCreate, Start, Acquire, RecordFails, Finish, Goto, bounds
  <2>3. \A v \in User, q \in Path : Meddles(v, q)' => Meddles(v, q)
    BY <2>1, <2>2 DEF Meddles
  <2>. QED BY <2>1, <2>3, IndexUntouched
<1>3. ASSUME NEW w \in Worker, ArmExternal(w) \/ RecordExternal(w) \/ ExternalFails(w) PROVE IndexOK'
  <2>1. /\ UNCHANGED <<disk, index, events, writeTimer, missed, overtaken, pc, req>> /\ Idle(w)
        /\ task[w].step = "arm" \/ task[w].step = "record"
    BY <1>3 DEF ArmExternal, RecordExternal, ExternalFails, Busy, vars, bounds
  <2>2. \A v \in Worker : v # w => task'[v] = task[v]
    BY <1>f, <2>1
  <2>3. task'[w].step = "idle"
    BY <1>f, <2>1
  <2>4. \A q \in Path : /\ Rewritten(q)' <=> Rewritten(q)
                        /\ Removed(q)' <=> Removed(q)
                        /\ Trailed(q)' <=> Trailed(q)
                        /\ Timed(writeTimer, q)' <=> Timed(writeTimer, q)
                        /\ \A v \in User : Meddles(v, q)' <=> Meddles(v, q)
    BY <2>1 DEF Rewritten, Removed, Trailed, Timed, Meddles
  <2>5. \A q \in Path : /\ Reading(q) => Reading(q)'
                        /\ Removing(q) => Removing(q)'
                        /\ Ordered(q) => Ordered(q)'
                        /\ Level(q) => Level(q)'
    BY <2>1, <2>2, <2>3, <2>4 DEF Reading, Removing, Ordered, Level
  <2>6. \A v \in Worker : task'[v].step = "unindex" => v = Loop
    BY <1>a, <2>2, <2>3
  <2>. QED BY <1>b, <2>1, <2>5, <2>6 DEF Follows
<1>4. ASSUME UNCHANGED <<disk, index, events, missed, overtaken, pc, req>>,
             NEW w \in Worker, \A v \in Worker : v # w => task'[v] = task[v],
             task'[w].step = "unindex" => task[w].step = "unindex" /\ task'[w].path = task[w].path,
             \A q \in Path : disk[q] # NoNote /\ Reading(q) => Reading(q)',
             task[w].step # "unindex",
             \A q \in Path : task'[w].step = "index" /\ task'[w].path = q =>
               (task[w].step = "index" /\ task[w].path = q) \/ (disk[q] # NoNote /\ Reading(q)')
      PROVE  IndexOK'
  <2>1. \A q \in Path : /\ Rewritten(q)' <=> Rewritten(q)
                        /\ Removed(q)' <=> Removed(q)
                        /\ Trailed(q)' <=> Trailed(q)
                        /\ \A v \in User : Meddles(v, q)' <=> Meddles(v, q)
    BY <1>4 DEF Rewritten, Removed, Trailed, Meddles
  <2>2. \A q \in Path : /\ Removing(q) => Removing(q)'
                        /\ Ordered(q) => Ordered(q)'
    BY <1>4, <2>1 DEF Removing, Ordered
  <2>3. \A q \in Path : Level(q) => Level(q)' \/ (disk[q] # NoNote /\ Reading(q)')
    <3>. SUFFICES ASSUME NEW q \in Path, Level(q), ~(disk[q] # NoNote /\ Reading(q)') PROVE Level(q)'
      OBVIOUS
    <3>1. ~(task'[w].step = "index" /\ task'[w].path = q)
      BY <1>4 DEF Level
    <3>2. \A v \in Worker : ~(task'[v].path = q /\ task'[v].step = "index")
      BY <1>4, <3>1 DEF Level
    <3>3. index'[q] = disk'[q]
      BY <1>4 DEF Level
    <3>4. \A v \in User : ~Meddles(v, q)'
      BY <2>1 DEF Level
    <3>. QED BY <3>2, <3>3, <3>4 DEF Level
  <2>4. \A q \in Path : Follows(q) => Follows(q)'
    BY <1>4, <2>2, <2>3 DEF Follows
  <2>5. \A v \in Worker : task'[v].step = "unindex" => v = Loop
    BY <1>a, <1>4
  <2>. QED BY <1>b, <1>4, <2>2, <2>4, <2>5
<1>5. ASSUME NEW w \in Callback, WriteSettles(w) PROVE IndexOK'
  <2>1. PICK p \in Path : Fire(writeTimer, p) /\ Run(w, "fired", p, "save")
    BY <1>5 DEF WriteSettles
  <2>2. UNCHANGED <<disk, index, events, missed, overtaken, pc, req>>
    BY <1>5 DEF WriteSettles, vars
  <2>3. /\ \A v \in Worker : v # w => task'[v] = task[v]
        /\ task[w].step = "idle" /\ task'[w].path = p /\ task'[w].step = "fired" /\ w \in Worker
    BY <1>d, <1>g, <2>1
  <2>4. \A q \in Path : q # p => writeTimer'[q] = writeTimer[q]
    BY <2>1, WriteTimerSteps DEF Same
  <2>5. \A q \in Path : Reading(q) => Reading(q)'
    BY <2>2, <2>3, <2>4 DEF Reading, Timed, Rewritten
  <2>. QED BY <1>4, <2>2, <2>3, <2>5
<1>6. ASSUME NEW w \in Callback, ExternalSettles(w) PROVE IndexOK'
  <2>1. PICK p \in Path : Run(w, "expired", p, "save")
    BY <1>6 DEF ExternalSettles
  <2>2. UNCHANGED <<disk, index, events, writeTimer, missed, overtaken, pc, req>>
    BY <1>6 DEF ExternalSettles, vars
  <2>3. /\ \A v \in Worker : v # w => task'[v] = task[v]
        /\ task[w].step = "idle" /\ task'[w].path = p /\ task'[w].step = "expired" /\ w \in Worker
    BY <1>d, <1>g, <2>1
  <2>5. \A q \in Path : Reading(q) => Reading(q)'
    BY <2>2, <2>3 DEF Reading, Timed, Rewritten
  <2>. QED BY <1>4, <2>2, <2>3, <2>5
<1>7. ASSUME NEW w \in Worker, EmitWrite(w) \/ ForgetExternal(w) PROVE IndexOK'
  <2>1. UNCHANGED <<disk, index, events, missed, overtaken, pc, req>>
    BY <1>7 DEF EmitWrite, ForgetExternal, vars
  <2>2. PICK step \in {"read", "record"} : To(w, step) /\ (step = "record" => task[w].step = "expired")
                                            /\ task[w].step # "unindex"
    BY <1>7 DEF EmitWrite, ForgetExternal, Busy
  <2>3. \A v \in Worker : /\ task'[v].path = task[v].path /\ task'[v].found = task[v].found
                          /\ task'[v].step = IF v = w THEN step ELSE task[v].step
    BY <1>e, <2>2
  <2>4. \A v \in Worker : v # w => task'[v] = task[v]
    BY <1>a, <2>2 DEF To
  <2>5. PICK p \in Path : p = task[w].path
    BY <1>a
  <2>6. \A q \in Path : Timed(writeTimer, q) => Timed(writeTimer, q)'
    <3>1. CASE UNCHANGED writeTimer
      BY <3>1 DEF Timed
    <3>2. CASE Forget(writeTimer, p)
      BY <3>2, WriteTimerSteps DEF Same, Timed
    <3>. QED BY <1>7, <2>5, <3>1, <3>2 DEF EmitWrite, ForgetExternal
  <2>7. \A q \in Path : Reading(q) => Reading(q)'
    BY <1>7, <2>1, <2>2, <2>3, <2>6 DEF Reading, Rewritten, EmitWrite, ForgetExternal, Busy
  <2>. QED BY <1>4, <2>1, <2>2, <2>3, <2>4, <2>7
<1>8. ASSUME NEW w \in Worker, ReadChanged(w) PROVE IndexOK'
  <2>1. PICK p \in Path : p = task[w].path
    BY <1>a
  <2>2. /\ UNCHANGED <<disk, index, events, writeTimer, missed, overtaken, pc, req>>
        /\ task[w].step = "read"
        /\ task' = [task EXCEPT ![w].found = disk[p], ![w].step = IF disk[p] = NoNote THEN "arm" ELSE "index"]
    BY <1>8, <2>1 DEF ReadChanged, Busy, vars
  <2>3. /\ \A v \in Worker : v # w => task'[v] = task[v]
        /\ task'[w].path = p /\ task'[w].found = disk[p]
        /\ task'[w].step = IF disk[p] = NoNote THEN "arm" ELSE "index"
    <3>1. PICK t : t = task[w]
      OBVIOUS
    <3>2. t = [step |-> t.step, path |-> t.path, found |-> t.found, action |-> t.action]
      BY <1>a, <3>1
    <3>3. PICK c : c = [[t EXCEPT !.found = disk[p]] EXCEPT !.step = IF disk[p] = NoNote THEN "arm" ELSE "index"]
      OBVIOUS
    <3>4. /\ c.path = t.path /\ c.found = disk[p]
          /\ c.step = IF disk[p] = NoNote THEN "arm" ELSE "index"
      BY <3>2, <3>3
    <3>5. task' = [task EXCEPT ![w] = c]
      BY <1>a, <2>2, <3>1, <3>3
    <3>. QED BY <1>a, <2>1, <3>1, <3>4, <3>5
  <2>4. \A q \in Path : /\ Rewritten(q)' <=> Rewritten(q)
                        /\ Timed(writeTimer, q)' <=> Timed(writeTimer, q)
    BY <2>2 DEF Rewritten, Timed
  <2>5. ASSUME disk[p] # NoNote PROVE Reading(p)'
    <3>1. task'[w].path = p /\ task'[w].step = "index" /\ task'[w].found = disk'[p]
      BY <2>2, <2>3, <2>5
    <3>. QED BY <3>1 DEF Reading
  <2>6. ASSUME NEW q \in Path, disk[q] # NoNote, Reading(q) PROVE Reading(q)'
    <3>1. CASE q = p
      BY <2>5, <2>6, <3>1 DEF Reading, Rewritten, Timed
    <3>2. CASE q # p
      <4>1. \A v \in Worker : task[v].path = q => task'[v] = task[v]
        BY <2>1, <2>3, <3>2
      <4>. QED BY <2>2, <2>4, <2>6, <4>1 DEF Reading
    <3>. QED BY <3>1, <3>2
  <2>7. ASSUME NEW q \in Path, task'[w].step = "index", task'[w].path = q
        PROVE  disk[q] # NoNote /\ Reading(q)'
    <3>1. q = p /\ disk[p] # NoNote
      BY <2>3, <2>7
    <3>. QED BY <2>5, <3>1 DEF Reading, Rewritten, Timed
  <2>8. task'[w].step # "unindex"
    BY <2>3
  <2>. QED BY <1>4, <2>2, <2>3, <2>6, <2>7, <2>8
<1>9. ASSUME NEW w \in Worker, IndexChanged(w) PROVE IndexOK'
  <2>1. PICK p \in Path : p = task[w].path
    BY <1>a
  <2>2. /\ UNCHANGED <<disk, events, writeTimer, missed, pc, req>>
        /\ task[w].step = "index" /\ To(w, "arm")
        /\ index' = [index EXCEPT ![p] = task[w].found]
        /\ overtaken' = (overtaken \/ Crosses(w, p))
    BY <1>9, <2>1 DEF IndexChanged, Busy, bounds
  <2>3. \A v \in Worker : /\ task'[v].path = task[v].path /\ task'[v].found = task[v].found
                          /\ task'[v].step = IF v = w THEN "arm" ELSE task[v].step
    BY <1>e, <2>2
  <2>4. \A q \in Path : /\ Rewritten(q)' <=> Rewritten(q)
                        /\ Removed(q)' <=> Removed(q)
                        /\ Trailed(q)' <=> Trailed(q)
                        /\ Timed(writeTimer, q)' <=> Timed(writeTimer, q)
                        /\ \A v \in User : Meddles(v, q)' <=> Meddles(v, q)
    BY <2>2 DEF Rewritten, Removed, Trailed, Meddles, Timed
  <2>5. \A q \in Path : Ordered(q) => Ordered(q)'
    BY <2>2, <2>3, <2>4 DEF Ordered
  <2>6. \A q \in Path : Removing(q) => Removing(q)'
    BY <2>2, <2>3, <2>4 DEF Removing
  <2>7. ASSUME NEW q \in Path, q # p, Follows(q) PROVE Follows(q)'
    <3>1. Reading(q) => Reading(q)'
      BY <2>1, <2>2, <2>3, <2>4, <2>7 DEF Reading
    <3>2. index'[q] = index[q]
      BY <1>a, <2>2, <2>7
    <3>3. Level(q) => Level(q)'
      BY <2>2, <2>3, <2>4, <3>2 DEF Level
    <3>. QED BY <2>2, <2>6, <2>7, <3>1, <3>3 DEF Follows
  <2>8. ASSUME Follows(p), ~overtaken' PROVE Follows(p)'
    <3>1. /\ \A v \in User : req[v].path = p => pc[v] # "write" /\ pc[v] # "index" /\ pc[v] # "unindex"
          /\ \A v \in Worker \ {w} : ~(task[v].path = p /\ task[v].step = "index")
      BY <2>2, <2>8 DEF Crosses, Busy
    <3>2. ~Level(p)
      BY <2>1, <2>2 DEF Level
    <3>3. CASE disk[p] = NoNote
      BY <2>2, <2>6, <2>8, <3>2, <3>3 DEF Follows
    <3>4. CASE disk[p] # NoNote /\ task[w].found = disk[p]
      <4>1. index'[p] = disk[p]
        BY <1>a, <2>2, <3>4
      <4>2. \A v \in Worker : ~(task'[v].path = p /\ task'[v].step = "index")
        BY <2>3, <3>1
      <4>3. \A v \in User : ~Meddles(v, p)'
        BY <2>4, <3>1 DEF Meddles
      <4>. QED BY <2>2, <4>1, <4>2, <4>3 DEF Follows, Level
    <3>5. CASE disk[p] # NoNote /\ task[w].found # disk[p]
      <4>1. Reading(p)
        BY <2>8, <3>2, <3>5 DEF Follows
      <4>2. Reading(p)'
        BY <2>1, <2>2, <2>3, <2>4, <3>1, <3>5, <4>1 DEF Reading
      <4>. QED BY <2>2, <3>5, <4>2 DEF Follows
    <3>. QED BY <3>3, <3>4, <3>5
  <2>9. \A v \in Worker : task'[v].step = "unindex" => v = Loop
    BY <1>a, <2>3
  <2>10. ~overtaken' => ~overtaken
    BY <2>2
  <2>. QED BY <1>b, <2>2, <2>5, <2>7, <2>8, <2>9, <2>10
<1>10. ASSUME NEW w \in Worker, UnindexRemoved(w) PROVE IndexOK'
  <2>1. PICK p \in Path : p = task[w].path
    BY <1>a
  <2>2. /\ UNCHANGED <<disk, events, writeTimer, missed, pc, req>>
        /\ task[w].step = "unindex" /\ To(w, "record")
        /\ index' = [index EXCEPT ![p] = NoNote]
        /\ overtaken' = (overtaken \/ Crosses(w, p))
    BY <1>10, <2>1 DEF UnindexRemoved, Busy, bounds
  <2>3. \A v \in Worker : /\ task'[v].path = task[v].path /\ task'[v].found = task[v].found
                          /\ task'[v].step = IF v = w THEN "record" ELSE task[v].step
    BY <1>e, <2>2
  <2>4. \A q \in Path : /\ Rewritten(q)' <=> Rewritten(q)
                        /\ Removed(q)' <=> Removed(q)
                        /\ Trailed(q)' <=> Trailed(q)
                        /\ Timed(writeTimer, q)' <=> Timed(writeTimer, q)
                        /\ \A v \in User : Meddles(v, q)' <=> Meddles(v, q)
    BY <2>2 DEF Rewritten, Removed, Trailed, Meddles, Timed
  <2>5. \A q \in Path : Ordered(q) => Ordered(q)'
    BY <2>2, <2>3, <2>4 DEF Ordered
  <2>6. \A q \in Path : Reading(q) => Reading(q)'
    BY <2>2, <2>3, <2>4 DEF Reading
  <2>7. ASSUME NEW q \in Path, q # p, Follows(q) PROVE Follows(q)'
    <3>1. Removing(q) => Removing(q)'
      BY <2>1, <2>2, <2>3, <2>4, <2>7 DEF Removing
    <3>2. index'[q] = index[q]
      BY <1>a, <2>2, <2>7
    <3>3. Level(q) => Level(q)'
      BY <2>2, <2>3, <2>4, <3>2 DEF Level
    <3>. QED BY <2>2, <2>6, <2>7, <3>1, <3>3 DEF Follows
  <2>8. ASSUME Ordered(p), ~overtaken' PROVE Follows(p)'
    <3>1. /\ \A v \in User : req[v].path = p => pc[v] # "write" /\ pc[v] # "index" /\ pc[v] # "unindex"
          /\ \A v \in Worker \ {w} : ~(task[v].path = p /\ task[v].step = "index")
      BY <2>2, <2>8 DEF Crosses, Busy
    <3>2. CASE disk[p] # NoNote
      <4>1. Rewritten(p)
        BY <2>1, <2>2, <2>8, <3>2 DEF Ordered
      <4>. QED BY <2>2, <2>4, <3>2, <4>1 DEF Follows, Reading
    <3>3. CASE disk[p] = NoNote
      <4>1. index'[p] = disk[p]
        BY <1>a, <2>2, <3>3
      <4>2. \A v \in Worker : ~(task'[v].path = p /\ task'[v].step = "index")
        BY <2>3, <3>1
      <4>3. \A v \in User : ~Meddles(v, p)'
        BY <2>4, <3>1 DEF Meddles
      <4>. QED BY <2>2, <4>1, <4>2, <4>3 DEF Follows, Level
    <3>. QED BY <3>2, <3>3
  <2>9. \A v \in Worker : task'[v].step = "unindex" => v = Loop
    BY <1>a, <2>3
  <2>10. ~overtaken' => ~overtaken
    BY <2>2
  <2>. QED BY <1>b, <2>2, <2>5, <2>7, <2>8, <2>9, <2>10
<1>11. CASE Take
  <2>1. UNCHANGED <<disk, index, missed, overtaken, pc, req>> /\ task[Loop].step = "idle"
    BY <1>11 DEF Take, vars, Busy
  <2>2. PICK e \in Event :
          /\ Len(events) \in Nat \ {0} /\ Len(events') = Len(events) - 1
          /\ e = events[1] /\ Handle(e)
          /\ \A i \in 1..Len(events') : events'[i] = events[i + 1]
    BY <1>11, TakeLeaves
  <2>3. e.path \in Path /\ (e.op = "create" \/ e.op = "write" \/ e.op = "remove")
    BY DEF Event
  <2>4. /\ \A v \in Worker : v # Loop => task'[v] = task[v]
        /\ task'[Loop] = task[Loop] \/ task'[Loop].path = e.path
        /\ e.op = "create" => task'[Loop].step = "read" /\ task'[Loop].path = e.path
        /\ e.op = "remove" => task'[Loop].step = "unindex" /\ task'[Loop].path = e.path
        /\ e.op = "write" => task'[Loop] = task[Loop]
    BY <1>d, <1>g, <2>2, <2>3 DEF Handle
  <2>5. \A q \in Path : Timed(writeTimer, q) => Timed(writeTimer, q)'
    BY <2>2, <2>3, WriteTimerSteps DEF Handle, Same, Timed
  <2>6. e.op = "write" => Timed(writeTimer, e.path)'
    BY <2>2, <2>3, WriteTimerSteps DEF Handle, Timed
  <2>7. \A i \in 1..Len(events) : i # 1 => i - 1 \in 1..Len(events') /\ events'[i - 1] = events[i]
    <3>. SUFFICES ASSUME NEW i \in 1..Len(events), i # 1
         PROVE i - 1 \in 1..Len(events') /\ events'[i - 1] = events[i]
      OBVIOUS
    <3>1. i - 1 \in 1..Len(events')
      BY <2>2
    <3>. QED BY <2>2, <3>1
  <2>8. ASSUME NEW q \in Path, Reading(q) PROVE Reading(q)'
    <3>1. ASSUME NEW i \in 1..Len(events), events[i].path = q, events[i].op # "remove"
          PROVE Reading(q)'
      <4>1. CASE i = 1
        BY <1>d, <2>2, <2>3, <2>4, <2>6, <3>1, <4>1 DEF Reading
      <4>2. CASE i # 1
        BY <2>7, <3>1, <4>2 DEF Reading, Rewritten
      <4>. QED BY <4>1, <4>2
    <3>2. CASE Timed(writeTimer, q)
      BY <2>5, <3>2 DEF Reading
    <3>3. ASSUME NEW w \in Worker, task[w].path = q,
                 \/ task[w].step = "fired" \/ task[w].step = "read"
                 \/ task[w].step = "index" /\ task[w].found = disk[q]
          PROVE Reading(q)'
      BY <2>1, <2>4, <3>3 DEF Reading
    <3>. QED BY <2>8, <3>1, <3>2, <3>3 DEF Reading, Rewritten
  <2>9. ASSUME NEW q \in Path, Removing(q) PROVE Removing(q)'
    <3>1. ASSUME NEW i \in 1..Len(events), events[i].path = q, events[i].op = "remove"
          PROVE Removing(q)'
      <4>1. CASE i = 1
        BY <1>d, <2>2, <2>4, <3>1, <4>1 DEF Removing
      <4>2. CASE i # 1
        BY <2>7, <3>1, <4>2 DEF Removing, Removed
      <4>. QED BY <4>1, <4>2
    <3>2. ASSUME NEW w \in Worker, task[w].path = q, task[w].step = "unindex"
          PROVE Removing(q)'
      BY <2>1, <2>4, <3>2 DEF Removing
    <3>. QED BY <2>9, <3>1, <3>2 DEF Removing, Removed
  <2>10. ASSUME NEW q \in Path, Trailed(q) PROVE Trailed(q)'
    <3>. SUFFICES ASSUME NEW i \in 1..Len(events'), events'[i].path = q, events'[i].op = "remove"
         PROVE \E j \in (i + 1)..Len(events') : events'[j].path = q /\ events'[j].op # "remove"
      BY DEF Trailed
    <3>1. i + 1 \in 1..Len(events) /\ events[i + 1] = events'[i]
      BY <2>2
    <3>2. PICK j \in ((i + 1) + 1)..Len(events) : events[j].path = q /\ events[j].op # "remove"
      BY <2>10, <3>1 DEF Trailed
    <3>3. j \in 1..Len(events) /\ j # 1 /\ j - 1 \in (i + 1)..Len(events')
      BY <2>2, <3>1, <3>2
    <3>4. events'[j - 1] = events[j]
      BY <2>7, <3>3
    <3>. QED BY <3>2, <3>3, <3>4
  <2>11. ASSUME NEW q \in Path, Trailed(q), NEW w \in Worker, task'[w].path = q, task'[w].step = "unindex"
         PROVE  Rewritten(q)'
    <3>1. w = Loop
      BY <1>a, <2>4, <2>11
    <3>2. e.op = "remove" /\ e.path = q
      BY <2>1, <2>3, <2>4, <2>11, <3>1
    <3>3. PICK j \in (1 + 1)..Len(events) : events[j].path = q /\ events[j].op # "remove"
      BY <2>2, <2>11, <3>2 DEF Trailed
    <3>4. j \in 1..Len(events) /\ j # 1
      BY <2>2, <3>3
    <3>. QED BY <2>7, <3>3, <3>4 DEF Rewritten
  <2>12. ASSUME NEW q \in Path, Level(q) PROVE Level(q)'
    <3>1. \A w \in Worker : ~(task'[w].path = q /\ task'[w].step = "index")
      BY <2>1, <2>3, <2>4, <2>12 DEF Level
    <3>. QED BY <2>1, <2>12, <3>1 DEF Level, Meddles
  <2>13. \A q \in Path : Ordered(q) => Ordered(q)'
    BY <2>1, <2>10, <2>11 DEF Ordered
  <2>14. \A q \in Path : Follows(q) => Follows(q)'
    BY <2>1, <2>8, <2>9, <2>12 DEF Follows
  <2>15. \A w \in Worker : task'[w].step = "unindex" => w = Loop
    BY <1>a, <2>4
  <2>. QED BY <1>b, <2>1, <2>13, <2>14, <2>15
<1>12. ASSUME NEW u \in User, ServeOn(u) \/ ServeFails(u) PROVE IndexOK'
  <2>1. PICK p \in Path :
         /\ p = req[u].path /\ UNCHANGED <<missed, watching, writeTimer, extTimer, task>>
         /\ pc[u] # "idle" /\ (~overtaken' => ~overtaken)
         /\ \A q \in Path \ {p} : disk'[q] = disk[q] /\ index'[q] = index[q]
         /\ \A v \in User \ {u} : req'[v] = req[v] /\ pc'[v] = pc[v]
         /\ \/ /\ UNCHANGED req
               /\ \E op \in {"create", "write", "remove"} :
                    Report(op, p) /\ (disk'[p] = NoNote <=> op = "remove")
            \/ /\ UNCHANGED <<disk, events, index>>
               /\ pc'[u] # "write" /\ pc'[u] # "index" /\ pc'[u] # "unindex"
            \/ UNCHANGED <<disk, events, index, req>> /\ pc[u] = "write"
            \/ UNCHANGED <<disk, events, req>> /\ pc[u] = "index" /\ pc'[u] = "record"
            \/ UNCHANGED <<disk, events, req>> /\ pc[u] = "unindex" /\ pc'[u] = "record" /\ index'[p] = NoNote
    BY <1>12, RequestIndexes
  <2>2. watching
    BY <2>1 DEF Listening
  <2>3. \A v \in User, q \in Path : q # p /\ Meddles(v, q)' => Meddles(v, q)
    BY <2>1 DEF Meddles
  <2>4. \A w \in Worker : task'[w].step = "unindex" => w = Loop
    BY <1>a, <2>1
  <2>5. ASSUME UNCHANGED req, NEW op \in {"create", "write", "remove"}, Report(op, p),
               disk'[p] = NoNote <=> op = "remove"
        PROVE  IndexOK'
    <3>1. /\ \A q \in Path : (Rewritten(q) => Rewritten(q)') /\ (Removed(q) => Removed(q)')
          /\ \A q \in Path : q # p /\ Trailed(q) => Trailed(q)'
          /\ op = "remove" => Removed(p)'
          /\ op # "remove" => Rewritten(p)' /\ Trailed(p)'
      BY <2>2, <2>5, ReportOrders
    <3>2. Ordered(p)' /\ Follows(p)'
      BY <2>5, <3>1 DEF Ordered, Follows, Reading, Removing
    <3>3. ASSUME NEW q \in Path, q # p
          PROVE  (Ordered(q) => Ordered(q)') /\ (Follows(q) => Follows(q)')
      <4>1. Ordered(q) => Ordered(q)'
        BY <2>1, <3>1, <3>3 DEF Ordered
      <4>2. Level(q) => Level(q)'
        BY <2>1, <2>3, <3>3 DEF Level
      <4>3. Reading(q) => Reading(q)'
        BY <2>1, <3>1, <3>3 DEF Reading, Timed
      <4>4. Removing(q) => Removing(q)'
        BY <2>1, <3>1, <3>3 DEF Removing
      <4>. QED BY <2>1, <3>3, <4>1, <4>2, <4>3, <4>4 DEF Follows
    <3>. QED BY <1>b, <2>1, <2>4, <3>2, <3>3
  <2>6. ASSUME UNCHANGED <<disk, events>>,
               Level(p) => Level(p)' \/ (disk[p] = NoNote /\ Removing(p))
        PROVE  IndexOK'
    <3>1. \A q \in Path : /\ Rewritten(q)' <=> Rewritten(q)
                          /\ Removed(q)' <=> Removed(q)
                          /\ Trailed(q)' <=> Trailed(q)
                          /\ Timed(writeTimer, q)' <=> Timed(writeTimer, q)
      BY <2>1, <2>6 DEF Rewritten, Removed, Trailed, Timed
    <3>2. \A q \in Path : /\ Ordered(q) => Ordered(q)'
                          /\ Reading(q) => Reading(q)'
                          /\ Removing(q) => Removing(q)'
      BY <2>1, <2>6, <3>1 DEF Ordered, Reading, Removing
    <3>3. \A q \in Path : q # p /\ Level(q) => Level(q)'
      BY <2>1, <2>3, <2>6 DEF Level
    <3>4. \A q \in Path : Follows(q) => Follows(q)'
      BY <2>6, <3>2, <3>3 DEF Follows
    <3>. QED BY <1>b, <2>1, <2>4, <3>2, <3>4
  <2>7. ASSUME UNCHANGED <<disk, events, index>>, pc'[u] # "write", pc'[u] # "index", pc'[u] # "unindex"
        PROVE  IndexOK'
    <3>1. \A v \in User : Meddles(v, p)' => Meddles(v, p)
      BY <2>1, <2>7 DEF Meddles
    <3>2. Level(p) => Level(p)'
      BY <2>1, <2>7, <3>1 DEF Level
    <3>. QED BY <2>6, <2>7, <3>2
  <2>8. ASSUME UNCHANGED <<disk, events, index, req>>, pc[u] = "write"
        PROVE  IndexOK'
    <3>1. ~Level(p)
      BY <2>1, <2>8 DEF Level, Meddles
    <3>. QED BY <2>6, <2>8, <3>1
  <2>9. ASSUME UNCHANGED <<disk, events, req>>, pc[u] = "index"
        PROVE  IndexOK'
    <3>1. ~Level(p)
      BY <2>1, <2>9 DEF Level, Meddles
    <3>. QED BY <2>6, <2>9, <3>1
  <2>10. ASSUME UNCHANGED <<disk, events, req>>, pc[u] = "unindex", pc'[u] = "record", index'[p] = NoNote
        PROVE  IndexOK'
    <3>1. Level(p) => disk[p] = NoNote
      BY <2>1, <2>10 DEF Level, Meddles
    <3>2. \A v \in User : Meddles(v, p)' => Meddles(v, p)
      BY <2>1, <2>10 DEF Meddles
    <3>3. Level(p) => Level(p)'
      BY <2>1, <2>10, <3>1, <3>2 DEF Level
    <3>. QED BY <2>6, <2>10, <3>3
  <2>. QED BY <2>1, <2>5, <2>7, <2>8, <2>9, <2>10
<1>13. ASSUME NEW p \in Path, EditSeen(p) PROVE IndexOK'
  <2>1. /\ UNCHANGED <<index, pc, req, writeTimer, task, overtaken>>
        /\ \A q \in Path \ {p} : disk'[q] = disk[q]
        /\ missed' = (missed \/ ~watching)
    BY <1>13, <1>a DEF EditSeen, Edit
  <2>2. PICK op \in {"create", "write", "remove"} : Report(op, p) /\ (disk'[p] = NoNote <=> op = "remove")
    BY <1>13 DEF EditSeen
  <2>3. \A w \in Worker : task'[w].step = "unindex" => w = Loop
    BY <1>a, <2>1
  <2>4. CASE ~watching
    BY <2>1, <2>3, <2>4 DEF IndexOK
  <2>5. CASE watching
    <3>1. /\ \A q \in Path : (Rewritten(q) => Rewritten(q)') /\ (Removed(q) => Removed(q)')
          /\ \A q \in Path : q # p /\ Trailed(q) => Trailed(q)'
          /\ op = "remove" => Removed(p)'
          /\ op # "remove" => Rewritten(p)' /\ Trailed(p)'
      BY <2>2, <2>5, ReportOrders
    <3>2. Ordered(p)' /\ Follows(p)'
      BY <2>2, <3>1 DEF Ordered, Follows, Reading, Removing
    <3>3. ASSUME NEW q \in Path, q # p
          PROVE  (Ordered(q) => Ordered(q)') /\ (Follows(q) => Follows(q)')
      <4>1. Ordered(q) => Ordered(q)'
        BY <2>1, <3>1, <3>3 DEF Ordered
      <4>2. Level(q) => Level(q)'
        BY <2>1, <3>3 DEF Level, Meddles
      <4>3. Reading(q) => Reading(q)'
        BY <2>1, <3>1, <3>3 DEF Reading, Timed
      <4>4. Removing(q) => Removing(q)'
        BY <2>1, <3>1, <3>3 DEF Removing
      <4>. QED BY <2>1, <3>3, <4>1, <4>2, <4>3, <4>4 DEF Follows
    <3>. QED BY <1>b, <2>1, <2>3, <3>2, <3>3
  <2>. QED BY <2>4, <2>5
<1>. QED
  <2>1. CASE SyncNext
    <3>1. \/ StartWatcher \/ Take
          \/ \E w \in Callback : Expire(w)
          \/ \E w \in Worker : Work(w) \/ ExternalFails(w)
          \/ \E u \in User : Serve(u) \/ ServeFails(u) \/ Lock(u) \/ ServeOn(u)
          \/ \E p \in Path : EditSeen(p)
      BY <2>1 DEF SyncNext
    <3>2. ASSUME NEW w \in Callback, Expire(w) PROVE IndexOK'
      BY <1>5, <1>6, <3>2 DEF Expire
    <3>3. ASSUME NEW w \in Worker, Work(w) \/ ExternalFails(w) PROVE IndexOK'
      BY <1>3, <1>7, <1>8, <1>9, <1>10, <3>3 DEF Work
    <3>. QED BY <1>1, <1>2, <1>11, <1>12, <1>13, <3>1, <3>2, <3>3
  <2>. QED BY <1>1, <2>1

LEMMA IndexInit == SyncInit => IndexOK
<1>. SUFFICES ASSUME SyncInit PROVE IndexOK
  OBVIOUS
<1>1. /\ index = disk /\ events = << >> /\ \A u \in User : pc[u] = "idle"
      /\ \A w \in Worker : task[w].step = "idle"
  BY DEF SyncInit, Init
<1>2. \A p \in Path : Level(p)
  BY <1>1 DEF Level, Meddles
<1>3. \A i : i \notin 1..Len(events)
  BY <1>1
<1>4. \A p \in Path : Ordered(p)
  BY <1>1, <1>3 DEF Ordered, Trailed
<1>. QED
  BY <1>1, <1>2, <1>4 DEF IndexOK, Follows

\* The watcher reconciles concurrent writers, last write wins (ADR-0002;
\* core/service.go HandleFSEvent, filesystem/watcher.go): when nothing is
\* reported, timed or in progress, the indexes hold the vault, for any number of
\* users, notes, edits and goroutines, unless two updates of one note crossed or a
\* change came before the watcher.
THEOREM IndexFollows == SyncSpec => []IndexConverges
<1>1. /\ SyncTypeOK /\ Listening /\ [SyncNext]_allVars => Listening'
      /\ SyncTypeOK /\ Listening /\ IndexOK /\ [SyncNext]_allVars => IndexOK'
  BY ListeningStep, IndexStep
<1>2. SyncTypeOK /\ IndexOK => IndexConverges
  <2>. SUFFICES ASSUME SyncTypeOK, IndexOK, Quiet, ~missed, ~overtaken PROVE index = disk
    BY DEF IndexConverges
  <2>1. \A p \in Path : ~Reading(p) /\ ~Removing(p)
    BY DEF Quiet, Settled, Reading, Removing, Rewritten, Removed, Timed, Busy
  <2>2. \A p \in Path : index[p] = disk[p]
    BY <2>1 DEF IndexOK, Follows, Level
  <2>. QED BY <2>2 DEF SyncTypeOK, TypeOK
<1>. QED
  BY <1>1, <1>2, RecordInit, IndexInit, SyncTypesHold, PTL DEF SyncSpec
============================================================================
