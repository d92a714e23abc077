------------------------------ MODULE VaultSync ------------------------------
(***************************************************************************)
(* How the indexes and the history follow a vault that other programs      *)
(* change too: the watcher (packages/filesystem/watcher.go) queues what    *)
(* the operating system reports, its loop handles creations and removals   *)
(* itself and debounces writes with a timer per path, and HandleFSEvent    *)
(* (packages/core/service.go) indexes the note and debounces its revision  *)
(* with a second timer.  A timer that fires runs in a goroutine of its     *)
(* own.  The requests are those of NoteService, which this module extends. *)
(***************************************************************************)
EXTENDS NoteService

CONSTANTS
  Loop,       \* the watcher's event loop
  Callback    \* goroutines of timers that fired

ASSUME SyncAssumption == Loop \notin Callback

Worker == {Loop} \cup Callback

VARIABLES
  watching,    \* whether the watcher has started
  events,      \* what the operating system has reported, oldest first
  writeTimer,  \* the watcher's timer of each path
  extTimer,    \* the service's timer of each path
  task,        \* task[w]: what w is doing
  missed,      \* a change came before the watcher had started
  overtaken    \* an index update ran into another one of the same note

syncVars == <<watching, events, writeTimer, extTimer, task>>
allVars == <<vars, syncVars, missed, overtaken>>

\* A timer of a map: entry is what the map holds for the path; orphans are armed
\* timers that are in the map no more.
Timer == [entry: {"none", "armed", "fired"}, orphans: Nat]

NoTimer == [entry |-> "none", orphans |-> 0]

Task == [step: {"idle", "fired", "read", "index", "arm", "unindex", "expired", "record"},
         path: Path, found: Note, action: {"save", "delete"}]

SyncTypeOK ==
  /\ TypeOK
  /\ watching \in BOOLEAN /\ missed \in BOOLEAN /\ overtaken \in BOOLEAN
  /\ events \in Seq([op: {"create", "write", "remove"}, path: Path])
  /\ writeTimer \in [Path -> Timer] /\ extTimer \in [Path -> Timer]
  /\ task \in [Worker -> Task]

\* main: ReindexAll has returned, the watcher has not been started.
SyncInit ==
  /\ Init
  /\ watching = FALSE /\ events = << >>
  /\ writeTimer = [p \in Path |-> NoTimer] /\ extTimer = [p \in Path |-> NoTimer]
  /\ task = [w \in Worker |-> [step |-> "idle", path |-> Names[1], found |-> NoNote,
                               action |-> "save"]]
  /\ missed = FALSE /\ overtaken = FALSE

-----------------------------------------------------------------------------
(* Helpers *)

Busy(w, step) == task[w].step = step

To(w, step) == task' = [task EXCEPT ![w].step = step]

Idle(w) == task' = [task EXCEPT ![w].step = "idle", ![w].found = NoNote, ![w].action = "save"]

\* Starts a task; a goroutine is any that does nothing.
Run(w, step, p, action) ==
  /\ Busy(w, "idle")
  /\ task' = [task EXCEPT ![w] = [step |-> step, path |-> p, found |-> NoNote,
                                  action |-> action]]

\* The operating system reports op on p, if the directory is watched.
Report(op, p) ==
  events' = IF watching THEN Append(events, [op |-> op, path |-> p]) ELSE events

\* AfterFunc for a path without an entry, Reset for one with an entry; a Reset
\* of a timer that has fired arms it again.
Arm(timer, p) == timer' = [timer EXCEPT ![p].entry = "armed"]

\* The timer of the entry fires, or an orphan does.
Fire(timer, p) ==
  \/ timer[p].entry = "armed" /\ timer' = [timer EXCEPT ![p].entry = "fired"]
  \/ timer[p].orphans > 0 /\ timer' = [timer EXCEPT ![p].orphans = @ - 1]

\* The callback takes the path's entry out of the map, whosever it is by now.
Forget(timer, p) ==
  timer' = [timer EXCEPT ![p] =
    [entry |-> "none",
     orphans |-> IF @.entry = "armed" THEN @.orphans + 1 ELSE @.orphans]]

\* w updates p's index while somebody else has read or written the note and not
\* yet updated the index.
Crosses(w, p) ==
  \/ \E u \in User : req[u].path = p /\ pc[u] \in {"write", "index", "unindex"}
  \/ \E v \in Worker \ {w} : task[v].path = p /\ Busy(v, "index")

-----------------------------------------------------------------------------
(* The watcher *)

StartWatcher ==
  /\ ~watching /\ watching' = TRUE
  /\ UNCHANGED <<vars, events, writeTimer, extTimer, task, missed, overtaken>>

\* A slip: a new file is left to its write events; one put in place has none.
HandleWrites(e) ==
  \/ /\ e.op = "create"
     /\ UNCHANGED <<task, writeTimer>>
  \/ /\ e.op = "remove" /\ Run(Loop, "unindex", e.path, "delete")
     /\ UNCHANGED writeTimer
  \/ /\ e.op = "write" /\ Arm(writeTimer, e.path)
     /\ UNCHANGED task

\* A slip: the revision is named as the event is.
HandleByName(e) ==
  \/ /\ e.op \in {"create", "remove"}
     /\ Run(Loop, IF e.op = "remove" THEN "unindex" ELSE "read", e.path, e.op)
     /\ UNCHANGED writeTimer
  \/ /\ e.op = "write" /\ Arm(writeTimer, e.path)
     /\ UNCHANGED task

\* Creations and removals are handled at once, a write only sets its timer.
Handle(e) ==
  \/ /\ e.op = "create" /\ Run(Loop, "read", e.path, "save")
     /\ UNCHANGED writeTimer
  \/ /\ e.op = "remove" /\ Run(Loop, "unindex", e.path, "delete")
     /\ UNCHANGED writeTimer
  \/ /\ e.op = "write" /\ Arm(writeTimer, e.path)
     /\ UNCHANGED task

\* The loop takes the next event.
Take ==
  /\ Busy(Loop, "idle") /\ events # << >>
  /\ Handle(Head(events))
  /\ events' = Tail(events)
  /\ UNCHANGED <<vars, watching, extTimer, missed, overtaken>>

\* No write for 250 ms.
WriteSettles(w) ==
  /\ \E p \in Path : Fire(writeTimer, p) /\ Run(w, "fired", p, "save")
  /\ UNCHANGED <<vars, watching, events, extTimer, missed, overtaken>>

EmitWrite(w) ==
  /\ Busy(w, "fired") /\ To(w, "read")
  /\ Forget(writeTimer, task[w].path)
  /\ UNCHANGED <<vars, watching, events, extTimer, missed, overtaken>>

-----------------------------------------------------------------------------
(* HandleFSEvent *)

\* A note that cannot be read is not indexed, but still recorded.
ReadChanged(w) ==
  /\ Busy(w, "read")
  /\ LET now == disk[task[w].path] IN
       task' = [task EXCEPT ![w].found = now,
                            ![w].step = IF now = NoNote THEN "arm" ELSE "index"]
  /\ UNCHANGED <<vars, watching, events, writeTimer, extTimer, missed, overtaken>>

IndexChanged(w) ==
  LET p == task[w].path IN
  /\ Busy(w, "index") /\ To(w, "arm")
  /\ index' = [index EXCEPT ![p] = task[w].found]
  /\ overtaken' = (overtaken \/ Crosses(w, p))
  /\ UNCHANGED <<disk, revs, trash, lock, pc, req, seen, outcome, bounds,
                 watching, events, writeTimer, extTimer, missed>>

\* recordExternalDebounced, with history on.
ArmExternal(w) ==
  /\ Busy(w, "arm") /\ Idle(w)
  /\ Arm(extTimer, task[w].path)
  /\ UNCHANGED <<vars, watching, events, writeTimer, missed, overtaken>>

\* A slip: a removal leaves the index and is not recorded.
UnindexUnrecorded(w) ==
  LET p == task[w].path IN
  /\ Busy(w, "unindex") /\ Idle(w)
  /\ index' = [index EXCEPT ![p] = NoNote]
  /\ overtaken' = (overtaken \/ Crosses(w, p))
  /\ UNCHANGED <<disk, revs, trash, lock, pc, req, seen, outcome, bounds,
                 watching, events, writeTimer, extTimer, missed>>

UnindexRemoved(w) ==
  LET p == task[w].path IN
  /\ Busy(w, "unindex") /\ To(w, "record")
  /\ index' = [index EXCEPT ![p] = NoNote]
  /\ overtaken' = (overtaken \/ Crosses(w, p))
  /\ UNCHANGED <<disk, revs, trash, lock, pc, req, seen, outcome, bounds,
                 watching, events, writeTimer, extTimer, missed>>

\* The debounce is over.
ExternalSettles(w) ==
  /\ \E p \in Path : Fire(extTimer, p) /\ Run(w, "expired", p, "save")
  /\ UNCHANGED <<vars, watching, events, writeTimer, missed, overtaken>>

\* A slip: the timer is a ticker.
KeepExternal(w) ==
  /\ Busy(w, "expired") /\ To(w, "record")
  /\ Arm(extTimer, task[w].path)
  /\ UNCHANGED <<vars, watching, events, writeTimer, missed, overtaken>>

ForgetExternal(w) ==
  /\ Busy(w, "expired") /\ To(w, "record")
  /\ Forget(extTimer, task[w].path)
  /\ UNCHANGED <<vars, watching, events, writeTimer, missed, overtaken>>

RecordExternal(w) ==
  LET p == task[w].path IN
  /\ Busy(w, "record") /\ Idle(w)
  /\ H!Record(External, p, task[w].action, disk[p])
  /\ UNCHANGED <<disk, index, lock, pc, req, seen, outcome, bounds,
                 watching, events, writeTimer, extTimer, missed, overtaken>>

\* A failed commit is logged and otherwise ignored.
ExternalFails(w) ==
  /\ Busy(w, "record") /\ Idle(w)
  /\ faults < MaxFaults /\ faults' = faults + 1
  /\ UNCHANGED <<disk, index, revs, trash, lock, pc, req, seen, outcome, requests, edits,
                 watching, events, writeTimer, extTimer, missed, overtaken>>

-----------------------------------------------------------------------------
(* Requests and other programs, as the operating system reports them.      *)

\* The server listens after the watcher has started.
Serve(u) ==
  /\ watching
  /\ Begin(u) \/ RecordFails(u)
  /\ UNCHANGED <<syncVars, missed, overtaken>>

\* The piece that was written is reported as a write is.
ServeFails(u) ==
  /\ watching
  /\ WriteFails(u)
  /\ IF disk' = disk THEN UNCHANGED events ELSE Report("write", req[u].path)
  /\ UNCHANGED <<watching, writeTimer, extTimer, task, missed, overtaken>>

Lock(u) == Acquire(u) /\ UNCHANGED <<syncVars, missed, overtaken>>

ServeOn(u) ==
  LET p == req[u].path
      there == disk[p] # NoNote
  IN /\ UNCHANGED <<watching, writeTimer, extTimer, task, missed>>
     /\ \/ Truncate(u) /\ Report(IF there THEN "write" ELSE "create", p) /\ UNCHANGED overtaken
        \/ Write(u) /\ Report("write", p) /\ UNCHANGED overtaken
        \/ /\ RemoveFile(u)
           /\ IF there THEN Report("remove", p) ELSE UNCHANGED events
           /\ UNCHANGED overtaken
        \/ /\ IndexNote(u) \/ Unindex(u)
           /\ overtaken' = (overtaken \/ \E w \in Worker : task[w].path = p /\ Busy(w, "index"))
           /\ UNCHANGED events
        \/ /\ \/ Probe(u) \/ CheckExists(u) \/ CompareSave(u) \/ CompareRestore(u)
              \/ SnapshotEdits(u) \/ WriteLost(u) \/ RecordRevision(u)
           /\ UNCHANGED <<events, overtaken>>

\* Another program writes a file, puts a new one in its place, or removes it.
EditSeen(p) ==
  /\ Edit(p)
  /\ \/ disk'[p] # NoNote /\ Report("create", p)
     \/ disk'[p] # NoNote /\ disk[p] # NoNote /\ Report("write", p)
     \/ disk'[p] = NoNote /\ Report("remove", p)
  /\ missed' = (missed \/ ~watching)
  /\ UNCHANGED <<watching, writeTimer, extTimer, task, overtaken>>

-----------------------------------------------------------------------------
Work(w) ==
  \/ EmitWrite(w) \/ ReadChanged(w) \/ IndexChanged(w) \/ ArmExternal(w)
  \/ UnindexRemoved(w) \/ ForgetExternal(w) \/ RecordExternal(w)

Expire(w) == WriteSettles(w) \/ ExternalSettles(w)

SyncNext ==
  \/ StartWatcher \/ Take
  \/ \E w \in Callback : Expire(w)
  \/ \E w \in Worker : Work(w) \/ ExternalFails(w)
  \/ \E u \in User : Serve(u) \/ ServeFails(u) \/ Lock(u) \/ ServeOn(u)
  \/ \E p \in Path : EditSeen(p)

SyncSpec == SyncInit /\ [][SyncNext]_allVars

\* The loop and every goroutine run, armed timers expire, and a request whose
\* path lock is free gets it (see NoteService).
SyncFairness ==
  /\ WF_allVars(StartWatcher) /\ WF_allVars(Take)
  /\ \A w \in Callback : WF_allVars(Expire(w))
  /\ \A w \in Worker : WF_allVars(Work(w))
  /\ \A u \in User : WF_allVars(ServeOn(u)) /\ SF_allVars(Lock(u))

FairSyncSpec == SyncSpec /\ SyncFairness

-----------------------------------------------------------------------------
(* What must hold *)

Settled(timer) == \A p \in Path : timer[p].entry # "armed" /\ timer[p].orphans = 0

\* Nothing is reported, timed or in progress.
Quiet ==
  /\ watching /\ events = << >>
  /\ Settled(writeTimer) /\ Settled(extTimer)
  /\ \A w \in Worker : Busy(w, "idle")
  /\ \A u \in User : At(u, "idle")

\* The indexes are "updated incrementally from watcher events" and "concurrent
\* writers (user + Obsidian) are reconciled by the watcher: last write wins"
\* (ADR-0002): when all is quiet, they hold what was written last, whatever the
\* order of events, timers and requests, unless two updates of one note's index
\* crossed ("overtaken"): then nothing is left that would repair it.
IndexConverges == Quiet /\ ~missed /\ ~overtaken => index = disk

\* Direct edits reach the history (plans/01, acceptance 5), crossed updates or
\* not: a timer or a removal records every note after its last change.
HistoryConverges ==
  Quiet /\ ~missed /\ faults = 0 => \A p \in Path : H!Latest(p) = disk[p]

\* The service comes to rest after every change: no timer is armed for ever, no
\* report of the service's own writes makes it write again, and no goroutine
\* waits for another for good.
SettlesDown == <>[]Quiet
=============================================================================
