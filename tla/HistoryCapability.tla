-------------------------- MODULE HistoryCapability --------------------------
(***************************************************************************)
(* History as a capability that is switched at runtime: an administrator's *)
(* toggle (api/admin.go) stores the wanted state, the plugin manager       *)
(* (plugins/manager.go) starts or stops the git-history plugin, and that   *)
(* attaches its backend to the note service or detaches it.  The note      *)
(* service guards the attached backend with an RWMutex, historyMu, which   *)
(* its requests take for reading, some of them under the lock of a note.   *)
(*                                                                         *)
(* One note, so one path lock; what requests do to it is in NoteService.   *)
(* The RWMutex is Go's: a writer that waits keeps new readers out, and a   *)
(* reader does not know that it is one already.                            *)
(***************************************************************************)
EXTENDS Naturals, FiniteSets

CONSTANTS
  User, Admin,  \* goroutines: requests and timers, toggles
  None,         \* nobody, no backend
  Backend,      \* history backends; every activation opens a new one
  Op,           \* what users do, a subset of Ops
  MaxFailures,  \* bound: backends that fail to open
  MaxUnsaved    \* bound: wanted states that cannot be saved

Ops == {"save", "record", "restore", "trash"}

ASSUME CapabilityAssumption ==
  /\ None \notin User \cup Admin \cup Backend
  /\ User \cap Admin = {}
  /\ Op \subseteq Ops
  /\ MaxFailures \in Nat /\ MaxUnsaved \in Nat

VARIABLES
  attached,   \* NoteService.history
  readers,    \* readers[u]: how often u holds historyMu for reading
  writer,     \* who waits for historyMu, or None; new readers wait for it
  pathLock,   \* who holds the lock of the note
  pc, op,     \* where u is, and in what
  records,    \* records[u]: revisions u's request has yet to record
  backend,    \* backend[u]: the backend u's call goes to
  stored,     \* the persisted state of the plugin
  active,     \* whether the manager has started it
  plugin,     \* the backend the plugin keeps
  lifecycle,  \* who holds the manager's mutex
  apc, was,   \* where an administrator's toggle is, and the state it found
  kind, goal, \* what a's toggle is for, and the state it brings about now
  failures, unsaved

notes == <<attached, readers, writer, pathLock>>
users == <<pc, op, records, backend>>
admins == <<stored, active, plugin, lifecycle, apc, was, kind, goal, failures, unsaved>>
vars == <<notes, users, admins>>

\* Settings restart a running plugin; a restart that failed is retried once.
Kinds == {"on", "off", "restart", "retry"}

TypeOK ==
  /\ attached \in Backend \cup {None} /\ plugin \in Backend \cup {None}
  /\ readers \in [User -> 0..2]
  /\ writer \in Admin \cup {None} /\ lifecycle \in Admin \cup {None}
  /\ pathLock \in User \cup {None}
  /\ pc \in [User -> {"idle", "enter", "path", "record", "recording", "peek", "using"}]
  /\ op \in [User -> Ops]
  /\ records \in [User -> 0..2]
  /\ backend \in [User -> Backend \cup {None}]
  /\ stored \in BOOLEAN /\ active \in BOOLEAN
  /\ apc \in [Admin -> {"idle", "store", "manager", "open", "announce",
                        "exclusive", "rollback"}]
  /\ was \in [Admin -> BOOLEAN]
  /\ kind \in [Admin -> Kinds] /\ goal \in [Admin -> BOOLEAN]
  /\ failures \in 0..MaxFailures /\ unsaved \in 0..MaxUnsaved

Init ==
  /\ attached = None /\ plugin = None /\ stored = FALSE /\ active = FALSE
  /\ readers = [u \in User |-> 0]
  /\ writer = None /\ lifecycle = None /\ pathLock = None
  /\ pc = [u \in User |-> "idle"] /\ op = [u \in User |-> "save"]
  /\ records = [u \in User |-> 0] /\ backend = [u \in User |-> None]
  /\ apc = [a \in Admin |-> "idle"] /\ was = [a \in Admin |-> FALSE]
  /\ kind = [a \in Admin |-> "on"] /\ goal = [a \in Admin |-> FALSE]
  /\ failures = 0 /\ unsaved = 0

-----------------------------------------------------------------------------
(* Requests *)

Goto(u, from, to) == pc[u] = from /\ pc' = [pc EXCEPT ![u] = to]

RLock(u) == writer = None /\ readers' = [readers EXCEPT ![u] = @ + 1]

\* u's call returns: what it holds is given back.
Return(u, from) ==
  /\ Goto(u, from, "idle")
  /\ readers' = [readers EXCEPT ![u] = 0]
  /\ pathLock' = IF pathLock = u THEN None ELSE pathLock
  /\ records' = [records EXCEPT ![u] = 0]
  /\ backend' = [backend EXCEPT ![u] = None]

\* SaveNote and DeleteNote take the path lock and record one revision; timers,
\* the watcher and CreateNote record without it; RestoreNote holds historyMu
\* and the path lock and records one revision or two; trash calls and a save in
\* conflict only look the backend up.
Begin(u) ==
  \E o \in Op :
    /\ Goto(u, "idle", CASE o = "save" -> "path" [] o = "record" -> "record"
                         [] o = "restore" -> "enter" [] o = "trash" -> "peek")
    /\ op' = [op EXCEPT ![u] = o]
    /\ \E n \in IF o = "restore" THEN {1, 2} ELSE {1} : records' = [records EXCEPT ![u] = n]
    /\ UNCHANGED <<notes, backend, admins>>

\* A slip: a restore from the trash keeps historyMu from its look at the trash.
EnterRestoreHeld(u) ==
  /\ attached # None /\ writer = None
  /\ readers' = [readers EXCEPT ![u] = @ + 2]
  /\ Goto(u, "enter", "path")
  /\ UNCHANGED <<attached, writer, pathLock, op, records, backend, admins>>

\* RestoreNote takes historyMu for the whole request ...
EnterRestore(u) ==
  /\ pc[u] = "enter"
  /\ \/ /\ attached # None /\ RLock(u)
        /\ Goto(u, "enter", "path")
        /\ UNCHANGED <<attached, writer, pathLock, op, records, backend, admins>>
     \/ /\ attached = None /\ writer = None
        /\ Return(u, "enter")
        /\ UNCHANGED <<attached, writer, op, admins>>

\* The note is the request's now.  It changes the note and records that, or
\* finds a conflict, or returns early: nothing to restore, a failed write.
LockPath(u) ==
  /\ pathLock = None /\ pathLock' = u
  /\ \/ Goto(u, "path", "record")
     \/ op[u] = "save" /\ Goto(u, "path", "peek")
     \/ Goto(u, "path", "using")
  /\ UNCHANGED <<attached, readers, writer, op, records, backend, admins>>

\* A slip: the backend is read under historyMu, and used after.
EnterRecordUnlocked(u) ==
  /\ Goto(u, "record", "recording")
  /\ writer = None /\ UNCHANGED readers
  /\ backend' = [backend EXCEPT ![u] = attached]
  /\ UNCHANGED <<attached, writer, pathLock, op, records, admins>>

\* ... and every revision is recorded under historyMu again.
EnterRecord(u) ==
  /\ Goto(u, "record", "recording")
  /\ RLock(u)
  /\ backend' = [backend EXCEPT ![u] = attached]
  /\ UNCHANGED <<attached, writer, pathLock, op, records, admins>>

\* Record returned (at once when no backend was attached), and RestoreNote
\* goes on, unless its write fails, to record what it has written.
Recorded(u) ==
  \/ /\ records[u] > 1
     /\ Goto(u, "recording", "record")
     /\ records' = [records EXCEPT ![u] = @ - 1]
     /\ readers' = [readers EXCEPT ![u] = @ - 1]
     /\ backend' = [backend EXCEPT ![u] = None]
     /\ UNCHANGED <<attached, writer, pathLock, op, admins>>
  \/ /\ Return(u, "recording")
     /\ UNCHANGED <<attached, writer, op, admins>>

\* History() gives the backend out; the caller uses it without historyMu.
Peek(u) ==
  /\ Goto(u, "peek", "using")
  /\ writer = None
  /\ backend' = [backend EXCEPT ![u] = attached]
  /\ UNCHANGED <<notes, op, records, admins>>

Used(u) ==
  /\ Return(u, "using")
  /\ UNCHANGED <<attached, writer, op, admins>>

-----------------------------------------------------------------------------
(* Toggles *)

AGoto(a, from, to) == apc[a] = from /\ apc' = [apc EXCEPT ![a] = to]

\* handleAdminSetPlugin with a state, or with settings only.
Toggle(a) ==
  \E k \in {"on", "off", "restart"} :
    /\ AGoto(a, "idle", IF k = "restart" THEN "manager" ELSE "store")
    /\ was' = [was EXCEPT ![a] = stored]
    /\ kind' = [kind EXCEPT ![a] = k]
    /\ goal' = [goal EXCEPT ![a] = (k = "on")]
    /\ UNCHANGED <<notes, users, stored, active, plugin, lifecycle, failures, unsaved>>

\* SetPluginEnabled changes the state in memory and saves it; when it cannot
\* be saved the toggle ends there.
Store(a) ==
  /\ AGoto(a, "store", "manager")
  /\ stored' = goal[a]
  /\ UNCHANGED <<notes, users, active, plugin, lifecycle, was, kind, goal, failures, unsaved>>

StoreFails(a) ==
  /\ AGoto(a, "store", "idle")
  /\ stored' = goal[a]
  /\ unsaved < MaxUnsaved /\ unsaved' = unsaved + 1
  /\ UNCHANGED <<notes, users, active, plugin, lifecycle, was, kind, goal, failures>>

\* SetEnabled and Restart: nothing to do when the plugin is in the wanted
\* state, or should be restarted and does not run.
EnterManager(a) ==
  /\ lifecycle = None
  /\ \/ /\ active = goal[a]
        /\ AGoto(a, "manager", "idle")
        /\ UNCHANGED lifecycle
     \/ /\ active # goal[a]
        /\ AGoto(a, "manager", IF goal[a] THEN "open" ELSE "announce")
        /\ lifecycle' = a
  /\ UNCHANGED <<notes, users, stored, active, plugin, was, kind, goal, failures, unsaved>>

\* Enable opens a backend nobody has yet ...
OpenBackend(a) ==
  /\ AGoto(a, "open", "announce")
  /\ \E b \in Backend \ ({attached} \cup {backend[u] : u \in User}) : plugin' = b
  /\ UNCHANGED <<notes, users, stored, active, lifecycle, was, kind, goal, failures, unsaved>>

\* A slip: the failed activation returns with the manager's mutex held.
OpenFailsLocked(a) ==
  /\ failures < MaxFailures /\ failures' = failures + 1
  /\ AGoto(a, "open", "idle")
  /\ UNCHANGED <<notes, users, stored, active, plugin, lifecycle, was, kind, goal, unsaved>>

\* A slip: a failed activation leaves the stored state.
OpenFailsKeepsStored(a) ==
  /\ failures < MaxFailures /\ failures' = failures + 1
  /\ AGoto(a, "open", "idle")
  /\ lifecycle' = None
  /\ UNCHANGED <<notes, users, stored, active, plugin, was, kind, goal, unsaved>>

\* ... and can fail.  Then a toggle puts the stored state back, a restart
\* starts the plugin once more if it was to run, whatever comes of that.
OpenFails(a) ==
  /\ failures < MaxFailures /\ failures' = failures + 1
  /\ lifecycle' = None
  /\ \/ kind[a] = "on" /\ AGoto(a, "open", "rollback") /\ UNCHANGED kind
     \/ /\ kind[a] = "restart" /\ was[a]
        /\ AGoto(a, "open", "manager")
        /\ kind' = [kind EXCEPT ![a] = "retry"]
     \/ /\ kind[a] = "retry" \/ (kind[a] = "restart" /\ ~was[a])
        /\ AGoto(a, "open", "idle") /\ UNCHANGED kind
  /\ UNCHANGED <<notes, users, stored, active, plugin, was, goal, unsaved>>

Rollback(a) ==
  /\ AGoto(a, "rollback", "idle")
  /\ stored' = was[a]
  /\ UNCHANGED <<notes, users, active, plugin, lifecycle, was, kind, goal, failures, unsaved>>

\* SetHistory and DetachHistory lock historyMu: new readers wait from here on,
Announce(a) ==
  /\ AGoto(a, "announce", "exclusive")
  /\ writer = None /\ writer' = a
  /\ UNCHANGED <<attached, readers, pathLock, users, stored, active, plugin,
                 lifecycle, was, kind, goal, failures, unsaved>>

\* and the change is made when the readers there were have left.  Detaching
\* spares a backend that is not the plugin's.  A restart goes on to start it.
Exclusive(a) ==
  /\ \A u \in User : readers[u] = 0
  /\ writer = a /\ writer' = None
  /\ active' = goal[a]
  /\ \/ /\ goal[a]
        /\ attached' = plugin
        /\ UNCHANGED plugin
     \/ /\ ~goal[a]
        /\ attached' = IF attached = plugin THEN None ELSE attached
        /\ plugin' = None
  /\ \/ /\ kind[a] = "restart" /\ ~goal[a]
        /\ AGoto(a, "exclusive", "open")
        /\ goal' = [goal EXCEPT ![a] = TRUE]
        /\ UNCHANGED lifecycle
     \/ /\ kind[a] # "restart" \/ goal[a]
        /\ AGoto(a, "exclusive", "idle")
        /\ lifecycle' = None
        /\ UNCHANGED goal
  /\ UNCHANGED <<readers, pathLock, users, stored, was, kind, failures, unsaved>>

-----------------------------------------------------------------------------
\* Steps that wait for a lock, and steps that do not.
Wait(u) == EnterRestore(u) \/ LockPath(u) \/ EnterRecord(u) \/ Peek(u)
Go(u) == Recorded(u) \/ Used(u)
AWait(a) == EnterManager(a) \/ Announce(a)
AGo(a) == Store(a) \/ StoreFails(a) \/ OpenBackend(a) \/ OpenFails(a) \/ Rollback(a) \/ Exclusive(a)

Next ==
  \/ \E u \in User : Begin(u) \/ Wait(u) \/ Go(u)
  \/ \E a \in Admin : Toggle(a) \/ AWait(a) \/ AGo(a)

Spec == Init /\ [][Next]_vars

\* Go's mutexes hand themselves to a waiter that starves, and an RWMutex lets
\* the readers that waited in before the next writer; nobody has to begin.
Fairness ==
  /\ \A u \in User : SF_vars(Wait(u)) /\ WF_vars(Go(u))
  /\ \A a \in Admin : SF_vars(AWait(a)) /\ WF_vars(AGo(a))

FairSpec == Spec /\ Fairness

-----------------------------------------------------------------------------
(* What must hold *)

\* A revision is recorded by the backend that is attached while it is recorded:
\* a detached one writes nothing, and two never write at once.
RecordsThroughAttached ==
  \A u \in User : pc[u] = "recording" => backend[u] = attached

\* "The stored state must match the running capability" (api/admin.go:526),
\* whenever no toggle is in progress: what runs is attached and is stored, and
\* what is stored runs, unless a failed restart failed again when it was retried:
\* the error of the retry is dropped (api/admin.go:514).
StoredMatchesRunning ==
  unsaved = 0 /\ (\A a \in Admin : apc[a] = "idle") =>
    /\ active = (attached # None)
    /\ active => stored
    /\ failures <= 1 => stored = active

\* Why: while u records, and for all of RestoreNote once it has begun, u holds
\* historyMu, so twice when a restore records; nobody holds it otherwise.
ReadLocksHeld ==
  \A u \in User :
    readers[u] = (IF op[u] = "restore" /\ pc[u] \in {"path", "record", "recording", "using"}
                  THEN 1 ELSE 0)
               + (IF pc[u] = "recording" THEN 1 ELSE 0)

\* SetHistory "is safe to call at runtime" (service.go:86): a toggle that is
\* in progress comes to its end.
ToggleReturns == \A a \in Admin : apc[a] # "idle" ~> apc[a] = "idle"

RequestReturns == \A u \in User : pc[u] # "idle" ~> pc[u] = "idle"

\* It does, and so does every request, as long as nobody restores a revision.
AllReturnWithoutRestores ==
  [](\A u \in User : op[u] # "restore") => ToggleReturns /\ RequestReturns
=============================================================================
