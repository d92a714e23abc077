----------------------- MODULE HistoryCapabilityProofs -----------------------
(***************************************************************************)
(* Proofs about HistoryCapability for any users, administrators and        *)
(* backends: a revision is recorded by the backend that is attached        *)
(* meanwhile, because a recording request holds historyMu; and what an     *)
(* administrator stored is what runs when the toggle is over, because      *)
(* every step of it knows what the steps that remain will make equal.      *)
(***************************************************************************)
EXTENDS HistoryCapability, TLAPS

Steps == {"idle", "enter", "path", "record", "recording", "peek", "using"}

\* What the steps of requests need to know of types.
UserTypeOK ==
  /\ readers \in [User -> Nat]
  /\ pc \in [User -> Steps]
  /\ op \in [User -> Ops]
  /\ records \in [User -> Nat]
  /\ backend \in [User -> Backend \cup {None}]
  /\ attached \in Backend \cup {None} /\ plugin \in Backend \cup {None}

\* Only a restore enters historyMu for its whole request, only others peek.
StepFitsRequest ==
  \A u \in User : /\ pc[u] = "enter" => op[u] = "restore"
                  /\ pc[u] = "peek" => op[u] # "restore"

Locks == UserTypeOK /\ StepFitsRequest /\ ReadLocksHeld

\* Toggles leave alone what the requests hold, and attach what they opened.
LEMMA AdminsKeepLocks ==
  ASSUME Locks, NEW a \in Admin, Toggle(a) \/ AWait(a) \/ AGo(a)
  PROVE  Locks' /\ UNCHANGED <<readers, pc, op, backend>>
<1>1. UNCHANGED <<readers, pc, op, records, backend>>
  BY DEF Toggle, AWait, AGo, EnterManager, Announce, Store, StoreFails, OpenBackend,
         OpenFails, Rollback, Exclusive, notes, users
<1>2. plugin' \in Backend \cup {None} /\ attached' \in Backend \cup {None}
  <2>1. CASE OpenBackend(a)
    BY <2>1 DEF OpenBackend, notes, Locks, UserTypeOK
  <2>2. CASE Exclusive(a)
    BY <2>2 DEF Exclusive, Locks, UserTypeOK
  <2>3. CASE Toggle(a) \/ AWait(a) \/ Store(a) \/ StoreFails(a) \/ OpenFails(a) \/ Rollback(a)
    <3>1. UNCHANGED <<attached, plugin>>
      BY <2>3 DEF Toggle, AWait, EnterManager, Announce, Store, StoreFails, OpenFails,
                  Rollback, notes
    <3>. QED BY <3>1 DEF Locks, UserTypeOK
  <2>. QED BY <2>1, <2>2, <2>3 DEF AGo
<1>. QED BY <1>1, <1>2 DEF Locks, UserTypeOK, StepFitsRequest, ReadLocksHeld

\* A call that returns gives back every read lock.
LEMMA ReturnKeepsLocks ==
  ASSUME Locks, NEW u \in User, NEW from \in Steps, Return(u, from), UNCHANGED <<op, attached, plugin>>
  PROVE  Locks'
<1>1. UserTypeOK' /\ StepFitsRequest'
  BY DEF Locks, UserTypeOK, StepFitsRequest, Return, Goto, Steps
<1>2. ReadLocksHeld'
  BY DEF Locks, UserTypeOK, Return, Goto, ReadLocksHeld
<1>. QED BY <1>1, <1>2 DEF Locks

\* The steps that wait for a lock count the read locks they take.
LEMMA WaitKeepsLocks ==
  ASSUME Locks, NEW u \in User, Wait(u)
  PROVE  Locks'
<1>1. CASE EnterRestore(u)
  <2>1. CASE attached # None /\ RLock(u) /\ Goto(u, "enter", "path") /\ UNCHANGED <<op, records, backend, attached, plugin>>
    <3>1. UserTypeOK' /\ StepFitsRequest'
      BY <2>1 DEF Locks, UserTypeOK, StepFitsRequest, RLock, Goto, Steps
    <3>2. ReadLocksHeld'
      BY <2>1 DEF Locks, UserTypeOK, StepFitsRequest, ReadLocksHeld, RLock, Goto
    <3>. QED BY <3>1, <3>2 DEF Locks
  <2>2. CASE Return(u, "enter") /\ UNCHANGED <<op, attached, plugin>>
    BY <2>2, ReturnKeepsLocks DEF Steps
  <2>. QED BY <1>1, <2>1, <2>2 DEF EnterRestore, admins
<1>2. CASE LockPath(u)
  <2>1. UserTypeOK' /\ StepFitsRequest'
    BY <1>2 DEF LockPath, admins, Locks, UserTypeOK, StepFitsRequest, Goto, Steps
  <2>2. ReadLocksHeld'
    BY <1>2 DEF LockPath, admins, Locks, UserTypeOK, ReadLocksHeld, Goto
  <2>. QED BY <2>1, <2>2 DEF Locks
<1>3. CASE EnterRecord(u)
  <2>1. UserTypeOK' /\ StepFitsRequest'
    BY <1>3 DEF EnterRecord, admins, Locks, UserTypeOK, StepFitsRequest, RLock, Goto, Steps
  <2>2. ReadLocksHeld'
    BY <1>3 DEF EnterRecord, admins, Locks, UserTypeOK, ReadLocksHeld, RLock, Goto
  <2>. QED BY <2>1, <2>2 DEF Locks
<1>4. CASE Peek(u)
  <2>1. UserTypeOK' /\ StepFitsRequest'
    BY <1>4 DEF Peek, admins, Locks, UserTypeOK, StepFitsRequest, Goto, Steps, notes
  <2>2. ReadLocksHeld'
    BY <1>4 DEF Peek, admins, Locks, UserTypeOK, StepFitsRequest, ReadLocksHeld, Goto, notes
  <2>. QED BY <2>1, <2>2 DEF Locks
<1>. QED BY <1>1, <1>2, <1>3, <1>4 DEF Wait

\* So do those that go on or return.
LEMMA GoKeepsLocks ==
  ASSUME Locks, NEW u \in User, Go(u)
  PROVE  Locks'
<1>1. CASE /\ records[u] > 1 /\ Goto(u, "recording", "record")
           /\ records' = [records EXCEPT ![u] = @ - 1]
           /\ readers' = [readers EXCEPT ![u] = @ - 1]
           /\ backend' = [backend EXCEPT ![u] = None]
           /\ UNCHANGED <<op, attached, plugin>>
  <2>1. readers[u] \in Nat /\ readers[u] >= 1 /\ records[u] - 1 \in Nat
    BY <1>1 DEF Locks, UserTypeOK, ReadLocksHeld, Goto
  <2>2. UserTypeOK' /\ StepFitsRequest'
    BY <1>1, <2>1 DEF Locks, UserTypeOK, StepFitsRequest, Goto, Steps
  <2>3. ReadLocksHeld'
    BY <1>1, <2>1 DEF Locks, UserTypeOK, ReadLocksHeld, Goto
  <2>. QED BY <2>2, <2>3 DEF Locks
<1>2. CASE \E from \in {"recording", "using"} : Return(u, from) /\ UNCHANGED <<op, attached, plugin>>
  BY <1>2, ReturnKeepsLocks DEF Steps
<1>. QED BY <1>1, <1>2 DEF Go, Recorded, Used, admins

LEMMA BeginKeepsLocks ==
  ASSUME Locks, CapabilityAssumption, NEW u \in User, Begin(u)
  PROVE  Locks'
<1>1. PICK o \in Op :
        /\ Goto(u, "idle", CASE o = "save" -> "path" [] o = "record" -> "record"
                             [] o = "restore" -> "enter" [] o = "trash" -> "peek")
        /\ op' = [op EXCEPT ![u] = o]
        /\ \E n \in IF o = "restore" THEN {1, 2} ELSE {1} : records' = [records EXCEPT ![u] = n]
        /\ UNCHANGED <<notes, backend, admins>>
  BY DEF Begin
<1>2. o \in {"save", "record", "restore", "trash"}
  BY <1>1 DEF CapabilityAssumption, Ops
<1>3. \E step \in {"path", "record", "enter", "peek"} :
        /\ Goto(u, "idle", step)
        /\ step = "enter" <=> o = "restore"
        /\ step = "peek" => o # "restore"
  BY <1>1, <1>2
<1>4. PICK step \in {"path", "record", "enter", "peek"} :
        /\ Goto(u, "idle", step)
        /\ step = "enter" <=> o = "restore"
        /\ step = "peek" => o # "restore"
  BY <1>3
<1>5. \E n \in Nat : records' = [records EXCEPT ![u] = n]
  BY <1>1
<1>6. UserTypeOK' /\ StepFitsRequest'
  BY <1>1, <1>2, <1>4, <1>5 DEF Locks, UserTypeOK, StepFitsRequest, Goto, Steps, Ops, notes, admins
<1>7. ReadLocksHeld'
  BY <1>1, <1>2, <1>4 DEF Locks, UserTypeOK, ReadLocksHeld, Goto, notes
<1>. QED BY <1>6, <1>7 DEF Locks

LEMMA LocksInvariant ==
  ASSUME Locks, CapabilityAssumption, [Next]_vars
  PROVE  Locks'
<1>1. CASE \E u \in User : Begin(u)
  BY <1>1, BeginKeepsLocks
<1>2. CASE \E u \in User : Wait(u)
  BY <1>2, WaitKeepsLocks
<1>3. CASE \E u \in User : Go(u)
  BY <1>3, GoKeepsLocks
<1>4. CASE \E a \in Admin : Toggle(a) \/ AWait(a) \/ AGo(a)
  BY <1>4, AdminsKeepLocks
<1>5. CASE UNCHANGED vars
  BY <1>5 DEF vars, notes, users, admins, Locks, UserTypeOK, StepFitsRequest, ReadLocksHeld
<1>. QED BY <1>1, <1>2, <1>3, <1>4, <1>5 DEF Next

LEMMA InitLocks == Init => Locks
  BY DEF Init, Locks, UserTypeOK, StepFitsRequest, ReadLocksHeld, Steps, Ops

-----------------------------------------------------------------------------
\* Every request holds historyMu exactly as often as its frames lock it:
\* recordDetail and RestoreNote of core/service.go, for any number of both.
THEOREM ReadLocks == Spec => []ReadLocksHeld
<1>1. Locks /\ [Next]_vars => Locks'
  BY LocksInvariant, CapabilityAssumption
<1>2. Locks => ReadLocksHeld
  BY DEF Locks
<1>. QED BY InitLocks, <1>1, <1>2, PTL DEF Spec

\* A step that leaves historyMu to its readers keeps the recording ones on the
\* attached backend; the one that changes it has no readers.
LEMMA RecordingStep ==
  ASSUME Locks, CapabilityAssumption, RecordsThroughAttached, [Next]_vars
  PROVE  RecordsThroughAttached'
<1>. USE DEF RecordsThroughAttached
<1>1. ASSUME NEW u \in User, Begin(u) PROVE RecordsThroughAttached'
  <2>1. PICK o \in Op :
          /\ Goto(u, "idle", CASE o = "save" -> "path" [] o = "record" -> "record"
                               [] o = "restore" -> "enter" [] o = "trash" -> "peek")
          /\ UNCHANGED <<attached, backend>>
    BY <1>1 DEF Begin, notes
  <2>2. o \in {"save", "record", "restore", "trash"}
    BY <2>1 DEF CapabilityAssumption, Ops
  <2>3. \E step \in {"path", "record", "enter", "peek"} : pc' = [pc EXCEPT ![u] = step]
    BY <2>1, <2>2 DEF Goto
  <2>. QED BY <2>1, <2>3 DEF Locks, UserTypeOK
<1>2. ASSUME NEW u \in User, Wait(u) PROVE RecordsThroughAttached'
  <2>1. CASE EnterRecord(u)
    BY <2>1 DEF EnterRecord, Goto, Locks, UserTypeOK
  <2>2. CASE EnterRestore(u)
    BY <2>2 DEF EnterRestore, Return, Goto, Locks, UserTypeOK
  <2>3. CASE LockPath(u)
    BY <2>3 DEF LockPath, Goto, Locks, UserTypeOK
  <2>4. CASE Peek(u)
    BY <2>4 DEF Peek, Goto, notes, Locks, UserTypeOK
  <2>. QED BY <1>2, <2>1, <2>2, <2>3, <2>4 DEF Wait
<1>3. ASSUME NEW u \in User, Go(u) PROVE RecordsThroughAttached'
  <2>1. UNCHANGED attached /\ \A v \in User \ {u} : pc'[v] = pc[v] /\ backend'[v] = backend[v]
    BY <1>3 DEF Go, Recorded, Used, Return, Goto, Locks, UserTypeOK
  <2>2. pc'[u] # "recording"
    BY <1>3 DEF Go, Recorded, Used, Return, Goto, Locks, UserTypeOK
  <2>. QED BY <2>1, <2>2
<1>4. ASSUME NEW a \in Admin, Toggle(a) \/ AWait(a) \/ AGo(a) PROVE RecordsThroughAttached'
  <2>1. UNCHANGED <<readers, pc, op, backend>>
    BY <1>4, AdminsKeepLocks
  <2>2. CASE Exclusive(a)
    <3>1. \A u \in User : pc[u] # "recording"
      BY <2>2 DEF Exclusive, Locks, UserTypeOK, ReadLocksHeld
    <3>. QED BY <2>1, <3>1
  <2>3. CASE ~Exclusive(a)
    <3>1. UNCHANGED attached
      BY <1>4, <2>3 DEF Toggle, AWait, AGo, EnterManager, Announce, Store, StoreFails,
                        OpenBackend, OpenFails, Rollback, notes
    <3>. QED BY <2>1, <3>1
  <2>. QED BY <2>2, <2>3
<1>5. CASE UNCHANGED vars
  BY <1>5 DEF vars, notes, users
<1>. QED BY <1>1, <1>2, <1>3, <1>4, <1>5 DEF Next

\* A revision is recorded by the backend attached meanwhile, for any number of
\* requests, toggles and backends: DetachHistory waits for recordDetail.
THEOREM AttachedRecords == Spec => []RecordsThroughAttached
<1>1. Init => RecordsThroughAttached
  BY DEF Init, RecordsThroughAttached
<1>2. (Locks /\ RecordsThroughAttached) /\ [Next]_vars => (Locks /\ RecordsThroughAttached)'
  BY LocksInvariant, RecordingStep, CapabilityAssumption
<1>. QED BY InitLocks, <1>1, <1>2, PTL DEF Spec

-----------------------------------------------------------------------------
(* Toggles *)

AdminTypeOK ==
  /\ writer \in Admin \cup {None} /\ lifecycle \in Admin \cup {None}
  /\ pathLock \in User \cup {None}
  /\ stored \in BOOLEAN /\ active \in BOOLEAN
  /\ apc \in [Admin -> {"idle", "store", "manager", "open", "announce",
                        "exclusive", "rollback"}]
  /\ was \in [Admin -> BOOLEAN]
  /\ kind \in [Admin -> Kinds] /\ goal \in [Admin -> BOOLEAN]
  /\ failures \in 0..MaxFailures /\ unsaved \in 0..MaxUnsaved
  /\ records \in [User -> 0..2]

\* Every variable keeps its type: no restore takes historyMu more than twice.
THEOREM TypeCorrect == Spec => []TypeOK
<1>1. Init => AdminTypeOK
  <2>1. 0 \in 0..MaxFailures /\ 0 \in 0..MaxUnsaved /\ 0 \in 0..2
    BY CapabilityAssumption DEF CapabilityAssumption
  <2>. SUFFICES ASSUME Init PROVE AdminTypeOK
    OBVIOUS
  <2>2. records \in [User -> 0..2]
    BY <2>1 DEF Init
  <2>3. writer \in Admin \cup {None} /\ lifecycle \in Admin \cup {None}
        /\ pathLock \in User \cup {None} /\ stored \in BOOLEAN /\ active \in BOOLEAN
    BY DEF Init
  <2>4. /\ apc \in [Admin -> {"idle", "store", "manager", "open", "announce",
                             "exclusive", "rollback"}]
        /\ was \in [Admin -> BOOLEAN]
        /\ kind \in [Admin -> Kinds] /\ goal \in [Admin -> BOOLEAN]
    BY DEF Init, Kinds
  <2>5. failures \in 0..MaxFailures /\ unsaved \in 0..MaxUnsaved
    BY <2>1 DEF Init
  <2>. QED BY <2>2, <2>3, <2>4, <2>5 DEF AdminTypeOK
<1>2. AdminTypeOK /\ [Next]_vars => AdminTypeOK'
  <2>. SUFFICES ASSUME AdminTypeOK, [Next]_vars PROVE AdminTypeOK'
    OBVIOUS
  <2>a. MaxFailures \in Nat /\ MaxUnsaved \in Nat
    BY CapabilityAssumption DEF CapabilityAssumption
  <2>1. ASSUME NEW u \in User, Begin(u) PROVE AdminTypeOK'
    <3>1. records' \in [User -> 0..2]
      BY <2>1 DEF Begin, AdminTypeOK
    <3>. QED BY <2>1, <3>1 DEF Begin, AdminTypeOK, notes, admins
  <2>2. ASSUME NEW u \in User, Wait(u) PROVE AdminTypeOK'
    BY <2>2 DEF Wait, EnterRestore, LockPath, EnterRecord, Peek, Return, AdminTypeOK,
                notes, admins
  <2>3. ASSUME NEW u \in User, Go(u) PROVE AdminTypeOK'
    <3>1. records' \in [User -> 0..2]
      BY <2>3 DEF Go, Recorded, Used, Return, AdminTypeOK
    <3>2. pathLock' \in User \cup {None}
      BY <2>3 DEF Go, Recorded, Used, Return, AdminTypeOK
    <3>. QED BY <2>3, <3>1, <3>2 DEF Go, Recorded, Used, AdminTypeOK, notes, admins
  <2>4. ASSUME NEW a \in Admin, Store(a) \/ OpenBackend(a) \/ Rollback(a)
        PROVE  AdminTypeOK'
    BY <2>4 DEF Store, OpenBackend, Rollback, AGoto, AdminTypeOK, notes, users
  <2>4a. ASSUME NEW a \in Admin, Toggle(a) PROVE AdminTypeOK'
    <3>1. PICK k \in {"on", "off", "restart"} :
            /\ apc' = [apc EXCEPT ![a] = IF k = "restart" THEN "manager" ELSE "store"]
            /\ kind' = [kind EXCEPT ![a] = k]
            /\ goal' = [goal EXCEPT ![a] = (k = "on")]
      BY <2>4a DEF Toggle, AGoto
    <3>2. kind' \in [Admin -> Kinds] /\ goal' \in [Admin -> BOOLEAN]
      BY <3>1 DEF AdminTypeOK, Kinds
    <3>. QED BY <2>4a, <3>1, <3>2 DEF Toggle, AdminTypeOK, notes, users
  <2>5. ASSUME NEW a \in Admin, StoreFails(a) \/ OpenFails(a) PROVE AdminTypeOK'
    <3>1. unsaved' \in 0..MaxUnsaved /\ failures' \in 0..MaxFailures
      BY <2>5, <2>a DEF StoreFails, OpenFails, AdminTypeOK
    <3>. QED
      BY <2>5, <3>1 DEF StoreFails, OpenFails, AGoto, AdminTypeOK, Kinds, notes, users
  <2>6. ASSUME NEW a \in Admin, EnterManager(a) \/ Announce(a) \/ Exclusive(a)
        PROVE  AdminTypeOK'
    BY <2>6 DEF EnterManager, Announce, Exclusive, AGoto, AdminTypeOK, Kinds, notes, users
  <2>7. CASE UNCHANGED vars
    BY <2>7 DEF vars, notes, users, admins, AdminTypeOK
  <2>. QED
    BY <2>1, <2>2, <2>3, <2>4, <2>4a, <2>5, <2>6, <2>7 DEF Next, AWait, AGo
<1>3. Locks /\ [Next]_vars => Locks'
  BY LocksInvariant, CapabilityAssumption
<1>4. Locks /\ AdminTypeOK => TypeOK
  <2>. SUFFICES ASSUME Locks, AdminTypeOK PROVE TypeOK
    OBVIOUS
  <2>1. \A u \in User : readers[u] \in 0..2
    BY DEF Locks, ReadLocksHeld
  <2>2. readers \in [User -> 0..2]
    BY <2>1 DEF Locks, UserTypeOK
  <2>. QED BY <2>2 DEF Locks, UserTypeOK, AdminTypeOK, TypeOK, Steps
<1>. QED
  BY InitLocks, <1>1, <1>2, <1>3, <1>4, PTL DEF Spec

\* The manager's mutex is held from the decision to change the capability to
\* the change; meanwhile the change is still to be made.
ManagerHeld ==
  /\ \A a \in Admin :
       /\ apc[a] \in {"open", "announce", "exclusive"} <=> lifecycle = a
       /\ apc[a] = "open" => goal[a]
       /\ apc[a] \in {"open", "announce", "exclusive"} => active # goal[a]
       /\ apc[a] \in {"announce", "exclusive"} /\ goal[a] => plugin # None
  /\ active = (attached # None)
  /\ active => attached = plugin

\* Whatever administrators do, and whichever step of theirs fails, the manager
\* runs the plugin if and only if its backend is attached.
LEMMA ManagerStep ==
  ASSUME TypeOK, ManagerHeld, [Next]_vars
  PROVE  ManagerHeld'
<1>a. None \notin Admin /\ None \notin Backend
  BY CapabilityAssumption DEF CapabilityAssumption
<1>1. ASSUME NEW u \in User, Begin(u) \/ Wait(u) \/ Go(u) PROVE ManagerHeld'
  <2>1. UNCHANGED <<attached, admins>>
    BY <1>1 DEF Begin, Wait, EnterRestore, LockPath, EnterRecord, Peek, Go, Recorded, Used, notes
  <2>. QED BY <2>1 DEF ManagerHeld, admins
<1>2. ASSUME NEW a \in Admin, Toggle(a) \/ Store(a) \/ StoreFails(a) \/ Rollback(a)
      PROVE  ManagerHeld'
  BY <1>2 DEF Toggle, Store, StoreFails, Rollback, AGoto, ManagerHeld, TypeOK, notes
<1>3. ASSUME NEW a \in Admin, EnterManager(a) PROVE ManagerHeld'
  <2>1. /\ UNCHANGED <<attached, active, plugin, goal>> /\ apc[a] = "manager"
        /\ \A b \in Admin \ {a} : apc'[b] = apc[b]
        /\ \A b \in Admin : apc[b] \notin {"open", "announce", "exclusive"}
    BY <1>3, <1>a DEF EnterManager, AGoto, notes, TypeOK, ManagerHeld
  <2>2. \/ apc'[a] = "idle" /\ lifecycle' = None
        \/ /\ lifecycle' = a /\ active # goal[a]
           /\ apc'[a] = IF goal[a] THEN "open" ELSE "announce"
    BY <1>3 DEF EnterManager, AGoto, TypeOK
  <2>. QED BY <1>a, <2>1, <2>2 DEF ManagerHeld, TypeOK
<1>4. ASSUME NEW a \in Admin, OpenBackend(a) PROVE ManagerHeld'
  <2>1. /\ UNCHANGED <<attached, active, lifecycle, goal>> /\ apc[a] = "open"
        /\ apc' = [apc EXCEPT ![a] = "announce"] /\ plugin' \in Backend
    BY <1>4 DEF OpenBackend, AGoto, notes
  <2>2. ~active
    BY <2>1 DEF ManagerHeld, TypeOK
  <2>. QED BY <1>a, <2>1, <2>2 DEF ManagerHeld, TypeOK
<1>5. ASSUME NEW a \in Admin, OpenFails(a) PROVE ManagerHeld'
  <2>1. /\ UNCHANGED <<attached, active, plugin, goal>> /\ apc[a] = "open" /\ lifecycle' = None
        /\ apc'[a] \in {"rollback", "manager", "idle"}
        /\ \A b \in Admin \ {a} : apc'[b] = apc[b]
    BY <1>5 DEF OpenFails, AGoto, notes, TypeOK
  <2>2. \A b \in Admin \ {a} : apc[b] \notin {"open", "announce", "exclusive"}
    BY <2>1 DEF ManagerHeld
  <2>. QED BY <1>a, <2>1, <2>2 DEF ManagerHeld
<1>6. ASSUME NEW a \in Admin, Announce(a) PROVE ManagerHeld'
  BY <1>6 DEF Announce, AGoto, ManagerHeld, TypeOK, users
<1>7. ASSUME NEW a \in Admin, Exclusive(a) PROVE ManagerHeld'
  <2>1. /\ apc[a] = "exclusive" /\ active' = goal[a]
        /\ \A b \in Admin \ {a} : apc'[b] = apc[b]
        /\ \A b \in Admin \ {a} : goal'[b] = goal[b]
    BY <1>7 DEF Exclusive, AGoto, TypeOK
  <2>2. \A b \in Admin \ {a} : apc[b] \notin {"open", "announce", "exclusive"}
    BY <2>1 DEF ManagerHeld
  <2>3. /\ active' = (attached' # None)
        /\ active' => attached' = plugin'
    BY <1>7, <1>a, <2>1 DEF Exclusive, ManagerHeld, TypeOK
  <2>4. \/ /\ apc'[a] = "open" /\ goal'[a] = TRUE /\ lifecycle' = a /\ ~goal[a]
        \/ apc'[a] = "idle" /\ lifecycle' = None
    BY <1>7, <2>1 DEF Exclusive, AGoto, TypeOK, ManagerHeld
  <2>. QED BY <1>a, <2>1, <2>2, <2>3, <2>4 DEF ManagerHeld
<1>8. CASE UNCHANGED vars
  BY <1>8 DEF vars, notes, users, admins, ManagerHeld
<1>. QED
  BY <1>1, <1>2, <1>3, <1>4, <1>5, <1>6, <1>7, <1>8 DEF Next, AWait, AGo

\* What a's toggle will do if it goes on, as long as every wanted state could be
\* saved: what runs when it is over is stored, and the other way round too,
\* unless a restart and its retry both failed.
Toggling(a) ==
  LET matched == (active => stored) /\ (failures <= 1 => stored = active)
      found == (active => was[a]) /\ (failures <= 1 => was[a] = active)
  IN
    /\ apc[a] = "idle" => matched
    /\ apc[a] = "store" =>
         matched /\ was[a] = stored /\ kind[a] \in {"on", "off"} /\ goal[a] = (kind[a] = "on")
    /\ apc[a] = "manager" =>
         \/ kind[a] \in {"on", "off"} /\ goal[a] = (kind[a] = "on") /\ stored = goal[a] /\ found
         \/ kind[a] = "restart" /\ ~goal[a] /\ matched /\ was[a] = stored
         \/ kind[a] = "retry" /\ goal[a] /\ ~active /\ stored /\ failures >= 1
    /\ apc[a] = "open" =>
         \/ kind[a] = "on" /\ stored /\ (failures <= 1 => ~was[a])
         \/ kind[a] = "restart" /\ stored /\ was[a]
         \/ kind[a] = "retry" /\ stored /\ failures >= 1
    /\ apc[a] \in {"announce", "exclusive"} =>
         \/ kind[a] \in {"on", "retry"} /\ goal[a] /\ stored
         \/ kind[a] = "off" /\ ~goal[a] /\ ~stored
         \/ kind[a] = "restart" /\ stored /\ (~goal[a] => was[a])
    /\ apc[a] = "rollback" => ~active /\ failures >= 1 /\ (failures <= 1 => ~was[a])

AllToggling == unsaved = 0 => \A a \in Admin : Toggling(a)

\* One administrator's steps keep it; two would change each other's state.
LEMMA TogglingStep ==
  ASSUME \A a, b \in Admin : a = b, TypeOK, ManagerHeld, AllToggling, [Next]_vars
  PROVE  AllToggling'
<1>a. failures \in Nat /\ unsaved \in Nat
  BY DEF TypeOK
<1>1. ASSUME NEW u \in User, Begin(u) \/ Wait(u) \/ Go(u) PROVE AllToggling'
  <2>1. UNCHANGED admins
    BY <1>1 DEF Begin, Wait, EnterRestore, LockPath, EnterRecord, Peek, Go, Recorded, Used
  <2>. QED BY <2>1 DEF AllToggling, Toggling, admins
<1>2. ASSUME NEW a \in Admin, Toggle(a) PROVE AllToggling'
  <2>1. /\ UNCHANGED <<stored, active, failures, unsaved>> /\ apc[a] = "idle"
        /\ was'[a] = stored
        /\ \/ apc'[a] = "manager" /\ kind'[a] = "restart" /\ goal'[a] = FALSE
           \/ apc'[a] = "store" /\ kind'[a] = "on" /\ goal'[a] = TRUE
           \/ apc'[a] = "store" /\ kind'[a] = "off" /\ goal'[a] = FALSE
    BY <1>2 DEF Toggle, AGoto, TypeOK
  <2>2. unsaved = 0 => Toggling(a)'
    BY <2>1 DEF AllToggling, Toggling
  <2>. QED BY <2>1, <2>2 DEF AllToggling
<1>3. ASSUME NEW a \in Admin, Store(a) PROVE AllToggling'
  <2>1. /\ UNCHANGED <<active, failures, unsaved, was, kind, goal>> /\ apc[a] = "store"
        /\ stored' = goal[a] /\ apc'[a] = "manager"
    BY <1>3 DEF Store, AGoto, TypeOK
  <2>2. unsaved = 0 => Toggling(a)'
    BY <2>1 DEF AllToggling, Toggling
  <2>. QED BY <2>1, <2>2 DEF AllToggling
<1>4. ASSUME NEW a \in Admin, StoreFails(a) PROVE AllToggling'
  <2>1. unsaved' # 0
    BY <1>4, <1>a DEF StoreFails
  <2>. QED BY <2>1 DEF AllToggling
<1>5. ASSUME NEW a \in Admin, EnterManager(a) PROVE AllToggling'
  <2>1. /\ UNCHANGED <<active, stored, failures, unsaved, was, kind, goal>>
        /\ apc[a] = "manager"
        /\ \/ apc'[a] = "idle" /\ active = goal[a]
           \/ /\ active # goal[a]
              /\ apc'[a] = IF goal[a] THEN "open" ELSE "announce"
    BY <1>5 DEF EnterManager, AGoto, TypeOK, notes, users
  <2>2. active \in BOOLEAN /\ stored \in BOOLEAN /\ goal[a] \in BOOLEAN /\ was[a] \in BOOLEAN
    BY DEF TypeOK
  <2>3. unsaved = 0 => Toggling(a)'
    BY <2>1, <2>2, <1>a DEF AllToggling, Toggling
  <2>. QED BY <2>1, <2>3 DEF AllToggling
<1>6. ASSUME NEW a \in Admin, OpenBackend(a) PROVE AllToggling'
  <2>1. /\ UNCHANGED <<active, stored, failures, unsaved, was, kind, goal>>
        /\ apc[a] = "open" /\ apc'[a] = "announce" /\ goal[a]
    BY <1>6 DEF OpenBackend, AGoto, TypeOK, ManagerHeld
  <2>2. unsaved = 0 => Toggling(a)'
    BY <2>1 DEF AllToggling, Toggling
  <2>. QED BY <2>1, <2>2 DEF AllToggling
<1>7. ASSUME NEW a \in Admin, OpenFails(a) PROVE AllToggling'
  <2>1. /\ UNCHANGED <<active, stored, unsaved, was, goal>> /\ failures' = failures + 1
        /\ apc[a] = "open" /\ goal[a] /\ ~active
        /\ \/ kind[a] = "on" /\ apc'[a] = "rollback" /\ kind'[a] = "on"
           \/ kind[a] = "restart" /\ was[a] /\ apc'[a] = "manager" /\ kind'[a] = "retry"
           \/ (kind[a] = "retry" \/ (kind[a] = "restart" /\ ~was[a])) /\ apc'[a] = "idle"
    BY <1>7 DEF OpenFails, AGoto, TypeOK, ManagerHeld
  <2>2. failures' >= 1 /\ (failures' <= 1 => failures <= 1 /\ ~(failures >= 1))
    BY <2>1, <1>a
  <2>3. unsaved = 0 => Toggling(a)'
    BY <2>1, <2>2 DEF AllToggling, Toggling
  <2>. QED BY <2>1, <2>3 DEF AllToggling
<1>8. ASSUME NEW a \in Admin, Rollback(a) PROVE AllToggling'
  <2>1. /\ UNCHANGED <<active, failures, unsaved>> /\ stored' = was[a]
        /\ apc[a] = "rollback" /\ apc'[a] = "idle" /\ was[a] \in BOOLEAN
        /\ active \in BOOLEAN
    BY <1>8 DEF Rollback, AGoto, TypeOK
  <2>2. unsaved = 0 => Toggling(a)'
    BY <2>1 DEF AllToggling, Toggling
  <2>. QED BY <2>1, <2>2 DEF AllToggling
<1>9. ASSUME NEW a \in Admin, Announce(a) PROVE AllToggling'
  <2>1. /\ UNCHANGED <<active, stored, failures, unsaved, was, kind, goal>>
        /\ apc[a] = "announce" /\ apc'[a] = "exclusive"
    BY <1>9 DEF Announce, AGoto, TypeOK
  <2>2. unsaved = 0 => Toggling(a)'
    BY <2>1 DEF AllToggling, Toggling
  <2>. QED BY <2>1, <2>2 DEF AllToggling
<1>10. ASSUME NEW a \in Admin, Exclusive(a) PROVE AllToggling'
  <2>1. /\ UNCHANGED <<stored, failures, unsaved, was, kind>> /\ active' = goal[a]
        /\ apc[a] = "exclusive" /\ stored \in BOOLEAN /\ goal[a] \in BOOLEAN
        /\ \/ kind[a] = "restart" /\ ~goal[a] /\ apc'[a] = "open"
           \/ (kind[a] # "restart" \/ goal[a]) /\ apc'[a] = "idle"
    BY <1>10 DEF Exclusive, AGoto, TypeOK
  <2>2. unsaved = 0 => Toggling(a)'
    BY <2>1 DEF AllToggling, Toggling
  <2>. QED BY <2>1, <2>2 DEF AllToggling
<1>11. CASE UNCHANGED vars
  BY <1>11 DEF vars, admins, AllToggling, Toggling
<1>. QED
  BY <1>1, <1>2, <1>3, <1>4, <1>5, <1>6, <1>7, <1>8, <1>9, <1>10, <1>11 DEF Next, AWait, AGo

\* With one administrator at a time, what is stored as on and what runs are the
\* same again when a toggle is over, whichever of its steps failed.
THEOREM StoredMatches ==
  ASSUME \A a, b \in Admin : a = b
  PROVE  Spec => []StoredMatchesRunning
<1>1. Init => ManagerHeld /\ AllToggling
  <2>. SUFFICES ASSUME Init PROVE ManagerHeld /\ AllToggling
    OBVIOUS
  <2>1. /\ None \notin Admin /\ lifecycle = None /\ attached = None
        /\ active = FALSE /\ stored = FALSE
        /\ \A a \in Admin : apc[a] = "idle"
    BY CapabilityAssumption DEF Init, CapabilityAssumption
  <2>2. ManagerHeld
    BY <2>1 DEF ManagerHeld
  <2>3. AllToggling
    BY <2>1 DEF AllToggling, Toggling
  <2>. QED BY <2>2, <2>3
<1>2. /\ TypeOK /\ (ManagerHeld /\ AllToggling) /\ [Next]_vars
      => (ManagerHeld /\ AllToggling)'
  BY ManagerStep, TogglingStep
<1>3. CASE Admin = {}
  <2>1. Init => active = FALSE /\ stored = FALSE /\ attached = None
    BY DEF Init
  <2>2. /\ active = FALSE /\ stored = FALSE /\ attached = None /\ [Next]_vars
        => (active = FALSE /\ stored = FALSE /\ attached = None)'
    BY <1>3 DEF Next, Begin, Wait, EnterRestore, LockPath, EnterRecord, Peek, Go, Recorded,
                Used, notes, admins, vars
  <2>3. active = FALSE /\ stored = FALSE /\ attached = None => StoredMatchesRunning
    BY DEF StoredMatchesRunning
  <2>. QED BY <2>1, <2>2, <2>3, PTL DEF Spec
<1>4. CASE Admin # {}
  <2>1. ManagerHeld /\ AllToggling => StoredMatchesRunning
    BY <1>4 DEF ManagerHeld, AllToggling, Toggling, StoredMatchesRunning
  <2>. QED BY <1>1, <1>2, <2>1, TypeCorrect, PTL DEF Spec
<1>. QED
  BY <1>3, <1>4
=============================================================================
