------------------------- MODULE NoteRegisterProofs -------------------------
(***************************************************************************)
(* NoteService implements NoteRegister for any notes, contents and bounds, *)
(* as long as no other program writes the vault: for any users who do not  *)
(* create notes (CreateNote takes no lock), and for one user who does.     *)
(* Writes may fail.                                                        *)
(***************************************************************************)
EXTENDS NoteServiceProofs

-----------------------------------------------------------------------------
(* The refinement mapping *)

\* A caller's request is the service's, but for the name a create is trying.
LEMMA CallIs ==
  ASSUME TypeOK, NEW u \in User
  PROVE  /\ Call[u].op = req[u].op
         /\ Call[u].content = req[u].content
         /\ req[u].op # "create" => Call[u] = req[u]
         /\ Call[u] \in Register!Request
<1>1. /\ req[u] \in Request /\ Names[1] \in Path
  BY ServiceAssumption DEF TypeOK
<1>2. Call[u] = IF req[u].op = "create" THEN [req[u] EXCEPT !.path = Names[1]] ELSE req[u]
  BY DEF Call
<1>. QED
  BY <1>1, <1>2 DEF Request, Register!Request

LEMMA CallSame ==
  ASSUME req' = req
  PROVE  Call' = Call
BY DEF Call

LEMMA StoredIs ==
  ASSUME TypeOK, NEW u \in User
  PROVE  Register!Stored(u) = Stored(u)
BY CallIs DEF Register!Stored, Stored

\* What callers see of a request at the given step.
PhaseAt(step) ==
  CASE step = "idle" -> "idle"
    [] step \in {"write", "index", "unindex", "record"} -> "applied"
    [] OTHER -> "pending"

LEMMA PhaseMoves ==
  ASSUME TypeOK, NEW u \in User, NEW step, Goto(u, step)
  PROVE  /\ Phase[u] = PhaseAt(pc[u])
         /\ Phase' = [Phase EXCEPT ![u] = PhaseAt(step)]
BY DEF TypeOK, Goto, Phase, PhaseAt

\* A step of u that leaves disk alone, outside the write, leaves every note
\* as callers see it.
LEMMA ValueIdle ==
  ASSUME NEW u \in User, disk' = disk, pc[u] # "write", pc'[u] # "write",
         \A v \in User \ {u} : pc'[v] = pc[v] /\ req'[v] = req[v]
  PROVE  Value' = Value
<1>1. \A v \in User, p \in Path : InWrite(v, p)' <=> InWrite(v, p)
  BY DEF InWrite, At
<1>2. \A v \in User, p \in Path : InWrite(v, p) => Stored(v)' = Stored(v)
  BY DEF InWrite, At, Stored
<1>. SUFFICES ASSUME NEW p \in Path
              PROVE  (IF \E v \in User : InWrite(v, p)'
                      THEN Stored(CHOOSE v \in User : InWrite(v, p))' ELSE disk'[p])
                   = (IF \E v \in User : InWrite(v, p)
                      THEN Stored(CHOOSE v \in User : InWrite(v, p)) ELSE disk[p])
  BY DEF Value
<1>3. CASE \A v \in User : ~InWrite(v, p)
  BY <1>1, <1>3
<1>4. CASE \E v \in User : InWrite(v, p)
  <2>1. (CHOOSE v \in User : InWrite(v, p)') = (CHOOSE v \in User : InWrite(v, p))
    BY <1>1
  <2>2. (CHOOSE v \in User : InWrite(v, p)) \in User
        /\ InWrite(CHOOSE v \in User : InWrite(v, p), p)
    BY <1>4
  <2>. QED BY <1>1, <1>2, <1>4, <2>1, <2>2
<1>. QED
  BY <1>3, <1>4

\* While nobody writes, callers see the disk.
LEMMA ValueDisk ==
  ASSUME TypeOK, \A v \in User : pc[v] # "write"
  PROVE  Value = disk
BY DEF Value, InWrite, At, TypeOK

\* The note that u works on, as callers see it: what u is writing, or the disk.
LEMMA ValueOwn ==
  ASSUME TypeOK, Apart, NEW u \in User, pc[u] \in Holding
  PROVE  Value[req[u].path] = IF pc[u] = "write" THEN Stored(u) ELSE disk[req[u].path]
<1>1. req[u].path \in Path
  BY DEF TypeOK, Request
<1>2. \A v \in User : InWrite(v, req[u].path) => v = u
  BY DEF InWrite, At, Holding, Apart
<1>3. CASE pc[u] = "write"
  <2>1. InWrite(u, req[u].path)
    BY <1>3 DEF InWrite, At
  <2>2. (CHOOSE v \in User : InWrite(v, req[u].path)) = u
    BY <1>2, <2>1
  <2>. QED BY <1>1, <1>3, <2>1, <2>2 DEF Value
<1>4. CASE pc[u] # "write"
  <2>1. \A v \in User : ~InWrite(v, req[u].path)
    BY <1>2, <1>4 DEF InWrite, At
  <2>. QED BY <1>1, <1>4, <2>1 DEF Value
<1>. QED
  BY <1>3, <1>4

\* A step of u at its own note, whose lock it holds, is an assignment to it.
LEMMA ValueStep ==
  ASSUME TypeOK, Apart, NEW u \in User, pc[u] \in Holding,
         req' = req, \A v \in User \ {u} : pc'[v] = pc[v],
         \A p \in Path \ {req[u].path} : disk'[p] = disk[p]
  PROVE  Value' = [Value EXCEPT ![req[u].path] =
                     IF pc'[u] = "write" THEN Stored(u) ELSE disk'[req[u].path]]
<1>1. req[u].path \in Path
  BY DEF TypeOK, Request
<1>2. \A v \in User : InWrite(v, req[u].path) => v = u
  BY DEF InWrite, At, Holding, Apart
<1>3. \A v \in User \ {u}, p \in Path : InWrite(v, p)' <=> InWrite(v, p)
  BY DEF InWrite, At
<1>4. \A v \in User : Stored(v)' = Stored(v)
  BY DEF Stored
<1>5. ASSUME NEW p \in Path, p # req[u].path PROVE Value'[p] = Value[p]
  <2>1. \A v \in User : InWrite(v, p)' <=> InWrite(v, p)
    BY <1>3, <1>5 DEF InWrite
  <2>2. (CHOOSE v \in User : InWrite(v, p)') = (CHOOSE v \in User : InWrite(v, p))
    BY <2>1
  <2>3. CASE \A v \in User : ~InWrite(v, p)
    BY <1>5, <2>1, <2>3 DEF Value
  <2>4. CASE \E v \in User : InWrite(v, p)
    <3>1. (CHOOSE v \in User : InWrite(v, p)) \in User
      BY <2>4
    <3>2. /\ Value[p] = Stored(CHOOSE v \in User : InWrite(v, p))
          /\ Value'[p] = Stored(CHOOSE v \in User : InWrite(v, p))'
      BY <2>1, <2>4 DEF Value
    <3>. QED BY <1>4, <2>2, <3>1, <3>2
  <2>. QED BY <2>3, <2>4
<1>6. Value'[req[u].path] = IF pc'[u] = "write" THEN Stored(u) ELSE disk'[req[u].path]
  <2>. PICK q \in Path : q = req[u].path
    BY <1>1
  <2>0. \A v \in User : InWrite(v, q)' => v = u
    BY <1>2, <1>3
  <2>1. CASE pc'[u] = "write"
    <3>1. InWrite(u, q)'
      BY <2>1 DEF InWrite, At
    <3>2. (CHOOSE v \in User : InWrite(v, q)') = u
      BY <2>0, <3>1
    <3>3. Value'[q] = Stored(CHOOSE v \in User : InWrite(v, q))'
      BY <3>1 DEF Value
    <3>. QED BY <1>4, <2>1, <3>2, <3>3
  <2>2. CASE pc'[u] # "write"
    <3>1. \A v \in User : ~InWrite(v, q)'
      BY <2>0, <2>2 DEF InWrite, At
    <3>. QED BY <2>2, <3>1 DEF Value
  <2>. QED BY <2>1, <2>2
<1>7. DOMAIN Value = Path /\ DOMAIN Value' = Path
      /\ Value = [p \in Path |-> Value[p]] /\ Value' = [p \in Path |-> Value'[p]]
  BY DEF Value
<1>. QED
  BY <1>1, <1>5, <1>6, <1>7

-----------------------------------------------------------------------------
(* Steps *)

\* A step of u that keeps its phase and every note is nothing to callers.
LEMMA Quiet ==
  ASSUME TypeOK, TypeOK', NEW u \in User, NEW step,
         Goto(u, step), PhaseAt(step) = PhaseAt(pc[u]),
         Value' = Value, UNCHANGED <<req, outcome>>
  PROVE  UNCHANGED <<Value, Call, Phase, outcome>>
<1>1. Phase' = [Phase EXCEPT ![u] = Phase[u]]
  BY PhaseMoves
<1>2. Phase' = Phase
  BY <1>1 DEF Phase
<1>3. Call' = Call
  BY CallSame
<1>. QED
  BY <1>2, <1>3

\* A request that is over has given its answer.
LEMMA FinishAnswers ==
  ASSUME TypeOK, TypeOK', NEW u \in User, NEW o, Finish(u, o),
         req' = req
  PROVE  /\ Phase' = [Phase EXCEPT ![u] = "idle"]
         /\ outcome' = [outcome EXCEPT ![u] = o]
         /\ Call' = Call
<1>1. Goto(u, "idle") /\ outcome' = [outcome EXCEPT ![u] = o]
  BY DEF Finish
<1>2. Phase' = [Phase EXCEPT ![u] = "idle"]
  BY <1>1, PhaseMoves DEF PhaseAt
<1>. QED
  BY <1>1, <1>2, CallSame

\* Only creates look for a name, and one that has found it has passed over none
\* that was free: nobody else changes notes meanwhile.
NamesTried ==
  \A u \in User : req[u].op = "create" =>
    /\ pc[u] \notin {"acquire", "exists", "compare", "snapshot"}
    /\ edits = 0 /\ pc[u] \in {"probe", "truncate", "write"} =>
         \E k \in 1..Len(Names) :
           /\ req[u].path = Names[k]
           /\ pc[u] # "write" => \A j \in 1..(k - 1) : disk[Names[j]] # NoNote
           /\ pc[u] = "truncate" => disk[Names[k]] = NoNote

LEMMA NamesTriedStep ==
  ASSUME CreatesAlone, TypeOK, TypeOK', StepsFit, NamesTried, [Next]_vars
  PROVE  NamesTried'
<1>. DEFINE Goal(u) ==
              /\ pc'[u] \notin {"acquire", "exists", "compare", "snapshot"}
              /\ edits' = 0 /\ pc'[u] \in {"probe", "truncate", "write"} =>
                   \E k \in 1..Len(Names) :
                     /\ req'[u].path = Names[k]
                     /\ pc'[u] # "write" => \A j \in 1..(k - 1) : disk'[Names[j]] # NoNote
                     /\ pc'[u] = "truncate" => disk'[Names[k]] = NoNote
<1>. SUFFICES ASSUME NEW u \in User, req'[u].op = "create"
              PROVE  Goal(u)
  BY DEF NamesTried
<1>0. \A v \in User : v = u
  BY DEF CreatesAlone, TypeOK, Request
<1>1. CASE UNCHANGED <<disk, req, pc, edits>>
  BY <1>1 DEF NamesTried
<1>2. CASE pc'[u] \in {"idle", "index", "unindex", "record", "remove"}
  BY <1>2
<1>3. ASSUME NEW p \in Path, Edit(p) PROVE Goal(u)
  <2>1. edits' # 0 /\ UNCHANGED <<req, pc>>
    BY <1>3 DEF Edit, TypeOK
  <2>. QED BY <2>1 DEF NamesTried
<1>4. CASE Begin(u)
  <2>1. StartCreate(u)
    BY <1>4 DEF Begin, StartSave, StartDelete, StartRestore, StartRestoreDeleted,
                Start, TypeOK
  <2>2. req'[u].path = Names[1] /\ pc'[u] = "probe"
    BY <2>1 DEF StartCreate, Start, Goto, TypeOK
  <2>3. 1 \in 1..Len(Names)
    BY ServiceAssumption
  <2>. QED BY <2>2, <2>3
<1>5. CASE Probe(u)
  <2>1. /\ disk' = disk /\ edits' = edits /\ pc[u] = "probe"
        /\ req[u].op = "create"
    BY <1>5 DEF Probe, At, bounds, TypeOK, Request
  <2>. SUFFICES ASSUME edits' = 0 PROVE Goal(u)
    BY <1>5, <2>1 DEF Probe, Goto, TypeOK
  <2>2. PICK k \in 1..Len(Names) :
          req[u].path = Names[k] /\ \A j \in 1..(k - 1) : disk[Names[j]] # NoNote
    BY <2>1 DEF NamesTried
  <2>3. CASE disk[req[u].path] = NoNote /\ Goto(u, "truncate") /\ UNCHANGED req
    <3>1. pc'[u] = "truncate"
      BY <2>3 DEF Goto, TypeOK
    <3>. QED BY <2>1, <2>2, <2>3, <3>1
  <2>4. ASSUME disk[req[u].path] # NoNote, pc' = pc, NEW i \in 1..(Len(Names) - 1),
               Names[i] = req[u].path, req' = [req EXCEPT ![u].path = Names[i + 1]]
        PROVE  Goal(u)
    <3>1. i = k /\ i + 1 \in 1..Len(Names)
      BY <2>2, <2>4, ServiceAssumption
    <3>2. req'[u].path = Names[i + 1]
      BY <2>4 DEF TypeOK, Request
    <3>3. \A j \in 1..((i + 1) - 1) : j \in 1..(k - 1) \/ j = k
      BY <3>1
    <3>4. \A j \in 1..((i + 1) - 1) : disk'[Names[j]] # NoNote
      BY <2>1, <2>2, <2>4, <3>3
    <3>. QED BY <2>1, <2>4, <3>1, <3>2, <3>4
  <2>. QED BY <1>5, <2>3, <2>4 DEF Probe
<1>6. CASE Truncate(u)
  <2>1. /\ pc[u] = "truncate" /\ pc'[u] = "write" /\ req' = req /\ edits' = edits
    BY <1>6 DEF Truncate, At, Goto, bounds, TypeOK
  <2>. QED BY <2>1 DEF NamesTried
<1>7. CASE \/ Acquire(u) \/ CheckExists(u) \/ CompareSave(u) \/ CompareRestore(u)
           \/ SnapshotEdits(u) \/ (At(u, "snapshot") /\ RecordFails(u))
  <2>1. req' = req /\ pc[u] \in {"acquire", "exists", "compare", "snapshot"}
    BY <1>7 DEF Acquire, CheckExists, CompareSave, CompareRestore, SnapshotEdits,
                RecordFails, At
  <2>. QED BY <2>1 DEF NamesTried
<1>8. CASE \/ Write(u) \/ WriteLost(u) \/ IndexNote(u) \/ RemoveFile(u) \/ Unindex(u)
           \/ RecordRevision(u) \/ WriteFails(u) \/ (At(u, "record") /\ RecordFails(u))
  <2>1. \E step \in {"idle", "index", "unindex", "record"} : Goto(u, step)
    BY <1>8 DEF Write, WriteLost, IndexNote, RemoveFile, Unindex, RecordRevision,
                WriteFails, RecordFails, Finish, At
  <2>2. pc'[u] \in {"idle", "index", "unindex", "record"}
    BY <2>1 DEF Goto, TypeOK
  <2>. QED BY <1>2, <2>2
<1>9. CASE UNCHANGED vars \/ PurgeTrash \/ ListTrash
  BY <1>1, <1>9 DEF vars, PurgeTrash, ListTrash, bounds
<1>10. ASSUME RecordFails(u) PROVE At(u, "record") \/ At(u, "snapshot")
  BY <1>10 DEF RecordFails
<1>. HIDE DEF Goal
<1>11. CASE \E v \in User : Begin(v) \/ Acquire(v) \/ Proceed(v) \/ WriteFails(v) \/ RecordFails(v)
  <2>1. Begin(u) \/ Acquire(u) \/ Proceed(u) \/ WriteFails(u) \/ RecordFails(u)
    BY ONLY <1>0, <1>11
  <2>. QED
    BY <1>4, <1>5, <1>6, <1>7, <1>8, <1>10, <2>1 DEF Proceed
<1>12. Goal(u)
  <2>1. CASE Next
    BY ONLY <2>1, <1>3, <1>9, <1>11 DEF Next
  <2>2. CASE UNCHANGED vars
    BY <2>2, <1>9
  <2>. QED
    BY <2>1, <2>2
<1>. QED
  BY <1>12

\* Where creates come from one user only, they try their names in order.
LEMMA NamesTriedInvariant ==
  ASSUME CreatesAlone
  PROVE  Spec => []NamesTried
<1>1. Init => NamesTried
  BY DEF Init, NamesTried
<1>2. Spec => []StepsFit
  BY KeptApart, ProgressInvariant, PTL
<1>3. /\ TypeOK /\ TypeOK' /\ StepsFit /\ NamesTried /\ [Next]_vars => NamesTried'
  BY NamesTriedStep
<1>. QED
  BY <1>1, <1>2, <1>3, TypeCorrect, PTL DEF Spec

Effect == [edits' = 0 => Register!Next]_<<Value, Call, Phase, outcome>>

\* A call of the service is a call of the register.
LEMMA BeginInvokes ==
  ASSUME TypeOK, TypeOK', NEW u \in User, Begin(u)
  PROVE  Register!Invoke(u)
<1>1. /\ disk' = disk /\ pc[u] = "idle"
      /\ outcome' = [outcome EXCEPT ![u] = "none"]
      /\ \E r : req' = [req EXCEPT ![u] = r]
      /\ Goto(u, "acquire") \/ Goto(u, "probe")
  BY DEF Begin, StartSave, StartDelete, StartRestore, StartRestoreDeleted, StartCreate,
         Start, At
<1>2. /\ pc'[u] \in {"acquire", "probe"}
      /\ \A v \in User \ {u} : pc'[v] = pc[v] /\ req'[v] = req[v]
  BY <1>1 DEF Goto, TypeOK
<1>3. Value' = Value
  BY <1>1, <1>2, ValueIdle
<1>4. Phase[u] = "idle" /\ Phase' = [Phase EXCEPT ![u] = "pending"]
  BY <1>1, PhaseMoves DEF PhaseAt
<1>5. \E r \in Register!Request : Call' = [Call EXCEPT ![u] = r]
  <2>1. Call'[u] \in Register!Request
    <3>1. req'[u] \in Request /\ Names[1] \in Path
      BY ServiceAssumption DEF TypeOK
    <3>. QED
      BY <3>1 DEF Call, Request, Register!Request
  <2>2. \A v \in User \ {u} : Call'[v] = Call[v]
    BY <1>2 DEF Call
  <2>3. /\ Call' = [v \in User |-> Call'[v]]
        /\ Call = [v \in User |-> Call[v]]
    BY DEF Call
  <2>. QED BY <2>1, <2>2, <2>3
<1>. QED
  BY <1>1, <1>3, <1>4, <1>5 DEF Register!Invoke

\* Every step before a note changes, and every one after it, is invisible.
LEMMA HiddenStep ==
  ASSUME TypeOK, TypeOK', LockHeld, Apart, Progress, edits = 0,
         NEW u \in User,
         \/ Probe(u) \/ Acquire(u) \/ CheckExists(u) \/ SnapshotEdits(u) \/ Write(u)
         \/ IndexNote(u) \/ Unindex(u) \/ (At(u, "snapshot") /\ RecordFails(u))
  PROVE  UNCHANGED <<Value, Call, Phase, outcome>>
<1>1. CASE Acquire(u) \/ CheckExists(u) \/ SnapshotEdits(u)
           \/ (At(u, "snapshot") /\ RecordFails(u))
  <2>1. /\ UNCHANGED <<disk, req, outcome>>
        /\ pc[u] \in {"acquire", "exists", "snapshot"}
        /\ \E step \in {"remove", "exists", "compare", "truncate"} : Goto(u, step)
    BY <1>1 DEF Acquire, CheckExists, SnapshotEdits, RecordFails, At, Goto
  <2>2. Value' = Value
    BY <2>1, ValueIdle DEF Goto, TypeOK
  <2>. QED
    BY <2>1, <2>2, Quiet DEF PhaseAt
<1>2. CASE IndexNote(u) \/ Unindex(u)
  <2>1. /\ UNCHANGED <<disk, req, outcome>>
        /\ pc[u] \in {"index", "unindex"} /\ Goto(u, "record")
    BY <1>2 DEF IndexNote, Unindex, At
  <2>2. Value' = Value
    BY <2>1, ValueIdle DEF Goto, TypeOK
  <2>. QED
    BY <2>1, <2>2, Quiet DEF PhaseAt
<1>3. CASE Write(u)
  <2>1. /\ UNCHANGED <<req, outcome>> /\ pc[u] = "write" /\ Goto(u, "index")
        /\ disk' = [disk EXCEPT ![req[u].path] = Stored(u)]
    BY <1>3 DEF Write, At
  <2>2. /\ pc'[u] = "index" /\ \A v \in User \ {u} : pc'[v] = pc[v]
        /\ disk'[req[u].path] = Stored(u)
        /\ \A p \in Path \ {req[u].path} : disk'[p] = disk[p]
    BY <2>1 DEF Goto, TypeOK, Request
  <2>3. Value' = [Value EXCEPT ![req[u].path] = Stored(u)]
    BY <2>1, <2>2, ValueStep DEF Holding
  <2>4. Value[req[u].path] = Stored(u)
    BY <2>1, ValueOwn DEF Holding
  <2>5. Value' = Value
    BY <2>3, <2>4 DEF Value
  <2>. QED
    BY <2>1, <2>5, Quiet DEF PhaseAt
<1>4. CASE Probe(u)
  <2>1. /\ UNCHANGED <<disk, outcome>> /\ pc[u] = "probe"
        /\ req[u].op = "create" /\ req[u] \in Request
    BY <1>4 DEF Probe, At, LockHeld, TypeOK
  <2>2. CASE Goto(u, "truncate") /\ req' = req
    <3>1. Value' = Value
      BY <2>1, <2>2, ValueIdle DEF Goto, TypeOK
    <3>. QED BY <2>1, <2>2, <3>1, Quiet DEF PhaseAt
  <2>3. ASSUME pc' = pc, NEW p, req' = [req EXCEPT ![u].path = p]
        PROVE  UNCHANGED <<Value, Call, Phase, outcome>>
    <3>1. /\ req'[u] = [req[u] EXCEPT !.path = p]
          /\ \A v \in User \ {u} : req'[v] = req[v]
      BY <2>3 DEF TypeOK
    <3>2. Value' = Value
      BY <2>1, <2>3, <3>1, ValueIdle
    <3>3. Call' = Call
      <4>1. /\ req'[u].op = "create"
            /\ [req'[u] EXCEPT !.path = Names[1]] = [req[u] EXCEPT !.path = Names[1]]
        BY <2>1, <3>1 DEF Request
      <4>2. \A v \in User : Call'[v] = Call[v]
        BY <2>1, <3>1, <4>1 DEF Call
      <4>. QED BY <4>2 DEF Call
    <3>4. Phase' = Phase
      BY <2>3 DEF Phase
    <3>. QED BY <2>1, <3>2, <3>3, <3>4
  <2>. QED BY <1>4, <2>2, <2>3 DEF Probe
<1>. QED
  BY <1>1, <1>2, <1>3, <1>4

\* A comparison goes on unseen, or is the instant of the refusal it answers.
LEMMA CompareStep ==
  ASSUME TypeOK, TypeOK', Apart, StepsFit,
         NEW u \in User, CompareSave(u) \/ CompareRestore(u)
  PROVE  \/ UNCHANGED <<Value, Call, Phase, outcome>>
         \/ Register!Conflict(u) \/ Register!Unchanged(u) \/ Register!Refuse(u)
<1>1. /\ UNCHANGED <<disk, req>> /\ pc[u] = "compare" /\ u \in User
  BY DEF CompareSave, CompareRestore, At
<1>2. /\ Phase[u] = "pending" /\ Call[u] = req[u] /\ Call' = Call
      /\ Value[req[u].path] = disk[req[u].path]
  BY <1>1, CallIs, CallSame, ValueOwn
  DEF Phase, Holding, CompareSave, CompareRestore
<1>3. CASE \E step \in {"truncate", "snapshot"} : Goto(u, step) /\ outcome' = outcome
  <2>1. Value' = Value
    BY <1>1, <1>3, ValueIdle DEF Goto, TypeOK
  <2>. QED
    BY <1>1, <1>3, <2>1, Quiet DEF PhaseAt
<1>4. ASSUME NEW o, Finish(u, o)
      PROVE  Register!Answer(u, o)
  <2>1. Value' = Value
    BY <1>1, <1>4, ValueIdle, FinishKeepsLocks
  <2>. QED
    BY <1>1, <1>4, <2>1, FinishAnswers DEF Register!Answer
<1>5. CASE CompareSave(u) /\ Finish(u, "conflict")
           /\ disk[req[u].path] # NoNote /\ disk[req[u].path] # req[u].base
  <2>1. req[u].op = "save" /\ req[u].base # NoBase
    BY <1>1, <1>5 DEF CompareSave, StepsFit
  <2>. QED
    BY <1>2, <1>4, <1>5, <2>1 DEF Register!Conflict, Register!Take, Register!Unmatched
<1>6. CASE CompareRestore(u) /\ Finish(u, "error")
  BY <1>2, <1>4, <1>6 DEF Register!Refuse
<1>7. CASE CompareRestore(u) /\ Finish(u, "unchanged") /\ disk[req[u].path] = req[u].content
  <2>1. req[u].op = "restore"
    BY <1>7 DEF CompareRestore
  <2>. QED
    BY <1>2, <1>4, <1>7, <2>1 DEF Register!Unchanged, Register!Take
<1>. QED
  BY <1>3, <1>5, <1>6, <1>7 DEF CompareSave, CompareRestore

\* The truncation of the file is the instant at which a save, a restore or a
\* create takes effect.
LEMMA TruncateStep ==
  ASSUME CreatesAlone, TypeOK, TypeOK', Apart, StepsFit, NamesTried, Progress, edits = 0,
         NEW u \in User, Truncate(u)
  PROVE  Register!Save(u) \/ Register!Restore(u) \/ Register!Create(u)
<1>1. /\ UNCHANGED <<req, outcome>> /\ pc[u] = "truncate" /\ Goto(u, "write")
      /\ disk' = [disk EXCEPT ![req[u].path] = Empty]
  BY DEF Truncate, At
<1>2. /\ pc'[u] = "write" /\ \A v \in User \ {u} : pc'[v] = pc[v]
      /\ \A p \in Path \ {req[u].path} : disk'[p] = disk[p]
  BY <1>1 DEF Goto, TypeOK, Request
<1>3. Value' = [Value EXCEPT ![req[u].path] = Stored(u)]
  BY <1>1, <1>2, ValueStep DEF Holding
<1>4. Value[req[u].path] = disk[req[u].path]
  BY <1>1, ValueOwn DEF Holding
<1>5. /\ Phase[u] = "pending" /\ Phase' = [Phase EXCEPT ![u] = "applied"]
      /\ Call[u].op = req[u].op /\ Call' = Call
      /\ req[u].op # "create" => Call[u] = req[u]
      /\ Register!Stored(u) = Stored(u)
  BY <1>1, PhaseMoves, CallIs, CallSame, StoredIs DEF PhaseAt
<1>6. Register!Apply(u, req[u].path, Stored(u))
  BY <1>1, <1>3, <1>5 DEF Register!Apply
<1>7. Worked(u) /\ req[u].op \in {"save", "restore", "create"}
  <2>1. req[u].op \in Op /\ Op \subseteq {"save", "create", "delete", "restore"}
    BY ServiceAssumption DEF TypeOK, Request
  <2>. QED BY <1>1, <2>1 DEF Progress, StepsFit
<1>8. CASE req[u].op = "save"
  <2>1. ~Register!Unmatched(u)
    BY <1>1, <1>4, <1>5, <1>7, <1>8 DEF Register!Unmatched, Worked
  <2>. QED
    BY <1>5, <1>6, <1>8, <2>1 DEF Register!Save, Register!Take
<1>9. CASE req[u].op = "restore"
  <2>1. disk[req[u].path] # req[u].content /\ Stored(u) = req[u].content
    BY <1>1, <1>7, <1>9 DEF Worked, Stored
  <2>. QED
    BY <1>4, <1>5, <1>6, <1>9, <2>1 DEF Register!Restore, Register!Take
<1>10. CASE req[u].op = "create"
  <2>1. \A v \in User : v = u
    BY <1>10 DEF CreatesAlone, TypeOK, Request
  <2>2. Value = disk
    BY <1>1, <2>1, ValueDisk
  <2>3. PICK k \in 1..Len(Names) :
          /\ req[u].path = Names[k] /\ disk[Names[k]] = NoNote
          /\ \A j \in 1..(k - 1) : disk[Names[j]] # NoNote
    BY <1>1, <1>10 DEF NamesTried
  <2>. QED
    BY <1>5, <1>6, <1>10, <2>2, <2>3 DEF Register!Create, Register!Take
<1>. QED
  BY <1>7, <1>8, <1>9, <1>10

\* The removal of the file is the instant at which a delete takes effect.
LEMMA RemoveStep ==
  ASSUME TypeOK, TypeOK', Apart, StepsFit,
         NEW u \in User, RemoveFile(u)
  PROVE  Register!Delete(u) \/ Register!NotFound(u)
<1>1. req' = req /\ pc[u] = "remove" /\ req[u].op = "delete"
  BY DEF RemoveFile, At, StepsFit
<1>2. /\ Phase[u] = "pending" /\ Call[u] = req[u] /\ Call' = Call
      /\ Value[req[u].path] = disk[req[u].path]
  BY <1>1, CallIs, CallSame, ValueOwn DEF Phase, Holding
<1>3. CASE disk[req[u].path] = NoNote
  <2>1. disk' = disk /\ Finish(u, "notfound")
    BY <1>3 DEF RemoveFile
  <2>2. Value' = Value
    BY <1>1, <2>1, ValueIdle, FinishKeepsLocks
  <2>. QED
    BY <1>1, <1>2, <1>3, <2>1, <2>2, FinishAnswers
    DEF Register!NotFound, Register!Take, Register!Answer
<1>4. CASE disk[req[u].path] # NoNote
  <2>1. /\ disk' = [disk EXCEPT ![req[u].path] = NoNote] /\ outcome' = outcome
        /\ Goto(u, "unindex")
    BY <1>4 DEF RemoveFile
  <2>2. /\ pc'[u] = "unindex" /\ \A v \in User \ {u} : pc'[v] = pc[v]
        /\ disk'[req[u].path] = NoNote
        /\ \A p \in Path \ {req[u].path} : disk'[p] = disk[p]
    BY <2>1 DEF Goto, TypeOK, Request
  <2>3. Value' = [Value EXCEPT ![req[u].path] = NoNote]
    BY <1>1, <2>2, ValueStep DEF Holding
  <2>4. Phase' = [Phase EXCEPT ![u] = "applied"]
    BY <2>1, PhaseMoves DEF PhaseAt
  <2>. QED
    BY <1>1, <1>2, <1>4, <2>1, <2>3, <2>4
    DEF Register!Delete, Register!Take, Register!Apply
<1>. QED
  BY <1>3, <1>4

\* An answer after the effect is "ok", or the error of the write that spoiled
\* the note; one before it is an error without effect.
LEMMA AnswerStep ==
  ASSUME TypeOK, TypeOK', Apart, StepsFit, NamesTried, Progress, edits = 0,
         NEW u \in User,
         RecordRevision(u) \/ WriteFails(u) \/ (At(u, "record") /\ RecordFails(u))
  PROVE  Register!Done(u) \/ Register!Refuse(u) \/ Register!Spoil(u)
<1>1. /\ UNCHANGED req
      /\ Call[u].op = req[u].op
      /\ req[u].op # "create" => Call[u] = req[u]
  BY CallIs DEF RecordRevision, WriteFails, RecordFails
<1>2. CASE pc[u] # "write"
  <2>1. \/ pc[u] = "record" /\ Finish(u, "ok")
        \/ pc[u] = "truncate" /\ Finish(u, "error")
    BY <1>2 DEF RecordRevision, WriteFails, RecordFails, At
  <2>2. Value' = Value
    <3>1. UNCHANGED disk
      BY <1>2 DEF RecordRevision, WriteFails, RecordFails, At
    <3>. QED BY <1>1, <2>1, <3>1, ValueIdle, FinishKeepsLocks
  <2>3. CASE pc[u] = "record" /\ Finish(u, "ok")
    <3>1. Phase[u] = "applied"
      BY <2>3 DEF Phase
    <3>. QED
      BY <1>1, <2>2, <2>3, <3>1, FinishAnswers DEF Register!Done, Register!Answer
  <2>4. CASE pc[u] = "truncate" /\ Finish(u, "error")
    <3>1. Phase[u] = "pending"
      BY <2>4 DEF Phase
    <3>. QED
      BY <1>1, <2>2, <2>4, <3>1, FinishAnswers DEF Register!Refuse, Register!Answer
  <2>. QED BY <2>1, <2>3, <2>4
<1>3. CASE pc[u] = "write"
  <2>1. Finish(u, "error")
    BY <1>3 DEF RecordRevision, WriteFails, RecordFails, At
  <2>2. pc'[u] = "idle" /\ \A v \in User \ {u} : pc'[v] = pc[v]
    BY <2>1, FinishKeepsLocks
  <2>3. PICK c \in Pieces : /\ disk'[req[u].path] = c
                            /\ \A p \in Path \ {req[u].path} : disk'[p] = disk[p]
    <3>1. disk[req[u].path] = Empty /\ req[u].path \in Path
      BY <1>3 DEF Progress, Worked, TypeOK, Request
    <3>2. disk' = disk \/ \E c \in Pieces : disk' = [disk EXCEPT ![req[u].path] = c]
      BY <1>3 DEF RecordRevision, WriteFails, RecordFails, At
    <3>. QED BY <3>1, <3>2, ServiceAssumption DEF TypeOK
  <2>4. Value' = [Value EXCEPT ![req[u].path] = c] /\ req[u].op # "delete"
    <3>1. Value' = [Value EXCEPT ![req[u].path] = disk'[req[u].path]]
      BY <1>1, <1>3, <2>2, <2>3, ValueStep DEF Holding
    <3>. QED BY <1>3, <2>3, <3>1 DEF StepsFit
  <2>5. Phase[u] = "applied"
    BY <1>3 DEF Phase
  <2>6. req[u].op = "create" => req[u].path \in {Names[k] : k \in 1..Len(Names)}
    BY <1>3 DEF NamesTried
  <2>7. \E p \in IF Call[u].op = "create" THEN {Names[k] : k \in 1..Len(Names)}
                 ELSE {Call[u].path} : \E piece \in Pieces : Value' = [Value EXCEPT ![p] = piece]
    BY <1>1, <2>4, <2>6
  <2>. QED
    BY <1>1, <2>1, <2>4, <2>5, <2>7, FinishAnswers DEF Register!Spoil
<1>. QED
  BY <1>2, <1>3

-----------------------------------------------------------------------------
(* The refinement *)

\* Until another program writes the vault, the service is the register: to its
\* callers each request happens at one instant.
THEOREM Implements ==
  ASSUME CreatesAlone
  PROVE  Spec => ImplementsRegister
<1>1. Init /\ TypeOK => Register!Init
  <2>. SUFFICES ASSUME Init, TypeOK PROVE Register!Init
    OBVIOUS
  <2>1. Value = disk
    BY DEF Init, Value, InWrite, At
  <2>2. Phase = [u \in User |-> "idle"]
    BY DEF Init, Phase
  <2>3. Call \in [User -> Register!Request]
    BY CallIs DEF Call
  <2>. QED
    BY <2>1, <2>2, <2>3 DEF Init, Register!Init, TypeOK, Note
<1>2. /\ TypeOK /\ TypeOK' /\ LockHeld /\ Apart /\ StepsFit /\ NamesTried /\ Progress
      /\ [Next]_vars
      => Effect
  <2>. SUFFICES ASSUME TypeOK, TypeOK', LockHeld, Apart, StepsFit, NamesTried, Progress,
                       [Next]_vars, edits' = 0
                PROVE  Register!Next \/ UNCHANGED <<Value, Call, Phase, outcome>>
    BY DEF Effect
  <2>1. CASE UNCHANGED vars
    BY <2>1 DEF vars, Value, InWrite, At, Stored, Call, Phase
  <2>2. CASE PurgeTrash \/ ListTrash
    <3>1. UNCHANGED <<disk, req, pc, outcome>>
      BY <2>2 DEF PurgeTrash, ListTrash
    <3>. QED
      BY <3>1 DEF Value, InWrite, At, Stored, Call, Phase
  <2>3. ASSUME Next PROVE edits = 0
    BY <2>3, BoundsGrow DEF TypeOK
  <2>4. ASSUME NEW p \in Path, Edit(p) PROVE FALSE
    BY <2>4 DEF Edit, TypeOK
  <2>5. ASSUME NEW u \in User, WriteLost(u) PROVE FALSE
    BY <2>5 DEF WriteLost, TypeOK, bounds
  <2>6. ASSUME NEW u \in User, Begin(u) PROVE Register!Next
    BY <2>6, BeginInvokes DEF Register!Next
  <2>7. ASSUME NEW u \in User, edits = 0,
               \/ Probe(u) \/ Acquire(u) \/ CheckExists(u) \/ SnapshotEdits(u) \/ Write(u)
               \/ IndexNote(u) \/ Unindex(u) \/ (At(u, "snapshot") /\ RecordFails(u))
        PROVE  UNCHANGED <<Value, Call, Phase, outcome>>
    BY <2>7, HiddenStep
  <2>8. ASSUME NEW u \in User, CompareSave(u) \/ CompareRestore(u)
        PROVE  Register!Next \/ UNCHANGED <<Value, Call, Phase, outcome>>
    BY <2>8, CompareStep DEF Register!Next
  <2>9. ASSUME NEW u \in User, edits = 0, Truncate(u) PROVE Register!Next
    BY <2>9, TruncateStep DEF Register!Next
  <2>10. ASSUME NEW u \in User, RemoveFile(u) PROVE Register!Next
    BY <2>10, RemoveStep DEF Register!Next
  <2>11. ASSUME NEW u \in User, edits = 0,
                RecordRevision(u) \/ WriteFails(u) \/ (At(u, "record") /\ RecordFails(u))
         PROVE  Register!Next
    BY <2>11, AnswerStep DEF Register!Next
  <2>12. ASSUME NEW u \in User, RecordFails(u) PROVE At(u, "record") \/ At(u, "snapshot")
    BY <2>12 DEF RecordFails
  <2>. QED
    BY <2>1, <2>2, <2>3, <2>4, <2>5, <2>6, <2>7, <2>8, <2>9, <2>10, <2>11, <2>12
    DEF Next, Proceed
<1>. QED
  BY <1>1, <1>2, TypeCorrect, LocksHeld, KeptApart, NamesTriedInvariant,
     ProgressInvariant, PTL
  DEF Spec, ImplementsRegister, Effect
=============================================================================
