------------------------- MODULE NoteServiceProofs -------------------------
(***************************************************************************)
(* Proofs about NoteService for any users, notes, contents and bounds.     *)
(***************************************************************************)
EXTENDS NoteService, SequenceTheorems, TLAPS

-----------------------------------------------------------------------------
(* The history operators *)

\* What the newest revision holds is a note or none.
LEMMA LatestType ==
  ASSUME H!HistoryTypeOK, NEW p \in Path
  PROVE  H!Latest(p) \in Note
<1>1. revs[p] \in Seq(H!Revision)
  BY DEF H!HistoryTypeOK
<1>2. CASE revs[p] = << >>
  BY <1>2 DEF H!Latest, Note
<1>3. CASE revs[p] # << >>
  <2>1. Len(revs[p]) \in 1..Len(revs[p])
    BY <1>1, <1>3, EmptySeq
  <2>2. revs[p][Len(revs[p])] \in H!Revision
    BY <1>1, <2>1, ElementOfSeq
  <2>. QED
    BY <1>3, <2>2 DEF H!Latest, H!Revision, Note
<1>. QED
  BY <1>2, <1>3

\* Record keeps the history well typed.
LEMMA RecordType ==
  ASSUME H!HistoryTypeOK, NEW a \in Actor, NEW p \in Path,
         NEW act \in H!Action, NEW now \in Note,
         H!Record(a, p, act, now)
  PROVE  H!HistoryTypeOK'
<1>1. CASE now = H!Latest(p)
  BY <1>1 DEF H!Record, H!HistoryTypeOK
<1>2. CASE now # H!Latest(p)
  <2> DEFINE r == [actor |-> a, action |-> act, content |-> now]
  <2>1. r \in H!Revision
    BY DEF H!Revision, Note
  <2> HIDE DEF r
  <2>2. Append(revs[p], r) \in Seq(H!Revision)
    BY <2>1 DEF H!HistoryTypeOK
  <2>3. revs' = [revs EXCEPT ![p] = Append(revs[p], r)]
    BY <1>2 DEF H!Record, r
  <2>4. revs' \in [Path -> Seq(H!Revision)]
    BY <2>2, <2>3 DEF H!HistoryTypeOK
  <2>5. trash' \in [Path -> Note]
    BY <1>2, LatestType DEF H!Record, H!HistoryTypeOK, Note
  <2>. QED
    BY <2>4, <2>5 DEF H!HistoryTypeOK, Note
<1>. QED
  BY <1>1, <1>2

\* After Record the newest revision of the note holds what was recorded, and
\* the other notes' histories are as they were.
LEMMA RecordLatest ==
  ASSUME H!HistoryTypeOK, NEW a \in Actor, NEW p \in Path,
         NEW act \in H!Action, NEW now \in Note,
         H!Record(a, p, act, now)
  PROVE  /\ H!Latest(p)' = now
         /\ \A q \in Path \ {p} : H!Latest(q)' = H!Latest(q)
<1>1. CASE now = H!Latest(p)
  BY <1>1 DEF H!Record, H!Latest
<1>2. CASE now # H!Latest(p)
  <2> DEFINE r == [actor |-> a, action |-> act, content |-> now]
  <2>1. r \in H!Revision /\ r.content = now
    BY DEF H!Revision, Note
  <2>2. revs[p] \in Seq(H!Revision)
    BY DEF H!HistoryTypeOK
  <2>3. revs' = [revs EXCEPT ![p] = Append(revs[p], r)]
    BY <1>2 DEF H!Record
  <2> HIDE DEF r
  <2>4. revs'[p] = Append(revs[p], r) /\ \A q \in Path \ {p} : revs'[q] = revs[q]
    BY <2>3 DEF H!HistoryTypeOK
  <2>5. revs'[p] # << >> /\ revs'[p][Len(revs'[p])] = r
    BY <2>1, <2>2, <2>4, AppendProperties
  <2>. QED
    BY <2>1, <2>4, <2>5 DEF H!Latest
<1>. QED
  BY <1>1, <1>2

\* A revision that Record adds is the one of its arguments.
LEMMA RecordAdds ==
  ASSUME H!HistoryTypeOK, NEW a \in Actor, NEW p \in Path,
         NEW act \in H!Action, NEW now \in Note,
         H!Record(a, p, act, now), NEW q \in Path, revs'[q] # revs[q]
  PROVE  /\ q = p
         /\ revs'[q][Len(revs'[q])].actor = a
         /\ revs'[q][Len(revs'[q])].content = now
<1> DEFINE r == [actor |-> a, action |-> act, content |-> now]
<1>1. revs' = [revs EXCEPT ![p] = Append(revs[p], r)]
  BY DEF H!Record
<1>2. r \in H!Revision /\ revs[p] \in Seq(H!Revision)
  BY DEF H!Revision, Note, H!HistoryTypeOK
<1>3. q = p /\ revs'[q] = Append(revs[p], r)
  BY <1>1 DEF H!HistoryTypeOK
<1>4. r.actor = a /\ r.content = now
  OBVIOUS
<1> HIDE DEF r
<1>5. revs'[q][Len(revs'[q])] = r
  BY <1>2, <1>3, AppendProperties, LenProperties
<1>. QED
  BY <1>3, <1>4, <1>5

\* Record loses no revision, and what it recorded can be restored.
LEMMA RecordRestorable ==
  ASSUME H!HistoryTypeOK, NEW a \in Actor, NEW p \in Path,
         NEW act \in H!Action, NEW now \in Note,
         H!Record(a, p, act, now)
  PROVE  /\ \A q \in Path : H!Restorable(q) \subseteq H!Restorable(q)'
         /\ now # NoNote => now \in H!Restorable(p)'
<1>1. CASE now = H!Latest(p)
  <2>1. now # NoNote => revs[p] # << >> /\ now = revs[p][Len(revs[p])].content
    BY <1>1 DEF H!Latest
  <2>2. revs[p] # << >> => Len(revs[p]) \in 1..Len(revs[p])
    BY EmptySeq DEF H!HistoryTypeOK
  <2>3. revs' = revs
    BY <1>1 DEF H!Record
  <2>. QED
    BY <2>1, <2>2, <2>3 DEF H!Restorable
<1>2. CASE now # H!Latest(p)
  <2> DEFINE r == [actor |-> a, action |-> act, content |-> now]
  <2>1. r \in H!Revision /\ r.content = now
    BY DEF H!Revision, Note
  <2>2. revs[p] \in Seq(H!Revision)
    BY DEF H!HistoryTypeOK
  <2>3. revs' = [revs EXCEPT ![p] = Append(revs[p], r)]
    BY <1>2 DEF H!Record
  <2> HIDE DEF r
  <2>4. revs'[p] = Append(revs[p], r) /\ \A q \in Path \ {p} : revs'[q] = revs[q]
    BY <2>3 DEF H!HistoryTypeOK
  <2>5. /\ Len(revs'[p]) = Len(revs[p]) + 1 /\ Len(revs[p]) \in Nat
        /\ revs'[p][Len(revs[p]) + 1] = r
        /\ \A k \in 1..Len(revs[p]) : revs'[p][k] = revs[p][k]
    BY <2>1, <2>2, <2>4, AppendProperties, LenProperties
  <2>6. now # NoNote => now \in H!Restorable(p)'
    <3>1. Len(revs[p]) + 1 \in 1..Len(revs'[p])
      BY <2>5
    <3>. QED BY <2>1, <2>5, <3>1 DEF H!Restorable
  <2>7. H!Restorable(p) \subseteq H!Restorable(p)'
    <3>1. \A k \in 1..Len(revs[p]) : k \in 1..Len(revs'[p])
      BY <2>5
    <3>. QED BY <2>5, <3>1 DEF H!Restorable
  <2>8. \A q \in Path \ {p} : H!Restorable(q)' = H!Restorable(q)
    BY <2>4 DEF H!Restorable
  <2>. QED
    BY <2>6, <2>7, <2>8
<1>. QED
  BY <1>1, <1>2

\* A deletion that Record records enters the trash with the note's last content;
\* the entries of other notes are as they were.
LEMMA RecordTrash ==
  ASSUME H!HistoryTypeOK, TrashIsLastContent, NEW a \in Actor, NEW p \in Path,
         NEW act \in H!Action, NEW now \in Note,
         H!Record(a, p, act, now)
  PROVE  /\ TrashIsLastContent'
         /\ now = NoNote /\ H!Latest(p) # NoNote => trash'[p] = H!Latest(p)
<1>1. CASE now = H!Latest(p)
  BY <1>1 DEF H!Record, TrashIsLastContent, H!Latest
<1>2. CASE now # H!Latest(p)
  <2> DEFINE r == [actor |-> a, action |-> act, content |-> now]
  <2>1. r \in H!Revision /\ r.content = now
    BY DEF H!Revision, Note
  <2>2. revs[p] \in Seq(H!Revision)
    BY DEF H!HistoryTypeOK
  <2>3. revs' = [revs EXCEPT ![p] = Append(revs[p], r)]
    BY <1>2 DEF H!Record
  <2>4. trash' = [trash EXCEPT ![p] = IF now = NoNote THEN H!Latest(p) ELSE NoNote]
    BY <1>2 DEF H!Record
  <2> HIDE DEF r
  <2>5. revs'[p] = Append(revs[p], r) /\ \A q \in Path \ {p} : revs'[q] = revs[q]
    BY <2>3 DEF H!HistoryTypeOK
  <2>6. /\ trash'[p] = IF now = NoNote THEN H!Latest(p) ELSE NoNote
        /\ \A q \in Path \ {p} : trash'[q] = trash[q]
    BY <2>4 DEF H!HistoryTypeOK
  <2>7. trash'[p] # NoNote =>
          H!Latest(p)' = NoNote /\ trash'[p] = revs'[p][Len(revs'[p]) - 1].content
    <3>1. SUFFICES ASSUME now = NoNote, H!Latest(p) # NoNote
                   PROVE  H!Latest(p)' = NoNote
                          /\ trash'[p] = revs'[p][Len(revs'[p]) - 1].content
      BY <2>6
    <3>2. H!Latest(p)' = now
      BY RecordLatest
    <3>3. revs[p] # << >> /\ H!Latest(p) = revs[p][Len(revs[p])].content
      BY <3>1 DEF H!Latest
    <3>4. Len(revs[p]) \in 1..Len(revs[p]) /\ Len(revs[p]) \in Nat
      BY <2>2, <3>3, EmptySeq, LenProperties
    <3>5. Len(revs'[p]) - 1 = Len(revs[p]) /\ revs'[p][Len(revs[p])] = revs[p][Len(revs[p])]
      BY <2>1, <2>2, <2>5, <3>4, AppendProperties
    <3>. QED BY <2>6, <3>1, <3>2, <3>3, <3>5
  <2>8. \A q \in Path \ {p} : H!Latest(q)' = H!Latest(q)
    BY RecordLatest
  <2>9. TrashIsLastContent'
    <3> SUFFICES ASSUME NEW q \in Path, trash'[q] # NoNote
                 PROVE  H!Latest(q)' = NoNote
                        /\ trash'[q] = revs'[q][Len(revs'[q]) - 1].content
      BY DEF TrashIsLastContent
    <3>1. CASE q = p
      BY <2>7, <3>1
    <3>2. CASE q # p
      BY <2>5, <2>6, <2>8, <3>2 DEF TrashIsLastContent
    <3>. QED BY <3>1, <3>2
  <2>. QED
    BY <2>6, <2>9
<1>. QED
  BY <1>1, <1>2

-----------------------------------------------------------------------------
(* Type correctness *)

\* A request that ends leaves the control variables well typed.
LEMMA FinishType ==
  ASSUME TypeOK, NEW u \in User, NEW o, Finish(u, o),
         o \in {"none", "ok", "conflict", "unchanged", "notfound", "error"}
  PROVE  /\ pc' \in [User -> Step]
         /\ lock' \in [Path -> User \cup {NoUser}]
         /\ outcome' \in [User -> {"none", "ok", "conflict", "unchanged",
                                   "notfound", "error"}]
BY DEF TypeOK, Finish, Goto, Step

\* Starting a well-typed request keeps the state well typed.
LEMMA StartType ==
  ASSUME TypeOK, H!HistoryTypeOK', NEW u \in User, NEW r, r.op \in Op => r \in Request,
         NEW step \in {"acquire", "probe"}, Start(u, r, step)
  PROVE  TypeOK'
BY ServiceAssumption DEF TypeOK, Start, Goto, At, Step, Note, H!HistoryTypeOK

\* Listing the trash keeps the history well typed.
LEMMA DeletedType ==
  ASSUME TypeOK, trash' = H!Deleted(disk), UNCHANGED revs
  PROVE  H!HistoryTypeOK'
BY DEF TypeOK, H!Deleted, H!HistoryTypeOK

\* The written content is a content.
LEMMA StoredType ==
  ASSUME TypeOK, NEW u \in User
  PROVE  Stored(u) \in Content
BY ServiceAssumption DEF TypeOK, Request, Stored

LEMMA InitTypes == Init => TypeOK
<1> SUFFICES ASSUME Init PROVE TypeOK
  OBVIOUS
<1>1. H!HistoryTypeOK
  <2>1. \A p \in Path : disk[p] # NoNote =>
          [actor |-> Local, action |-> "init", content |-> disk[p]] \in H!Revision
    BY DEF Init, H!Revision, Actor, H!Action, Note
  <2>2. \A p \in Path : revs[p] \in Seq(H!Revision)
    BY <2>1 DEF Init, H!Snapshot
  <2>. QED
    BY <2>2 DEF Init, H!Snapshot, H!HistoryTypeOK
<1>2. req \in [User -> Request]
  <2>1. (CHOOSE op \in Op : TRUE) \in Op
    BY ServiceAssumption
  <2>2. Names[1] \in Path
    BY ServiceAssumption, EmptySeq, ElementOfSeq
  <2>. QED
    BY <2>1, <2>2, ServiceAssumption DEF Init, Request
<1>. QED
  BY <1>1, <1>2, ServiceAssumption DEF Init, TypeOK, Step, Note

LEMMA TypeStep ==
  ASSUME TypeOK, [Next]_vars
  PROVE  TypeOK'
<1>a. /\ Op \subseteq {"save", "create", "delete", "restore"}
      /\ Op \subseteq H!Action /\ User \subseteq Actor /\ External \in Actor
  BY ServiceAssumption DEF H!Action, Actor
<1>1. ASSUME NEW u \in User, StartSave(u) PROVE TypeOK'
  BY <1>1, StartType DEF StartSave, Request, TypeOK, H!HistoryTypeOK
<1>2. ASSUME NEW u \in User, StartDelete(u) PROVE TypeOK'
  BY <1>2, StartType, ServiceAssumption DEF StartDelete, Request, TypeOK, H!HistoryTypeOK
<1>3. ASSUME NEW u \in User, StartRestore(u) PROVE TypeOK'
  <2>1. PICK p \in Path : \E c \in H!Restorable(p) :
          Start(u, [op |-> "restore", path |-> p, content |-> c, base |-> NoBase], "acquire")
    BY <1>3 DEF StartRestore
  <2>a. PICK c \in H!Restorable(p) :
          Start(u, [op |-> "restore", path |-> p, content |-> c, base |-> NoBase], "acquire")
    BY <2>1
  <2>2. c \in Content
    <3>1. PICK k \in 1..Len(revs[p]) : c = revs[p][k].content
      BY DEF H!Restorable
    <3>2. revs[p][k] \in H!Revision
      BY ElementOfSeq DEF TypeOK, H!HistoryTypeOK
    <3>. QED
      BY <3>1, <3>2 DEF H!Restorable, H!Revision
  <2>3. H!HistoryTypeOK'
    BY <1>3 DEF StartRestore, TypeOK, H!HistoryTypeOK
  <2>. QED
    BY <2>a, <2>2, <2>3, StartType DEF Request
<1>4. ASSUME NEW u \in User, StartRestoreDeleted(u) PROVE TypeOK'
  <2>1. H!HistoryTypeOK'
    BY <1>4, DeletedType DEF StartRestoreDeleted
  <2>2. PICK p \in Path :
          /\ trash'[p] # NoNote
          /\ Start(u, [op |-> "restore", path |-> p, content |-> trash'[p],
                       base |-> NoBase], "acquire")
    BY <1>4 DEF StartRestoreDeleted
  <2>3. trash'[p] \in Content
    BY <2>1, <2>2 DEF H!HistoryTypeOK
  <2>. QED
    BY <2>1, <2>2, <2>3, StartType DEF Request
<1>5. ASSUME NEW u \in User, StartCreate(u) PROVE TypeOK'
  <2>1. Names[1] \in Path
    BY ServiceAssumption, EmptySeq, ElementOfSeq
  <2>. QED
    BY <1>5, <2>1, StartType DEF StartCreate, Request, TypeOK, H!HistoryTypeOK
<1>6. ASSUME NEW u \in User, Acquire(u) PROVE TypeOK'
  BY <1>6 DEF Acquire, Goto, At, TypeOK, Step, bounds, H!HistoryTypeOK
<1>7. ASSUME NEW u \in User, Probe(u) PROVE TypeOK'
  <2>1. CASE UNCHANGED req
    BY <1>7, <2>1 DEF Probe, Goto, At, TypeOK, Step, bounds, H!HistoryTypeOK
  <2>2. ASSUME NEW k \in 1..(Len(Names) - 1),
               req' = [req EXCEPT ![u].path = Names[k + 1]], UNCHANGED pc
        PROVE  TypeOK'
    <3>1. Names[k + 1] \in Path
      BY ServiceAssumption, LenProperties, ElementOfSeq
    <3>2. req' \in [User -> Request]
      BY <2>2, <3>1 DEF TypeOK, Request
    <3>. QED
      BY <1>7, <2>2, <3>2 DEF Probe, TypeOK, bounds, H!HistoryTypeOK
  <2>. QED
    BY <1>7, <2>1, <2>2 DEF Probe
<1>8. ASSUME NEW u \in User, CheckExists(u) PROVE TypeOK'
  BY <1>8 DEF CheckExists, Goto, At, TypeOK, Step, bounds, H!HistoryTypeOK
<1>9. ASSUME NEW u \in User, CompareSave(u) PROVE TypeOK'
  <2>1. seen' \in [User -> Note]
    BY <1>9 DEF CompareSave, TypeOK, Request
  <2>. QED
    BY <1>9, <2>1, FinishType DEF CompareSave, Goto, TypeOK, Step, bounds, H!HistoryTypeOK
<1>10. ASSUME NEW u \in User, CompareRestore(u) PROVE TypeOK'
  <2>1. seen' \in [User -> Note]
    BY <1>10 DEF CompareRestore, TypeOK, Request
  <2>. QED
    BY <1>10, <2>1, FinishType
    DEF CompareRestore, Goto, TypeOK, Step, bounds, H!HistoryTypeOK
<1>11. ASSUME NEW u \in User, SnapshotEdits(u) PROVE TypeOK'
  <2>1. H!HistoryTypeOK'
    BY <1>11, <1>a, RecordType DEF SnapshotEdits, TypeOK, Request, H!Action
  <2>. QED
    BY <1>11, <2>1 DEF SnapshotEdits, Goto, TypeOK, Step, bounds
<1>12. ASSUME NEW u \in User, Truncate(u) PROVE TypeOK'
  BY <1>12, ServiceAssumption DEF Truncate, Goto, TypeOK, Step, Note, bounds, H!HistoryTypeOK
<1>13. ASSUME NEW u \in User, Write(u) PROVE TypeOK'
  BY <1>13, StoredType DEF Write, Goto, TypeOK, Step, Note, bounds, H!HistoryTypeOK
<1>13a. ASSUME NEW u \in User, WriteLost(u) PROVE TypeOK'
  BY <1>13a DEF WriteLost, Goto, TypeOK, Step, bounds, H!HistoryTypeOK
<1>14. ASSUME NEW u \in User, IndexNote(u) PROVE TypeOK'
  BY <1>14, StoredType DEF IndexNote, Goto, TypeOK, Step, Note, bounds, H!HistoryTypeOK
<1>15. ASSUME NEW u \in User, RemoveFile(u) PROVE TypeOK'
  <2>1. seen' \in [User -> Note] /\ disk' \in [Path -> Note]
    BY <1>15 DEF RemoveFile, TypeOK, Request, Note
  <2>. QED
    BY <1>15, <2>1, FinishType DEF RemoveFile, Goto, TypeOK, Step, bounds, H!HistoryTypeOK
<1>16. ASSUME NEW u \in User, Unindex(u) PROVE TypeOK'
  BY <1>16 DEF Unindex, Goto, TypeOK, Step, Note, bounds, H!HistoryTypeOK
<1>17. ASSUME NEW u \in User, RecordRevision(u) PROVE TypeOK'
  <2>1. req[u].op \in H!Action /\ req[u].path \in Path /\ disk[req[u].path] \in Note
    BY <1>a DEF TypeOK, Request
  <2>2. H!HistoryTypeOK'
    BY <1>17, <1>a, <2>1, RecordType DEF RecordRevision, TypeOK
  <2>. QED
    BY <1>17, <2>2, FinishType DEF RecordRevision, TypeOK, bounds
<1>18. ASSUME NEW u \in User, WriteFails(u) PROVE TypeOK'
  <2>1. disk' \in [Path -> Note]
    BY <1>18, ServiceAssumption DEF WriteFails, TypeOK, Note
  <2>2. faults' \in 0..MaxFaults
    BY <1>18, ServiceAssumption DEF WriteFails, TypeOK
  <2>. QED
    BY <1>18, <2>1, <2>2, FinishType DEF WriteFails, TypeOK, H!HistoryTypeOK
<1>19. ASSUME NEW u \in User, RecordFails(u) PROVE TypeOK'
  <2>1. faults' \in 0..MaxFaults
    BY <1>19, ServiceAssumption DEF RecordFails, TypeOK
  <2>2. CASE Finish(u, "ok")
    BY <1>19, <2>1, <2>2, FinishType DEF RecordFails, TypeOK, H!HistoryTypeOK
  <2>3. CASE Goto(u, "truncate") /\ UNCHANGED <<lock, outcome>>
    BY <1>19, <2>1, <2>3 DEF RecordFails, Goto, TypeOK, Step, H!HistoryTypeOK
  <2>. QED
    BY <1>19, <2>2, <2>3 DEF RecordFails
<1>20. CASE PurgeTrash
  BY <1>20 DEF PurgeTrash, H!PurgeDeleted, TypeOK, bounds, H!HistoryTypeOK
<1>21. CASE ListTrash
  BY <1>21, DeletedType DEF ListTrash, TypeOK, bounds
<1>22. ASSUME NEW p \in Path, Edit(p) PROVE TypeOK'
  BY <1>22, ServiceAssumption DEF Edit, TypeOK, Note, H!HistoryTypeOK
<1>23. CASE UNCHANGED vars
  BY <1>23 DEF vars, TypeOK, H!HistoryTypeOK
<1>. QED
  BY <1>1, <1>2, <1>3, <1>4, <1>5, <1>6, <1>7, <1>8, <1>9, <1>10, <1>11, <1>12,
     <1>13, <1>13a, <1>14, <1>15, <1>16, <1>17, <1>18, <1>19, <1>20, <1>21, <1>22, <1>23
  DEF Next, Begin, Proceed

\* Every variable of the service keeps its type.
THEOREM TypeCorrect == Spec => []TypeOK
<1>1. TypeOK /\ [Next]_vars => TypeOK'
  BY TypeStep
<1>. QED
  BY <1>1, InitTypes, PTL DEF Spec

-----------------------------------------------------------------------------
(* Locking *)

\* The lock of a note stays with a request that has it, whatever another one's
\* end releases.
LEMMA FinishKeepsLocks ==
  ASSUME TypeOK, NEW u \in User, NEW o, Finish(u, o)
  PROVE  /\ \A p \in Path : lock[p] # u => lock'[p] = lock[p]
         /\ pc'[u] = "idle"
         /\ \A v \in User \ {u} : pc'[v] = pc[v]
BY DEF TypeOK, Finish, Goto

\* One step keeps LockHeld.
LEMMA LockHeldStep ==
  ASSUME TypeOK, TypeOK', LockHeld, [Next]_vars
  PROVE  LockHeld'
<1> USE DEF LockHeld, Holding
<1>1. ASSUME NEW u \in User, Begin(u) PROVE LockHeld'
  BY <1>1 DEF Begin, StartSave, StartDelete, StartRestore, StartRestoreDeleted,
              StartCreate, Start, Goto, At, TypeOK
<1>2. ASSUME NEW u \in User, Acquire(u) PROVE LockHeld'
  BY <1>2, ServiceAssumption DEF Acquire, Goto, At, TypeOK, Request
<1>3. ASSUME NEW u \in User, Probe(u) PROVE LockHeld'
  BY <1>3 DEF Probe, Goto, At, TypeOK, Request
<1>4. ASSUME NEW u \in User, CheckExists(u) PROVE LockHeld'
  BY <1>4 DEF CheckExists, Goto, At, TypeOK
<1>5. ASSUME NEW u \in User,
             \/ SnapshotEdits(u) \/ Truncate(u) \/ Write(u) \/ WriteLost(u)
             \/ IndexNote(u) \/ Unindex(u)
      PROVE  LockHeld'
  BY <1>5 DEF SnapshotEdits, Truncate, Write, WriteLost, IndexNote, Unindex, Goto, At, TypeOK
<1>6. ASSUME NEW u \in User,
             \/ CompareSave(u) \/ CompareRestore(u) \/ RemoveFile(u)
             \/ RecordRevision(u) \/ WriteFails(u) \/ RecordFails(u)
      PROVE  LockHeld'
  <2>1. UNCHANGED req
    BY <1>6 DEF CompareSave, CompareRestore, RemoveFile, RecordRevision, WriteFails, RecordFails
  <2>2. \/ \E o : Finish(u, o)
        \/ /\ pc[u] \in Holding /\ UNCHANGED lock
           /\ \E step \in Holding : Goto(u, step)
    BY <1>6 DEF CompareSave, CompareRestore, RemoveFile, RecordRevision, WriteFails,
                RecordFails, At
  <2>3. CASE \E o : Finish(u, o)
    <3>1. ASSUME NEW v \in User, pc'[v] \in Holding \/ pc'[v] = "probe"
          PROVE  v # u /\ pc'[v] = pc[v]
      BY <2>3, <3>1, FinishKeepsLocks
    <3>2. ASSUME NEW v \in User \ {u}, lock[req[v].path] = v
          PROVE  lock'[req[v].path] = v
      BY <2>3, <3>2, FinishKeepsLocks DEF TypeOK, Request
    <3>. QED
      BY <2>1, <3>1, <3>2
  <2>4. CASE /\ pc[u] \in Holding /\ UNCHANGED lock
             /\ \E step \in Holding : Goto(u, step)
    BY <2>1, <2>4 DEF Goto, TypeOK
  <2>. QED
    BY <2>2, <2>3, <2>4
<1>7. CASE PurgeTrash \/ ListTrash \/ \E p \in Path : Edit(p)
  BY <1>7 DEF PurgeTrash, ListTrash, Edit
<1>8. CASE UNCHANGED vars
  BY <1>8 DEF vars
<1>. QED
  BY <1>1, <1>2, <1>3, <1>4, <1>5, <1>6, <1>7, <1>8 DEF Next, Proceed

\* Requests that take path locks hold them while they work.
THEOREM LocksHeld == Spec => []LockHeld
<1>1. Init => LockHeld
  BY DEF Init, LockHeld, Holding
<1>2. TypeOK /\ TypeOK' /\ LockHeld /\ [Next]_vars => LockHeld'
  BY LockHeldStep
<1>. QED
  BY <1>1, <1>2, TypeCorrect, PTL DEF Spec

\* No two requests are at one note, from the first look at it to the answer.
Apart ==
  \A u, v \in User :
    u # v /\ pc[u] \in Holding /\ pc[v] \in Holding => req[u].path # req[v].path

\* CreateNote, which takes no lock, is not used, or by the only user there is.
CreatesAlone == "create" \notin Op \/ \A u, v \in User : u = v

\* Path locks keep requests apart where CreateNote cannot come between them.
LEMMA KeptApart ==
  ASSUME CreatesAlone
  PROVE  Spec => []Apart
<1>1. TypeOK /\ LockHeld => Apart
  <2> SUFFICES ASSUME TypeOK, LockHeld, NEW u \in User, NEW v \in User, u # v,
                      pc[u] \in Holding, pc[v] \in Holding
               PROVE  req[u].path # req[v].path
    BY DEF Apart
  <2>1. req[u].op # "create" /\ req[v].op # "create"
    BY DEF CreatesAlone, TypeOK, Request
  <2>. QED
    BY <2>1, ServiceAssumption DEF LockHeld, TypeOK, Request
<1>. QED
  BY <1>1, TypeCorrect, LocksHeld, PTL

\* Mutations of a note are serialized.
THEOREM Serialized ==
  ASSUME CreatesAlone
  PROVE  Spec => []MutationsSerialized
<1>1. Apart => MutationsSerialized
  BY DEF Apart, Holding, MutationsSerialized
<1>. QED
  BY <1>1, KeptApart, PTL

-----------------------------------------------------------------------------
(* Agreement of disk, index and history *)

\* A step that changes neither disk, index nor history, nor moves a request
\* into or out of the steps that change them, keeps the agreement.
LEMMA IdleStep ==
  ASSUME TypeOK, Agreement, InProgress, NEW u \in User,
         UNCHANGED <<disk, index, edits, faults>>,
         \A p \in Path : H!Latest(p)' = H!Latest(p),
         \A v \in User \ {u} : pc'[v] = pc[v] /\ req'[v] = req[v],
         pc[u] \notin {"write", "index", "unindex", "record"},
         pc'[u] \notin {"write", "index", "unindex", "record"}
  PROVE  (Agreement /\ InProgress)'
<1>1. \A v \in User, p \in Path : Changing(v, p)' <=> Changing(v, p)
  BY DEF Changing
<1>2. Agreement'
  BY <1>1 DEF Agreement
<1>3. InProgress'
  BY DEF InProgress, Stored
<1>. QED
  BY <1>2, <1>3

\* A step of u from one step to another that changes disk, index and history
\* at u's note only keeps the agreement of the other notes.
LEMMA OwnNoteStep ==
  ASSUME TypeOK, Apart, Agreement, InProgress, NEW u \in User,
         pc[u] \in Holding, UNCHANGED <<req, edits, faults>>,
         \A v \in User \ {u} : pc'[v] = pc[v],
         \A p \in Path \ {req[u].path} :
           disk'[p] = disk[p] /\ index'[p] = index[p] /\ H!Latest(p)' = H!Latest(p),
         edits = 0 /\ faults = 0 =>
           LET p == req[u].path IN
             /\ ~Changing(u, p)' => index'[p] = disk'[p] /\ H!Latest(p)' = disk'[p]
             /\ pc'[u] = "index" => disk'[p] = Stored(u)
             /\ pc'[u] = "unindex" => disk'[p] = NoNote
             /\ pc'[u] = "record" => index'[p] = disk'[p]
  PROVE  (Agreement /\ InProgress)'
<1>1. \A v \in User \ {u} : pc[v] \in Holding => req[v].path # req[u].path
  BY DEF Apart
<1>2. \A v \in User : req[v].path \in Path /\ Stored(v)' = Stored(v)
  BY DEF TypeOK, Request, Stored
<1>3. Agreement'
  <2> SUFFICES ASSUME edits' = 0, faults' = 0, NEW p \in Path,
                      \A v \in User : ~Changing(v, p)'
               PROVE  index'[p] = disk'[p] /\ H!Latest(p)' = disk'[p]
    BY DEF Agreement
  <2>1. CASE p = req[u].path
    BY <2>1
  <2>2. CASE p # req[u].path
    <3>1. \A v \in User : ~Changing(v, p)
      BY <2>2 DEF Changing
    <3>. QED
      BY <2>2, <3>1 DEF Agreement
  <2>. QED
    BY <2>1, <2>2
<1>4. InProgress'
  <2> SUFFICES ASSUME edits' = 0, faults' = 0, NEW v \in User
               PROVE  LET p == req'[v].path IN
                        /\ pc'[v] = "index" => disk'[p] = Stored(v)'
                        /\ pc'[v] = "unindex" => disk'[p] = NoNote
                        /\ pc'[v] = "record" => index'[p] = disk'[p]
    BY DEF InProgress
  <2>1. CASE v = u
    BY <2>1, <1>2
  <2>2. CASE v # u
    BY <2>2, <1>1, <1>2 DEF InProgress, Holding
  <2>. QED
    BY <2>1, <2>2
<1>. QED
  BY <1>3, <1>4

\* One step keeps the agreement.
LEMMA AgreementStep ==
  ASSUME TypeOK, TypeOK', Apart, Agreement, InProgress, [Next]_vars
  PROVE  (Agreement /\ InProgress)'
<1>a. \A u \in User : req[u].path \in Path
  BY DEF TypeOK, Request
<1>b. revs' = revs => \A p \in Path : H!Latest(p)' = H!Latest(p)
  BY DEF H!Latest
<1>1. ASSUME NEW u \in User, Begin(u) PROVE (Agreement /\ InProgress)'
  <2>1. /\ UNCHANGED <<disk, index, revs, edits, faults>>
        /\ pc[u] = "idle" /\ \E step \in {"acquire", "probe"} : Goto(u, step)
        /\ \E r : req' = [req EXCEPT ![u] = r]
    BY <1>1 DEF Begin, StartSave, StartDelete, StartRestore, StartRestoreDeleted,
                StartCreate, Start, At
  <2>. QED
    BY <2>1, <1>b, IdleStep DEF Goto, TypeOK
<1>2. ASSUME NEW u \in User, Acquire(u) \/ CheckExists(u)
      PROVE  (Agreement /\ InProgress)'
  BY <1>2, <1>b, IdleStep DEF Acquire, CheckExists, At, Goto, TypeOK, bounds
<1>3. ASSUME NEW u \in User, Probe(u) PROVE (Agreement /\ InProgress)'
  <2>1. /\ UNCHANGED <<disk, index, revs, edits, faults>> /\ pc[u] = "probe"
        /\ UNCHANGED pc \/ Goto(u, "truncate")
        /\ UNCHANGED req \/ \E q : req' = [req EXCEPT ![u].path = q]
    BY <1>3 DEF Probe, At, bounds
  <2>2. /\ pc'[u] \in {"probe", "truncate"}
        /\ \A v \in User \ {u} : pc'[v] = pc[v] /\ req'[v] = req[v]
    BY <2>1 DEF Goto, TypeOK
  <2>. QED
    BY <2>1, <2>2, <1>b, IdleStep
<1>4. ASSUME NEW u \in User, CompareSave(u) \/ CompareRestore(u)
      PROVE  (Agreement /\ InProgress)'
  <2>1. /\ UNCHANGED <<disk, index, revs, req, edits, faults>> /\ pc[u] = "compare"
        /\ \/ \E o : Finish(u, o)
           \/ \E step \in {"truncate", "snapshot"} : Goto(u, step)
    BY <1>4 DEF CompareSave, CompareRestore, At, bounds
  <2>. QED
    BY <2>1, <1>b, IdleStep, FinishKeepsLocks DEF Goto, TypeOK
<1>5. ASSUME NEW u \in User, SnapshotEdits(u) PROVE (Agreement /\ InProgress)'
  <2>1. /\ UNCHANGED <<disk, index, req, edits, faults>> /\ pc[u] = "snapshot"
        /\ Goto(u, "truncate")
        /\ H!Record(External, req[u].path, "save", disk[req[u].path])
    BY <1>5 DEF SnapshotEdits, At, bounds
  <2>2. "save" \in H!Action /\ External \in Actor /\ disk[req[u].path] \in Note
    BY <1>a DEF TypeOK, H!Action, Actor
  <2>3. /\ H!Latest(req[u].path)' = disk[req[u].path]
        /\ \A p \in Path \ {req[u].path} : H!Latest(p)' = H!Latest(p)
    BY <2>1, <2>2, <1>a, RecordLatest DEF TypeOK
  <2>4. edits = 0 /\ faults = 0 =>
          index[req[u].path] = disk[req[u].path] /\ H!Latest(req[u].path) = disk[req[u].path]
    <3>1. \A v \in User : ~Changing(v, req[u].path)
      BY <2>1 DEF Apart, Changing, Holding
    <3>. QED
      BY <3>1, <1>a DEF Agreement
  <2>. QED
    BY <2>1, <2>2, <2>3, <2>4, OwnNoteStep DEF Goto, TypeOK, Holding
<1>6. ASSUME NEW u \in User, Truncate(u) PROVE (Agreement /\ InProgress)'
  BY <1>6, <1>a, <1>b, OwnNoteStep
  DEF Truncate, At, Goto, TypeOK, Holding, bounds, Changing
<1>7. ASSUME NEW u \in User, Write(u) PROVE (Agreement /\ InProgress)'
  BY <1>7, <1>a, <1>b, OwnNoteStep
  DEF Write, At, Goto, TypeOK, Holding, bounds, Changing
<1>7a. ASSUME NEW u \in User, WriteLost(u) PROVE (Agreement /\ InProgress)'
  BY <1>7a DEF WriteLost, Agreement, InProgress, TypeOK, bounds
<1>8. ASSUME NEW u \in User, IndexNote(u) PROVE (Agreement /\ InProgress)'
  BY <1>8, <1>a, <1>b, OwnNoteStep
  DEF IndexNote, At, Goto, TypeOK, Holding, bounds, Changing, InProgress
<1>9. ASSUME NEW u \in User, RemoveFile(u) PROVE (Agreement /\ InProgress)'
  <2>1. CASE disk[req[u].path] = NoNote
    BY <1>9, <2>1, <1>b, IdleStep, FinishKeepsLocks DEF RemoveFile, At, bounds
  <2>2. CASE disk[req[u].path] # NoNote
    <3>1. /\ UNCHANGED <<index, revs, req, edits, faults>> /\ pc[u] = "remove"
          /\ Goto(u, "unindex") /\ disk' = [disk EXCEPT ![req[u].path] = NoNote]
      BY <1>9, <2>2 DEF RemoveFile, At, bounds
    <3>2. /\ pc'[u] = "unindex" /\ \A v \in User \ {u} : pc'[v] = pc[v]
          /\ disk'[req[u].path] = NoNote
          /\ \A p \in Path \ {req[u].path} : disk'[p] = disk[p]
      BY <3>1, <1>a DEF Goto, TypeOK
    <3>. QED
      BY <3>1, <3>2, <1>a, <1>b, OwnNoteStep DEF Holding, Changing
  <2>. QED
    BY <2>1, <2>2
<1>10. ASSUME NEW u \in User, Unindex(u) PROVE (Agreement /\ InProgress)'
  BY <1>10, <1>a, <1>b, OwnNoteStep
  DEF Unindex, At, Goto, TypeOK, Holding, bounds, Changing, InProgress
<1>11. ASSUME NEW u \in User, RecordRevision(u) PROVE (Agreement /\ InProgress)'
  <2>1. /\ UNCHANGED <<disk, index, req, edits, faults>> /\ pc[u] = "record"
        /\ Finish(u, "ok")
        /\ H!Record(u, req[u].path, req[u].op, disk[req[u].path])
    BY <1>11 DEF RecordRevision, At, bounds
  <2>2. req[u].op \in H!Action /\ u \in Actor /\ disk[req[u].path] \in Note
    BY ServiceAssumption DEF TypeOK, Request, H!Action, Actor
  <2>3. /\ H!Latest(req[u].path)' = disk[req[u].path]
        /\ \A p \in Path \ {req[u].path} : H!Latest(p)' = H!Latest(p)
    BY <2>1, <2>2, <1>a, RecordLatest DEF TypeOK
  <2>. QED
    BY <2>1, <2>3, OwnNoteStep, FinishKeepsLocks DEF Holding, InProgress
<1>12. ASSUME NEW u \in User, WriteFails(u) \/ RecordFails(u)
       PROVE  (Agreement /\ InProgress)'
  BY <1>12 DEF WriteFails, RecordFails, Agreement, InProgress, TypeOK
<1>13. ASSUME NEW p \in Path, Edit(p) PROVE (Agreement /\ InProgress)'
  BY <1>13 DEF Edit, Agreement, InProgress, TypeOK
<1>14. CASE PurgeTrash \/ ListTrash \/ UNCHANGED vars
  <2>1. UNCHANGED <<disk, index, revs, pc, req, edits, faults>>
    BY <1>14 DEF PurgeTrash, ListTrash, H!PurgeDeleted, vars, bounds
  <2>. QED
    BY <2>1, <1>b DEF Agreement, InProgress, Changing, Stored
<1>. QED
  BY <1>1, <1>2, <1>3, <1>4, <1>5, <1>6, <1>7, <1>7a, <1>8, <1>9, <1>10, <1>11,
     <1>12, <1>13, <1>14 DEF Next, Proceed

\* Disk, index and history agree, as long as requests are apart.
LEMMA AgreeApart == Spec /\ []Apart => []Agreement
<1>1. Init => Agreement /\ InProgress
  <2> SUFFICES ASSUME Init PROVE Agreement /\ InProgress
    OBVIOUS
  <2>1. \A p \in Path : H!Latest(p) = disk[p]
    BY DEF Init, H!Latest, H!Snapshot
  <2>. QED
    BY <2>1 DEF Init, Agreement, InProgress
<1>2. /\ TypeOK /\ TypeOK' /\ Apart /\ Agreement /\ InProgress /\ [Next]_vars
      => (Agreement /\ InProgress)'
  BY AgreementStep
<1>. QED
  BY <1>1, <1>2, TypeCorrect, PTL DEF Spec

\* Disk, index and history agree on every note that no request is changing.
THEOREM Agree ==
  ASSUME CreatesAlone
  PROVE  Spec => []Agreement
BY AgreeApart, KeptApart, PTL

-----------------------------------------------------------------------------
(* The requests in progress *)

\* Steps belong to requests that take them.
StepsFit ==
  \A u \in User :
    /\ pc[u] \in {"remove", "unindex"} => req[u].op = "delete"
    /\ pc[u] \in {"exists", "compare", "snapshot", "truncate", "write", "index"}
       => req[u].op # "delete"
    /\ pc[u] = "snapshot" => req[u].op = "restore"
    /\ pc[u] = "compare" /\ req[u].op = "save" => req[u].base # NoBase

LEMMA StepsFitStep ==
  ASSUME TypeOK, LockHeld, StepsFit, [Next]_vars
  PROVE  StepsFit'
<1>. USE DEF StepsFit
<1>1. ASSUME NEW u \in User, Begin(u) PROVE StepsFit'
  <2>1. /\ \E step \in {"acquire", "probe"} : Goto(u, step)
        /\ \E r : req' = [req EXCEPT ![u] = r]
    BY <1>1 DEF Begin, StartSave, StartDelete, StartRestore, StartRestoreDeleted,
                StartCreate, Start
  <2>. QED BY <2>1 DEF Goto, TypeOK
<1>2. ASSUME NEW u \in User, Acquire(u) PROVE StepsFit'
  BY <1>2 DEF Acquire, Goto, TypeOK
<1>3. ASSUME NEW u \in User, Probe(u) PROVE StepsFit'
  <2>1. req[u].op = "create" /\ pc[u] = "probe"
    BY <1>3 DEF Probe, At, LockHeld
  <2>2. CASE Goto(u, "truncate") /\ UNCHANGED req
    BY <2>1, <2>2 DEF Goto, TypeOK
  <2>3. CASE UNCHANGED pc /\ \E q : req' = [req EXCEPT ![u].path = q]
    BY <2>1, <2>3 DEF TypeOK, Request
  <2>. QED BY <1>3, <2>2, <2>3 DEF Probe
<1>4. ASSUME NEW u \in User,
             \/ CheckExists(u) \/ SnapshotEdits(u) \/ Truncate(u) \/ Write(u) \/ WriteLost(u)
             \/ IndexNote(u) \/ Unindex(u)
      PROVE  StepsFit'
  BY <1>4 DEF CheckExists, SnapshotEdits, Truncate, Write, WriteLost, IndexNote, Unindex,
              Goto, At, TypeOK
<1>5. ASSUME NEW u \in User,
             \/ CompareSave(u) \/ CompareRestore(u) \/ RemoveFile(u)
             \/ RecordRevision(u) \/ WriteFails(u) \/ RecordFails(u)
      PROVE  StepsFit'
  BY <1>5 DEF CompareSave, CompareRestore, RemoveFile, RecordRevision, WriteFails, RecordFails,
              Finish, Goto, At, TypeOK
<1>6. CASE PurgeTrash \/ ListTrash \/ (\E p \in Path : Edit(p)) \/ UNCHANGED vars
  BY <1>6 DEF PurgeTrash, ListTrash, Edit, vars
<1>. QED
  BY <1>1, <1>2, <1>3, <1>4, <1>5, <1>6 DEF Next, Proceed

-----------------------------------------------------------------------------
(* What a request has done to its note *)

\* What a save, a restore or a delete relies on at each step of its way, as long
\* as no other program writes the vault: writes may fail.
Worked(u) ==
  LET p == req[u].path IN
    /\ pc[u] = "truncate" /\ req[u].op = "save" /\ req[u].base # NoBase
       => disk[p] \in {req[u].base, NoNote}
    /\ pc[u] \in {"snapshot", "truncate"} /\ req[u].op = "restore"
       => disk[p] # req[u].content
    /\ pc[u] = "write" => disk[p] = Empty
    /\ pc[u] = "index" => disk[p] = Stored(u)
    /\ pc[u] = "unindex" => disk[p] = NoNote
    /\ pc[u] = "record" =>
         /\ index[p] = disk[p]
         /\ disk[p] = IF req[u].op = "delete" THEN NoNote ELSE Stored(u)

Progress == StaleOnlyWhenTruncated /\ (edits = 0 => \A u \in User : Worked(u))

\* A step of u that leaves disk and index alone, outside the steps that change
\* them, keeps what the other requests rely on.
LEMMA IdleProgress ==
  ASSUME TypeOK, Progress, NEW u \in User,
         UNCHANGED <<disk, index, edits>>,
         \A v \in User \ {u} : pc'[v] = pc[v] /\ req'[v] = req[v],
         pc[u] \notin {"write", "index", "unindex", "record"},
         pc'[u] \notin {"write", "index", "unindex", "record"},
         edits = 0 => Worked(u)'
  PROVE  Progress'
<1>1. \A v \in User, p \in Path : Changing(v, p)' <=> Changing(v, p)
  BY DEF Changing
<1>2. StaleOnlyWhenTruncated'
  BY <1>1 DEF Progress, StaleOnlyWhenTruncated
<1>3. ASSUME edits' = 0, NEW v \in User PROVE Worked(v)'
  <2>1. CASE v = u
    BY <1>3, <2>1
  <2>2. CASE v # u
    <3>1. Worked(v) /\ Stored(v)' = Stored(v)
      BY <1>3, <2>2 DEF Progress, Stored
    <3>. QED BY <2>2, <3>1 DEF Worked
  <2>. QED BY <2>1, <2>2
<1>. QED
  BY <1>2, <1>3 DEF Progress

\* A step of u at its own note, whose lock it holds, is nothing to the others.
LEMMA OwnProgress ==
  ASSUME TypeOK, Apart, Progress, NEW u \in User,
         pc[u] \in Holding, UNCHANGED <<req, edits>>,
         \A v \in User \ {u} : pc'[v] = pc[v],
         \A p \in Path \ {req[u].path} : disk'[p] = disk[p] /\ index'[p] = index[p],
         edits = 0 =>
           /\ Worked(u)'
           /\ \/ Changing(u, req[u].path)'
              \/ index'[req[u].path] = disk'[req[u].path]
              \/ disk'[req[u].path] \in Pieces
  PROVE  Progress'
<1>1. \A v \in User \ {u} : pc[v] \in Holding => req[v].path # req[u].path
  BY DEF Apart
<1>2. \A v \in User : req[v].path \in Path /\ Stored(v)' = Stored(v)
  BY DEF TypeOK, Request, Stored
<1>3. StaleOnlyWhenTruncated'
  <2> SUFFICES ASSUME edits' = 0, NEW p \in Path, \A v \in User : ~Changing(v, p)'
               PROVE  index'[p] = disk'[p] \/ disk'[p] \in Pieces
    BY DEF StaleOnlyWhenTruncated
  <2>1. CASE p = req[u].path
    BY <2>1
  <2>2. CASE p # req[u].path
    <3>1. \A v \in User : ~Changing(v, p)
      BY <2>2 DEF Changing
    <3>. QED BY <2>2, <3>1 DEF Progress, StaleOnlyWhenTruncated
  <2>. QED BY <2>1, <2>2
<1>4. ASSUME edits' = 0, NEW v \in User PROVE Worked(v)'
  <2>1. CASE v = u
    BY <1>4, <2>1
  <2>2. CASE v # u /\ pc[v] \in Holding
    <3>1. Worked(v) /\ Stored(v)' = Stored(v) /\ req[v].path \in Path \ {req[u].path}
      BY <1>1, <1>2, <1>4, <2>2 DEF Progress
    <3>. QED BY <2>2, <3>1 DEF Worked
  <2>3. CASE v # u /\ pc[v] \notin Holding
    BY <2>3 DEF Worked, Holding
  <2>. QED BY <2>1, <2>2, <2>3
<1>. QED
  BY <1>3, <1>4 DEF Progress

\* One step keeps what requests rely on.
LEMMA ProgressStep ==
  ASSUME TypeOK, LockHeld, Apart, StepsFit, Progress, [Next]_vars
  PROVE  Progress'
<1>a. \A u \in User : req[u].path \in Path /\ Stored(u) \in Content
  BY StoredType DEF TypeOK, Request
<1>b. ASSUME NEW u \in User, req' = req PROVE Stored(u)' = Stored(u)
  BY <1>b DEF Stored
<1>1. ASSUME NEW u \in User, Begin(u) PROVE Progress'
  <2>1. /\ UNCHANGED <<disk, index, edits>>
        /\ pc[u] = "idle" /\ \E step \in {"acquire", "probe"} : Goto(u, step)
        /\ \E r : req' = [req EXCEPT ![u] = r]
    BY <1>1 DEF Begin, StartSave, StartDelete, StartRestore, StartRestoreDeleted,
                StartCreate, Start, At
  <2>2. pc'[u] \in {"acquire", "probe"}
        /\ \A v \in User \ {u} : pc'[v] = pc[v] /\ req'[v] = req[v]
    BY <2>1 DEF Goto, TypeOK
  <2>3. Worked(u)'
    BY <2>2 DEF Worked
  <2>. QED
    BY <2>1, <2>2, <2>3, IdleProgress
<1>2. ASSUME NEW u \in User, Acquire(u) PROVE Progress'
  <2>1. UNCHANGED <<disk, index, edits, req>> /\ pc[u] = "acquire"
        /\ pc'[u] \in {"remove", "exists"} /\ \A v \in User \ {u} : pc'[v] = pc[v]
    BY <1>2 DEF Acquire, At, Goto, TypeOK, bounds
  <2>2. Worked(u)'
    BY <2>1 DEF Worked
  <2>. QED
    BY <2>1, <2>2, IdleProgress
<1>3. ASSUME NEW u \in User, Probe(u) PROVE Progress'
  <2>1. /\ UNCHANGED <<disk, index, edits>> /\ pc[u] = "probe" /\ req[u].op = "create"
        /\ UNCHANGED pc \/ Goto(u, "truncate")
        /\ UNCHANGED req \/ \E q : req' = [req EXCEPT ![u].path = q]
    BY <1>3 DEF Probe, At, LockHeld, bounds
  <2>2. /\ pc'[u] \in {"probe", "truncate"} /\ req'[u].op = "create"
        /\ \A v \in User \ {u} : pc'[v] = pc[v] /\ req'[v] = req[v]
    BY <2>1 DEF Goto, TypeOK, Request
  <2>3. Worked(u)'
    BY <2>2 DEF Worked
  <2>. QED
    BY <2>1, <2>2, <2>3, IdleProgress
<1>4. ASSUME NEW u \in User, CheckExists(u) PROVE Progress'
  <2>1. UNCHANGED <<disk, index, edits, req>> /\ pc[u] = "exists"
        /\ pc'[u] \in {"compare", "truncate"} /\ (\A v \in User \ {u} : pc'[v] = pc[v])
        /\ (pc'[u] = "truncate" /\ (req[u].op = "restore" \/ req[u].base # NoBase)
            => disk[req[u].path] = NoNote)
    BY <1>4 DEF CheckExists, At, Goto, TypeOK, bounds
  <2>2. req[u].content # NoNote
    BY ServiceAssumption DEF TypeOK, Request
  <2>3. Worked(u)'
    BY <2>1, <2>2 DEF Worked
  <2>. QED
    BY <2>1, <2>3, IdleProgress
<1>5. ASSUME NEW u \in User, CompareSave(u) \/ CompareRestore(u) PROVE Progress'
  <2>1. UNCHANGED <<disk, index, edits, req>> /\ pc[u] = "compare"
        /\ pc'[u] \in {"idle", "truncate", "snapshot"}
        /\ \A v \in User \ {u} : pc'[v] = pc[v]
    BY <1>5 DEF CompareSave, CompareRestore, Finish, At, Goto, TypeOK, bounds
  <2>2. Worked(u)'
    BY <1>5, <2>1 DEF CompareSave, CompareRestore, Finish, Goto, Worked, TypeOK
  <2>. QED
    BY <2>1, <2>2, IdleProgress
<1>6. ASSUME NEW u \in User, SnapshotEdits(u) \/ (At(u, "snapshot") /\ RecordFails(u))
      PROVE  Progress'
  <2>1. UNCHANGED <<disk, index, edits, req>> /\ pc[u] = "snapshot"
        /\ pc'[u] = "truncate" /\ \A v \in User \ {u} : pc'[v] = pc[v]
    BY <1>6 DEF SnapshotEdits, RecordFails, At, Goto, TypeOK, bounds
  <2>2. edits = 0 => Worked(u)'
    BY <2>1 DEF Worked, StepsFit, Progress
  <2>. QED
    BY <2>1, <2>2, IdleProgress
<1>7. ASSUME NEW u \in User, Truncate(u) PROVE Progress'
  <2>1. UNCHANGED <<index, edits, req>> /\ pc[u] = "truncate"
        /\ pc'[u] = "write" /\ (\A v \in User \ {u} : pc'[v] = pc[v])
        /\ disk'[req[u].path] = Empty
        /\ \A p \in Path \ {req[u].path} : disk'[p] = disk[p]
    BY <1>7, <1>a DEF Truncate, At, Goto, TypeOK, bounds
  <2>2. Empty \in Pieces
    BY ServiceAssumption
  <2>. QED
    BY <2>1, <2>2, OwnProgress DEF Holding, Worked
<1>8. ASSUME NEW u \in User, Write(u) PROVE Progress'
  <2>1. UNCHANGED <<index, edits, req>> /\ pc[u] = "write"
        /\ pc'[u] = "index" /\ (\A v \in User \ {u} : pc'[v] = pc[v])
        /\ disk'[req[u].path] = Stored(u)
        /\ \A p \in Path \ {req[u].path} : disk'[p] = disk[p]
    BY <1>8, <1>a DEF Write, At, Goto, TypeOK, bounds
  <2>2. Worked(u)' /\ Changing(u, req[u].path)'
    BY <2>1, <1>b DEF Worked, Changing
  <2>. QED
    BY <2>1, <2>2, OwnProgress DEF Holding
<1>9. ASSUME NEW u \in User, WriteLost(u) PROVE Progress'
  <2>1. edits' # 0
    BY <1>9 DEF WriteLost, TypeOK, bounds
  <2>. QED BY <2>1 DEF Progress, StaleOnlyWhenTruncated
<1>10. ASSUME NEW u \in User, IndexNote(u) PROVE Progress'
  <2>1. UNCHANGED <<disk, edits, req>> /\ pc[u] = "index"
        /\ pc'[u] = "record" /\ (\A v \in User \ {u} : pc'[v] = pc[v])
        /\ index'[req[u].path] = Stored(u)
        /\ \A p \in Path \ {req[u].path} : index'[p] = index[p]
    BY <1>10, <1>a DEF IndexNote, At, Goto, TypeOK, bounds
  <2>2. edits = 0 => Worked(u)' /\ Changing(u, req[u].path)'
    BY <2>1, <1>b DEF Worked, Changing, Progress, StepsFit
  <2>. QED
    BY <2>1, <2>2, OwnProgress DEF Holding
<1>11. ASSUME NEW u \in User, RemoveFile(u) PROVE Progress'
  <2>1. UNCHANGED <<index, edits, req>> /\ pc[u] = "remove"
    BY <1>11 DEF RemoveFile, At, bounds
  <2>2. CASE disk[req[u].path] = NoNote
    <3>1. UNCHANGED disk /\ pc'[u] = "idle" /\ \A v \in User \ {u} : pc'[v] = pc[v]
      BY <1>11, <2>2, FinishKeepsLocks DEF RemoveFile
    <3>2. Worked(u)'
      BY <3>1 DEF Worked
    <3>. QED BY <2>1, <3>1, <3>2, IdleProgress
  <2>3. CASE disk[req[u].path] # NoNote
    <3>1. /\ pc'[u] = "unindex" /\ \A v \in User \ {u} : pc'[v] = pc[v]
          /\ disk'[req[u].path] = NoNote
          /\ \A p \in Path \ {req[u].path} : disk'[p] = disk[p]
      BY <1>11, <2>3, <1>a DEF RemoveFile, Goto, TypeOK
    <3>2. Worked(u)' /\ Changing(u, req[u].path)'
      BY <2>1, <3>1 DEF Worked, Changing
    <3>. QED BY <2>1, <3>1, <3>2, OwnProgress DEF Holding
  <2>. QED BY <2>2, <2>3
<1>12. ASSUME NEW u \in User, Unindex(u) PROVE Progress'
  <2>1. UNCHANGED <<disk, edits, req>> /\ pc[u] = "unindex"
        /\ pc'[u] = "record" /\ (\A v \in User \ {u} : pc'[v] = pc[v])
        /\ index'[req[u].path] = NoNote
        /\ \A p \in Path \ {req[u].path} : index'[p] = index[p]
    BY <1>12, <1>a DEF Unindex, At, Goto, TypeOK, bounds
  <2>2. edits = 0 => Worked(u)' /\ Changing(u, req[u].path)'
    BY <2>1, <1>b DEF Worked, Changing, Progress, StepsFit
  <2>. QED
    BY <2>1, <2>2, OwnProgress DEF Holding
<1>13. ASSUME NEW u \in User,
              RecordRevision(u) \/ WriteFails(u) \/ (At(u, "record") /\ RecordFails(u))
       PROVE  Progress'
  <2>1. /\ UNCHANGED <<index, edits, req>> /\ pc[u] \in {"truncate", "write", "record"}
        /\ \E o : Finish(u, o)
        /\ \/ UNCHANGED disk
           \/ pc[u] = "write" /\ \E c \in Pieces : disk' = [disk EXCEPT ![req[u].path] = c]
    <3>1. CASE WriteFails(u)
      BY <3>1 DEF WriteFails, At
    <3>2. CASE RecordRevision(u) \/ (At(u, "record") /\ RecordFails(u))
      BY <3>2 DEF RecordRevision, RecordFails, At, bounds
    <3>. QED BY <1>13, <3>1, <3>2
  <2>2. pc'[u] = "idle" /\ \A v \in User \ {u} : pc'[v] = pc[v]
    BY <2>1, FinishKeepsLocks
  <2>3. Worked(u)'
    BY <2>2 DEF Worked
  <2>4. CASE pc[u] = "truncate"
    BY <2>1, <2>2, <2>3, <2>4, IdleProgress
  <2>5. CASE pc[u] # "truncate"
    <3>1. \A p \in Path \ {req[u].path} : disk'[p] = disk[p]
      BY <2>1, <1>a DEF TypeOK
    <3>2. edits = 0 => disk'[req[u].path] \in Pieces \/ index[req[u].path] = disk'[req[u].path]
      BY <2>1, <2>5, <1>a, ServiceAssumption DEF Progress, Worked, TypeOK
    <3>3. index' = index
      BY <2>1
    <3>. QED BY <2>1, <2>2, <2>3, <2>5, <3>1, <3>2, <3>3, OwnProgress DEF Holding
  <2>. QED BY <2>4, <2>5
<1>14. ASSUME NEW p \in Path, Edit(p) PROVE Progress'
  <2>1. edits' # 0
    BY <1>14 DEF Edit, TypeOK
  <2>. QED BY <2>1 DEF Progress, StaleOnlyWhenTruncated
<1>15. CASE PurgeTrash \/ ListTrash \/ UNCHANGED vars
  <2>1. UNCHANGED <<disk, index, pc, req, edits>>
    BY <1>15 DEF PurgeTrash, ListTrash, H!PurgeDeleted, vars, bounds
  <2>. QED
    BY <2>1 DEF Progress, StaleOnlyWhenTruncated, Worked, Changing, Stored
<1>16. ASSUME NEW u \in User, RecordFails(u) PROVE Progress'
  BY <1>6, <1>13, <1>16 DEF RecordFails
<1>. QED
  BY <1>1, <1>2, <1>3, <1>4, <1>5, <1>6, <1>7, <1>8, <1>9, <1>10, <1>11, <1>12,
     <1>13, <1>14, <1>15, <1>16 DEF Next, Proceed

\* The steps of requests and what they rely on, as one inductive invariant.
LEMMA ProgressInvariant == Spec /\ []Apart => [](StepsFit /\ Progress)
<1>1. Init => StepsFit /\ Progress
  BY DEF Init, StepsFit, Progress, StaleOnlyWhenTruncated, Worked
<1>2. /\ TypeOK /\ LockHeld /\ Apart /\ (StepsFit /\ Progress) /\ [Next]_vars
      => (StepsFit /\ Progress)'
  BY StepsFitStep, ProgressStep
<1>. QED
  BY <1>1, <1>2, TypeCorrect, LocksHeld, PTL DEF Spec

\* Optimistic locking works: SaveNote overwrites the base its caller named or a
\* note that is not there.
THEOREM NoUpdateLost ==
  ASSUME CreatesAlone
  PROVE  Spec => []NoLostUpdate
<1>1. StepsFit /\ Progress => NoLostUpdate
  BY DEF Progress, NoLostUpdate, Worked, At
<1>. QED
  BY <1>1, ProgressInvariant, KeptApart, PTL

\* The index is stale only where a failed write has emptied the file or left a
\* piece of it.
THEOREM IndexFollowsDisk ==
  ASSUME CreatesAlone
  PROVE  Spec => []StaleOnlyWhenTruncated
<1>1. StepsFit /\ Progress => StaleOnlyWhenTruncated
  BY DEF Progress
<1>. QED
  BY <1>1, ProgressInvariant, KeptApart, PTL

-----------------------------------------------------------------------------
(* The trash *)

\* The trash holds what notes were before the revisions that deleted them,
\* CreateNote or not: only the history's own operators touch it.
THEOREM TrashCorrect == Spec => []TrashIsLastContent
<1>1. Init => TrashIsLastContent
  BY DEF Init, TrashIsLastContent
<1>2. TypeOK /\ TrashIsLastContent /\ [Next]_vars => TrashIsLastContent'
  <2> SUFFICES ASSUME TypeOK, TrashIsLastContent, [Next]_vars PROVE TrashIsLastContent'
    OBVIOUS
  <2>1. CASE UNCHANGED <<revs, trash>>
    BY <2>1 DEF TrashIsLastContent, H!Latest
  <2>2. CASE UNCHANGED revs /\ \A p \in Path : trash'[p] \in {trash[p], NoNote}
    BY <2>2 DEF TrashIsLastContent, H!Latest
  <2>3. ASSUME NEW u \in User, SnapshotEdits(u) \/ RecordRevision(u)
        PROVE  TrashIsLastContent'
    <3>1. /\ req[u].path \in Path /\ disk[req[u].path] \in Note
          /\ {req[u].op, "save"} \subseteq H!Action /\ {u, External} \subseteq Actor
      BY ServiceAssumption DEF TypeOK, Request, H!Action, Actor
    <3>. QED
      BY <2>3, <3>1, RecordTrash DEF SnapshotEdits, RecordRevision, TypeOK
  <2>4. ASSUME trash' = H!Deleted(disk)
        PROVE  \A p \in Path : trash'[p] \in {trash[p], NoNote}
    BY <2>4 DEF H!Deleted
  <2>5. ASSUME NEW u \in User, StartRestoreDeleted(u) PROVE TrashIsLastContent'
    BY <2>2, <2>4, <2>5 DEF StartRestoreDeleted
  <2>6. CASE ListTrash
    BY <2>2, <2>4, <2>6 DEF ListTrash
  <2>7. CASE PurgeTrash
    BY <2>2, <2>7 DEF PurgeTrash, H!PurgeDeleted
  <2>8. ASSUME NEW u \in User,
               \/ StartSave(u) \/ StartDelete(u) \/ StartRestore(u) \/ StartCreate(u)
               \/ Acquire(u) \/ Probe(u) \/ CheckExists(u) \/ CompareSave(u)
               \/ CompareRestore(u) \/ Truncate(u) \/ Write(u) \/ WriteLost(u)
               \/ IndexNote(u) \/ RemoveFile(u) \/ Unindex(u)
               \/ WriteFails(u) \/ RecordFails(u)
        PROVE  UNCHANGED <<revs, trash>>
    BY <2>8 DEF StartSave, StartDelete, StartRestore, StartCreate, Acquire, Probe,
                CheckExists, CompareSave, CompareRestore, Truncate, Write, WriteLost,
                IndexNote, RemoveFile, Unindex, WriteFails, RecordFails
  <2>9. CASE (\E p \in Path : Edit(p)) \/ UNCHANGED vars
    BY <2>1, <2>9 DEF Edit, vars
  <2>. QED
    BY <2>1, <2>3, <2>5, <2>6, <2>7, <2>8, <2>9 DEF Next, Begin, Proceed
<1>. QED
  BY <1>1, <1>2, TypeCorrect, PTL DEF Spec

-----------------------------------------------------------------------------
(* What a request remembers of its note *)

\* What u saw of its note when it read it: a delete, the content that history
\* holds last; a restore, a content that history holds or is about to hold, or
\* that an editor has replaced since.
Remember(u) ==
  LET p == req[u].path IN
    /\ pc[u] # "idle" => outcome[u] = "none"
    /\ edits = 0 /\ pc[u] \in {"unindex", "record"} /\ req[u].op = "delete"
       => H!Latest(p) = seen[u] /\ seen[u] # NoNote
    /\ edits <= 1 /\ req[u].op = "restore" =>
         /\ pc[u] \in {"acquire", "exists"} => seen[u] = NoNote
         /\ pc[u] = "snapshot" => disk[p] = seen[u] \/ edits = 1
         /\ pc[u] = "truncate" /\ seen[u] # NoNote =>
              seen[u] \in H!Restorable(p) \/ (disk[p] # seen[u] /\ edits = 1)

Recall == faults = 0 => \A u \in User : Remember(u)

\* What u does at its own note, whose lock it holds, or to no note at all,
\* does not change what the other requests remember.
LEMMA OthersRemember ==
  ASSUME TypeOK, Apart, Recall, NEW u \in User,
         UNCHANGED <<edits, faults>>,
         \A v \in User \ {u} : /\ pc'[v] = pc[v] /\ req'[v] = req[v]
                               /\ seen'[v] = seen[v] /\ outcome'[v] = outcome[v],
         \A q \in Path :
           \/ disk'[q] = disk[q] /\ H!Latest(q)' = H!Latest(q)
           \/ pc[u] \in Holding /\ q = req[u].path,
         \A q \in Path : H!Restorable(q) \subseteq H!Restorable(q)',
         faults = 0 => Remember(u)'
  PROVE  Recall'
<1>. SUFFICES ASSUME faults = 0, NEW v \in User \ {u} PROVE Remember(v)'
  BY DEF Recall
<1>1. Remember(v)
  BY DEF Recall
<1>2. req[v].path \in Path
  BY DEF TypeOK, Request
<1>3. CASE pc[v] \in Holding
  <2>1. disk'[req[v].path] = disk[req[v].path]
        /\ H!Latest(req[v].path)' = H!Latest(req[v].path)
    BY <1>2, <1>3 DEF Apart
  <2>. QED
    BY <1>1, <1>2, <2>1 DEF Remember
<1>4. CASE pc[v] \notin Holding
  BY <1>1, <1>4 DEF Remember, Holding
<1>. QED
  BY <1>3, <1>4

\* One step keeps what requests remember.
LEMMA RecallStep ==
  ASSUME TypeOK, TypeOK', LockHeld, Apart, Agreement, StepsFit, Recall, [Next]_vars
  PROVE  Recall'
<1>a. \A u \in User : req[u].path \in Path
  BY DEF TypeOK, Request
<1>b. revs' = revs => \A q \in Path : /\ H!Latest(q)' = H!Latest(q)
                                      /\ H!Restorable(q) \subseteq H!Restorable(q)'
  BY DEF H!Latest, H!Restorable
<1>1. ASSUME NEW u \in User, Begin(u) PROVE Recall'
  <2>1. /\ UNCHANGED <<disk, revs, edits, faults>>
        /\ \E step \in {"acquire", "probe"} : Goto(u, step)
        /\ \E r : req' = [req EXCEPT ![u] = r]
        /\ seen' = [seen EXCEPT ![u] = NoNote] /\ outcome' = [outcome EXCEPT ![u] = "none"]
    BY <1>1 DEF Begin, StartSave, StartDelete, StartRestore, StartRestoreDeleted,
                StartCreate, Start
  <2>2. /\ pc'[u] \in {"acquire", "probe"} /\ seen'[u] = NoNote /\ outcome'[u] = "none"
        /\ \A v \in User \ {u} : /\ pc'[v] = pc[v] /\ req'[v] = req[v]
                                 /\ seen'[v] = seen[v] /\ outcome'[v] = outcome[v]
    BY <2>1 DEF Goto, TypeOK
  <2>3. Remember(u)'
    BY <2>2 DEF Remember
  <2>. QED
    BY <1>b, <2>1, <2>2, <2>3, OthersRemember
<1>2. ASSUME NEW u \in User, Acquire(u) \/ CheckExists(u) PROVE Recall'
  <2>1. /\ UNCHANGED <<disk, revs, edits, faults, req, seen, outcome>>
        /\ pc[u] \in {"acquire", "exists"}
        /\ pc'[u] \in {"remove", "exists", "compare", "truncate"}
        /\ \A v \in User \ {u} : pc'[v] = pc[v]
    BY <1>2 DEF Acquire, CheckExists, At, Goto, TypeOK, bounds
  <2>2. faults = 0 => Remember(u)'
    BY <2>1 DEF Remember, Recall
  <2>. QED
    BY <1>b, <2>1, <2>2, OthersRemember
<1>3. ASSUME NEW u \in User, Probe(u) PROVE Recall'
  <2>1. /\ UNCHANGED <<disk, revs, edits, faults, seen, outcome>>
        /\ pc[u] = "probe" /\ req[u].op = "create"
        /\ UNCHANGED pc \/ Goto(u, "truncate")
        /\ UNCHANGED req \/ \E q : req' = [req EXCEPT ![u].path = q]
    BY <1>3 DEF Probe, At, LockHeld, bounds
  <2>2. /\ pc'[u] \in {"probe", "truncate"} /\ req'[u].op = "create"
        /\ \A v \in User \ {u} : pc'[v] = pc[v] /\ req'[v] = req[v]
    BY <2>1 DEF Goto, TypeOK, Request
  <2>3. faults = 0 => Remember(u)'
    BY <2>1, <2>2 DEF Remember, Recall
  <2>. QED
    BY <1>b, <2>1, <2>2, <2>3, OthersRemember
<1>4. ASSUME NEW u \in User, CompareSave(u) PROVE Recall'
  <2>1. /\ UNCHANGED <<disk, revs, edits, faults, req>> /\ req[u].op = "save"
        /\ pc[u] = "compare"
        /\ pc'[u] \in {"idle", "truncate"} /\ (pc'[u] # "idle" => outcome' = outcome)
        /\ \A v \in User \ {u} : /\ pc'[v] = pc[v] /\ seen'[v] = seen[v]
                                 /\ outcome'[v] = outcome[v]
    BY <1>4 DEF CompareSave, Finish, At, Goto, TypeOK, bounds
  <2>2. faults = 0 => Remember(u)'
    BY <2>1 DEF Remember, Recall
  <2>. QED
    BY <1>b, <2>1, <2>2, OthersRemember
<1>5. ASSUME NEW u \in User, CompareRestore(u) PROVE Recall'
  <2>1. /\ UNCHANGED <<disk, revs, edits, faults, req>>
        /\ pc[u] = "compare" /\ seen'[u] = disk[req[u].path]
        /\ pc'[u] \in {"idle", "snapshot"} /\ (pc'[u] # "idle" => outcome' = outcome)
        /\ \A v \in User \ {u} : /\ pc'[v] = pc[v] /\ seen'[v] = seen[v]
                                 /\ outcome'[v] = outcome[v]
    BY <1>5 DEF CompareRestore, Finish, At, Goto, TypeOK, bounds
  <2>2. faults = 0 => Remember(u)'
    BY <2>1 DEF Remember, Recall
  <2>. QED
    BY <1>b, <2>1, <2>2, OthersRemember
<1>6. ASSUME NEW u \in User, SnapshotEdits(u) PROVE Recall'
  <2>1. /\ UNCHANGED <<disk, edits, faults, req, seen, outcome>> /\ pc[u] = "snapshot"
        /\ pc'[u] = "truncate" /\ (\A v \in User \ {u} : pc'[v] = pc[v])
        /\ H!Record(External, req[u].path, "save", disk[req[u].path])
    BY <1>6 DEF SnapshotEdits, At, Goto, TypeOK, bounds
  <2>2. "save" \in H!Action /\ External \in Actor /\ disk[req[u].path] \in Note
    BY <1>a DEF TypeOK, H!Action, Actor
  <2>3. /\ \A q \in Path \ {req[u].path} : H!Latest(q)' = H!Latest(q)
        /\ \A q \in Path : H!Restorable(q) \subseteq H!Restorable(q)'
        /\ disk[req[u].path] # NoNote => disk[req[u].path] \in H!Restorable(req[u].path)'
    BY <2>1, <2>2, <1>a, RecordLatest, RecordRestorable DEF TypeOK
  <2>4. req[u].op = "restore"
    BY <2>1 DEF StepsFit
  <2>5. faults = 0 => Remember(u)'
    BY <2>1, <2>3, <2>4 DEF Remember, Recall
  <2>. QED
    BY <2>1, <2>3, <2>5, OthersRemember DEF Holding
<1>7. ASSUME NEW u \in User, Truncate(u) \/ Write(u) PROVE Recall'
  <2>1. /\ UNCHANGED <<revs, edits, faults, req, seen, outcome>>
        /\ pc[u] \in {"truncate", "write"}
        /\ pc'[u] \in {"write", "index"} /\ (\A v \in User \ {u} : pc'[v] = pc[v])
        /\ \A q \in Path \ {req[u].path} : disk'[q] = disk[q]
    BY <1>7, <1>a DEF Truncate, Write, At, Goto, TypeOK, bounds
  <2>2. faults = 0 => Remember(u)'
    BY <2>1 DEF Remember, Recall
  <2>. QED
    BY <1>b, <2>1, <2>2, OthersRemember DEF Holding
<1>8. ASSUME NEW u \in User, WriteLost(u) \/ IndexNote(u) \/ Unindex(u) PROVE Recall'
  <2>1. /\ UNCHANGED <<disk, revs, edits, faults, req, seen, outcome>>
        /\ (pc[u] = "unindex" /\ pc'[u] = "record")
           \/ (pc[u] \in {"write", "index"} /\ pc'[u] \in {"index", "record"}
               /\ req[u].op # "delete")
        /\ \A v \in User \ {u} : pc'[v] = pc[v]
    BY <1>8 DEF WriteLost, IndexNote, Unindex, At, Goto, TypeOK, bounds, StepsFit
  <2>2. faults = 0 => Remember(u)'
    BY <1>b, <1>a, <2>1 DEF Remember, Recall
  <2>. QED
    BY <1>b, <2>1, <2>2, OthersRemember
<1>9. ASSUME NEW u \in User, RemoveFile(u) PROVE Recall'
  <2>a. /\ UNCHANGED <<revs, edits, faults, req>> /\ pc[u] = "remove"
        /\ seen'[u] = disk[req[u].path] /\ req[u].op = "delete"
        /\ \A v \in User \ {u} : seen'[v] = seen[v]
    BY <1>9, <1>a DEF RemoveFile, At, TypeOK, bounds, StepsFit
  <2>b. /\ pc'[u] = "idle" \/ (pc'[u] = "unindex" /\ outcome' = outcome /\ disk[req[u].path] # NoNote)
        /\ \A q \in Path \ {req[u].path} : disk'[q] = disk[q]
        /\ \A v \in User \ {u} : pc'[v] = pc[v] /\ outcome'[v] = outcome[v]
    <3>1. CASE disk[req[u].path] = NoNote
      BY <1>9, <3>1 DEF RemoveFile, Finish, Goto, TypeOK
    <3>2. CASE disk[req[u].path] # NoNote
      BY <1>9, <1>a, <3>2 DEF RemoveFile, Goto, TypeOK
    <3>. QED BY <3>1, <3>2
  <2>2. edits = 0 /\ faults = 0 => H!Latest(req[u].path) = disk[req[u].path]
    <3>1. \A v \in User : ~Changing(v, req[u].path)
      BY <2>a DEF Apart, Changing, Holding
    <3>. QED BY <3>1, <1>a DEF Agreement
  <2>3. faults = 0 => Remember(u)'
    BY <1>a, <1>b, <2>a, <2>b, <2>2 DEF Remember, Recall
  <2>. QED
    BY <1>b, <2>a, <2>b, <2>3, OthersRemember DEF Holding
<1>10. ASSUME NEW u \in User, RecordRevision(u) PROVE Recall'
  <2>1. /\ UNCHANGED <<disk, edits, faults, req, seen>> /\ pc[u] = "record"
        /\ pc'[u] = "idle"
        /\ (\A v \in User \ {u} : pc'[v] = pc[v] /\ outcome'[v] = outcome[v])
        /\ H!Record(u, req[u].path, req[u].op, disk[req[u].path])
    BY <1>10 DEF RecordRevision, Finish, At, Goto, TypeOK, bounds
  <2>2. req[u].op \in H!Action /\ u \in Actor /\ disk[req[u].path] \in Note
    BY ServiceAssumption DEF TypeOK, Request, H!Action, Actor
  <2>3. /\ \A q \in Path \ {req[u].path} : H!Latest(q)' = H!Latest(q)
        /\ \A q \in Path : H!Restorable(q) \subseteq H!Restorable(q)'
    BY <2>1, <2>2, <1>a, RecordLatest, RecordRestorable DEF TypeOK
  <2>4. Remember(u)'
    BY <2>1 DEF Remember
  <2>. QED
    BY <2>1, <2>3, <2>4, OthersRemember DEF Holding
<1>11. ASSUME NEW u \in User, WriteFails(u) \/ RecordFails(u) PROVE Recall'
  <2>1. faults' # 0
    BY <1>11 DEF WriteFails, RecordFails, TypeOK
  <2>. QED BY <2>1 DEF Recall
<1>12. ASSUME NEW p \in Path, Edit(p) PROVE Recall'
  <2>1. /\ edits' = edits + 1 /\ edits \in Nat /\ faults' = faults
        /\ UNCHANGED <<revs, pc, req, seen, outcome>>
    BY <1>12 DEF Edit, TypeOK
  <2>. SUFFICES ASSUME faults = 0, NEW u \in User PROVE Remember(u)'
    BY <2>1 DEF Recall
  <2>2. Remember(u) /\ H!Restorable(req[u].path)' = H!Restorable(req[u].path)
    BY <2>1 DEF Recall, H!Restorable
  <2>3. CASE edits = 0
    BY <2>1, <2>2, <2>3 DEF Remember
  <2>4. CASE edits # 0
    <3>1. ~(edits' <= 1) /\ edits' # 0
      BY <2>1, <2>4
    <3>. QED BY <2>1, <2>2, <3>1 DEF Remember
  <2>. QED BY <2>3, <2>4
<1>13. CASE PurgeTrash \/ ListTrash \/ UNCHANGED vars
  <2>1. UNCHANGED <<disk, revs, pc, req, seen, outcome, edits, faults>>
    BY <1>13 DEF PurgeTrash, ListTrash, H!PurgeDeleted, vars, bounds
  <2>. QED
    BY <2>1 DEF Recall, Remember, H!Latest, H!Restorable
<1>. QED
  BY <1>1, <1>2, <1>3, <1>4, <1>5, <1>6, <1>7, <1>8, <1>9, <1>10, <1>11, <1>12, <1>13
  DEF Next, Proceed

\* What requests remember, as an invariant of the specification.
LEMMA RecallInvariant == Spec /\ []Apart => []Recall
<1>1. Init => Recall
  BY DEF Init, Recall, Remember
<1>2. /\ TypeOK /\ TypeOK' /\ LockHeld /\ Apart /\ Agreement /\ StepsFit /\ Recall
      /\ [Next]_vars
      => Recall'
  BY RecallStep
<1>. QED
  BY <1>1, <1>2, TypeCorrect, LocksHeld, AgreeApart, ProgressInvariant, PTL DEF Spec

\* A restore overwrites what history can bring back.
THEOREM OverwritesAreInHistory ==
  ASSUME CreatesAlone
  PROVE  Spec => []EditsSnapshotted
<1>1. TypeOK /\ Recall => EditsSnapshotted
  BY DEF TypeOK, Recall, Remember, EditsSnapshotted, At
<1>. QED
  BY <1>1, TypeCorrect, RecallInvariant, KeptApart, PTL

-----------------------------------------------------------------------------
(* What a step may never do *)

\* The counters of what went wrong only grow.
LEMMA BoundsGrow ==
  ASSUME TypeOK, Next
  PROVE  edits <= edits' /\ faults <= faults'
<1>a. edits \in Nat /\ faults \in Nat
  BY DEF TypeOK
<1>1. ASSUME NEW u \in User, Begin(u) \/ Acquire(u) \/ Proceed(u)
      PROVE  UNCHANGED <<edits, faults>>
  BY <1>1 DEF Begin, StartSave, StartDelete, StartRestore, StartRestoreDeleted,
              StartCreate, Start, Proceed, Acquire, Probe, CheckExists, CompareSave,
              CompareRestore, SnapshotEdits, Truncate, Write, WriteLost, IndexNote,
              RemoveFile, Unindex, RecordRevision, bounds
<1>2. ASSUME NEW u \in User, WriteFails(u) \/ RecordFails(u)
      PROVE  edits' = edits /\ faults' = faults + 1
  BY <1>2 DEF WriteFails, RecordFails
<1>3. CASE PurgeTrash \/ ListTrash
  BY <1>3, <1>a DEF PurgeTrash, ListTrash, bounds
<1>4. ASSUME NEW p \in Path, Edit(p) PROVE edits' = edits + 1 /\ faults' = faults
  BY <1>4 DEF Edit
<1>. QED
  BY <1>a, <1>1, <1>2, <1>3, <1>4 DEF Next

\* Without a fault, a request that is to be recorded succeeds by recording.
LEMMA OnlyRecordAnswersOk ==
  ASSUME TypeOK, Next, NEW u \in User, At(u, "record"),
         outcome[u] = "none", outcome'[u] = "ok", faults' = faults
  PROVE  RecordRevision(u)
<1>1. ASSUME NEW v \in User, Begin(v) PROVE FALSE
  <2>1. pc[v] = "idle" /\ outcome' = [outcome EXCEPT ![v] = "none"]
    BY <1>1 DEF Begin, StartSave, StartDelete, StartRestore, StartRestoreDeleted,
                StartCreate, Start, At
  <2>. QED BY <2>1 DEF TypeOK
<1>2. ASSUME NEW v \in User, \/ Acquire(v) \/ Probe(v) \/ CheckExists(v) \/ SnapshotEdits(v)
                             \/ Truncate(v) \/ Write(v) \/ WriteLost(v) \/ IndexNote(v)
                             \/ Unindex(v) \/ PurgeTrash \/ ListTrash \/ \E p \in Path : Edit(p)
      PROVE  FALSE
  BY <1>2 DEF Acquire, Probe, CheckExists, SnapshotEdits, Truncate, Write, WriteLost,
              IndexNote, Unindex, PurgeTrash, ListTrash, Edit
<1>3. ASSUME NEW v \in User, CompareSave(v) \/ CompareRestore(v) \/ RemoveFile(v)
      PROVE  FALSE
  <2>1. pc[v] # "record" /\ \A w \in User \ {v} : outcome'[w] = outcome[w]
    BY <1>3 DEF CompareSave, CompareRestore, RemoveFile, Finish, At, TypeOK
  <2>. QED BY <2>1 DEF At
<1>4. ASSUME NEW v \in User, RecordRevision(v), v # u PROVE FALSE
  BY <1>4 DEF RecordRevision, Finish, TypeOK
<1>5. ASSUME NEW v \in User, WriteFails(v) \/ RecordFails(v) PROVE FALSE
  BY <1>5 DEF WriteFails, RecordFails, TypeOK
<1>. QED
  BY <1>1, <1>2, <1>3, <1>4, <1>5 DEF Next, Proceed

\* When DeleteNote answers, the trash brings back what it removed.
THEOREM DeletesAreRestorable ==
  ASSUME CreatesAlone
  PROVE  Spec => DeletedStaysRestorable
<1> DEFINE Kept ==
      \A u \in User :
        At(u, "record") /\ req[u].op = "delete" /\ outcome'[u] = "ok"
        /\ faults' = 0 /\ edits' = 0
        => trash'[req[u].path] = seen[u]
<1>1. /\ TypeOK /\ TypeOK' /\ LockHeld /\ TrashIsLastContent /\ StepsFit /\ Progress
      /\ Recall /\ [Next]_vars
      => [Kept]_vars
  <2>. SUFFICES ASSUME TypeOK, TypeOK', TrashIsLastContent, StepsFit, Progress, Recall, Next,
                       NEW u \in User, At(u, "record"), req[u].op = "delete",
                       outcome'[u] = "ok", faults' = 0, edits' = 0
                PROVE  trash'[req[u].path] = seen[u]
    OBVIOUS
  <2>1. faults = 0 /\ edits = 0
    BY BoundsGrow DEF TypeOK
  <2>2. Remember(u) /\ Worked(u)
    BY <2>1 DEF Recall, Progress
  <2>3. outcome[u] = "none" /\ disk[req[u].path] = NoNote
        /\ H!Latest(req[u].path) = seen[u] /\ seen[u] # NoNote
    BY <2>1, <2>2 DEF Remember, Worked, At
  <2>4. RecordRevision(u)
    BY <2>1, <2>3, OnlyRecordAnswersOk
  <2>5. H!Record(u, req[u].path, req[u].op, NoNote)
    BY <2>3, <2>4 DEF RecordRevision
  <2>6. req[u].op \in H!Action /\ u \in Actor /\ NoNote \in Note /\ req[u].path \in Path
    BY ServiceAssumption DEF TypeOK, Request, H!Action, Actor, Note
  <2>. QED
    BY <2>3, <2>5, <2>6, RecordTrash DEF TypeOK
<1>. QED
  BY <1>1, TypeCorrect, LocksHeld, TrashCorrect, ProgressInvariant, RecallInvariant,
     KeptApart, PTL
  DEF Spec, DeletedStaysRestorable

\* What a caller signs is what the caller wrote.  A caller of the name that the
\* service signs other programs' edits with (ActorExternal, "external") would
\* share their revisions: no account may have it.
THEOREM SignaturesHold ==
  ASSUME CreatesAlone, External \notin User
  PROVE  Spec => SignedContents
<1> DEFINE Signed ==
      \A u \in User, p \in Path :
       edits = 0 /\ revs'[p] # revs[p] /\ revs'[p][Len(revs'[p])].actor = u =>
         revs'[p][Len(revs'[p])].content =
           IF req[u].op = "delete" THEN NoNote ELSE Stored(u)
<1>1. TypeOK /\ StepsFit /\ Progress /\ [Next]_vars => [Signed]_vars
  <2>. SUFFICES ASSUME TypeOK, Progress, Next, NEW u \in User, NEW p \in Path,
                       edits = 0, revs'[p] # revs[p],
                       revs'[p][Len(revs'[p])].actor = u
                PROVE  revs'[p][Len(revs'[p])].content =
                         IF req[u].op = "delete" THEN NoNote ELSE Stored(u)
    OBVIOUS
  <2>1. PICK v \in User : SnapshotEdits(v) \/ RecordRevision(v)
    BY DEF Next, Begin, StartSave, StartDelete, StartRestore, StartRestoreDeleted,
           StartCreate, Proceed, Acquire, Probe, CheckExists, CompareSave, CompareRestore,
           Truncate, Write, WriteLost, IndexNote, RemoveFile, Unindex, WriteFails,
           RecordFails, PurgeTrash, ListTrash, Edit, H!PurgeDeleted
  <2>2. /\ req[v].path \in Path /\ disk[req[v].path] \in Note /\ H!HistoryTypeOK
        /\ req[v].op \in H!Action /\ "save" \in H!Action
        /\ v \in Actor /\ External \in Actor
    BY ServiceAssumption DEF TypeOK, Request, H!Action, Actor
  <2>3. CASE SnapshotEdits(v)
    <3>1. revs'[p][Len(revs'[p])].actor = External
      BY <2>2, <2>3, RecordAdds DEF SnapshotEdits
    <3>. QED BY <3>1
  <2>4. CASE RecordRevision(v)
    <3>1. /\ p = req[v].path /\ revs'[p][Len(revs'[p])].actor = v
          /\ revs'[p][Len(revs'[p])].content = disk[req[v].path]
      BY <2>2, <2>4, RecordAdds DEF RecordRevision
    <3>2. Worked(u) /\ u = v /\ pc[u] = "record"
      BY <2>4, <3>1 DEF Progress, RecordRevision, At
    <3>. QED BY <3>1, <3>2 DEF Worked
  <2>. QED
    BY <2>1, <2>3, <2>4
<1>. QED
  BY <1>1, TypeCorrect, ProgressInvariant, KeptApart, PTL DEF Spec, SignedContents
=============================================================================
