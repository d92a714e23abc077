-------------------------- MODULE GitHistoryProofs --------------------------
(***************************************************************************)
(* Proofs about GitHistory for any notes, contents, actors and bounds: the *)
(* commits, the staging area and the trash index through crashes, failed   *)
(* writes and lost indexes.                                                *)
(***************************************************************************)
EXTENDS GitHistory, SequenceTheorems, FiniteSetTheorems, WellFoundedInduction, TLAPS

-----------------------------------------------------------------------------
(* Type correctness *)

\* Before InitTrashIndex there may be no trash index; the first commit of a
\* repository is made by the Open that creates it; a Record that updates the
\* trash index has made a commit.
RepoOK ==
  /\ ~repo => pc = "down" /\ commits = << >> /\ staged = Nothing
  /\ pc \in {"stageall", "commitall"} => commits = << >>
  /\ pc = "stageall" => staged = Nothing
  /\ pc \notin {"down", "stageall", "commitall", "index"} => trashFile \in Index
  /\ pc = "trash" => Tip \in Nat \ {0}

\* CommitObject: the log grows by one commit of the staging area.
LEMMA CommitGrows ==
  ASSUME TypeOK, NEW a \in Actor, NEW act \in {"init", "save", "delete"},
         NEW q \in Path \cup {NoPath}, Committed(a, act, q)
  PROVE  /\ commits' \in Seq(Commit)
         /\ Tip \in Nat /\ Tip' = Tip + 1
         /\ commits'[Tip + 1] = [actor |-> a, action |-> act, path |-> q, tree |-> staged]
         /\ \A k \in 1..Tip : commits'[k] = commits[k]
         /\ TreeAt(Tip)' = staged
         /\ \A k \in 0..Tip : TreeAt(k)' = TreeAt(k)
<1>. DEFINE c == [actor |-> a, action |-> act, path |-> q, tree |-> staged]
<1>1. c \in Commit
  BY DEF Commit, TypeOK
<1>1a. c.tree = staged
  OBVIOUS
<1>2. commits' = Append(commits, c)
  BY DEF Committed
<1>. HIDE DEF c
<1>3. commits \in Seq(Commit) /\ Tip \in Nat /\ Tip = Len(commits)
  BY LenProperties DEF TypeOK, Tip
<1>4. /\ commits' \in Seq(Commit) /\ Len(commits') = Tip + 1
      /\ commits'[Tip + 1] = c
      /\ \A k \in 1..Tip : commits'[k] = commits[k]
  BY <1>1, <1>2, <1>3, AppendProperties
<1>5. Tip' = Tip + 1
  BY <1>4 DEF Tip
<1>6. TreeAt(Tip)' = staged
  <2>1. Len(commits') = Len(commits) + 1 /\ Len(commits') # 0
    BY <1>3, <1>4
  <2>2. commits'[Len(commits')] = c
    BY <1>3, <1>4
  <2>. QED BY <1>1a, <2>1, <2>2 DEF TreeAt, Tip
<1>7. \A k \in 0..Tip : TreeAt(k)' = TreeAt(k)
  BY <1>3, <1>4 DEF TreeAt
<1>. QED
  BY <1>3, <1>4, <1>5, <1>6, <1>7 DEF c

\* The newest of some commits is the one with the highest number.
LEMMA NewestIs ==
  ASSUME TypeOK, NEW ks \in SUBSET (1..Tip), ks # {}
  PROVE  Newest(ks) \in ks /\ \A j \in ks : j <= Newest(ks)
<1>1. Tip \in Nat
  BY LenProperties DEF TypeOK, Tip
<1>. DEFINE T == {Tip - k : k \in ks}
<1>2. T \subseteq Nat /\ T # {}
  <2>1. \A k \in ks : k \in 1..Tip
    OBVIOUS
  <2>2. \A k \in ks : Tip - k \in Nat
    BY <1>1, <2>1
  <2>. QED BY <2>2
<1>3. PICK x \in T : \A y \in T : ~(<<y, x>> \in OpToRel(<, Nat))
  BY <1>2, NatLessThanWellFounded, WFMin
<1>4. \A y \in T : ~(y < x)
  BY <1>2, <1>3 DEF OpToRel
<1>5. PICK k \in ks : x = Tip - k
  BY <1>3
<1>6. \A j \in ks : j <= k
  BY <1>1, <1>4, <1>5
<1>. QED
  BY <1>6 DEF Newest

\* What scanDeleted finds of p: nothing, or the newest deletion of that name.
LEMMA ScannedEntry ==
  ASSUME TypeOK, NEW p \in Path
  PROVE  LET ks == NamedDeletions(p)
             d == Newest(ks)
         IN IF ks \ {1} = {} \/ p \in LegacyPurged \/ disk[p] # NoNote
            THEN Scanned[p] = NoEntry
            ELSE /\ d \in ks /\ d \in 2..Tip /\ \A j \in ks : j <= d
                 /\ Scanned[p] = [restore |-> d - 1, delete |-> d]
                 /\ Scanned[p] \in Entry
<1>. DEFINE ks == NamedDeletions(p)
            d == Newest(ks)
<1>1. ks \subseteq 1..Tip
  BY DEF NamedDeletions
<1>2. Scanned[p] = IF ks \ {1} = {} \/ p \in LegacyPurged \/ disk[p] # NoNote THEN NoEntry
                   ELSE [restore |-> d - 1, delete |-> d]
  BY DEF Scanned
<1>3. CASE ks \ {1} # {}
  <2>1. d \in ks /\ \A j \in ks : j <= d
    BY <1>1, <1>3, NewestIs
  <2>2. Tip \in Nat
    BY LenProperties DEF TypeOK, Tip
  <2>3. d \in 2..Tip
    <3>1. PICK j \in ks : j # 1
      BY <1>3
    <3>2. d \in 1..Tip /\ j \in 1..Tip /\ j <= d
      BY <1>1, <2>1, <3>1
    <3>. QED BY <2>2, <3>1, <3>2
  <2>4. [restore |-> d - 1, delete |-> d] \in Entry
    BY <2>2, <2>3 DEF Entry
  <2>. QED BY <1>2, <1>3, <2>1, <2>3, <2>4
<1>4. CASE ks \ {1} = {}
  BY <1>2, <1>4
<1>. QED
  BY <1>3, <1>4

\* A rebuilt index, or what is left of the one there was, is an index.
LEMMA IndexType ==
  ASSUME TypeOK
  PROVE  /\ Scanned \in Index
         /\ trashFile # Missing => Validated \in Index
<1>1. ASSUME NEW p \in Path
      PROVE  Scanned[p] \in Entry \cup {NoEntry}
  BY ScannedEntry
<1>2. Scanned \in Index
  BY <1>1 DEF Scanned, Index
<1>3. ASSUME trashFile # Missing PROVE Validated \in Index
  <2>1. trashFile \in Index
    BY <1>3 DEF TypeOK
  <2>. QED BY <2>1 DEF Validated, Index
<1>. QED
  BY <1>2, <1>3

\* The counters.
BoundsOK ==
  /\ edits \in 0..MaxEdits /\ records \in 0..MaxRecords
  /\ races \in Nat /\ crashes \in Nat /\ faults \in Nat /\ losses \in Nat
  /\ Troubles <= MaxTroubles

\* A step keeps them in bounds and turns none back.
LEMMA BoundsType ==
  ASSUME TypeOK, [Next]_vars
  PROVE  /\ BoundsOK'
         /\ races <= races' /\ crashes <= crashes' /\ faults <= faults' /\ losses <= losses'
<1>a. MaxEdits \in Nat /\ MaxRecords \in Nat /\ MaxTroubles \in Nat
  BY GitAssumption DEF GitAssumption
<1>b. edits \in 0..MaxEdits /\ records \in 0..MaxRecords /\ Troubles <= MaxTroubles
      /\ races \in Nat /\ crashes \in Nat /\ faults \in Nat /\ losses \in Nat
  BY DEF TypeOK
<1>1. CASE UNCHANGED bounds
  BY <1>1, <1>b DEF BoundsOK, bounds, Troubles
<1>2. CASE /\ records < MaxRecords /\ records' = records + 1
           /\ UNCHANGED <<edits, races, crashes, faults, losses>>
  BY <1>a, <1>b, <1>2 DEF BoundsOK, Troubles
<1>3. CASE Troubles < MaxTroubles /\ UNCHANGED <<edits, records>>
           /\ \/ faults' = faults + 1 /\ UNCHANGED <<races, crashes, losses>>
              \/ crashes' = crashes + 1 /\ UNCHANGED <<races, faults, losses>>
              \/ losses' = losses + 1 /\ UNCHANGED <<races, faults, crashes>>
  BY <1>a, <1>b, <1>3 DEF BoundsOK, Troubles
<1>4. CASE /\ edits < MaxEdits /\ edits' = edits + 1
           /\ UNCHANGED <<records, crashes, faults, losses>>
           /\ (Troubles < MaxTroubles /\ races' = races + 1) \/ races' = races
  BY <1>a, <1>b, <1>4 DEF BoundsOK, Troubles
<1>5. CASE InitRepo \/ StageAll \/ CommitAll \/ OpenRepo \/ InitTrashIndex \/ Read \/ Stage
           \/ CommitStaged \/ UpdateTrashIndex \/ ListDeleted \/ Stop
           \/ (\E paths \in SUBSET Purgeable : PurgeDeleted(paths))
  BY <1>1, <1>5 DEF InitRepo, StageAll, CommitAll, OpenRepo, InitTrashIndex, Read, Stage,
                    CommitStaged, UpdateTrashIndex, ListDeleted, Stop, PurgeDeleted
<1>6. CASE \E actor \in Actor, p \in Path : StartRecord(actor, p)
  BY <1>2, <1>6 DEF StartRecord
<1>7. CASE CommitFails \/ TrashWriteFails \/ Crash \/ LoseTrashFile
  BY <1>3, <1>7 DEF CommitFails, TrashWriteFails, Crash, LoseTrashFile
<1>8. CASE \E p \in Path : Change(p)
  BY <1>4, <1>8 DEF Change
<1>9. CASE UNCHANGED vars
  BY <1>1, <1>9 DEF vars, bounds
<1>. QED
  BY <1>5, <1>6, <1>7, <1>8, <1>9 DEF Next

\* What a step changes besides the counters, in the right types and order.
StateOK ==
  /\ disk \in Tree /\ staged \in Tree
  /\ repo \in BOOLEAN
  /\ commits \in Seq(Commit)
  /\ trashFile \in Index \cup {Missing}
  /\ lost \in Index
  /\ pc \in {"down", "stageall", "commitall", "index",
             "idle", "read", "stage", "commit", "trash"}
  /\ call \in [actor: Actor, action: {"save", "delete"}, path: Path]
  /\ found \in BOOLEAN
  /\ answer \in {"none", "nil", "error"}

LEMMA StateStep ==
  ASSUME TypeOK, RepoOK, [Next]_vars
  PROVE  StateOK' /\ RepoOK'
<1>a. StateOK /\ NoNote \in Note /\ Local \in Actor /\ NoEntry \in Entry \cup {NoEntry}
  BY GitAssumption DEF TypeOK, StateOK, Note, GitAssumption
<1>b. call.path \in Path /\ call.actor \in Actor /\ call.action \in {"save", "delete"}
  BY DEF TypeOK
<1>c. Tip \in Nat
  BY LenProperties DEF TypeOK, Tip
<1>1. CASE InitRepo
  BY <1>a, <1>1 DEF InitRepo, Goto, StateOK, RepoOK
<1>2. CASE StageAll
  BY <1>a, <1>2 DEF StageAll, Goto, StateOK, RepoOK
<1>3. CASE CommitAll
  <2>1. CASE staged # Nothing /\ Committed(Local, "init", NoPath) /\ Goto("commitall", "index")
    <3>1. commits' \in Seq(Commit)
      BY <1>a, <2>1, CommitGrows
    <3>. QED BY <1>3, <1>a, <2>1, <3>1 DEF CommitAll, Goto, StateOK, RepoOK
  <2>2. CASE UNCHANGED commits /\ pc' \in {"index", "down"} /\ pc = "commitall"
    BY <1>3, <1>a, <2>2 DEF CommitAll, StateOK, RepoOK
  <2>. QED BY <1>3, <2>1, <2>2 DEF CommitAll, Goto
<1>4. CASE OpenRepo
  BY <1>a, <1>4 DEF OpenRepo, Goto, StateOK, RepoOK, repository
<1>5. CASE InitTrashIndex
  <2>1. trashFile' \in Index
    BY <1>5, IndexType DEF InitTrashIndex
  <2>. QED BY <1>5, <1>a, <2>1 DEF InitTrashIndex, Goto, StateOK, RepoOK
<1>6. ASSUME NEW actor \in Actor, NEW p \in Path, StartRecord(actor, p)
      PROVE  StateOK' /\ RepoOK'
  BY <1>a, <1>6 DEF StartRecord, Goto, StateOK, RepoOK, repository
<1>7. CASE Read
  BY <1>a, <1>7 DEF Read, Return, Goto, StateOK, RepoOK, repository
<1>8. CASE Stage
  <2>1. staged' \in Tree /\ disk' \in Tree
    BY <1>8, <1>a, <1>b DEF Stage, StateOK, Tree, repository
  <2>. QED BY <1>8, <1>a, <2>1 DEF Stage, Return, Goto, StateOK, RepoOK, repository
<1>9. CASE CommitStaged
  <2>1. CASE Committed(call.actor, call.action, call.path) /\ Goto("commit", "trash")
             /\ UNCHANGED <<disk, repo, staged, trashFile, call, found, answer, lost, bounds>>
    <3>0. commits' \in Seq(Commit) /\ Tip' = Tip + 1
      BY <1>b, <2>1, CommitGrows
    <3>1. commits' \in Seq(Commit) /\ Tip' \in Nat \ {0}
      BY <1>c, <3>0
    <3>. QED BY <1>a, <2>1, <3>1 DEF Goto, StateOK, RepoOK
  <2>2. CASE Return("commit", "error") /\ UNCHANGED <<disk, repository, call, found, lost, bounds>>
    BY <1>a, <2>2 DEF Return, Goto, StateOK, RepoOK, repository
  <2>. QED BY <1>9, <2>1, <2>2 DEF CommitStaged
<1>10. CASE UpdateTrashIndex
  <2>1. trashFile \in Index
    BY <1>10 DEF UpdateTrashIndex, Return, Goto, RepoOK
  <2>2. CASE found
    BY <1>10, <1>a, <1>b, <2>1, <2>2
    DEF UpdateTrashIndex, Return, Goto, StateOK, RepoOK, Index
  <2>3. CASE ~found
    <3>1. [restore |-> Tip - 1, delete |-> Tip] \in Entry
      <4>1. Tip - 1 \in Nat
        BY <1>10, <1>c, <2>3 DEF UpdateTrashIndex, Return, Goto, RepoOK
      <4>. QED BY <4>1, <1>c DEF Entry
    <3>2. trashFile' \in Index
      BY <1>10, <2>1, <2>3, <3>1 DEF UpdateTrashIndex, Index
    <3>. QED BY <1>10, <1>a, <3>2 DEF UpdateTrashIndex, Return, Goto, StateOK, RepoOK
  <2>. QED BY <2>2, <2>3
<1>11. CASE ListDeleted \/ \E paths \in SUBSET Purgeable : PurgeDeleted(paths)
  <2>1. pc = "idle" /\ trashFile \in Index
    BY <1>11 DEF ListDeleted, PurgeDeleted, RepoOK
  <2>2. trashFile' \in Index
    BY <1>11, <2>1 DEF ListDeleted, PurgeDeleted, Index
  <2>. QED BY <1>11, <1>a, <2>1, <2>2 DEF ListDeleted, PurgeDeleted, StateOK, RepoOK
<1>12. CASE CommitFails \/ TrashWriteFails
  BY <1>a, <1>12 DEF CommitFails, TrashWriteFails, Return, Goto, StateOK, RepoOK, repository
<1>13. CASE Stop \/ Crash
  BY <1>a, <1>13 DEF Stop, Crash, Goto, StateOK, RepoOK, repository
<1>14. CASE LoseTrashFile
  BY <1>a, <1>14 DEF LoseTrashFile, StateOK, RepoOK
<1>15. ASSUME NEW p \in Path, Change(p) PROVE StateOK' /\ RepoOK'
  <2>1. disk' \in Tree
    BY <1>15, <1>a DEF Change, StateOK, Tree
  <2>. QED BY <1>15, <1>a, <2>1 DEF Change, StateOK, RepoOK, repository, Tip
<1>16. CASE UNCHANGED vars
  BY <1>a, <1>16 DEF vars, repository, StateOK, RepoOK, Tip
<1>. QED
  BY <1>1, <1>2, <1>3, <1>4, <1>5, <1>6, <1>7, <1>8, <1>9, <1>10, <1>11, <1>12, <1>13,
     <1>14, <1>15, <1>16 DEF Next

\* The types of GitHistory (TypeOK), and what the step of Open, Record and the
\* trash says about the repository (RepoOK).
THEOREM TypeCorrect == Spec => []TypeOK /\ []RepoOK
<1>1. ASSUME Init PROVE TypeOK /\ RepoOK
  <2>a. MaxEdits \in Nat /\ MaxRecords \in Nat /\ MaxTroubles \in Nat /\ Local \in Actor
    BY GitAssumption DEF GitAssumption
  <2>1. Nothing \in Tree /\ NoEntries \in Index
    BY DEF Nothing, Tree, Note, NoEntries, Index
  <2>2. commits \in Seq(Commit)
    BY <1>1, EmptySeq DEF Init
  <2>3. edits \in 0..MaxEdits /\ records \in 0..MaxRecords
        /\ races \in Nat /\ crashes \in Nat /\ faults \in Nat /\ losses \in Nat
        /\ Troubles <= MaxTroubles
    BY <1>1, <2>a DEF Init, Troubles
  <2>4. StateOK
    BY <1>1, <2>a, <2>1, <2>2 DEF Init, StateOK
  <2>5. RepoOK
    BY <1>1 DEF Init, RepoOK
  <2>. QED BY <2>3, <2>4, <2>5 DEF TypeOK, StateOK
<1>2. ASSUME TypeOK, RepoOK, [Next]_vars PROVE TypeOK' /\ RepoOK'
  <2>1. StateOK' /\ RepoOK'
    BY <1>2, StateStep
  <2>2. BoundsOK'
    BY <1>2, BoundsType DEF BoundsOK
  <2>. QED BY <2>1, <2>2 DEF TypeOK, StateOK, BoundsOK
<1>. QED
  BY <1>1, <1>2, PTL DEF Spec

-----------------------------------------------------------------------------
(* The log of commits *)

\* What a Record that is ready to commit, or Open, adds to the log.
Adds(action, path) ==
  /\ Tip' = Tip + 1
  /\ commits'[Tip + 1].action = action
  /\ commits'[Tip + 1].path = path
  /\ TreeAt(Tip)' = staged
  /\ UNCHANGED <<disk, repo, staged, trashFile, call, found, answer, lost, bounds>>

\* The log is append-only: a step keeps it or adds the staging area to it.
LEMMA LogGrows ==
  ASSUME TypeOK, [Next]_vars
  PROVE  /\ Tip \in Nat /\ Tip' \in Nat /\ Tip <= Tip'
         /\ \A k \in 1..Tip : commits'[k] = commits[k]
         /\ \A k \in 0..Tip : TreeAt(k)' = TreeAt(k)
         /\ \/ commits' = commits /\ Tip' = Tip /\ TreeAt(Tip)' = TreeAt(Tip)
            \/ Adds("init", NoPath) /\ Goto("commitall", "index")
            \/ Adds(call.action, call.path) /\ Goto("commit", "trash")
<1>a. Tip \in Nat
  BY LenProperties DEF TypeOK, Tip
<1>b. call.path \in Path /\ call.actor \in Actor /\ call.action \in {"save", "delete"}
      /\ Local \in Actor
  BY GitAssumption DEF TypeOK, GitAssumption
<1>1. CASE UNCHANGED commits
  <2>1. Tip' = Tip /\ TreeAt(Tip)' = TreeAt(Tip) /\ \A k \in 0..Tip : TreeAt(k)' = TreeAt(k)
    BY <1>1 DEF Tip, TreeAt
  <2>. QED BY <1>1, <1>a, <2>1
<1>2. CASE Committed(Local, "init", NoPath) /\ Goto("commitall", "index")
           /\ UNCHANGED <<disk, repo, staged, trashFile, call, found, answer, lost, bounds>>
  <2>1. /\ Tip' = Tip + 1
        /\ commits'[Tip + 1] = [actor |-> Local, action |-> "init", path |-> NoPath, tree |-> staged]
        /\ \A k \in 1..Tip : commits'[k] = commits[k]
        /\ TreeAt(Tip)' = staged
        /\ \A k \in 0..Tip : TreeAt(k)' = TreeAt(k)
    BY <1>b, <1>2, CommitGrows
  <2>2. Adds("init", NoPath)
    BY <1>2, <2>1 DEF Adds
  <2>3. Tip' \in Nat /\ Tip <= Tip'
    BY <1>a, <2>1
  <2>. QED BY <1>2, <1>a, <2>1, <2>2, <2>3
<1>3. CASE Committed(call.actor, call.action, call.path) /\ Goto("commit", "trash")
           /\ UNCHANGED <<disk, repo, staged, trashFile, call, found, answer, lost, bounds>>
  <2>1. /\ Tip' = Tip + 1
        /\ commits'[Tip + 1] = [actor |-> call.actor, action |-> call.action,
                                path |-> call.path, tree |-> staged]
        /\ \A k \in 1..Tip : commits'[k] = commits[k]
        /\ TreeAt(Tip)' = staged
        /\ \A k \in 0..Tip : TreeAt(k)' = TreeAt(k)
    BY <1>b, <1>3, CommitGrows
  <2>2. Adds(call.action, call.path)
    BY <1>3, <2>1 DEF Adds
  <2>3. Tip' \in Nat /\ Tip <= Tip'
    BY <1>a, <2>1
  <2>. QED BY <1>3, <1>a, <2>1, <2>2, <2>3
<1>4. CASE CommitAll
  BY <1>1, <1>2, <1>4 DEF CommitAll
<1>5. CASE CommitStaged
  BY <1>1, <1>3, <1>5 DEF CommitStaged, repository
<1>6. CASE InitRepo \/ StageAll \/ OpenRepo \/ InitTrashIndex \/ Read \/ Stage
           \/ UpdateTrashIndex \/ ListDeleted
  BY <1>1, <1>6 DEF InitRepo, StageAll, OpenRepo, InitTrashIndex, Read, Stage,
                    UpdateTrashIndex, ListDeleted, repository
<1>7. CASE CommitFails \/ TrashWriteFails \/ Stop \/ Crash \/ LoseTrashFile
  BY <1>1, <1>7 DEF CommitFails, TrashWriteFails, Stop, Crash, LoseTrashFile, repository
<1>8. CASE (\E actor \in Actor, p \in Path : StartRecord(actor, p))
           \/ (\E paths \in SUBSET Purgeable : PurgeDeleted(paths)) \/ (\E p \in Path : Change(p))
  BY <1>1, <1>8 DEF StartRecord, PurgeDeleted, Change, repository
<1>9. CASE UNCHANGED vars
  BY <1>1, <1>9 DEF vars, repository
<1>. QED
  BY <1>4, <1>5, <1>6, <1>7, <1>8, <1>9 DEF Next

-----------------------------------------------------------------------------
(* The staging area *)

\* Without crashes and failed writes the staging area holds what HEAD holds,
\* but between staging and committing.
StagedOK ==
  crashes = 0 /\ faults = 0 /\ pc \notin {"commitall", "commit"} => staged = TreeAt(Tip)

LEMMA StagedStep ==
  ASSUME TypeOK, RepoOK, StagedOK, [Next]_vars
  PROVE  StagedOK'
<1>. SUFFICES ASSUME crashes' = 0, faults' = 0, pc' \notin {"commitall", "commit"}
     PROVE  staged' = TreeAt(Tip)'
  BY DEF StagedOK
<1>a. crashes \in Nat /\ faults \in Nat /\ crashes <= crashes' /\ faults <= faults'
  BY BoundsType DEF TypeOK
<1>b. crashes = 0 /\ faults = 0
  BY <1>a
<1>1. CASE commits' = commits /\ Tip' = Tip /\ TreeAt(Tip)' = TreeAt(Tip)
  <2>a. pc \notin {"commitall", "commit"} => staged = TreeAt(Tip)
    BY <1>b DEF StagedOK
  <2>1. CASE StageAll \/ Stage
    BY <1>1, <2>1, <2>a DEF StageAll, Stage, Goto, Return, repository
  <2>2. CASE CommitAll
    <3>1. pc = "commitall" /\ staged' = staged
      BY <2>2 DEF CommitAll, Goto
    <3>2. TreeAt(Tip) = Nothing
      BY <3>1 DEF RepoOK, TreeAt, Tip
    <3>3. staged = Nothing
      <4>1. CASE Committed(Local, "init", NoPath)
        BY <1>1, <4>1, CommitGrows, <3>2, GitAssumption DEF GitAssumption
      <4>. QED BY <2>2, <4>1 DEF CommitAll
    <3>. QED BY <1>1, <3>1, <3>2, <3>3
  <2>3. CASE CommitStaged
    <3>1. CASE staged = TreeAt(Tip) /\ UNCHANGED repository
      BY <1>1, <3>1 DEF repository
    <3>2. CASE Committed(call.actor, call.action, call.path) /\ UNCHANGED staged
      BY <1>1, <3>2, CommitGrows DEF TypeOK
    <3>. QED BY <2>3, <3>1, <3>2 DEF CommitStaged
  <2>4. CASE CommitFails \/ Crash
    BY <1>a, <1>b, <2>4 DEF CommitFails, Crash
  <2>5. CASE InitRepo \/ OpenRepo \/ InitTrashIndex \/ Read \/ UpdateTrashIndex \/ ListDeleted
             \/ TrashWriteFails \/ Stop \/ LoseTrashFile
    BY <1>1, <2>5, <2>a DEF InitRepo, OpenRepo, InitTrashIndex, Read, UpdateTrashIndex,
       ListDeleted, TrashWriteFails, Stop, LoseTrashFile, Goto, Return, repository
  <2>6. CASE (\E actor \in Actor, p \in Path : StartRecord(actor, p))
             \/ (\E paths \in SUBSET Purgeable : PurgeDeleted(paths)) \/ (\E p \in Path : Change(p))
    BY <1>1, <2>6, <2>a DEF StartRecord, PurgeDeleted, Change, Goto, repository
  <2>7. CASE UNCHANGED vars
    BY <1>1, <2>7, <2>a DEF vars, repository
  <2>. QED BY <2>1, <2>2, <2>3, <2>4, <2>5, <2>6, <2>7 DEF Next
<1>2. CASE Adds("init", NoPath) \/ Adds(call.action, call.path)
  BY <1>2 DEF Adds
<1>. QED
  BY <1>1, <1>2, LogGrows

\* NothingRidesAlong: what one call stages it commits, so that the next note's
\* commit holds nothing else, until a call crashes or fails in between.
THEOREM NothingStaged == Spec => []NothingRidesAlong
<1>1. Init => StagedOK
  BY DEF Init, StagedOK, TreeAt, Tip
<1>2. TypeOK /\ RepoOK /\ StagedOK /\ [Next]_vars => StagedOK'
  BY StagedStep
<1>3. StagedOK => NothingRidesAlong
  BY DEF StagedOK, NothingRidesAlong
<1>. QED
  BY <1>1, <1>2, <1>3, TypeCorrect, PTL DEF Spec

-----------------------------------------------------------------------------
(* The Record in progress *)

\* While nobody touches the file a Record is about: what it read is still so,
\* what it staged is what the disk holds, and what it committed last is that.
RecordOK ==
  races = 0 =>
    LET p == call.path IN
    /\ pc \in {"stage", "commit", "trash"} => found = (disk[p] # NoNote)
    /\ pc \in {"stage", "commit"} => disk[p] # TreeAt(Tip)[p]
    /\ pc = "commit" => staged[p] = disk[p]
    /\ pc = "trash" => /\ commits[Tip].path = p
                       /\ TreeAt(Tip)[p] = disk[p]
                       /\ TreeAt(Tip - 1)[p] # disk[p]

LEMMA RecordStep ==
  ASSUME TypeOK, RepoOK, RecordOK, [Next]_vars
  PROVE  RecordOK'
<1>. DEFINE p == call.path
<1>a. races \in Nat /\ races <= races' /\ Tip \in Nat /\ disk \in Tree /\ staged \in Tree
      /\ p \in Path
  BY BoundsType, LenProperties DEF TypeOK, Tip
<1>. SUFFICES ASSUME races' = 0 PROVE RecordOK'
  BY DEF RecordOK
<1>b. races = 0
  BY <1>a
<1>c. /\ pc \in {"stage", "commit", "trash"} => found = (disk[p] # NoNote)
      /\ pc \in {"stage", "commit"} => disk[p] # TreeAt(Tip)[p]
      /\ pc = "commit" => staged[p] = disk[p]
      /\ pc = "trash" => /\ commits[Tip].path = p
                         /\ TreeAt(Tip)[p] = disk[p]
                         /\ TreeAt(Tip - 1)[p] # disk[p]
  BY <1>b DEF RecordOK
\* Steps that do not change what a Record under way relies on.
<1>1. CASE UNCHANGED <<pc, call, found, disk, staged, commits>>
  BY <1>1, <1>c DEF RecordOK, TreeAt, Tip
<1>2. CASE pc' \notin {"stage", "commit", "trash"}
  BY <1>2 DEF RecordOK
<1>3. CASE InitRepo \/ StageAll \/ OpenRepo \/ InitTrashIndex \/ UpdateTrashIndex
           \/ CommitFails \/ TrashWriteFails \/ Stop \/ Crash
  BY <1>2, <1>3 DEF InitRepo, StageAll, OpenRepo, InitTrashIndex, UpdateTrashIndex,
                    CommitFails, TrashWriteFails, Stop, Crash, Goto, Return
<1>4. CASE CommitAll
  BY <1>2, <1>4 DEF CommitAll, Goto
<1>5. CASE (\E actor \in Actor, q \in Path : StartRecord(actor, q))
  BY <1>2, <1>5 DEF StartRecord, Goto
<1>6. CASE ListDeleted \/ LoseTrashFile \/ (\E paths \in SUBSET Purgeable : PurgeDeleted(paths))
  BY <1>1, <1>6 DEF ListDeleted, LoseTrashFile, PurgeDeleted
<1>7. CASE UNCHANGED vars
  BY <1>1, <1>7 DEF vars, repository
<1>8. CASE Read
  <2>1. CASE Return("read", "nil")
    BY <1>2, <2>1 DEF Return, Goto
  <2>2. CASE disk[p] # InHead(p) /\ Goto("read", "stage")
    BY <1>8, <2>2 DEF Read, RecordOK, Goto, InHead, TreeAt, Tip, repository
  <2>. QED BY <1>8, <2>1, <2>2 DEF Read
<1>9. CASE Stage
  <2>1. CASE Return("stage", "error")
    BY <1>2, <2>1 DEF Return, Goto
  <2>2. CASE /\ staged' = [staged EXCEPT ![p] = IF found THEN disk[p] ELSE NoNote]
             /\ disk' = IF found THEN disk ELSE [disk EXCEPT ![p] = NoNote]
             /\ Goto("stage", "commit")
             /\ UNCHANGED <<repo, commits, trashFile, call, found, answer, lost, bounds>>
    <3>1. found = (disk[p] # NoNote) /\ disk[p] # TreeAt(Tip)[p]
      BY <1>c, <2>2 DEF Goto
    <3>2. staged'[p] = disk[p]
      BY <1>a, <2>2, <3>1 DEF Tree
    <3>3. disk' = disk
      BY <1>a, <2>2, <3>1 DEF Tree
    <3>. QED BY <2>2, <3>1, <3>2, <3>3 DEF RecordOK, Goto, TreeAt, Tip
  <2>. QED BY <1>9, <2>1, <2>2 DEF Stage
<1>10. CASE CommitStaged
  <2>1. CASE Return("commit", "error")
    BY <1>2, <2>1 DEF Return, Goto
  <2>2. CASE Adds(call.action, call.path) /\ Goto("commit", "trash")
    <3>1. /\ Tip' = Tip + 1 /\ commits'[Tip + 1].path = p
          /\ TreeAt(Tip)' = staged
          /\ disk' = disk /\ found' = found /\ call' = call
      BY <2>2 DEF Adds
    <3>2. /\ found = (disk[p] # NoNote) /\ staged[p] = disk[p] /\ disk[p] # TreeAt(Tip)[p]
      BY <1>c, <2>2 DEF Goto
    <3>3. Tip' - 1 = Tip
      BY <1>a, <3>1
    <3>4. TreeAt(Tip - 1)' = TreeAt(Tip)
      <4>1. \A k \in 0..Tip : TreeAt(k)' = TreeAt(k)
        BY LogGrows
      <4>2. PICK t : t = Tip
        OBVIOUS
      <4>3. TreeAt(t)' = TreeAt(t)
        BY <1>a, <4>1, <4>2
      <4>. QED BY <3>3, <4>2, <4>3 DEF TreeAt
    <3>. QED BY <2>2, <3>1, <3>2, <3>4 DEF RecordOK, Goto
  <2>3. commits' # commits => Adds(call.action, call.path) /\ Goto("commit", "trash")
    BY <1>10, LogGrows DEF CommitStaged, Goto, Return
  <2>4. commits' = commits => Return("commit", "error")
    <3>1. SUFFICES ASSUME commits' = commits,
                          Committed(call.actor, call.action, call.path)
                   PROVE  FALSE
      BY <1>10 DEF CommitStaged
    <3>2. Tip' = Tip + 1 /\ Tip' = Tip
      BY <3>1, CommitGrows DEF TypeOK, Tip
    <3>. QED BY <1>a, <3>2
  <2>. QED BY <2>1, <2>2, <2>3, <2>4
<1>11. ASSUME NEW q \in Path, Change(q) PROVE RecordOK'
  <2>1. ~InUse(q)
    BY <1>11, <1>a, <1>b DEF Change
  <2>2. /\ UNCHANGED <<repository, pc, call, found>>
        /\ pc \in {"stage", "commit", "trash"} => q # p
    BY <1>11, <2>1 DEF Change, InUse
  <2>3. q # p => disk'[p] = disk[p]
    BY <1>11, <1>a DEF Change, Tree
  <2>. QED BY <1>c, <2>2, <2>3 DEF RecordOK, TreeAt, Tip, repository
<1>. QED
  BY <1>3, <1>4, <1>5, <1>6, <1>7, <1>8, <1>9, <1>10, <1>11 DEF Next

\* The Record in progress relies on nothing it could lose.
LEMMA RecordInvariant == Spec => []RecordOK
<1>1. Init => RecordOK
  BY DEF Init, RecordOK
<1>2. TypeOK /\ RepoOK /\ RecordOK /\ [Next]_vars => RecordOK'
  BY RecordStep
<1>. QED
  BY <1>1, <1>2, TypeCorrect, PTL DEF Spec

\* RecordCaptures: a Record that returns nil leaves HEAD holding what the disk
\* holds.
THEOREM Captured == Spec => RecordCaptures
<1>. DEFINE Step == pc # "idle" /\ pc' = "idle" /\ answer' = "nil" /\ answer = "none" /\ races = 0
                     => TreeAt(Tip)'[call.path] = disk[call.path]
<1>1. TypeOK /\ RepoOK /\ RecordOK /\ [Next]_vars => [Step]_vars
  <2>. SUFFICES ASSUME TypeOK, RepoOK, RecordOK, Next, pc # "idle", pc' = "idle",
                       answer' = "nil", answer = "none", races = 0
                PROVE  TreeAt(Tip)'[call.path] = disk[call.path]
    OBVIOUS
  <2>1. CASE Read
    BY <2>1 DEF Read, Return, Goto, InHead, TreeAt, Tip, repository
  <2>2. CASE UpdateTrashIndex
    BY <2>2 DEF UpdateTrashIndex, Return, Goto, RecordOK, TreeAt, Tip
  <2>3. CASE TrashWriteFails
    BY <2>3 DEF TrashWriteFails, Return, Goto, RecordOK, TreeAt, Tip, repository
  <2>4. CASE InitRepo \/ StageAll \/ CommitAll \/ OpenRepo \/ InitTrashIndex \/ ListDeleted
             \/ LoseTrashFile \/ Stop \/ Crash
    BY <2>4 DEF InitRepo, StageAll, CommitAll, OpenRepo, InitTrashIndex, ListDeleted,
                LoseTrashFile, Stop, Crash
  <2>5. CASE Stage \/ CommitStaged \/ CommitFails
    BY <2>5 DEF Stage, CommitStaged, CommitFails, Return
  <2>6. CASE (\E actor \in Actor, p \in Path : StartRecord(actor, p))
             \/ (\E paths \in SUBSET Purgeable : PurgeDeleted(paths)) \/ (\E p \in Path : Change(p))
    BY <2>6 DEF StartRecord, PurgeDeleted, Change
  <2>. QED BY <2>1, <2>2, <2>3, <2>4, <2>5, <2>6 DEF Next
<1>. QED
  BY <1>1, TypeCorrect, RecordInvariant, PTL DEF Spec, RecordCaptures

-----------------------------------------------------------------------------
(* The trash index *)

\* A commit named a deletion removed or replaced the note of its path (Record
\* returns early when there is nothing to commit).
CommitsOK ==
  races = 0 =>
    \A k \in 1..Tip : commits[k].action = "delete" =>
      commits[k].path \in Path
      /\ TreeAt(k)[commits[k].path] # TreeAt(k - 1)[commits[k].path]

\* Until an index was lost, there is none only before the first Record.
FirstIndex ==
  losses = 0 /\ trashFile = Missing => \A k \in 1..Tip : commits[k].action # "delete"

LEMMA CommitsStep ==
  ASSUME TypeOK, RepoOK, RecordOK, CommitsOK, [Next]_vars
  PROVE  CommitsOK'
<1>a. /\ Tip \in Nat /\ Tip' \in Nat /\ Tip <= Tip'
      /\ \A k \in 1..Tip : commits'[k] = commits[k]
      /\ \A k \in 0..Tip : TreeAt(k)' = TreeAt(k)
  BY LogGrows
<1>. SUFFICES ASSUME races' = 0, NEW k \in 1..Tip', commits'[k].action = "delete"
     PROVE  /\ commits'[k].path \in Path
            /\ TreeAt(k)'[commits'[k].path] # TreeAt(k - 1)'[commits'[k].path]
  BY DEF CommitsOK
<1>b. races = 0 /\ call.path \in Path
  BY BoundsType DEF TypeOK
<1>1. CASE k \in 1..Tip
  <2>1. commits'[k] = commits[k] /\ TreeAt(k)' = TreeAt(k) /\ TreeAt(k - 1)' = TreeAt(k - 1)
    BY <1>1, <1>a
  <2>2. commits[k].path \in Path /\ TreeAt(k)[commits[k].path] # TreeAt(k - 1)[commits[k].path]
    BY <1>1, <1>b, <2>1 DEF CommitsOK
  <2>. QED BY <2>1, <2>2
<1>2. CASE k \notin 1..Tip
  <2>1. commits'[Tip + 1].action # "init" => ~Adds("init", NoPath)
    BY DEF Adds
  <2>2. Tip' # Tip
    BY <1>2
  <2>3. CASE Adds(call.action, call.path) /\ Goto("commit", "trash")
    <3>1. k = Tip + 1 /\ Tip' = Tip + 1
      BY <1>2, <1>a, <2>3 DEF Adds
    <3>2. commits'[k].path = call.path /\ TreeAt(k)' = staged
      <4>1. TreeAt(Tip)' = staged /\ commits'[Tip + 1].path = call.path
        BY <2>3 DEF Adds
      <4>2. TreeAt(k)' = TreeAt(Tip)'
        BY <3>1 DEF TreeAt
      <4>. QED BY <3>1, <4>1, <4>2
    <3>3. TreeAt(k - 1)' = TreeAt(Tip)
      <4>1. k - 1 = Tip
        BY <1>a, <3>1
      <4>2. TreeAt(k - 1)' = TreeAt(k - 1)
        BY <1>a, <4>1
      <4>. QED BY <4>1, <4>2
    <3>4. staged[call.path] # TreeAt(Tip)[call.path]
      BY <1>b, <2>3 DEF RecordOK, Goto
    <3>. QED BY <1>b, <3>2, <3>3, <3>4
  <2>4. CASE Adds("init", NoPath)
    <3>1. k = Tip + 1
      BY <1>2, <1>a, <2>4 DEF Adds
    <3>. QED BY <2>4, <3>1 DEF Adds
  <2>. QED BY <2>2, <2>3, <2>4, LogGrows
<1>. QED
  BY <1>1, <1>2

LEMMA FirstIndexStep ==
  ASSUME TypeOK, RepoOK, FirstIndex, [Next]_vars
  PROVE  FirstIndex'
<1>. SUFFICES ASSUME losses' = 0, trashFile' = Missing, NEW k \in 1..Tip'
     PROVE  commits'[k].action # "delete"
  BY DEF FirstIndex
<1>a. losses = 0 /\ losses \in Nat /\ ~LoseTrashFile
  BY BoundsType DEF TypeOK, LoseTrashFile
<1>b. Missing \notin Index
  BY EntryAssumption
<1>1. trashFile = Missing
  <2>1. CASE UNCHANGED trashFile
    BY <2>1
  <2>2. CASE InitTrashIndex \/ UpdateTrashIndex \/ ListDeleted
             \/ (\E paths \in SUBSET Purgeable : PurgeDeleted(paths))
    <3>1. pc # "index" => trashFile \in Index
      BY <2>2 DEF RepoOK, InitTrashIndex, UpdateTrashIndex, ListDeleted, PurgeDeleted,
                  Return, Goto
    <3>2. trashFile' \in Index
      BY StateStep, <2>2 DEF RepoOK, InitTrashIndex, UpdateTrashIndex, ListDeleted,
                             PurgeDeleted, Return, Goto
    <3>. QED BY <1>b, <3>2
  <2>3. CASE InitRepo \/ StageAll \/ CommitAll \/ OpenRepo \/ Read \/ Stage \/ CommitStaged
             \/ CommitFails \/ TrashWriteFails \/ Stop \/ Crash
    BY <2>1, <2>3 DEF InitRepo, StageAll, CommitAll, OpenRepo, Read, Stage, CommitStaged,
       CommitFails, TrashWriteFails, Stop, Crash, repository
  <2>4. CASE (\E actor \in Actor, p \in Path : StartRecord(actor, p))
             \/ (\E p \in Path : Change(p)) \/ UNCHANGED vars
    BY <2>1, <2>4 DEF StartRecord, Change, vars, repository
  <2>. QED BY <1>a, <2>2, <2>3, <2>4 DEF Next
<1>2. \A j \in 1..Tip : commits[j].action # "delete"
  BY <1>1, <1>a DEF FirstIndex
<1>3. pc # "commit"
  BY <1>1, <1>b DEF RepoOK
<1>4. CASE commits' = commits /\ Tip' = Tip
  BY <1>2, <1>4
<1>5. CASE Adds("init", NoPath)
  <2>1. Tip \in Nat /\ \A j \in 1..Tip : commits'[j] = commits[j]
    BY LogGrows
  <2>2. k \in 1..Tip \/ k = Tip + 1
    BY <1>5, <2>1 DEF Adds
  <2>. QED BY <1>2, <1>5, <2>1, <2>2 DEF Adds
<1>. QED
  BY <1>3, <1>4, <1>5, LogGrows DEF Goto

\* An entry of p names a deletion of p and the commit before it.
Names(p, e) ==
  e.delete \in 2..Tip /\ e.restore = e.delete - 1 /\ commits[e.delete].path = p

\* The trash index, and the one that was lost, name deletions of their paths.
IndexOK ==
  races = 0 => /\ trashFile # Missing =>
                    \A p \in Path : trashFile[p] # NoEntry => Names(p, trashFile[p])
               /\ \A p \in Path : lost[p] # NoEntry => Names(p, lost[p])

\* Commits only come on top: an entry goes on naming what it names.
LEMMA NamesStay ==
  ASSUME TypeOK, [Next]_vars, NEW p \in Path, NEW e, Names(p, e)
  PROVE  /\ e.delete \in 2..Tip' /\ e.restore = e.delete - 1
         /\ commits'[e.delete].path = p
         /\ TreeAt(e.delete)' = TreeAt(e.delete)
         /\ TreeAt(e.restore)' = TreeAt(e.restore)
<1>1. /\ Tip \in Nat /\ Tip' \in Nat /\ Tip <= Tip'
      /\ \A k \in 1..Tip : commits'[k] = commits[k]
      /\ \A k \in 0..Tip : TreeAt(k)' = TreeAt(k)
  BY LogGrows
<1>2. e.delete \in 1..Tip /\ e.delete \in 0..Tip /\ e.restore \in 0..Tip /\ e.delete \in 2..Tip'
  BY <1>1 DEF Names
<1>. QED
  BY <1>1, <1>2 DEF Names

\* Where the entry of a path comes from: it was there, a rebuild found the
\* deletion, or a Record has just committed it.
LEMMA EntryComesFrom ==
  ASSUME TypeOK, RepoOK, [Next]_vars, NEW p \in Path,
         trashFile' # Missing, trashFile'[p] # NoEntry
  PROVE  \/ trashFile # Missing /\ trashFile'[p] = trashFile[p]
         \/ /\ InitTrashIndex /\ trashFile = Missing
            /\ trashFile'[p] = Scanned[p] /\ Scanned[p] # NoEntry
         \/ /\ UpdateTrashIndex /\ ~found /\ p = call.path
            /\ trashFile'[p] = [restore |-> Tip - 1, delete |-> Tip]
<1>a. Missing \notin Index
  BY EntryAssumption
<1>1. CASE UNCHANGED trashFile
  BY <1>1
<1>2. CASE InitTrashIndex
  <2>1. CASE trashFile = Missing
    BY <1>2, <2>1 DEF InitTrashIndex
  <2>2. CASE trashFile # Missing
    <3>1. trashFile'[p] = IF Valid(p, trashFile[p]) THEN trashFile[p] ELSE NoEntry
      BY <1>2, <2>2 DEF InitTrashIndex, Validated
    <3>. QED BY <2>2, <3>1
  <2>. QED BY <2>1, <2>2
<1>3. CASE UpdateTrashIndex
  <2>1. trashFile \in Index /\ trashFile # Missing
    BY <1>3, <1>a DEF UpdateTrashIndex, Return, Goto, RepoOK
  <2>2. trashFile'[p] = IF p = call.path
                        THEN IF found THEN NoEntry ELSE [restore |-> Tip - 1, delete |-> Tip]
                        ELSE trashFile[p]
    BY <1>3, <2>1 DEF UpdateTrashIndex, Index
  <2>. QED BY <1>3, <2>1, <2>2
<1>4. CASE ListDeleted
  <2>1. trashFile \in Index /\ trashFile # Missing
    BY <1>4, <1>a DEF ListDeleted, RepoOK
  <2>2. trashFile'[p] = IF disk[p] = NoNote THEN trashFile[p] ELSE NoEntry
    BY <1>4 DEF ListDeleted
  <2>. QED BY <2>1, <2>2
<1>5. ASSUME NEW paths \in SUBSET Purgeable, PurgeDeleted(paths)
      PROVE  trashFile # Missing /\ trashFile'[p] = trashFile[p]
  <2>1. trashFile \in Index /\ trashFile # Missing
    BY <1>5, <1>a DEF PurgeDeleted, RepoOK
  <2>2. trashFile'[p] = IF p \in paths THEN NoEntry ELSE trashFile[p]
    BY <1>5 DEF PurgeDeleted
  <2>. QED BY <2>1, <2>2
<1>6. ~LoseTrashFile
  BY DEF LoseTrashFile
<1>7. CASE InitRepo \/ StageAll \/ CommitAll \/ OpenRepo \/ Read \/ Stage \/ CommitStaged
           \/ CommitFails \/ TrashWriteFails \/ Stop \/ Crash
  BY <1>1, <1>7 DEF InitRepo, StageAll, CommitAll, OpenRepo, Read, Stage, CommitStaged,
     CommitFails, TrashWriteFails, Stop, Crash, repository
<1>8. CASE (\E actor \in Actor, q \in Path : StartRecord(actor, q))
           \/ (\E q \in Path : Change(q)) \/ UNCHANGED vars
  BY <1>1, <1>8 DEF StartRecord, Change, vars, repository
<1>. QED
  BY <1>2, <1>3, <1>4, <1>5, <1>6, <1>7, <1>8 DEF Next

\* A deletion a Record has just committed: its parent holds the content.
LEMMA NewEntry ==
  ASSUME TypeOK, RepoOK, RecordOK, races = 0, UpdateTrashIndex, ~found
  PROVE  LET e == [restore |-> Tip - 1, delete |-> Tip]
         IN /\ Names(call.path, e)
            /\ TreeAt(e.restore)[call.path] # NoNote
            /\ TreeAt(e.delete)[call.path] = NoNote
<1>1. /\ Tip \in Nat \ {0}
      /\ disk[call.path] = NoNote
      /\ commits[Tip].path = call.path
      /\ TreeAt(Tip)[call.path] = NoNote /\ TreeAt(Tip - 1)[call.path] # NoNote
  BY DEF RecordOK, RepoOK, UpdateTrashIndex, Return, Goto
<1>2. Tip - 1 # 0
  BY <1>1 DEF TreeAt, Nothing, TypeOK
<1>3. Tip \in 2..Tip
  BY <1>1, <1>2
<1>. DEFINE e == [restore |-> Tip - 1, delete |-> Tip]
<1>4. e.restore = Tip - 1 /\ e.delete = Tip
  OBVIOUS
<1>. HIDE DEF e
<1>5. Names(call.path, e)
  BY <1>1, <1>3, <1>4 DEF Names
<1>6. TreeAt(e.restore)[call.path] # NoNote /\ TreeAt(e.delete)[call.path] = NoNote
  BY <1>1, <1>4
<1>. QED
  BY <1>5, <1>6 DEF e

\* What scanDeleted finds is the newest deletion of that name within the walk.
LEMMA ScannedNames ==
  ASSUME TypeOK, NEW p \in Path, Scanned[p] # NoEntry
  PROVE  /\ Names(p, Scanned[p])
         /\ commits[Scanned[p].delete].action = "delete"
         /\ \A k \in NamedDeletions(p) : k <= Scanned[p].delete
<1>. DEFINE d == Newest(NamedDeletions(p))
            e == Scanned[p]
<1>1. /\ d \in NamedDeletions(p) /\ d \in 2..Tip /\ \A j \in NamedDeletions(p) : j <= d
      /\ e = [restore |-> d - 1, delete |-> d]
  BY ScannedEntry
<1>2. e.restore = d - 1 /\ e.delete = d
  BY <1>1
<1>3. commits[d].action = "delete" /\ commits[d].path = p
  BY <1>1 DEF NamedDeletions
<1>. QED
  BY <1>1, <1>2, <1>3 DEF Names

LEMMA IndexStep ==
  ASSUME TypeOK, RepoOK, RecordOK, IndexOK, [Next]_vars
  PROVE  IndexOK'
<1>. SUFFICES ASSUME races' = 0, NEW p \in Path
     PROVE  /\ trashFile' # Missing /\ trashFile'[p] # NoEntry => Names(p, trashFile[p])'
            /\ lost'[p] # NoEntry => Names(p, lost[p])'
  BY DEF IndexOK
<1>a. races = 0
  BY BoundsType DEF TypeOK
<1>b. /\ trashFile # Missing /\ trashFile[p] # NoEntry => Names(p, trashFile[p])
      /\ lost[p] # NoEntry => Names(p, lost[p])
  BY <1>a DEF IndexOK
<1>1. ASSUME trashFile' # Missing, trashFile'[p] # NoEntry
      PROVE  Names(p, trashFile'[p])
  <2>1. CASE trashFile # Missing /\ trashFile'[p] = trashFile[p]
    BY <1>1, <1>b, <2>1
  <2>2. CASE trashFile'[p] = Scanned[p] /\ Scanned[p] # NoEntry
    BY <2>2, ScannedNames
  <2>3. CASE /\ UpdateTrashIndex /\ ~found /\ p = call.path
             /\ trashFile'[p] = [restore |-> Tip - 1, delete |-> Tip]
    BY <1>a, <2>3, NewEntry
  <2>. QED BY <1>1, <2>1, <2>2, <2>3, EntryComesFrom
<1>2. ASSUME lost'[p] # NoEntry
      PROVE  Names(p, lost'[p])
  <2>1. CASE lost' = lost
    BY <1>2, <1>b, <2>1
  <2>2. CASE LoseTrashFile
    BY <1>2, <1>b, <2>2 DEF LoseTrashFile
  <2>3. lost' # lost => LoseTrashFile
    BY DEF Next, vars, InitRepo, StageAll, CommitAll, OpenRepo, InitTrashIndex, StartRecord,
       Read, Stage, CommitStaged, UpdateTrashIndex, ListDeleted, PurgeDeleted, CommitFails,
       TrashWriteFails, Stop, Crash, LoseTrashFile, Change
  <2>. QED BY <2>1, <2>2, <2>3
<1>3. ASSUME NEW e, Names(p, e)
      PROVE  e.delete \in 2..Tip' /\ e.restore = e.delete - 1 /\ commits'[e.delete].path = p
  BY <1>3, NamesStay
<1>. QED
  BY <1>1, <1>2, <1>3 DEF Names

LEMMA IndexInvariant == Spec => []CommitsOK /\ []FirstIndex /\ []IndexOK
<1>1. Init => CommitsOK /\ FirstIndex /\ IndexOK
  BY DEF Init, CommitsOK, FirstIndex, IndexOK, NoEntries, Tip
<1>2. TypeOK /\ RepoOK /\ RecordOK /\ CommitsOK /\ [Next]_vars => CommitsOK'
  BY CommitsStep
<1>3. TypeOK /\ RepoOK /\ FirstIndex /\ [Next]_vars => FirstIndex'
  BY FirstIndexStep
<1>4. TypeOK /\ RepoOK /\ RecordOK /\ IndexOK /\ [Next]_vars => IndexOK'
  BY IndexStep
<1>. QED
  BY <1>1, <1>2, <1>3, <1>4, TypeCorrect, RecordInvariant, PTL DEF Spec

\* The commit that removed the content, and the one before it that held it.
Restores(p, e) == TreeAt(e.restore)[p] # NoNote /\ TreeAt(e.delete)[p] = NoNote

RestorableOK ==
  races = 0 /\ trashFile # Missing /\ (losses = 0 \/ NamesTrue) =>
    \A p \in Path : trashFile[p] # NoEntry => Restores(p, trashFile[p])

\* A deletion by name that removed its file.
LEMMA ScannedRestores ==
  ASSUME TypeOK, CommitsOK, NamesTrue, races = 0, NEW p \in Path, Scanned[p] # NoEntry
  PROVE  Restores(p, Scanned[p])
<1>. DEFINE d == Scanned[p].delete
<1>1. /\ d \in 2..Tip /\ Scanned[p].restore = d - 1
      /\ commits[d].path = p /\ commits[d].action = "delete"
  BY ScannedNames DEF Names
<1>2. Tip \in Nat
  BY LenProperties DEF TypeOK, Tip
<1>3. d \in 1..Tip
  BY <1>1, <1>2
<1>4. TreeAt(d)[p] # TreeAt(d - 1)[p]
  BY <1>1, <1>3 DEF CommitsOK
<1>5. TreeAt(d)[p] = NoNote
  BY <1>1, <1>3 DEF NamesTrue
<1>. QED
  BY <1>1, <1>4, <1>5 DEF Restores

LEMMA RestorableStep ==
  ASSUME TypeOK, RepoOK, RecordOK, CommitsOK, FirstIndex, IndexOK, RestorableOK, [Next]_vars
  PROVE  RestorableOK'
<1>. SUFFICES ASSUME races' = 0, trashFile' # Missing, losses' = 0 \/ NamesTrue',
                     NEW p \in Path, trashFile'[p] # NoEntry
     PROVE  Restores(p, trashFile[p])'
  BY DEF RestorableOK
<1>a. races = 0 /\ (losses' = 0 => losses = 0)
  BY BoundsType DEF TypeOK
\* The names of commits that are true stay so, for commits stay.
<1>b. losses = 0 \/ NamesTrue
  <2>. SUFFICES ASSUME NamesTrue', NEW k \in 1..Tip, commits[k].action = "delete"
       PROVE  TreeAt(k)[commits[k].path] = NoNote
    BY <1>a DEF NamesTrue
  <2>1. k \in 1..Tip' /\ commits'[k] = commits[k] /\ TreeAt(k)' = TreeAt(k)
    BY LogGrows
  <2>2. \A j \in 1..Tip' : commits'[j].action = "delete" => TreeAt(j)'[commits'[j].path] = NoNote
    BY DEF NamesTrue
  <2>3. TreeAt(k)'[commits'[k].path] = NoNote
    BY <2>1, <2>2
  <2>. QED BY <2>1, <2>3
<1>1. Names(p, trashFile'[p]) /\ Restores(p, trashFile'[p])
  <2>1. CASE trashFile # Missing /\ trashFile'[p] = trashFile[p]
    BY <1>a, <1>b, <2>1 DEF IndexOK, RestorableOK
  <2>2. CASE InitTrashIndex /\ trashFile = Missing /\ trashFile'[p] = Scanned[p]
             /\ Scanned[p] # NoEntry
    <3>1. NamesTrue
      <4>1. CASE losses = 0
        BY <2>2, <4>1 DEF FirstIndex, NamesTrue
      <4>. QED BY <1>b, <4>1
    <3>. QED BY <1>a, <2>2, <3>1, ScannedNames, ScannedRestores
  <2>3. CASE /\ UpdateTrashIndex /\ ~found /\ p = call.path
             /\ trashFile'[p] = [restore |-> Tip - 1, delete |-> Tip]
    BY <1>a, <2>3, NewEntry DEF Restores
  <2>. QED BY <2>1, <2>2, <2>3, EntryComesFrom
<1>2. ASSUME NEW e, Names(p, e), Restores(p, e)
      PROVE  TreeAt(e.restore)'[p] # NoNote /\ TreeAt(e.delete)'[p] = NoNote
  BY <1>2, NamesStay DEF Restores
<1>. DEFINE f == trashFile'[p]
<1>3. PICK e : e = f
  OBVIOUS
<1>4. TreeAt(e.restore)'[p] # NoNote /\ TreeAt(e.delete)'[p] = NoNote
  BY <1>1, <1>2, <1>3
<1>. QED
  BY <1>3, <1>4 DEF Restores, TreeAt

\* Before a rebuild goes by false names, the entries of the index restore.
LEMMA RestorableInvariant == Spec => []RestorableOK
<1>1. Init => RestorableOK
  BY DEF Init, RestorableOK
<1>2. TypeOK /\ RepoOK /\ RecordOK /\ CommitsOK /\ FirstIndex /\ IndexOK /\ RestorableOK
      /\ [Next]_vars => RestorableOK'
  BY RestorableStep
<1>. QED
  BY <1>1, <1>2, TypeCorrect, RecordInvariant, IndexInvariant, PTL DEF Spec

\* EntriesRestorable: whatever crashed or failed, the trash holds what can be
\* restored, unless files changed under a Record, or the index was lost and a
\* commit bears the name of a deletion that was none.
THEOREM TrashRestorable == Spec => []EntriesRestorable
<1>1. TypeOK /\ IndexOK /\ RestorableOK => EntriesRestorable
  <2>. SUFFICES ASSUME TypeOK, IndexOK, RestorableOK, races = 0, trashFile # Missing,
                       losses = 0 \/ NamesTrue, NEW p \in Path, trashFile[p] # NoEntry
                PROVE  LET e == trashFile[p] IN
                         /\ e.delete \in 1..Tip /\ e.restore = e.delete - 1
                         /\ TreeAt(e.restore)[p] # NoNote
                         /\ TreeAt(e.delete)[p] = NoNote
    BY DEF EntriesRestorable
  <2>1. Names(p, trashFile[p]) /\ Restores(p, trashFile[p])
    BY DEF IndexOK, RestorableOK
  <2>2. Tip \in Nat
    BY LenProperties DEF TypeOK, Tip
  <2>3. trashFile[p].delete \in 1..Tip
    BY <2>1, <2>2 DEF Names
  <2>. QED BY <2>1, <2>3 DEF Names, Restores
<1>. QED
  BY <1>1, TypeCorrect, IndexInvariant, RestorableInvariant, PTL

\* RebuildKeepsDeletions: an index rebuilt from the log holds what the lost one
\* held, where the log names the deletion within the walk.
THEOREM RebuildKeeps == Spec => RebuildKeepsDeletions
<1>. DEFINE Step ==
       pc = "index" /\ trashFile = Missing /\ pc' = "idle" /\ races = 0 =>
         \A p \in Path :
           /\ lost[p] # NoEntry /\ commits[lost[p].delete].action = "delete"
           /\ Tip - lost[p].delete < ScanMaxWalk
           /\ p \notin LegacyPurged /\ disk[p] = NoNote
           => trashFile'[p] # NoEntry /\ trashFile'[p].delete >= lost[p].delete
<1>1. TypeOK /\ IndexOK /\ [Next]_vars => [Step]_vars
  <2>. SUFFICES ASSUME TypeOK, IndexOK, Next, pc = "index", trashFile = Missing, pc' = "idle",
                       races = 0, NEW p \in Path, lost[p] # NoEntry,
                       commits[lost[p].delete].action = "delete",
                       Tip - lost[p].delete < ScanMaxWalk,
                       p \notin LegacyPurged, disk[p] = NoNote
                PROVE  trashFile'[p] # NoEntry /\ trashFile'[p].delete >= lost[p].delete
    OBVIOUS
  <2>1. InitTrashIndex
    BY DEF Next, InitRepo, StageAll, CommitAll, OpenRepo, InitTrashIndex, StartRecord,
       Read, Stage, CommitStaged, UpdateTrashIndex, ListDeleted, PurgeDeleted, CommitFails,
       TrashWriteFails, Stop, Crash, LoseTrashFile, Change, Goto, Return
  <2>2. trashFile'[p] = Scanned[p]
    BY <2>1 DEF InitTrashIndex
  <2>3. Tip \in Nat /\ NoEntry \notin Entry
    BY LenProperties, EntryAssumption DEF TypeOK, Tip
  <2>4. lost[p].delete \in 2..Tip /\ commits[lost[p].delete].path = p
    BY DEF IndexOK, Names
  <2>5. lost[p].delete \in NamedDeletions(p) \ {1}
    BY <2>3, <2>4 DEF NamedDeletions
  <2>6. Scanned[p] \in Entry
    BY <2>5, ScannedEntry
  <2>7. Scanned[p] # NoEntry
    BY <2>3, <2>6
  <2>8. lost[p].delete <= Scanned[p].delete /\ Scanned[p].delete \in 2..Tip
    BY <2>5, <2>7, ScannedNames DEF Names
  <2>. QED BY <2>2, <2>3, <2>4, <2>7, <2>8
<1>. QED
  BY <1>1, TypeCorrect, IndexInvariant, PTL DEF Spec, RebuildKeepsDeletions
-----------------------------------------------------------------------------
(* What the note service sees: the log and the trash, per note              *)

\* One more, and later, commit: the earlier ones keep their places.
LEMMA PlacesStay ==
  ASSUME NEW t \in Nat, NEW ks \in SUBSET (1..t)
  PROVE  /\ Cardinality(ks) \in Nat
         /\ Cardinality(ks \cup {t + 1}) = Cardinality(ks) + 1
         /\ \A i \in 1..Cardinality(ks) : Nth(ks \cup {t + 1}, i) = Nth(ks, i)
         /\ Nth(ks \cup {t + 1}, Cardinality(ks) + 1) = t + 1
<1>. DEFINE n == Cardinality(ks)
            more == ks \cup {t + 1}
<1>1. IsFiniteSet(ks) /\ n \in Nat
  <2>1. IsFiniteSet(1..t)
    BY FS_Interval
  <2>2. IsFiniteSet(ks)
    BY <2>1, FS_Subset
  <2>. QED BY <2>2, FS_CardinalityType
<1>2. t + 1 \notin ks
  OBVIOUS
<1>3. Cardinality(more) = n + 1
  BY <1>1, <1>2, FS_AddElement
<1>4. ASSUME NEW k \in ks
      PROVE  /\ {j \in more : j <= k} = {j \in ks : j <= k}
             /\ Cardinality({j \in ks : j <= k}) \in 0..n
  <2>1. {j \in more : j <= k} = {j \in ks : j <= k}
    OBVIOUS
  <2>2. Cardinality({j \in ks : j <= k}) <= n
    BY <1>1, FS_Subset
  <2>3. Cardinality({j \in ks : j <= k}) \in Nat
    <3>1. IsFiniteSet({j \in ks : j <= k})
      BY <1>1, FS_Subset
    <3>. QED BY <3>1, FS_CardinalityType
  <2>. QED BY <1>1, <2>1, <2>2, <2>3
<1>5. {j \in more : j <= t + 1} = more
  <2>1. \A j \in more : j \in 1..t \/ j = t + 1
    OBVIOUS
  <2>2. \A j \in more : j <= t + 1
    BY <2>1
  <2>. QED BY <2>2
<1>. HIDE DEF n
<1>6. ASSUME NEW i \in 1..n
      PROVE  Nth(more, i) = Nth(ks, i)
  <2>1. \A k \in more : Cardinality({j \in more : j <= k}) = i
                        <=> k \in ks /\ Cardinality({j \in ks : j <= k}) = i
    <3>1. ASSUME NEW k \in ks
          PROVE  Cardinality({j \in more : j <= k}) = Cardinality({j \in ks : j <= k})
      BY <1>4
    <3>2. Cardinality({j \in more : j <= t + 1}) # i
      BY <1>1, <1>3, <1>5
    <3>. QED BY <1>2, <3>1, <3>2
  <2>2. {k \in more : Cardinality({j \in more : j <= k}) = i}
          = {k \in ks : Cardinality({j \in ks : j <= k}) = i}
    BY <2>1
  <2>. QED BY <2>2 DEF Nth
<1>7. Nth(more, n + 1) = t + 1
  <2>1. \A k \in ks : Cardinality({j \in more : j <= k}) # n + 1
    <3>. SUFFICES ASSUME NEW k \in ks PROVE Cardinality({j \in more : j <= k}) # n + 1
      OBVIOUS
    <3>1. Cardinality({j \in more : j <= k}) \in 0..n
      BY <1>4 DEF n
    <3>. QED BY <1>1, <3>1
  <2>2. Cardinality({j \in more : j <= t + 1}) = n + 1
    BY <1>3, <1>5
  <2>3. {k \in more : Cardinality({j \in more : j <= k}) = n + 1} = {t + 1}
    BY <2>1, <2>2
  <2>. QED BY <2>3 DEF Nth
<1>. QED
  BY <1>1, <1>3, <1>6, <1>7 DEF n

\* The revision a commit is.
RevisionOf(k, p) ==
  [actor |-> commits[k].actor, action |-> commits[k].action, content |-> TreeAt(k)[p]]

\* The revisions of p are as many as the commits that changed it.
LEMMA RevisionsAre ==
  ASSUME TypeOK, NEW p \in Path
  PROVE  /\ Tip \in Nat /\ Changes(p) \in SUBSET (1..Tip)
         /\ Cardinality(Changes(p)) \in Nat
         /\ Revisions(p) = [i \in 1..Cardinality(Changes(p)) |-> RevisionOf(Nth(Changes(p), i), p)]
         /\ Len(Revisions(p)) = Cardinality(Changes(p))
         /\ \E S : Revisions(p) \in Seq(S)
<1>1. Tip \in Nat
  BY LenProperties DEF TypeOK, Tip
<1>2. Changes(p) \in SUBSET (1..Tip)
  BY DEF Changes
<1>. DEFINE n == Cardinality(Changes(p))
            r(i) == RevisionOf(Nth(Changes(p), i), p)
            S == {r(i) : i \in 1..n}
<1>3. n \in Nat
  BY <1>1, <1>2, PlacesStay
<1>4. Revisions(p) = [i \in 1..n |-> r(i)]
  BY DEF Revisions, RevisionOf
<1>. HIDE DEF n
<1>5. Revisions(p) \in [1..n -> S]
  BY <1>4
<1>. HIDE DEF S
<1>6. Revisions(p) \in Seq(S)
  BY <1>3, <1>5, SeqDef
<1>7. Len(Revisions(p)) = n
  <2>1. DOMAIN Revisions(p) = 1..n /\ DOMAIN Revisions(p) = 1..Len(Revisions(p)) /\ Len(Revisions(p)) \in Nat
    BY <1>5, <1>6, LenProperties
  <2>. QED BY <1>3, <2>1
<1>. QED
  BY <1>1, <1>2, <1>3, <1>4, <1>6, <1>7 DEF n

\* Without a commit the note service sees the revisions it saw.
LEMMA RevisionsSame ==
  ASSUME UNCHANGED commits
  PROVE  UNCHANGED revs
BY DEF revs, Revisions, Changes, TreeAt, Tip
\* There is an i-th of some commits if they are as many.
LEMMA NthIn ==
  ASSUME NEW t \in Nat, NEW ks \in SUBSET (1..t), NEW i \in 1..Cardinality(ks)
  PROVE  Nth(ks, i) \in ks
<1>. DEFINE n == Cardinality(ks)
            upTo(k) == {j \in ks : j <= k}
            place == [k \in ks |-> Cardinality(upTo(k))]
<1>1. IsFiniteSet(ks) /\ n \in Nat
  <2>1. IsFiniteSet(1..t)
    BY FS_Interval
  <2>2. IsFiniteSet(ks)
    BY <2>1, FS_Subset
  <2>. QED BY <2>2, FS_CardinalityType
<1>2. ASSUME NEW k \in ks
      PROVE  IsFiniteSet(upTo(k)) /\ Cardinality(upTo(k)) \in 1..n
  <2>1. upTo(k) \in SUBSET ks /\ upTo(k) # {}
    OBVIOUS
  <2>. HIDE DEF upTo
  <2>2. IsFiniteSet(upTo(k)) /\ Cardinality(upTo(k)) <= n
    BY <1>1, <2>1, FS_Subset
  <2>3. Cardinality(upTo(k)) \in Nat /\ Cardinality(upTo(k)) # 0
    BY <2>1, <2>2, FS_CardinalityType, FS_EmptySet
  <2>. QED BY <1>1, <2>2, <2>3
<1>3. ASSUME NEW k \in ks, NEW m \in ks, k < m
      PROVE  Cardinality(upTo(k)) # Cardinality(upTo(m))
  <2>1. upTo(k) \in SUBSET upTo(m) /\ m \in upTo(m) /\ m \notin upTo(k)
    <3>1. \A j \in ks : j <= k => j <= m
      BY <1>3
    <3>2. m <= m /\ ~(m <= k)
      BY <1>3
    <3>. QED BY <3>1, <3>2
  <2>2. IsFiniteSet(upTo(m))
    BY <1>2
  <2>. HIDE DEF upTo
  <2>. QED BY <2>1, <2>2, FS_Subset
<1>4. IsFiniteSet(1..n) /\ Cardinality(1..n) = n
  BY <1>1, FS_Interval
<1>5. place \in Injection(ks, 1..n)
  <2>1. place \in [ks -> 1..n]
    BY <1>2
  <2>2. \A k, m \in ks : place[k] = place[m] => k = m
    <3>. SUFFICES ASSUME NEW k \in ks, NEW m \in ks, k # m PROVE place[k] # place[m]
      OBVIOUS
    <3>1. k < m \/ m < k
      OBVIOUS
    <3>2. Cardinality(upTo(k)) # Cardinality(upTo(m))
      BY <1>3, <3>1
    <3>. QED BY <3>2
  <2>. HIDE DEF place
  <2>. QED BY <2>1, <2>2 DEF Injection, IsInjective
<1>. HIDE DEF n
<1>6. place \in Surjection(ks, 1..n)
  BY <1>1, <1>4, <1>5, FS_Injection DEF n
<1>7. PICK k \in ks : Cardinality(upTo(k)) = i
  <2>1. i \in 1..n
    BY DEF n
  <2>2. \E k \in ks : place[k] = i
    BY <1>6, <2>1 DEF Surjection
  <2>. QED BY <2>2
<1>. QED
  BY <1>7 DEF Nth

\* A commit adds a revision to the notes it changes, and none to the others.
LEMMA RevisionsGrow ==
  ASSUME TypeOK, NEW a \in Actor, NEW act \in {"init", "save", "delete"},
         NEW q \in Path \cup {NoPath}, Committed(a, act, q), NEW p \in Path
  PROVE  Revisions(p)' = IF staged[p] = TreeAt(Tip)[p] THEN Revisions(p)
                         ELSE Append(Revisions(p), [actor |-> a, action |-> act, content |-> staged[p]])
<1>. DEFINE r == [actor |-> a, action |-> act, content |-> staged[p]]
<1>0. PICK ks, l : ks = Changes(p) /\ l = Tip + 1
  OBVIOUS
<1>. DEFINE n == Cardinality(ks)
<1>1. /\ Tip \in Nat /\ ks \in SUBSET (1..Tip) /\ n \in Nat
      /\ Revisions(p) = [i \in 1..n |-> RevisionOf(Nth(ks, i), p)] /\ Len(Revisions(p)) = n
  BY <1>0, RevisionsAre
<1>2. /\ Tip' = l
      /\ commits'[l] = [actor |-> a, action |-> act, path |-> q, tree |-> staged]
      /\ \A k \in 1..Tip : commits'[k] = commits[k]
      /\ \A k \in 0..Tip : TreeAt(k)' = TreeAt(k)
  BY <1>0, CommitGrows
<1>3. TreeAt(l)' = staged /\ RevisionOf(l, p)' = r
  <2>1. TreeAt(l)' = staged
    BY <1>0, <1>1, <1>2 DEF TreeAt
  <2>. QED BY <1>2, <2>1 DEF RevisionOf
<1>4. \A k \in ks : RevisionOf(k, p)' = RevisionOf(k, p)
  BY <1>1, <1>2 DEF RevisionOf
<1>5. Changes(p)' = {k \in 1..l : TreeAt(k)'[p] # TreeAt(k - 1)'[p]}
  BY <1>2 DEF Changes
<1>6. \A k \in 1..Tip : TreeAt(k)'[p] # TreeAt(k - 1)'[p] <=> k \in ks
  <2>1. \A k \in 1..Tip : TreeAt(k)' = TreeAt(k) /\ TreeAt(k - 1)' = TreeAt(k - 1)
    BY <1>1, <1>2
  <2>. QED BY <1>0, <2>1 DEF Changes
<1>7. TreeAt(l)'[p] # TreeAt(l - 1)'[p] <=> staged[p] # TreeAt(Tip)[p]
  <2>1. l - 1 = Tip /\ l - 1 \in 0..Tip
    BY <1>0, <1>1
  <2>2. TreeAt(l - 1)' = TreeAt(l - 1)
    BY <1>2, <2>1
  <2>. QED BY <1>3, <2>1, <2>2
<1>8. 1..l = (1..Tip) \cup {l} /\ l \notin 1..Tip
  BY <1>0, <1>1
<1>9. CASE staged[p] = TreeAt(Tip)[p]
  <2>1. Changes(p)' = ks
    BY <1>1, <1>5, <1>6, <1>7, <1>8, <1>9
  <2>2. Revisions(p)' = [i \in 1..n |-> RevisionOf(Nth(ks, i), p)']
    BY <2>1 DEF Revisions, RevisionOf
  <2>3. \A i \in 1..n : RevisionOf(Nth(ks, i), p)' = RevisionOf(Nth(ks, i), p)
    BY <1>1, <1>4, NthIn
  <2>. QED BY <1>1, <1>9, <2>2, <2>3
<1>10. CASE staged[p] # TreeAt(Tip)[p]
  <2>1. Changes(p)' = ks \cup {l}
    BY <1>1, <1>5, <1>6, <1>7, <1>8, <1>10
  <2>2. /\ Cardinality(ks \cup {l}) = n + 1
        /\ \A i \in 1..n : Nth(ks \cup {l}, i) = Nth(ks, i)
        /\ Nth(ks \cup {l}, n + 1) = l
    BY <1>0, <1>1, PlacesStay
  <2>3. Revisions(p)' = [i \in 1..(n + 1) |-> RevisionOf(Nth(ks \cup {l}, i), p)']
    BY <2>1, <2>2 DEF Revisions, RevisionOf
  <2>4. \A i \in 1..n : RevisionOf(Nth(ks \cup {l}, i), p)' = Revisions(p)[i]
    BY <1>1, <1>4, <2>2, NthIn
  <2>5. RevisionOf(Nth(ks \cup {l}, n + 1), p)' = r
    BY <1>3, <2>2
  <2>6. PICK S : Revisions(p) \in Seq(S)
    BY RevisionsAre
  <2>7. PICK old : old = Revisions(p)
    OBVIOUS
  <2>. HIDE DEF r
  <2>8. old \in Seq(S \cup {r})
    BY <2>6, <2>7, SeqMonotonic
  <2>9. /\ Append(old, r) \in Seq(S \cup {r}) /\ Len(Append(old, r)) = n + 1
        /\ \A i \in 1..n : Append(old, r)[i] = old[i]
        /\ Append(old, r)[n + 1] = r
    BY <1>1, <2>7, <2>8, AppendProperties
  <2>10. Append(old, r) \in [1..(n + 1) -> S \cup {r}]
    BY <2>9, LenProperties
  <2>11. \A i \in 1..(n + 1) : RevisionOf(Nth(ks \cup {l}, i), p)' = Append(old, r)[i]
    <3>1. \A i \in 1..(n + 1) : i \in 1..n \/ i = n + 1
      BY <1>1
    <3>. QED BY <2>4, <2>5, <2>7, <2>9, <3>1
  <2>12. Revisions(p)' = Append(old, r)
    BY <2>3, <2>10, <2>11
  <2>. QED BY <1>10, <2>7, <2>12 DEF r
<1>. QED
  BY <1>9, <1>10
\* What the newest revision of a note holds is what HEAD holds for it.
LatestOK == \A p \in Path : H!Latest(p) = InHead(p)

LEMMA LatestStep ==
  ASSUME TypeOK, RepoOK, LatestOK, [Next]_vars
  PROVE  LatestOK'
<1>. SUFFICES ASSUME NEW p \in Path PROVE (H!Latest(p) = InHead(p))'
  BY DEF LatestOK
<1>1. CASE UNCHANGED commits
  <2>1. revs' = revs
    BY <1>1, RevisionsSame
  <2>2. H!Latest(p)' = H!Latest(p)
    BY <2>1 DEF H!Latest
  <2>3. InHead(p)' = InHead(p)
    BY <1>1 DEF InHead, TreeAt, Tip
  <2>. QED BY <2>2, <2>3 DEF LatestOK
<1>2. ASSUME NEW a \in Actor, NEW act \in {"init", "save", "delete"},
             NEW q \in Path \cup {NoPath}, Committed(a, act, q)
      PROVE  (H!Latest(p) = InHead(p))'
  <2>. DEFINE r == [actor |-> a, action |-> act, content |-> staged[p]]
  <2>1. TreeAt(Tip)' = staged
    BY <1>2, CommitGrows
  <2>2. CASE staged[p] = TreeAt(Tip)[p]
    <3>1. Revisions(p)' = Revisions(p)
      BY <1>2, <2>2, RevisionsGrow
    <3>2. H!Latest(p)' = H!Latest(p)
      BY <3>1 DEF H!Latest, revs
    <3>. QED BY <2>1, <2>2, <3>2 DEF LatestOK, InHead
  <2>3. CASE staged[p] # TreeAt(Tip)[p]
    <3>1. PICK old : old = Revisions(p)
      OBVIOUS
    <3>2. Revisions(p)' = Append(old, r)
      BY <1>2, <2>3, <3>1, RevisionsGrow
    <3>3. PICK S : old \in Seq(S)
      BY <3>1, RevisionsAre
    <3>4. r.content = staged[p]
      OBVIOUS
    <3>. HIDE DEF r
    <3>5. old \in Seq(S \cup {r})
      BY <3>3, SeqMonotonic
    <3>6. PICK new : new = Append(old, r)
      OBVIOUS
    <3>7. new # << >> /\ new[Len(new)] = r
      BY <3>5, <3>6, AppendProperties
    <3>8. H!Latest(p)' = new[Len(new)].content
      BY <3>2, <3>6, <3>7 DEF H!Latest, revs
    <3>. QED BY <2>1, <3>4, <3>7, <3>8 DEF InHead
  <2>. QED BY <2>2, <2>3
<1>3. Local \in Actor /\ call.actor \in Actor /\ call.action \in {"save", "delete"} /\ call.path \in Path
  BY GitAssumption DEF GitAssumption, TypeOK
<1>4. CASE CommitAll
  BY <1>1, <1>2, <1>3, <1>4 DEF CommitAll
<1>5. CASE CommitStaged
  BY <1>1, <1>2, <1>3, <1>5 DEF CommitStaged, repository
<1>6. CASE InitRepo \/ StageAll \/ OpenRepo \/ InitTrashIndex \/ Read \/ Stage
           \/ UpdateTrashIndex \/ ListDeleted \/ CommitFails \/ TrashWriteFails
           \/ Stop \/ Crash \/ LoseTrashFile
  BY <1>1, <1>6 DEF InitRepo, StageAll, OpenRepo, InitTrashIndex, Read, Stage,
     UpdateTrashIndex, ListDeleted, CommitFails, TrashWriteFails, Stop, Crash, LoseTrashFile, repository
<1>7. CASE (\E actor \in Actor, q \in Path : StartRecord(actor, q))
           \/ (\E paths \in SUBSET Purgeable : PurgeDeleted(paths))
           \/ (\E q \in Path : Change(q)) \/ UNCHANGED vars
  BY <1>1, <1>7 DEF StartRecord, PurgeDeleted, Change, vars, repository
<1>. QED
  BY <1>4, <1>5, <1>6, <1>7 DEF Next

\* What Record stages is its own note and nothing else.
OnlyOwnStaged ==
  crashes = 0 /\ faults = 0 /\ pc = "commit" =>
    \A q \in Path \ {call.path} : staged[q] = InHead(q)

LEMMA OwnStagedStep ==
  ASSUME TypeOK, RepoOK, StagedOK, OnlyOwnStaged, [Next]_vars
  PROVE  OnlyOwnStaged'
<1>. SUFFICES ASSUME crashes' = 0, faults' = 0, pc' = "commit", NEW q \in Path, q # call'.path
     PROVE  (staged[q] = InHead(q))'
  BY DEF OnlyOwnStaged
<1>a. crashes = 0 /\ faults = 0
  BY BoundsType DEF TypeOK
<1>1. CASE Stage
  <2>1. staged = TreeAt(Tip) /\ staged \in Tree
    BY <1>a, <1>1 DEF Stage, StagedOK, Goto, Return, TypeOK
  <2>2. staged' = [staged EXCEPT ![call.path] = IF found THEN disk[call.path] ELSE NoNote]
        /\ call' = call /\ commits' = commits
    BY <1>1 DEF Stage, Return, Goto
  <2>3. staged'[q] = TreeAt(Tip)[q]
    BY <2>1, <2>2 DEF Tree
  <2>. QED BY <2>2, <2>3 DEF InHead, TreeAt, Tip
<1>2. CASE UNCHANGED <<pc, call, staged, commits>>
  BY <1>a, <1>2 DEF OnlyOwnStaged, InHead, TreeAt, Tip
<1>3. ~InitRepo /\ ~StageAll /\ ~CommitAll /\ ~OpenRepo /\ ~InitTrashIndex /\ ~Read /\ ~CommitStaged
      /\ ~UpdateTrashIndex /\ ~CommitFails /\ ~TrashWriteFails /\ ~Stop /\ ~Crash
  BY DEF InitRepo, StageAll, CommitAll, OpenRepo, InitTrashIndex, Read, CommitStaged,
     UpdateTrashIndex, CommitFails, TrashWriteFails, Stop, Crash, Goto, Return
<1>4. CASE ListDeleted \/ LoseTrashFile
           \/ (\E paths \in SUBSET Purgeable : PurgeDeleted(paths))
           \/ (\E p \in Path : Change(p)) \/ UNCHANGED vars
  BY <1>2, <1>4 DEF ListDeleted, LoseTrashFile, PurgeDeleted, Change, vars, repository
<1>5. ~(\E actor \in Actor, p \in Path : StartRecord(actor, p))
  BY DEF StartRecord, Goto
<1>. QED
  BY <1>1, <1>3, <1>4, <1>5 DEF Next

LEMMA SeenInvariant == Spec => []LatestOK /\ []OnlyOwnStaged /\ []StagedOK
<1>1. ASSUME Init PROVE LatestOK /\ OnlyOwnStaged /\ StagedOK
  <2>1. ASSUME NEW p \in Path PROVE Revisions(p) = << >>
    <3>1. Tip = 0 /\ Changes(p) = {}
      BY <1>1 DEF Init, Changes, Tip
    <3>2. Cardinality(Changes(p)) = 0
      BY <3>1, FS_EmptySet
    <3>. QED BY <3>2 DEF Revisions
  <2>2. LatestOK
    BY <1>1, <2>1 DEF LatestOK, H!Latest, revs, InHead, TreeAt, Tip, Init, Nothing
  <2>. QED BY <1>1, <2>2 DEF Init, OnlyOwnStaged, StagedOK, TreeAt, Tip
<1>2. TypeOK /\ RepoOK /\ LatestOK /\ [Next]_vars => LatestOK'
  BY LatestStep
<1>3. TypeOK /\ RepoOK /\ StagedOK /\ [Next]_vars => StagedOK'
  BY StagedStep
<1>4. TypeOK /\ RepoOK /\ StagedOK /\ OnlyOwnStaged /\ [Next]_vars => OnlyOwnStaged'
  BY OwnStagedStep
<1>. QED
  BY <1>1, <1>2, <1>3, <1>4, TypeCorrect, PTL DEF Spec
\* What the index says of a note brings back what it brought back, however the
\* log grows.
LEMMA TrashStays ==
  ASSUME TypeOK, RepoOK, IndexOK, races = 0, [Next]_vars, trashFile' = trashFile,
         NEW p \in Path,
         \/ pc # "trash" /\ (pc' # "trash" \/ call'.path # p)
         \/ UNCHANGED <<commits, pc, call, found>>
  PROVE  TrashedContent(p)' = TrashedContent(p)
<1>1. CASE UNCHANGED <<commits, pc, call, found>>
  BY <1>1 DEF TrashedContent, TreeAt, Tip
<1>2. CASE pc # "trash" /\ (pc' # "trash" \/ call'.path # p)
  <2>1. PICK e : e = trashFile[p]
    OBVIOUS
  <2>2. CASE trashFile = Missing \/ e = NoEntry
    BY <1>2, <2>1, <2>2 DEF TrashedContent
  <2>3. CASE trashFile # Missing /\ e # NoEntry
    <3>1. Names(p, e)
      BY <2>1, <2>3 DEF IndexOK
    <3>2. TreeAt(e.restore)' = TreeAt(e.restore)
      BY <3>1, NamesStay
    <3>3. TrashedContent(p) = TreeAt(e.restore)[p]
      BY <1>2, <2>1, <2>3 DEF TrashedContent
    <3>4. TrashedContent(p)' = TreeAt(e.restore)'[p]
      BY <1>2, <2>1, <2>3 DEF TrashedContent, TreeAt
    <3>. QED BY <3>2, <3>3, <3>4
  <2>. QED BY <2>2, <2>3
<1>. QED
  BY <1>1, <1>2

\* What a caller of the backend does not see.
Unseen == UNCHANGED <<revs, trash>>

\* Steps that commit nothing and leave the index alone, outside of Record's last.
LEMMA QuietUnseen ==
  ASSUME TypeOK, RepoOK, IndexOK, races = 0, [Next]_vars, UNCHANGED <<commits, trashFile>>,
         \/ pc # "trash" /\ pc' # "trash"
         \/ UNCHANGED <<pc, call, found>>
  PROVE  Unseen
<1>1. \A p \in Path : TrashedContent(p)' = TrashedContent(p)
  BY TrashStays
<1>2. trash' = trash
  BY <1>1 DEF trash
<1>. QED
  BY <1>2, RevisionsSame DEF Unseen

\* The first commit is the beginning of history.
LEMMA CommitAllBegins ==
  ASSUME TypeOK, RepoOK, IndexOK, races = 0, CommitAll
  PROVE  Unseen \/ \E notes \in H!Vault : H!Begin(notes)
<1>0. [Next]_vars
  BY DEF Next
<1>1. pc = "commitall" /\ commits = << >> /\ trashFile' = trashFile /\ pc' \in {"index", "down"}
  BY DEF CommitAll, Goto, RepoOK
<1>2. CASE UNCHANGED commits
  BY <1>0, <1>1, <1>2, QuietUnseen
<1>3. CASE Committed(Local, "init", NoPath)
  <2>1. staged \in H!Vault
    BY DEF TypeOK, Tree, Note, H!Vault
  <2>2. \A p \in Path : TreeAt(Tip)[p] = NoNote /\ Revisions(p) = << >>
    <3>1. Tip = 0 /\ \A p \in Path : Changes(p) = {}
      BY <1>1 DEF Changes, Tip
    <3>2. \A p \in Path : Cardinality(Changes(p)) = 0
      BY <3>1, FS_EmptySet
    <3>. QED BY <3>1, <3>2 DEF Revisions, TreeAt, Nothing
  <2>3. Local \in Actor
    BY GitAssumption DEF GitAssumption
  <2>4. ASSUME NEW p \in Path
        PROVE  Revisions(p)' = IF staged[p] = NoNote THEN << >>
                               ELSE << [actor |-> Local, action |-> "init", content |-> staged[p]] >>
    <3>1. PICK r : r = [actor |-> Local, action |-> "init", content |-> staged[p]]
      OBVIOUS
    <3>2. Revisions(p)' = IF staged[p] = NoNote THEN << >> ELSE Append(<< >>, r)
      BY <1>3, <2>2, <2>3, <3>1, RevisionsGrow
    <3>3. Append(<< >>, r) = << r >>
      OBVIOUS
    <3>. QED BY <3>1, <3>2, <3>3
  <2>5. revs = H!NoRevisions
    BY <2>2 DEF revs, H!NoRevisions
  <2>6. revs' = H!Snapshot(staged)
    BY <2>4 DEF revs, H!Snapshot
  <2>7. trash' = trash
    <3>1. \A p \in Path : TrashedContent(p)' = TrashedContent(p)
      BY <1>0, <1>1, TrashStays
    <3>. QED BY <3>1 DEF trash
  <2>8. PICK notes \in H!Vault : notes = staged
    BY <2>1
  <2>. QED BY <2>5, <2>6, <2>7, <2>8 DEF H!Begin
<1>. QED
  BY <1>2, <1>3 DEF CommitAll

\* A commit of a Record records what the disk holds, and puts what the note held
\* into the trash when it is gone.
LEMMA CommitRecords ==
  ASSUME TypeOK, RepoOK, RecordOK, IndexOK, LatestOK, OnlyOwnStaged, CommitStaged,
         races = 0, crashes = 0, faults = 0
  PROVE  Unseen \/ H!Record(call.actor, call.path, call.action, disk[call.path])
<1>0. [Next]_vars
  BY DEF Next
<1>1. pc = "commit" /\ trashFile' = trashFile /\ trashFile # Missing
  BY EntryAssumption DEF CommitStaged, Goto, Return, RepoOK, repository
<1>2. CASE Return("commit", "error") /\ UNCHANGED commits
  BY <1>0, <1>1, <1>2, QuietUnseen DEF Return, Goto
<1>3. CASE Committed(call.actor, call.action, call.path) /\ Goto("commit", "trash")
           /\ UNCHANGED <<disk, repo, staged, trashFile, call, found, answer, lost, bounds>>
  <2>1. PICK p \in Path, now \in Note : p = call.path /\ now = disk[p]
    BY DEF TypeOK, Tree
  <2>2. call.actor \in Actor /\ call.action \in {"save", "delete"}
    BY DEF TypeOK
  <2>3. now # TreeAt(Tip)[p] /\ staged[p] = now /\ found = (now # NoNote)
    BY <1>1, <2>1 DEF RecordOK
  <2>4. H!Latest(p) = TreeAt(Tip)[p]
    BY DEF LatestOK, InHead
  <2>5. ASSUME NEW q \in Path
        PROVE  revs'[q] = IF q = p
                          THEN Append(revs[q], [actor |-> call.actor, action |-> call.action, content |-> now])
                          ELSE revs[q]
    <3>1. Revisions(q)' = IF staged[q] = TreeAt(Tip)[q] THEN Revisions(q)
             ELSE Append(Revisions(q), [actor |-> call.actor, action |-> call.action, content |-> staged[q]])
      BY <1>3, <2>1, <2>2, RevisionsGrow
    <3>2. q # p => staged[q] = TreeAt(Tip)[q]
      BY <1>1, <2>1 DEF OnlyOwnStaged, InHead
    <3>. QED BY <2>3, <3>1, <3>2 DEF revs
  <2>6. ASSUME NEW q \in Path
        PROVE  trash'[q] = IF q = p THEN IF now = NoNote THEN TreeAt(Tip)[p] ELSE NoNote
                           ELSE trash[q]
    <3>1. CASE q = p
      <4>1. /\ Tip \in Nat /\ Tip' = Tip + 1
            /\ \A k \in 0..Tip : TreeAt(k)' = TreeAt(k)
        BY <1>3, <2>1, <2>2, CommitGrows
      <4>2. PICK t : t = Tip
        OBVIOUS
      <4>3. TreeAt(t)' = TreeAt(t) /\ Tip' - 1 = t
        BY <4>1, <4>2
      <4>4. TreeAt(Tip - 1)' = TreeAt(t)'
        BY <4>3 DEF TreeAt
      <4>5. TrashedContent(q)' = IF found THEN NoNote ELSE TreeAt(Tip - 1)'[p]
        BY <1>3, <2>1, <3>1 DEF TrashedContent, Goto
      <4>. QED BY <2>3, <3>1, <4>2, <4>3, <4>4, <4>5 DEF trash
    <3>2. CASE q # p
      <4>1. pc # "trash" /\ call'.path # q
        BY <1>1, <1>3, <2>1, <3>2
      <4>2. TrashedContent(q)' = TrashedContent(q)
        BY <1>0, <1>1, <4>1, TrashStays
      <4>. QED BY <3>2, <4>2 DEF trash
    <3>. QED BY <3>1, <3>2
  <2>7. revs' = [revs EXCEPT ![p] = Append(revs[p],
                   [actor |-> call.actor, action |-> call.action, content |-> now])]
    BY <2>5 DEF revs
  <2>8. trash' = [trash EXCEPT ![p] = IF now = NoNote THEN H!Latest(p) ELSE NoNote]
    BY <2>4, <2>6 DEF trash
  <2>. QED BY <2>1, <2>3, <2>4, <2>7, <2>8 DEF H!Record
<1>. QED
  BY <1>2, <1>3 DEF CommitStaged, repository

\* The index update only writes down what the commit has made so.
LEMMA UpdateUnseen ==
  ASSUME TypeOK, RepoOK, UpdateTrashIndex
  PROVE  Unseen
<1>1. /\ pc = "trash" /\ pc' = "idle" /\ UNCHANGED <<commits, call, found>>
      /\ trashFile \in Index /\ trashFile # Missing
      /\ Tip \in Nat /\ Tip - 1 \in Nat /\ call.path \in Path
  BY EntryAssumption DEF UpdateTrashIndex, Return, Goto, RepoOK, TypeOK
<1>2. trashFile' = [trashFile EXCEPT ![call.path] =
        IF found THEN NoEntry ELSE [restore |-> Tip - 1, delete |-> Tip]]
  BY DEF UpdateTrashIndex
<1>3. PICK e : e = [restore |-> Tip - 1, delete |-> Tip]
  OBVIOUS
<1>4. e # NoEntry /\ e.restore = Tip - 1
  <2>1. e \in Entry
    BY <1>1, <1>3 DEF Entry
  <2>. QED BY <1>3, <2>1, EntryAssumption
<1>5. trashFile' # Missing
  <2>1. trashFile' \in Index
    BY StateStep DEF RepoOK, UpdateTrashIndex, Return, Goto, Next
  <2>. QED BY <2>1, EntryAssumption
<1>6. ASSUME NEW p \in Path
      PROVE  TrashedContent(p)' = TrashedContent(p)
  <2>1. \A k : TreeAt(k)' = TreeAt(k)
    BY <1>1 DEF TreeAt
  <2>2. CASE p = call.path
    <3>1. TrashedContent(p) = IF found THEN NoNote ELSE TreeAt(Tip - 1)[p]
      BY <1>1, <2>2 DEF TrashedContent
    <3>2. trashFile'[p] = IF found THEN NoEntry ELSE e
      BY <1>1, <1>2, <1>3, <2>2 DEF Index
    <3>3. TrashedContent(p)' = IF found THEN NoNote ELSE TreeAt(e.restore)'[p]
      BY <1>1, <1>4, <1>5, <3>2 DEF TrashedContent, TreeAt
    <3>. QED BY <1>4, <2>1, <3>1, <3>3
  <2>3. CASE p # call.path
    <3>1. trashFile'[p] = trashFile[p]
      BY <1>1, <1>2, <2>3 DEF Index
    <3>. QED BY <1>1, <1>5, <2>3, <3>1 DEF TrashedContent, TreeAt
  <2>. QED BY <2>2, <2>3
<1>7. trash' = trash
  BY <1>6 DEF trash
<1>. QED
  BY <1>1, <1>7, RevisionsSame DEF Unseen
\* Listing the trash drops the notes that are back.
LEMMA ListDeletedSeen ==
  ASSUME TypeOK, RepoOK, ListDeleted
  PROVE  trash' = H!Deleted(disk) /\ UNCHANGED revs
<1>1. /\ pc = "idle" /\ UNCHANGED <<commits, pc, call, found>>
      /\ trashFile \in Index /\ trashFile # Missing
      /\ trashFile' = [p \in Path |-> IF disk[p] = NoNote THEN trashFile[p] ELSE NoEntry]
  BY EntryAssumption DEF ListDeleted, RepoOK
<1>2. trashFile' # Missing
  <2>1. trashFile' \in Index
    BY <1>1 DEF Index
  <2>. QED BY <2>1, EntryAssumption
<1>3. ASSUME NEW p \in Path
      PROVE  TrashedContent(p)' = IF disk[p] = NoNote THEN TrashedContent(p) ELSE NoNote
  BY <1>1, <1>2 DEF TrashedContent, TreeAt
<1>4. trash' = H!Deleted(disk)
  BY <1>3 DEF trash, H!Deleted
<1>. QED
  BY <1>1, <1>4, RevisionsSame

\* A purge takes its paths out of the trash.
LEMMA PurgeSeen ==
  ASSUME TypeOK, RepoOK, NEW paths \in SUBSET Purgeable, PurgeDeleted(paths)
  PROVE  H!PurgeDeleted(paths)
<1>1. /\ pc = "idle" /\ UNCHANGED <<commits, pc, call, found>>
      /\ trashFile \in Index /\ trashFile # Missing
      /\ trashFile' = [p \in Path |-> IF p \in paths THEN NoEntry ELSE trashFile[p]]
  BY EntryAssumption DEF PurgeDeleted, RepoOK
<1>2. trashFile' # Missing
  <2>1. trashFile' \in Index
    BY <1>1 DEF Index
  <2>. QED BY <2>1, EntryAssumption
<1>3. ASSUME NEW p \in Path
      PROVE  TrashedContent(p)' = IF p \in paths THEN NoNote ELSE TrashedContent(p)
  BY <1>1, <1>2 DEF TrashedContent, TreeAt
<1>4. trash' = [p \in Path |-> IF p \in paths THEN NoNote ELSE trash[p]]
  BY <1>3 DEF trash
<1>. QED
  BY <1>1, <1>4, RevisionsSame DEF H!PurgeDeleted

\* Opening finds nothing to rebuild, for nothing was deleted before there was an
\* index, or drops the notes that are back, as listing does.
LEMMA InitTrashIndexSeen ==
  ASSUME TypeOK, RepoOK, FirstIndex, IndexOK, RestorableOK, InitTrashIndex,
         races = 0, losses = 0
  PROVE  Unseen \/ (trash' = H!Deleted(disk) /\ UNCHANGED revs)
<1>1. pc = "index" /\ pc' = "idle" /\ UNCHANGED <<commits, call, found>>
  BY DEF InitTrashIndex, Goto
<1>2. revs' = revs
  BY <1>1, RevisionsSame
<1>3. trashFile' \in Index /\ trashFile' # Missing
  <2>1. trashFile' \in Index
    BY IndexType DEF InitTrashIndex
  <2>. QED BY <2>1, EntryAssumption
<1>4. CASE trashFile = Missing
  <2>1. ASSUME NEW p \in Path PROVE TrashedContent(p)' = TrashedContent(p)
    <3>1. NamedDeletions(p) = {}
      BY <1>4 DEF FirstIndex, NamedDeletions
    <3>2. trashFile'[p] = NoEntry
      BY <1>4, <3>1, ScannedEntry DEF InitTrashIndex
    <3>. QED BY <1>1, <1>3, <1>4, <3>2 DEF TrashedContent
  <2>2. trash' = trash
    BY <2>1 DEF trash
  <2>. QED BY <1>2, <2>2 DEF Unseen
<1>5. CASE trashFile # Missing
  <2>1. ASSUME NEW p \in Path
        PROVE  TrashedContent(p)' = IF disk[p] = NoNote THEN TrashedContent(p) ELSE NoNote
    <3>1. PICK e : e = trashFile[p]
      OBVIOUS
    <3>2. TrashedContent(p) = IF e = NoEntry THEN NoNote ELSE TreeAt(e.restore)[p]
      BY <1>1, <1>5, <3>1 DEF TrashedContent
    <3>3. trashFile'[p] = IF Valid(p, e) THEN e ELSE NoEntry
      BY <1>5, <3>1 DEF InitTrashIndex, Validated
    <3>4. TrashedContent(p)' = IF Valid(p, e) THEN TreeAt(e.restore)[p] ELSE NoNote
      <4>1. CASE Valid(p, e)
        BY <1>1, <1>3, <3>3, <4>1 DEF TrashedContent, TreeAt, Valid
      <4>2. CASE ~Valid(p, e)
        BY <1>1, <1>3, <3>3, <4>2 DEF TrashedContent
      <4>. QED BY <4>1, <4>2
    <3>5. e # NoEntry /\ disk[p] = NoNote => Valid(p, e)
      <4>. SUFFICES ASSUME e # NoEntry, disk[p] = NoNote PROVE Valid(p, e)
        OBVIOUS
      <4>1. Names(p, e) /\ Restores(p, e)
        BY <1>5, <3>1 DEF IndexOK, RestorableOK
      <4>2. Tip \in Nat
        BY LenProperties DEF TypeOK, Tip
      <4>3. e.restore \in 1..Tip
        BY <4>1, <4>2 DEF Names
      <4>. QED BY <4>1, <4>3 DEF Valid, Restores
    <3>6. Valid(p, e) => e # NoEntry /\ disk[p] = NoNote
      BY DEF Valid
    <3>. QED BY <3>2, <3>4, <3>5, <3>6
  <2>2. trash' = H!Deleted(disk)
    BY <2>1 DEF trash, H!Deleted
  <2>. QED BY <1>2, <2>2
<1>. QED
  BY <1>4, <1>5

\* Before the first crash, failure, lost index or raced file, a step shows to a
\* caller as a step of the history interface, or not at all.
LEMMA StepSeen ==
  ASSUME TypeOK, RepoOK, StagedOK, RecordOK, FirstIndex, IndexOK, RestorableOK, LatestOK,
         OnlyOwnStaged, [Next]_vars, Troubles' = 0
  PROVE  Unseen \/ H!HNext(disk, Purgeable)
<1>a. races = 0 /\ crashes = 0 /\ faults = 0 /\ losses = 0
      /\ races' = 0 /\ crashes' = 0 /\ faults' = 0 /\ losses' = 0
  <2>1. BoundsOK' /\ races <= races' /\ crashes <= crashes' /\ faults <= faults' /\ losses <= losses'
    BY BoundsType
  <2>2. races' \in Nat /\ crashes' \in Nat /\ faults' \in Nat /\ losses' \in Nat
        /\ races' + crashes' + faults' + losses' = 0
    BY <2>1 DEF BoundsOK, Troubles
  <2>3. races' = 0 /\ crashes' = 0 /\ faults' = 0 /\ losses' = 0
    <3>1. \A a, b, c, d \in Nat : a + b + c + d = 0 => a = 0 /\ b = 0 /\ c = 0 /\ d = 0
      OBVIOUS
    <3>. QED BY <2>2, <3>1
  <2>4. races \in Nat /\ crashes \in Nat /\ faults \in Nat /\ losses \in Nat
    BY DEF TypeOK
  <2>. QED BY <2>1, <2>3, <2>4
<1>1. CASE CommitAll
  BY <1>a, <1>1, CommitAllBegins DEF H!HNext
<1>2. CASE CommitStaged
  <2>1. Unseen \/ H!Record(call.actor, call.path, call.action, disk[call.path])
    BY <1>a, <1>2, CommitRecords
  <2>2. PICK a \in Actor, p \in Path, action \in H!Action, now \in Content \cup {NoNote} :
          a = call.actor /\ p = call.path /\ action = call.action /\ now = disk[call.path]
    BY DEF TypeOK, H!Action, Tree, Note
  <2>3. Unseen \/ H!Record(a, p, action, now)
    BY <2>1, <2>2 DEF H!Record, H!Latest
  <2>. QED BY <2>3 DEF H!HNext
<1>3. CASE UpdateTrashIndex
  BY <1>3, UpdateUnseen
<1>4. CASE ListDeleted
  BY <1>4, ListDeletedSeen DEF H!HNext
<1>5. CASE \E paths \in SUBSET Purgeable : PurgeDeleted(paths)
  BY <1>5, PurgeSeen DEF H!HNext
<1>6. CASE InitTrashIndex
  BY <1>a, <1>6, InitTrashIndexSeen DEF H!HNext
<1>7. CASE InitRepo \/ StageAll \/ OpenRepo \/ Read \/ Stage \/ Stop
  BY <1>a, <1>7, QuietUnseen DEF InitRepo, StageAll, OpenRepo, Read, Stage, Stop, Goto, Return, repository
<1>8. CASE \E actor \in Actor, p \in Path : StartRecord(actor, p)
  BY <1>a, <1>8, QuietUnseen DEF StartRecord, Goto, repository
<1>9. CASE (\E p \in Path : Change(p)) \/ UNCHANGED vars
  BY <1>a, <1>9, QuietUnseen DEF Change, vars, repository
<1>10. ~CommitFails /\ ~TrashWriteFails /\ ~Crash /\ ~LoseTrashFile
  BY <1>a DEF CommitFails, TrashWriteFails, Crash, LoseTrashFile
<1>. QED
  BY <1>1, <1>2, <1>3, <1>4, <1>5, <1>6, <1>7, <1>8, <1>9, <1>10 DEF Next

\* ImplementsHistory: commits, staging area and trash index, step by step, are
\* the history the note service was written against (module History), until the
\* first crash, failure, lost index or file changed under a Record.
THEOREM Implements == Spec => ImplementsHistory
<1>1. ASSUME Init PROVE H!HInit
  <2>1. ASSUME NEW p \in Path PROVE Revisions(p) = << >> /\ TrashedContent(p) = NoNote
    <3>1. Tip = 0 /\ Changes(p) = {}
      BY <1>1 DEF Init, Changes, Tip
    <3>2. Cardinality(Changes(p)) = 0
      BY <3>1, FS_EmptySet
    <3>. QED BY <1>1, <3>2 DEF Init, Revisions, TrashedContent
  <2>. QED BY <2>1 DEF H!HInit, H!NoRevisions, revs, trash
<1>2. TypeOK /\ RepoOK /\ StagedOK /\ RecordOK /\ FirstIndex /\ IndexOK /\ RestorableOK
      /\ LatestOK /\ OnlyOwnStaged /\ [Next]_vars
      => [Troubles' = 0 /\ <<revs, trash>>' # <<revs, trash>>
          => H!HNext(disk, Purgeable)]_<<revs, trash>>
  BY StepSeen DEF Unseen
<1>. QED
  BY <1>1, <1>2, TypeCorrect, RecordInvariant, IndexInvariant, RestorableInvariant,
     SeenInvariant, PTL DEF Spec, ImplementsHistory
=============================================================================
