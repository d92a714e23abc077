----------------------------- MODULE GitHistory -----------------------------
(***************************************************************************)
(* packages/history: note history on a git repository inside the vault,    *)
(* and the trash index beside it.  The repository is a chain of commits,   *)
(* a staging area (.git/index) and the file obsidianweb-trash.json; all    *)
(* three and the vault survive a crash, the call in progress does not.     *)
(* Calls of one backend are serialized by its mutex, so one program        *)
(* counter suffices; other programs edit the vault between any two steps.  *)
(*                                                                         *)
(* A blob is its content.  Staging, committing and removing are what       *)
(* git.go expects of go-git: staging reads the file again, removing stages *)
(* a deletion and deletes the file, and committing nothing is an error.    *)
(***************************************************************************)
EXTENDS Naturals, Sequences, FiniteSets

CONSTANTS
  Path, Content, NoNote, \* as in History
  Actor, Local,          \* who signs commits; Local signs the first one
  NoPath,                \* the path of a commit that is about no single note
  Missing,               \* the trash index file does not exist
  NoEntry,               \* a path that is not in the trash
  Purgeable,             \* the paths users purge from the trash
  LegacyPurged,          \* the paths in the purged list of older versions
  ScanMaxWalk,           \* commits a rebuild of the trash index looks at
  MaxEdits, MaxRecords,  \* bounds: changes of the vault, calls of Record
  MaxTroubles            \* bound: crashes, failed writes, lost trash indexes and
                         \* changes to what a call in progress looks at

ASSUME GitAssumption ==
  /\ NoNote \notin Content
  /\ Local \in Actor
  /\ NoPath \notin Path
  /\ Purgeable \subseteq Path /\ LegacyPurged \subseteq Path
  /\ ScanMaxWalk \in Nat
  /\ MaxEdits \in Nat /\ MaxRecords \in Nat /\ MaxTroubles \in Nat

VARIABLES
  disk,        \* disk[p]: the vault
  repo,        \* whether the vault holds a repository
  commits,     \* the commits from the root to HEAD
  staged,      \* staged[p]: the staging area
  trashFile,   \* the trash index: an entry per path, or Missing
  pc,          \* the step the backend is at
  call,        \* the Record in progress
  found,       \* whether that Record found the file
  answer,      \* what the last Record returned
  lost,        \* the index the last loss took (history variable)
  edits, records,                 \* how much of each bound is used,
  races, crashes, faults, losses  \* the last by kind of trouble

repository == <<repo, commits, staged, trashFile>>
bounds == <<edits, records, races, crashes, faults, losses>>
vars == <<disk, repository, pc, call, found, answer, lost, bounds>>

Note == Content \cup {NoNote}
Tree == [Path -> Note]
Nothing == [p \in Path |-> NoNote]

Commit == [actor: Actor, action: {"init", "save", "delete"},
           path: Path \cup {NoPath}, tree: Tree]

\* The content was last in commit restore and left with commit delete.
Entry == [restore: Nat, delete: Nat]
Index == [Path -> Entry \cup {NoEntry}]
NoEntries == [p \in Path |-> NoEntry]

ASSUME EntryAssumption == NoEntry \notin Entry /\ Missing \notin Index

Troubles == races + crashes + faults + losses

TypeOK ==
  /\ disk \in Tree /\ staged \in Tree
  /\ repo \in BOOLEAN
  /\ commits \in Seq(Commit)
  /\ trashFile \in Index \cup {Missing}
  /\ lost \in Index
  /\ pc \in {"down", "stageall", "commitall", "index",
             "idle", "read", "stage", "commit", "trash"}
  /\ call \in [actor: Actor, action: {"save", "delete"}, path: Path]
  /\ found \in BOOLEAN
  /\ answer \in {"none", "nil", "error"}
  /\ edits \in 0..MaxEdits /\ records \in 0..MaxRecords
  /\ races \in Nat /\ crashes \in Nat /\ faults \in Nat /\ losses \in Nat
  /\ Troubles <= MaxTroubles

Init ==
  /\ disk \in Tree
  /\ repo = FALSE /\ commits = << >> /\ staged = Nothing /\ trashFile = Missing
  /\ pc = "down"
  /\ call \in [actor: {Local}, action: {"save"}, path: Path]
  /\ found = FALSE /\ answer = "none" /\ lost = NoEntries
  /\ edits = 0 /\ records = 0 /\ races = 0
  /\ crashes = 0 /\ faults = 0 /\ losses = 0

-----------------------------------------------------------------------------
(* Helpers *)

TreeAt(k) == IF k = 0 THEN Nothing ELSE commits[k].tree

Tip == Len(commits)

\* headBlobHash: what HEAD holds for p.
InHead(p) == TreeAt(Tip)[p]

Goto(from, to) == pc = from /\ pc' = to

\* Record returns.
Return(from, result) == Goto(from, "idle") /\ answer' = result

\* CommitObject and saveTrash
Committed(actor, action, path) ==
  commits' = Append(commits, [actor |-> actor, action |-> action,
                              path |-> path, tree |-> staged])

-----------------------------------------------------------------------------
(* Open *)

\* PlainInit, when the vault holds no repository.
InitRepo ==
  /\ ~repo /\ repo' = TRUE
  /\ Goto("down", "stageall")
  /\ UNCHANGED <<disk, commits, staged, trashFile, call, found, answer, lost, bounds>>

\* commitAll stages the whole vault ...
StageAll ==
  /\ Goto("stageall", "commitall")
  /\ staged' = disk
  /\ UNCHANGED <<disk, repo, commits, trashFile, call, found, answer, lost, bounds>>

\* A slip: the vault is found clean once it is staged.
CommitAllFindsClean ==
  /\ Goto("commitall", "index")
  /\ UNCHANGED <<disk, repository, call, found, answer, lost, bounds>>

\* ... and commits it unless it is empty; a file that came up since makes it
\* try, and fail to commit nothing.
CommitAll ==
  /\ \/ /\ staged # Nothing
        /\ Committed(Local, "init", NoPath)
        /\ Goto("commitall", "index")
     \/ /\ staged = Nothing /\ UNCHANGED commits
        /\ Goto("commitall", IF disk = Nothing THEN "index" ELSE "down")
  /\ UNCHANGED <<disk, repo, staged, trashFile, call, found, answer, lost, bounds>>

OpenRepo ==
  /\ repo
  /\ Goto("down", "index")
  /\ UNCHANGED <<disk, repository, call, found, answer, lost, bounds>>

\* The commits the scan looks at that deleted p by name.
NamedDeletions(p) ==
  {k \in 1..Tip : /\ commits[k].action = "delete" /\ commits[k].path = p
                   /\ Tip - k < ScanMaxWalk}

Newest(ks) == CHOOSE k \in ks : \A j \in ks : j <= k

\* scanDeleted: the trash as the log of commits tells it.
Scanned ==
  [p \in Path |->
    LET ks == NamedDeletions(p) IN
    IF ks \ {1} = {} \/ p \in LegacyPurged \/ disk[p] # NoNote THEN NoEntry
    ELSE [restore |-> Newest(ks) - 1, delete |-> Newest(ks)]]

\* validTrashEntry: the file is absent and its content can be reached.
Valid(p, e) ==
  e # NoEntry /\ disk[p] = NoNote /\ e.restore \in 1..Tip /\ TreeAt(e.restore)[p] # NoNote

Validated == [p \in Path |-> IF Valid(p, trashFile[p]) THEN trashFile[p] ELSE NoEntry]

\* A slip: the walk stops one commit early.
InitTrashIndexShort ==
  /\ Goto("index", "idle")
  /\ trashFile' = IF trashFile = Missing
                  THEN [p \in Path |-> IF Scanned[p] = NoEntry \/ Tip - Scanned[p].delete + 1 >= ScanMaxWalk
                                       THEN NoEntry ELSE Scanned[p]]
                  ELSE Validated
  /\ UNCHANGED <<disk, repo, commits, staged, call, found, answer, lost, bounds>>

\* initTrashIndex
InitTrashIndex ==
  /\ Goto("index", "idle")
  /\ trashFile' = IF trashFile = Missing THEN Scanned ELSE Validated
  /\ UNCHANGED <<disk, repo, commits, staged, call, found, answer, lost, bounds>>

-----------------------------------------------------------------------------
(* Record *)

\* A slip: a change from outside is recorded as an action of its own.
StartRecordExternal(actor, p) ==
  /\ Goto("idle", "read")
  /\ records < MaxRecords /\ records' = records + 1
  /\ call' = [actor |-> actor, action |-> "external", path |-> p]
  /\ answer' = "none"
  /\ UNCHANGED <<disk, repository, found, lost, edits, races, crashes, faults, losses>>

\* A caller changed the note, or found it changed, and records it.  Creations,
\* saves and restores are recorded alike.  DeleteNote and the watcher's remove
\* name a deletion, even of a file that has come back; a debounced edit is a
\* "save" even when its file has gone.
StartRecord(actor, p) ==
  /\ Goto("idle", "read")
  /\ records < MaxRecords /\ records' = records + 1
  /\ \E action \in {"save", "delete"} :
       call' = [actor |-> actor, action |-> action, path |-> p]
  /\ answer' = "none"
  /\ UNCHANGED <<disk, repository, found, lost, edits, races, crashes, faults, losses>>

\* A slip: the file is compared with the staging area.
ReadAgainstStaging ==
  LET p == call.path IN
  /\ found' = (disk[p] # NoNote)
  /\ \/ disk[p] = staged[p] /\ Return("read", "nil")
     \/ disk[p] # staged[p] /\ Goto("read", "stage") /\ UNCHANGED answer
  /\ UNCHANGED <<disk, repository, call, lost, bounds>>

\* Nothing to do when HEAD holds what the disk holds, or neither holds p.
Read ==
  LET p == call.path IN
  /\ found' = (disk[p] # NoNote)
  /\ \/ disk[p] = InHead(p) /\ Return("read", "nil")
     \/ disk[p] # InHead(p) /\ Goto("read", "stage") /\ UNCHANGED answer
  /\ UNCHANGED <<disk, repository, call, lost, bounds>>

\* A file that is there is added as it is by now; one that was not is removed,
\* from the vault too when it came back.  Either fails when there is neither a
\* file nor a staged one.
Stage ==
  LET p == call.path
      now == IF found THEN disk[p] ELSE NoNote
  IN \/ /\ now # NoNote \/ staged[p] # NoNote
        /\ staged' = [staged EXCEPT ![p] = now]
        /\ disk' = IF found THEN disk ELSE [disk EXCEPT ![p] = NoNote]
        /\ Goto("stage", "commit")
        /\ UNCHANGED <<repo, commits, trashFile, call, found, answer, lost, bounds>>
     \/ /\ now = NoNote /\ staged[p] = NoNote
        /\ Return("stage", "error")
        /\ UNCHANGED <<disk, repository, call, found, lost, bounds>>

\* A slip: the trash index is updated in the background.
CommitReturns ==
  \/ /\ staged # TreeAt(Tip)
     /\ Committed(call.actor, call.action, call.path)
     /\ Return("commit", "nil")
     /\ UNCHANGED <<disk, repo, staged, trashFile, call, found, lost, bounds>>
  \/ /\ staged = TreeAt(Tip)
     /\ Return("commit", "error")
     /\ UNCHANGED <<disk, repository, call, found, lost, bounds>>

\* The commit holds everything that is staged.
CommitStaged ==
  \/ /\ staged # TreeAt(Tip)
     /\ Committed(call.actor, call.action, call.path)
     /\ Goto("commit", "trash")
     /\ UNCHANGED <<disk, repo, staged, trashFile, call, found, answer, lost, bounds>>
  \/ /\ staged = TreeAt(Tip)
     /\ Return("commit", "error")
     /\ UNCHANGED <<disk, repository, call, found, lost, bounds>>

\* A slip: the parent is read after the commit.
UpdateTrashIndexLate ==
  /\ Return("trash", "nil")
  /\ trashFile' = [trashFile EXCEPT ![call.path] =
       IF found THEN NoEntry ELSE [restore |-> Tip, delete |-> Tip]]
  /\ UNCHANGED <<disk, repo, commits, staged, call, found, lost, bounds>>

\* updateTrashIndex: a deletion replaces the path's entry, anything else drops it.
UpdateTrashIndex ==
  /\ Return("trash", "nil")
  /\ trashFile' = [trashFile EXCEPT ![call.path] =
       IF found THEN NoEntry ELSE [restore |-> Tip - 1, delete |-> Tip]]
  /\ UNCHANGED <<disk, repo, commits, staged, call, found, lost, bounds>>

-----------------------------------------------------------------------------
(* The trash *)

\* Deleted drops the entries of files that are back, and saves that.
ListDeleted ==
  /\ pc = "idle"
  /\ trashFile' = [p \in Path |-> IF disk[p] = NoNote THEN trashFile[p] ELSE NoEntry]
  /\ UNCHANGED <<disk, repo, commits, staged, pc, call, found, answer, lost, bounds>>

PurgeDeleted(paths) ==
  /\ pc = "idle"
  /\ trashFile' = [p \in Path |-> IF p \in paths THEN NoEntry ELSE trashFile[p]]
  /\ UNCHANGED <<disk, repo, commits, staged, pc, call, found, answer, lost, bounds>>

-----------------------------------------------------------------------------
(* What the environment does *)

\* A commit that cannot be written leaves its change staged; an index that
\* cannot be written is logged.
CommitFails ==
  /\ Return("commit", "error")
  /\ Troubles < MaxTroubles /\ faults' = faults + 1
  /\ UNCHANGED <<disk, repository, call, found, lost, edits, records, races, crashes, losses>>

TrashWriteFails ==
  /\ Return("trash", "nil")
  /\ Troubles < MaxTroubles /\ faults' = faults + 1
  /\ UNCHANGED <<disk, repository, call, found, lost, edits, records, races, crashes, losses>>

\* The process stops between two calls, or dies in the middle of one.
Stop ==
  /\ Goto("idle", "down")
  /\ UNCHANGED <<disk, repository, call, found, answer, lost, bounds>>

Crash ==
  /\ pc \notin {"idle", "down"} /\ pc' = "down"
  /\ Troubles < MaxTroubles /\ crashes' = crashes + 1
  /\ UNCHANGED <<disk, repository, call, found, answer, lost,
                 edits, records, races, faults, losses>>

\* The index is not part of the repository: a clone of the vault is without it.
LoseTrashFile ==
  /\ pc = "down" /\ trashFile # Missing
  /\ Troubles < MaxTroubles /\ losses' = losses + 1
  /\ lost' = trashFile /\ trashFile' = Missing
  /\ UNCHANGED <<disk, repo, commits, staged, pc, call, found, answer,
                 edits, records, races, crashes, faults>>

\* What the call in progress looks at.
InUse(p) ==
  \/ pc \in {"stageall", "commitall"}
  \/ pc \in {"read", "stage", "commit", "trash"} /\ call.path = p

\* A caller of Record or another program changes the vault.
Change(p) ==
  /\ edits < MaxEdits /\ edits' = edits + 1
  /\ \E c \in Note \ {disk[p]} : disk' = [disk EXCEPT ![p] = c]
  /\ IF InUse(p) THEN Troubles < MaxTroubles /\ races' = races + 1 ELSE UNCHANGED races
  /\ UNCHANGED <<repository, pc, call, found, answer, lost, records, crashes, faults, losses>>

-----------------------------------------------------------------------------
Next ==
  \/ InitRepo \/ StageAll \/ CommitAll \/ OpenRepo \/ InitTrashIndex
  \/ \E actor \in Actor, p \in Path : StartRecord(actor, p)
  \/ Read \/ Stage \/ CommitStaged \/ UpdateTrashIndex
  \/ ListDeleted
  \/ \E paths \in SUBSET Purgeable : PurgeDeleted(paths)
  \/ CommitFails \/ TrashWriteFails
  \/ Stop \/ Crash \/ LoseTrashFile
  \/ \E p \in Path : Change(p)

Spec == Init /\ [][Next]_vars

-----------------------------------------------------------------------------
(* What must hold *)

\* No commit is named a deletion that left its file in place.
NamesTrue ==
  \A k \in 1..Tip : commits[k].action = "delete" => TreeAt(k)[commits[k].path] = NoNote

\* Whatever crashes and fails, an entry can be restored: the commit it names
\* holds the content, the one after it removed it.  Only files that change
\* under a Record could break this, and a rebuild, which goes by the names of
\* commits: the watcher names a deletion when an editor replaces a file.
EntriesRestorable ==
  races = 0 /\ trashFile # Missing /\ (losses = 0 \/ NamesTrue) =>
    \A p \in Path : trashFile[p] # NoEntry =>
      LET e == trashFile[p] IN
        /\ e.delete \in 1..Tip /\ e.restore = e.delete - 1
        /\ TreeAt(e.restore)[p] # NoNote
        /\ TreeAt(e.delete)[p] = NoNote

\* Nothing waits in the staging area between two calls: it would be committed
\* under the next note's name and actor.
NothingRidesAlong ==
  crashes = 0 /\ faults = 0 /\ pc = "idle" => staged = TreeAt(Tip)

\* "Record captures the current state of path as a commit" (git.go:81): when it
\* says so, HEAD holds what the disk holds, after crashes and failures too.
RecordCaptures ==
  [][pc # "idle" /\ pc' = "idle" /\ answer' = "nil" /\ answer = "none" /\ races = 0
     => TreeAt(Tip)'[call.path] = disk[call.path]]_vars

\* A lost index is rebuilt from the log (ADR-0005): every note in it that was
\* deleted by name within the walk comes back, with that deletion or a later
\* one.  (One whose deletion was recorded as a "save" does not.)
RebuildKeepsDeletions ==
  [][pc = "index" /\ trashFile = Missing /\ pc' = "idle" /\ races = 0 =>
       \A p \in Path :
         /\ lost[p] # NoEntry /\ commits[lost[p].delete].action = "delete"
         /\ Tip - lost[p].delete < ScanMaxWalk
         /\ p \notin LegacyPurged /\ disk[p] = NoNote
         => trashFile'[p] # NoEntry /\ trashFile'[p].delete >= lost[p].delete]_vars

\* "a recreated and re-deleted file shows up in the trash again" (ADR-0005): a
\* note that history has and the vault has no more is in the trash.
RedeletedShowsUpAgain ==
  pc = "idle" =>
    \A p \in Path :
      /\ disk[p] = NoNote /\ InHead(p) = NoNote
      /\ \E k \in 1..Tip : TreeAt(k)[p] # NoNote
      => trashFile[p] # NoEntry

-----------------------------------------------------------------------------
(* The backend as the note service sees it (module History).  A commit and  *)
(* the index update after it are one step there.                            *)

\* Log: the commits that changed p.
Changes(p) == {k \in 1..Tip : TreeAt(k)[p] # TreeAt(k - 1)[p]}

\* The i-th of some commits, oldest first.
Nth(ks, i) == CHOOSE k \in {k \in ks : Cardinality({j \in ks : j <= k}) = i} : TRUE

Revisions(p) ==
  LET ks == Changes(p) IN
  [i \in 1..Cardinality(ks) |->
     LET k == Nth(ks, i) IN
       [actor |-> commits[k].actor, action |-> commits[k].action, content |-> TreeAt(k)[p]]]

TrashedContent(p) ==
  IF pc = "trash" /\ call.path = p
  THEN IF found THEN NoNote ELSE TreeAt(Tip - 1)[p]
  ELSE IF trashFile = Missing THEN NoNote
  ELSE IF trashFile[p] = NoEntry THEN NoNote
  ELSE TreeAt(trashFile[p].restore)[p]

revs == [p \in Path |-> Revisions(p)]
trash == [p \in Path |-> TrashedContent(p)]

H == INSTANCE History WITH revs <- revs, trash <- trash

\* Until the first crash, failure, lost index or raced file, the repository is
\* the history the note service was written against: a step that shows in it is
\* one of its steps.
ImplementsHistory ==
  H!HInit /\ [][Troubles' = 0 /\ <<revs, trash>>' # <<revs, trash>>
               => H!HNext(disk, Purgeable)]_<<revs, trash>>
=============================================================================
