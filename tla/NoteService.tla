---------------------------- MODULE NoteService ----------------------------
(***************************************************************************)
(* packages/core/service.go: the requests that change notes, step by step. *)
(* Every step is one access to state that other goroutines see: the vault  *)
(* on disk, the in-memory indexes, the history backend, a path lock.       *)
(* Requests of different users interleave; an editor outside the service   *)
(* may change the vault between any two steps.                             *)
(*                                                                         *)
(* Contents stand for their hashes (SHA-256 taken as injective).  The      *)
(* link, search and meta indexes are one index here: what it holds for p   *)
(* is the content p was last indexed with.                                 *)
(***************************************************************************)
EXTENDS Naturals, Sequences, FiniteSets

CONSTANTS
  User,            \* authenticated callers, one request at a time each
  Path, Content,   \* note paths and note contents
  Empty,           \* the content of a truncated file
  Pieces,          \* what a write that fails partway can leave, Empty included
  NoNote,          \* the value of a path without a note
  NoBase,          \* the empty base hash: save without optimistic locking
  NoUser,          \* an unlocked path
  External, Local, \* signatures of revisions no caller made
  Op,              \* the kinds of request callers make
  Names,           \* the paths CreateNote tries for a title, in order
  Stamp(_, _, _),  \* what authorship and frontmatter rules make of a content
  MaxRequests,     \* bound: requests started
  MaxEdits,        \* bound: edits from outside the service
  MaxFaults        \* bound: failing disk writes and commits

ASSUME ServiceAssumption ==
  /\ Pieces \subseteq Content /\ Empty \in Pieces
  /\ NoNote \notin Content
  /\ NoBase \notin Content
  /\ NoUser \notin User
  /\ Op \subseteq {"save", "create", "delete", "restore"} /\ Op # {}
  /\ Names \in Seq(Path) /\ Names # << >>
  /\ \A j, k \in DOMAIN Names : Names[j] = Names[k] => j = k
  /\ \A op \in Op, u \in User, c \in Content : Stamp(op, u, c) \in Content
  /\ MaxRequests \in Nat /\ MaxEdits \in Nat /\ MaxFaults \in Nat

VARIABLES
  disk,      \* disk[p]: the vault on disk
  index,     \* index[p]: what the in-memory indexes hold for p
  revs,      \* the history of each note (module History)
  trash,     \* the trash index (module History)
  lock,      \* lock[p]: the user holding p's path lock
  pc,        \* pc[u]: where u's request is
  req,       \* req[u]: u's request
  seen,      \* seen[u]: what u's request found at its path
  outcome,   \* outcome[u]: the answer to u's last request
  requests, edits, faults   \* how much of each bound is used

vars == <<disk, index, revs, trash, lock, pc, req, seen, outcome,
          requests, edits, faults>>

Actor == User \cup {External, Local}

H == INSTANCE History

Note == Content \cup {NoNote}

Request == [op: Op, path: Path, content: Content, base: Content \cup {NoBase}]

Step == {"idle", "probe", "acquire", "exists", "compare", "snapshot",
         "truncate", "write", "index", "remove", "unindex", "record"}

TypeOK ==
  /\ disk \in [Path -> Note]
  /\ index \in [Path -> Note]
  /\ H!HistoryTypeOK
  /\ lock \in [Path -> User \cup {NoUser}]
  /\ pc \in [User -> Step]
  /\ req \in [User -> Request]
  /\ seen \in [User -> Note]
  /\ outcome \in [User -> {"none", "ok", "conflict", "unchanged", "notfound", "error"}]
  /\ requests \in 0..MaxRequests
  /\ edits \in 0..MaxEdits
  /\ faults \in 0..MaxFaults

\* The service starts on a vault it has indexed (ReindexAll) and that the
\* history backend has committed ("init: vault snapshot").
Init ==
  /\ disk \in [Path -> Note]
  /\ index = disk
  /\ revs = H!Snapshot(disk)
  /\ trash = [p \in Path |-> NoNote]
  /\ lock = [p \in Path |-> NoUser]
  /\ pc = [u \in User |-> "idle"]
  /\ req = [u \in User |-> [op |-> CHOOSE op \in Op : TRUE, path |-> Names[1],
                            content |-> Empty, base |-> NoBase]]
  /\ seen = [u \in User |-> NoNote]
  /\ outcome = [u \in User |-> "none"]
  /\ requests = 0 /\ edits = 0 /\ faults = 0

-----------------------------------------------------------------------------
(* Helpers *)

At(u, step) == pc[u] = step

Goto(u, step) == pc' = [pc EXCEPT ![u] = step]

bounds == <<requests, edits, faults>>

\* What u's request writes to its path.
Stored(u) ==
  IF req[u].op = "restore" THEN req[u].content
  ELSE Stamp(req[u].op, u, req[u].content)

\* u's request returns; the deferred unlock runs if it holds the lock.
Finish(u, o) ==
  /\ Goto(u, "idle")
  /\ outcome' = [outcome EXCEPT ![u] = o]
  /\ lock' = [p \in Path |-> IF lock[p] = u THEN NoUser ELSE lock[p]]

Start(u, r, step) ==
  /\ At(u, "idle") /\ r.op \in Op
  /\ requests < MaxRequests
  /\ requests' = requests + 1
  /\ req' = [req EXCEPT ![u] = r]
  /\ seen' = [seen EXCEPT ![u] = NoNote]
  /\ outcome' = [outcome EXCEPT ![u] = "none"]
  /\ Goto(u, step)
  /\ UNCHANGED <<disk, index, lock, edits, faults>>

-----------------------------------------------------------------------------
(* The requests: callers send whole contents, so that a piece is told apart. *)

StartSave(u) ==
  /\ \E p \in Path, c \in Content \ Pieces, b \in Content \cup {NoBase} :
       Start(u, [op |-> "save", path |-> p, content |-> c, base |-> b], "acquire")
  /\ UNCHANGED <<revs, trash>>

StartDelete(u) ==
  /\ \E p \in Path :
       Start(u, [op |-> "delete", path |-> p, content |-> Empty, base |-> NoBase], "acquire")
  /\ UNCHANGED <<revs, trash>>

\* RestoreNote reads the revision before it takes the path lock.
StartRestore(u) ==
  /\ \E p \in Path : \E c \in H!Restorable(p) :
       Start(u, [op |-> "restore", path |-> p, content |-> c, base |-> NoBase], "acquire")
  /\ UNCHANGED <<revs, trash>>

\* RestoreDeleted lists the trash, which heals it, and restores the entry.
StartRestoreDeleted(u) ==
  /\ trash' = H!Deleted(disk)
  /\ \E p \in Path :
       /\ trash'[p] # NoNote
       /\ Start(u, [op |-> "restore", path |-> p, content |-> trash'[p],
                    base |-> NoBase], "acquire")
  /\ UNCHANGED revs

\* CreateNote takes no lock: it looks for a free name at once.
StartCreate(u) ==
  /\ \E c \in Content \ Pieces :
       Start(u, [op |-> "create", path |-> Names[1], content |-> c, base |-> NoBase], "probe")
  /\ UNCHANGED <<revs, trash>>

\* A slip: the name loop ends after its first name.
ProbeOnce(u) ==
  /\ At(u, "probe")
  /\ Goto(u, "truncate")
  /\ UNCHANGED <<disk, index, revs, trash, lock, req, seen, outcome, bounds>>

\* One turn of CreateNote's name loop.  The names end with Names (a bound).
Probe(u) ==
  /\ At(u, "probe")
  /\ \/ /\ disk[req[u].path] = NoNote
        /\ Goto(u, "truncate")
        /\ UNCHANGED req
     \/ /\ disk[req[u].path] # NoNote
        /\ \E k \in 1..(Len(Names) - 1) :
             /\ Names[k] = req[u].path
             /\ req' = [req EXCEPT ![u].path = Names[k + 1]]
        /\ UNCHANGED pc
  /\ UNCHANGED <<disk, index, revs, trash, lock, seen, outcome, bounds>>

\* A slip: the lock of the path is not waited for.
AcquireUnguarded(u) ==
  /\ At(u, "acquire")
  /\ lock' = [lock EXCEPT ![req[u].path] = u]
  /\ Goto(u, IF req[u].op = "delete" THEN "remove" ELSE "exists")
  /\ UNCHANGED <<disk, index, revs, trash, req, seen, outcome, bounds>>

Acquire(u) ==
  /\ At(u, "acquire")
  /\ lock[req[u].path] = NoUser
  /\ lock' = [lock EXCEPT ![req[u].path] = u]
  /\ Goto(u, IF req[u].op = "delete" THEN "remove" ELSE "exists")
  /\ UNCHANGED <<disk, index, revs, trash, req, seen, outcome, bounds>>

\* A slip: only a restore reads the note again, a save trusts its base.
CheckExistsTrusting(u) ==
  /\ At(u, "exists")
  /\ Goto(u, IF disk[req[u].path] # NoNote /\ req[u].op = "restore"
             THEN "compare" ELSE "truncate")
  /\ UNCHANGED <<disk, index, revs, trash, lock, req, seen, outcome, bounds>>

CheckExists(u) ==
  LET found == disk[req[u].path] # NoNote
      compares == req[u].op = "restore" \/ req[u].base # NoBase
  IN /\ At(u, "exists")
     /\ Goto(u, IF found /\ compares THEN "compare" ELSE "truncate")
     /\ UNCHANGED <<disk, index, revs, trash, lock, req, seen, outcome, bounds>>

\* A slip: the conflict is returned with the lock held.
CompareSaveKeepsLock(u) ==
  LET current == disk[req[u].path] IN
  /\ At(u, "compare") /\ req[u].op = "save"
  /\ seen' = [seen EXCEPT ![u] = current]
  /\ IF current # NoNote /\ current # req[u].base
     THEN Goto(u, "idle") /\ outcome' = [outcome EXCEPT ![u] = "conflict"]
     ELSE Goto(u, "truncate") /\ UNCHANGED outcome
  /\ UNCHANGED <<disk, index, revs, trash, lock, req, bounds>>

\* SaveNote reads the note and refuses a stale base; it goes on when the note
\* went away since CheckExists.
CompareSave(u) ==
  LET current == disk[req[u].path] IN
  /\ At(u, "compare") /\ req[u].op = "save"
  /\ seen' = [seen EXCEPT ![u] = current]
  /\ IF current # NoNote /\ current # req[u].base
     THEN Finish(u, "conflict")
     ELSE Goto(u, "truncate") /\ UNCHANGED <<lock, outcome>>
  /\ UNCHANGED <<disk, index, revs, trash, req, bounds>>

\* RestoreNote reads the note: a failed read ends the request, an equal
\* content too.
CompareRestore(u) ==
  LET current == disk[req[u].path] IN
  /\ At(u, "compare") /\ req[u].op = "restore"
  /\ seen' = [seen EXCEPT ![u] = current]
  /\ \/ current = NoNote /\ Finish(u, "error")
     \/ current = req[u].content /\ Finish(u, "unchanged")
     \/ /\ current \notin {NoNote, req[u].content}
        /\ Goto(u, "snapshot") /\ UNCHANGED <<lock, outcome>>
  /\ UNCHANGED <<disk, index, revs, trash, req, bounds>>

\* A slip: edits that history has not seen are overwritten.
SnapshotEditsSkipped(u) ==
  /\ At(u, "snapshot")
  /\ Goto(u, "truncate")
  /\ UNCHANGED <<disk, index, revs, trash, lock, req, seen, outcome, bounds>>

\* RestoreNote commits edits that history has not seen before overwriting them.
SnapshotEdits(u) ==
  /\ At(u, "snapshot")
  /\ H!Record(External, req[u].path, "save", disk[req[u].path])
  /\ Goto(u, "truncate")
  /\ UNCHANGED <<disk, index, lock, req, seen, outcome, bounds>>

\* os.WriteFile opens the file with O_TRUNC ...
Truncate(u) ==
  /\ At(u, "truncate")
  /\ disk' = [disk EXCEPT ![req[u].path] = Empty]
  /\ Goto(u, "write")
  /\ UNCHANGED <<index, revs, trash, lock, req, seen, outcome, bounds>>

\* ... and then writes the data.
Write(u) ==
  /\ At(u, "write")
  /\ disk' = [disk EXCEPT ![req[u].path] = Stored(u)]
  /\ Goto(u, "index")
  /\ UNCHANGED <<index, revs, trash, lock, req, seen, outcome, bounds>>

\* The file was removed or replaced since it was opened: the data goes to the
\* old one, and nothing tells.
WriteLost(u) ==
  /\ At(u, "write")
  /\ edits > 0 /\ disk[req[u].path] # Empty
  /\ Goto(u, "index")
  /\ UNCHANGED <<disk, index, revs, trash, lock, req, seen, outcome, bounds>>

\* A slip: the lock is released before the revision is recorded.
IndexNoteUnlocks(u) ==
  /\ At(u, "index")
  /\ index' = [index EXCEPT ![req[u].path] = Stored(u)]
  /\ lock' = [lock EXCEPT ![req[u].path] = NoUser]
  /\ Goto(u, "record")
  /\ UNCHANGED <<disk, revs, trash, req, seen, outcome, bounds>>

IndexNote(u) ==
  /\ At(u, "index")
  /\ index' = [index EXCEPT ![req[u].path] = Stored(u)]
  /\ Goto(u, "record")
  /\ UNCHANGED <<disk, revs, trash, lock, req, seen, outcome, bounds>>

RemoveFile(u) ==
  /\ At(u, "remove")
  /\ seen' = [seen EXCEPT ![u] = disk[req[u].path]]
  /\ IF disk[req[u].path] = NoNote
     THEN Finish(u, "notfound") /\ UNCHANGED disk
     ELSE /\ disk' = [disk EXCEPT ![req[u].path] = NoNote]
          /\ Goto(u, "unindex")
          /\ UNCHANGED <<lock, outcome>>
  /\ UNCHANGED <<index, revs, trash, req, bounds>>

\* A slip: a deleted note stays in the index.
UnindexForgotten(u) ==
  /\ At(u, "unindex")
  /\ Goto(u, "record")
  /\ UNCHANGED <<disk, index, revs, trash, lock, req, seen, outcome, bounds>>

Unindex(u) ==
  /\ At(u, "unindex")
  /\ index' = [index EXCEPT ![req[u].path] = NoNote]
  /\ Goto(u, "record")
  /\ UNCHANGED <<disk, revs, trash, lock, req, seen, outcome, bounds>>

\* The revision holds what is on disk now, whoever wrote it.
RecordRevision(u) ==
  /\ At(u, "record")
  /\ H!Record(u, req[u].path, req[u].op, disk[req[u].path])
  /\ Finish(u, "ok")
  /\ UNCHANGED <<disk, index, req, seen, bounds>>

-----------------------------------------------------------------------------
(* The trash *)

\* PurgeTrash and Trash are one call of the history backend each.
PurgeTrash ==
  /\ \E p \in Path : trash[p] # NoNote /\ H!PurgeDeleted({p})
  /\ UNCHANGED <<disk, index, lock, pc, req, seen, outcome, bounds>>

ListTrash ==
  /\ trash' = H!Deleted(disk)
  /\ UNCHANGED <<disk, index, revs, lock, pc, req, seen, outcome, bounds>>

-----------------------------------------------------------------------------
(* What the environment does *)

\* A file that cannot be opened stays as it was, and a write that fails leaves a
\* piece of the data, unless the file it opened is gone; the request returns
\* the error without indexing or recording.
WriteFails(u) ==
  /\ \/ pc[u] \in {"truncate", "write"} /\ UNCHANGED disk
     \/ At(u, "write") /\ \E c \in Pieces : disk' = [disk EXCEPT ![req[u].path] = c]
  /\ faults < MaxFaults /\ faults' = faults + 1
  /\ Finish(u, "error")
  /\ UNCHANGED <<index, revs, trash, req, seen, requests, edits>>

\* A failed commit is logged and otherwise ignored.
RecordFails(u) ==
  /\ \/ At(u, "record") /\ Finish(u, "ok")
     \/ At(u, "snapshot") /\ Goto(u, "truncate") /\ UNCHANGED <<lock, outcome>>
  /\ faults < MaxFaults /\ faults' = faults + 1
  /\ UNCHANGED <<disk, index, revs, trash, req, seen, requests, edits>>

\* An editor or a sync tool changes the vault directly.
Edit(p) ==
  /\ edits < MaxEdits /\ edits' = edits + 1
  /\ \E c \in Note \ {disk[p], Empty} : disk' = [disk EXCEPT ![p] = c]
  /\ UNCHANGED <<index, revs, trash, lock, pc, req, seen, outcome, requests, faults>>

-----------------------------------------------------------------------------
Begin(u) ==
  \/ StartSave(u) \/ StartDelete(u) \/ StartRestore(u)
  \/ StartRestoreDeleted(u) \/ StartCreate(u)

\* The steps of a request that was made.
Proceed(u) ==
  \/ Probe(u) \/ CheckExists(u) \/ CompareSave(u) \/ CompareRestore(u)
  \/ SnapshotEdits(u) \/ Truncate(u) \/ Write(u) \/ WriteLost(u)
  \/ IndexNote(u) \/ RemoveFile(u) \/ Unindex(u) \/ RecordRevision(u)

Next ==
  \/ \E u \in User : Begin(u) \/ Acquire(u) \/ Proceed(u) \/ WriteFails(u) \/ RecordFails(u)
  \/ PurgeTrash \/ ListTrash
  \/ \E p \in Path : Edit(p)

Spec == Init /\ [][Next]_vars

\* The scheduler runs every request, and Go's mutex hands itself to a waiter
\* that has starved for a millisecond.  Callers owe nothing.
Fairness == \A u \in User : WF_vars(Proceed(u)) /\ SF_vars(Acquire(u))

FairSpec == Spec /\ Fairness

-----------------------------------------------------------------------------
(* What must hold *)

\* From the truncation of its file to its answer, u is changing p.
Changing(u, p) ==
  /\ req[u].path = p
  /\ pc[u] \in {"write", "index", "unindex", "record"}

\* "pathLock serializes mutations of a single note" (service.go:136): no two
\* requests are between the decision to change a note and their answer.
MutationsSerialized ==
  \A u, v \in User :
    /\ u # v /\ req[u].path = req[v].path
    /\ pc[u] \in {"truncate", "write", "index", "remove", "unindex", "record"}
    => pc[v] \notin {"truncate", "write", "index", "remove", "unindex", "record"}

\* Why: a request that takes the lock of its path holds it from CheckExists or
\* RemoveFile to its answer; only CreateNote looks for names.
Holding == {"exists", "compare", "snapshot", "truncate", "write", "index",
            "remove", "unindex", "record"}

LockHeld ==
  \A u \in User :
    /\ pc[u] \in Holding /\ req[u].op # "create" => lock[req[u].path] = u
    /\ pc[u] = "probe" => req[u].op = "create"

\* Between requests the index and the history agree with the disk: every
\* path that changes a note (Save, Create, Delete, Restore) keeps all three,
\* as long as nobody else writes the vault and no write fails.
Agreement ==
  edits = 0 /\ faults = 0 =>
    \A p \in Path : (\A u \in User : ~Changing(u, p)) =>
      index[p] = disk[p] /\ H!Latest(p) = disk[p]

\* What a request in progress has done to the three of them.
InProgress ==
  edits = 0 /\ faults = 0 =>
    \A u \in User :
      LET p == req[u].path IN
        /\ pc[u] = "index" => disk[p] = Stored(u)
        /\ pc[u] = "unindex" => disk[p] = NoNote
        /\ pc[u] = "record" => index[p] = disk[p]

\* A save never replaces content its caller has not seen: when it is about to
\* truncate a note it compared with its base, the note is still the base.
NoLostUpdate ==
  edits = 0 =>
    \A u \in User :
      /\ At(u, "truncate") /\ req[u].op = "save" /\ req[u].base # NoBase
      => disk[req[u].path] \in {req[u].base, NoNote}

\* "With history enabled the note stays restorable from the trash" (DeleteNote,
\* service.go:347): when a delete answers, the trash brings back what it removed,
\* unless another program has written the note without the service.
DeletedStaysRestorable ==
  [][\A u \in User :
       At(u, "record") /\ req[u].op = "delete" /\ outcome'[u] = "ok"
       /\ faults' = 0 /\ edits' = 0
       => trash'[req[u].path] = seen[u]]_vars

\* History tells the truth: a revision signed by a caller holds something that
\* caller's request wrote, or its deletion, and nobody's half-written file.  An
\* outside edit that comes between the write and the record is signed by u.
SignedContents ==
  [][\A u \in User, p \in Path :
       edits = 0 /\ revs'[p] # revs[p] /\ revs'[p][Len(revs'[p])].actor = u =>
         revs'[p][Len(revs'[p])].content =
           IF req[u].op = "delete" THEN NoNote ELSE Stored(u)]_vars

\* A trash entry is the content the note had before its newest revision, which
\* deleted it; a note that has a file in history has no entry.
TrashIsLastContent ==
  \A p \in Path : trash[p] # NoNote =>
    /\ H!Latest(p) = NoNote
    /\ trash[p] = revs[p][Len(revs[p]) - 1].content

\* "Edits not yet in history would be lost by the overwrite - snapshot them
\* first" (RestoreNote, service.go:397): what a restore compared with and is now
\* to overwrite is in history.  (A second edit could come after the snapshot.)
EditsSnapshotted ==
  edits <= 1 /\ faults = 0 =>
    \A u \in User :
      LET p == req[u].path IN
        At(u, "truncate") /\ req[u].op = "restore" /\ disk[p] = seen[u] /\ seen[u] # NoNote
        => seen[u] \in H!Restorable(p)

\* What the index holds for a note nobody is changing differs from the disk only
\* when a failed write has left the note truncated, or a piece of it.
StaleOnlyWhenTruncated ==
  edits = 0 =>
    \A p \in Path : (\A u \in User : ~Changing(u, p)) =>
      index[p] = disk[p] \/ disk[p] \in Pieces

\* Every request gets its answer: no schedule of the locks starves one.
EveryRequestAnswered == \A u \in User : ~At(u, "idle") ~> At(u, "idle")

-----------------------------------------------------------------------------
(* The requests as callers see them (module NoteRegister): the instant a    *)
(* request takes effect is the truncation or removal of the file, or the    *)
(* comparison that refuses it.                                              *)

InWrite(u, p) == At(u, "write") /\ req[u].path = p

Value ==
  [p \in Path |-> IF \E u \in User : InWrite(u, p)
                 THEN Stored(CHOOSE u \in User : InWrite(u, p)) ELSE disk[p]]

Call ==
  [u \in User |-> IF req[u].op = "create"
                 THEN [req[u] EXCEPT !.path = Names[1]] ELSE req[u]]

Phase ==
  [u \in User |-> CASE pc[u] = "idle" -> "idle"
                   [] pc[u] \in {"write", "index", "unindex", "record"} -> "applied"
                   [] OTHER -> "pending"]

Register == INSTANCE NoteRegister WITH value <- Value, call <- Call, phase <- Phase

\* Until another program writes the vault, callers cannot tell the service from
\* one that runs each request at once.
ImplementsRegister ==
  Register!Init /\ [][edits' = 0 => Register!Next]_<<Value, Call, Phase, outcome>>
=============================================================================
