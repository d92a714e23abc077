------------------------------- MODULE History -------------------------------
(***************************************************************************)
(* What the note service may expect of a history backend (the History      *)
(* interface of packages/core/history.go): per note, the revisions that    *)
(* changed it and, for a deleted note, the content the trash can bring     *)
(* back.  One operator per method; every method is atomic here, as the     *)
(* backend's mutex makes it.  Module GitHistory models the git backend     *)
(* that implements this interface.                                         *)
(***************************************************************************)
EXTENDS Naturals, Sequences

CONSTANTS Path,      \* vault-relative note paths
          Content,   \* contents a note may have
          NoNote,    \* the value of a path that holds no note
          Actor,     \* names that may sign a revision
          Local      \* the one that signs the first snapshot

VARIABLES revs,      \* revs[p]: the revisions that changed p, oldest first
          trash      \* trash[p]: what restoring p from the trash brings back

Action == {"init", "save", "create", "delete", "restore"}

Revision == [actor: Actor, action: Action, content: Content \cup {NoNote}]

HistoryTypeOK ==
  /\ revs \in [Path -> Seq(Revision)]
  /\ trash \in [Path -> Content \cup {NoNote}]

\* What the newest revision holds for p.
Latest(p) == IF revs[p] = << >> THEN NoNote ELSE revs[p][Len(revs[p])].content

\* A slip: the revision that deleted the note can be restored too.
RestorableAny(p) == {revs[p][k].content : k \in 1..Len(revs[p])}

\* The revisions a caller can bring a note back to.
Restorable(p) == {revs[p][k].content : k \in 1..Len(revs[p])} \ {NoNote}

\* Revisions of a vault whose notes are committed by the first snapshot.
Snapshot(notes) ==
  [p \in Path |-> IF notes[p] = NoNote THEN << >>
                  ELSE << [actor |-> Local, action |-> "init", content |-> notes[p]] >>]

\* A slip: the trash points at the delete commit, not at its parent.
RecordNamesDeletion(a, p, action, now) ==
  IF now = Latest(p)
  THEN UNCHANGED <<revs, trash>>
  ELSE /\ revs' = [revs EXCEPT ![p] = Append(@, [actor |-> a, action |-> action,
                                                content |-> now])]
       /\ trash' = [trash EXCEPT ![p] = NoNote]

\* A slip: a note that comes back keeps its trash entry.
RecordKeepsEntry(a, p, action, now) ==
  IF now = Latest(p)
  THEN UNCHANGED <<revs, trash>>
  ELSE /\ revs' = [revs EXCEPT ![p] = Append(@, [actor |-> a, action |-> action,
                                                content |-> now])]
       /\ trash' = IF now = NoNote THEN [trash EXCEPT ![p] = Latest(p)] ELSE trash

\* Record captures what the disk holds for p (now); nothing when it is what
\* the newest revision holds already.  A deletion enters the trash, any other
\* change drops the entry.
Record(a, p, action, now) ==
  IF now = Latest(p)
  THEN UNCHANGED <<revs, trash>>
  ELSE /\ revs' = [revs EXCEPT ![p] = Append(@, [actor |-> a, action |-> action,
                                                content |-> now])]
       /\ trash' = [trash EXCEPT ![p] = IF now = NoNote THEN Latest(p) ELSE NoNote]

\* Deleted lists the trash, dropping the entries of notes that exist again.
Deleted(disk) ==
  [p \in Path |-> IF disk[p] = NoNote THEN trash[p] ELSE NoNote]

\* PurgeDeleted takes paths out of the trash; their revisions stay.
PurgeDeleted(paths) ==
  /\ trash' = [p \in Path |-> IF p \in paths THEN NoNote ELSE trash[p]]
  /\ UNCHANGED revs

-----------------------------------------------------------------------------
(* The whole interface as a specification of its own.                      *)

NoRevisions == [p \in Path |-> << >>]

HInit == revs = NoRevisions /\ trash = [p \in Path |-> NoNote]

Vault == [Path -> Content \cup {NoNote}]

\* The backend is opened on a vault it has not seen before.
Begin(notes) == revs = NoRevisions /\ revs' = Snapshot(notes) /\ UNCHANGED trash

\* The steps a caller can see while the vault is disk and users purge only the
\* paths of purgeable.
HNext(disk, purgeable) ==
  \/ \E notes \in Vault : Begin(notes)
  \/ \E a \in Actor, p \in Path, action \in Action, now \in Content \cup {NoNote} :
       Record(a, p, action, now)
  \/ trash' = Deleted(disk) /\ UNCHANGED revs
  \/ \E paths \in SUBSET purgeable : PurgeDeleted(paths)
=============================================================================
