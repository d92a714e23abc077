---------------------------- MODULE NoteRegister ----------------------------
(***************************************************************************)
(* What NoteService promises its callers: each request takes effect at one *)
(* instant between its call and its answer, and the answer reports what    *)
(* happened at that instant.  A save that names the content it was based   *)
(* on is a compare-and-swap.                                               *)
(***************************************************************************)
EXTENDS Naturals, Sequences

CONSTANTS User, Path, Content, Pieces, NoNote, NoBase, Op, Names, Stamp(_, _, _)

VARIABLES value,     \* value[p]: the note at p, or NoNote
          call,      \* call[u]: the request u makes
          phase,     \* phase[u]: "idle", "pending" or "applied"
          outcome    \* outcome[u]: the answer to u's last request

regVars == <<value, call, phase, outcome>>

Request == [op: Op, path: Path, content: Content, base: Content \cup {NoBase}]

Init ==
  /\ value \in [Path -> Content \cup {NoNote}]
  /\ call \in [User -> Request]
  /\ phase = [u \in User |-> "idle"]
  /\ outcome = [u \in User |-> "none"]

Stored(u) ==
  IF call[u].op = "restore" THEN call[u].content
  ELSE Stamp(call[u].op, u, call[u].content)

Invoke(u) ==
  /\ phase[u] = "idle"
  /\ \E r \in Request : call' = [call EXCEPT ![u] = r]
  /\ phase' = [phase EXCEPT ![u] = "pending"]
  /\ outcome' = [outcome EXCEPT ![u] = "none"]
  /\ UNCHANGED value

Take(u, op) == phase[u] = "pending" /\ call[u].op = op

\* The request takes effect: p holds v from now on.
Apply(u, p, v) ==
  /\ value' = [value EXCEPT ![p] = v]
  /\ phase' = [phase EXCEPT ![u] = "applied"]
  /\ UNCHANGED <<call, outcome>>

\* The request ends with the given answer and changes no note.
Answer(u, o) ==
  /\ phase' = [phase EXCEPT ![u] = "idle"]
  /\ outcome' = [outcome EXCEPT ![u] = o]
  /\ UNCHANGED <<value, call>>

Unmatched(u) ==
  LET r == call[u] IN
    r.base # NoBase /\ value[r.path] # NoNote /\ value[r.path] # r.base

Save(u) == Take(u, "save") /\ ~Unmatched(u) /\ Apply(u, call[u].path, Stored(u))

Conflict(u) == Take(u, "save") /\ Unmatched(u) /\ Answer(u, "conflict")

\* A create takes the first of its names that no note has.
Create(u) ==
  /\ Take(u, "create")
  /\ \E k \in 1..Len(Names) :
       /\ value[Names[k]] = NoNote
       /\ \A j \in 1..(k - 1) : value[Names[j]] # NoNote
       /\ Apply(u, Names[k], Stored(u))

Delete(u) ==
  Take(u, "delete") /\ value[call[u].path] # NoNote /\ Apply(u, call[u].path, NoNote)

NotFound(u) ==
  Take(u, "delete") /\ value[call[u].path] = NoNote /\ Answer(u, "notfound")

Restore(u) ==
  /\ Take(u, "restore")
  /\ value[call[u].path] # call[u].content
  /\ Apply(u, call[u].path, call[u].content)

Unchanged(u) ==
  /\ Take(u, "restore")
  /\ value[call[u].path] = call[u].content
  /\ Answer(u, "unchanged")

Done(u) == phase[u] = "applied" /\ Answer(u, "ok")

Refuse(u) == phase[u] = "pending" /\ Answer(u, "error")

\* The disk gave up while the note was being written: what is left is a
\* piece of it, and the caller is told.
Spoil(u) ==
  /\ phase[u] = "applied"
  /\ call[u].op # "delete"
  /\ \E p \in IF call[u].op = "create" THEN {Names[k] : k \in 1..Len(Names)}
              ELSE {call[u].path} :
       \E piece \in Pieces : value' = [value EXCEPT ![p] = piece]
  /\ phase' = [phase EXCEPT ![u] = "idle"]
  /\ outcome' = [outcome EXCEPT ![u] = "error"]
  /\ UNCHANGED call

Next ==
  \E u \in User :
    \/ Invoke(u) \/ Save(u) \/ Conflict(u) \/ Create(u) \/ Delete(u)
    \/ NotFound(u) \/ Restore(u) \/ Unchanged(u) \/ Done(u) \/ Refuse(u) \/ Spoil(u)

Spec == Init /\ [][Next]_regVars
==============================================================================
