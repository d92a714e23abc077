--------------------------- MODULE MCNoteService ---------------------------
(* Instances of NoteService for TLC: two notes with the names CreateNote    *)
(* would give them, small contents, and two readings of the note rules.     *)
EXTENDS NoteService, TLC

CONSTANTS u1, u2, n1, n2, c1, c2, c3, piece

OneName == << n1 >>
TwoNames == << n1, n2 >>

\* trackAuthorship and autoFrontmatter off: contents are stored as sent.
AsSent(op, u, c) == c

\* trackAuthorship on: SaveNote upserts fields, so what is stored is not what
\* was sent, and a note that carries the fields keeps its text.
Tracked(op, u, c) == IF op = "save" /\ c = c1 THEN c2 ELSE c

Users == Permutations({u1, u2})

\* The vault starts without the note, with an empty one or with a whole one: c2
\* would be the same with the two contents exchanged.
Started == Init /\ disk \in [Path -> {NoNote, Empty, c1}]
StartedSpec == Started /\ [][Next]_vars /\ Fairness
=============================================================================
