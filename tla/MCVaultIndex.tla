---------------------------- MODULE MCVaultIndex ----------------------------
(* Two notes of one name in two folders, and an attachment.                *)
EXTENDS VaultIndex, TLC

MCSymmetry == Permutations(Worker)

MCNote == {"a/x.md", "b/x.md"}
MCFile == {"a/x.png"}
MCName == {"x", "x.md", "x.png", "x2", "a/x", "b/x.md"}
MCNameKey == [p \in Path |-> "x"]
MCBase == [p \in Path |-> IF p \in File THEN "x.png" ELSE "x.md"]
MCRank == [p \in Path |-> CASE p = "a/x.md" -> 1 [] p = "a/x.png" -> 2 [] OTHER -> 3]

\* The first content links by name, by folder, to the attachment and to a path
\* with its extension, the second has an alias and a longer word.
Named == [path |-> "x", md |-> "x.md", key |-> "x", whole |-> "x", folder |-> FALSE, fits |-> {}]
InFolder == [path |-> "a/x", md |-> "a/x.md", key |-> "x", whole |-> "a/x",
             folder |-> TRUE, fits |-> {"a/x.md"}]
Exact == [path |-> "b/x.md", md |-> "b/x.md.md", key |-> "x", whole |-> "b/x.md",
          folder |-> TRUE, fits |-> {"b/x.md"}]
Embedded == [path |-> "x.png", md |-> "x.png.md", key |-> "x.png", whole |-> "x.png",
             folder |-> FALSE, fits |-> {}]
Aliased == [path |-> "x2", md |-> "x2.md", key |-> "x2", whole |-> "x2", folder |-> FALSE, fits |-> {}]
MCTarget == {Named, InFolder, Exact, Embedded, Aliased}
MCLinks == [c \in Content |-> IF c = "c1" THEN {Named, InFolder, Exact, Embedded} ELSE {Aliased}]
MCAliases == [c \in Content |-> IF c = "c1" THEN {} ELSE {"x2"}]

MCTf == [c \in Content |-> [t \in Token |-> IF c = "c1" THEN IF t = "alp" THEN 1 ELSE 0
                                           ELSE IF t = "alpha" THEN 6 ELSE 1]]
MCExtends == [t \in Token |-> IF t = "alp" THEN {"alpha"} ELSE {}]

\* By a path, by a tag, by nothing, by a prefix, and by a word and a prefix.
Ask(terms, filtered, paths, ofDocs) ==
  [terms |-> terms, filtered |-> filtered, paths |-> paths, docs |-> ofDocs]
MCQuery == {Ask(<<>>, TRUE, {"b/x.md"}, Content), Ask(<<>>, TRUE, Note, {"c2"}),
            Ask(<<>>, FALSE, Note, Content), Ask(<<"alp">>, FALSE, Note, Content),
            Ask(<<"alp", "alpha">>, FALSE, Note, Content)}
=============================================================================
