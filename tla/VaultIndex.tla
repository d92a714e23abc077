----------------------------- MODULE VaultIndex -----------------------------
(***************************************************************************)
(* packages/links/index.go, packages/search/index.go and the metadata of   *)
(* packages/core/service.go, with the jobs that keep them: indexNote and   *)
(* the removal of a note update one after the other, each under its own    *)
(* mutex, for requests and for the watcher at once.                        *)
(***************************************************************************)
EXTENDS Naturals, Sequences, FiniteSets, SequencesExt

CONSTANTS
  Worker,            \* a request and the watcher
  Note, File,        \* paths of notes and of attachments
  NoPath, NoDoc,
  Name, NameKey, Base, \* lower-case names: of a path without and with extension
  Rank,              \* Rank[p]: the place of a path in alphabetical order
  Content, Token,
  Aliases, Links,    \* Aliases[c], Links[c]: what the parsers find in content c
  Tf,                \* Tf[c][t]: occurrences in the body, and five per title, tag or alias
  Extends,           \* Extends[t]: longer tokens that begin with t, if t is long enough
  Target, Query,     \* what links and users ask for, see Resolve and Scores
  Limit,             \* how many results users ask for
  Overfetch          \* how many times the limit is asked of the index (4)

Path == Note \cup File

ASSUME VaultIndexAssumption ==
  /\ Note \cap File = {} /\ NoPath \notin Path /\ NoDoc \notin Content
  /\ NameKey \in [Path -> Name] /\ Base \in [Path -> Name] /\ Rank \in [Path -> Nat]
  /\ \A p, q \in Path : Rank[p] = Rank[q] => p = q
  /\ Aliases \in [Content -> SUBSET Name] /\ Links \in [Content -> SUBSET Target]
  /\ \A t \in Target : t.key \in Name /\ t.whole \in Name
  /\ Tf \in [Content -> [Token -> Nat]] /\ Extends \in [Token -> SUBSET Token]
  /\ \A c \in Content : IsFiniteSet({t \in Token : Tf[c][t] > 0})
  /\ \A q \in Query : q.terms \in Seq(Token) /\ q.filtered \in BOOLEAN
  /\ Limit \subseteq Nat \ {0} /\ Overfetch \in Nat \ {0}

VARIABLES
  files, byName, byAlias, outgoing,  \* links.Index
  docs, inverted,                    \* search.Index
  metas,                             \* the metadata of each note
  job,                               \* job[w]: what w is at
  latest,     \* latest[k]: the note or file that was registered under k last
  crossed     \* the paths two jobs have been at since one was alone

links == <<files, byName, byAlias, outgoing>>
search == <<docs, inverted>>
vars == <<links, search, metas, job, latest, crossed>>

Idle == [at |-> "idle", path |-> NoPath, to |-> NoDoc]

Init ==
  /\ files = {} /\ outgoing = [p \in Note |-> {}]
  /\ byName = [k \in Name |-> NoPath] /\ byAlias = [k \in Name |-> NoPath]
  /\ docs = [p \in Note |-> NoDoc] /\ inverted = [t \in Token |-> [p \in Note |-> 0]]
  /\ metas = [p \in Note |-> NoDoc]
  /\ job = [w \in Worker |-> Idle]
  /\ latest = [k \in Name |-> NoPath] /\ crossed = {}

-----------------------------------------------------------------------------
(* What the indexes answer                                                 *)

\* A target as a path, the same with .md behind it, the name at the end of it,
\* the whole in lower case, and, when it has a folder, the paths that end in it.
Resolve(t) ==
  LET named == byName[t.key] IN
  CASE t.path \in files -> t.path
    [] t.path \notin files /\ t.md \in files -> t.md
    [] {t.path, t.md} \cap files = {} /\ named # NoPath /\ (t.folder => named \in t.fits) -> named
    [] OTHER -> IF byName[t.whole] # NoPath THEN byName[t.whole] ELSE byAlias[t.whole]

Backlinks(p) == {src \in Note \ {p} : \E t \in outgoing[src] : Resolve(t) = p}

BrokenLinks(p) == {t \in outgoing[p] : Resolve(t) = NoPath}

\* termScores, in halves: a token counts its frequency, a longer one half.
TermScore(term, prefix, p) ==
  LET longer == {t \in Extends[term] : inverted[t][p] > 0} IN
  2 * inverted[term][p] + (IF prefix THEN SumFunction([t \in longer |-> inverted[t][p]]) ELSE 0)

\* tag:, prop: and path: filters, as what they let through.
Passes(q, p) == p \in q.paths /\ docs[p] \in q.docs

\* Every term must match, the last one as a prefix; without terms, all that
\* pass the filters, and nothing when there is no filter either.
Scores(q) ==
  LET n == Len(q.terms)
      hits == IF n = 0 THEN {p \in Note : docs[p] # NoDoc /\ q.filtered}
              ELSE {p \in Note : \A i \in 1..n : TermScore(q.terms[i], i = n, p) > 0}
      score(p) == IF n = 0 THEN 1 ELSE SumFunction([i \in 1..n |-> TermScore(q.terms[i], i = n, p)])
  IN [p \in {h \in hits : Passes(q, h)} |-> score(p)]

\* The best first, in alphabetical order when they are as good.
Before(scores, p, q) ==
  scores[p] > scores[q] \/ (scores[p] = scores[q] /\ Rank[p] < Rank[q])

Ranked(scores) ==
  CHOOSE s \in [1..Cardinality(DOMAIN scores) -> DOMAIN scores] :
    \A i, j \in DOMAIN s : i < j => Before(scores, s[i], s[j])

FirstOf(s, n) == SubSeq(s, 1, IF Len(s) < n THEN Len(s) ELSE n)

\* Index.Search
IndexSearch(q, limit) == FirstOf(Ranked(Scores(q)), limit)

\* The caller's access is applied to what the index returns, until there are
\* enough results.
Readable(results, limit, allowed) ==
  FoldLeft(LAMBDA out, p : IF p \in allowed /\ Len(out) < limit THEN Append(out, p) ELSE out,
           << >>, results)

\* A slip: no more is asked for than wanted.
ServiceSearchExactly(q, limit, allowed) == Readable(IndexSearch(q, limit), limit, allowed)

\* NoteService.Search
ServiceSearch(q, limit, allowed) == Readable(IndexSearch(q, limit * Overfetch), limit, allowed)

-----------------------------------------------------------------------------
(* The jobs                                                                *)

Without(index, p) == [k \in Name |-> IF index[k] = p THEN NoPath ELSE index[k]]

\* A slip: the name with the extension stays.
ForgetNameKey(p) ==
  [byName EXCEPT ![NameKey[p]] = IF @ = p THEN NoPath ELSE @]

\* removeLocked: both names, if they are this path's.
Forget(p) ==
  [k \in Name |-> IF k \in {NameKey[p], Base[p]} /\ byName[k] = p THEN NoPath ELSE byName[k]]

\* Index.Update
LinksUpdate(p, c) ==
  /\ files' = files \cup {p}
  /\ byName' = [Forget(p) EXCEPT ![NameKey[p]] = p]
  /\ byAlias' = [k \in Name |-> IF k \in Aliases[c] THEN p ELSE Without(byAlias, p)[k]]
  /\ outgoing' = [outgoing EXCEPT ![p] = Links[c]]
  /\ latest' = [latest EXCEPT ![NameKey[p]] = p]

LinksRemove(p) ==
  /\ files' = files \ {p}
  /\ byName' = Forget(p)
  /\ byAlias' = Without(byAlias, p)
  /\ outgoing' = [q \in Note |-> IF q = p THEN {} ELSE outgoing[q]]
  /\ UNCHANGED latest

RegisterFile(p) ==
  /\ files' = files \cup {p}
  /\ byName' = [byName EXCEPT ![Base[p]] = p]
  /\ latest' = [latest EXCEPT ![Base[p]] = p]
  /\ UNCHANGED <<byAlias, outgoing>>

\* A slip: the postings of the old text stay.
SearchSetKeepsPostings(p, c) ==
  /\ docs' = [docs EXCEPT ![p] = c]
  /\ inverted' = [t \in Token |-> [inverted[t] EXCEPT ![p] =
                    IF c # NoDoc /\ Tf[c][t] > 0 THEN Tf[c][t] ELSE @]]

\* Index.Index and Index.Remove: what was there goes first.
SearchSet(p, c) ==
  /\ docs' = [docs EXCEPT ![p] = c]
  /\ inverted' = [t \in Token |-> [inverted[t] EXCEPT ![p] =
                    IF c # NoDoc THEN Tf[c][t] ELSE IF docs[p] = NoDoc THEN @ ELSE 0]]

\* A note was written, or read by HandleFSEvent, or is gone (to = NoDoc).
Start(w, p, to) ==
  /\ job[w] = Idle
  /\ job' = [job EXCEPT ![w] = [at |-> "links", path |-> p, to |-> to]]
  /\ crossed' = IF \E v \in Worker : job[v].path = p THEN crossed \cup {p} ELSE crossed \ {p}
  /\ UNCHANGED <<links, search, metas, latest>>

\* An attachment has been written, or is gone; it has no document or metadata.
Attach(w, p) ==
  /\ job[w] = Idle
  /\ RegisterFile(p) \/ LinksRemove(p)
  /\ UNCHANGED <<search, metas, job, crossed>>

UpdateLinks(w) ==
  LET j == job[w] IN
  /\ j.at = "links"
  /\ IF j.to # NoDoc THEN LinksUpdate(j.path, j.to) ELSE LinksRemove(j.path)
  /\ job' = [job EXCEPT ![w].at = "search"]
  /\ UNCHANGED <<search, metas, crossed>>

UpdateSearch(w) ==
  LET j == job[w] IN
  /\ j.at = "search"
  /\ SearchSet(j.path, j.to)
  /\ job' = [job EXCEPT ![w].at = "meta"]
  /\ UNCHANGED <<links, metas, latest, crossed>>

UpdateMeta(w) ==
  LET j == job[w] IN
  /\ j.at = "meta"
  /\ metas' = [metas EXCEPT ![j.path] = j.to]
  /\ job' = [job EXCEPT ![w] = Idle]
  /\ UNCHANGED <<links, search, latest, crossed>>

Next ==
  \E w \in Worker :
    \/ \E p \in Note, to \in Content \cup {NoDoc} : Start(w, p, to)
    \/ \E p \in File : Attach(w, p)
    \/ UpdateLinks(w) \/ UpdateSearch(w) \/ UpdateMeta(w)

Spec == Init /\ [][Next]_vars

-----------------------------------------------------------------------------
(* Properties                                                              *)

\* The posting lists are those of the documents, whatever they replaced; and
\* links, documents and metadata of a note nobody works at are of one content,
\* unless the last jobs at it crossed: GetNote's backlinks, the search and the
\* list of notes then tell one story.
IndexesAgree ==
  \A p \in Note :
    /\ \A t \in Token : inverted[t][p] = IF docs[p] = NoDoc THEN 0 ELSE Tf[docs[p]][t]
    /\ (p \notin crossed /\ \A w \in Worker : job[w].path # p) =>
         /\ metas[p] = docs[p] /\ (p \in files <=> docs[p] # NoDoc)
         /\ outgoing[p] = IF docs[p] = NoDoc THEN {} ELSE Links[docs[p]]

\* A link that is not broken leads to what exists, nothing else has backlinks,
\* and a name leads to the note or attachment that was registered under it last,
\* as long as that exists, however its namesakes come and go. (When it goes, the
\* namesakes are not found by name any more: links/index.go:73.)
LinksLive ==
  /\ \A src \in Note : \A t \in outgoing[src] \ BrokenLinks(src) : Resolve(t) \in files
  /\ \A p \in Path \ files : Backlinks(p) = {}
  /\ \A k \in Name : latest[k] \in files => byName[k] = latest[k]

\* What a query asks for, of the documents: an empty one asks for nothing.
Wanted(q) ==
  {p \in q.paths \cap Note : docs[p] # NoDoc /\ docs[p] \in q.docs /\ (q.filtered \/ q.terms # << >>) /\
     \A i \in DOMAIN q.terms : \E t \in {q.terms[i]} \cup (IF i = Len(q.terms) THEN Extends[q.terms[i]] ELSE {}) :
       Tf[docs[p]][t] > 0}

\* A search returns only notes that match and the caller may read, and all of
\* them, unless the limit is reached, or so many match that the index was cut
\* short before the caller's access was applied.
SearchComplete ==
  \A q \in Query, limit \in Limit, allowed \in SUBSET Note :
    LET found == ServiceSearch(q, limit, allowed) IN
    /\ Range(found) \subseteq Wanted(q) \cap allowed
    /\ \/ Range(found) = Wanted(q) \cap allowed
       \/ Len(found) = limit
       \/ Cardinality(Wanted(q)) > Overfetch * limit
=============================================================================
