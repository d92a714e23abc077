-------------------------- MODULE VaultIndexProofs --------------------------
(***************************************************************************)
(* Proofs about VaultIndex for any notes, attachments, names, contents,    *)
(* queries and number of jobs at once: the three indexes of a note agree,  *)
(* links lead to what exists, and a search returns what it should.         *)
(***************************************************************************)
EXTENDS VaultIndex, SequenceTheorems, FiniteSetTheorems, TLAPS

Doc == Content \cup {NoDoc}

Job == [at: {"links", "search", "meta"}, path: Note, to: Doc] \cup {Idle}

TypeOK ==
  /\ files \subseteq Path
  /\ byName \in [Name -> Path \cup {NoPath}] /\ byAlias \in [Name -> Path \cup {NoPath}]
  /\ outgoing \in [Note -> SUBSET Target]
  /\ docs \in [Note -> Doc] /\ metas \in [Note -> Doc]
  /\ inverted \in [Token -> [Note -> Nat]]
  /\ job \in [Worker -> Job]
  /\ latest \in [Name -> Path \cup {NoPath}]

\* A path has its names, and the mark of an absent one is none.
LEMMA Names ==
  ASSUME NEW p \in Path
  PROVE  p # NoPath /\ NameKey[p] \in Name /\ Base[p] \in Name
BY VaultIndexAssumption DEF VaultIndexAssumption

\* What a worker is at, in the right types.
LEMMA JobAt ==
  ASSUME TypeOK, NEW w \in Worker
  PROVE  /\ job[w].at \in {"idle", "links", "search", "meta"}
         /\ job[w].at # "idle" => job[w].path \in Note /\ job[w].to \in Doc
         /\ job[w].at = "idle" <=> job[w] = Idle
         /\ job[w] = Idle => job[w].path = NoPath
<1>1. job[w] \in [at: {"links", "search", "meta"}, path: Note, to: Doc] \/ job[w] = Idle
  BY DEF TypeOK, Job
<1>. QED
  BY <1>1 DEF Idle

-----------------------------------------------------------------------------
(* The link index *)

\* What a change of the link index does: Index.Update, Remove or RegisterFile.
LinksChange(p) ==
  \/ p \in Note /\ \E c \in Content : LinksUpdate(p, c)
  \/ p \in File /\ RegisterFile(p)
  \/ LinksRemove(p)

\* Every step leaves the link index alone or does one of these.
LEMMA LinksMove ==
  ASSUME TypeOK, [Next]_vars
  PROVE  UNCHANGED <<links, latest>> \/ \E p \in Path : LinksChange(p)
<1>1. ASSUME NEW w \in Worker, UpdateLinks(w)
      PROVE  \E p \in Path : LinksChange(p)
  <2>1. job[w].path \in Note /\ job[w].to \in Doc
    BY <1>1, JobAt DEF UpdateLinks
  <2>2. LinksChange(job[w].path)
    BY <1>1, <2>1 DEF UpdateLinks, LinksChange, Doc
  <2>. QED BY <2>1, <2>2 DEF Path
<1>2. ASSUME NEW w \in Worker, NEW p \in File, Attach(w, p)
      PROVE  \E q \in Path : LinksChange(q)
  BY <1>2 DEF Attach, LinksChange, Path
<1>3. ASSUME NEW w \in Worker, NEW p \in Note, NEW to \in Doc, Start(w, p, to)
      PROVE  UNCHANGED <<links, latest>>
  BY <1>3 DEF Start
<1>4. ASSUME NEW w \in Worker, UpdateSearch(w) \/ UpdateMeta(w)
      PROVE  UNCHANGED <<links, latest>>
  BY <1>4 DEF UpdateSearch, UpdateMeta
<1>. QED
  BY <1>1, <1>2, <1>3, <1>4 DEF Next, vars, Doc

\* Names and aliases lead to what exists; a path is found under its own names
\* only; the one registered last is found while it exists.
LinksOK ==
  /\ \A k \in Name : byName[k] # NoPath =>
       byName[k] \in files /\ k \in {NameKey[byName[k]], Base[byName[k]]}
  /\ \A k \in Name : byAlias[k] # NoPath => byAlias[k] \in files
  /\ \A k \in Name : latest[k] # NoPath =>
       k = IF latest[k] \in Note THEN NameKey[latest[k]] ELSE Base[latest[k]]
  /\ \A k \in Name : latest[k] \in files => byName[k] = latest[k]

LinksType ==
  /\ files \subseteq Path
  /\ byName \in [Name -> Path \cup {NoPath}] /\ byAlias \in [Name -> Path \cup {NoPath}]
  /\ outgoing \in [Note -> SUBSET Target]
  /\ latest \in [Name -> Path \cup {NoPath}]

LEMMA LinksStep ==
  ASSUME TypeOK, LinksOK, NEW p \in Path, LinksChange(p)
  PROVE  LinksType' /\ LinksOK'
<1>a. /\ files \subseteq Path /\ outgoing \in [Note -> SUBSET Target]
      /\ byName \in [Name -> Path \cup {NoPath}] /\ byAlias \in [Name -> Path \cup {NoPath}]
      /\ latest \in [Name -> Path \cup {NoPath}]
  BY DEF TypeOK
<1>b. p # NoPath /\ NameKey[p] \in Name /\ Base[p] \in Name /\ NoPath \notin Path
  BY Names, VaultIndexAssumption DEF VaultIndexAssumption
<1>c. Links \in [Content -> SUBSET Target] /\ Note \cap File = {} /\ Path = Note \cup File
  BY VaultIndexAssumption DEF VaultIndexAssumption, Path
<1>1. CASE p \in Note /\ \E c \in Content : LinksUpdate(p, c)
  <2>1. PICK c \in Content : LinksUpdate(p, c)
    BY <1>1
  <2>2. /\ files' = files \cup {p}
        /\ byName' = [k \in Name |-> IF k = NameKey[p] THEN p
                       ELSE IF k = Base[p] /\ byName[k] = p THEN NoPath ELSE byName[k]]
        /\ byAlias' = [k \in Name |-> IF k \in Aliases[c] THEN p
                       ELSE IF byAlias[k] = p THEN NoPath ELSE byAlias[k]]
        /\ latest' = [k \in Name |-> IF k = NameKey[p] THEN p ELSE latest[k]]
    BY <1>a, <2>1 DEF LinksUpdate, Forget, Without
  <2>3. outgoing' \in [Note -> SUBSET Target]
    BY <1>a, <1>c, <2>1 DEF LinksUpdate
  <2>4. LinksType'
    BY <1>a, <2>2, <2>3 DEF LinksType
  <2>5. LinksOK'
    BY <1>1, <1>a, <1>b, <2>2 DEF LinksOK
  <2>. QED BY <2>4, <2>5
<1>2. CASE p \in File /\ RegisterFile(p)
  <2>1. /\ files' = files \cup {p}
        /\ byName' = [k \in Name |-> IF k = Base[p] THEN p ELSE byName[k]]
        /\ latest' = [k \in Name |-> IF k = Base[p] THEN p ELSE latest[k]]
        /\ byAlias' = byAlias /\ outgoing' = outgoing
    BY <1>a, <1>2 DEF RegisterFile
  <2>2. LinksType'
    BY <1>a, <2>1 DEF LinksType
  <2>3. LinksOK'
    BY <1>2, <1>a, <1>b, <1>c, <2>1 DEF LinksOK
  <2>. QED BY <2>2, <2>3
<1>3. CASE LinksRemove(p)
  <2>1. /\ files' = files \ {p}
        /\ byName' = [k \in Name |-> IF k \in {NameKey[p], Base[p]} /\ byName[k] = p
                                     THEN NoPath ELSE byName[k]]
        /\ byAlias' = [k \in Name |-> IF byAlias[k] = p THEN NoPath ELSE byAlias[k]]
        /\ latest' = latest
    BY <1>3 DEF LinksRemove, Forget, Without
  <2>2. outgoing' \in [Note -> SUBSET Target]
    BY <1>3, <1>a DEF LinksRemove
  <2>3. LinksType'
    BY <1>a, <2>1, <2>2 DEF LinksType
  <2>4. LinksOK'
    BY <1>a, <1>b, <2>1 DEF LinksOK
  <2>. QED BY <2>3, <2>4
<1>. QED
  BY <1>1, <1>2, <1>3 DEF LinksChange

\* A target that is resolved is resolved to something that exists.
LEMMA ResolvesToFiles ==
  ASSUME TypeOK, LinksOK, NEW t \in Target, Resolve(t) # NoPath
  PROVE  Resolve(t) \in files
<1>1. t.key \in Name /\ t.whole \in Name
  BY VaultIndexAssumption DEF VaultIndexAssumption
<1>2. byName[t.key] # NoPath => byName[t.key] \in files
  BY <1>1 DEF LinksOK
<1>3. /\ byName[t.whole] # NoPath => byName[t.whole] \in files
      /\ byAlias[t.whole] # NoPath => byAlias[t.whole] \in files
  BY <1>1 DEF LinksOK
<1>. QED
  BY <1>2, <1>3 DEF Resolve

-----------------------------------------------------------------------------
(* The three indexes of a note *)

TfOf(d, t) == IF d = NoDoc THEN 0 ELSE Tf[d][t]
LinksOf(d) == IF d = NoDoc THEN {} ELSE Links[d]

LinksAgree(p, d) == (p \in files <=> d # NoDoc) /\ outgoing[p] = LinksOf(d)

\* The posting lists follow the documents.
PostingsOK == \A p \in Note, t \in Token : inverted[t][p] = TfOf(docs[p], t)

\* One job at a note at a time, unless the note is crossed.
Alone == \A v, w \in Worker : job[v].path \in Note \ crossed /\ job[v].path = job[w].path => v = w

\* A job that runs alone has brought the first indexes to its content, and the
\* last one left all three with one content.
JobsOK ==
  \A p \in Note \ crossed :
    /\ \A w \in Worker : job[w].path = p =>
         /\ job[w].at \in {"search", "meta"} => LinksAgree(p, job[w].to)
         /\ job[w].at = "meta" => docs[p] = job[w].to
    /\ (\A w \in Worker : job[w].path # p) => LinksAgree(p, docs[p]) /\ metas[p] = docs[p]

\* What one change of the link index leaves of the other notes.
LEMMA OtherLinksStay ==
  ASSUME TypeOK, NEW p \in Path, LinksChange(p), NEW q \in Note, q # p, NEW d \in Doc
  PROVE  LinksAgree(q, d)' <=> LinksAgree(q, d)
<1>1. CASE p \in Note /\ \E c \in Content : LinksUpdate(p, c)
  BY <1>1 DEF LinksUpdate, LinksAgree, TypeOK
<1>2. CASE RegisterFile(p)
  BY <1>2 DEF RegisterFile, LinksAgree
<1>3. CASE LinksRemove(p)
  BY <1>3 DEF LinksRemove, LinksAgree
<1>. QED
  BY <1>1, <1>2, <1>3 DEF LinksChange

\* What the link job of a note leaves of it.
LEMMA LinksUpdated ==
  ASSUME TypeOK, NEW w \in Worker, UpdateLinks(w),
         NEW p \in Note, NEW d \in Doc, job[w].path = p, job[w].to = d
  PROVE  LinksAgree(p, d)' /\ LinksChange(p)
<1>1. CASE d # NoDoc
  <2>1. LinksUpdate(p, d)
    BY <1>1 DEF UpdateLinks
  <2>2. d \in Content
    BY <1>1 DEF Doc
  <2>3. p \in files' /\ outgoing'[p] = Links[d]
    BY <2>1 DEF LinksUpdate, TypeOK
  <2>. QED BY <1>1, <2>1, <2>2, <2>3 DEF LinksAgree, LinksOf, LinksChange
<1>2. CASE d = NoDoc
  <2>1. LinksRemove(p)
    BY <1>2 DEF UpdateLinks
  <2>2. p \notin files' /\ outgoing'[p] = {}
    BY <2>1 DEF LinksRemove
  <2>. QED BY <1>2, <2>1, <2>2 DEF LinksAgree, LinksOf, LinksChange
<1>. QED
  BY <1>1, <1>2

LEMMA TypeStep ==
  ASSUME TypeOK, LinksOK, PostingsOK, [Next]_vars
  PROVE  TypeOK' /\ LinksOK' /\ PostingsOK'
<1>a. Tf \in [Content -> [Token -> Nat]] /\ NoDoc \in Doc /\ NoDoc \notin Content
  BY VaultIndexAssumption DEF VaultIndexAssumption, Doc
<1>1. LinksType' /\ LinksOK'
  <2>1. CASE UNCHANGED <<links, latest>>
    BY <2>1 DEF TypeOK, LinksType, LinksOK, links
  <2>2. CASE \E p \in Path : LinksChange(p)
    BY <2>2, LinksStep
  <2>. QED BY <2>1, <2>2, LinksMove
<1>2. job' \in [Worker -> Job]
  <2>1. ASSUME NEW w \in Worker, NEW p \in Note, NEW to \in Doc, Start(w, p, to)
        PROVE  job' \in [Worker -> Job]
    BY <2>1 DEF Start, TypeOK, Job
  <2>2. ASSUME NEW w \in Worker, UpdateLinks(w) \/ UpdateSearch(w)
        PROVE  job' \in [Worker -> Job]
    <3>1. job[w].at \in {"links", "search"}
      BY <2>2 DEF UpdateLinks, UpdateSearch
    <3>2. job[w] \in [at: {"links", "search", "meta"}, path: Note, to: Doc]
      BY <3>1 DEF TypeOK, Job, Idle
    <3>3. PICK a \in {"search", "meta"} : job' = [job EXCEPT ![w] = [job[w] EXCEPT !.at = a]]
      BY <2>2 DEF UpdateLinks, UpdateSearch
    <3>4. [job[w] EXCEPT !.at = a] \in Job
      BY <3>2 DEF Job
    <3>. QED BY <3>3, <3>4 DEF TypeOK
  <2>3. ASSUME NEW w \in Worker, UpdateMeta(w)
        PROVE  job' \in [Worker -> Job]
    BY <2>3 DEF UpdateMeta, TypeOK, Job
  <2>4. ASSUME NEW w \in Worker, NEW p \in File, Attach(w, p)
        PROVE  job' \in [Worker -> Job]
    BY <2>4 DEF Attach, TypeOK
  <2>. QED BY <2>1, <2>2, <2>3, <2>4 DEF Next, vars, Doc, TypeOK
<1>3. /\ docs' \in [Note -> Doc] /\ metas' \in [Note -> Doc]
      /\ inverted' \in [Token -> [Note -> Nat]] /\ PostingsOK'
  <2>1. CASE UNCHANGED <<search, metas>>
    BY <2>1 DEF TypeOK, PostingsOK, search
  <2>2. ASSUME NEW w \in Worker, UpdateSearch(w)
        PROVE  /\ docs' \in [Note -> Doc] /\ metas' \in [Note -> Doc]
               /\ inverted' \in [Token -> [Note -> Nat]] /\ PostingsOK'
    <3>. DEFINE p == job[w].path
                d == job[w].to
    <3>1. p \in Note /\ d \in Doc
      BY <2>2, JobAt DEF UpdateSearch
    <3>2. docs' = [docs EXCEPT ![p] = d] /\ metas' = metas
      BY <2>2 DEF UpdateSearch, SearchSet
    <3>3. docs' \in [Note -> Doc] /\ metas' \in [Note -> Doc]
      BY <3>1, <3>2 DEF TypeOK
    <3>4. inverted' = [t \in Token |-> [inverted[t] EXCEPT ![p] =
                         IF d # NoDoc THEN Tf[d][t] ELSE IF docs[p] = NoDoc THEN @ ELSE 0]]
      BY <2>2 DEF UpdateSearch, SearchSet
    <3>. HIDE DEF p, d
    <3>5. \A t \in Token : inverted[t] \in [Note -> Nat]
      BY DEF TypeOK
    <3>6. ASSUME NEW t \in Token
          PROVE  inverted'[t] = [inverted[t] EXCEPT ![p] = TfOf(d, t)]
      <4>1. docs[p] = NoDoc => inverted[t][p] = 0
        BY <3>1 DEF PostingsOK, TfOf
      <4>. QED BY <3>1, <3>4, <3>5, <4>1 DEF TfOf
    <3>7. \A t \in Token : TfOf(d, t) \in Nat
      BY <1>a, <3>1 DEF TfOf, Doc
    <3>8. inverted' \in [Token -> [Note -> Nat]]
      <4>1. \A t \in Token : inverted'[t] \in [Note -> Nat]
        <5>. SUFFICES ASSUME NEW t \in Token PROVE inverted'[t] \in [Note -> Nat]
          OBVIOUS
        <5>1. inverted[t] \in [Note -> Nat] /\ TfOf(d, t) \in Nat
          BY <3>5, <3>7
        <5>2. [inverted[t] EXCEPT ![p] = TfOf(d, t)] \in [Note -> Nat]
          BY <3>1, <5>1
        <5>. QED BY <3>6, <5>2
      <4>. QED BY <3>4, <4>1
    <3>9. PostingsOK'
      <4>. SUFFICES ASSUME NEW q \in Note, NEW t \in Token
           PROVE  inverted'[t][q] = TfOf(docs'[q], t)
        BY DEF PostingsOK, TfOf
      <4>1. inverted'[t][q] = IF q = p THEN TfOf(d, t) ELSE inverted[t][q]
        BY <3>1, <3>5, <3>6
      <4>2. docs'[q] = IF q = p THEN d ELSE docs[q]
        BY <3>1, <3>2 DEF TypeOK
      <4>3. inverted[t][q] = TfOf(docs[q], t)
        BY DEF PostingsOK
      <4>. QED BY <4>1, <4>2, <4>3
    <3>. QED BY <3>3, <3>8, <3>9
  <2>3. ASSUME NEW w \in Worker, UpdateMeta(w)
        PROVE  /\ docs' \in [Note -> Doc] /\ metas' \in [Note -> Doc]
               /\ inverted' \in [Token -> [Note -> Nat]] /\ PostingsOK'
    <3>1. job[w].path \in Note /\ job[w].to \in Doc
      BY <2>3, JobAt DEF UpdateMeta
    <3>2. docs' = docs /\ inverted' = inverted /\ metas' = [metas EXCEPT ![job[w].path] = job[w].to]
      BY <2>3 DEF UpdateMeta, search
    <3>. QED BY <3>1, <3>2 DEF TypeOK, PostingsOK
  <2>4. ASSUME NEW w \in Worker, NEW p \in Note, NEW to \in Content \cup {NoDoc},
               Start(w, p, to) \/ UpdateLinks(w)
        PROVE  UNCHANGED <<search, metas>>
    BY <2>4 DEF Start, UpdateLinks
  <2>5. ASSUME NEW w \in Worker, UpdateLinks(w) \/ \E p \in File : Attach(w, p)
        PROVE  UNCHANGED <<search, metas>>
    BY <2>5 DEF Attach, UpdateLinks
  <2>. QED BY <2>1, <2>2, <2>3, <2>4, <2>5 DEF Next, vars
<1>. QED
  BY <1>1, <1>2, <1>3 DEF TypeOK, LinksType

\* A job starts: it is alone with its note, or the note is crossed.
LEMMA StartStep ==
  ASSUME TypeOK, Alone, JobsOK, NEW w \in Worker, NEW p \in Note, NEW to \in Doc, Start(w, p, to)
  PROVE  Alone' /\ JobsOK'
<1>a. /\ job[w] = Idle /\ job[w].path = NoPath /\ \A q \in Note : q # NoPath
  BY JobAt, Names DEF Start, Path
<1>b. /\ \A v \in Worker \ {w} : job'[v] = job[v]
      /\ job'[w] = [at |-> "links", path |-> p, to |-> to]
      /\ UNCHANGED <<files, outgoing, docs, metas>>
  BY DEF Start, TypeOK, links, search
<1>c. job'[w].at = "links" /\ job'[w].path = p /\ job'[w].to = to
  BY <1>b
<1>1. \A q \in Note : q # p => (q \in crossed' <=> q \in crossed)
  BY DEF Start
<1>2. p \notin crossed' => \A v \in Worker : job[v].path # p
  BY DEF Start
<1>3. Alone'
  <2>. SUFFICES ASSUME NEW v \in Worker, NEW x \in Worker,
                       job'[v].path \in Note \ crossed', job'[v].path = job'[x].path
       PROVE  v = x
    BY DEF Alone
  <2>1. CASE job'[v].path = p
    BY <1>b, <1>2, <2>1
  <2>2. CASE job'[v].path # p
    BY <1>b, <1>c, <1>1, <2>2 DEF Alone
  <2>. QED BY <2>1, <2>2
<1>4. ASSUME NEW q \in Note \ crossed'
      PROVE  /\ \A v \in Worker : job'[v].path = q =>
                  /\ job'[v].at \in {"search", "meta"} => LinksAgree(q, job[v].to)'
                  /\ job'[v].at = "meta" => docs'[q] = job'[v].to
             /\ (\A v \in Worker : job'[v].path # q) => LinksAgree(q, docs[q])' /\ metas'[q] = docs'[q]
  <2>1. CASE q = p
    BY <1>b, <1>c, <1>2, <2>1
  <2>2. CASE q # p
    <3>1. q \in Note \ crossed
      BY <1>1, <2>2
    <3>2. /\ \A v \in Worker : job[v].path = q =>
               /\ job[v].at \in {"search", "meta"} => LinksAgree(q, job[v].to)
               /\ job[v].at = "meta" => docs[q] = job[v].to
          /\ (\A v \in Worker : job[v].path # q) => LinksAgree(q, docs[q]) /\ metas[q] = docs[q]
      BY <3>1 DEF JobsOK
    <3>3. \A v \in Worker : job'[v].path = q <=> job[v].path = q
      BY <1>a, <1>b, <1>c, <2>2
    <3>4. \A v \in Worker : job'[v].path = q => job'[v] = job[v]
      BY <1>b, <1>c, <2>2
    <3>. QED BY <1>b, <3>2, <3>3, <3>4 DEF LinksAgree
  <2>. QED BY <2>1, <2>2
<1>. QED
  BY <1>3, <1>4 DEF JobsOK

\* The job of w goes on to j; what it leaves of its note p is what j says.
LEMMA OnlyItsNote ==
  ASSUME TypeOK, Alone, JobsOK, NEW w \in Worker, NEW p \in Note, NEW d \in Doc, NEW j,
         job[w].path = p, job[w].to = d, crossed' = crossed,
         job' = [job EXCEPT ![w] = j],
         (j.path = p /\ j.to = d) \/ j = Idle,
         \A q \in Note \ {p} :
           /\ docs'[q] = docs[q] /\ metas'[q] = metas[q]
           /\ \A e \in Doc : LinksAgree(q, e)' <=> LinksAgree(q, e),
         p \notin crossed =>
           /\ j.at \in {"search", "meta"} => LinksAgree(p, d)'
           /\ j.at = "meta" => docs'[p] = d
           /\ j = Idle => LinksAgree(p, docs[p])' /\ metas'[p] = docs'[p]
  PROVE  Alone' /\ JobsOK'
<1>a. /\ \A v \in Worker \ {w} : job'[v] = job[v]
      /\ job'[w] = j /\ p # NoPath /\ Idle.path = NoPath /\ Idle.at = "idle"
      /\ \A q \in Note : q # NoPath
  BY Names DEF TypeOK, Path, Idle
<1>1. Alone'
  BY <1>a DEF Alone
<1>2. ASSUME NEW q \in Note \ crossed
      PROVE  /\ \A v \in Worker : job'[v].path = q =>
                  /\ job'[v].at \in {"search", "meta"} => LinksAgree(q, job[v].to)'
                  /\ job'[v].at = "meta" => docs'[q] = job'[v].to
             /\ (\A v \in Worker : job'[v].path # q) => LinksAgree(q, docs[q])' /\ metas'[q] = docs'[q]
  <2>a. /\ \A v \in Worker : job[v].path = q =>
             /\ job[v].at \in {"search", "meta"} => LinksAgree(q, job[v].to)
             /\ job[v].at = "meta" => docs[q] = job[v].to
        /\ (\A v \in Worker : job[v].path # q) => LinksAgree(q, docs[q]) /\ metas[q] = docs[q]
    BY DEF JobsOK
  <2>1. CASE q = p
    <3>1. \A v \in Worker \ {w} : job'[v].path # p
      BY <1>2, <1>a, <2>1 DEF Alone
    <3>2. job'[w].path = p => job'[w].to = d /\ j.to = d
      BY <1>a
    <3>3. (\A v \in Worker : job'[v].path # p) => j = Idle
      BY <1>a
    <3>4. j.at \in {"search", "meta"} => LinksAgree(p, job[w].to)'
      BY <1>2, <1>a, <2>1, <3>2 DEF LinksAgree
    <3>. QED BY <1>2, <1>a, <2>1, <3>1, <3>2, <3>3, <3>4
  <2>2. CASE q # p
    <3>1. \A v \in Worker : job'[v].path = q => v # w /\ job'[v] = job[v]
      BY <1>a, <2>2
    <3>2. (\A v \in Worker : job'[v].path # q) => \A v \in Worker : job[v].path # q
      BY <1>a, <2>2
    <3>3. /\ docs'[q] = docs[q] /\ metas'[q] = metas[q]
          /\ \A e \in Doc : LinksAgree(q, e)' <=> LinksAgree(q, e)
      BY <2>2
    <3>4. ASSUME NEW v \in Worker, job'[v].path = q, job'[v].at \in {"search", "meta"}
          PROVE  LinksAgree(q, job[v].to)'
      <4>1. job[v].to \in Doc /\ job'[v] = job[v] /\ LinksAgree(q, job[v].to)
        BY <2>a, <3>1, <3>4, JobAt
      <4>2. PICK e \in Doc : e = job[v].to
        BY <4>1
      <4>3. LinksAgree(q, e)'
        BY <3>3, <4>1, <4>2
      <4>. QED BY <4>1, <4>2, <4>3 DEF LinksAgree
    <3>5. ASSUME \A v \in Worker : job'[v].path # q
          PROVE  LinksAgree(q, docs[q])'
      <4>1. LinksAgree(q, docs[q]) /\ docs[q] \in Doc
        BY <2>a, <3>2, <3>5 DEF TypeOK
      <4>2. PICK e \in Doc : e = docs[q]
        BY <4>1
      <4>3. LinksAgree(q, e)'
        BY <3>3, <4>1, <4>2
      <4>. QED BY <3>3, <4>2, <4>3 DEF LinksAgree
    <3>. QED BY <2>a, <3>1, <3>2, <3>3, <3>4, <3>5
  <2>. QED BY <2>1, <2>2
<1>. QED
  BY <1>1, <1>2 DEF JobsOK

LEMMA JobsStep ==
  ASSUME TypeOK, Alone, JobsOK, [Next]_vars
  PROVE  Alone' /\ JobsOK'
<1>1. ASSUME NEW w \in Worker, NEW p \in Note, NEW to \in Doc, Start(w, p, to)
      PROVE  Alone' /\ JobsOK'
  BY <1>1, StartStep
<1>2. ASSUME NEW w \in Worker, NEW p \in File, Attach(w, p)
      PROVE  Alone' /\ JobsOK'
  <2>1. LinksChange(p) /\ p \in Path /\ \A q \in Note : q # p
    BY <1>2, VaultIndexAssumption DEF Attach, LinksChange, Path, VaultIndexAssumption
  <2>2. \A q \in Note, d \in Doc : LinksAgree(q, d)' <=> LinksAgree(q, d)
    BY <2>1, OtherLinksStay
  <2>3. UNCHANGED <<docs, metas, job, crossed>>
    BY <1>2 DEF Attach, search
  <2>4. Alone'
    BY <2>3 DEF Alone
  <2>5. ASSUME NEW q \in Note, NEW v \in Worker, job[v].path = q
        PROVE  LinksAgree(q, job[v].to)' <=> LinksAgree(q, job[v].to)
    <3>1. job[v].to \in Doc
      BY <2>5, JobAt, Names DEF Path
    <3>2. PICK e \in Doc : e = job[v].to
      BY <3>1
    <3>. QED BY <2>2, <2>3, <3>2 DEF LinksAgree
  <2>6. ASSUME NEW q \in Note
        PROVE  LinksAgree(q, docs[q])' <=> LinksAgree(q, docs[q])
    <3>1. PICK e \in Doc : e = docs[q]
      BY DEF TypeOK
    <3>. QED BY <2>2, <2>3, <3>1 DEF LinksAgree
  <2>7. JobsOK'
    BY <2>3, <2>5, <2>6 DEF JobsOK
  <2>. QED BY <2>4, <2>7
<1>3. ASSUME NEW w \in Worker, UpdateLinks(w)
      PROVE  Alone' /\ JobsOK'
  <2>1. PICK p \in Note, d \in Doc : p = job[w].path /\ d = job[w].to
    BY <1>3, JobAt DEF UpdateLinks
  <2>2. LinksAgree(p, d)' /\ LinksChange(p)
    BY <1>3, <2>1, LinksUpdated
  <2>3. p \in Path
    BY DEF Path
  <2>4. \A q \in Note \ {p} : \A e \in Doc : LinksAgree(q, e)' <=> LinksAgree(q, e)
    BY <2>2, <2>3, OtherLinksStay
  <2>5. PICK j : j = [job[w] EXCEPT !.at = "search"]
    OBVIOUS
  <2>6. j.path = p /\ j.to = d /\ j.at = "search"
    <3>1. job[w] \in [at: {"links", "search", "meta"}, path: Note, to: Doc]
      BY <1>3 DEF UpdateLinks, TypeOK, Job, Idle
    <3>. QED BY <2>1, <2>5, <3>1
  <2>7. job' = [job EXCEPT ![w] = j] /\ UNCHANGED <<docs, metas, crossed>>
    BY <1>3, <2>5 DEF UpdateLinks, search
  <2>8. j # Idle
    BY <2>6 DEF Idle
  <2>. QED BY <2>1, <2>2, <2>4, <2>6, <2>7, <2>8, OnlyItsNote
<1>4. ASSUME NEW w \in Worker, UpdateSearch(w)
      PROVE  Alone' /\ JobsOK'
  <2>1. PICK p \in Note, d \in Doc : p = job[w].path /\ d = job[w].to
    BY <1>4, JobAt DEF UpdateSearch
  <2>2. PICK j : j = [job[w] EXCEPT !.at = "meta"]
    OBVIOUS
  <2>3. j.path = p /\ j.to = d /\ j.at = "meta"
    <3>1. job[w] \in [at: {"links", "search", "meta"}, path: Note, to: Doc]
      BY <1>4 DEF UpdateSearch, TypeOK, Job, Idle
    <3>. QED BY <2>1, <2>2, <3>1
  <2>4. job' = [job EXCEPT ![w] = j] /\ UNCHANGED <<files, outgoing, metas, crossed>>
    BY <1>4, <2>2 DEF UpdateSearch, links
  <2>5. docs' = [docs EXCEPT ![p] = d]
    BY <1>4, <2>1 DEF UpdateSearch, SearchSet
  <2>6. \A q \in Note, e \in Doc : LinksAgree(q, e)' <=> LinksAgree(q, e)
    BY <2>4 DEF LinksAgree
  <2>7. p \notin crossed => LinksAgree(p, d)
    BY <1>4, <2>1 DEF JobsOK, UpdateSearch
  <2>8. docs'[p] = d /\ \A q \in Note \ {p} : docs'[q] = docs[q] /\ metas'[q] = metas[q]
    BY <2>4, <2>5 DEF TypeOK
  <2>9. j # Idle /\ (p \notin crossed => LinksAgree(p, d)')
    BY <2>3, <2>6, <2>7 DEF Idle
  <2>. QED BY <2>1, <2>3, <2>4, <2>6, <2>8, <2>9, OnlyItsNote
<1>5. ASSUME NEW w \in Worker, UpdateMeta(w)
      PROVE  Alone' /\ JobsOK'
  <2>1. PICK p \in Note, d \in Doc : p = job[w].path /\ d = job[w].to
    BY <1>5, JobAt DEF UpdateMeta
  <2>2. PICK j : j = Idle
    OBVIOUS
  <2>3. job' = [job EXCEPT ![w] = j] /\ UNCHANGED <<files, outgoing, docs, crossed>>
    BY <1>5, <2>2 DEF UpdateMeta, links, search
  <2>4. metas'[p] = d /\ \A q \in Note \ {p} : docs'[q] = docs[q] /\ metas'[q] = metas[q]
    BY <1>5, <2>1, <2>3 DEF UpdateMeta, TypeOK
  <2>5. \A q \in Note, e \in Doc : LinksAgree(q, e)' <=> LinksAgree(q, e)
    BY <2>3 DEF LinksAgree
  <2>6. p \notin crossed => LinksAgree(p, d) /\ docs[p] = d
    BY <1>5, <2>1 DEF JobsOK, UpdateMeta
  <2>7. p \notin crossed => LinksAgree(p, docs[p])' /\ metas'[p] = docs'[p]
    BY <2>3, <2>4, <2>6 DEF LinksAgree
  <2>8. j.at = "idle"
    BY <2>2 DEF Idle
  <2>. QED BY <2>1, <2>2, <2>3, <2>4, <2>5, <2>7, <2>8, OnlyItsNote
<1>6. CASE UNCHANGED vars
  BY <1>6 DEF vars, links, search, Alone, JobsOK, LinksAgree
<1>. QED
  BY <1>1, <1>2, <1>3, <1>4, <1>5, <1>6 DEF Next, Doc

LEMMA IndexInvariant == Spec => []TypeOK /\ []LinksOK /\ []PostingsOK /\ []Alone /\ []JobsOK
<1>1. ASSUME Init PROVE TypeOK /\ LinksOK /\ PostingsOK /\ Alone /\ JobsOK
  <2>1. TypeOK
    BY <1>1 DEF Init, TypeOK, Doc, Job
  <2>2. \A p \in Path : p # NoPath
    BY Names
  <2>3. LinksOK /\ PostingsOK
    BY <1>1, <2>2, VaultIndexAssumption
    DEF Init, LinksOK, PostingsOK, TfOf, VaultIndexAssumption
  <2>4. Alone /\ JobsOK
    BY <1>1, <2>2 DEF Init, Alone, JobsOK, LinksAgree, LinksOf, Idle, Path
  <2>. QED BY <2>1, <2>3, <2>4
<1>2. ASSUME TypeOK, LinksOK, PostingsOK, Alone, JobsOK, [Next]_vars
      PROVE  TypeOK' /\ LinksOK' /\ PostingsOK' /\ Alone' /\ JobsOK'
  BY <1>2, TypeStep, JobsStep
<1>. QED
  BY <1>1, <1>2, PTL DEF Spec

\* LinksLive: links lead to what exists, and a name to what was registered
\* under it last.
THEOREM LinksLead == Spec => []LinksLive
<1>1. ASSUME TypeOK, LinksOK PROVE LinksLive
  <2>1. ASSUME NEW src \in Note, NEW t \in outgoing[src] \ BrokenLinks(src)
        PROVE  Resolve(t) \in files
    <3>1. t \in Target /\ Resolve(t) # NoPath
      BY <1>1, <2>1 DEF TypeOK, BrokenLinks
    <3>. QED BY <1>1, <3>1, ResolvesToFiles
  <2>2. ASSUME NEW p \in Path \ files, NEW src \in Backlinks(p)
        PROVE  FALSE
    <3>1. PICK t \in outgoing[src] : Resolve(t) = p
      BY <2>2 DEF Backlinks
    <3>2. t \in Target /\ p # NoPath
      BY <1>1, <3>1, <2>2, Names DEF TypeOK, Backlinks
    <3>. QED BY <1>1, <2>2, <3>1, <3>2, ResolvesToFiles
  <2>. QED BY <1>1, <2>1, <2>2 DEF LinksLive, LinksOK
<1>. QED
  BY <1>1, IndexInvariant, PTL

\* IndexesAgree: links, documents, postings and metadata of a note are of one
\* content.
THEOREM OneContent == Spec => []IndexesAgree
<1>1. ASSUME PostingsOK, JobsOK PROVE IndexesAgree
  BY <1>1 DEF PostingsOK, JobsOK, IndexesAgree, TfOf, LinksAgree, LinksOf
<1>. QED
  BY <1>1, IndexInvariant, PTL

-----------------------------------------------------------------------------
(* Folds, the sums and filters of the search                               *)

\* Some numbers have a least one.
LEMMA Least ==
  ASSUME NEW T \in SUBSET Nat, T # {}
  PROVE  \E n \in T : \A m \in T : n <= m
<1>1. T \subseteq Nat /\ T # {}
  OBVIOUS
<1>2. PICK n \in T : \A m \in T : ~(<<m, n>> \in OpToRel(<, Nat))
  BY <1>1, NatLessThanWellFounded, WFMin
<1>3. \A m \in T : ~(m < n)
  BY <1>2 DEF OpToRel
<1>. QED
  BY <1>3

\* A choice of an element of every subset that has one, and a function on the
\* subsets that folds g over them in the order of the choice.
Picks(pick, S) ==
  /\ pick \in [(SUBSET S) \ {{}} -> S]
  /\ \A s \in (SUBSET S) \ {{}} : pick[s] \in s

IsFold(h, S, pick, base, g) ==
  \A s \in SUBSET S : h[s] = IF s = {} THEN base ELSE g[pick[s]][h[s \ {pick[s]}]]

\* What picking elements off a finite set, one after the other, does to its
\* subsets.
LEMMA Picked ==
  ASSUME NEW S, IsFiniteSet(S), NEW pick, Picks(pick, S)
  PROVE  /\ \A s \in SUBSET S : Cardinality(s) \in Nat /\ Cardinality(s) <= Cardinality(S)
         /\ \A s \in SUBSET S : s # {} =>
              /\ s \ {pick[s]} \in SUBSET S
              /\ Cardinality(s \ {pick[s]}) = Cardinality(s) - 1
              /\ Cardinality(s) # 0
         /\ Cardinality({}) = 0
<1>1. ASSUME NEW s \in SUBSET S
      PROVE  IsFiniteSet(s) /\ Cardinality(s) \in Nat /\ Cardinality(s) <= Cardinality(S)
  <2>1. IsFiniteSet(s) /\ Cardinality(s) <= Cardinality(S)
    BY FS_Subset
  <2>. QED BY <2>1, FS_CardinalityType
<1>2. ASSUME NEW s \in (SUBSET S) \ {{}}
      PROVE  /\ s \ {pick[s]} \in SUBSET S
             /\ Cardinality(s \ {pick[s]}) = Cardinality(s) - 1
             /\ Cardinality(s) # 0
  BY <1>1, FS_RemoveElement, FS_EmptySet DEF Picks
<1>. QED
  BY <1>1, <1>2, FS_EmptySet

\* A fold of a finite set is defined: some function on its subsets is what the
\* recursion says.
LEMMA FoldDefined ==
  ASSUME NEW S, IsFiniteSet(S), NEW pick, Picks(pick, S),
         NEW T, NEW base \in T, NEW g \in [S -> [T -> T]]
  PROVE  \E h \in [SUBSET S -> T] : IsFold(h, S, pick, base, g)
<1>. DEFINE Upto(n) == {s \in SUBSET S : Cardinality(s) <= n}
            Step(h, s) == IF s = {} THEN base ELSE g[pick[s]][h[s \ {pick[s]}]]
            Defined(n) == \E h \in [Upto(n) -> T] : \A s \in Upto(n) : h[s] = Step(h, s)
            Bad == {n \in Nat : ~Defined(n)}
<1>1. /\ \A s \in SUBSET S : Cardinality(s) \in Nat /\ Cardinality(s) <= Cardinality(S)
      /\ \A s \in SUBSET S : s # {} =>
           /\ s \ {pick[s]} \in SUBSET S
           /\ Cardinality(s \ {pick[s]}) = Cardinality(s) - 1
           /\ Cardinality(s) # 0
      /\ Cardinality({}) = 0
  BY Picked
<1>2. Defined(0)
  <2>1. ASSUME NEW s \in Upto(0), s # {} PROVE FALSE
    <3>1. s \in SUBSET S /\ Cardinality(s) <= 0
      OBVIOUS
    <3>2. Cardinality(s) \in Nat /\ Cardinality(s) # 0
      BY <1>1, <2>1, <3>1
    <3>. QED BY <3>1, <3>2
  <2>2. [s \in Upto(0) |-> base] \in [Upto(0) -> T]
    OBVIOUS
  <2>. QED BY <2>1, <2>2
<1>3. ASSUME NEW n \in Nat, n # 0, Defined(n - 1)
      PROVE  Defined(n)
  <2>1. PICK h \in [Upto(n - 1) -> T] : \A s \in Upto(n - 1) : h[s] = Step(h, s)
    BY <1>3
  <2>. DEFINE f == [s \in Upto(n) |-> IF s \in Upto(n - 1) THEN h[s] ELSE Step(h, s)]
  <2>2. ASSUME NEW s \in Upto(n), s # {}
        PROVE  s \ {pick[s]} \in Upto(n - 1) /\ pick[s] \in S
    <3>1. s \in SUBSET S /\ Cardinality(s) <= n
      OBVIOUS
    <3>. QED BY <1>1, <2>2, <3>1 DEF Picks
  <2>3. Upto(n - 1) \subseteq Upto(n)
    BY <1>1
  <2>4. ASSUME NEW s \in Upto(n)
        PROVE  Step(h, s) \in T /\ f[s] = Step(h, s) /\ Step(f, s) = Step(h, s)
    <3>1. CASE s = {}
      <4>1. {} \in Upto(n - 1)
        BY <1>1, <1>3
      <4>. QED BY <2>1, <3>1, <4>1
    <3>2. CASE s # {}
      <4>1. s \ {pick[s]} \in Upto(n - 1) /\ pick[s] \in S
        BY <2>2, <3>2
      <4>2. h[s \ {pick[s]}] \in T
        BY <4>1
      <4>3. f[s \ {pick[s]}] = h[s \ {pick[s]}]
        BY <2>3, <4>1
      <4>. HIDE DEF f, Upto
      <4>4. Step(h, s) = g[pick[s]][h[s \ {pick[s]}]] /\ Step(f, s) = Step(h, s)
        BY <3>2, <4>3
      <4>5. g[pick[s]][h[s \ {pick[s]}]] \in T
        <5>1. g[pick[s]] \in [T -> T]
          BY <4>1
        <5>. QED BY <4>2, <5>1
      <4>. USE DEF f, Upto
      <4>6. f[s] = Step(h, s)
        <5>. HIDE DEF Step
        <5>. QED BY <2>1
      <4>. QED BY <4>4, <4>5, <4>6
    <3>. QED BY <3>1, <3>2
  <2>. HIDE DEF Step
  <2>5. f \in [Upto(n) -> T] /\ \A s \in Upto(n) : f[s] = Step(f, s)
    BY <2>4
  <2>. HIDE DEF f
  <2>. QED BY <2>5
<1>. HIDE DEF Defined
<1>4. Bad = {}
  <2>. SUFFICES ASSUME Bad # {} PROVE FALSE
    OBVIOUS
  <2>1. PICK n \in Bad : \A m \in Bad : n <= m
    BY Least
  <2>2. \A m \in Bad : ~(m < n)
    BY <2>1
  <2>3. n # 0
    BY <1>2, <2>1
  <2>4. n - 1 \in Nat /\ n - 1 < n
    BY <2>3
  <2>5. Defined(n - 1)
    BY <2>2, <2>4
  <2>. QED BY <1>3, <2>3, <2>5
<1>5. Defined(Cardinality(S))
  <2>1. Cardinality(S) \in Nat
    BY <1>1
  <2>. QED BY <1>4, <2>1
<1>6. Upto(Cardinality(S)) = SUBSET S
  BY <1>1
<1>7. PICK h \in [SUBSET S -> T] : \A s \in SUBSET S : h[s] = Step(h, s)
  BY <1>5, <1>6 DEF Defined
<1>. QED
  BY <1>7 DEF IsFold

\* A sum over a finite set is a number, and positive when one of the terms is.
LEMMA SumPositive ==
  ASSUME NEW S, IsFiniteSet(S), NEW f \in [S -> Nat]
  PROVE  SumFunction(f) \in Nat /\ (SumFunction(f) > 0 <=> \E x \in S : f[x] > 0)
<1>. DEFINE P(h) == h = [s \in SUBSET S |->
                      IF s = {} THEN 0
                      ELSE f[CHOOSE x \in s : TRUE] + h[s \ {CHOOSE x \in s : TRUE}]]
            pick == [s \in (SUBSET S) \ {{}} |-> CHOOSE x \in s : TRUE]
            g == [x \in S |-> [y \in Nat |-> f[x] + y]]
<1>1. /\ Picks(pick, S)
      /\ \A s \in SUBSET S : s # {} => pick[s] = CHOOSE x \in s : TRUE
  BY DEF Picks
<1>2. g \in [S -> [Nat -> Nat]] /\ \A x \in S, y \in Nat : g[x][y] = f[x] + y
  OBVIOUS
<1>. HIDE DEF pick, g
<1>3. PICK d \in [SUBSET S -> Nat] : IsFold(d, S, pick, 0, g)
  <2>1. IsFiniteSet(S) /\ Picks(pick, S) /\ 0 \in Nat /\ g \in [S -> [Nat -> Nat]]
    BY <1>1, <1>2
  <2>. QED BY ONLY <2>1, FoldDefined
<1>4. P(d)
  <2>1. \A s \in SUBSET S : s # {} => pick[s] \in S /\ d[s \ {pick[s]}] \in Nat
    BY <1>1 DEF Picks
  <2>2. \A s \in SUBSET S : s # {} =>
          g[pick[s]][d[s \ {pick[s]}]] = f[CHOOSE x \in s : TRUE] + d[s \ {CHOOSE x \in s : TRUE}]
    <3>1. ASSUME NEW s \in SUBSET S, s # {}
          PROVE  g[pick[s]][d[s \ {pick[s]}]]
                   = f[CHOOSE x \in s : TRUE] + d[s \ {CHOOSE x \in s : TRUE}]
      <4>1. PICK x, y : x = pick[s] /\ y = d[s \ {x}]
        OBVIOUS
      <4>2. x \in S /\ y \in Nat
        BY <2>1, <3>1, <4>1
      <4>3. g[x][y] = f[x] + y
        BY <1>2, <4>2
      <4>4. x = CHOOSE z \in s : TRUE
        BY <1>1, <3>1, <4>1
      <4>. QED BY <4>1, <4>3, <4>4
    <3>. QED BY <3>1
  <2>3. d = [s \in SUBSET S |->
               IF s = {} THEN 0
               ELSE f[CHOOSE x \in s : TRUE] + d[s \ {CHOOSE x \in s : TRUE}]]
    BY <1>3, <2>2 DEF IsFold
  <2>. QED BY <2>3
<1>5. PICK h : P(h) /\ SumFunction(f) = h[S]
  <2>1. SumFunction(f) = (CHOOSE h : P(h))[S]
    BY DEF SumFunction, SumFunctionOnSet, FoldFunctionOnSet, MapThenFoldSet
  <2>2. P(CHOOSE h : P(h))
    <3>. HIDE DEF P
    <3>. QED BY <1>4
  <2>. HIDE DEF P
  <2>. QED BY <2>1, <2>2
<1>6. \A s \in SUBSET S : h[s] = IF s = {} THEN 0 ELSE f[pick[s]] + h[s \ {pick[s]}]
  <2>1. h = [s \in SUBSET S |->
             IF s = {} THEN 0
             ELSE f[CHOOSE x \in s : TRUE] + h[s \ {CHOOSE x \in s : TRUE}]]
    BY <1>5
  <2>2. ASSUME NEW s \in SUBSET S
        PROVE  h[s] = IF s = {} THEN 0 ELSE f[pick[s]] + h[s \ {pick[s]}]
    <3>1. h[s] = IF s = {} THEN 0
                 ELSE f[CHOOSE x \in s : TRUE] + h[s \ {CHOOSE x \in s : TRUE}]
      BY <2>1
    <3>. QED BY <1>1, <3>1
  <2>. QED BY <2>2
<1>. HIDE DEF P
<1>7. /\ \A s \in SUBSET S : Cardinality(s) \in Nat
      /\ \A s \in SUBSET S : s # {} =>
           s \ {pick[s]} \in SUBSET S /\ Cardinality(s \ {pick[s]}) = Cardinality(s) - 1
  <2>1. /\ \A s \in SUBSET S : Cardinality(s) \in Nat /\ Cardinality(s) <= Cardinality(S)
        /\ \A s \in SUBSET S : s # {} =>
             /\ s \ {pick[s]} \in SUBSET S
             /\ Cardinality(s \ {pick[s]}) = Cardinality(s) - 1
             /\ Cardinality(s) # 0
        /\ Cardinality({}) = 0
    BY <1>1, Picked
  <2>. QED BY <2>1
<1>. DEFINE Right(s) == h[s] \in Nat /\ (h[s] > 0 <=> \E x \in s : f[x] > 0)
<1>8. ASSUME NEW s \in SUBSET S, s # {} => Right(s \ {pick[s]})
      PROVE  Right(s)
  <2>1. CASE s = {}
    <3>1. h[s] = 0 /\ ~\E x \in s : f[x] > 0
      BY <1>6, <2>1
    <3>. QED BY <3>1
  <2>2. CASE s # {}
    <3>1. PICK x, r : x = pick[s] /\ r = s \ {x}
      OBVIOUS
    <3>2. x \in s /\ f[x] \in Nat
      BY <1>1, <2>2, <3>1 DEF Picks
    <3>3. h[s] = f[x] + h[r]
      BY <1>6, <2>2, <3>1
    <3>4. h[r] \in Nat /\ (h[r] > 0 <=> \E y \in r : f[y] > 0)
      BY <1>8, <2>2, <3>1
    <3>5. (\E y \in s : f[y] > 0) <=> f[x] > 0 \/ \E y \in r : f[y] > 0
      BY <3>1, <3>2
    <3>. QED BY <3>2, <3>3, <3>4, <3>5
  <2>. QED BY <2>1, <2>2
<1>. HIDE DEF Right
<1>9. \A s \in SUBSET S : Right(s)
  <2>. DEFINE T == {n \in Nat : \E s \in SUBSET S : Cardinality(s) = n /\ ~Right(s)}
  <2>1. T = {}
    <3>. SUFFICES ASSUME T # {} PROVE FALSE
      OBVIOUS
    <3>1. PICK n \in T : \A m \in T : n <= m
      BY Least
    <3>2. PICK s \in SUBSET S : Cardinality(s) = n /\ ~Right(s)
      BY <3>1
    <3>3. s # {} /\ ~Right(s \ {pick[s]})
      BY <1>8, <3>2
    <3>4. s \ {pick[s]} \in SUBSET S /\ Cardinality(s \ {pick[s]}) = n - 1 /\ n - 1 \in Nat
      BY <1>7, <3>2, <3>3
    <3>5. n - 1 \in T
      BY <3>3, <3>4
    <3>. QED BY <3>1, <3>4, <3>5
  <2>. QED BY <1>7, <2>1
<1>. QED
  BY <1>5, <1>9 DEF Right

\* A number up to n that others do not exceed.
LEMMA MaxIs ==
  ASSUME NEW n \in Nat, NEW s \in SUBSET (1..n), s # {}
  PROVE  Max(s) \in s /\ \A x \in s : x <= Max(s)
<1>. DEFINE T == {n - x : x \in s}
<1>1. T \in SUBSET Nat /\ T # {}
  <2>1. \A x \in s : n - x \in Nat
    OBVIOUS
  <2>. QED BY <2>1
<1>2. PICK t \in T : \A y \in T : t <= y
  BY <1>1, Least
<1>3. PICK x \in s : t = n - x
  BY <1>2
<1>4. ASSUME NEW y \in s
      PROVE  x >= y
  <2>1. n - y \in T
    OBVIOUS
  <2>2. n - x <= n - y
    BY <1>2, <1>3, <2>1
  <2>3. x \in Int /\ y \in Int
    OBVIOUS
  <2>. QED BY <2>2, <2>3
<1>5. /\ (CHOOSE y \in s : \A z \in s : y >= z) \in s
      /\ \A z \in s : (CHOOSE y \in s : \A w \in s : y >= w) >= z
  BY <1>4
<1>. QED
  BY <1>5 DEF Max
\* Of the results, the readable ones are kept, all of them unless the limit is
\* reached.
LEMMA ReadableAre ==
  ASSUME NEW A, NEW results \in Seq(A), NEW limit \in Nat, NEW allowed
  PROVE  \E out \in Seq(A) :
           /\ Readable(results, limit, allowed) = out
           /\ Range(out) \subseteq Range(results) \cap allowed
           /\ Len(out) = limit \/ Range(out) = Range(results) \cap allowed
<1>. DEFINE S == DOMAIN results
            P(h) == h = [s \in SUBSET S |->
                      IF s = {} THEN << >>
                      ELSE IF results[Max(s)] \in allowed /\ Len(h[s \ {Max(s)}]) < limit
                           THEN Append(h[s \ {Max(s)}], results[Max(s)])
                           ELSE h[s \ {Max(s)}]]
            pick == [s \in (SUBSET S) \ {{}} |-> Max(s)]
            Kept(i, out) == IF results[i] \in allowed /\ Len(out) < limit
                            THEN Append(out, results[i]) ELSE out
            g == [i \in S |-> [out \in Seq(A) |-> Kept(i, out)]]
<1>1. Len(results) \in Nat /\ S = 1..Len(results) /\ IsFiniteSet(S)
  BY FS_Interval
<1>2. Picks(pick, S) /\ \A s \in SUBSET S : s # {} => pick[s] = Max(s)
  BY <1>1, MaxIs DEF Picks
<1>3. \A i \in S, out \in Seq(A) : Kept(i, out) \in Seq(A) /\ g[i][out] = Kept(i, out)
  OBVIOUS
<1>4. g \in [S -> [Seq(A) -> Seq(A)]]
  BY <1>3
<1>. HIDE DEF pick, g
<1>5. PICK d \in [SUBSET S -> Seq(A)] : IsFold(d, S, pick, << >>, g)
  <2>1. /\ IsFiniteSet(S) /\ Picks(pick, S) /\ << >> \in Seq(A)
        /\ g \in [S -> [Seq(A) -> Seq(A)]]
    BY <1>1, <1>2, <1>4
  <2>. HIDE DEF S
  <2>. QED BY ONLY <2>1, FoldDefined
<1>6. P(d)
  <2>1. ASSUME NEW s \in SUBSET S, s # {}
        PROVE  d[s] = Kept(Max(s), d[s \ {Max(s)}])
    <3>1. Max(s) \in S /\ pick[s] = Max(s)
      BY <1>2, <2>1 DEF Picks
    <3>2. d[s \ {Max(s)}] \in Seq(A)
      OBVIOUS
    <3>3. d[s] = g[Max(s)][d[s \ {Max(s)}]]
      BY <1>5, <2>1, <3>1 DEF IsFold
    <3>. HIDE DEF Kept
    <3>. QED BY <1>3, <3>1, <3>2, <3>3
  <2>2. d[{}] = << >>
    BY <1>5 DEF IsFold
  <2>. QED BY <2>1, <2>2
<1>7. PICK h : P(h) /\ Readable(results, limit, allowed) = h[S]
  <2>1. Readable(results, limit, allowed) = (CHOOSE h : P(h))[S]
    BY DEF Readable, FoldLeft, MapThenFoldSet
  <2>2. P(CHOOSE h : P(h))
    <3>. HIDE DEF P
    <3>. QED BY <1>6
  <2>. HIDE DEF P
  <2>. QED BY <2>1, <2>2
<1>8. h[{}] = << >> /\ \A s \in SUBSET S : s # {} => h[s] = Kept(Max(s), h[s \ {Max(s)}])
  BY <1>7
<1>. HIDE DEF P, Kept
<1>. DEFINE Some(k) == {results[i] : i \in 1..k} \cap allowed
            Good(k) == /\ h[1..k] \in Seq(A)
                       /\ Range(h[1..k]) \subseteq Some(k)
                       /\ Len(h[1..k]) = limit \/ Range(h[1..k]) = Some(k)
                       /\ Len(h[1..k]) <= limit
<1>9. Good(0)
  <2>1. 1..0 = {} /\ h[1..0] = << >>
    BY <1>8
  <2>2. Range(<< >>) = {} /\ Len(<< >>) = 0 /\ << >> \in Seq(A)
    BY DEF Range
  <2>. QED BY <2>1, <2>2
<1>10. ASSUME NEW k \in 1..Len(results), Good(k - 1)
       PROVE  Good(k)
  <2>1. 1..k \in SUBSET S /\ 1..k # {} /\ k \in 1..k
    BY <1>1
  <2>2. Max(1..k) = k
    <3>1. Max(1..k) \in 1..k /\ k <= Max(1..k)
      BY <1>1, <2>1, MaxIs
    <3>. QED BY <3>1
  <2>3. (1..k) \ {k} = 1..(k - 1)
    OBVIOUS
  <2>4. PICK o : o = h[1..(k - 1)]
    OBVIOUS
  <2>5. h[1..k] = Kept(k, o)
    BY <1>8, <2>1, <2>2, <2>3, <2>4
  <2>6. /\ o \in Seq(A) /\ Range(o) \subseteq Some(k - 1) /\ Len(o) <= limit
        /\ Len(o) = limit \/ Range(o) = Some(k - 1)
    BY <1>10, <2>4
  <2>7. Some(k) = Some(k - 1) \cup ({results[k]} \cap allowed)
    <3>1. 1..k = 1..(k - 1) \cup {k}
      OBVIOUS
    <3>. QED BY <3>1
  <2>. HIDE DEF Some
  <2>8. CASE results[k] \in allowed /\ Len(o) < limit
    <3>1. results[k] \in A
      BY <1>1
    <3>2. PICK r : r = results[k]
      OBVIOUS
    <3>3. h[1..k] = Append(o, r)
      BY <2>5, <2>8, <3>2 DEF Kept
    <3>4. Append(o, r) \in Seq(A) /\ Len(Append(o, r)) = Len(o) + 1
      BY <2>6, <3>1, <3>2
    <3>5. Range(Append(o, r)) = Range(o) \cup {r}
      <4>1. Len(o) \in Nat /\ DOMAIN o = 1..Len(o)
        BY <2>6
      <4>2. DOMAIN Append(o, r) = 1..(Len(o) + 1)
        BY <2>6, <3>4
      <4>3. \A i \in 1..Len(o) : Append(o, r)[i] = o[i]
        BY <2>6
      <4>4. Append(o, r)[Len(o) + 1] = r
        BY <2>6
      <4>5. 1..(Len(o) + 1) = 1..Len(o) \cup {Len(o) + 1}
        BY <4>1
      <4>. QED BY <4>1, <4>2, <4>3, <4>4, <4>5 DEF Range
    <3>6. Len(o) \in Nat /\ Len(o) + 1 <= limit
      BY <2>6, <2>8
    <3>. QED BY <2>6, <2>7, <2>8, <3>2, <3>3, <3>4, <3>5, <3>6
  <2>9. CASE ~(results[k] \in allowed /\ Len(o) < limit)
    <3>1. h[1..k] = o
      BY <2>5, <2>9 DEF Kept
    <3>2. Len(o) = limit \/ results[k] \notin allowed
      BY <2>6, <2>9
    <3>. QED BY <2>6, <2>7, <3>1, <3>2
  <2>. QED BY <2>8, <2>9
<1>. HIDE DEF Good
<1>11. Good(Len(results))
  <2>. DEFINE T == {k \in 0..Len(results) : ~Good(k)}
  <2>1. T = {}
    <3>. SUFFICES ASSUME T # {} PROVE FALSE
      OBVIOUS
    <3>1. T \in SUBSET Nat
      BY <1>1
    <3>2. PICK k \in T : \A m \in T : k <= m
      BY <3>1, Least
    <3>3. k \in 0..Len(results) /\ k # 0 /\ ~Good(k)
      BY <1>9, <3>2
    <3>4. k \in 1..Len(results) /\ k - 1 \in 0..Len(results) /\ ~(k <= k - 1)
      BY <1>1, <3>3
    <3>5. ~Good(k - 1)
      BY <1>10, <3>3, <3>4
    <3>6. k - 1 \in T
      BY <3>4, <3>5
    <3>. QED BY <3>2, <3>4, <3>6
  <2>. QED BY <1>1, <2>1
<1>12. Some(Len(results)) = Range(results) \cap allowed
  BY <1>1 DEF Range
<1>. QED
  BY <1>1, <1>7, <1>11, <1>12 DEF Good
-----------------------------------------------------------------------------
(* The ranking of the search                                               *)

\* Of two notes found one comes first: paths are not alike.
LEMMA BeforeOrders ==
  ASSUME NEW D \in SUBSET Note, NEW scores \in [D -> Nat]
  PROVE  /\ \A p \in D : ~Before(scores, p, p)
         /\ \A p, q \in D : p # q => Before(scores, p, q) \/ Before(scores, q, p)
         /\ \A p, q, r \in D :
              Before(scores, p, q) /\ Before(scores, q, r) => Before(scores, p, r)
<1>1. \A p \in D : Rank[p] \in Nat /\ scores[p] \in Nat
  BY VaultIndexAssumption DEF VaultIndexAssumption, Path
<1>2. \A p, q \in D : Rank[p] = Rank[q] => p = q
  BY VaultIndexAssumption DEF VaultIndexAssumption, Path
<1>. QED
  BY <1>1, <1>2 DEF Before

\* What is found can be ranked.
LEMMA Rankable ==
  ASSUME NEW D \in SUBSET Note, IsFiniteSet(D), NEW scores \in [D -> Nat]
  PROVE  \E s \in [1..Cardinality(D) -> D] :
           \A i, j \in 1..Cardinality(D) : i < j => Before(scores, s[i], s[j])
<1>. DEFINE n == Cardinality(D)
            upTo(p) == {q \in D : q = p \/ Before(scores, q, p)}
            place == [p \in D |-> Cardinality(upTo(p))]
<1>1. n \in Nat /\ IsFiniteSet(1..n) /\ Cardinality(1..n) = n
  BY FS_CardinalityType, FS_Interval
<1>2. ASSUME NEW p \in D
      PROVE  IsFiniteSet(upTo(p)) /\ Cardinality(upTo(p)) \in 1..n
  <2>1. upTo(p) \in SUBSET D /\ upTo(p) # {}
    OBVIOUS
  <2>. HIDE DEF upTo
  <2>2. IsFiniteSet(upTo(p)) /\ Cardinality(upTo(p)) <= n
    BY <2>1, FS_Subset
  <2>3. Cardinality(upTo(p)) \in Nat /\ Cardinality(upTo(p)) # 0
    BY <2>1, <2>2, FS_CardinalityType, FS_EmptySet
  <2>. QED BY <1>1, <2>2, <2>3
<1>3. ASSUME NEW p \in D, NEW q \in D, Before(scores, p, q)
      PROVE  Cardinality(upTo(p)) < Cardinality(upTo(q))
  <2>1. upTo(p) \in SUBSET upTo(q) /\ q \in upTo(q) /\ q \notin upTo(p)
    BY <1>3, BeforeOrders
  <2>2. IsFiniteSet(upTo(q)) /\ Cardinality(upTo(q)) \in Nat /\ Cardinality(upTo(p)) \in Nat
    BY <1>2
  <2>. HIDE DEF upTo
  <2>3. Cardinality(upTo(p)) <= Cardinality(upTo(q)) /\ Cardinality(upTo(p)) # Cardinality(upTo(q))
    BY <2>1, <2>2, FS_Subset
  <2>. QED BY <2>2, <2>3
<1>4. \A p \in D : place[p] = Cardinality(upTo(p)) /\ place[p] \in 1..n
  BY <1>2
<1>5. place \in Injection(D, 1..n)
  <2>1. place \in [D -> 1..n]
    BY <1>2
  <2>2. ASSUME NEW p \in D, NEW q \in D, p # q
        PROVE  place[p] # place[q]
    <3>1. Before(scores, p, q) \/ Before(scores, q, p)
      BY <2>2, BeforeOrders
    <3>2. place[p] < place[q] \/ place[q] < place[p]
      <4>. HIDE DEF place, upTo
      <4>. QED BY <1>3, <1>4, <3>1
    <3>3. place[p] \in Nat /\ place[q] \in Nat
      BY <1>4
    <3>. HIDE DEF place
    <3>. QED BY <3>2, <3>3
  <2>. HIDE DEF place
  <2>. QED BY <2>1, <2>2 DEF Injection, IsInjective
<1>6. place \in Surjection(D, 1..n)
  <2>. HIDE DEF place
  <2>. QED BY <1>1, <1>5, FS_Injection
<1>7. \A i \in 1..n : \E p \in D : place[p] = i
  BY <1>6 DEF Surjection
<1>. HIDE DEF place, upTo
<1>. DEFINE s == [i \in 1..n |-> CHOOSE p \in D : place[p] = i]
<1>8. \A i \in 1..n : s[i] \in D /\ place[s[i]] = i
  BY <1>7
<1>9. s \in [1..n -> D]
  BY <1>8
<1>. HIDE DEF s
<1>10. ASSUME NEW i \in 1..n, NEW j \in 1..n, i < j
       PROVE  Before(scores, s[i], s[j])
  <2>1. s[i] # s[j]
    BY <1>8, <1>10
  <2>2. ~Before(scores, s[j], s[i])
    <3>. SUFFICES ASSUME Before(scores, s[j], s[i]) PROVE FALSE
      OBVIOUS
    <3>1. place[s[j]] < place[s[i]]
      BY <1>3, <1>4, <1>8
    <3>. QED BY <1>8, <1>10, <3>1
  <2>. QED BY <1>8, <2>1, <2>2, BeforeOrders
<1>. QED
  BY <1>9, <1>10

\* Ranking leaves nothing out and adds nothing.
LEMMA RankedAre ==
  ASSUME NEW D \in SUBSET Note, IsFiniteSet(D), NEW scores \in [D -> Nat]
  PROVE  /\ Ranked(scores) \in Seq(D) /\ Len(Ranked(scores)) = Cardinality(D)
         /\ Range(Ranked(scores)) = D
<1>. DEFINE n == Cardinality(D)
            s == Ranked(scores)
<1>1. n \in Nat /\ IsFiniteSet(1..n) /\ Cardinality(1..n) = n
  BY FS_CardinalityType, FS_Interval
<1>2. s \in [1..n -> D] /\ \A i, j \in 1..n : i < j => Before(scores, s[i], s[j])
  <2>1. DOMAIN scores = D
    OBVIOUS
  <2>2. \E r \in [1..n -> D] : \A i, j \in DOMAIN r : i < j => Before(scores, r[i], r[j])
    <3>1. PICK r \in [1..n -> D] : \A i, j \in 1..n : i < j => Before(scores, r[i], r[j])
      BY Rankable
    <3>2. DOMAIN r = 1..n
      OBVIOUS
    <3>. QED BY <3>1, <3>2
  <2>3. s = CHOOSE r \in [1..n -> D] : \A i, j \in DOMAIN r : i < j => Before(scores, r[i], r[j])
    BY <2>1 DEF Ranked
  <2>. HIDE DEF s, n
  <2>4. s \in [1..n -> D] /\ \A i, j \in DOMAIN s : i < j => Before(scores, s[i], s[j])
    BY <2>2, <2>3
  <2>. QED BY <2>4
<1>. HIDE DEF s
<1>3. \A i, j \in 1..n : s[i] = s[j] => i = j
  <2>. SUFFICES ASSUME NEW i \in 1..n, NEW j \in 1..n, i # j PROVE s[i] # s[j]
    OBVIOUS
  <2>1. i < j \/ j < i
    BY <1>1
  <2>2. Before(scores, s[i], s[j]) \/ Before(scores, s[j], s[i])
    BY <1>2, <2>1
  <2>3. s[i] \in D /\ s[j] \in D
    BY <1>2
  <2>. QED BY <2>2, <2>3, BeforeOrders
<1>4. s \in Injection(1..n, D)
  BY <1>2, <1>3 DEF Injection, IsInjective
<1>5. s \in Surjection(1..n, D)
  BY <1>1, <1>4, FS_Injection
<1>6. \A p \in D : \E i \in 1..n : s[i] = p
  BY <1>5 DEF Surjection
<1>7. Range(s) = D
  BY <1>2, <1>6 DEF Range
<1>8. s \in Seq(D) /\ Len(s) = n
  BY <1>1, <1>2
<1>. QED
  BY <1>7, <1>8 DEF s
\* The first results, all of them if there are no more.
LEMMA FirstAre ==
  ASSUME NEW D, NEW s \in Seq(D), NEW n \in Nat
  PROVE  /\ FirstOf(s, n) \in Seq(D) /\ Range(FirstOf(s, n)) \subseteq Range(s)
         /\ Len(s) <= n => FirstOf(s, n) = s
<1>1. PICK m \in 0..Len(s) : FirstOf(s, n) = SubSeq(s, 1, m) /\ (Len(s) <= n => m = Len(s))
  <2>1. Len(s) \in Nat
    OBVIOUS
  <2>2. CASE Len(s) < n
    BY <2>1, <2>2 DEF FirstOf
  <2>3. CASE ~(Len(s) < n)
    <3>1. n \in 0..Len(s) /\ (Len(s) <= n => n = Len(s))
      BY <2>1, <2>3
    <3>. QED BY <2>3, <3>1 DEF FirstOf
  <2>. QED BY <2>2, <2>3
<1>2. /\ SubSeq(s, 1, m) \in Seq(D) /\ DOMAIN SubSeq(s, 1, m) = 1..m
      /\ \A i \in 1..m : SubSeq(s, 1, m)[i] = s[i]
  OBVIOUS
<1>3. 1..m \subseteq DOMAIN s
  OBVIOUS
<1>4. Range(SubSeq(s, 1, m)) \subseteq Range(s)
  BY <1>2, <1>3 DEF Range
<1>5. m = Len(s) => SubSeq(s, 1, m) = s
  OBVIOUS
<1>. QED
  BY <1>1, <1>2, <1>4, <1>5

\* The documents are finitely many at any time, however many notes may be
\* written: each step changes one.
Documents == {p \in Note : docs[p] # NoDoc}

Few == IsFiniteSet(Documents)

LEMMA FewStep ==
  ASSUME TypeOK, Few, [Next]_vars
  PROVE  Few'
<1>1. CASE UNCHANGED docs
  BY <1>1 DEF Few, Documents
<1>2. CASE \E w \in Worker : UpdateSearch(w)
  <2>1. PICK w \in Worker : UpdateSearch(w)
    BY <1>2
  <2>2. PICK p, d : docs' = [docs EXCEPT ![p] = d]
    BY <2>1 DEF UpdateSearch, SearchSet
  <2>3. \A q \in Note : q # p => docs'[q] = docs[q]
    BY <2>2 DEF TypeOK
  <2>4. Documents' \in SUBSET (Documents \cup {p})
    BY <2>3 DEF Documents
  <2>5. IsFiniteSet(Documents \cup {p})
    BY FS_AddElement DEF Few
  <2>6. IsFiniteSet(Documents')
    BY <2>4, <2>5, FS_Subset
  <2>. QED BY <2>6 DEF Few
<1>3. UNCHANGED docs \/ \E w \in Worker : UpdateSearch(w)
  BY DEF Next, vars, search, Start, Attach, UpdateLinks, UpdateMeta
<1>. QED
  BY <1>1, <1>2, <1>3

LEMMA FewDocuments == Spec => []Few
<1>1. ASSUME Init PROVE Few
  <2>1. Documents = {}
    BY <1>1 DEF Init, Documents
  <2>. QED BY <2>1, FS_EmptySet DEF Few
<1>2. ASSUME TypeOK, Few, [Next]_vars PROVE Few'
  BY <1>2, FewStep
<1>. QED
  BY <1>1, <1>2, IndexInvariant, PTL DEF Spec

\* A term scores where it, or a longer token it begins, occurs.
LEMMA TermScores ==
  ASSUME TypeOK, PostingsOK, NEW term \in Token, NEW prefix \in BOOLEAN, NEW p \in Note
  PROVE  /\ TermScore(term, prefix, p) \in Nat
         /\ TermScore(term, prefix, p) > 0 <=>
              \E t \in {term} \cup (IF prefix THEN Extends[term] ELSE {}) : inverted[t][p] > 0
<1>. DEFINE longer == {t \in Extends[term] : inverted[t][p] > 0}
            f == [t \in longer |-> inverted[t][p]]
<1>1. \A t \in Token : inverted[t][p] \in Nat
  BY DEF TypeOK
<1>2. Extends[term] \subseteq Token
  BY VaultIndexAssumption DEF VaultIndexAssumption
<1>3. IsFiniteSet(longer)
  <2>1. CASE docs[p] = NoDoc
    <3>1. longer = {}
      BY <1>2, <2>1 DEF PostingsOK, TfOf
    <3>. QED BY <3>1, FS_EmptySet
  <2>2. CASE docs[p] # NoDoc
    <3>1. docs[p] \in Content
      BY <2>2 DEF TypeOK, Doc
    <3>2. IsFiniteSet({t \in Token : Tf[docs[p]][t] > 0})
      BY <3>1, VaultIndexAssumption DEF VaultIndexAssumption
    <3>3. longer \in SUBSET {t \in Token : Tf[docs[p]][t] > 0}
      BY <1>2, <2>2 DEF PostingsOK, TfOf
    <3>. QED BY <3>2, <3>3, FS_Subset
  <2>. QED BY <2>1, <2>2
<1>4. f \in [longer -> Nat] /\ \A t \in longer : f[t] = inverted[t][p]
  BY <1>1, <1>2
<1>5. PICK n : n = SumFunction(f) /\ n \in Nat /\ (n > 0 <=> \E t \in longer : f[t] > 0)
  <2>. HIDE DEF longer, f
  <2>. QED BY <1>3, <1>4, SumPositive
<1>6. TermScore(term, prefix, p) = 2 * inverted[term][p] + (IF prefix THEN n ELSE 0)
  BY <1>5 DEF TermScore
<1>7. PICK k \in Nat : k = inverted[term][p]
  BY <1>1
<1>8. (\E t \in longer : f[t] > 0) <=> \E t \in Extends[term] : inverted[t][p] > 0
  BY <1>4
<1>. HIDE DEF longer, f
<1>9. CASE prefix
  <2>1. TermScore(term, prefix, p) = 2 * k + n
    BY <1>6, <1>7, <1>9
  <2>2. 2 * k + n \in Nat /\ (2 * k + n > 0 <=> k > 0 \/ n > 0)
    BY <1>5
  <2>3. (\E t \in {term} \cup Extends[term] : inverted[t][p] > 0)
          <=> k > 0 \/ \E t \in Extends[term] : inverted[t][p] > 0
    BY <1>7
  <2>. QED BY <1>5, <1>8, <1>9, <2>1, <2>2, <2>3
<1>10. CASE ~prefix
  <2>1. TermScore(term, prefix, p) = 2 * k + 0
    BY <1>6, <1>7, <1>10
  <2>2. 2 * k + 0 \in Nat /\ (2 * k + 0 > 0 <=> k > 0)
    OBVIOUS
  <2>. QED BY <1>7, <1>10, <2>1, <2>2
<1>. QED
  BY <1>9, <1>10

\* What scores is what is wanted.
LEMMA ScoresWanted ==
  ASSUME TypeOK, PostingsOK, NEW q \in Query
  PROVE  Scores(q) \in [Wanted(q) -> Nat]
<1>. DEFINE n == Len(q.terms)
            hits == IF n = 0 THEN {p \in Note : docs[p] # NoDoc /\ q.filtered}
                    ELSE {p \in Note : \A i \in 1..n : TermScore(q.terms[i], i = n, p) > 0}
            score(p) == IF n = 0 THEN 1
                        ELSE SumFunction([i \in 1..n |-> TermScore(q.terms[i], i = n, p)])
            D == {h \in hits : Passes(q, h)}
<1>1. n \in Nat /\ q.terms \in Seq(Token) /\ DOMAIN q.terms = 1..n /\ IsFiniteSet(1..n)
  BY VaultIndexAssumption, FS_Interval DEF VaultIndexAssumption
<1>2. \A i \in 1..n : q.terms[i] \in Token
  BY <1>1
<1>3. \A p \in Note, i \in 1..n : TermScore(q.terms[i], i = n, p) \in Nat
  BY <1>2, TermScores
<1>4. ASSUME NEW p \in Note
      PROVE  score(p) \in Nat
  <2>1. CASE n = 0
    BY <2>1
  <2>2. CASE n # 0
    <3>1. [i \in 1..n |-> TermScore(q.terms[i], i = n, p)] \in [1..n -> Nat]
      BY <1>3
    <3>2. SumFunction([i \in 1..n |-> TermScore(q.terms[i], i = n, p)]) \in Nat
      BY <1>1, <3>1, SumPositive
    <3>. QED BY <2>2, <3>2
  <2>. QED BY <2>1, <2>2
<1>5. ASSUME NEW p \in Note
      PROVE  p \in D <=> p \in Wanted(q)
  <2>. DEFINE About(i, t) == t \in {q.terms[i]} \cup (IF i = n THEN Extends[q.terms[i]] ELSE {})
  <2>1. \A i \in 1..n : \A t : About(i, t) => t \in Token
    BY <1>2, VaultIndexAssumption DEF VaultIndexAssumption
  <2>2. \A i \in 1..n : TermScore(q.terms[i], i = n, p) > 0 <=>
          \E t : About(i, t) /\ inverted[t][p] > 0
    <3>. SUFFICES ASSUME NEW i \in 1..n
         PROVE  TermScore(q.terms[i], i = n, p) > 0 <=> \E t : About(i, t) /\ inverted[t][p] > 0
      OBVIOUS
    <3>1. PICK b \in BOOLEAN, x \in Token : b = (i = n) /\ x = q.terms[i]
      BY <1>2
    <3>2. TermScore(x, b, p) > 0 <=>
            \E t \in {x} \cup (IF b THEN Extends[x] ELSE {}) : inverted[t][p] > 0
      BY TermScores
    <3>3. \A t : About(i, t) <=> t \in {x} \cup (IF b THEN Extends[x] ELSE {})
      BY <3>1
    <3>4. TermScore(x, b, p) = TermScore(q.terms[i], i = n, p)
      BY <3>1
    <3>. HIDE DEF About
    <3>. QED BY <3>2, <3>3, <3>4
  <2>3. p \in Wanted(q) <=>
          /\ p \in q.paths /\ docs[p] # NoDoc /\ docs[p] \in q.docs
          /\ q.filtered \/ n # 0
          /\ \A i \in 1..n : \E t : About(i, t) /\ Tf[docs[p]][t] > 0
    <3>1. q.terms # << >> <=> n # 0
      BY <1>1, EmptySeq
    <3>. QED BY <1>1, <3>1 DEF Wanted
  <2>. HIDE DEF About
  <2>4. CASE docs[p] = NoDoc
    <3>1. \A i \in 1..n : \A t : About(i, t) => inverted[t][p] = 0
      BY <2>1, <2>4 DEF PostingsOK, TfOf
    <3>2. \A i \in 1..n : ~(TermScore(q.terms[i], i = n, p) > 0)
      BY <2>2, <3>1
    <3>3. n # 0 => n \in 1..n
      BY <1>1
    <3>. QED BY <2>3, <2>4, <3>2, <3>3
  <2>5. CASE docs[p] # NoDoc
    <3>1. \A i \in 1..n : \A t : About(i, t) => inverted[t][p] = Tf[docs[p]][t]
      BY <2>1, <2>5 DEF PostingsOK, TfOf
    <3>2. (\A i \in 1..n : TermScore(q.terms[i], i = n, p) > 0)
            <=> \A i \in 1..n : \E t : About(i, t) /\ Tf[docs[p]][t] > 0
      BY <2>2, <3>1
    <3>3. n = 0 => 1..n = {}
      BY <1>1
    <3>4. p \in hits <=> (q.filtered \/ n # 0) /\ \A i \in 1..n : TermScore(q.terms[i], i = n, p) > 0
      BY <2>5, <3>3
    <3>. QED BY <2>3, <2>5, <3>2, <3>4 DEF Passes
  <2>. QED BY <2>4, <2>5
<1>6. D = Wanted(q)
  <2>1. D \subseteq Note /\ Wanted(q) \subseteq Note
    BY DEF Wanted
  <2>. HIDE DEF D
  <2>. QED BY <1>5, <2>1
<1>7. Scores(q) = [p \in D |-> score(p)]
  BY DEF Scores
<1>8. D \subseteq Note
  OBVIOUS
<1>. HIDE DEF D, score
<1>. QED
  BY <1>4, <1>6, <1>7, <1>8

\* SearchComplete: a search returns only what matches and the caller may read,
\* and all of it, unless the limit is reached or more match than the index
\* returns.
THEOREM SearchFinds == Spec => []SearchComplete
<1>1. ASSUME TypeOK, PostingsOK, Few
      PROVE  SearchComplete
  <2>. SUFFICES ASSUME NEW q \in Query, NEW limit \in Limit, NEW allowed \in SUBSET Note
       PROVE  LET found == ServiceSearch(q, limit, allowed) IN
                /\ Range(found) \subseteq Wanted(q) \cap allowed
                /\ \/ Range(found) = Wanted(q) \cap allowed
                   \/ Len(found) = limit
                   \/ Cardinality(Wanted(q)) > Overfetch * limit
    BY DEF SearchComplete
  <2>1. limit \in Nat /\ Overfetch \in Nat
    BY VaultIndexAssumption DEF VaultIndexAssumption
  <2>2. PICK D : D = Wanted(q)
    OBVIOUS
  <2>3. D \in SUBSET Note /\ IsFiniteSet(D) /\ Cardinality(D) \in Nat
    <3>1. D \in SUBSET Documents
      BY <2>2 DEF Wanted, Documents
    <3>2. IsFiniteSet(D)
      BY <1>1, <3>1, FS_Subset DEF Few
    <3>. QED BY <2>2, <3>2, FS_CardinalityType DEF Wanted
  <2>4. PICK s : s = Ranked(Scores(q))
    OBVIOUS
  <2>5. s \in Seq(D) /\ Len(s) = Cardinality(D) /\ Range(s) = D
    <3>1. Scores(q) \in [D -> Nat]
      BY <1>1, <2>2, ScoresWanted
    <3>. QED BY <2>3, <2>4, <3>1, RankedAre
  <2>6. PICK m \in Nat : m = limit * Overfetch /\ m = Overfetch * limit
    BY <2>1
  <2>7. PICK first : first = FirstOf(s, m)
    OBVIOUS
  <2>8. /\ first \in Seq(D) /\ Range(first) \subseteq D
        /\ ~(Cardinality(D) > m) => first = s
    <3>1. ~(Cardinality(D) > m) => Len(s) <= m
      BY <2>3, <2>5
    <3>. QED BY <2>5, <2>7, <3>1, FirstAre
  <2>9. PICK out : /\ Readable(first, limit, allowed) = out
                   /\ Range(out) \subseteq Range(first) \cap allowed
                   /\ Len(out) = limit \/ Range(out) = Range(first) \cap allowed
    BY <2>1, <2>8, ReadableAre
  <2>10. ServiceSearch(q, limit, allowed) = out
    BY <2>4, <2>6, <2>7, <2>9 DEF ServiceSearch, IndexSearch
  <2>. QED BY <2>2, <2>5, <2>6, <2>8, <2>9, <2>10
<1>. QED
  BY <1>1, IndexInvariant, FewDocuments, PTL
=============================================================================
