# A specification of obsidian-web

TLA+ models of the parts of obsidian-web whose behaviour depends on the order
in which requests, timers, file events, crashes and administrators act, with
TLC configurations that check them on small instances and TLAPS proofs of what
matters most. Paths below are relative to `src/packages/` unless they begin
with `apps/`, `docs/` or `plans/`.

## 1. Inventory

| Component | State | Operations | Works with |
|---|---|---|---|
| **Note service** `core/service.go` | path locks, metas, `historyMu` and the attached history, external-edit timers, rules | SaveNote, CreateNote, DeleteNote, RestoreNote, RestoreDeleted, Trash, PurgeTrash, CreateFolder, HandleFSEvent, ReindexAll, SetHistory, DetachHistory, queries | vault, indexes, history, bus |
| **Vault and watcher** `filesystem/` | the directory; watched directories, write timers | Read, Write, Mkdir, Delete, Walk; handle, debounced | emits events to HandleFSEvent |
| **Git history** `history/` | repository, staging area, trash index, one mutex | Open, Record, Log, FileAt, Diff, ChangesIn, Deleted, PurgeDeleted | called by the note service |
| **Plugin manager** `plugins/manager.go`, `plugins/builtin/git_history.go` | plugins, which are active, one mutex | InitAll, SetEnabled, Restart, CloseAll; Enable, Disable | attaches history to the note service |
| **ACL and user store** `acl/store.go` | users, groups, roles, rules, plugin states, tokens, fingerprint of users.yaml | Reload, Save, some thirty setters, Access | API, hub, manager |
| **Event bus** `core/events.go` | subscribers | Subscribe, Publish (synchronous) | service to hub and plugins |
| **Websocket hub** `websocket/hub.go` | clients, presence, bounded channels | register, unregister, inbox, broadcast, trySend | bus, ACL, browsers |
| **Authentication** `auth/`, `api/ratelimit.go` | token versions, setup token, failed logins | login, validate, Allow, Fail, Reset | ACL store, API |
| **REST API** `api/` | none of its own but the limiter | permission checks, then one service call | everything |
| **Link and search index** `links/`, `search/` | names, aliases, links; posting lists | Update, Remove, Resolve, Index, Search | note service |
| **Text helpers** `markdown/`, `shared/`, `templates/`, `obsidian/` | none | render, split and upsert frontmatter | note service, API |
| **Settings, server, CLI, SSO service, web client** | configuration; wiring; browser state | load, start, commands, sign-in, edit | API |

What makes each correct, and what makes that hard:

- *Note service.* Mutations of one note do not overlap; a save never replaces
  content its caller has not seen; disk, index and history agree when nothing
  is in progress; a deleted note can be restored; every request returns. Hard:
  each request is a dozen accesses to shared state, other programs write the
  same directory, writes and commits fail half-way.
- *Git history.* Whatever the trash lists can be restored; nothing is committed
  under another note's name; a lost index can be rebuilt. Hard: repository,
  staging area, index file and vault are four stores without a transaction.
- *History capability.* What runs is what is stored; revisions go through the
  attached backend only; toggling ends. Hard: three mutexes, two of them taken
  in different orders, and an RWMutex taken twice by one caller.
- *Watcher.* The index eventually equals the disk. Hard: debounce timers, events
  out of order, events for the service's own writes.
- *Hub.* Presence names only connected clients; a slow client holds up nobody;
  whoever is kept ends up with what was said last. Hard: clients vanish in two
  places, queues drop, a channel may be closed once only.
- *ACL store and API.* API writes never clobber manual edits; memory equals file
  after a successful setter; a revocation lasts; what is reported as a user's
  access is what the endpoints enforce. Hard: fingerprint and rename are two
  steps, setters change the memory before they save, handlers look first and
  call a setter later, and three places compute what a role is worth.
- *Indexes.* Links, documents and metadata of a note are of one content; a link
  leads to what exists; a search finds all that match. Hard: three mutexes one
  after the other, names that several files share.

The hazards of the code, each at its line and with the properties that cover it
or the reason why none does, are listed in `PROJECT.json`.

## 2. Plan

Done, in this order (sections 3 to 5): `History` (what the service may expect of
a backend), `NoteService` (the requests), `NoteRegister` (what callers see),
`GitHistory` (the backend, shown to implement `History`), `HistoryCapability`
(historyMu and the toggle), the first proofs about those two and NoteService,
`VaultSync` (the watcher and its timers, on top of NoteService), `Hub` (the
event bus's subscriber, connections and presence), `AclStore` (users.yaml, its
setters and rules, as functions) under `Sessions` (handlers, saving, tokens),
and `VaultIndex` (the three indexes and the jobs that update them).

What composes what: NoteService uses History's operators and implements
NoteRegister; GitHistory implements History; VaultSync extends NoteService;
Sessions extends AclStore. HistoryCapability, Hub and VaultIndex stand alone:
the first looks at the locks of the note service, the second at what its events
become, the third at what its index updates do.

Proved: every invariant and action property of the passing runs, and both
refinements, each in the proof module of its component: first the service and
the capability, then Hub, GitHistory, VaultIndex, Sessions, and on top of the
service VaultSync and NoteRegister. No module uses RECURSIVE. What is left to
TLC is liveness (section 5).

Left for later, as models: the web client's edit protocol against NoteRegister,
and the aggregation of properties in the search index against a reference.

## 3. What is modelled

**`NoteService`** — `core/service.go`. `pc[u]` is where the goroutine of user u's
request is; every action is one access to something other goroutines can see.
SaveNote is StartSave, Acquire, CheckExists, CompareSave, Truncate, Write,
IndexNote, RecordRevision; DeleteNote is StartDelete, Acquire, RemoveFile,
Unindex, RecordRevision; RestoreNote adds CompareRestore and SnapshotEdits;
CreateNote is StartCreate, Probe (the name loop) and then Truncate onwards,
without Acquire, as in the code. Write is two steps because os.WriteFile is: it
truncates, then writes; the data goes nowhere when another program has removed
or replaced the file in between (WriteLost). `Edit` is another program writing
the vault at any moment; `WriteFails` and `RecordFails` are a full disk and a
failed commit. A write that fails leaves the file as it was (it could not be
opened), or one of `Pieces` of the content (it was opened, hence emptied, and
the disk became full); callers send whole contents.
Abstractions:

- A content is its SHA-256 hash (taken as injective), so base hashes are contents.
- The link, search and metadata indexes are one: the content each note was last
  indexed with. VaultIndex is about the three.
- The authorship and frontmatter rules are the constant `Stamp`; the runs use the
  identity (rules off) and a rule that changes what a save stores and leaves a
  stamped note alone. The proofs hold for any Stamp.
- Publishing an event changes no state of the service; what becomes of it is
  Hub's part. ListNotes, GetNote, Search and the other queries change nothing.
- History is `History`, whose operations are atomic because the backend has one
  mutex. A failed commit is a commit that did not happen; that it leaves its
  change staged is part of GitHistory.
- An error of Close after all was written (the disk then holds the new content,
  and the request returns an error) is left out.
- Bounds: MaxRequests, MaxEdits, MaxFaults, and the length of Names for the name loop.

**`VaultSync`** — `filesystem/watcher.go`, HandleFSEvent and
recordExternalDebounced, on top of NoteService: it extends that module, and each
step of a request or an edit also appends what the operating system reports of
it to `events` (`ServeOn`, `ServeFails`, `EditSeen`). `Loop` is the watcher's goroutine: Take
handles creations and removals itself (ReadChanged, IndexChanged, ArmExternal;
UnindexRemoved, RecordExternal) and arms `writeTimer[p]` for a write. `Callback`
are the goroutines of timers that fired: WriteSettles and EmitWrite for the
watcher's 250 ms timer, then the same handler; ExternalSettles, ForgetExternal
and RecordExternal for the service's 45 s timer. A timer may expire at any
moment after it was armed, so no property depends on the two durations. Go's
Reset on a timer that has fired arms it again, and the callback deletes the map
entry by path: `orphans` counts armed timers that are in the map no more.
`missed` and `overtaken` record that a change came before the watcher started,
and that two updates of one note's index crossed. Left out: subdirectories,
renames (one removal and one creation), non-markdown files, an overflow of the
operating system's queue, Close and the timers that DetachHistory stops. Bounds:
those of NoteService and the number of callbacks that run at once.

**`History`** — the interface of `core/history.go`: per note, its revisions and
what the trash brings back. It is used twice: NoteService calls its operators,
GitHistory refines it. **`NoteRegister`** — the service as callers see it: each
request takes effect at one instant, a save with a base is a compare-and-swap,
a create takes its first free name.

**`GitHistory`** — `history/git.go` and `history/trash.go`. State: the vault, the
chain of commits (each with its tree), the staging area, the trash index file.
All four survive `Crash` and `Stop`; the call in progress does not. One backend
serializes its calls with a mutex, so one program counter is enough; `Change` is
the vault changing between any two steps. Open is InitRepo, StageAll, CommitAll,
InitTrashIndex or OpenRepo, InitTrashIndex; Record is StartRecord, Read, Stage,
CommitStaged, UpdateTrashIndex. go-git is external: staging reads the file
again, removing stages a deletion and deletes the file, and an empty commit is
an error. Commit messages are abstracted to their action and path (creations,
saves and restores are alike to this module), times and hashes to positions in
the chain, and scanMaxWalk = 2000 to the constant ScanMaxWalk. The limit and
order of the listing are left out. The mode "external" makes Record return at
once and is not modelled. A Record may be named "delete" although the file has
come back (the watcher names by event); a rebuild goes by such names, which is
why EntriesRestorable asks for NamesTrue once the index was lost. Bounds:
MaxEdits, MaxRecords, and MaxTroubles for crashes, failed writes, lost indexes
and changes under a call together.

**`HistoryCapability`** — historyMu, the path lock of one note, the manager's
mutex, the stored state and the attached backend. Go's RWMutex is modelled as it
is documented: a waiting writer keeps new readers out, and a reader that comes
back counts as new. Users save, delete, record (timer, watcher, CreateNote),
restore, or look the backend up and use it outside the lock; administrators
switch on, off or restart, and opening a backend or saving the state can fail.
InitAll and CloseAll run while nothing else does and are left out, as are the
timers DetachHistory stops. A request that changes settings and the
state at once is two toggles here. Bounds: MaxFailures, MaxUnsaved.

**`Hub`** — `websocket/hub.go` and `core/events.go`. A client is one connection.
One goroutine (`run`) takes a registration, an unregistration, an inbox message
or a broadcast at a time (Register, Unregister, TakeInbox, TakeBroadcast), and
then notifies of every path it has touched (Notify) before it selects again
(`Selecting`). `FanOut` is trySend to every client that may know. Readers put
presence messages into the inbox or drop them (Read); Publish runs in the
publisher's goroutine and drops an event when the hub's queue is full; writers
deliver (Deliver), and close the connection when the channel is closed and
empty (CloseConnection). A connection breaks at any moment (Disconnect).
Closing or sending to a closed channel would be `panicked`, after which nothing
happens. Abstractions: messages that are not presence, or name no path, are
skipped by the code and left out; the writer's end is part of Disconnect, and
taking a message from the channel part of writing it; the queue of a connection
that has ended is emptied; ping and pong are Disconnect. `view` and `heard` are
what the browser was told: Unknown until it is told of a path first, and the
events up to its connection are those it has loaded by itself. Bounds: the
capacities, MaxMessages, MaxEvents.

**`AclStore`** and **`Sessions`** — `acl/store.go`, `auth/auth.go`, and what
`api/router.go`, `admin.go`, `service.go`, `handlers.go` and `ratelimit.go` do
with them. AclStore is a store as a value, the setters of Store as functions
from a store to a store, `Access` (the first matching rule), `HasPermission`,
and the three places where a role is turned into permissions. Sessions runs
them: a handler looks at the store (its checks are one step, at the end of
which it calls the setter), the setter changes the memory (`Apply`, or it
refuses), and Save is SaveChecks (the stat), SaveWrites (the rename) and
SaveStamps (the second stat) under the mutex; SaveFails is an I/O error.
AdminReload reads the file, without the mutex, and ReloadSets puts it in place.
Restart is Load and SeedRoles (a start whose Save fails ends the process and
leaves the file as it was); Edit and Remove are the administrator's editor. Login, RedeemCode,
AttemptFails and IssueSession are the ways to a session and to none, with the
limiter's check before the password or the code and its count after it; counted
failures age out one by one (WindowPasses). `Served` is what a request to
an endpoint passes: requireWith, then the folder access its handler asks for.
Abstractions: the fingerprint (time and size) is a version number, so edits that
keep both are excluded; a password is whether the account has one; expired
tokens are no longer presented; globs are the sets of paths they match.
OIDC subjects, descriptions, the order of lists and plugin settings are left
out, as is that administrators cannot delete themselves. What the properties
must know of the past is in ghost variables: `seen` and `file.edits` (which
manual edits are in memory and in the file), `raced` (edits in the windows
below), `stale` (a Reload or a Save was overtaken: it took the fingerprint of a
file it had neither read nor written, be it a manual edit or what another Save
wrote), `dirty` (a Save failed), `crossed` (users a change of whose tokens
crossed a Reload: it was saved while a Reload stood between its read and its
critical section, or was not saved yet when a Reload replaced the store or
DeleteUser dropped the account), `acked` (what callers were told). Manual edits
leave tokens alone, as far as the models go: what else they change does not
matter to the properties. Bounds: MaxRequests,
MaxEdits (also of reloads and restarts), Attempts.

**`VaultIndex`** — `links/index.go`, `search/index.go` and indexNote. A job is a
request or the watcher with what it has read or written of a note: UpdateLinks,
UpdateSearch and UpdateMeta are its three critical sections, for an update or a
removal. Attachments are in the link index only (Attach). The maps byName,
byAlias, outgoing, docs and inverted are those of the code, the last with 0 for
no entry. What the parsers find in a content (links, aliases, occurrences of
tokens, five for those in a title, tag or alias) are constants, and so are the
forms of a link target (`Resolve` says which form is tried when: the path, the
path with `.md` behind it, the name, the alias) and the filters of a query. A
query with neither terms nor filters finds nothing. Scores are in halves, because a prefix match counts one half.
`latest` and `crossed` record who was registered under a name last, and which
notes two jobs were at together. Where a job's content comes from is VaultSync's
part: here it is any.

**Not modelled**

- Text: rendering, frontmatter, templates, query syntax, snippets, globs. Pure
  functions of their input; where a model needs one it is a constant.
- The aggregation of frontmatter properties (`search/index.go:307`): a function
  of the documents.
- Settings, command line, start-up beyond what Restart and SyncInit say, plugin
  SDK and the stateless plugins: no shared state, or one goroutine.
- The SSO service: a process of its own, mostly library code; what it asks of
  the server is the service API of Sessions.
- The web client.
- ReindexAll beside requests: start-up and the command line run it alone.

## 4. What the runs check

| Run | Instance | Shows |
|---|---|---|
| `NoteServiceLocked` | fair, 2 users, 1 note, 4 contents of which one is empty and one a piece that only a failing write leaves, at first no note, an empty or a whole one (`StartedSpec`; the other whole content is symmetric), save/delete/restore, 3 requests, 1 fault | the service's safety, that it implements NoteRegister, and that every request is answered |
| `NoteServiceSolo` | 1 user, 2 notes, every request, 3 requests, 1 edit, authorship on | creation under rules with one user; a restore records the edit it overwrites |
| `NoteServiceCreates` | 2 users, save and create | *violated*: MutationsSerialized |
| `VaultSync` | fair, 1 user, 1 note, 3 contents (one empty, one a piece), 1 request (save or delete), 1 edit, 1 failure, 1 callback beside the loop | the system comes to rest; then history holds the disk, and the index does unless updates crossed |
| `VaultIndex` | 2 jobs, 2 notes of one name in two folders, 1 attachment, 2 contents, 2 tokens of which one begins the other, 5 targets, 5 queries (one asks for nothing), Overfetch 2 | the indexes agree, links lead to what exists, searches are complete |
| `Hub` | fair, 2 clients, 2 paths of which one client sees one, capacities 1, 2 messages, 2 events | no panic, views converge, ghosts have one of two causes, endings are noticed |
| `HubGhosts` | the same | *violated*: NoGhosts |
| `Sessions` | 2 requests at once, 1 user in the store and 1 in config.yaml, 1 custom role, rules of both kinds, 2 requests, 1 edit, 1 reload or restart, 1 attempt | edits are kept outside the windows, memory is the file, revocations last unless a change of the user's tokens crossed a Reload, reports are what is enforced |
| `GitHistory` | 2 notes and 2 contents (symmetric), both purgeable, 3 changes, 3 records, 2 troubles | the backend's safety, and that it implements History until the first trouble |
| `GitHistoryHealed` | 1 note, no trouble | *violated*: RedeletedShowsUpAgain |
| `HistoryCapability` | fair, 2 users, 1 administrator, 2 backends, 2 failed opens, 1 unsaved state | attached backend, stored state, lock counts, and progress without restores |
| `HistoryCapabilityRestores` | fair, 2 users, 1 administrator | *violated*: ToggleReturns |

*Why the bounds are enough.* A path lock relates requests to one note, so two
users on one note meet every pair of steps, and a third request begins after or
between the two; more users add only more waiters. Trash behaviour needs a
delete, a return of the note and another delete: three requests or records.
In VaultSync the loop,
one callback, one request and one edit are four actors on one note: enough for
every pair of index updates to cross, for a Reset between a timer's firing and
its callback, and for events that are older than the disk.
In Hub a channel of capacity one is full after one message, so every drop
happens; two clients are one that is slow and one that sees it, and two messages
are one that is taken and one that waits. In Sessions two requests are a change
and what it meets: another change, a login, a reload, while an edit by hand
comes at any of their steps; one attempt makes the second the one too many. The
store starts as seeded, or with a user who has a role of their own, a token and
rules. In VaultIndex two jobs meet in every order of their three sections, and
two namesakes replace and outlive each other; with Overfetch 2 (the code: 4)
and a limit of one, an access filter that takes away half is the most two notes
can show. GitHistory's troubles come in pairs (a crash and a lost index, a failed commit
and a crash). Each property is also run against a plausible slip in the code
(the operators marked "A slip"), which must violate it: the bounds are large
enough for each slip to show.

*Where the system may stop.* The runs with bounds end when those are used up, so
deadlock is not checked; that requests get stuck is what EveryRequestAnswered
and AllReturnWithoutRestores are about, and EndingsNoticed for the hub. Only
VaultIndex never ends, and there deadlock is checked.

*Conditions in properties.* `edits = 0`, `faults = 0`, `races = 0` say which
outside interference a promise does not survive: the code does not lock out
other programs. They are conditions on the past, never on bounds.
`Agreement` needs both; `NoLostUpdate`, `SignedContents`, `StaleOnlyWhenTruncated`
and `ImplementsRegister` survive faults but not edits (an edit between the write
and the record of a request is signed by its caller, and one after SaveNote's
comparison is overwritten); `EditsSnapshotted` allows the one edit it is about;
`MutationsSerialized`, `TrashIsLastContent` and the liveness property survive
everything. EntriesRestorable and RecordCaptures survive crashes and failures.
GhostsExplained names the two causes of a ghost, EditsKept the windows in which
an edit is lost, RevokedStayOut the changes that crossed a Reload, IndexesAgree
the crossing of two jobs at one note, and ReportedIsEnforced two roles nobody
would define on purpose: each is what the code does, and the property says that
nothing else is needed.

*Fairness.* Weak fairness for the steps of a request that needs no lock (the Go
scheduler runs every goroutine). Strong fairness for taking a lock: sync.Mutex
goes into starvation mode after a millisecond and hands itself to the oldest
waiter, and RWMutex.Unlock lets in the readers that were waiting before the next
writer. In VaultSync also: the
watcher is started, its loop takes events, armed timers expire and their
goroutines run. In Hub the hub's own goroutine, and no browser, reader or
writer. Nothing is assumed of callers, administrators, edits or
failures.

### Where code and documentation disagree

1. `CreateNote` mutates notes without the path lock (`core/service.go:136` says
   the lock serializes mutations): `NoteServiceCreates`.
2. The trash self-heal can lose a deleted note's entry for good
   (`docs/adr/0005-explicit-trash-index.md:30`): `GitHistoryHealed`. It takes a
   deletion, a recreation from outside, a look at the trash, and a deletion
   before the watcher's debounce recorded the recreation.
3. `SetHistory` and `DetachHistory` against a running `RestoreNote` deadlock
   (`core/service.go:86`): `HistoryCapabilityRestores`. All other requests are
   fine, which is what `AllReturnWithoutRestores` shows.
4. Presence of a connection that is gone can stay for ever
   (`plans/01-safe-collaboration.md:148` and `:202` promise two minutes):
   `HubGhosts`. GhostsExplained shows that a slow client that was dropped and a
   message taken after its client left are the only causes.

Six more are known from runs that are no longer kept, because the properties
above state the same behaviour with its condition:

5. An outside edit that is handled while a request is between its write (or
   removal) and its index update leaves that note's index stale, and no event
   remains to repair it (`docs/adr/0002`: the watcher reconciles concurrent
   writers). `IndexConverges` without `~overtaken` is violated by it.
6. The watcher can record the deletion a user asked for as external before
   DeleteNote records it (`core/service.go:18`): in VaultSync with no edits and
   one delete, a revision signed External appears.
7. Two administrators can leave stored and running state different
   (`api/admin.go:526`): StoredMatchesRunning with `Admin = {a1, a2}` is violated.
8. A manual edit of users.yaml between Save's stat and its rename, between the
   rename and the second stat, or between Reload's read and its stat, is
   overwritten by that Save or the next (`acl/store.go:276`: "API writes never
   clobber manual edits"): `EditsKept` without `raced` is violated.
9. A restart whose opening fails is retried once, and the error of the retry is
   dropped (`api/admin.go:514`): when it fails too, nothing runs and the plugin
   stays stored as on (`api/admin.go:526`): StoredMatchesRunning without
   `failures <= 1` is violated. `StoredMatches` proves that, with one
   administrator, this is the only way.
10. A revocation that was answered "ok" can be taken back by a Reload
   (`acl/store.go:413`: "BumpTokenVersion invalidates every session and API token
   of a user"; `docs/access-control.md:52`: "instantly"): RevokedStayOut without
   `c.user \notin crossed` is violated. Reload reads users.yaml without the mutex
   (`acl/store.go:220`). A revocation saved and answered after that read is
   replaced in memory by what was read (`acl/store.go:258`), and the fingerprint
   then taken is that of the new file (`acl/store.go:267`), so the sessions are
   accepted again and the next Save writes the old version back. Or the Reload
   comes whole between the setter's change and its Save, which then saves the
   store without the change and answers "ok". No manual edit is needed for
   either. `RevocationsHold` proves that nothing else takes a revocation back.

Also worth knowing, without a document that says otherwise: finding 10 is not
about tokens only, any setter's change can cross a Reload and be answered "ok";
sessions of a user who is not in the store any more are accepted until they
expire; a built-in role whose permissions were emptied is worth its built-in
permissions (`auth/auth.go:142`), and a role that may edit but not read is
reported as a writer.

## 5. What is proved

Every safety property the runs check, invariants and action properties alike,
is a theorem for every value of the constants, and so are the refinements of
`NoteRegister` and `History`. Each proof module EXTENDS the module it is about.
The proofs assume the named ASSUMEs of those modules, and what is listed at the
end of this section.

**`NoteServiceProofs`**

- `TypeCorrect`. The lemmas LatestType and RecordType say what History's
  operators return.
- `LocksHeld`, `Serialized`: MutationsSerialized is not inductive by itself; two
  requests between Acquire and Write must be known to hold the lock of their
  path. `LockHeld` says that, for every step from the first look at the note to
  the answer, and that only a create looks for names. With TypeOK it is
  inductive; two holders of one lock are one user. What the proofs below need of
  locks is `Apart`: no two requests that look at a note or change it are at one
  note. `KeptApart` proves it of Spec where creates cannot come between requests
  (`CreatesAlone`: nobody creates notes, or there is one user). The lemmas
  AgreeApart, ProgressInvariant and RecallInvariant say `Spec /\ []Apart => ...`,
  for any users and requests: CreateNote's missing lock breaks those promises of the
  service by letting two requests meet, and in no other way.
- `Agree`: Agreement speaks of notes nobody is changing, so the induction needs
  what each request in progress has done already: `InProgress` (a request about
  to index has written, one about to record has indexed). Apart is what keeps
  one user's step from disturbing another's progress (OwnNoteStep).
- `NoUpdateLost`, `IndexFollowsDisk`: InProgress does not survive failed writes;
  `Progress` does. It says for each step of a request what its note is then
  (`Worked`: the base it was compared with, empty, what will be stored), as long
  as nobody edits the vault, and `StepsFit` says which request can be where.
- `TrashCorrect`: TrashIsLastContent is inductive over History's operators alone,
  so it holds whatever interleaves above them, creates included.
- `OverwritesAreInHistory`, `DeletesAreRestorable`, `SignaturesHold`: `Recall`
  says what a request still knows from its read (`Remember`: a delete saw what
  history holds last; a restore saw what history holds or is to snapshot). The
  last two are action properties of the step that records.

**`NoteRegisterProofs`** — `Implements`: `Spec => ImplementsRegister`. The
linearization point of a request is its write (or removal), of a refused one its
comparison; every other step is a stutter of the register. One lemma per kind of
step (begin, effect, refusal, answer), each resting on Worked and Apart: at the
write, the register's guard, that the note is still the base, is what NoLostUpdate
says. A create looks for its name in many steps, and the register takes the first
free one at once: `NamesTried` says that the names passed over are still taken and
the one that was found is still free, which needs that nobody else is about. Two
users who create could not refine the register even if they never met at a note,
because a name passed over may become free before the other one is written. As in
the property, the register is followed until the first edit.

**`VaultSyncProofs`** — of `SyncSpec`, which extends the service, so every lemma
about a request's step is used again under the watcher.

- `SyncTypesHold`. `Listening`: no request runs before the watcher has started.
- `HistoryFollows`: `RecordOK`, what history does not hold is pending: an event,
  an armed timer or a goroutine will record that path.
- `IndexFollows`: `IndexOK`. The difficulty is a removal that is handled late, of
  a note that is there again: `Ordered` says that each removal of such a note in
  the queue has a creation or a write after it (`Trailed`), and one that is being
  handled has one in the queue. With that, `Follows` is inductive: the index
  equals the disk and nobody is about to change that (`Level`), or somebody will
  read a note that is there, or take out one that is not.

**`VaultIndexProofs`**

- `LinksLead`: `LinksOK` says which names a path may be registered under, so that
  unregistering it under those leaves no name behind.
- `OneContent`: `PostingsOK` for the posting lists; `JobsOK` says, for a note that
  was not crossed, which of its three indexes the job at it has brought to its
  content already.
- `SearchFinds`: the sums and loops of a search are folds, the ranking is a CHOOSE
  of an ordered enumeration, and neither can be unfolded. `FoldDefined` shows that
  the function a fold is defined by exists, by a least counterexample (`Least`, from
  the library's well-founded order on the naturals); `SumPositive`, `MaxIs` and
  `ReadableAre` characterise the sum, the maximum and the loop over results the
  same way. `RankedAre`: the place of a note (how many do not come after it) is an
  injection into as many places, hence onto them, so the ordered enumeration exists
  and holds every scored note once. That the documents are finitely many at any time
  is an invariant (`Few`), not an assumption.

**`HubProofs`**

- `HubNeverPanics`, `HubGhostsExplained`: `ConnectionsOK`. A client leaves the
  hub's set at the moment its channel is closed, so registered and closed are
  disjoint, and nothing is sent to or closed but a registered client.
- `HubViewsConverge`: what is under way ends in what is so. `EndsIn(s, M, G)`: the
  last message of M in queue s is in G. `PresenceUnderWay` and `EventsUnderWay`
  say that of every client's channel and of the hub's queue, and that a client with
  nothing under way about a path knows it; a dropped message takes its client
  (or, at the hub's queue, its path) out of the claim.

**`SessionsProofs`**

- `TypesHold`: with the types, that failures counted and requests let in before
  never exceed the limit plus the other requests (`FailuresOK`).
- `EditsStay`: `EditsOK`, which edits each fingerprint in memory, in a Save and in
  a Reload vouches for.
- `MemoryMatches`: `MatchOK`. One request is between the stats of its Save (they
  are under the mutex), and what it is about to stamp is what memory holds.
- `RevocationsHold`: `JtisOK` (identifiers of tokens are new: nothing anywhere
  mentions one that was not given out) and `AckedOK` (what was answered fits
  memory, and the file too, since a restart or a Reload makes it memory; what is
  pending is in memory), for users whose changes crossed no Reload. Such a user's
  revocation may be lost (finding 10). Each setter keeps versions and
  revocations (`Keeps`), one lemma per setter.
- `ReportsHold`: needs no history; it is a fact of the three places that turn
  roles into permissions, for every well-formed store.

**`GitHistoryProofs`**

- `TypeCorrect`, with `RepoOK`: which steps of Open find a repository, a commit, an index.
- `NothingStaged`: `StagedOK`. `Captured`: `RecordOK`, what Record knows at each
  step of the note, the staging area and HEAD.
- `TrashRestorable`: an entry names a commit that changed its path (`IndexOK`,
  from `CommitsOK`: a commit named a deletion changed the path it names) and,
  while the index was never lost, one that removed it (`RestorableOK`). A rebuild
  goes by names, so after a loss NamesTrue stands in for the latter.
- `RebuildKeeps`: a rebuild takes the newest commit named a deletion (a maximum
  over the walk); `lost` names one of those it looks at.
- `Implements`: `Spec => ImplementsHistory`. The revisions of a note are the commits
  that changed it, counted: the nth is the commit with n of them up to it, so a new
  commit adds one at the end (`RevisionsGrow`) or none (`PlacesStay`) without an
  induction over the chain. The invariant: the newest revision is what HEAD holds
  (`LatestOK`), a Record stages its own note only (`OnlyOwnStaged`), entries restore
  (`RestorableOK`), and the index is missing only before the first rebuild
  (`FirstIndex`). A Record takes effect at its commit; its entry in the trash is
  shown from then on, and the step that writes the index is a stutter, as is the
  rebuild of the first index.

**`HistoryCapabilityProofs`**

- `ReadLocks`: `readers[u]` is exactly what u's step calls for. The invariant adds
  which steps belong to which request (`StepFitsRequest`).
- `AttachedRecords`: a change of the attached backend waits for `readers` to be
  zero, and ReadLocks says that a recording user counts. `TypeCorrect`.
- `StoredMatches`: `ManagerHeld` (who is in the manager's mutex, and that what is
  active is attached) and `Toggling` (for each step of a toggle, its retry and its
  rollback: what it wants, what was stored and what is, and how often opening
  has failed). The proof attempt showed that the property as it was stated before
  was false with two failures; see finding 9.

*Assumptions of theorems.*

- `CreatesAlone` (nobody creates notes, or there is one user): Serialized, Agree,
  NoUpdateLost, IndexFollowsDisk, OverwritesAreInHistory, DeletesAreRestorable,
  SignaturesHold, and Implements of NoteRegisterProofs. CreateNote takes no lock
  (finding 1), and with two users who create most of these are false.
  `NoteServiceLocked` is an instance of the first case, `NoteServiceSolo` of the
  second.
- `External \notin User`: SignaturesHold. The service signs outside edits with
  "external" (`core/service.go:20`), and nothing keeps an account from that name:
  its revisions could not be told from those.
- One administrator (`\A a, b \in Admin : a = b`): StoredMatches (finding 7).
- In ASSUMEs: `EntryAssumption`, that "no entry" and "no index" are not among the
  entries and indexes; in `ServiceAssumption`, that the names CreateNote tries are
  distinct (`core/service.go:285`: "name", "name 1", ...); in
  `VaultIndexAssumption`, that the forms of a link target are names, that a content
  holds finitely many tokens, that the terms of a query are a sequence of tokens, and
  that limits are positive (`core/service.go:505` puts 20 for any other); in `SessionsAssumption`, that rules have passed validateRules
  (`acl/store.go:309`, `RulesOK`), that roles of config.yaml are roles, that requests are
  finitely many, and that a token of the initial store has the one identifier,
  0, that the run itself never gives out.

*Only model-checked*, and why:

- Liveness: EveryRequestAnswered, SettlesDown, EndingsNoticed,
  AllReturnWithoutRestores. Fairness (ENABLED) is beyond the prover.

## 6. Running it

    tlc -workers 2 -config NoteServiceLocked.cfg MCNoteService
    tlapm NoteServiceProofs.tla

Each run takes from seconds to about three minutes. `PROJECT.json` lists the runs
with their properties, the slip each property detects, the lines each
definition models, hazards, findings and theorems.
