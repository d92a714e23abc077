------------------------------ MODULE Sessions ------------------------------
(***************************************************************************)
(* The administration and the login of packages/api over the store of      *)
(* packages/acl: handlers that look at the store, change it in memory and  *)
(* save it, each in a critical section of its own; users.yaml, which is    *)
(* also edited by hand; and the tokens that are out.                       *)
(***************************************************************************)
EXTENDS AclStore

CONSTANTS
  Thread, Code,
  Nothing, CodeKey,  \* no user, no token; the limiter's key for codes
  InitialStores,   \* what users.yaml may hold when the server starts
  CustomPerms, Assigned, Ceilings,  \* what administrators choose: permission
                   \* lists, roles of users, ceilings of service tokens
  Attempts,        \* failures the limiter allows in its window (10 in the code)
  MaxRequests, MaxEdits   \* bounds: requests; manual edits, reloads and restarts

ASSUME SessionsAssumption ==
  /\ Nothing \notin User \cup Jti /\ CodeKey \notin User
  /\ \A s \in InitialStores :
       StoreOK(s) /\ \A u \in DOMAIN s.users : s.users[u].valid \cup s.users[u].revoked \subseteq {0}
  /\ << >> \in RuleList
  /\ (\A rules \in RuleList : RulesOK(rules))
  /\ Partial(StaticRole, User, Role) /\ IsFiniteSet(Thread)
  /\ CustomPerms \subseteq SUBSET AllPermissions /\ Assigned \cup Ceilings \subseteq Role
  /\ Jti = 0..MaxRequests /\ Attempts \in Nat \ {0} /\ MaxRequests \in Nat /\ MaxEdits \in Nat

VARIABLES
  mem, stamp,     \* the store in memory; the version it was loaded from, 0: no file
  seen,           \* the manual edits it was loaded with
  file, clock,    \* users.yaml, its version and content; the last version used
  req,            \* req[t]: what request t is at, with what it has read
  codes, failures,\* one-time login codes; failed attempts in the window
  issued,         \* the tokens that are out
  acked,          \* acked[u]: revocations and API tokens that were answered "ok"
  crossed,        \* the users a change of whose tokens crossed a Reload
  dirty, stale,   \* a Save failed since; a Reload or a Save was overtaken
  edits, raced,   \* manual edits made; those that fell into a window
  started, resets \* how much of each bound is used

disk == <<file, clock>>
ghosts == <<acked, crossed, dirty, stale, edits, raced>>
memory == <<mem, stamp, seen>>
vars == <<memory, disk, req, codes, failures, issued, ghosts, started, resets>>

Idle == [pc |-> "idle"]
NoAck == [tv |-> 0, valid |-> {}, revoked |-> {}]

Claims == [user: User, role: Role, perms: SUBSET AllPermissions, tv: Nat,
           jti: Jti \cup {Nothing}]    \* Nothing: a session

Init ==
  /\ \E s \in InitialStores :
       /\ mem = s /\ seen = {} /\ file = [v |-> 1, data |-> s, edits |-> {}]
       /\ issued = {[user |-> u, role |-> s.users[u].role, tv |-> s.users[u].tv,
                     perms |-> PermissionsFor(s, s.users[u].role), jti |-> Nothing]
                      : u \in DOMAIN s.users}
  /\ stamp = 1 /\ clock = 1
  /\ req = [t \in Thread |-> Idle]
  /\ codes = [k \in Code |-> Nothing] /\ failures = [k \in User \cup {CodeKey} |-> 0]
  /\ acked = [u \in User |-> NoAck] /\ crossed = {}
  /\ dirty = FALSE /\ stale = FALSE /\ edits = 0 /\ raced = {}
  /\ started = 0 /\ resets = 0

-----------------------------------------------------------------------------
(* What a token is worth                                                   *)

\* requireWith: instant revocation for the users of the store.
Accepted(c) ==
  IF c.user \in DOMAIN mem.users
  THEN /\ c.tv = mem.users[c.user].tv
       /\ c.jti # Nothing => TokenValid(mem, c.user, c.jti)
  ELSE c.jti = Nothing

May(c, perm) == Accepted(c) /\ HasPermission(c, perm)

\* The endpoints of Router that are about notes, with the permission each
\* requires, and the folder access its handler asks for, of its path or of
\* every path it lists.
Route ==
  [e \in {"note", "raw", "attachment", "list", "tree", "search", "recent"}
         \cup {"create", "folder", "save", "restore", "untrash", "log", "diff"}
         \cup {"purge", "purgeAll", "delete", "upload", "trash"} |->
     CASE e \in {"create", "folder", "save", "restore", "untrash"} -> "notes:edit"
       [] e \in {"log", "diff"}       -> "history:read"
       [] e \in {"purge", "purgeAll"} -> "trash:purge"
       [] e = "delete" -> "notes:delete"
       [] e = "upload" -> "files:upload"
       [] e = "trash"  -> "trash:read"
       [] OTHER        -> "notes:read"]

NoteNeeds == [note |-> Read, raw |-> Read, create |-> Write, folder |-> Write,
              save |-> Write, delete |-> Write]
ListNeeds == [e \in {"list", "tree", "search", "recent"} |-> Read]
FileNeeds == [attachment |-> Read, upload |-> Write]
HistoryNeeds == [log |-> Read, diff |-> Read, trash |-> Read, purgeAll |-> Read,
                 restore |-> Write, untrash |-> Write, purge |-> Write]
Needs ==
  [e \in DOMAIN Route |->
     CASE e \in DOMAIN NoteNeeds -> NoteNeeds[e]
       [] e \in DOMAIN ListNeeds -> ListNeeds[e]
       [] e \in DOMAIN FileNeeds -> FileNeeds[e]
       [] OTHER                  -> HistoryNeeds[e]]

Served(c, e, p) == May(c, Route[e]) /\ Access(mem, c.user, p) >= Needs[e]

-----------------------------------------------------------------------------
(* Saving and loading                                                      *)

\* Save keeps the store's mutex from its first stat to its last; everybody who
\* looks at the store waits.
Unlocked == \A t \in Thread : req[t].pc \notin {"writing", "stamping"}

Answer(t) == req' = [req EXCEPT ![t] = Idle]

\* A change of the tokens of u that t has made and not yet answered.
ChangesTokens(t, u) ==
  /\ req[t].pc \in {"saving", "writing", "stamping"}
  /\ req[t].op.call \in {"Bump", "AddToken", "RevokeToken"} /\ req[t].op.user = u

\* Such a change is in memory only: whoever replaces the record loses it.
Unsaved(u) == \E t \in Thread : req[t].pc = "saving" /\ ChangesTokens(t, u)

\* What was acknowledged of a user is forgotten with the user.
Remember(a, s) == [u \in User |-> IF u \in DOMAIN s.users THEN a[u] ELSE NoAck]

Refused(op) ==
  \/ op.call \in {"DeleteUser", "Bump", "AddToken"} /\ op.user \notin DOMAIN mem.users
  \/ op.call = "RevokeToken" /\ ~ (op.user \in DOMAIN mem.users
       /\ op.jti \in mem.users[op.user].valid \cup mem.users[op.user].revoked)
  \/ op.call = "DeleteRole" /\ (op.role \in BuiltIn \/ op.role \notin DOMAIN mem.roles)
  \/ op.call = "AddServiceToken" /\ op.id \in DOMAIN mem.svc
  \/ op.call = "RevokeServiceToken" /\ op.id \notin DOMAIN mem.svc

Effect(op) ==
  CASE op.call = "UpsertUser"  -> UpsertUser(mem, op.user, op.rec)
    [] op.call = "DeleteUser"  -> DeleteUser(mem, op.user)
    [] op.call = "Bump"        -> BumpTokenVersion(mem, op.user)
    [] op.call = "AddToken"    -> AddToken(mem, op.user, op.jti)
    [] op.call = "RevokeToken" -> RevokeToken(mem, op.user, op.jti)
    [] op.call = "SetRules"    -> SetRules(mem, op.rules)
    [] op.call = "AddGroup"    -> AddGroup(mem, op.group)
    [] op.call = "DeleteGroup" -> DeleteGroup(mem, op.group)
    [] op.call = "UpsertRole"  -> UpsertRole(mem, op.role, op.perms)
    [] op.call = "DeleteRole"  -> DeleteRole(mem, op.role)
    [] op.call = "AddServiceToken"    -> AddServiceToken(mem, op.id, op.tok)
    [] op.call = "RevokeServiceToken" -> RevokeServiceToken(mem, op.id)
    [] op.call = "SetLoginProviders"  -> SetLoginProviders(mem, op.list)
    [] op.call = "UpsertLoginProvider" -> UpsertLoginProvider(mem, op.id)

\* The setter's own critical section.
Apply(t) ==
  LET op == req[t].op IN
  /\ req[t].pc = "called" /\ Unlocked
  /\ \/ /\ Refused(op) /\ Answer(t) /\ UNCHANGED <<mem, acked, crossed>>
     \/ /\ ~Refused(op)
        /\ mem' = Effect(op)
        /\ acked' = Remember(acked, mem')
        /\ req' = [req EXCEPT ![t].pc = "saving",
                   ![t].tv = IF op.call = "Bump" THEN mem'.users[op.user].tv ELSE 0]
        /\ crossed' = crossed \cup {u \in User : op.call = "DeleteUser" /\ op.user = u /\ Unsaved(u)}
  /\ UNCHANGED <<stamp, seen, disk, codes, failures, issued, dirty, stale, edits, raced, started, resets>>

Changed == file.v # 0 /\ (stamp = 0 \/ stamp # file.v)

\* A slip: a conflict is answered once, then the new file is taken as known.
SaveChecksOnce(t) ==
  /\ req[t].pc = "saving" /\ Unlocked
  /\ IF Changed
     THEN Answer(t) /\ dirty' = TRUE /\ stamp' = file.v
     ELSE req' = [req EXCEPT ![t].pc = "writing"] /\ UNCHANGED <<dirty, stamp>>
  /\ UNCHANGED <<mem, seen, disk, codes, failures, issued, acked, crossed, stale, edits, raced, started, resets>>

\* A slip: the mutex is not awaited.
SaveChecksUnlocked(t) ==
  /\ req[t].pc = "saving"
  /\ IF Changed
     THEN Answer(t) /\ dirty' = TRUE
     ELSE req' = [req EXCEPT ![t].pc = "writing"] /\ UNCHANGED dirty
  /\ UNCHANGED <<memory, disk, codes, failures, issued, acked, crossed, stale, edits, raced, started, resets>>

\* Save's stat. A change that cannot be saved stays in memory.
SaveChecks(t) ==
  /\ req[t].pc = "saving" /\ Unlocked
  /\ IF Changed
     THEN Answer(t) /\ dirty' = TRUE
     ELSE req' = [req EXCEPT ![t].pc = "writing"] /\ UNCHANGED dirty
  /\ UNCHANGED <<memory, disk, codes, failures, issued, acked, crossed, stale, edits, raced, started, resets>>

\* What the answer promises: a new version, a token that works or one that
\* does not.
Acknowledge(op, tv) ==
  LET a == acked[op.user] IN
  [acked EXCEPT ![op.user] =
     CASE op.call = "Bump" -> [a EXCEPT !.tv = Max({@, tv})]
       [] op.call = "AddToken" -> [a EXCEPT !.valid = (@ \cup {op.jti}) \ a.revoked]
       [] op.call = "RevokeToken" -> [a EXCEPT !.valid = @ \ {op.jti}, !.revoked = @ \cup {op.jti}]]

\* The rename. A Reload that stands between its read and its critical section
\* has read the file without what is saved now.
SaveWrites(t) ==
  /\ req[t].pc = "writing"
  /\ clock' = clock + 1
  /\ file' = [v |-> clock + 1, data |-> mem, edits |-> seen]
  /\ req' = [req EXCEPT ![t].pc = "stamping", ![t].v = clock + 1]
  /\ crossed' = IF \E x \in Thread : req[x].pc = "reloading"
                THEN crossed \cup {u \in User : ChangesTokens(t, u)} ELSE crossed
  /\ UNCHANGED <<memory, codes, failures, issued, acked, dirty, stale, edits, raced, started, resets>>

\* The file is looked at again for its fingerprint, and the caller answered:
\* handleCreateToken shows the token.
SaveStamps(t) ==
  LET op == req[t].op IN
  /\ req[t].pc = "stamping"
  /\ stamp' = IF file.v = 0 THEN stamp ELSE file.v
  /\ stale' = (stale \/ file.v \notin {0, req[t].v})
  /\ acked' = IF \E u \in DOMAIN mem.users : ChangesTokens(t, u)
              THEN Acknowledge(op, req[t].tv) ELSE acked
  /\ issued' = IF op.call = "AddToken" THEN issued \cup {op.claims} ELSE issued
  /\ dirty' = FALSE
  /\ Answer(t)
  /\ UNCHANGED <<mem, seen, disk, codes, failures, crossed, edits, raced, started, resets>>

\* The file cannot be written or renamed.
SaveFails(t) ==
  /\ req[t].pc = "writing"
  /\ dirty' = TRUE
  /\ Answer(t)
  /\ UNCHANGED <<memory, disk, codes, failures, issued, acked, crossed, stale, edits, raced, started, resets>>

\* A slip: the groups are not reset.
ReloadSetsKeepsGroups(t) ==
  LET r == req[t].op IN
  /\ req[t].pc = "reloading" /\ Unlocked
  /\ mem' = [r.data EXCEPT !.groups = mem.groups] /\ seen' = r.edits
  /\ stamp' = IF r.v = 0 THEN 0 ELSE file.v
  /\ acked' = Remember(acked, mem')
  /\ crossed' = crossed \cup {u \in User : Unsaved(u)}
  /\ dirty' = FALSE
  /\ stale' = (stale \/ (r.v # 0 /\ r.v # file.v))
  /\ Answer(t)
  /\ UNCHANGED <<disk, codes, failures, issued, edits, raced, started, resets>>

\* Reload's critical section, with what it read before, though the file may have
\* been saved since: the fingerprint it takes is that of the file now.
ReloadSets(t) ==
  LET r == req[t].op IN
  /\ req[t].pc = "reloading" /\ Unlocked
  /\ mem' = r.data /\ seen' = r.edits
  /\ stamp' = IF r.v = 0 THEN 0 ELSE file.v
  /\ acked' = Remember(acked, mem')
  /\ crossed' = crossed \cup {u \in User : Unsaved(u)}
  /\ dirty' = FALSE
  /\ stale' = (stale \/ (r.v # 0 /\ r.v # file.v))
  /\ Answer(t)
  /\ UNCHANGED <<disk, codes, failures, issued, edits, raced, started, resets>>

\* The server is started again: Load and SeedRoles, before there are requests. A
\* start whose Save fails ends the process and leaves the file as it was.
Restart ==
  LET s == SeedRoles(file.data)  seeded == s # file.data IN
  /\ resets < MaxEdits /\ resets' = resets + 1
  /\ mem' = s /\ seen' = file.edits
  /\ IF seeded
     THEN clock' = clock + 1 /\ file' = [file EXCEPT !.v = clock + 1, !.data = s]
     ELSE UNCHANGED disk
  /\ stamp' = file'.v
  /\ req' = [t \in Thread |-> Idle] /\ dirty' = FALSE
  /\ codes' = [k \in Code |-> Nothing] /\ failures' = [k \in DOMAIN failures |-> 0]
  /\ acked' = Remember(acked, s)
  /\ UNCHANGED <<issued, crossed, stale, edits, raced, started>>

\* Between a stat and what it is for, nobody looks.
Window == \E t \in Thread : req[t].pc \in {"writing", "stamping", "reloading"}

\* users.yaml is changed by hand: what else the edit changes does not matter.
Edit ==
  /\ edits < MaxEdits /\ file.v # 0
  /\ edits' = edits + 1 /\ clock' = clock + 1
  /\ file' = [file EXCEPT !.v = clock + 1, !.edits = @ \cup {edits + 1}]
  /\ raced' = IF Window THEN raced \cup {edits + 1} ELSE raced
  /\ UNCHANGED <<memory, req, codes, failures, issued, acked, crossed, dirty, stale, started, resets>>

\* users.yaml is removed, and what was in it with it.
Remove ==
  /\ edits < MaxEdits /\ file.v # 0
  /\ edits' = edits + 1
  /\ file' = [v |-> 0, data |-> EmptyStore, edits |-> {}]
  /\ raced' = raced \cup 1..edits'
  /\ UNCHANGED <<memory, clock, req, codes, failures, issued, acked, crossed, dirty, stale, started, resets>>

-----------------------------------------------------------------------------
(* The handlers, up to the call of the setter                              *)

Start(t, r) ==
  /\ req[t].pc = "idle" /\ started < MaxRequests
  /\ started' = started + 1
  /\ req' = [req EXCEPT ![t] = r]

\* A handler that looks at the store first, under the mutex.
Begin(t, r) == Unlocked /\ Start(t, r)

Call(t, op) ==
  /\ Begin(t, [pc |-> "called", op |-> op, tv |-> 0, v |-> 0])
  /\ UNCHANGED <<memory, disk, codes, failures, issued, ghosts, resets>>

Account(role, groups, secret) ==
  [role |-> role, groups |-> groups, secret |-> secret, tv |-> 0, valid |-> {}, revoked |-> {}]

AdminCreateUser(t) ==
  \E u \in User \ DOMAIN mem.users, role \in Assigned, groups \in SUBSET Group :
    /\ RoleKnown(mem, role)
    /\ Call(t, [call |-> "UpsertUser", user |-> u, rec |-> Account(role, groups, TRUE)])

\* The record that was read is written back, with what the request changes.
AdminUpdateUser(t) ==
  \E u \in DOMAIN mem.users : \E role \in Assigned \cup {mem.users[u].role},
      groups \in SUBSET Group, secret \in {mem.users[u].secret, TRUE} :
    /\ RoleKnown(mem, role) \/ role = mem.users[u].role
    /\ Call(t, [call |-> "UpsertUser", user |-> u,
                rec |-> [mem.users[u] EXCEPT !.role = role, !.groups = groups, !.secret = secret]])

AdminDeleteUser(t) == \E u \in User : Call(t, [call |-> "DeleteUser", user |-> u])

AdminRevoke(t) == \E u \in User : Call(t, [call |-> "Bump", user |-> u])

AdminPutACL(t) == \E rules \in RuleList : Call(t, [call |-> "SetRules", rules |-> rules])

AdminAddGroup(t) == \E g \in Group : Call(t, [call |-> "AddGroup", group |-> g])

AdminDeleteGroup(t) == \E g \in Group : Call(t, [call |-> "DeleteGroup", group |-> g])

AdminCreateRole(t) ==
  \E role \in Role \ DOMAIN mem.roles, perms \in CustomPerms :
    Call(t, [call |-> "UpsertRole", role |-> role, perms |-> perms])

AdminUpdateRole(t) ==
  \E role \in DOMAIN mem.roles, perms \in CustomPerms :
    Call(t, [call |-> "UpsertRole", role |-> role, perms |-> perms])

AdminDeleteRole(t) == \E role \in CustomRole : Call(t, [call |-> "DeleteRole", role |-> role])

AdminCreateServiceToken(t) ==
  \E id \in SvcId, ceiling \in Ceilings :
    /\ RoleKnown(mem, ceiling)
    /\ Call(t, [call |-> "AddServiceToken", id |-> id,
                tok |-> [perms |-> ServiceTokenPermissions, ceiling |-> ceiling, revoked |-> FALSE]])

AdminRevokeServiceToken(t) ==
  \E id \in SvcId : Call(t, [call |-> "RevokeServiceToken", id |-> id])

AdminPutLoginProviders(t) ==
  \E list \in SUBSET Provider : Call(t, [call |-> "SetLoginProviders", list |-> list])

\* POST /api/admin/reload: the file is read without the mutex, also while a Save
\* holds it.
AdminReload(t) ==
  /\ resets < MaxEdits /\ resets' = resets + 1
  /\ Start(t, [pc |-> "reloading", op |-> file])
  /\ UNCHANGED <<memory, disk, codes, failures, issued, ghosts>>

\* A session mints an API token that can do no more than its built-in role.
CreateToken(t) ==
  \E c \in {d \in issued : d.jti = Nothing /\ d.user \in DOMAIN mem.users} :
    LET rec == mem.users[c.user]  jti == started + 1 IN
    \E perms \in {BuiltInPermissions(rec.role), BuiltInPermissions(rec.role) \cap {"notes:read"}} :
      /\ May(c, "notes:read")
      /\ Call(t, [call |-> "AddToken", user |-> c.user, jti |-> jti,
                  claims |-> [user |-> c.user, role |-> rec.role, perms |-> perms,
                              tv |-> rec.tv, jti |-> jti]])

RevokeTokenOf(t) ==
  \E c \in issued, jti \in Jti :
    /\ May(c, "notes:read")
    /\ Call(t, [call |-> "RevokeToken", user |-> c.user, jti |-> jti])

-----------------------------------------------------------------------------
(* The service API and the ways to a session                               *)

\* requireServicePermission: the record is read here and used later.
ServiceTokens(perm) == {id \in DOMAIN mem.svc : ~mem.svc[id].revoked /\ perm \in mem.svc[id].perms}

\* An account without a password, or the existing one, below the ceiling.
ServiceUpsertUser(t) ==
  \E id \in ServiceTokens("users:provision"), u \in User \ DOMAIN StaticRole,
     role \in Assigned, groups \in SUBSET Group :
    LET new == u \notin DOMAIN mem.users
        ceiling == mem.svc[id].ceiling
    IN /\ RoleKnown(mem, role) /\ RoleWithinCeiling(mem, role, ceiling)
       /\ ~new => RoleWithinCeiling(mem, mem.users[u].role, ceiling)
       /\ Call(t, [call |-> "UpsertUser", user |-> u,
                   rec |-> [(IF new THEN Account(role, groups, FALSE) ELSE mem.users[u])
                              EXCEPT !.role = role, !.groups = groups, !.secret = FALSE]])

ServiceUpsertProvider(t) ==
  /\ ServiceTokens("login-providers:write") # {}
  /\ \E p \in Provider : Call(t, [call |-> "UpsertLoginProvider", id |-> p])

ServiceLoginCode(t) ==
  /\ ServiceTokens("session:code") # {} /\ Unlocked /\ started < MaxRequests
  /\ \E u \in DOMAIN mem.users : \E k \in Code :
       codes[k] = Nothing /\ codes' = [codes EXCEPT ![k] = u]
  /\ started' = started + 1
  /\ UNCHANGED <<memory, disk, req, failures, issued, ghosts, resets>>

CodeExpires(k) ==
  /\ codes[k] # Nothing /\ codes' = [codes EXCEPT ![k] = Nothing]
  /\ UNCHANGED <<memory, disk, req, failures, issued, ghosts, started, resets>>

\* A failure is older than the window of the limiter.
WindowPasses(k) ==
  /\ failures[k] > 0 /\ failures' = [failures EXCEPT ![k] = @ - 1]
  /\ UNCHANGED <<memory, disk, req, codes, issued, ghosts, started, resets>>

Allow(k) == failures[k] < Attempts

Fail(k) == failures' = [failures EXCEPT ![k] = @ + 1]

\* An attempt to log in, between the check of the limiter and the count of its
\* failure. It fails without a secret: there is no such user, or no password.
Attempt(u, key, secret) ==
  [pc |-> "issuing", key |-> key, secret |-> secret,
   op |-> [user |-> u, role |-> UserRole(mem, u),
           tv |-> IF u \in DOMAIN mem.users THEN mem.users[u].tv ELSE 0]]

\* handleAuthCode burns the code, then looks the user up. A code may be unknown.
RedeemCode(t) ==
  \E k \in Code :
    LET u == codes[k] IN
    /\ Allow(CodeKey)
    /\ codes' = [codes EXCEPT ![k] = Nothing]
    /\ Begin(t, Attempt(u, CodeKey, u \in DOMAIN mem.users))
    /\ UNCHANGED <<memory, disk, failures, issued, ghosts, resets>>

\* handleLogin: an account of the store shadows one of config.yaml.
Login(t) ==
  \E u \in User :
    /\ Allow(u)
    /\ Begin(t, Attempt(u, u, IF u \in DOMAIN mem.users THEN mem.users[u].secret
                              ELSE u \in DOMAIN StaticRole))
    /\ UNCHANGED <<memory, disk, codes, failures, issued, ghosts, resets>>

\* The password is wrong, as every password is for an account that has none; so
\* is a code of nobody.
AttemptFails(t) ==
  /\ req[t].pc = "issuing" /\ (req[t].key = CodeKey => ~req[t].secret)
  /\ Fail(req[t].key)
  /\ Answer(t)
  /\ UNCHANGED <<memory, disk, codes, issued, ghosts, started, resets>>

\* The password matched: the permissions are those of the role now, the rest was
\* read before.
IssueSession(t) ==
  LET r == req[t] IN
  /\ r.pc = "issuing" /\ Unlocked
  /\ r.secret
  /\ issued' = issued \cup {[user |-> r.op.user, role |-> r.op.role, tv |-> r.op.tv,
                             perms |-> PermissionsFor(mem, r.op.role), jti |-> Nothing]}
  /\ failures' = [failures EXCEPT ![r.key] = 0]
  /\ Answer(t)
  /\ UNCHANGED <<memory, disk, codes, ghosts, started, resets>>

Handler(t) ==
  \/ AdminCreateUser(t) \/ AdminUpdateUser(t) \/ AdminDeleteUser(t) \/ AdminRevoke(t)
  \/ AdminPutACL(t) \/ AdminAddGroup(t) \/ AdminDeleteGroup(t)
  \/ AdminCreateRole(t) \/ AdminUpdateRole(t) \/ AdminDeleteRole(t)
  \/ AdminCreateServiceToken(t) \/ AdminRevokeServiceToken(t) \/ AdminPutLoginProviders(t)
  \/ AdminReload(t) \/ CreateToken(t) \/ RevokeTokenOf(t)
  \/ ServiceUpsertUser(t) \/ ServiceUpsertProvider(t) \/ ServiceLoginCode(t)
  \/ RedeemCode(t) \/ Login(t) \/ AttemptFails(t) \/ IssueSession(t)

Next ==
  \/ \E t \in Thread :
       Handler(t) \/ Apply(t) \/ SaveChecks(t) \/ SaveWrites(t) \/ SaveStamps(t) \/ SaveFails(t) \/ ReloadSets(t)
  \/ \E k \in Code : CodeExpires(k)
  \/ \E k \in User \cup {CodeKey} : WindowPasses(k)
  \/ Restart \/ Edit \/ Remove

Spec == Init /\ [][Next]_vars

-----------------------------------------------------------------------------
(* Properties                                                              *)

SessionsTypeOK ==
  /\ StoreOK(mem) /\ StoreOK(file.data)
  /\ stamp \in Nat /\ clock \in Nat /\ file.v \in 0..clock /\ stamp <= clock
  /\ seen \cup file.edits \cup raced \subseteq 1..edits
  /\ codes \in [Code -> User \cup {Nothing}]
  /\ failures \in [User \cup {CodeKey} -> 0..(Attempts + Cardinality(Thread) - 1)]
  /\ issued \subseteq Claims
  /\ acked \in [User -> [tv: Nat, valid: SUBSET Jti, revoked: SUBSET Jti]]
  /\ crossed \subseteq User
  /\ Cardinality({t \in Thread : req[t].pc \in {"writing", "stamping"}}) <= 1

\* Nothing is between a change and its Save, and no Save failed.
Saved == ~dirty /\ \A t \in Thread : req[t].pc \notin {"saving", "writing", "stamping"}

\* When every change has been saved, memory is what users.yaml holds, unless
\* the server knows of no file or of an older one than there is now, or a
\* Reload or a Save was overtaken: what an administrator sees is what a restart keeps.
MemoryMatchesFile ==
  (Saved /\ ~stale /\ stamp # 0 /\ stamp = file.v) => mem = file.data /\ seen = file.edits

\* Save refuses to write over a manual edit it has not seen (acl/store.go:274).
\* Only an edit between Save's first stat and its last, or between Reload's read
\* and its stat, can be lost.
EditsKept == 1..edits \subseteq file.edits \cup raced

\* An answered revocation stands between the claims and their user.
Outdated(c) ==
  c.user \in DOMAIN mem.users /\ (c.tv < acked[c.user].tv \/ c.jti \in acked[c.user].revoked)

\* What was answered of a user's tokens stays so while the account is there,
\* through later requests, Saves that fail, manual edits and restarts: a token
\* of an older version than the one a revocation announced is refused, though it
\* be issued later, and so is a revoked API token; one that was not revoked stays
\* registered. Excepted are the users a change of whose tokens crossed a Reload:
\* it was saved while a Reload stood between its read of users.yaml and its
\* critical section, or was not saved yet when a Reload replaced the store or
\* DeleteUser dropped the account. The code answers "ok" to these too, though
\* it says "BumpTokenVersion invalidates every session and API token of a user"
\* (acl/store.go:413).
RevokedStayOut ==
  /\ \A c \in issued : Outdated(c) /\ c.user \notin crossed => ~Accepted(c)
  /\ \A u \in DOMAIN mem.users \ crossed : acked[u].valid \subseteq mem.users[u].valid \cup mem.users[u].revoked

\* The session a login would give u now.
Fresh(u) ==
  [user |-> u, role |-> UserRole(mem, u), perms |-> PermissionsFor(mem, UserRole(mem, u)),
   tv |-> IF u \in DOMAIN mem.users THEN mem.users[u].tv ELSE 0, jti |-> Nothing]

Emptied(role) == role \in {"editor", "viewer"} /\ PermissionsFor(mem, role) = {}

ReadsIfItEdits(role) ==
  "notes:edit" \in PermissionsFor(mem, role) => "notes:read" \in PermissionsFor(mem, role)

\* What handleAccess and the administrator's check report is what the endpoints
\* do for whoever logs in now, with two exceptions: a built-in role without
\* permissions, which HasPermission takes for a token that lists none, and the
\* reading of a role that may edit only, which RoleAccessCeiling takes for granted.
ReportedIsEnforced ==
  \A u \in DOMAIN mem.users \cup DOMAIN StaticRole, p \in Path :
    ~Emptied(UserRole(mem, u)) =>
      LET c == Fresh(u)  access == Reported(mem, u, p) IN
      /\ \A e \in {"create", "save", "restore", "untrash"} : Served(c, e, p) <=> access = Write
      /\ \A e \in {"note", "raw", "attachment", "list", "search"} :
           /\ Served(c, e, p) => access >= Read
           /\ (access >= Read /\ ReadsIfItEdits(c.role)) => Served(c, e, p)
=============================================================================
