--------------------------- MODULE SessionsProofs ---------------------------
(***************************************************************************)
(* Proofs about Sessions for any users, roles, rules and number of         *)
(* requests at once: what a Save or a Reload may lose, what is acknowledged*)
(* and stays so, and that the access reported is the one enforced.         *)
(***************************************************************************)
EXTENDS Sessions, FiniteSetTheorems, WellFoundedInduction, TLAPS

-----------------------------------------------------------------------------
(* What requests are at *)

\* The call of a setter, with what it is given.
OpOK(op) ==
  \/ op.call = "UpsertUser" /\ op.user \in User /\ op.rec \in UserRecord
  \/ op.call \in {"DeleteUser", "Bump"} /\ op.user \in User
  \/ op.call = "AddToken" /\ op.user \in User /\ op.jti \in Jti /\ op.claims \in Claims
  \/ op.call = "RevokeToken" /\ op.user \in User /\ op.jti \in Jti
  \/ op.call = "SetRules" /\ op.rules \in RuleList
  \/ op.call \in {"AddGroup", "DeleteGroup"} /\ op.group \in Group
  \/ op.call = "UpsertRole" /\ op.role \in Role /\ op.perms \in SUBSET AllPermissions
  \/ op.call = "DeleteRole" /\ op.role \in Role
  \/ op.call = "AddServiceToken" /\ op.id \in SvcId /\ op.tok \in ServiceToken
  \/ op.call = "RevokeServiceToken" /\ op.id \in SvcId
  \/ op.call = "SetLoginProviders" /\ op.list \in SUBSET Provider
  \/ op.call = "UpsertLoginProvider" /\ op.id \in Provider

FileOK(f) == StoreOK(f.data) /\ f.v \in Nat /\ f.edits \subseteq 1..edits

\* A request that changes the store, that reloads it, and that logs in.
Changes(r) ==
  /\ r = [pc |-> r.pc, op |-> r.op, tv |-> r.tv, v |-> r.v]
  /\ r.pc \in {"called", "saving", "writing", "stamping"}
  /\ OpOK(r.op) /\ r.tv \in Nat /\ r.v \in Nat
Reloads(r) ==
  r = [pc |-> r.pc, op |-> r.op] /\ r.pc = "reloading" /\ FileOK(r.op) /\ r.op.v <= clock
LogsIn(r) ==
  /\ r = [pc |-> r.pc, key |-> r.key, secret |-> r.secret, op |-> r.op] /\ r.pc = "issuing"
  /\ r.key \in User \cup {CodeKey}
  /\ r.secret => r.op.user \in User /\ r.op.role \in Role /\ r.op.tv \in Nat

ReqOK(r) == r = Idle \/ Changes(r) \/ Reloads(r) \/ LogsIn(r)

TypeOK ==
  /\ StoreOK(mem) /\ FileOK(file)
  /\ stamp \in Nat /\ clock \in Nat /\ file.v <= clock /\ stamp <= clock
  /\ file = [v |-> file.v, data |-> file.data, edits |-> file.edits]
  /\ edits \in Nat /\ started \in 0..MaxRequests
  /\ seen \subseteq 1..edits /\ raced \subseteq 1..edits
  /\ \A t \in Thread : ReqOK(req[t])
  /\ req = [t \in Thread |-> req[t]]
  /\ codes \in [Code -> User \cup {Nothing}]
  /\ failures \in [User \cup {CodeKey} -> Nat]
  /\ issued \subseteq Claims
  /\ acked \in [User -> [tv: Nat, valid: SUBSET Jti, revoked: SUBSET Jti]]

LEMMA RoleTypes ==
  ASSUME NEW s, StoreOK(s), NEW role \in Role, NEW u \in User
  PROVE  /\ BuiltInPermissions(role) \in SUBSET AllPermissions
         /\ PermissionsFor(s, role) \in SUBSET AllPermissions
         /\ u \in DOMAIN s.users => s.users[u] \in UserRecord
         /\ UserRole(s, u) \in Role
<1>1. BuiltInPermissions(role) \in SUBSET AllPermissions
  BY DEF BuiltInPermissions, AllPermissions
<1>2. role \in DOMAIN s.roles => s.roles[role] \in SUBSET AllPermissions
  BY DEF StoreOK, Partial
<1>3. u \in DOMAIN s.users => s.users[u] \in UserRecord
  BY DEF StoreOK, Partial
<1>4. u \in DOMAIN StaticRole => StaticRole[u] \in Role
  BY SessionsAssumption DEF SessionsAssumption, Partial
<1>5. "viewer" \in Role
  BY DEF Role, BuiltIn
<1>6. UserRole(s, u) \in Role
  BY <1>3, <1>4, <1>5 DEF UserRole, UserRecord
<1>. QED
  BY <1>1, <1>2, <1>3, <1>6 DEF PermissionsFor

\* A token of some account.
Holds(s, j) == \E u \in DOMAIN s.users : j \in s.users[u].valid \cup s.users[u].revoked

\* A handler that ends in the call of a setter; the record it puts has the tokens
\* of one that there is.
Calling(t, op) ==
  /\ OpOK(op) /\ req[t].pc = "idle" /\ Unlocked
  /\ started < MaxRequests /\ started' = started + 1
  /\ req' = [req EXCEPT ![t] = [pc |-> "called", op |-> op, tv |-> 0, v |-> 0]]
  /\ op.call = "AddToken" => op.jti = started + 1
  /\ op.call = "UpsertUser" => \A j \in op.rec.valid \cup op.rec.revoked : Holds(mem, j)
  /\ UNCHANGED <<memory, disk, codes, failures, issued, ghosts, resets>>

LEMMA Callings ==
  ASSUME TypeOK, NEW t \in Thread
  PROVE  /\ AdminCreateUser(t) \/ AdminUpdateUser(t) \/ AdminDeleteUser(t) \/ AdminRevoke(t)
            \/ ServiceUpsertUser(t) => \E op : Calling(t, op)
         /\ AdminPutACL(t) \/ AdminAddGroup(t) \/ AdminDeleteGroup(t)
            \/ AdminCreateRole(t) \/ AdminUpdateRole(t) \/ AdminDeleteRole(t) => \E op : Calling(t, op)
         /\ AdminCreateServiceToken(t) \/ AdminRevokeServiceToken(t) \/ AdminPutLoginProviders(t)
            \/ ServiceUpsertProvider(t) => \E op : Calling(t, op)
         /\ CreateToken(t) \/ RevokeTokenOf(t) => \E op : Calling(t, op)
<1>a. /\ CustomPerms \subseteq SUBSET AllPermissions
      /\ Assigned \subseteq Role /\ Ceilings \subseteq Role /\ CustomRole \subseteq Role
      /\ Jti = 0..MaxRequests /\ MaxRequests \in Nat
  BY SessionsAssumption DEF SessionsAssumption, Role
<1>b. /\ DOMAIN mem.users \subseteq User /\ DOMAIN mem.roles \subseteq Role
      /\ DOMAIN mem.svc \subseteq SvcId
      /\ \A u \in DOMAIN mem.users : mem.users[u] \in UserRecord
      /\ issued \subseteq Claims
  BY DEF TypeOK, StoreOK, Partial
<1>1. ASSUME NEW op, OpOK(op), op.call # "AddToken", Call(t, op),
             op.call = "UpsertUser" => \A j \in op.rec.valid \cup op.rec.revoked : Holds(mem, j)
      PROVE  Calling(t, op)
  BY <1>1 DEF Call, Begin, Start, Calling
<1>2. ASSUME NEW u \in User, NEW rec \in UserRecord,
             Call(t, [call |-> "UpsertUser", user |-> u, rec |-> rec]),
             \A j \in rec.valid \cup rec.revoked : Holds(mem, j)
      PROVE  \E op : Calling(t, op)
  <2>1. PICK op : op = [call |-> "UpsertUser", user |-> u, rec |-> rec]
    OBVIOUS
  <2>2. OpOK(op) /\ Call(t, op) /\ \A j \in op.rec.valid \cup op.rec.revoked : Holds(mem, j)
    BY <1>2, <2>1 DEF OpOK
  <2>. QED BY <1>1, <2>1, <2>2
<1>3. \A role \in Role, groups \in SUBSET Group, secret \in BOOLEAN :
        /\ Account(role, groups, secret) \in UserRecord
        /\ Account(role, groups, secret).valid = {} /\ Account(role, groups, secret).revoked = {}
  BY DEF Account, UserRecord
<1>4. ASSUME AdminCreateUser(t) PROVE \E op : Calling(t, op)
  BY <1>4, <1>a, <1>2, <1>3 DEF AdminCreateUser
<1>5. ASSUME AdminUpdateUser(t) PROVE \E op : Calling(t, op)
  <2>1. PICK u \in DOMAIN mem.users : \E role \in Assigned \cup {mem.users[u].role},
             groups \in SUBSET Group, secret \in {mem.users[u].secret, TRUE} :
             Call(t, [call |-> "UpsertUser", user |-> u,
                rec |-> [mem.users[u] EXCEPT !.role = role, !.groups = groups, !.secret = secret]])
    BY <1>5 DEF AdminUpdateUser
  <2>2. \A role \in Assigned \cup {mem.users[u].role}, groups \in SUBSET Group,
           secret \in {mem.users[u].secret, TRUE} :
          LET rec == [mem.users[u] EXCEPT !.role = role, !.groups = groups, !.secret = secret] IN
          rec \in UserRecord /\ rec.valid = mem.users[u].valid /\ rec.revoked = mem.users[u].revoked
    BY <1>a, <1>b DEF UserRecord
  <2>3. \A j \in mem.users[u].valid \cup mem.users[u].revoked : Holds(mem, j)
    BY DEF Holds
  <2>. QED BY <1>b, <1>2, <2>1, <2>2, <2>3
<1>6. ASSUME ServiceUpsertUser(t) PROVE \E op : Calling(t, op)
  <2>1. PICK u \in User, role \in Assigned, groups \in SUBSET Group :
             Call(t, [call |-> "UpsertUser", user |-> u,
               rec |-> [(IF u \notin DOMAIN mem.users THEN Account(role, groups, FALSE) ELSE mem.users[u])
                          EXCEPT !.role = role, !.groups = groups, !.secret = FALSE]])
    BY <1>6 DEF ServiceUpsertUser
  <2>2. PICK old : old = IF u \notin DOMAIN mem.users THEN Account(role, groups, FALSE) ELSE mem.users[u]
    OBVIOUS
  <2>3. old \in UserRecord /\ \A j \in old.valid \cup old.revoked : Holds(mem, j)
    BY <1>a, <1>b, <1>3, <2>2 DEF Holds
  <2>4. PICK rec : rec = [old EXCEPT !.role = role, !.groups = groups, !.secret = FALSE]
    OBVIOUS
  <2>5. rec \in UserRecord /\ rec.valid = old.valid /\ rec.revoked = old.revoked
    BY <1>a, <2>3, <2>4 DEF UserRecord
  <2>. QED BY <1>2, <2>1, <2>2, <2>3, <2>4, <2>5
<1>7. ASSUME AdminDeleteUser(t) \/ AdminRevoke(t) PROVE \E op : Calling(t, op)
  BY <1>7, <1>1 DEF AdminDeleteUser, AdminRevoke, OpOK
<1>8. ASSUME AdminPutACL(t) \/ AdminAddGroup(t) \/ AdminDeleteGroup(t) PROVE \E op : Calling(t, op)
  BY <1>8, <1>1 DEF AdminPutACL, AdminAddGroup, AdminDeleteGroup, OpOK
<1>9. ASSUME AdminCreateRole(t) \/ AdminUpdateRole(t) \/ AdminDeleteRole(t)
      PROVE  \E op : Calling(t, op)
  BY <1>9, <1>1, <1>a, <1>b DEF AdminCreateRole, AdminUpdateRole, AdminDeleteRole, OpOK
<1>10. ASSUME AdminCreateServiceToken(t) PROVE \E op : Calling(t, op)
  <2>1. \A ceiling \in Ceilings :
          [perms |-> ServiceTokenPermissions, ceiling |-> ceiling, revoked |-> FALSE] \in ServiceToken
    BY <1>a DEF ServiceToken
  <2>. QED BY <1>10, <1>1, <2>1 DEF AdminCreateServiceToken, OpOK
<1>11. ASSUME AdminRevokeServiceToken(t) \/ AdminPutLoginProviders(t) \/ ServiceUpsertProvider(t)
       PROVE  \E op : Calling(t, op)
  BY <1>11, <1>1 DEF AdminRevokeServiceToken, AdminPutLoginProviders, ServiceUpsertProvider, OpOK
<1>12. ASSUME CreateToken(t) PROVE \E op : Calling(t, op)
  <2>1. PICK c, perms :
          /\ c \in issued
          /\ c.user \in DOMAIN mem.users /\ started < MaxRequests
          /\ perms \in {BuiltInPermissions(mem.users[c.user].role),
                       BuiltInPermissions(mem.users[c.user].role) \cap {"notes:read"}}
          /\ Call(t, [call |-> "AddToken", user |-> c.user, jti |-> started + 1,
                      claims |-> [user |-> c.user, role |-> mem.users[c.user].role, perms |-> perms,
                                  tv |-> mem.users[c.user].tv, jti |-> started + 1]])
    BY <1>12 DEF CreateToken, Call, Begin, Start
  <2>2. started + 1 \in Jti
    BY <1>a, <2>1 DEF TypeOK
  <2>3. mem.users[c.user] \in UserRecord /\ c.user \in User
    BY <1>b, <2>1
  <2>4. perms \in SUBSET AllPermissions
    BY <2>1 DEF BuiltInPermissions, AllPermissions
  <2>5. [user |-> c.user, role |-> mem.users[c.user].role, perms |-> perms,
         tv |-> mem.users[c.user].tv, jti |-> started + 1] \in Claims
    BY <2>2, <2>3, <2>4 DEF Claims, UserRecord
  <2>6. PICK op : op = [call |-> "AddToken", user |-> c.user, jti |-> started + 1,
                      claims |-> [user |-> c.user, role |-> mem.users[c.user].role, perms |-> perms,
                                  tv |-> mem.users[c.user].tv, jti |-> started + 1]]
    OBVIOUS
  <2>7. OpOK(op) /\ op.jti = started + 1 /\ op.call # "UpsertUser"
    BY <2>2, <2>3, <2>5, <2>6 DEF OpOK
  <2>8. Call(t, op)
    BY <2>1, <2>6
  <2>. QED BY <2>7, <2>8 DEF Call, Begin, Start, Calling
<1>13. ASSUME RevokeTokenOf(t) PROVE \E op : Calling(t, op)
  <2>1. PICK c \in issued, jti \in Jti :
          Call(t, [call |-> "RevokeToken", user |-> c.user, jti |-> jti])
    BY <1>13 DEF RevokeTokenOf
  <2>2. c.user \in User
    BY <1>b DEF Claims
  <2>. QED BY <1>1, <2>1, <2>2 DEF OpOK
<1>. QED
  BY <1>4, <1>5, <1>6, <1>7, <1>8, <1>9, <1>10, <1>11, <1>12, <1>13

\* A request that reloads the file begins.
Reloading(t) ==
  /\ req[t].pc = "idle"
  /\ req' = [req EXCEPT ![t] = [pc |-> "reloading", op |-> file]]
  /\ started < MaxRequests /\ started' = started + 1
  /\ UNCHANGED <<memory, disk, codes, failures, issued, ghosts>>

\* A step of a login, or the passing of the time it has.
Logging ==
  /\ UNCHANGED <<memory, disk, ghosts>>
  /\ req' = req \/ \E t \in Thread : \E r :
       /\ req[t].pc \in {"idle", "issuing"} /\ (r = Idle \/ LogsIn(r))
       /\ req' = [req EXCEPT ![t] = r]
  /\ started' = started \/ (started < MaxRequests /\ started' = started + 1)
  /\ codes' \in [Code -> User \cup {Nothing}]
  /\ failures' \in [User \cup {CodeKey} -> Nat]
  /\ issued' \subseteq Claims

LEMMA Loggings ==
  ASSUME TypeOK
  PROVE  /\ \A t \in Thread : ServiceLoginCode(t) \/ RedeemCode(t) \/ Login(t)
                              \/ AttemptFails(t) \/ IssueSession(t) => Logging
         /\ \A k \in Code : CodeExpires(k) => Logging
         /\ \A k \in User \cup {CodeKey} : WindowPasses(k) => Logging
<1>a. /\ codes \in [Code -> User \cup {Nothing}] /\ issued \subseteq Claims
      /\ failures \in [User \cup {CodeKey} -> Nat]
      /\ DOMAIN mem.users \subseteq User /\ StoreOK(mem)
      /\ \A u \in DOMAIN mem.users : mem.users[u].role \in Role /\ mem.users[u].tv \in Nat
  BY DEF TypeOK, StoreOK, Partial, UserRecord
<1>b. Nothing \notin User
  BY SessionsAssumption DEF SessionsAssumption
<1>1. ASSUME NEW t \in Thread, ServiceLoginCode(t) PROVE Logging
  <2>1. codes' \in [Code -> User \cup {Nothing}]
    BY <1>1, <1>a DEF ServiceLoginCode
  <2>. QED BY <1>1, <1>a, <2>1 DEF ServiceLoginCode, Logging
<1>8. ASSUME NEW t \in Thread, NEW u, NEW key \in User \cup {CodeKey}, NEW secret, secret => u \in User,
             Begin(t, Attempt(u, key, secret))
      PROVE  /\ started < MaxRequests /\ started' = started + 1
             /\ \E r : req[t].pc = "idle" /\ LogsIn(r) /\ req' = [req EXCEPT ![t] = r]
  <2>1. PICK v, role : /\ v = IF u \in DOMAIN mem.users THEN mem.users[u].tv ELSE 0
                       /\ role = UserRole(mem, u)
    OBVIOUS
  <2>2. PICK r : r = [pc |-> "issuing", key |-> key, secret |-> secret,
                      op |-> [user |-> u, role |-> role, tv |-> v]]
    OBVIOUS
  <2>3. Start(t, r)
    BY <1>8, <2>1, <2>2 DEF Begin, Attempt
  <2>4. v \in Nat /\ (secret => role \in Role)
    BY <1>a, <1>8, <2>1, RoleTypes DEF Role, BuiltIn
  <2>. QED BY <1>8, <2>2, <2>3, <2>4 DEF Start, LogsIn
<1>2. ASSUME NEW t \in Thread, RedeemCode(t) PROVE Logging
  <2>1. PICK k \in Code :
          /\ codes' = [codes EXCEPT ![k] = Nothing]
          /\ Begin(t, Attempt(codes[k], CodeKey, codes[k] \in DOMAIN mem.users))
          /\ UNCHANGED <<memory, disk, failures, issued, ghosts, resets>>
    BY <1>2 DEF RedeemCode
  <2>2. codes' \in [Code -> User \cup {Nothing}]
    BY <1>a, <2>1
  <2>3. PICK u, sec : u = codes[k] /\ sec = (u \in DOMAIN mem.users)
    OBVIOUS
  <2>4. Begin(t, Attempt(u, CodeKey, sec)) /\ (sec => u \in User)
    BY <1>a, <2>1, <2>3
  <2>. QED BY <1>a, <1>8, <2>1, <2>2, <2>4 DEF Logging
<1>3. ASSUME NEW t \in Thread, Login(t) PROVE Logging
  <2>1. PICK u \in User :
          /\ Begin(t, Attempt(u, u, IF u \in DOMAIN mem.users THEN mem.users[u].secret
                                    ELSE u \in DOMAIN StaticRole))
          /\ UNCHANGED <<memory, disk, codes, failures, issued, ghosts, resets>>
    BY <1>3 DEF Login
  <2>2. PICK sec : sec = IF u \in DOMAIN mem.users THEN mem.users[u].secret ELSE u \in DOMAIN StaticRole
    OBVIOUS
  <2>3. Begin(t, Attempt(u, u, sec))
    BY <2>1, <2>2
  <2>. QED BY <1>a, <1>8, <2>1, <2>3 DEF Logging
<1>4. ASSUME NEW t \in Thread, AttemptFails(t) PROVE Logging
  <2>1. LogsIn(req[t])
    BY <1>4 DEF TypeOK, ReqOK, AttemptFails, Idle, Changes, Reloads
  <2>2. failures' \in [User \cup {CodeKey} -> Nat]
    BY <1>4, <1>a, <2>1 DEF AttemptFails, Fail, LogsIn
  <2>3. req[t].pc = "issuing" /\ req' = [req EXCEPT ![t] = Idle]
        /\ UNCHANGED <<memory, disk, ghosts, codes, issued, started>>
    BY <1>4 DEF AttemptFails, Answer
  <2>. QED BY <1>a, <2>2, <2>3 DEF Logging
<1>5. ASSUME NEW t \in Thread, IssueSession(t) PROVE Logging
  <2>1. LogsIn(req[t])
    BY <1>5 DEF TypeOK, ReqOK, IssueSession, Idle, Changes, Reloads
  <2>2. failures' \in [User \cup {CodeKey} -> Nat]
    BY <1>5, <1>a, <2>1 DEF IssueSession, LogsIn
  <2>7. req[t].op.user \in User /\ req[t].op.role \in Role /\ req[t].op.tv \in Nat
    BY <1>5, <2>1 DEF LogsIn, IssueSession
  <2>3. PermissionsFor(mem, req[t].op.role) \in SUBSET AllPermissions
    BY <1>a, <2>7, RoleTypes
  <2>4. [user |-> req[t].op.user, role |-> req[t].op.role, tv |-> req[t].op.tv,
         perms |-> PermissionsFor(mem, req[t].op.role), jti |-> Nothing] \in Claims
    BY <2>3, <2>7 DEF Claims
  <2>5. issued' \subseteq Claims
    BY <1>5, <1>a, <2>4 DEF IssueSession
  <2>6. req[t].pc = "issuing" /\ req' = [req EXCEPT ![t] = Idle]
        /\ UNCHANGED <<memory, disk, ghosts, codes, started>>
    BY <1>5 DEF IssueSession, Answer
  <2>. QED BY <1>a, <2>2, <2>5, <2>6 DEF Logging
<1>6. ASSUME NEW k \in Code, CodeExpires(k) PROVE Logging
  <2>1. codes' \in [Code -> User \cup {Nothing}]
    BY <1>6, <1>a DEF CodeExpires
  <2>2. UNCHANGED <<memory, disk, ghosts, req, failures, issued, started>>
    BY <1>6 DEF CodeExpires
  <2>. QED BY <1>a, <2>1, <2>2 DEF Logging
<1>7. ASSUME NEW k \in User \cup {CodeKey}, WindowPasses(k) PROVE Logging
  <2>1. failures' \in [User \cup {CodeKey} -> Nat]
    BY <1>7, <1>a DEF WindowPasses
  <2>2. UNCHANGED <<memory, disk, ghosts, req, codes, issued, started>>
    BY <1>7 DEF WindowPasses
  <2>. QED BY <1>a, <2>1, <2>2 DEF Logging
<1>. QED
  BY <1>1, <1>2, <1>3, <1>4, <1>5, <1>6, <1>7

\* What a step is: what begins a change or a reload, what goes on with one, a
\* step of a login or the passing of its time, or what happens from outside.
LEMMA Steps ==
  ASSUME TypeOK, [Next]_vars
  PROVE  \/ \E t \in Thread : \/ \E op : Calling(t, op)
                              \/ Reloading(t) \/ Apply(t) \/ SaveChecks(t) \/ SaveWrites(t)
                              \/ SaveStamps(t) \/ SaveFails(t) \/ ReloadSets(t)
                              \/ ServiceLoginCode(t) \/ RedeemCode(t) \/ Login(t)
                              \/ AttemptFails(t) \/ IssueSession(t)
         \/ \E k \in Code : CodeExpires(k)
         \/ \E k \in User \cup {CodeKey} : WindowPasses(k)
         \/ Restart \/ Edit \/ Remove \/ UNCHANGED vars
<1>1. ASSUME NEW t \in Thread, Handler(t)
      PROVE  \/ (\E op : Calling(t, op)) \/ Reloading(t)
             \/ ServiceLoginCode(t) \/ RedeemCode(t) \/ Login(t)
             \/ AttemptFails(t) \/ IssueSession(t)
  <2>1. CASE AdminReload(t)
    BY <2>1 DEF AdminReload, Start, Reloading
  <2>. QED BY <1>1, <2>1, Callings DEF Handler
<1>. QED
  BY <1>1 DEF Next

\* The same, as far as the store is concerned.
LEMMA Moves ==
  ASSUME TypeOK, [Next]_vars
  PROVE  \/ \E t \in Thread : \/ \E op : Calling(t, op)
                              \/ Reloading(t) \/ Apply(t) \/ SaveChecks(t) \/ SaveWrites(t)
                              \/ SaveStamps(t) \/ SaveFails(t) \/ ReloadSets(t)
         \/ Logging \/ Restart \/ Edit \/ Remove \/ UNCHANGED vars
BY Steps, Loggings

-----------------------------------------------------------------------------
(* Manual edits *)

\* Every edit there was is in users.yaml, or fell into a window; what is about
\* to be written, or to be taken for what was read, holds them too.
EditsOK ==
  /\ 1..edits \subseteq file.edits \cup raced
  /\ file.v # 0 /\ stamp = file.v => 1..edits \subseteq seen \cup raced
  /\ file.v = 0 => 1..edits \subseteq raced
  /\ \A t \in Thread :
       /\ req[t].pc \in {"writing", "stamping"} => 1..edits \subseteq seen \cup raced
       /\ req[t].pc = "reloading" => 1..edits \subseteq req[t].op.edits \cup raced

LEMMA EditsStep ==
  ASSUME TypeOK, EditsOK, [Next]_vars
  PROVE  EditsOK'
<1>a. /\ stamp \in Nat /\ clock \in Nat /\ file.v \in Nat /\ file.v <= clock /\ stamp <= clock
      /\ edits \in Nat
      /\ file = [v |-> file.v, data |-> file.data, edits |-> file.edits]
      /\ req = [t \in Thread |-> req[t]]
      /\ \A t \in Thread : req[t].pc \in {"called", "saving", "writing", "stamping"} =>
           req[t] = [pc |-> req[t].pc, op |-> req[t].op, tv |-> req[t].tv, v |-> req[t].v]
  BY DEF TypeOK, FileOK, ReqOK, Changes, Reloads, LogsIn, Idle
<1>b. /\ 1..edits \subseteq file.edits \cup raced
      /\ file.v # 0 /\ stamp = file.v => 1..edits \subseteq seen \cup raced
      /\ file.v = 0 => 1..edits \subseteq raced
      /\ \A t \in Thread :
           /\ req[t].pc \in {"writing", "stamping"} => 1..edits \subseteq seen \cup raced
           /\ req[t].pc = "reloading" => 1..edits \subseteq req[t].op.edits \cup raced
  BY DEF EditsOK
\* Steps that change requests only, none into a window.
<1>1. ASSUME UNCHANGED <<stamp, seen, file, edits, raced>>, NEW t \in Thread, NEW r,
             req' = [req EXCEPT ![t] = r],
             r.pc = "reloading" => 1..edits \subseteq r.op.edits \cup raced,
             r.pc \in {"writing", "stamping"} => 1..edits \subseteq seen \cup raced
      PROVE  EditsOK'
  BY <1>1, <1>a, <1>b DEF EditsOK
<1>2. ASSUME NEW t \in Thread, (\E op : Calling(t, op)) \/ Reloading(t)
      PROVE  EditsOK'
  <2>1. CASE Reloading(t)
    <3>1. PICK r : r = [pc |-> "reloading", op |-> file]
      OBVIOUS
    <3>2. r.pc = "reloading" /\ r.op = file
      BY <3>1
    <3>. QED BY <1>1, <1>b, <2>1, <3>1, <3>2 DEF Reloading, memory, disk, ghosts
  <2>2. CASE \E op : Calling(t, op)
    <3>1. PICK r : r.pc = "called" /\ req' = [req EXCEPT ![t] = r]
      BY <2>2 DEF Calling
    <3>. QED BY <1>1, <2>2, <3>1 DEF Calling, memory, disk, ghosts
  <2>. QED BY <1>2, <2>1, <2>2
<1>3. ASSUME Logging PROVE EditsOK'
  <2>1. UNCHANGED <<stamp, seen, file, edits, raced>>
    BY <1>3 DEF Logging, memory, disk, ghosts
  <2>2. CASE req' = req
    BY <2>1, <2>2, <1>b DEF EditsOK
  <2>3. ASSUME NEW t \in Thread, NEW r, r = Idle \/ LogsIn(r), req' = [req EXCEPT ![t] = r]
        PROVE  EditsOK'
    BY <1>1, <2>1, <2>3 DEF Idle, LogsIn
  <2>. QED BY <1>3, <2>2, <2>3 DEF Logging
<1>4. ASSUME NEW t \in Thread, Apply(t) PROVE EditsOK'
  <2>1. UNCHANGED <<stamp, seen, file, edits, raced>>
    BY <1>4 DEF Apply, disk
  <2>2. ASSUME NEW r, r.pc = "idle" \/ r.pc = "saving", req' = [req EXCEPT ![t] = r]
        PROVE  EditsOK'
    BY <1>1, <2>1, <2>2
  <2>3. CASE Answer(t)
    <3>1. Idle.pc = "idle" /\ req' = [req EXCEPT ![t] = Idle]
      BY <2>3 DEF Idle, Answer
    <3>. QED BY <2>2, <3>1
  <2>4. ASSUME NEW n, req' = [req EXCEPT ![t].pc = "saving", ![t].tv = n]
        PROVE  EditsOK'
    <3>1. PICK r : r = [req[t] EXCEPT !.pc = "saving", !.tv = n]
      OBVIOUS
    <3>2. req[t] = [pc |-> req[t].pc, op |-> req[t].op, tv |-> req[t].tv, v |-> req[t].v]
      BY <1>4, <1>a DEF Apply
    <3>3. req' = [req EXCEPT ![t] = r] /\ r.pc = "saving"
      BY <2>4, <3>1, <3>2, <1>a
    <3>. QED BY <2>2, <3>3
  <2>. QED BY <1>4, <2>3, <2>4 DEF Apply
<1>5. ASSUME NEW t \in Thread, SaveChecks(t) PROVE EditsOK'
  <2>1. UNCHANGED <<stamp, seen, file, edits, raced>>
    BY <1>5 DEF SaveChecks, memory, disk
  <2>2. CASE Changed
    BY <1>1, <1>5, <2>1, <2>2 DEF SaveChecks, Answer, Idle
  <2>3. CASE ~Changed
    <3>1. 1..edits \subseteq seen \cup raced
      BY <1>a, <1>b, <2>3 DEF Changed
    <3>2. req' = [req EXCEPT ![t] = [req[t] EXCEPT !.pc = "writing"]]
          /\ [req[t] EXCEPT !.pc = "writing"].pc = "writing"
      BY <1>5, <1>a, <2>3 DEF SaveChecks
    <3>. QED BY <1>1, <2>1, <3>1, <3>2
  <2>. QED BY <2>2, <2>3
<1>6. ASSUME NEW t \in Thread, SaveWrites(t) PROVE EditsOK'
  <2>1. 1..edits \subseteq seen \cup raced
    BY <1>6, <1>b DEF SaveWrites
  <2>2. UNCHANGED <<stamp, seen, edits, raced>> /\ file'.v = clock + 1 /\ file'.edits = seen
    BY <1>6 DEF SaveWrites, memory, ghosts
  <2>3. \A x \in Thread \ {t} : req'[x] = req[x]
    BY <1>6, <1>a DEF SaveWrites
  <2>4. req'[t].pc = "stamping"
    <3>1. req[t] = [pc |-> req[t].pc, op |-> req[t].op, tv |-> req[t].tv, v |-> req[t].v]
      BY <1>6, <1>a DEF SaveWrites
    <3>. QED BY <1>6, <1>a, <3>1 DEF SaveWrites
  <2>. QED BY <1>a, <1>b, <2>1, <2>2, <2>3, <2>4 DEF EditsOK
<1>7. ASSUME NEW t \in Thread, SaveStamps(t) PROVE EditsOK'
  <2>1. 1..edits \subseteq seen \cup raced
    BY <1>7, <1>b DEF SaveStamps
  <2>2. /\ UNCHANGED <<seen, file, edits, raced>>
        /\ \A x \in Thread : req'[x] = IF x = t THEN Idle ELSE req[x]
    BY <1>7, <1>a DEF SaveStamps, disk, Answer
  <2>. QED BY <1>a, <1>b, <2>1, <2>2 DEF EditsOK, Idle
<1>8. ASSUME NEW t \in Thread, SaveFails(t) PROVE EditsOK'
  BY <1>1, <1>8 DEF SaveFails, memory, disk, Answer, Idle
<1>9. ASSUME NEW t \in Thread, ReloadSets(t) PROVE EditsOK'
  <2>1. 1..edits \subseteq req[t].op.edits \cup raced
    BY <1>9, <1>b DEF ReloadSets
  <2>2. /\ UNCHANGED <<file, edits, raced>> /\ seen' = req[t].op.edits
        /\ \A x \in Thread : req'[x] = IF x = t THEN Idle ELSE req[x]
        /\ \A x \in Thread : req[x].pc \notin {"writing", "stamping"}
    BY <1>9, <1>a DEF ReloadSets, disk, Unlocked, Answer
  <2>. QED BY <1>a, <1>b, <2>1, <2>2 DEF EditsOK, Idle
<1>10. ASSUME Restart PROVE EditsOK'
  <2>1. /\ UNCHANGED <<edits, raced>> /\ seen' = file.edits
        /\ req' = [t \in Thread |-> Idle]
        /\ file' = file \/ file' = [file EXCEPT !.v = clock + 1, !.data = SeedRoles(file.data)]
    BY <1>10 DEF Restart, disk
  <2>2. file'.edits = file.edits /\ (file'.v = 0 => file.v = 0)
    <3>1. ASSUME NEW d, file' = [file EXCEPT !.v = clock + 1, !.data = d]
          PROVE  file'.edits = file.edits /\ file'.v # 0
      BY <3>1, <1>a
    <3>2. CASE file' = file
      BY <3>2
    <3>3. CASE file' = [file EXCEPT !.v = clock + 1, !.data = SeedRoles(file.data)]
      BY <3>1, <3>3
    <3>. QED BY <2>1, <3>2, <3>3
  <2>. QED BY <1>a, <1>b, <2>1, <2>2 DEF EditsOK, Idle
<1>11. ASSUME Edit PROVE EditsOK'
  <2>1. /\ UNCHANGED <<stamp, seen, req>> /\ edits' = edits + 1
        /\ file'.v = clock + 1 /\ file'.edits = file.edits \cup {edits + 1}
        /\ raced' = IF Window THEN raced \cup {edits + 1} ELSE raced
    BY <1>11, <1>a DEF Edit, memory
  <2>2. 1..(edits + 1) = (1..edits) \cup {edits + 1}
    BY <1>a
  <2>3. \A t \in Thread : req[t].pc \in {"writing", "stamping", "reloading"} =>
          edits + 1 \in raced'
    BY <2>1 DEF Window
  <2>. QED BY <1>a, <1>b, <2>1, <2>2, <2>3 DEF EditsOK
<1>12. ASSUME Remove PROVE EditsOK'
  BY <1>12 DEF Remove, EditsOK
<1>13. ASSUME UNCHANGED vars PROVE EditsOK'
  BY <1>13, <1>b DEF vars, memory, disk, ghosts, EditsOK
<1>. QED
  BY <1>2, <1>3, <1>4, <1>5, <1>6, <1>7, <1>8, <1>9, <1>10, <1>11, <1>12, <1>13, Moves

-----------------------------------------------------------------------------
(* The setters *)

LEMMA PutPartial ==
  ASSUME NEW f, NEW S, NEW T, Partial(f, S, T), NEW x \in S, NEW v \in T
  PROVE  /\ Partial(Put(f, x, v), S, T)
         /\ DOMAIN Put(f, x, v) = DOMAIN f \cup {x}
         /\ Put(f, x, v)[x] = v
         /\ \A y \in DOMAIN f \ {x} : Put(f, x, v)[y] = f[y]
BY DEF Partial, Put

LEMMA DropPartial ==
  ASSUME NEW f, NEW S, NEW T, Partial(f, S, T), NEW x
  PROVE  /\ Partial(Drop(f, x), S, T)
         /\ DOMAIN Drop(f, x) = DOMAIN f \ {x}
         /\ \A y \in DOMAIN f \ {x} : Drop(f, x)[y] = f[y]
BY DEF Partial, Drop, Restrict

\* What a setter does to the accounts: it leaves them, drops one, or puts one.
LEMMA SettersOfUsers ==
  ASSUME NEW s, StoreOK(s), NEW u \in User
  PROVE  /\ \A rec \in UserRecord : StoreOK(UpsertUser(s, u, rec))
         /\ StoreOK(DeleteUser(s, u))
         /\ u \in DOMAIN s.users => /\ StoreOK(BumpTokenVersion(s, u))
                                    /\ \A jti \in Jti : /\ StoreOK(AddToken(s, u, jti))
                                                       /\ StoreOK(RevokeToken(s, u, jti))
<1>a. /\ DOMAIN s = {"users", "groups", "roles", "rules", "svc", "providers"}
      /\ Partial(s.users, User, UserRecord) /\ s.groups \subseteq Group
      /\ Partial(s.roles, Role, SUBSET AllPermissions) /\ s.rules \in RuleList
      /\ Partial(s.svc, SvcId, ServiceToken) /\ s.providers \subseteq Provider
  BY DEF StoreOK
<1>1. ASSUME NEW f, Partial(f, User, UserRecord)
      PROVE  StoreOK([s EXCEPT !.users = f])
  BY <1>1, <1>a DEF StoreOK
<1>2. ASSUME NEW rec \in UserRecord
      PROVE  StoreOK(UpsertUser(s, u, rec))
  <2>1. CASE u \in DOMAIN s.users
    <3>1. [rec EXCEPT !.secret = @ \/ s.users[u].secret, !.tv = s.users[u].tv,
                      !.valid = s.users[u].valid, !.revoked = s.users[u].revoked] \in UserRecord
      <4>1. s.users[u] \in UserRecord
        BY <1>a, <2>1 DEF Partial
      <4>2. (rec.secret \/ s.users[u].secret) \in BOOLEAN
        OBVIOUS
      <4>. QED BY <4>1, <4>2 DEF UserRecord
    <3>. QED BY <1>1, <1>a, <2>1, <3>1, PutPartial DEF UpsertUser
  <2>2. CASE u \notin DOMAIN s.users
    BY <1>1, <1>a, <2>2, PutPartial DEF UpsertUser
  <2>. QED BY <2>1, <2>2
<1>3. StoreOK(DeleteUser(s, u))
  BY <1>1, <1>a, DropPartial DEF DeleteUser
<1>4. ASSUME u \in DOMAIN s.users, NEW r \in UserRecord
      PROVE  StoreOK([s EXCEPT !.users[u] = r])
  <2>1. Partial([s.users EXCEPT ![u] = r], User, UserRecord)
    BY <1>4, <1>a DEF Partial
  <2>. QED BY <1>1, <1>a, <2>1
<1>5. ASSUME u \in DOMAIN s.users
      PROVE  /\ StoreOK(BumpTokenVersion(s, u))
             /\ \A jti \in Jti : StoreOK(AddToken(s, u, jti)) /\ StoreOK(RevokeToken(s, u, jti))
  <2>1. s.users[u] \in UserRecord
    BY <1>5, <1>a DEF Partial
  <2>2. [s.users[u] EXCEPT !.tv = @ + 1] \in UserRecord
    BY <2>1 DEF UserRecord
  <2>3. ASSUME NEW jti \in Jti
        PROVE  /\ [s.users[u] EXCEPT !.valid = @ \cup {jti}] \in UserRecord
               /\ [s.users[u] EXCEPT !.valid = @ \ {jti}, !.revoked = @ \cup {jti}] \in UserRecord
    BY <2>1 DEF UserRecord
  <2>. QED BY <1>4, <1>5, <1>a, <2>2, <2>3 DEF BumpTokenVersion, AddToken, RevokeToken
<1>. QED
  BY <1>2, <1>3, <1>5

LEMMA SettersOfTheRest ==
  ASSUME NEW s, StoreOK(s)
  PROVE  /\ \A rules \in RuleList : StoreOK(SetRules(s, rules))
         /\ \A g \in Group : StoreOK(AddGroup(s, g)) /\ StoreOK(DeleteGroup(s, g))
         /\ \A role \in Role, perms \in SUBSET AllPermissions : StoreOK(UpsertRole(s, role, perms))
         /\ \A role \in Role : StoreOK(DeleteRole(s, role))
         /\ \A id \in SvcId, tok \in ServiceToken : StoreOK(AddServiceToken(s, id, tok))
         /\ \A id \in DOMAIN s.svc : StoreOK(RevokeServiceToken(s, id))
         /\ \A list \in SUBSET Provider : StoreOK(SetLoginProviders(s, list))
         /\ \A p \in Provider : StoreOK(UpsertLoginProvider(s, p))
         /\ StoreOK(SeedRoles(s))
<1>a. /\ DOMAIN s = {"users", "groups", "roles", "rules", "svc", "providers"}
      /\ Partial(s.users, User, UserRecord) /\ s.groups \subseteq Group
      /\ Partial(s.roles, Role, SUBSET AllPermissions) /\ s.rules \in RuleList
      /\ Partial(s.svc, SvcId, ServiceToken) /\ s.providers \subseteq Provider
  BY DEF StoreOK
<1>2. ASSUME NEW f, Partial(f, Role, SUBSET AllPermissions)
      PROVE  StoreOK([s EXCEPT !.roles = f])
  BY <1>2, <1>a DEF StoreOK
<1>3. ASSUME NEW f, Partial(f, SvcId, ServiceToken)
      PROVE  StoreOK([s EXCEPT !.svc = f])
  BY <1>3, <1>a DEF StoreOK
<1>4. ASSUME NEW f \in SUBSET Provider
      PROVE  StoreOK([s EXCEPT !.providers = f])
  BY <1>4, <1>a DEF StoreOK
<1>5. \A rules \in RuleList : StoreOK(SetRules(s, rules))
  BY <1>a DEF SetRules, StoreOK
<1>6. ASSUME NEW g \in Group
      PROVE  StoreOK(AddGroup(s, g)) /\ StoreOK(DeleteGroup(s, g))
  <2>1. StoreOK(AddGroup(s, g))
    BY <1>a DEF AddGroup, StoreOK
  <2>2. Partial([u \in DOMAIN s.users |-> [s.users[u] EXCEPT !.groups = @ \ {g}]], User, UserRecord)
    <3>1. ASSUME NEW u \in DOMAIN s.users
          PROVE  [s.users[u] EXCEPT !.groups = @ \ {g}] \in UserRecord
      BY <1>a DEF Partial, UserRecord
    <3>. QED BY <1>a, <3>1 DEF Partial
  <2>3. PICK f : f = [u \in DOMAIN s.users |-> [s.users[u] EXCEPT !.groups = @ \ {g}]]
    OBVIOUS
  <2>4. DeleteGroup(s, g) = [s EXCEPT !.groups = @ \ {g}, !.users = f]
    BY <1>a, <2>3 DEF DeleteGroup
  <2>5. Partial(f, User, UserRecord) /\ s.groups \ {g} \in SUBSET Group
    BY <1>a, <2>2, <2>3
  <2>. QED BY <1>a, <2>1, <2>4, <2>5 DEF StoreOK
<1>7. ASSUME NEW role \in Role, NEW perms \in SUBSET AllPermissions
      PROVE  StoreOK(UpsertRole(s, role, perms))
  BY <1>2, <1>a, PutPartial DEF UpsertRole
<1>8. ASSUME NEW role \in Role
      PROVE  StoreOK(DeleteRole(s, role))
  <2>1. Partial(Drop(s.roles, role), Role, SUBSET AllPermissions)
    BY <1>a, DropPartial
  <2>. DEFINE h == [u \in DOMAIN s.users |->
                     IF s.users[u].role = role THEN [s.users[u] EXCEPT !.role = "viewer"] ELSE s.users[u]]
  <2>2. Partial(h, User, UserRecord)
    <3>1. ASSUME NEW u \in DOMAIN s.users
          PROVE  h[u] \in UserRecord
      BY <1>a DEF Partial, UserRecord, Role, BuiltIn
    <3>. QED BY <1>a, <3>1 DEF Partial
  <2>3. DeleteRole(s, role) = [s EXCEPT !.roles = Drop(s.roles, role), !.users = h]
    BY <1>a DEF DeleteRole
  <2>. HIDE DEF h
  <2>. QED BY <1>a, <2>1, <2>2, <2>3 DEF StoreOK
<1>9. ASSUME NEW id \in SvcId, NEW tok \in ServiceToken
      PROVE  StoreOK(AddServiceToken(s, id, tok))
  BY <1>3, <1>a, PutPartial DEF AddServiceToken
<1>10. ASSUME NEW id \in DOMAIN s.svc
       PROVE  StoreOK(RevokeServiceToken(s, id))
  <2>1. Partial([s.svc EXCEPT ![id].revoked = TRUE], SvcId, ServiceToken)
    BY <1>a DEF Partial, ServiceToken
  <2>2. RevokeServiceToken(s, id) = [s EXCEPT !.svc = [s.svc EXCEPT ![id].revoked = TRUE]]
    BY <1>a DEF RevokeServiceToken
  <2>. QED BY <1>3, <2>1, <2>2
<1>11. ASSUME NEW list \in SUBSET Provider
       PROVE  StoreOK(SetLoginProviders(s, list))
  BY <1>4 DEF SetLoginProviders
<1>12. ASSUME NEW p \in Provider
       PROVE  StoreOK(UpsertLoginProvider(s, p))
  BY <1>4, <1>a DEF UpsertLoginProvider
<1>13. StoreOK(SeedRoles(s))
  <2>1. \A r \in BuiltIn : BuiltInPermissions(r) \in SUBSET AllPermissions
    BY DEF BuiltIn, BuiltInPermissions, AllPermissions
  <2>2. Partial([r \in DOMAIN s.roles \cup BuiltIn |->
                   IF r \in DOMAIN s.roles THEN s.roles[r] ELSE BuiltInPermissions(r)],
                Role, SUBSET AllPermissions)
    BY <1>a, <2>1 DEF Partial, Role
  <2>3. SeedRoles(s) = [s EXCEPT !.roles = [r \in DOMAIN s.roles \cup BuiltIn |->
                   IF r \in DOMAIN s.roles THEN s.roles[r] ELSE BuiltInPermissions(r)]]
    BY <1>a DEF SeedRoles
  <2>. QED BY <1>2, <2>2, <2>3
<1>. QED
  BY <1>5, <1>6, <1>7, <1>8, <1>9, <1>10, <1>11, <1>12, <1>13

LEMMA EffectType ==
  ASSUME StoreOK(mem), NEW op, OpOK(op), ~Refused(op)
  PROVE  StoreOK(Effect(op))
<1>1. CASE op.call \in {"UpsertUser", "DeleteUser"} /\ op.user \in User
  BY <1>1, SettersOfUsers DEF OpOK, Effect
<1>2. CASE op.call \in {"Bump", "AddToken", "RevokeToken"} /\ op.user \in DOMAIN mem.users
  <2>1. op.user \in User
    BY <1>2 DEF StoreOK, Partial
  <2>. QED BY <1>2, <2>1, SettersOfUsers DEF OpOK, Effect
<1>3. CASE op.call \in {"SetRules", "AddGroup", "DeleteGroup"}
  BY <1>3, SettersOfTheRest DEF OpOK, Effect
<1>4. CASE op.call \in {"UpsertRole", "DeleteRole"}
  BY <1>4, SettersOfTheRest DEF OpOK, Effect
<1>5. CASE op.call \in {"AddServiceToken", "SetLoginProviders", "UpsertLoginProvider"}
  BY <1>5, SettersOfTheRest DEF OpOK, Effect
<1>6. CASE op.call = "RevokeServiceToken"
  BY <1>6, SettersOfTheRest DEF Effect, Refused
<1>. QED
  BY <1>1, <1>2, <1>3, <1>4, <1>5, <1>6 DEF OpOK, Refused

-----------------------------------------------------------------------------
(* Type correctness *)

Ack == [tv: Nat, valid: SUBSET Jti, revoked: SUBSET Jti]

LEMMA MaxOfTwo ==
  ASSUME NEW a \in Nat, NEW b \in Nat
  PROVE  Max({a, b}) \in {a, b} /\ a <= Max({a, b}) /\ b <= Max({a, b})
<1>1. \E x \in {a, b} : \A y \in {a, b} : x >= y
  BY DEF Max
<1>. QED
  BY <1>1 DEF Max

\* What is acknowledged, in its types: nothing of a user who is gone, and with
\* an answer one of three things more.
LEMMA AckTypes ==
  ASSUME acked \in [User -> Ack]
  PROVE  /\ \A s : Remember(acked, s) \in [User -> Ack]
         /\ \A op : \A tv \in Nat : OpOK(op) /\ op.call \in {"Bump", "AddToken", "RevokeToken"} =>
              Acknowledge(op, tv) \in [User -> Ack]
<1>1. ASSUME NEW s
      PROVE  Remember(acked, s) \in [User -> Ack]
  BY DEF Remember, NoAck, Ack
<1>2. ASSUME NEW op, NEW tv \in Nat, OpOK(op), op.call \in {"Bump", "AddToken", "RevokeToken"}
      PROVE  Acknowledge(op, tv) \in [User -> Ack]
  <2>1. op.user \in User
    BY <1>2 DEF OpOK
  <2>2. acked[op.user] \in Ack
    BY <2>1
  <2>3. CASE op.call = "Bump"
    <3>1. Max({acked[op.user].tv, tv}) \in Nat
      BY <2>2, MaxOfTwo DEF Ack
    <3>2. [acked[op.user] EXCEPT !.tv = Max({acked[op.user].tv, tv})] \in Ack
      BY <2>2, <3>1 DEF Ack
    <3>3. Acknowledge(op, tv) =
            [acked EXCEPT ![op.user] = [acked[op.user] EXCEPT !.tv = Max({acked[op.user].tv, tv})]]
      BY <2>3 DEF Acknowledge
    <3>. QED BY <2>1, <3>2, <3>3
  <2>4. CASE op.call = "AddToken"
    <3>1. op.jti \in Jti
      BY <1>2, <2>4 DEF OpOK
    <3>2. [acked[op.user] EXCEPT !.valid = (@ \cup {op.jti}) \ acked[op.user].revoked] \in Ack
      BY <2>2, <3>1 DEF Ack
    <3>3. Acknowledge(op, tv) = [acked EXCEPT ![op.user] =
            [acked[op.user] EXCEPT !.valid = (@ \cup {op.jti}) \ acked[op.user].revoked]]
      BY <2>4 DEF Acknowledge
    <3>. QED BY <2>1, <3>2, <3>3
  <2>5. CASE op.call = "RevokeToken"
    <3>1. op.jti \in Jti
      BY <1>2, <2>5 DEF OpOK
    <3>2. [acked[op.user] EXCEPT !.valid = @ \ {op.jti}, !.revoked = @ \cup {op.jti}] \in Ack
      BY <2>2, <3>1 DEF Ack
    <3>3. Acknowledge(op, tv) = [acked EXCEPT ![op.user] =
            [acked[op.user] EXCEPT !.valid = @ \ {op.jti}, !.revoked = @ \cup {op.jti}]]
      BY <2>5 DEF Acknowledge
    <3>. QED BY <2>1, <3>2, <3>3
  <2>. QED BY <1>2, <2>3, <2>4, <2>5
<1>. QED
  BY <1>1, <1>2

\* A request that was well-formed is, whatever happens to the file.
LEMMA ReqsStay ==
  ASSUME TypeOK, edits' \in Nat, edits <= edits', clock' \in Nat, clock <= clock',
         NEW r, ReqOK(r)
  PROVE  ReqOK(r)'
<1>1. 1..edits \subseteq 1..edits'
  BY DEF TypeOK
<1>2. CASE Reloads(r)
  <2>1. r.op.v <= clock'
    BY <1>2 DEF Reloads, FileOK, TypeOK
  <2>. QED BY <1>1, <1>2, <2>1 DEF Reloads, FileOK, ReqOK
<1>3. CASE r = Idle \/ Changes(r) \/ LogsIn(r)
  BY <1>3 DEF ReqOK, Changes, LogsIn, OpOK
<1>. QED
  BY <1>2, <1>3 DEF ReqOK

StoreTypes ==
  /\ StoreOK(mem) /\ FileOK(file)
  /\ stamp \in Nat /\ clock \in Nat /\ file.v <= clock /\ stamp <= clock
  /\ file = [v |-> file.v, data |-> file.data, edits |-> file.edits]
  /\ edits \in Nat
  /\ seen \subseteq 1..edits /\ raced \subseteq 1..edits

ReqTypes ==
  /\ \A t \in Thread : ReqOK(req[t])
  /\ req = [t \in Thread |-> req[t]]

RestTypes ==
  /\ started \in 0..MaxRequests
  /\ codes \in [Code -> User \cup {Nothing}]
  /\ failures \in [User \cup {CodeKey} -> Nat]
  /\ issued \subseteq Claims
  /\ acked \in [User -> Ack]

\* One request goes on to r, or all are gone.
LEMMA ReqTypesStep ==
  ASSUME TypeOK, edits' \in Nat, edits <= edits', clock' \in Nat, clock <= clock'
  PROVE  /\ req' = req => ReqTypes'
         /\ \A t \in Thread : \A r : ReqOK(r) /\ req' = [req EXCEPT ![t] = r] => ReqTypes'
         /\ req' = [t \in Thread |-> Idle] => ReqTypes'
<1>a. req = [t \in Thread |-> req[t]] /\ \A t \in Thread : ReqOK(req[t])
  BY DEF TypeOK
<1>1. \A r : ReqOK(r) => ReqOK(r)'
  BY ReqsStay
<1>2. ASSUME NEW t \in Thread, NEW r, ReqOK(r), req' = [req EXCEPT ![t] = r]
      PROVE  ReqTypes'
  <2>1. \A x \in Thread : req'[x] = IF x = t THEN r ELSE req[x]
    BY <1>2, <1>a
  <2>2. \A x \in Thread : ReqOK(req'[x])
    BY <1>2, <1>a, <2>1
  <2>3. \A x \in Thread : ReqOK(req[x])'
    <3>. SUFFICES ASSUME NEW x \in Thread PROVE ReqOK(req[x])'
      OBVIOUS
    <3>1. PICK y : y = req'[x]
      OBVIOUS
    <3>2. ReqOK(y)'
      BY <1>1, <2>2, <3>1
    <3>. QED BY <3>1, <3>2 DEF ReqOK, Changes, Reloads, LogsIn, FileOK
  <2>4. req' = [x \in Thread |-> req'[x]]
    BY <1>2, <1>a
  <2>. QED BY <2>3, <2>4 DEF ReqTypes
<1>3. ASSUME req' = req PROVE ReqTypes'
  <2>1. ASSUME NEW x \in Thread PROVE ReqOK(req[x])'
    <3>1. PICK y : y = req[x]
      OBVIOUS
    <3>2. ReqOK(y)'
      BY <1>1, <1>a, <3>1
    <3>. QED BY <1>3, <3>1, <3>2 DEF ReqOK, Changes, Reloads, LogsIn, FileOK
  <2>. QED BY <1>3, <1>a, <2>1 DEF ReqTypes
<1>4. req' = [t \in Thread |-> Idle] => ReqTypes'
  BY DEF ReqTypes, ReqOK
<1>. QED
  BY <1>2, <1>3, <1>4

\* A change that goes on with a new version.
LEMMA NextFields ==
  ASSUME NEW r, r = [pc |-> r.pc, op |-> r.op, tv |-> r.tv, v |-> r.v], NEW p, NEW n
  PROVE  /\ [r EXCEPT !.pc = p] = [pc |-> p, op |-> r.op, tv |-> r.tv, v |-> r.v]
         /\ [r EXCEPT !.pc = p, !.tv = n] = [pc |-> p, op |-> r.op, tv |-> n, v |-> r.v]
         /\ [r EXCEPT !.pc = p, !.v = n] = [pc |-> p, op |-> r.op, tv |-> r.tv, v |-> n]
<1>1. [r EXCEPT !.pc = p] = [pc |-> p, op |-> r.op, tv |-> r.tv, v |-> r.v]
  <2>1. PICK y : y = [r EXCEPT !.pc = p]
    OBVIOUS
  <2>2. DOMAIN y = {"pc", "op", "tv", "v"} /\ y = [f \in DOMAIN y |-> y[f]]
    BY <2>1
  <2>3. y.pc = p /\ y.op = r.op /\ y.tv = r.tv /\ y.v = r.v
    BY <2>1
  <2>. QED BY <2>1, <2>2, <2>3
<1>2. [r EXCEPT !.pc = p, !.tv = n] = [pc |-> p, op |-> r.op, tv |-> n, v |-> r.v]
  <2>1. PICK y : y = [r EXCEPT !.pc = p, !.tv = n]
    OBVIOUS
  <2>2. DOMAIN y = {"pc", "op", "tv", "v"} /\ y = [f \in DOMAIN y |-> y[f]]
    BY <2>1
  <2>3. y.pc = p /\ y.op = r.op /\ y.tv = n /\ y.v = r.v
    BY <2>1
  <2>. QED BY <2>1, <2>2, <2>3
<1>3. [r EXCEPT !.pc = p, !.v = n] = [pc |-> p, op |-> r.op, tv |-> r.tv, v |-> n]
  <2>1. PICK y : y = [r EXCEPT !.pc = p, !.v = n]
    OBVIOUS
  <2>2. DOMAIN y = {"pc", "op", "tv", "v"} /\ y = [f \in DOMAIN y |-> y[f]]
    BY <2>1
  <2>3. y.pc = p /\ y.op = r.op /\ y.tv = r.tv /\ y.v = n
    BY <2>1
  <2>. QED BY <2>1, <2>2, <2>3
<1>. QED
  BY <1>1, <1>2, <1>3

\* A request that holds a change goes on with it.
LEMMA NextStage ==
  ASSUME NEW r, Changes(r)
  PROVE  /\ Changes([r EXCEPT !.pc = "writing"])
         /\ \A n \in Nat : Changes([r EXCEPT !.pc = "saving", !.tv = n])
         /\ \A n \in Nat : Changes([r EXCEPT !.pc = "stamping", !.v = n])
<1>1. ASSUME NEW p \in {"called", "saving", "writing", "stamping"}, NEW n \in Nat, NEW m \in Nat
      PROVE  Changes([pc |-> p, op |-> r.op, tv |-> n, v |-> m])
  BY DEF Changes
<1>2. r = [pc |-> r.pc, op |-> r.op, tv |-> r.tv, v |-> r.v] /\ r.tv \in Nat /\ r.v \in Nat
  BY DEF Changes
<1>3. Changes([r EXCEPT !.pc = "writing"])
  <2>1. [r EXCEPT !.pc = "writing"] = [pc |-> "writing", op |-> r.op, tv |-> r.tv, v |-> r.v]
    BY <1>2, NextFields
  <2>. QED BY <1>1, <1>2, <2>1
<1>4. ASSUME NEW n \in Nat PROVE Changes([r EXCEPT !.pc = "saving", !.tv = n])
  <2>1. [r EXCEPT !.pc = "saving", !.tv = n] = [pc |-> "saving", op |-> r.op, tv |-> n, v |-> r.v]
    BY <1>2, NextFields
  <2>. QED BY <1>1, <1>2, <2>1
<1>5. ASSUME NEW n \in Nat PROVE Changes([r EXCEPT !.pc = "stamping", !.v = n])
  <2>1. [r EXCEPT !.pc = "stamping", !.v = n] = [pc |-> "stamping", op |-> r.op, tv |-> r.tv, v |-> n]
    BY <1>2, NextFields
  <2>. QED BY <1>1, <1>2, <2>1
<1>. QED
  BY <1>3, <1>4, <1>5

\* What the next stage of a request is.
LEMMA Stages ==
  ASSUME TypeOK, NEW t \in Thread
  PROVE  /\ Answer(t) => req' = [req EXCEPT ![t] = Idle]
         /\ req[t].pc \in {"called", "saving", "writing", "stamping"} => Changes(req[t])
         /\ req[t].pc = "reloading" => Reloads(req[t])
         /\ Apply(t) =>
              \/ Refused(req[t].op) /\ Answer(t) /\ mem' = mem /\ acked' = acked
              \/ /\ ~Refused(req[t].op) /\ mem' = Effect(req[t].op) /\ acked' = Remember(acked, mem')
                 /\ \E r : /\ Changes(r) /\ r.pc = "saving" /\ r.op = req[t].op
                           /\ r.tv = IF r.op.call = "Bump" THEN mem'.users[r.op.user].tv ELSE 0
                           /\ req' = [req EXCEPT ![t] = r]
         /\ SaveChecks(t) =>
              \/ Changed /\ Answer(t) /\ dirty'
              \/ /\ ~Changed /\ dirty' = dirty
                 /\ \E r : /\ Changes(r) /\ r.pc = "writing" /\ r.op = req[t].op /\ r.tv = req[t].tv
                           /\ req' = [req EXCEPT ![t] = r]
         /\ SaveWrites(t) =>
              \E r : /\ Changes(r) /\ r.pc = "stamping" /\ r.op = req[t].op /\ r.tv = req[t].tv
                    /\ r.v = clock + 1
                    /\ req' = [req EXCEPT ![t] = r]
<1>1. Answer(t) => req' = [req EXCEPT ![t] = Idle]
  BY DEF Answer
<1>2. req[t].pc \in {"called", "saving", "writing", "stamping"} => Changes(req[t])
  BY DEF TypeOK, ReqOK, Idle, Reloads, LogsIn
<1>3. req[t].pc = "reloading" => Reloads(req[t])
  BY DEF TypeOK, ReqOK, Idle, Changes, LogsIn
<1>a. req = [x \in Thread |-> req[x]] /\ clock \in Nat
  BY DEF TypeOK
<1>4. ASSUME Apply(t), ~ Refused(req[t].op)
      PROVE  /\ mem' = Effect(req[t].op) /\ acked' = Remember(acked, mem')
             /\ \E r : /\ Changes(r) /\ r.pc = "saving" /\ r.op = req[t].op
                       /\ r.tv = IF r.op.call = "Bump" THEN mem'.users[r.op.user].tv ELSE 0
                       /\ req' = [req EXCEPT ![t] = r]
  <2>1. PICK n : n = IF req[t].op.call = "Bump" THEN mem'.users[req[t].op.user].tv ELSE 0
    OBVIOUS
  <2>2. req' = [req EXCEPT ![t].pc = "saving", ![t].tv = n]
        /\ mem' = Effect(req[t].op) /\ acked' = Remember(acked, mem')
    BY <1>4, <2>1 DEF Apply
  <2>3. PICK r : r = [req[t] EXCEPT !.pc = "saving", !.tv = n]
    OBVIOUS
  <2>4. req' = [req EXCEPT ![t] = r]
    BY <1>a, <2>2, <2>3
  <2>5. Changes(req[t])
    BY <1>2, <1>4 DEF Apply
  <2>6. r = [pc |-> "saving", op |-> req[t].op, tv |-> n, v |-> req[t].v]
    BY <2>3, <2>5, NextFields DEF Changes
  <2>7. n \in Nat
    <3>1. CASE req[t].op.call = "Bump"
      <4>1. req[t].op.user \in DOMAIN mem.users
        BY <1>4, <3>1 DEF Refused
      <4>2. mem' = BumpTokenVersion(mem, req[t].op.user)
        BY <2>2, <3>1 DEF Effect
      <4>3. mem.users[req[t].op.user] \in UserRecord
        BY <4>1 DEF TypeOK, StoreOK, Partial
      <4>4. mem'.users[req[t].op.user].tv = mem.users[req[t].op.user].tv + 1
        BY <4>1, <4>2, <4>3 DEF BumpTokenVersion, UserRecord, TypeOK, StoreOK
      <4>. QED BY <2>1, <3>1, <4>3, <4>4 DEF UserRecord
    <3>. QED BY <2>1, <3>1
  <2>8. Changes(r)
    BY <2>3, <2>5, <2>7, NextStage
  <2>. QED BY <2>1, <2>2, <2>4, <2>6, <2>8
<1>5. ASSUME SaveChecks(t), ~Changed
      PROVE  \E r : /\ Changes(r) /\ r.pc = "writing" /\ r.op = req[t].op /\ r.tv = req[t].tv
                   /\ req' = [req EXCEPT ![t] = r]
  <2>1. PICK r : r = [req[t] EXCEPT !.pc = "writing"]
    OBVIOUS
  <2>2. Changes(req[t])
    BY <1>2, <1>5 DEF SaveChecks
  <2>3. Changes(r)
    BY <2>1, <2>2, NextStage
  <2>4. r = [pc |-> "writing", op |-> req[t].op, tv |-> req[t].tv, v |-> req[t].v]
    BY <2>1, <2>2, NextFields DEF Changes
  <2>5. req' = [req EXCEPT ![t] = r]
    BY <1>a, <1>5, <2>1 DEF SaveChecks
  <2>. QED BY <2>3, <2>4, <2>5
<1>6. ASSUME SaveWrites(t)
      PROVE  \E r : /\ Changes(r) /\ r.pc = "stamping" /\ r.op = req[t].op /\ r.tv = req[t].tv
                   /\ r.v = clock + 1
                   /\ req' = [req EXCEPT ![t] = r]
  <2>1. PICK r : r = [req[t] EXCEPT !.pc = "stamping", !.v = clock + 1]
    OBVIOUS
  <2>2. Changes(req[t])
    BY <1>2, <1>6 DEF SaveWrites
  <2>3. clock + 1 \in Nat
    BY <1>a
  <2>4. Changes(r)
    BY <2>1, <2>2, <2>3, NextStage
  <2>5. r = [pc |-> "stamping", op |-> req[t].op, tv |-> req[t].tv, v |-> clock + 1]
    BY <2>1, <2>2, NextFields DEF Changes
  <2>6. req' = [req EXCEPT ![t] = r]
    BY <1>a, <1>6, <2>1 DEF SaveWrites
  <2>. QED BY <2>4, <2>5, <2>6
<1>7. Apply(t) /\ Refused(req[t].op) => Answer(t) /\ mem' = mem /\ acked' = acked
  BY DEF Apply
<1>8. SaveChecks(t) /\ Changed => Answer(t) /\ dirty'
  BY DEF SaveChecks
<1>9. SaveChecks(t) /\ ~Changed => dirty' = dirty
  BY DEF SaveChecks
<1>. QED
  BY <1>1, <1>2, <1>3, <1>4, <1>5, <1>6, <1>7, <1>8, <1>9

LEMMA TypeStep ==
  ASSUME TypeOK, [Next]_vars
  PROVE  TypeOK'
<1>a. StoreTypes /\ ReqTypes /\ RestTypes
  BY DEF TypeOK, StoreTypes, ReqTypes, RestTypes, Ack
<1>b. ASSUME StoreTypes', ReqTypes', RestTypes' PROVE TypeOK'
  BY <1>b DEF TypeOK, StoreTypes, ReqTypes, RestTypes, Ack
<1>c. /\ stamp \in Nat /\ clock \in Nat /\ file.v \in Nat /\ file.v <= clock /\ stamp <= clock
      /\ edits \in Nat /\ StoreOK(mem) /\ StoreOK(file.data)
      /\ seen \subseteq 1..edits /\ raced \subseteq 1..edits /\ file.edits \subseteq 1..edits
      /\ file = [v |-> file.v, data |-> file.data, edits |-> file.edits]
      /\ started \in 0..MaxRequests /\ MaxRequests \in Nat
  BY SessionsAssumption DEF TypeOK, FileOK, SessionsAssumption
<1>d. ReqOK(Idle)
  BY DEF ReqOK
\* A step of one request that leaves the file, or the store, or both.
<1>e. UNCHANGED <<mem, stamp, seen, disk, edits, raced>> => StoreTypes'
  BY <1>a DEF StoreTypes, disk, FileOK
<1>f. UNCHANGED <<codes, failures, issued, acked>> /\ started' \in 0..MaxRequests => RestTypes'
  BY <1>a DEF RestTypes
<1>g. ASSUME NEW t \in Thread, NEW r, ReqOK(r), req' = [req EXCEPT ![t] = r],
             edits' = edits, clock' \in {clock, clock + 1}
      PROVE  ReqTypes'
  <2>1. edits' \in Nat /\ edits <= edits' /\ clock' \in Nat /\ clock <= clock'
    BY <1>c, <1>g
  <2>2. \A x \in Thread : \A y : ReqOK(y) /\ req' = [req EXCEPT ![x] = y] => ReqTypes'
    BY <2>1, ReqTypesStep
  <2>. QED BY <1>g, <2>2
<1>1. ASSUME NEW t \in Thread, \E op : Calling(t, op) PROVE TypeOK'
  <2>1. PICK op : Calling(t, op)
    BY <1>1
  <2>2. PICK r : r = [pc |-> "called", op |-> op, tv |-> 0, v |-> 0]
    OBVIOUS
  <2>3. ReqOK(r)
    BY <2>1, <2>2 DEF Calling, ReqOK, Changes
  <2>4. UNCHANGED <<mem, stamp, seen, disk, edits, raced, clock, codes, failures, issued, acked>>
        /\ started' = started + 1 /\ started < MaxRequests /\ req' = [req EXCEPT ![t] = r]
    BY <2>1, <2>2 DEF Calling, memory, disk, ghosts
  <2>5. started' \in 0..MaxRequests
    BY <1>c, <2>4
  <2>. QED BY <1>b, <1>c, <1>e, <1>f, <1>g, <2>3, <2>4, <2>5
<1>2. ASSUME NEW t \in Thread, Reloading(t) PROVE TypeOK'
  <2>1. PICK r : r = [pc |-> "reloading", op |-> file]
    OBVIOUS
  <2>2. ReqOK(r)
    BY <2>1, <1>a, <1>c DEF ReqOK, Reloads, StoreTypes
  <2>3. UNCHANGED <<mem, stamp, seen, disk, edits, raced, clock, codes, failures, issued, acked>>
        /\ started' = started + 1 /\ started < MaxRequests /\ req' = [req EXCEPT ![t] = r]
    BY <1>2, <2>1 DEF Reloading, memory, disk, ghosts
  <2>4. started' \in 0..MaxRequests
    BY <1>c, <2>3
  <2>. QED BY <1>b, <1>c, <1>e, <1>f, <1>g, <2>2, <2>3, <2>4
<1>3. ASSUME Logging PROVE TypeOK'
  <2>1. UNCHANGED <<mem, stamp, seen, disk, edits, raced, clock, acked>>
    BY <1>3 DEF Logging, memory, disk, ghosts
  <2>2. StoreTypes'
    BY <1>e, <2>1
  <2>3. started' \in 0..MaxRequests
    BY <1>3, <1>c DEF Logging
  <2>4. RestTypes'
    BY <1>3, <1>a, <2>1, <2>3 DEF RestTypes, Logging
  <2>5. ReqTypes'
    <3>1. CASE req' = req
      BY <3>1, <2>1, <1>c, ReqTypesStep
    <3>2. ASSUME NEW t \in Thread, NEW r, r = Idle \/ LogsIn(r), req' = [req EXCEPT ![t] = r]
          PROVE  ReqTypes'
      <4>1. ReqOK(r)
        BY <3>2 DEF ReqOK
      <4>. QED BY <1>c, <1>g, <2>1, <3>2, <4>1
    <3>. QED BY <1>3, <3>1, <3>2 DEF Logging
  <2>. QED BY <1>b, <2>2, <2>4, <2>5
<1>4. ASSUME NEW t \in Thread, Apply(t) PROVE TypeOK'
  <2>1. UNCHANGED <<stamp, seen, disk, edits, raced, clock, codes, failures, issued, started>>
    BY <1>4 DEF Apply, disk
  <2>2. CASE Answer(t) /\ mem' = mem /\ acked' = acked
    BY <1>b, <1>c, <1>d, <1>e, <1>f, <1>g, <2>1, <2>2, Stages
  <2>3. CASE /\ ~Refused(req[t].op) /\ mem' = Effect(req[t].op) /\ acked' = Remember(acked, mem')
             /\ \E r : Changes(r) /\ req' = [req EXCEPT ![t] = r]
    <3>1. StoreOK(mem')
      <4>1. OpOK(req[t].op)
        BY <1>4, Stages DEF Apply, Changes
      <4>. QED BY <1>c, <2>3, <4>1, EffectType
    <3>2. StoreTypes'
      BY <1>a, <2>1, <3>1 DEF StoreTypes, disk, FileOK
    <3>3. acked' \in [User -> Ack]
      BY <1>a, <2>3, AckTypes DEF RestTypes
    <3>4. RestTypes'
      BY <1>a, <2>1, <3>3 DEF RestTypes
    <3>5. ReqTypes'
      BY <1>c, <1>g, <2>1, <2>3 DEF ReqOK
    <3>. QED BY <1>b, <3>2, <3>4, <3>5
  <2>. QED BY <1>4, <2>2, <2>3, Stages
<1>5. ASSUME NEW t \in Thread, SaveChecks(t) PROVE TypeOK'
  <2>1. UNCHANGED <<mem, stamp, seen, disk, edits, raced, clock, codes, failures, issued, acked, started>>
    BY <1>5 DEF SaveChecks, disk, memory
  <2>2. \E r : ReqOK(r) /\ req' = [req EXCEPT ![t] = r]
    BY <1>5, <1>d, Stages DEF ReqOK
  <2>. QED BY <1>b, <1>c, <1>e, <1>f, <1>g, <2>1, <2>2
<1>6. ASSUME NEW t \in Thread, SaveWrites(t) PROVE TypeOK'
  <2>1. /\ UNCHANGED <<mem, stamp, seen, edits, raced, codes, failures, issued, acked, started>>
        /\ clock' = clock + 1 /\ file' = [v |-> clock + 1, data |-> mem, edits |-> seen]
    BY <1>6 DEF SaveWrites, memory, ghosts
  <2>2. file'.v = clock + 1 /\ file'.data = mem /\ file'.edits = seen
    BY <2>1
  <2>3. StoreTypes'
    BY <1>c, <2>1, <2>2 DEF StoreTypes, FileOK
  <2>4. \E r : ReqOK(r) /\ req' = [req EXCEPT ![t] = r]
    BY <1>6, Stages DEF ReqOK
  <2>5. ReqTypes'
    BY <1>c, <1>g, <2>1, <2>4
  <2>. QED BY <1>b, <1>c, <1>f, <2>1, <2>3, <2>5
<1>7. ASSUME NEW t \in Thread, SaveStamps(t) PROVE TypeOK'
  <2>1. /\ UNCHANGED <<mem, seen, disk, edits, raced, clock, codes, failures, started>>
        /\ stamp' \in {stamp, file.v}
        /\ Answer(t)
    BY <1>7 DEF SaveStamps, disk
  <2>2. StoreTypes'
    BY <1>a, <1>c, <2>1 DEF StoreTypes, disk, FileOK
  <2>3. ReqTypes'
    BY <1>c, <1>d, <1>g, <2>1, Stages
  <2>4. Changes(req[t])
    BY <1>7, Stages DEF SaveStamps
  <2>5. acked' \in [User -> Ack]
    <3>1. \/ acked' = acked
          \/ /\ req[t].op.call \in {"Bump", "AddToken", "RevokeToken"}
             /\ acked' = Acknowledge(req[t].op, req[t].tv)
      BY <1>7 DEF SaveStamps, ChangesTokens
    <3>2. acked \in [User -> Ack] /\ OpOK(req[t].op) /\ req[t].tv \in Nat
      BY <1>a, <2>4 DEF RestTypes, Changes
    <3>. QED BY <3>1, <3>2, AckTypes
  <2>6. issued' \subseteq Claims
    <3>1. req[t].op.call = "AddToken" => req[t].op.claims \in Claims
      BY <2>4 DEF Changes, OpOK
    <3>. QED BY <1>a, <1>7, <3>1 DEF SaveStamps, RestTypes
  <2>7. RestTypes'
    BY <1>a, <2>1, <2>5, <2>6 DEF RestTypes
  <2>. QED BY <1>b, <2>2, <2>3, <2>7
<1>8. ASSUME NEW t \in Thread, SaveFails(t) PROVE TypeOK'
  <2>1. UNCHANGED <<mem, stamp, seen, disk, edits, raced, clock, codes, failures, issued, acked, started>>
        /\ Answer(t)
    BY <1>8 DEF SaveFails, disk, memory
  <2>. QED BY <1>b, <1>c, <1>d, <1>e, <1>f, <1>g, <2>1, Stages
<1>9. ASSUME NEW t \in Thread, ReloadSets(t) PROVE TypeOK'
  <2>1. /\ UNCHANGED <<disk, edits, raced, clock, codes, failures, issued, started>>
        /\ stamp' \in {0, file.v} /\ mem' = req[t].op.data /\ seen' = req[t].op.edits
        /\ acked' = Remember(acked, mem') /\ req' = [req EXCEPT ![t] = Idle]
    BY <1>9 DEF ReloadSets, disk, Answer
  <2>2. FileOK(req[t].op)
    BY <1>9, Stages DEF ReloadSets, Reloads
  <2>3. StoreTypes'
    BY <1>a, <1>c, <2>1, <2>2 DEF StoreTypes, disk, FileOK
  <2>4. ReqTypes'
    BY <1>c, <1>d, <1>g, <2>1
  <2>5. RestTypes'
    BY <1>a, <2>1, AckTypes DEF RestTypes
  <2>. QED BY <1>b, <2>3, <2>4, <2>5
<1>10. ASSUME Restart PROVE TypeOK'
  <2>1. PICK s : s = SeedRoles(file.data)
    OBVIOUS
  <2>2. StoreOK(s)
    BY <1>c, <2>1, SettersOfTheRest
  <2>3. /\ UNCHANGED <<edits, raced, issued, started>> /\ mem' = s /\ seen' = file.edits /\ stamp' = file'.v
        /\ req' = [x \in Thread |-> Idle] /\ acked' = Remember(acked, s)
        /\ codes' = [k \in Code |-> Nothing] /\ failures' = [k \in DOMAIN failures |-> 0]
        /\ IF s # file.data
           THEN clock' = clock + 1 /\ file' = [file EXCEPT !.v = clock + 1, !.data = s]
           ELSE file' = file /\ clock' = clock
    BY <1>10, <2>1 DEF Restart, disk
  <2>4. /\ clock' \in Nat /\ clock <= clock' /\ FileOK(file') /\ file'.v <= clock'
        /\ file' = [v |-> file'.v, data |-> file'.data, edits |-> file'.edits]
        /\ file'.edits = file.edits
    <3>1. CASE s = file.data
      BY <1>c, <2>3, <3>1 DEF FileOK
    <3>2. CASE s # file.data
      <4>1. file' = [v |-> clock + 1, data |-> s, edits |-> file.edits]
        <5>1. PICK y : y = [file EXCEPT !.v = clock + 1, !.data = s]
          OBVIOUS
        <5>2. DOMAIN y = {"v", "data", "edits"} /\ y = [f \in DOMAIN y |-> y[f]]
          BY <1>c, <5>1
        <5>3. y.v = clock + 1 /\ y.data = s /\ y.edits = file.edits
          BY <1>c, <5>1
        <5>. QED BY <2>3, <3>2, <5>1, <5>2, <5>3
      <4>. QED BY <1>c, <2>2, <2>3, <3>2, <4>1 DEF FileOK
    <3>. QED BY <3>1, <3>2
  <2>5. StoreTypes'
    BY <1>c, <2>2, <2>3, <2>4 DEF StoreTypes, FileOK
  <2>6. ReqTypes'
    BY <1>c, <2>3, <2>4, ReqTypesStep
  <2>7. failures' \in [User \cup {CodeKey} -> Nat]
    BY <1>a, <2>3 DEF RestTypes
  <2>8. RestTypes'
    BY <1>a, <2>3, <2>7, AckTypes DEF RestTypes
  <2>. QED BY <1>b, <2>5, <2>6, <2>8
<1>11. ASSUME Edit PROVE TypeOK'
  <2>1. /\ UNCHANGED <<mem, stamp, seen, req, codes, failures, issued, acked, started>>
        /\ edits' = edits + 1 /\ clock' = clock + 1 /\ raced' \subseteq raced \cup {edits + 1}
        /\ file' = [file EXCEPT !.v = clock + 1, !.edits = @ \cup {edits + 1}]
    BY <1>11 DEF Edit, memory
  <2>2. file' = [v |-> clock + 1, data |-> file.data, edits |-> file.edits \cup {edits + 1}]
    <3>1. PICK y : y = [file EXCEPT !.v = clock + 1, !.edits = @ \cup {edits + 1}]
      OBVIOUS
    <3>2. DOMAIN y = {"v", "data", "edits"} /\ y = [f \in DOMAIN y |-> y[f]]
      BY <1>c, <3>1
    <3>3. y.v = clock + 1 /\ y.data = file.data /\ y.edits = file.edits \cup {edits + 1}
      BY <1>c, <3>1
    <3>. QED BY <2>1, <3>1, <3>2, <3>3
  <2>3. file'.v = clock + 1 /\ file'.data = file.data /\ file'.edits = file.edits \cup {edits + 1}
    BY <2>2
  <2>4. 1..edits \cup {edits + 1} \subseteq 1..edits'
    BY <1>c, <2>1
  <2>5. StoreTypes'
    <3>1. file'.edits \subseteq 1..edits' /\ seen' \subseteq 1..edits' /\ raced' \subseteq 1..edits'
      BY <1>c, <2>1, <2>3, <2>4
    <3>2. FileOK(file)'
      BY <1>c, <2>3, <3>1 DEF FileOK
    <3>3. file'.v <= clock' /\ stamp' <= clock' /\ edits' \in Nat /\ clock' \in Nat
      BY <1>c, <2>1, <2>3
    <3>. QED BY <1>c, <2>1, <2>2, <2>3, <3>1, <3>2, <3>3 DEF StoreTypes
  <2>6. ReqTypes'
    BY <1>c, <2>1, ReqTypesStep
  <2>. QED BY <1>b, <1>c, <1>f, <2>1, <2>5, <2>6
<1>12. ASSUME Remove PROVE TypeOK'
  <2>1. /\ UNCHANGED <<mem, stamp, seen, clock, req, codes, failures, issued, acked, started>>
        /\ edits' = edits + 1 /\ raced' = raced \cup 1..edits'
        /\ file' = [v |-> 0, data |-> EmptyStore, edits |-> {}]
    BY <1>12 DEF Remove, memory
  <2>2. StoreOK(EmptyStore)
    <3>1. << >> \in RuleList
      BY SessionsAssumption DEF SessionsAssumption
    <3>2. DOMAIN << >> = {}
      OBVIOUS
    <3>3. \A S, T : Partial(<< >>, S, T)
      BY <3>2 DEF Partial
    <3>. QED BY <3>1, <3>3 DEF EmptyStore, StoreOK
  <2>3. file'.v = 0 /\ file'.data = EmptyStore /\ file'.edits = {}
    BY <2>1
  <2>4. 1..edits \subseteq 1..edits'
    BY <1>c, <2>1
  <2>5. StoreTypes'
    <3>1. FileOK(file)'
      BY <2>2, <2>3 DEF FileOK
    <3>. QED BY <1>c, <2>1, <2>3, <2>4, <3>1 DEF StoreTypes
  <2>6. ReqTypes'
    BY <1>c, <2>1, ReqTypesStep
  <2>. QED BY <1>b, <1>c, <1>f, <2>1, <2>5, <2>6
<1>13. ASSUME UNCHANGED vars PROVE TypeOK'
  <2>1. UNCHANGED <<mem, stamp, seen, disk, edits, raced, clock, req, codes, failures, issued, acked, started>>
    BY <1>13 DEF vars, memory, disk, ghosts
  <2>. QED BY <1>b, <1>c, <1>e, <1>f, <2>1, ReqTypesStep
<1>. QED
  BY <1>1, <1>2, <1>3, <1>4, <1>5, <1>6, <1>7, <1>8, <1>9, <1>10, <1>11, <1>12, <1>13, Moves

LEMMA InitTypes ==
  Init => TypeOK /\ EditsOK
<1>. SUFFICES ASSUME Init PROVE TypeOK /\ EditsOK
  OBVIOUS
<1>1. PICK s \in InitialStores :
        /\ mem = s /\ seen = {} /\ file = [v |-> 1, data |-> s, edits |-> {}]
        /\ issued = {[user |-> u, role |-> s.users[u].role, tv |-> s.users[u].tv,
                      perms |-> PermissionsFor(s, s.users[u].role), jti |-> Nothing]
                       : u \in DOMAIN s.users}
  BY DEF Init
<1>2. StoreOK(s) /\ MaxRequests \in Nat
  BY SessionsAssumption DEF SessionsAssumption
<1>3. issued \subseteq Claims
  <2>. SUFFICES ASSUME NEW u \in DOMAIN s.users
       PROVE [user |-> u, role |-> s.users[u].role, tv |-> s.users[u].tv,
              perms |-> PermissionsFor(s, s.users[u].role), jti |-> Nothing] \in Claims
    BY <1>1
  <2>1. u \in User /\ s.users[u] \in UserRecord
    BY <1>2 DEF StoreOK, Partial
  <2>2. s.users[u].role \in Role /\ s.users[u].tv \in Nat
    BY <2>1 DEF UserRecord
  <2>3. PermissionsFor(s, s.users[u].role) \in SUBSET AllPermissions
    BY <1>2, <2>1, <2>2, RoleTypes
  <2>. QED BY <2>1, <2>2, <2>3 DEF Claims
<1>4. file.v = 1 /\ file.data = s /\ file.edits = {}
  BY <1>1
<1>5. /\ stamp = 1 /\ clock = 1 /\ edits = 0 /\ started = 0 /\ raced = {} /\ seen = {}
      /\ req = [t \in Thread |-> Idle]
  BY <1>1 DEF Init
<1>6. FileOK(file)
  BY <1>2, <1>4 DEF FileOK
<1>7. 0 \in 0..MaxRequests
  BY <1>2
<1>8. acked \in [User -> [tv: Nat, valid: SUBSET Jti, revoked: SUBSET Jti]]
  BY DEF Init, NoAck
<1>9. codes \in [Code -> User \cup {Nothing}] /\ failures \in [User \cup {CodeKey} -> Nat]
  BY DEF Init
<1>10. 1..edits = {}
  BY <1>5
<1>11. EditsOK
  BY <1>5, <1>10 DEF EditsOK, Idle
<1>12. /\ stamp \in Nat /\ clock \in Nat /\ file.v <= clock /\ stamp <= clock /\ edits \in Nat
  BY <1>4, <1>5
<1>13. (\A t \in Thread : ReqOK(req[t])) /\ req = [t \in Thread |-> req[t]]
  BY <1>5 DEF ReqOK
<1>14. file = [v |-> file.v, data |-> file.data, edits |-> file.edits]
  BY <1>1
<1>. QED
  BY <1>1, <1>2, <1>3, <1>5, <1>6, <1>7, <1>8, <1>9, <1>11, <1>12, <1>13, <1>14 DEF TypeOK

LEMMA TypeInvariant == Spec => []TypeOK
<1>1. Init => TypeOK
  BY InitTypes
<1>2. TypeOK /\ [Next]_vars => TypeOK'
  BY TypeStep
<1>. QED
  BY <1>1, <1>2, PTL DEF Spec

\* Save and Reload lose no manual edit but those that fall between the moment
\* they look at users.yaml and the moment they act on it (acl/store.go:274):
\* with any number of requests and restarts.
THEOREM EditsStay == Spec => []EditsKept
<1>1. Init => EditsOK
  BY InitTypes
<1>2. TypeOK /\ EditsOK /\ [Next]_vars => EditsOK'
  BY EditsStep
<1>3. EditsOK => EditsKept
  BY DEF EditsOK, EditsKept
<1>. QED
  BY <1>1, <1>2, <1>3, TypeInvariant, PTL DEF Spec

-----------------------------------------------------------------------------
(* The store in memory and the file *)

\* One request saves at a time; what is stamped is what memory holds, unless
\* the file has another version by then; what a Reload read is what the file
\* holds, unless likewise.
MatchOK ==
  /\ \A t, u \in Thread :
       (req[t].pc = "writing" \/ req[t].pc = "stamping") /\ (req[u].pc = "writing" \/ req[u].pc = "stamping")
         => t = u
  /\ MemoryMatchesFile
  /\ \A t \in Thread : req[t].pc = "stamping" =>
       /\ req[t].v # 0 /\ req[t].v <= clock
       /\ req[t].v = file.v => file.data = mem /\ file.edits = seen
  /\ \A t \in Thread : req[t].pc = "reloading" /\ req[t].op.v # 0 /\ req[t].op.v = file.v =>
       req[t].op.data = file.data /\ req[t].op.edits = file.edits

LEMMA MatchStep ==
  ASSUME TypeOK, MatchOK, [Next]_vars
  PROVE  MatchOK'
<1>a. /\ stamp \in Nat /\ clock \in Nat /\ file.v \in Nat /\ file.v <= clock /\ stamp <= clock
      /\ req = [t \in Thread |-> req[t]]
      /\ file = [v |-> file.v, data |-> file.data, edits |-> file.edits]
  BY DEF TypeOK, FileOK
<1>b. /\ \A t, u \in Thread :
            (req[t].pc = "writing" \/ req[t].pc = "stamping") /\ (req[u].pc = "writing" \/ req[u].pc = "stamping")
              => t = u
      /\ (Saved /\ ~stale /\ stamp # 0 /\ stamp = file.v) => mem = file.data /\ seen = file.edits
      /\ \A t \in Thread : req[t].pc = "stamping" =>
            /\ req[t].v # 0 /\ req[t].v <= clock
            /\ req[t].v = file.v => file.data = mem /\ file.edits = seen
      /\ \A t \in Thread : req[t].pc = "reloading" /\ req[t].op.v # 0 /\ req[t].op.v = file.v =>
            req[t].op.data = file.data /\ req[t].op.edits = file.edits
      /\ \A t \in Thread : req[t].pc = "reloading" => req[t].op.v <= clock
  BY Stages DEF MatchOK, MemoryMatchesFile, Reloads
<1>c. ASSUME NEW t \in Thread, NEW r, req' = [req EXCEPT ![t] = r]
      PROVE  req'[t] = r /\ \A u \in Thread \ {t} : req'[u] = req[u]
  BY <1>a, <1>c
\* Steps that leave the store and the file, and do not end a Save.
<1>1. ASSUME UNCHANGED <<mem, stamp, seen, file, clock, stale>>, NEW t \in Thread, NEW r,
             req' = [req EXCEPT ![t] = r], r.pc # "stamping", r.pc = "writing" => Unlocked,
             r.pc = "reloading" => r.op = file,
             Saved' => Saved
      PROVE  MatchOK'
  <2>1. req'[t] = r /\ \A u \in Thread \ {t} : req'[u] = req[u]
    BY <1>1, <1>c
  <2>2. MemoryMatchesFile'
    BY <1>1, <1>b DEF MemoryMatchesFile
  <2>3. \A x, u \in Thread :
            (req'[x].pc = "writing" \/ req'[x].pc = "stamping") /\ (req'[u].pc = "writing" \/ req'[u].pc = "stamping")
              => x = u
    BY <1>1, <1>b, <2>1 DEF Unlocked
  <2>. QED BY <1>1, <1>b, <2>1, <2>2, <2>3 DEF MatchOK
<1>2. ASSUME NEW t \in Thread, \E op : Calling(t, op) PROVE MatchOK'
  <2>1. PICK r : r.pc = "called" /\ req' = [req EXCEPT ![t] = r] /\ req[t].pc = "idle"
    BY <1>2 DEF Calling
  <2>2. UNCHANGED <<mem, stamp, seen, file, clock, stale, dirty>>
    BY <1>2 DEF Calling, memory, disk, ghosts
  <2>3. Saved' => Saved
    BY <1>c, <2>1, <2>2 DEF Saved
  <2>. QED BY <1>1, <2>1, <2>2, <2>3
<1>3. ASSUME NEW t \in Thread, Reloading(t) PROVE MatchOK'
  <2>1. PICK r : r = [pc |-> "reloading", op |-> file]
    OBVIOUS
  <2>2. r.pc = "reloading" /\ r.op = file /\ req' = [req EXCEPT ![t] = r] /\ req[t].pc = "idle"
    BY <1>3, <2>1 DEF Reloading
  <2>3. UNCHANGED <<mem, stamp, seen, file, clock, stale, dirty>>
    BY <1>3 DEF Reloading, memory, disk, ghosts
  <2>4. Saved' => Saved
    BY <1>c, <2>2, <2>3 DEF Saved
  <2>. QED BY <1>1, <2>2, <2>3, <2>4
<1>4. ASSUME Logging PROVE MatchOK'
  <2>1. UNCHANGED <<mem, stamp, seen, file, clock, stale, dirty>>
    BY <1>4 DEF Logging, memory, disk, ghosts
  <2>2. CASE req' = req
    BY <2>1, <2>2, <1>b DEF MatchOK, MemoryMatchesFile, Saved
  <2>3. ASSUME NEW t \in Thread, NEW r, r = Idle \/ LogsIn(r), req' = [req EXCEPT ![t] = r],
               req[t].pc \in {"idle", "issuing"}
        PROVE  MatchOK'
    <3>1. r.pc = "idle" \/ r.pc = "issuing"
      BY <2>3 DEF Idle, LogsIn
    <3>2. Saved' => Saved
      BY <1>c, <2>1, <2>3 DEF Saved
    <3>. QED BY <1>1, <2>1, <2>3, <3>1, <3>2
  <2>. QED BY <1>4, <2>2, <2>3 DEF Logging
<1>5. ASSUME NEW t \in Thread, Apply(t) PROVE MatchOK'
  <2>1. UNCHANGED <<stamp, seen, file, clock, stale, dirty>> /\ Unlocked /\ req[t].pc = "called"
    BY <1>5 DEF Apply, disk
  <2>2. CASE Answer(t) /\ mem' = mem
    <3>1. req' = [req EXCEPT ![t] = Idle] /\ Idle.pc = "idle"
      BY <2>2, Stages DEF Idle
    <3>2. Saved' => Saved
      BY <1>c, <2>1, <3>1 DEF Saved
    <3>. QED BY <1>1, <2>1, <2>2, <3>1, <3>2
  <2>3. CASE \E r : r.pc = "saving" /\ req' = [req EXCEPT ![t] = r]
    <3>1. PICK r : r.pc = "saving" /\ req' = [req EXCEPT ![t] = r]
      BY <2>3
    <3>2. req'[t] = r /\ \A u \in Thread \ {t} : req'[u] = req[u]
      BY <1>c, <3>1
    <3>3. ~Saved'
      BY <3>1, <3>2 DEF Saved
    <3>. QED BY <1>b, <2>1, <3>1, <3>2, <3>3 DEF MatchOK, MemoryMatchesFile, Unlocked
  <2>. QED BY <1>5, <2>2, <2>3, Stages
<1>6. ASSUME NEW t \in Thread, SaveChecks(t) PROVE MatchOK'
  <2>1. UNCHANGED <<mem, stamp, seen, file, clock, stale>> /\ Unlocked
    BY <1>6 DEF SaveChecks, memory, disk
  <2>2. CASE Answer(t) /\ dirty'
    <3>1. req' = [req EXCEPT ![t] = Idle] /\ Idle.pc = "idle"
      BY <2>2, Stages DEF Idle
    <3>. QED BY <1>1, <2>1, <2>2, <3>1 DEF Saved
  <2>3. CASE \E r : r.pc = "writing" /\ req' = [req EXCEPT ![t] = r]
    <3>1. PICK r : r.pc = "writing" /\ req' = [req EXCEPT ![t] = r]
      BY <2>3
    <3>2. ~Saved'
      BY <1>c, <3>1 DEF Saved
    <3>. QED BY <1>1, <2>1, <3>1, <3>2
  <2>. QED BY <1>6, <2>2, <2>3, Stages
<1>7. ASSUME NEW t \in Thread, SaveWrites(t) PROVE MatchOK'
  <2>1. PICK r : r.pc = "stamping" /\ r.v = clock + 1 /\ req' = [req EXCEPT ![t] = r]
    BY <1>7, Stages
  <2>2. req'[t] = r /\ \A u \in Thread \ {t} : req'[u] = req[u]
    BY <1>c, <2>1
  <2>3. /\ UNCHANGED <<mem, stamp, seen, stale>> /\ clock' = clock + 1 /\ req[t].pc = "writing"
        /\ file'.v = clock + 1 /\ file'.data = mem /\ file'.edits = seen
    BY <1>7 DEF SaveWrites, memory, ghosts
  <2>4. ~Saved'
    BY <2>1, <2>2 DEF Saved
  <2>. QED BY <1>a, <1>b, <2>1, <2>2, <2>3, <2>4 DEF MatchOK, MemoryMatchesFile
<1>8. ASSUME NEW t \in Thread, SaveStamps(t) PROVE MatchOK'
  <2>1. req'[t] = Idle /\ \A u \in Thread \ {t} : req'[u] = req[u]
    <3>1. req' = [req EXCEPT ![t] = Idle]
      BY <1>8, Stages DEF SaveStamps
    <3>. QED BY <1>c, <3>1
  <2>2. /\ UNCHANGED <<mem, seen, file, clock>> /\ req[t].pc = "stamping"
        /\ ~stale' => file.v = 0 \/ file.v = req[t].v
    BY <1>8 DEF SaveStamps, disk
  <2>3. MemoryMatchesFile'
    BY <1>b, <2>2 DEF MemoryMatchesFile
  <2>. QED BY <1>b, <2>1, <2>2, <2>3 DEF MatchOK, Idle
<1>9. ASSUME NEW t \in Thread, SaveFails(t) PROVE MatchOK'
  <2>1. UNCHANGED <<mem, stamp, seen, file, clock, stale>> /\ dirty'
    BY <1>9 DEF SaveFails, memory, disk
  <2>2. req' = [req EXCEPT ![t] = Idle] /\ Idle.pc = "idle"
    BY <1>9, Stages DEF Idle, SaveFails
  <2>. QED BY <1>1, <2>1, <2>2 DEF Saved
<1>10. ASSUME NEW t \in Thread, ReloadSets(t) PROVE MatchOK'
  <2>1. req'[t] = Idle /\ \A u \in Thread \ {t} : req'[u] = req[u]
    <3>1. req' = [req EXCEPT ![t] = Idle]
      BY <1>10 DEF ReloadSets, Answer
    <3>. QED BY <1>c, <3>1
  <2>2. /\ UNCHANGED <<file, clock>> /\ req[t].pc = "reloading" /\ Unlocked
        /\ mem' = req[t].op.data /\ seen' = req[t].op.edits
        /\ stamp' = IF req[t].op.v = 0 THEN 0 ELSE file.v
        /\ ~stale' => req[t].op.v = 0 \/ req[t].op.v = file.v
    BY <1>10 DEF ReloadSets, disk
  <2>3. MemoryMatchesFile'
    BY <1>b, <2>2 DEF MemoryMatchesFile
  <2>. QED BY <1>b, <2>1, <2>2, <2>3 DEF MatchOK, Idle, Unlocked
<1>11. ASSUME Restart PROVE MatchOK'
  <2>1. /\ mem' = SeedRoles(file.data) /\ seen' = file.edits
        /\ \A t \in Thread : req'[t] = Idle
    BY <1>11 DEF Restart
  <2>2. mem' = file'.data /\ seen' = file'.edits
    <3>1. CASE SeedRoles(file.data) = file.data
      BY <1>11, <2>1, <3>1 DEF Restart, disk
    <3>2. CASE SeedRoles(file.data) # file.data
      <4>1. file' = [file EXCEPT !.v = clock + 1, !.data = SeedRoles(file.data)]
        BY <1>11, <3>2 DEF Restart
      <4>. QED BY <1>a, <2>1, <4>1
    <3>. QED BY <3>1, <3>2
  <2>. QED BY <2>1, <2>2 DEF MatchOK, MemoryMatchesFile, Idle
<1>12. ASSUME Edit PROVE MatchOK'
  <2>1. UNCHANGED <<mem, stamp, seen, req>> /\ clock' = clock + 1 /\ file'.v = clock + 1
    BY <1>12, <1>a DEF Edit, memory
  <2>2. MemoryMatchesFile'
    BY <1>a, <2>1 DEF MemoryMatchesFile
  <2>3. \A v \in Nat : v <= clock => v # file'.v /\ v <= clock'
    BY <1>a, <2>1
  <2>4. \A t \in Thread : req[t].pc = "stamping" => req[t].v # file'.v /\ req[t].v <= clock'
    BY <1>b, <2>3, Stages DEF Changes
  <2>5. \A t \in Thread : req[t].pc = "reloading" => req[t].op.v # file'.v
    BY <1>b, <2>3, Stages DEF Reloads, FileOK
  <2>. QED BY <1>b, <2>1, <2>2, <2>4, <2>5 DEF MatchOK
<1>13. ASSUME Remove PROVE MatchOK'
  <2>1. UNCHANGED <<mem, stamp, seen, req, clock>> /\ file'.v = 0
    BY <1>13 DEF Remove, memory
  <2>2. MemoryMatchesFile'
    BY <1>a, <2>1 DEF MemoryMatchesFile
  <2>. QED BY <1>a, <1>b, <2>1, <2>2 DEF MatchOK
<1>14. ASSUME UNCHANGED vars PROVE MatchOK'
  BY <1>14, <1>b DEF vars, memory, disk, ghosts, MatchOK, MemoryMatchesFile, Saved
<1>. QED
  BY <1>2, <1>3, <1>4, <1>5, <1>6, <1>7, <1>8, <1>9, <1>10, <1>11, <1>12, <1>13, <1>14, Moves

LEMMA MatchInit == Init => MatchOK
<1>. SUFFICES ASSUME Init PROVE MatchOK
  OBVIOUS
<1>1. mem = file.data /\ seen = file.edits /\ \A t \in Thread : req[t].pc = "idle"
  BY DEF Init, Idle
<1>. QED
  BY <1>1 DEF MatchOK, MemoryMatchesFile

LEMMA MatchInvariant == Spec => []MatchOK
<1>1. TypeOK /\ MatchOK /\ [Next]_vars => MatchOK'
  BY MatchStep
<1>. QED
  BY <1>1, MatchInit, TypeInvariant, PTL DEF Spec

\* When every change has been saved, what the server works with is what it
\* would load again (acl/store.go Save, Reload), however many requests change
\* it, reload it and edit it by hand at once.
THEOREM MemoryMatches == Spec => []MemoryMatchesFile
<1>1. MatchOK => MemoryMatchesFile
  BY DEF MatchOK
<1>. QED
  BY <1>1, MatchInvariant, PTL

-----------------------------------------------------------------------------
(* The limiter *)

\* Who checks a password or a code for a key; with the failures counted, never
\* more than the limiter allows and one for every other request.
Issuing(k) == {t \in Thread : req[t].pc = "issuing" /\ req[t].key = k}

FailuresOK ==
  \A k \in User \cup {CodeKey} :
    failures[k] + Cardinality(Issuing(k)) <= Attempts + Cardinality(Thread) - 1

LEMMA Counts ==
  ASSUME TypeOK, NEW k
  PROVE  /\ IsFiniteSet(Thread) /\ Cardinality(Thread) \in Nat /\ Attempts \in Nat /\ Attempts >= 1
         /\ IsFiniteSet(Issuing(k)) /\ Cardinality(Issuing(k)) \in Nat
         /\ Cardinality(Issuing(k)) <= Cardinality(Thread)
         /\ \A t \in Thread : t \notin Issuing(k) => Cardinality(Issuing(k)) <= Cardinality(Thread) - 1
<1>1. IsFiniteSet(Thread) /\ Attempts \in Nat /\ Attempts >= 1
  BY SessionsAssumption DEF SessionsAssumption
<1>2. Issuing(k) \subseteq Thread
  BY DEF Issuing
<1>3. IsFiniteSet(Issuing(k)) /\ Cardinality(Issuing(k)) <= Cardinality(Thread)
  BY <1>1, <1>2, FS_Subset
<1>4. Cardinality(Thread) \in Nat /\ Cardinality(Issuing(k)) \in Nat
  BY <1>1, <1>3, FS_CardinalityType
<1>5. ASSUME NEW t \in Thread, t \notin Issuing(k)
      PROVE  Cardinality(Issuing(k)) <= Cardinality(Thread) - 1
  <2>1. IsFiniteSet(Thread \ {t}) /\ Cardinality(Thread \ {t}) = Cardinality(Thread) - 1
    BY <1>1, <1>5, FS_RemoveElement
  <2>2. Issuing(k) \subseteq Thread \ {t}
    BY <1>2, <1>5
  <2>. QED BY <2>1, <2>2, FS_Subset
<1>. QED
  BY <1>1, <1>3, <1>4, <1>5

\* The same, of the next state.
LEMMA IssuingFinite ==
  ASSUME NEW k
  PROVE  Cardinality(Issuing(k)') \in Nat /\ Cardinality(Issuing(k)') <= Cardinality(Thread)
<1>1. IsFiniteSet(Thread)
  BY SessionsAssumption DEF SessionsAssumption
<1>2. Issuing(k)' \subseteq Thread
  BY DEF Issuing
<1>. QED
  BY <1>1, <1>2, FS_Subset, FS_CardinalityType

\* The threads that check for k after a step of t.
LEMMA IssuingMoves ==
  ASSUME TypeOK, NEW t \in Thread, NEW r, req' = [req EXCEPT ![t] = r], NEW k
  PROVE  /\ Issuing(k)' = IF r.pc = "issuing" /\ r.key = k THEN Issuing(k) \cup {t} ELSE Issuing(k) \ {t}
         /\ r.pc # "issuing" => Cardinality(Issuing(k)') <= Cardinality(Issuing(k))
         /\ r.pc # "issuing" /\ t \in Issuing(k) => Cardinality(Issuing(k)') = Cardinality(Issuing(k)) - 1
<1>1. \A x \in Thread : req'[x] = IF x = t THEN r ELSE req[x]
  BY DEF TypeOK
<1>2. Issuing(k)' = IF r.pc = "issuing" /\ r.key = k THEN Issuing(k) \cup {t} ELSE Issuing(k) \ {t}
  BY <1>1 DEF Issuing
<1>3. IsFiniteSet(Issuing(k))
  BY Counts
<1>4. CASE r.pc # "issuing"
  <2>1. Issuing(k)' = Issuing(k) \ {t}
    BY <1>2, <1>4
  <2>2. Cardinality(Issuing(k) \ {t}) <= Cardinality(Issuing(k))
    BY <1>3, FS_Subset
  <2>3. t \in Issuing(k) => Cardinality(Issuing(k) \ {t}) = Cardinality(Issuing(k)) - 1
    BY <1>3, FS_RemoveElement
  <2>. QED BY <1>2, <2>1, <2>2, <2>3
<1>. QED
  BY <1>2, <1>4

LEMMA FailuresStep ==
  ASSUME TypeOK, FailuresOK, [Next]_vars
  PROVE  FailuresOK'
<1>a. TypeOK'
  BY TypeStep
<1>b. /\ failures \in [User \cup {CodeKey} -> Nat]
      /\ failures' \in [User \cup {CodeKey} -> Nat]
      /\ IsFiniteSet(Thread) /\ Cardinality(Thread) \in Nat /\ Attempts \in Nat /\ Attempts >= 1
  BY <1>a, Counts DEF TypeOK
<1>c. \A k : Cardinality(Issuing(k)) \in Nat /\ Cardinality(Issuing(k)') \in Nat
  BY Counts, IssuingFinite
<1>1. ASSUME NEW t \in Thread, NEW r, req' = [req EXCEPT ![t] = r], r.pc # "issuing",
             failures' = failures
      PROVE  FailuresOK'
  <2>. SUFFICES ASSUME NEW k \in User \cup {CodeKey}
       PROVE failures'[k] + Cardinality(Issuing(k)') <= Attempts + Cardinality(Thread) - 1
    BY DEF FailuresOK, Issuing
  <2>1. Cardinality(Issuing(k)') <= Cardinality(Issuing(k))
    BY <1>1, IssuingMoves
  <2>2. failures[k] + Cardinality(Issuing(k)) <= Attempts + Cardinality(Thread) - 1
    BY DEF FailuresOK
  <2>. QED BY <1>1, <1>b, <1>c, <2>1, <2>2
<1>2. ASSUME req' = req, \A k \in User \cup {CodeKey} : failures'[k] <= failures[k]
      PROVE  FailuresOK'
  <2>. SUFFICES ASSUME NEW k \in User \cup {CodeKey}
       PROVE failures'[k] + Cardinality(Issuing(k)') <= Attempts + Cardinality(Thread) - 1
    BY DEF FailuresOK, Issuing
  <2>1. Issuing(k)' = Issuing(k)
    BY <1>2 DEF Issuing
  <2>2. failures[k] + Cardinality(Issuing(k)) <= Attempts + Cardinality(Thread) - 1
    BY DEF FailuresOK
  <2>. QED BY <1>2, <1>b, <1>c, <2>1, <2>2
\* A login begins, where the limiter allows it.
<1>3. ASSUME NEW t \in Thread, NEW k0 \in User \cup {CodeKey}, failures[k0] < Attempts, req[t].pc = "idle",
             NEW r, req' = [req EXCEPT ![t] = r], r.pc = "issuing" /\ r.key = k0 /\ failures' = failures
      PROVE  FailuresOK'
  <2>. SUFFICES ASSUME NEW k \in User \cup {CodeKey}
       PROVE failures'[k] + Cardinality(Issuing(k)') <= Attempts + Cardinality(Thread) - 1
    BY DEF FailuresOK, Issuing
  <2>1. failures[k] + Cardinality(Issuing(k)) <= Attempts + Cardinality(Thread) - 1
    BY DEF FailuresOK
  <2>2. t \notin Issuing(k)
    BY <1>3 DEF Issuing
  <2>3. Cardinality(Issuing(k)) <= Cardinality(Thread) - 1
    BY <2>2, Counts
  <2>4. CASE k = k0
    <3>1. Cardinality(Issuing(k)') <= Cardinality(Thread)
      BY Counts, IssuingFinite
    <3>. QED BY <1>3, <1>b, <1>c, <2>4, <3>1
  <2>5. CASE k # k0
    <3>1. Issuing(k)' = Issuing(k)
      <4>1. Issuing(k)' = IF r.pc = "issuing" /\ r.key = k THEN Issuing(k) \cup {t} ELSE Issuing(k) \ {t}
        BY <1>3, IssuingMoves
      <4>. QED BY <1>3, <2>2, <2>5, <4>1
    <3>. QED BY <1>3, <2>1, <3>1
  <2>. QED BY <2>4, <2>5
\* A login ends.
<1>4. ASSUME NEW t \in Thread, NEW k0 \in User \cup {CodeKey}, req[t].pc = "issuing", req[t].key = k0,
             req' = [req EXCEPT ![t] = Idle],
             \/ failures' = [failures EXCEPT ![k0] = @ + 1]
             \/ failures' = [failures EXCEPT ![k0] = 0]
      PROVE  FailuresOK'
  <2>. SUFFICES ASSUME NEW k \in User \cup {CodeKey}
       PROVE failures'[k] + Cardinality(Issuing(k)') <= Attempts + Cardinality(Thread) - 1
    BY DEF FailuresOK, Issuing
  <2>1. failures[k] + Cardinality(Issuing(k)) <= Attempts + Cardinality(Thread) - 1
    BY DEF FailuresOK
  <2>2. /\ Cardinality(Issuing(k)') <= Cardinality(Issuing(k))
        /\ t \in Issuing(k) => Cardinality(Issuing(k)') = Cardinality(Issuing(k)) - 1
    <3>1. PICK r : r = Idle
      OBVIOUS
    <3>2. r.pc # "issuing" /\ req' = [req EXCEPT ![t] = r]
      BY <1>4, <3>1 DEF Idle
    <3>. QED BY <3>2, IssuingMoves
  <2>3. CASE k = k0
    <3>1. t \in Issuing(k)
      BY <1>4, <2>3 DEF Issuing
    <3>2. failures'[k] = failures[k] + 1 \/ failures'[k] = 0
      BY <1>4, <1>b, <2>3
    <3>. QED BY <1>b, <1>c, <2>1, <2>2, <3>1, <3>2
  <2>4. CASE k # k0
    <3>1. failures'[k] = failures[k]
      BY <1>4, <1>b, <2>4
    <3>. QED BY <1>b, <1>c, <2>1, <2>2, <3>1
  <2>. QED BY <2>3, <2>4
<1>5. ASSUME NEW t \in Thread,
             \/ \E op : Calling(t, op)
             \/ Reloading(t) \/ Apply(t) \/ SaveChecks(t) \/ SaveWrites(t)
             \/ SaveStamps(t) \/ SaveFails(t) \/ ReloadSets(t)
      PROVE  FailuresOK'
  <2>1. failures' = failures
    BY <1>5 DEF Calling, Reloading, Apply, SaveChecks, SaveWrites, SaveStamps, SaveFails, ReloadSets
  <2>2. Idle.pc # "issuing" /\ (Answer(t) => req' = [req EXCEPT ![t] = Idle])
    BY DEF Idle, Answer
  <2>3. CASE \E op : Calling(t, op)
    <3>1. \E r : r.pc # "issuing" /\ req' = [req EXCEPT ![t] = r]
      BY <2>3 DEF Calling
    <3>. QED BY <1>1, <2>1, <3>1
  <2>4. CASE Reloading(t)
    <3>1. \E r : r.pc # "issuing" /\ req' = [req EXCEPT ![t] = r]
      BY <2>4 DEF Reloading
    <3>. QED BY <1>1, <2>1, <3>1
  <2>5. CASE Apply(t) \/ SaveChecks(t) \/ SaveWrites(t)
    <3>1. Answer(t) \/ \E r : r.pc \in {"saving", "writing", "stamping"} /\ req' = [req EXCEPT ![t] = r]
      BY <2>5, Stages
    <3>. QED BY <1>1, <2>1, <2>2, <3>1
  <2>6. CASE SaveStamps(t) \/ SaveFails(t) \/ ReloadSets(t)
    <3>1. req' = [req EXCEPT ![t] = Idle]
      BY <2>2, <2>6 DEF SaveStamps, SaveFails, ReloadSets
    <3>. QED BY <1>1, <2>1, <2>2, <3>1
  <2>. QED BY <1>5, <2>3, <2>4, <2>5, <2>6
<1>6. ASSUME NEW t \in Thread, RedeemCode(t) \/ Login(t) PROVE FailuresOK'
  <2>1. PICK u, k0, secret : /\ k0 \in User \cup {CodeKey} /\ Allow(k0) /\ failures' = failures
                             /\ Begin(t, Attempt(u, k0, secret))
    BY <1>6 DEF RedeemCode, Login
  <2>2. PICK r : r = Attempt(u, k0, secret)
    OBVIOUS
  <2>3. r.pc = "issuing" /\ r.key = k0
    BY <2>2 DEF Attempt
  <2>. QED BY <1>3, <2>1, <2>2, <2>3 DEF Begin, Start, Allow
<1>8. ASSUME NEW t \in Thread, AttemptFails(t) \/ IssueSession(t) PROVE FailuresOK'
  <2>1. /\ req[t].pc = "issuing" /\ req' = [req EXCEPT ![t] = Idle]
        /\ \/ failures' = [failures EXCEPT ![req[t].key] = @ + 1]
           \/ failures' = [failures EXCEPT ![req[t].key] = 0]
    BY <1>8 DEF AttemptFails, IssueSession, Fail, Answer
  <2>2. req[t].key \in User \cup {CodeKey}
    BY <2>1 DEF TypeOK, ReqOK, Idle, Changes, Reloads, LogsIn
  <2>. QED BY <1>4, <2>1, <2>2
<1>9. ASSUME \/ \E t \in Thread : ServiceLoginCode(t)
             \/ \E k \in Code : CodeExpires(k)
             \/ \E k \in User \cup {CodeKey} : WindowPasses(k)
             \/ Edit \/ Remove \/ UNCHANGED vars
      PROVE  FailuresOK'
  <2>1. req' = req
    BY <1>9 DEF ServiceLoginCode, CodeExpires, WindowPasses, Edit, Remove, vars
  <2>2. \/ failures' = failures
        \/ \E k \in User \cup {CodeKey} : failures[k] > 0 /\ failures' = [failures EXCEPT ![k] = @ - 1]
    BY <1>9 DEF ServiceLoginCode, CodeExpires, WindowPasses, Edit, Remove, vars
  <2>4. \A k \in User \cup {CodeKey} : failures'[k] <= failures[k]
    BY <1>b, <2>2
  <2>. QED BY <1>2, <2>1, <2>4
<1>10. ASSUME Restart PROVE FailuresOK'
  <2>. SUFFICES ASSUME NEW k \in User \cup {CodeKey}
       PROVE failures'[k] + Cardinality(Issuing(k)') <= Attempts + Cardinality(Thread) - 1
    BY DEF FailuresOK, Issuing
  <2>1. Issuing(k)' = {} /\ failures'[k] = 0
    BY <1>10, <1>b DEF Restart, Issuing, Idle
  <2>2. Cardinality(Issuing(k)') = 0
    BY <2>1, FS_EmptySet
  <2>. QED BY <1>b, <2>1, <2>2
<1>. QED
  BY <1>5, <1>6, <1>8, <1>9, <1>10, Steps

\* Only users cross a Reload.
CrossedOK == crossed \subseteq User

LEMMA CrossedStep ==
  ASSUME TypeOK, CrossedOK, [Next]_vars
  PROVE  CrossedOK'
<1>a. crossed \subseteq User
  BY DEF CrossedOK
<1>1. ASSUME NEW t \in Thread, Apply(t) PROVE crossed' \subseteq User
  BY <1>a, <1>1 DEF Apply
<1>2. ASSUME NEW t \in Thread, SaveWrites(t) \/ ReloadSets(t) PROVE crossed' \subseteq User
  BY <1>a, <1>2 DEF SaveWrites, ReloadSets
<1>3. ASSUME NEW t \in Thread, \/ \E op : Calling(t, op)
                               \/ Reloading(t) \/ SaveChecks(t) \/ SaveStamps(t) \/ SaveFails(t)
      PROVE  crossed' \subseteq User
  BY <1>a, <1>3 DEF Calling, Reloading, SaveChecks, SaveStamps, SaveFails, ghosts
<1>4. ASSUME Logging \/ Restart \/ Edit \/ Remove \/ UNCHANGED vars PROVE crossed' \subseteq User
  BY <1>a, <1>4 DEF Logging, Restart, Edit, Remove, vars, ghosts
<1>. QED
  BY <1>1, <1>2, <1>3, <1>4, Moves DEF CrossedOK

\* The types, with what they say of the limiter and of the store's mutex: the
\* failures counted for a key exceed what the limiter allows by no more than the
\* other requests that were let in before (api/router.go handleLogin), and
\* one request at a time is between the stats of its Save.
THEOREM TypesHold == Spec => []SessionsTypeOK
<1>1. Init => FailuresOK /\ CrossedOK
  <2>. SUFFICES ASSUME Init PROVE FailuresOK /\ CrossedOK
    OBVIOUS
  <2>1. crossed = {} /\ req = [t \in Thread |-> Idle] /\ failures = [k \in User \cup {CodeKey} |-> 0]
    BY DEF Init
  <2>2. ASSUME NEW k \in User \cup {CodeKey}
        PROVE  failures[k] + Cardinality(Issuing(k)) <= Attempts + Cardinality(Thread) - 1
    <3>1. Issuing(k) = {} /\ failures[k] = 0
      BY <2>1 DEF Issuing, Idle
    <3>2. Cardinality(Issuing(k)) = 0
      BY <3>1, FS_EmptySet
    <3>3. /\ Cardinality(Thread) \in Nat /\ Attempts \in Nat /\ Attempts >= 1
      BY InitTypes, Counts
    <3>. QED BY <3>1, <3>2, <3>3
  <2>. QED BY <2>1, <2>2 DEF FailuresOK, CrossedOK
<1>2. TypeOK /\ FailuresOK /\ CrossedOK /\ [Next]_vars => FailuresOK' /\ CrossedOK'
  BY FailuresStep, CrossedStep
<1>3. TypeOK /\ MatchOK /\ FailuresOK /\ CrossedOK => SessionsTypeOK
  <2>. SUFFICES ASSUME TypeOK, MatchOK, FailuresOK, CrossedOK PROVE SessionsTypeOK
    OBVIOUS
  <2>1. failures \in [User \cup {CodeKey} -> 0..(Attempts + Cardinality(Thread) - 1)]
    <3>1. \A k \in User \cup {CodeKey} : failures[k] \in 0..(Attempts + Cardinality(Thread) - 1)
      <4>. SUFFICES ASSUME NEW k \in User \cup {CodeKey}
           PROVE failures[k] \in 0..(Attempts + Cardinality(Thread) - 1)
        OBVIOUS
      <4>1. failures[k] + Cardinality(Issuing(k)) <= Attempts + Cardinality(Thread) - 1
        BY DEF FailuresOK
      <4>2. failures[k] \in Nat
        BY DEF TypeOK
      <4>3. Cardinality(Issuing(k)) \in Nat /\ Cardinality(Thread) \in Nat /\ Attempts \in Nat
        BY Counts
      <4>. QED BY <4>1, <4>2, <4>3
    <3>. QED BY <3>1 DEF TypeOK
  <2>3. Cardinality({t \in Thread : req[t].pc \in {"writing", "stamping"}}) <= 1
    <3>. DEFINE S == {t \in Thread : req[t].pc \in {"writing", "stamping"}}
    <3>1. \A t, u \in S : t = u
      BY DEF MatchOK
    <3>. HIDE DEF S
    <3>2. CASE S = {}
      BY <3>2, FS_EmptySet DEF S
    <3>3. CASE S # {}
      <4>1. PICK x : S = {x}
        BY <3>1, <3>3
      <4>2. Cardinality({x}) = 1
        BY FS_Singleton
      <4>. QED BY <4>1, <4>2 DEF S
    <3>. QED BY <3>2, <3>3
  <2>4. /\ stamp \in Nat /\ clock \in Nat /\ file.v \in 0..clock /\ stamp <= clock
    BY DEF TypeOK, FileOK
  <2>5. StoreOK(mem) /\ StoreOK(file.data) /\ seen \cup file.edits \cup raced \subseteq 1..edits
    BY DEF TypeOK, FileOK
  <2>. QED BY <2>1, <2>3, <2>4, <2>5 DEF TypeOK, SessionsTypeOK, CrossedOK
<1>. QED
  BY <1>1, <1>2, <1>3, TypeInvariant, MatchInvariant, PTL DEF Spec

-----------------------------------------------------------------------------
(* What an administrator is told and what the endpoints do *)

LEMMA LeastOf ==
  ASSUME NEW S \in SUBSET Nat, S # {}
  PROVE  Min(S) \in S
<1>1. PICK x \in S : \A y \in S : ~(<<y, x>> \in OpToRel(<, Nat))
  BY NatLessThanWellFounded, WFMin
<1>2. \A y \in S : x <= y
  <2>1. \A y \in S : y \in Nat /\ x \in Nat /\ ~(y < x)
    BY <1>1 DEF OpToRel
  <2>. QED BY <2>1
<1>. QED
  BY <1>2 DEF Min

\* What a rule list gives is an access.
LEMMA AccessType ==
  ASSUME NEW s, StoreOK(s), NEW u, NEW p
  PROVE  Access(s, u, p) \in {None, Read, Write}
<1>. DEFINE hits == {i \in DOMAIN s.rules : p \in s.rules[i].paths}
            rule == s.rules[Min(hits)]
            best == {rule.default} \cup Granted(s, rule, u)
<1>1. RulesOK(s.rules)
  BY SessionsAssumption DEF SessionsAssumption, StoreOK
<1>2. DOMAIN s.rules \subseteq Nat
  <2>1. DOMAIN s.rules = 1..Len(s.rules)
    BY <1>1 DEF RulesOK
  <2>2. \A i \in 1..Len(s.rules) : i \in Nat
    OBVIOUS
  <2>. QED BY <2>1, <2>2
<1>3. CASE hits = {}
  BY <1>3 DEF Access
<1>4. CASE hits # {}
  <2>1. Min(hits) \in hits
    BY <1>2, <1>4, LeastOf
  <2>2. rule.default \in {None, Read, Write} /\ \A g \in rule.allow : g.access \in {Read, Write}
    BY <1>1, <2>1 DEF RulesOK
  <2>3. best \subseteq {None, Read, Write} /\ rule.default \in best
    BY <2>2 DEF Granted
  <2>4. \E x \in best : \A y \in best : x >= y
    <3>. HIDE DEF best
    <3>1. None = 0 /\ Read = 1 /\ Write = 2
      BY DEF None, Read, Write
    <3>2. CASE Write \in best
      BY <2>3, <3>1, <3>2
    <3>3. CASE Write \notin best /\ Read \in best
      BY <2>3, <3>1, <3>3
    <3>4. CASE Write \notin best /\ Read \notin best
      <4>1. \A y \in best : y = 0
        BY <2>3, <3>1, <3>4
      <4>. QED BY <2>3, <4>1
    <3>. QED BY <3>2, <3>3, <3>4
  <2>5. Max(best) \in {None, Read, Write}
    BY <2>3, <2>4 DEF Max
  <2>6. \/ Access(s, u, p) = Write \/ Access(s, u, p) = None
        \/ Access(s, u, p) = Max(best)
    BY <1>4 DEF Access
  <2>. QED BY <2>5, <2>6
<1>. QED
  BY <1>3, <1>4

LEMMA Endpoints ==
  /\ \A e \in {"create", "save", "restore", "untrash"} : Route[e] = "notes:edit" /\ Needs[e] = Write
  /\ \A e \in {"note", "raw", "attachment", "list", "search"} : Route[e] = "notes:read" /\ Needs[e] = Read
<1>1. /\ \A e \in {"create", "save", "restore", "untrash"} : e \in DOMAIN Route /\ Route[e] = "notes:edit"
      /\ \A e \in {"note", "raw", "attachment", "list", "search"} : e \in DOMAIN Route /\ Route[e] = "notes:read"
  BY DEF Route
<1>2. /\ DOMAIN NoteNeeds = {"note", "raw", "create", "folder", "save", "delete"}
      /\ DOMAIN ListNeeds = {"list", "tree", "search", "recent"}
      /\ DOMAIN FileNeeds = {"attachment", "upload"}
  BY DEF NoteNeeds, ListNeeds, FileNeeds
<1>3. /\ NoteNeeds["create"] = Write /\ NoteNeeds["save"] = Write
      /\ NoteNeeds["note"] = Read /\ NoteNeeds["raw"] = Read
      /\ ListNeeds["list"] = Read /\ ListNeeds["search"] = Read /\ FileNeeds["attachment"] = Read
      /\ HistoryNeeds["restore"] = Write /\ HistoryNeeds["untrash"] = Write
  BY DEF NoteNeeds, ListNeeds, FileNeeds, HistoryNeeds
<1>4. \A e \in {"create", "save", "restore", "untrash"} : Needs[e] = Write
  BY <1>1, <1>2, <1>3 DEF Needs
<1>5. \A e \in {"note", "raw", "attachment", "list", "search"} : Needs[e] = Read
  BY <1>1, <1>2, <1>3 DEF Needs
<1>. QED
  BY <1>1, <1>4, <1>5

\* What handleAccess and handleAdminCheck report to and about an account is
\* what the endpoints do for whoever logs in with it now (api/admin.go:208,
\* api/router.go:42), for any users, roles and rules and in every state.
THEOREM ReportsHold == Spec => []ReportedIsEnforced
<1>1. TypeOK => ReportedIsEnforced
  <2>. SUFFICES ASSUME TypeOK, NEW u \in DOMAIN mem.users \cup DOMAIN StaticRole, NEW p \in Path,
                       ~Emptied(UserRole(mem, u))
       PROVE LET c == Fresh(u)  access == Reported(mem, u, p) IN
             /\ \A e \in {"create", "save", "restore", "untrash"} : Served(c, e, p) <=> access = Write
             /\ \A e \in {"note", "raw", "attachment", "list", "search"} :
                  /\ Served(c, e, p) => access >= Read
                  /\ (access >= Read /\ ReadsIfItEdits(c.role)) => Served(c, e, p)
    BY DEF ReportedIsEnforced
  <2>1. PICK c : c = Fresh(u)
    OBVIOUS
  <2>2. PICK role, perms, a, access :
          /\ role = UserRole(mem, u) /\ perms = PermissionsFor(mem, role)
          /\ a = Access(mem, u, p) /\ access = Reported(mem, u, p)
    OBVIOUS
  <2>3. c.user = u /\ c.role = role /\ c.perms = perms /\ c.jti = Nothing
        /\ (u \in DOMAIN mem.users => c.tv = mem.users[u].tv)
    BY <2>1, <2>2 DEF Fresh
  <2>4. Accepted(c)
    BY <2>3 DEF Accepted
  <2>5. \A perm : May(c, perm) <=> (role = "admin" \/ perm \in perms)
    <3>1. perms = {} => role = "admin" \/ BuiltInPermissions(role) = {}
      BY <2>2 DEF Emptied, BuiltInPermissions
    <3>. QED BY <2>3, <2>4, <3>1 DEF May, HasPermission
  <2>6. a \in {None, Read, Write}
    BY <2>2, AccessType DEF TypeOK
  <2>7. PICK top : top = RoleAccessCeiling(mem, role)
    OBVIOUS
  <2>8. /\ role = "admin" \/ "notes:edit" \in perms => top = Write
        /\ ~(role = "admin" \/ "notes:edit" \in perms) /\ "notes:read" \in perms => top = Read
        /\ ~(role = "admin" \/ "notes:edit" \in perms) /\ "notes:read" \notin perms => top = None
    BY <2>2, <2>7 DEF RoleAccessCeiling
  <2>9. access = Min({a, top})
    BY <2>2, <2>7 DEF Reported
  <2>10. access \in {a, top} /\ access <= a /\ access <= top
    <3>1. a \in Nat /\ top \in Nat
      BY <2>6, <2>8 DEF None, Read, Write
    <3>2. \E x \in {a, top} : \A y \in {a, top} : x <= y
      BY <3>1
    <3>. QED BY <2>9, <3>2 DEF Min
  <2>11. \A e : Served(c, e, p) <=> May(c, Route[e]) /\ a >= Needs[e]
    BY <2>2, <2>3 DEF Served
  <2>12. ASSUME NEW e \in {"create", "save", "restore", "untrash"}
         PROVE  Served(c, e, p) <=> access = Write
    <3>1. Served(c, e, p) <=> (role = "admin" \/ "notes:edit" \in perms) /\ a >= Write
      BY <2>5, <2>11, Endpoints
    <3>2. top = Write <=> (role = "admin" \/ "notes:edit" \in perms)
      BY <2>8 DEF None, Read, Write
    <3>3. top \in {None, Read, Write}
      BY <2>8
    <3>4. access = Write <=> top = Write /\ a >= Write
      BY <2>6, <2>10, <3>3 DEF None, Read, Write
    <3>. QED BY <3>1, <3>2, <3>4
  <2>13. ASSUME NEW e \in {"note", "raw", "attachment", "list", "search"}
         PROVE  /\ Served(c, e, p) => access >= Read
                /\ (access >= Read /\ ReadsIfItEdits(c.role)) => Served(c, e, p)
    <3>1. Served(c, e, p) <=> (role = "admin" \/ "notes:read" \in perms) /\ a >= Read
      BY <2>5, <2>11, Endpoints
    <3>2. top \in {None, Read, Write}
      BY <2>8
    <3>3. access >= Read <=> top >= Read /\ a >= Read
      BY <2>6, <2>10, <3>2 DEF None, Read, Write
    <3>4. top >= Read <=> (role = "admin" \/ "notes:edit" \in perms \/ "notes:read" \in perms)
      BY <2>8 DEF None, Read, Write
    <3>5. ReadsIfItEdits(c.role) => ("notes:edit" \in perms => "notes:read" \in perms)
      BY <2>2, <2>3 DEF ReadsIfItEdits
    <3>. QED BY <3>1, <3>3, <3>4, <3>5
  <2>. QED BY <2>1, <2>2, <2>12, <2>13
<1>. QED
  BY <1>1, TypeInvariant, PTL

-----------------------------------------------------------------------------
(* What is acknowledged stays *)

\* What is acknowledged of an account fits its record: the version is no newer,
\* no revoked token is valid, and no token that works is missing.
FitsRecord(a, rec) ==
  /\ a.tv <= rec.tv
  /\ \A j \in a.revoked : j \notin rec.valid
  /\ a.valid \subseteq rec.valid \cup rec.revoked
Fits(a, except, s) == \A u \in DOMAIN s.users \ except : FitsRecord(a[u], s.users[u])

\* A change that is in memory and not answered yet.
Applied(r) == r.pc = "saving" \/ r.pc = "writing" \/ r.pc = "stamping"

\* What it promises is in a store.
Promised(op, tv, s) ==
  /\ op.call = "Bump" => op.user \in DOMAIN s.users /\ tv <= s.users[op.user].tv
  /\ op.call = "AddToken" =>
       op.user \in DOMAIN s.users /\ op.jti \in s.users[op.user].valid \cup s.users[op.user].revoked
  /\ op.call = "RevokeToken" =>
       op.user \in DOMAIN s.users /\ op.jti \in s.users[op.user].revoked /\ op.jti \notin s.users[op.user].valid

\* An identifier nobody has heard of.
Quiet(r, j) ==
  /\ r.pc = "reloading" => ~Holds(r.op.data, j)
  /\ r.pc = "called" /\ r.op.call = "UpsertUser" => j \notin r.op.rec.valid \cup r.op.rec.revoked
  /\ Applied(r) /\ r.op.call = "RevokeToken" => r.op.jti # j
Unheard(j) ==
  /\ ~Holds(mem, j) /\ ~Holds(file.data, j)
  /\ \A u \in User : j \notin acked[u].revoked
  /\ \A t \in Thread : Quiet(req[t], j)

Adding(t) == req[t].pc = "called" /\ req[t].op.call = "AddToken"

\* Tokens get identifiers of their own.
JtisOK ==
  /\ \A j \in Nat : j > started => Unheard(j)
  /\ \A t \in Thread : Adding(t) => Unheard(req[t].op.jti) /\ req[t].op.jti <= started
  /\ \A t, x \in Thread : Adding(t) /\ Adding(x) /\ req[t].op.jti = req[x].op.jti => t = x

\* A change of the tokens of a user who has not crossed a Reload.
Pending(r, except) ==
  Applied(r) /\ r.op.call \in {"Bump", "AddToken", "RevokeToken"} /\ r.op.user \notin except

\* What is acknowledged fits memory, the file and what a Reload has read, each of
\* which may become memory, and goes on fitting when what is pending is
\* acknowledged: what a Save has written is in the file, and in what was read since.
AckedOK ==
  /\ \A u \in User : u \notin DOMAIN mem.users => acked[u] = NoAck
  /\ \A t \in Thread : Pending(req[t], crossed) => Promised(req[t].op, req[t].tv, mem)
  /\ Fits(acked, crossed, mem) /\ Fits(acked, crossed, file.data)
  /\ \A x \in Thread : req[x].pc = "reloading" => Fits(acked, crossed, req[x].op.data)
  /\ \A t \in Thread : req[t].pc = "stamping" => file.data = mem \/ DOMAIN file.data.users = {}
  /\ \A t, x \in Thread :
       /\ req[t].pc = "stamping" /\ Pending(req[t], crossed) /\ req[x].pc = "reloading"
       /\ req[t].op.user \in DOMAIN req[x].op.data.users
       => Promised(req[t].op, req[t].tv, req[x].op.data)

\* What a setter leaves of an account.
Keeps(op, old, new) ==
  /\ old.tv <= new.tv /\ old.revoked \subseteq new.revoked /\ old.valid \subseteq new.valid \cup new.revoked
  /\ \A j \in new.valid : j \in old.valid \/ (op.call = "AddToken" /\ j = op.jti)
  /\ \A j \in new.revoked : j \in old.revoked \/ (op.call = "RevokeToken" /\ j = op.jti)

Promises(op, s) == Promised(op, IF op.call = "Bump" THEN s.users[op.user].tv ELSE 0, s)

\* A setter puts a new account or drops one, or keeps what counts of each.
EffectOn(op, s) ==
  /\ \A u \in DOMAIN s.users : u \notin DOMAIN mem.users =>
       op.call = "UpsertUser" /\ s.users[u] = op.rec
  /\ \A u \in DOMAIN mem.users : u \notin DOMAIN s.users => op.call = "DeleteUser" /\ op.user = u
  /\ \A u \in DOMAIN mem.users : u \in DOMAIN s.users => Keeps(op, mem.users[u], s.users[u])
  /\ Promises(op, s)

LEMMA EffectOfUsers ==
  ASSUME StoreOK(mem), NEW op, OpOK(op), ~Refused(op)
  PROVE  EffectOn(op, Effect(op))
<1>a. /\ DOMAIN mem = {"users", "groups", "roles", "rules", "svc", "providers"}
      /\ Partial(mem.users, User, UserRecord)
      /\ \A u \in DOMAIN mem.users : mem.users[u] \in UserRecord
  BY DEF StoreOK, Partial
<1>b. ASSUME NEW r \in UserRecord, NEW r2,
             r2.tv = r.tv, r2.valid = r.valid, r2.revoked = r.revoked
      PROVE  Keeps(op, r, r2)
  BY <1>b DEF Keeps, UserRecord
<1>1. ASSUME op.call \notin {"Bump", "AddToken", "RevokeToken"}, NEW s PROVE Promises(op, s)
  BY <1>1 DEF Promises, Promised
<1>2. CASE op.call \in {"SetRules", "AddGroup", "UpsertRole", "AddServiceToken", "RevokeServiceToken",
                        "SetLoginProviders", "UpsertLoginProvider"}
  <2>1. Effect(op).users = mem.users
    BY <1>2, <1>a DEF Effect, SetRules, AddGroup, UpsertRole, AddServiceToken, RevokeServiceToken,
                      SetLoginProviders, UpsertLoginProvider
  <2>. QED BY <1>2, <1>a, <1>b, <1>1, <2>1 DEF EffectOn
<1>3. CASE op.call = "UpsertUser"
  <2>. DEFINE old == mem.users[op.user]
              new == IF op.user \in DOMAIN mem.users
                     THEN [op.rec EXCEPT !.secret = @ \/ old.secret, !.tv = old.tv,
                                         !.valid = old.valid, !.revoked = old.revoked]
                     ELSE op.rec
  <2>1. op.user \in User /\ op.rec \in UserRecord
    BY <1>3 DEF OpOK
  <2>2. Effect(op).users = Put(mem.users, op.user, new)
    BY <1>3, <1>a DEF Effect, UpsertUser
  <2>3. op.user \in DOMAIN mem.users => new.tv = old.tv /\ new.valid = old.valid /\ new.revoked = old.revoked
    BY <2>1 DEF UserRecord
  <2>4. op.user \notin DOMAIN mem.users => new = op.rec
    OBVIOUS
  <2>. HIDE DEF new
  <2>5. /\ DOMAIN Effect(op).users = DOMAIN mem.users \cup {op.user}
        /\ Effect(op).users[op.user] = new
        /\ \A u \in DOMAIN mem.users \ {op.user} : Effect(op).users[u] = mem.users[u]
    BY <1>a, <2>2 DEF Put
  <2>6. \A u \in DOMAIN mem.users : Keeps(op, mem.users[u], Effect(op).users[u])
    BY <1>a, <1>b, <2>3, <2>5
  <2>. QED BY <1>3, <1>1, <2>4, <2>5, <2>6 DEF EffectOn
<1>4. CASE op.call = "DeleteUser"
  <2>1. Effect(op).users = Drop(mem.users, op.user)
    BY <1>4, <1>a DEF Effect, DeleteUser
  <2>2. /\ DOMAIN Effect(op).users = DOMAIN mem.users \ {op.user}
        /\ \A u \in DOMAIN Effect(op).users : Effect(op).users[u] = mem.users[u]
    BY <2>1 DEF Drop, Restrict
  <2>. QED BY <1>4, <1>a, <1>b, <1>1, <2>2 DEF EffectOn
\* One record is changed.
<1>5. ASSUME op.user \in DOMAIN mem.users, NEW r,
             Effect(op).users = [mem.users EXCEPT ![op.user] = r], Keeps(op, mem.users[op.user], r),
             Promises(op, Effect(op))
      PROVE  EffectOn(op, Effect(op))
  <2>1. /\ DOMAIN Effect(op).users = DOMAIN mem.users
        /\ Effect(op).users[op.user] = r
        /\ \A u \in DOMAIN mem.users \ {op.user} : Effect(op).users[u] = mem.users[u]
    BY <1>5
  <2>. QED BY <1>5, <1>a, <1>b, <2>1 DEF EffectOn
<1>6. CASE op.call = "Bump"
  <2>1. op.user \in DOMAIN mem.users /\ mem.users[op.user] \in UserRecord
    BY <1>6, <1>a DEF Refused
  <2>2. PICK r : r = [mem.users[op.user] EXCEPT !.tv = @ + 1]
    OBVIOUS
  <2>3. Effect(op).users = [mem.users EXCEPT ![op.user] = r]
    BY <1>6, <1>a, <2>1, <2>2 DEF Effect, BumpTokenVersion
  <2>4. Keeps(op, mem.users[op.user], r) /\ r.tv \in Nat
    BY <2>1, <2>2 DEF Keeps, UserRecord
  <2>5. Promises(op, Effect(op))
    BY <1>6, <2>1, <2>3, <2>4 DEF Promises, Promised
  <2>. QED BY <1>5, <2>1, <2>3, <2>4, <2>5
<1>7. CASE op.call = "AddToken"
  <2>1. op.user \in DOMAIN mem.users /\ mem.users[op.user] \in UserRecord
    BY <1>7, <1>a DEF Refused
  <2>2. PICK r : r = [mem.users[op.user] EXCEPT !.valid = @ \cup {op.jti}]
    OBVIOUS
  <2>3. Effect(op).users = [mem.users EXCEPT ![op.user] = r]
    BY <1>7, <1>a, <2>1, <2>2 DEF Effect, AddToken
  <2>4. Keeps(op, mem.users[op.user], r) /\ op.jti \in r.valid
    BY <1>7, <2>1, <2>2 DEF Keeps, UserRecord
  <2>5. Promises(op, Effect(op))
    BY <1>7, <2>1, <2>3, <2>4 DEF Promises, Promised
  <2>. QED BY <1>5, <2>1, <2>3, <2>4, <2>5
<1>8. CASE op.call = "RevokeToken"
  <2>1. op.user \in DOMAIN mem.users /\ mem.users[op.user] \in UserRecord
    BY <1>8, <1>a DEF Refused
  <2>2. PICK r : r = [mem.users[op.user] EXCEPT !.valid = @ \ {op.jti}, !.revoked = @ \cup {op.jti}]
    OBVIOUS
  <2>3. Effect(op).users = [mem.users EXCEPT ![op.user] = r]
    BY <1>8, <1>a, <2>1, <2>2 DEF Effect, RevokeToken
  <2>4. Keeps(op, mem.users[op.user], r) /\ op.jti \in r.revoked /\ op.jti \notin r.valid
    BY <1>8, <2>1, <2>2 DEF Keeps, UserRecord
  <2>5. Promises(op, Effect(op))
    BY <1>8, <2>1, <2>3, <2>4 DEF Promises, Promised
  <2>. QED BY <1>5, <2>1, <2>3, <2>4, <2>5
<1>9. CASE op.call \in {"DeleteGroup", "DeleteRole"}
  <2>1. PICK f : /\ f = Effect(op).users /\ DOMAIN f = DOMAIN mem.users
                 /\ \A u \in DOMAIN f : f[u] = mem.users[u]
                      \/ f[u] = [mem.users[u] EXCEPT !.groups = @ \ {op.group}]
                      \/ f[u] = [mem.users[u] EXCEPT !.role = "viewer"]
    <3>1. CASE op.call = "DeleteGroup"
      <4>1. PICK f : f = [u \in DOMAIN mem.users |-> [mem.users[u] EXCEPT !.groups = @ \ {op.group}]]
        OBVIOUS
      <4>2. Effect(op) = [mem EXCEPT !.groups = @ \ {op.group}, !.users = f]
        BY <3>1, <1>a, <4>1 DEF Effect, DeleteGroup
      <4>3. Effect(op).users = f
        BY <1>a, <4>2
      <4>. QED BY <4>1, <4>3
    <3>2. CASE op.call = "DeleteRole"
      <4>1. PICK f : f = [u \in DOMAIN mem.users |->
                            IF mem.users[u].role = op.role THEN [mem.users[u] EXCEPT !.role = "viewer"]
                                                           ELSE mem.users[u]]
        OBVIOUS
      <4>2. Effect(op) = [mem EXCEPT !.roles = Drop(mem.roles, op.role), !.users = f]
        BY <3>2, <1>a, <4>1 DEF Effect, DeleteRole
      <4>3. Effect(op).users = f
        BY <1>a, <4>2
      <4>. QED BY <4>1, <4>3
    <3>. QED BY <1>9, <3>1, <3>2
  <2>2. \A u \in DOMAIN f : f[u].tv = mem.users[u].tv /\ f[u].valid = mem.users[u].valid
                           /\ f[u].revoked = mem.users[u].revoked
    BY <1>a, <2>1 DEF UserRecord
  <2>. QED BY <1>9, <1>a, <1>b, <1>1, <2>1, <2>2 DEF EffectOn
<1>. QED
  BY <1>2, <1>3, <1>4, <1>6, <1>7, <1>8, <1>9 DEF OpOK

\* An answer adds to what is acknowledged of one account.
LEMMA AckAdds ==
  ASSUME acked \in [User -> Ack], NEW op, NEW tv \in Nat, OpOK(op),
         op.call = "Bump" \/ op.call = "AddToken" \/ op.call = "RevokeToken"
  PROVE  /\ op.user \in User
         /\ \A u \in User : u # op.user => Acknowledge(op, tv)[u] = acked[u]
         /\ LET old == acked[op.user]  new == Acknowledge(op, tv)[op.user] IN
            /\ new.tv = old.tv \/ (op.call = "Bump" /\ new.tv = tv)
            /\ \A j \in new.valid : j \in old.valid \/ (op.call = "AddToken" /\ j = op.jti)
            /\ \A j \in new.revoked : j \in old.revoked \/ (op.call = "RevokeToken" /\ j = op.jti)
<1>1. op.user \in User
  BY DEF OpOK
<1>2. PICK old : old = acked[op.user]
  OBVIOUS
<1>3. old \in Ack
  BY <1>1, <1>2
<1>4. ASSUME NEW new, Acknowledge(op, tv) = [acked EXCEPT ![op.user] = new]
      PROVE  /\ \A u \in User : u # op.user => Acknowledge(op, tv)[u] = acked[u]
             /\ Acknowledge(op, tv)[op.user] = new
  BY <1>1, <1>4
<1>5. CASE op.call = "Bump"
  <2>1. PICK new : new = [old EXCEPT !.tv = Max({old.tv, tv})]
    OBVIOUS
  <2>2. Acknowledge(op, tv) = [acked EXCEPT ![op.user] = new]
    BY <1>2, <1>5, <2>1 DEF Acknowledge
  <2>3. Max({old.tv, tv}) \in {old.tv, tv}
    BY <1>3, MaxOfTwo DEF Ack
  <2>4. new.tv \in {old.tv, tv} /\ new.valid = old.valid /\ new.revoked = old.revoked
    BY <1>3, <2>1, <2>3 DEF Ack
  <2>5. Acknowledge(op, tv)[op.user] = new
    BY <1>4, <2>2
  <2>. QED BY <1>1, <1>2, <1>4, <1>5, <2>2, <2>4, <2>5
<1>6. CASE op.call = "AddToken"
  <2>1. PICK new : new = [old EXCEPT !.valid = (@ \cup {op.jti}) \ old.revoked]
    OBVIOUS
  <2>2. Acknowledge(op, tv) = [acked EXCEPT ![op.user] = new]
    BY <1>2, <1>6, <2>1 DEF Acknowledge
  <2>3. new.tv = old.tv /\ new.valid \subseteq old.valid \cup {op.jti} /\ new.revoked = old.revoked
    BY <1>3, <2>1 DEF Ack
  <2>4. Acknowledge(op, tv)[op.user] = new
    BY <1>4, <2>2
  <2>. QED BY <1>1, <1>2, <1>4, <1>6, <2>2, <2>3, <2>4
<1>7. CASE op.call = "RevokeToken"
  <2>1. PICK new : new = [old EXCEPT !.valid = @ \ {op.jti}, !.revoked = @ \cup {op.jti}]
    OBVIOUS
  <2>2. Acknowledge(op, tv) = [acked EXCEPT ![op.user] = new]
    BY <1>2, <1>7, <2>1 DEF Acknowledge
  <2>3. new.tv = old.tv /\ new.valid \subseteq old.valid /\ new.revoked = old.revoked \cup {op.jti}
    BY <1>3, <2>1 DEF Ack
  <2>4. Acknowledge(op, tv)[op.user] = new
    BY <1>4, <2>2
  <2>. QED BY <1>1, <1>2, <1>4, <1>7, <2>2, <2>3, <2>4
<1>. QED
  BY <1>5, <1>6, <1>7

\* An identifier becomes known when its token is added, and not before.
LEMMA UnheardStep ==
  ASSUME TypeOK, [Next]_vars, NEW j, Unheard(j),
         \A t \in Thread : ~(Apply(t) /\ Adding(t) /\ req[t].op.jti = j)
  PROVE  Unheard(j)'
<1>a. /\ req = [t \in Thread |-> req[t]] /\ StoreOK(mem) /\ acked \in [User -> Ack]
      /\ file = [v |-> file.v, data |-> file.data, edits |-> file.edits]
  BY DEF TypeOK, Ack
<1>b. /\ ~Holds(mem, j) /\ ~Holds(file.data, j)
      /\ \A u \in User : j \notin acked[u].revoked
      /\ \A t \in Thread : Quiet(req[t], j)
  BY DEF Unheard
<1>c. ASSUME ~Holds(mem', j), ~Holds(file'.data, j), \A u \in User : j \notin acked'[u].revoked,
             \A t \in Thread : Quiet(req'[t], j)
      PROVE  Unheard(j)'
  BY <1>c DEF Unheard, Quiet, Holds, Applied
<1>d. Quiet(Idle, j)
  BY DEF Quiet, Idle, Applied
<1>e. ASSUME NEW t \in Thread, NEW r, req' = [req EXCEPT ![t] = r], Quiet(r, j)
      PROVE  \A x \in Thread : Quiet(req'[x], j)
  <2>1. \A x \in Thread : req'[x] = r \/ req'[x] = req[x]
    BY <1>a, <1>e
  <2>. QED BY <1>b, <1>e, <2>1
<1>f. ASSUME NEW s, acked' = Remember(acked, s)
      PROVE  \A u \in User : j \notin acked'[u].revoked
  BY <1>b, <1>f DEF Remember, NoAck
<1>1. ASSUME NEW t \in Thread, \E op : Calling(t, op) PROVE Unheard(j)'
  <2>1. PICK op : Calling(t, op)
    BY <1>1
  <2>2. PICK r : r = [pc |-> "called", op |-> op, tv |-> 0, v |-> 0]
    OBVIOUS
  <2>3. Quiet(r, j)
    BY <1>b, <2>1, <2>2 DEF Calling, Quiet, Applied
  <2>4. UNCHANGED <<mem, file, acked>> /\ req' = [req EXCEPT ![t] = r]
    BY <2>1, <2>2 DEF Calling, memory, disk, ghosts
  <2>. QED BY <1>b, <1>c, <1>e, <2>3, <2>4
<1>2. ASSUME NEW t \in Thread, Reloading(t) PROVE Unheard(j)'
  <2>1. PICK r : r = [pc |-> "reloading", op |-> file]
    OBVIOUS
  <2>2. Quiet(r, j)
    BY <1>b, <2>1 DEF Quiet, Applied
  <2>3. UNCHANGED <<mem, file, acked>> /\ req' = [req EXCEPT ![t] = r]
    BY <1>2, <2>1 DEF Reloading, memory, disk, ghosts
  <2>. QED BY <1>b, <1>c, <1>e, <2>2, <2>3
<1>3. ASSUME Logging PROVE Unheard(j)'
  <2>1. UNCHANGED <<mem, file, acked>>
    BY <1>3 DEF Logging, memory, disk, ghosts
  <2>2. CASE req' = req
    BY <1>b, <1>c, <2>1, <2>2
  <2>3. ASSUME NEW t \in Thread, NEW r, r = Idle \/ LogsIn(r), req' = [req EXCEPT ![t] = r]
        PROVE  Unheard(j)'
    <3>1. Quiet(r, j)
      BY <1>d, <2>3 DEF Quiet, LogsIn, Applied
    <3>. QED BY <1>b, <1>c, <1>e, <2>1, <2>3, <3>1
  <2>. QED BY <1>3, <2>2, <2>3 DEF Logging
<1>4. ASSUME NEW t \in Thread, Apply(t) PROVE Unheard(j)'
  <2>1. UNCHANGED <<file>> /\ req[t].pc = "called"
    BY <1>4 DEF Apply, disk
  <2>2. CASE Answer(t) /\ mem' = mem /\ acked' = acked
    <3>1. req' = [req EXCEPT ![t] = Idle]
      BY <2>2, Stages
    <3>. QED BY <1>b, <1>c, <1>d, <1>e, <2>1, <2>2, <3>1
  <2>3. CASE /\ ~Refused(req[t].op) /\ mem' = Effect(req[t].op) /\ acked' = Remember(acked, mem')
             /\ \E r : r.pc = "saving" /\ r.op = req[t].op /\ req' = [req EXCEPT ![t] = r]
    <3>1. PICK op : op = req[t].op
      OBVIOUS
    <3>2. OpOK(op)
      BY <2>1, <3>1, Stages DEF Changes
    <3>3. EffectOn(op, mem')
      BY <1>a, <2>3, <3>1, <3>2, EffectOfUsers
    <3>4. op.call = "RevokeToken" => op.jti # j
      BY <1>b, <2>3, <3>1 DEF Refused, Holds
    <3>5. op.call = "AddToken" => op.jti # j
      BY <1>4, <2>1, <3>1 DEF Adding
    <3>6. op.call = "UpsertUser" => j \notin op.rec.valid \cup op.rec.revoked
      BY <1>b, <2>1, <3>1 DEF Quiet
    <3>7. ~Holds(mem', j)
      <4>. SUFFICES ASSUME NEW u \in DOMAIN mem'.users
           PROVE j \notin mem'.users[u].valid \cup mem'.users[u].revoked
        BY DEF Holds
      <4>1. CASE u \notin DOMAIN mem.users
        BY <3>3, <3>6, <4>1 DEF EffectOn
      <4>2. CASE u \in DOMAIN mem.users
        <5>1. Keeps(op, mem.users[u], mem'.users[u])
          BY <3>3, <4>2 DEF EffectOn
        <5>2. j \notin mem.users[u].valid \cup mem.users[u].revoked
          BY <1>b, <4>2 DEF Holds
        <5>. QED BY <3>4, <3>5, <5>1, <5>2 DEF Keeps
      <4>. QED BY <4>1, <4>2
    <3>8. PICK r : r.pc = "saving" /\ r.op = op /\ req' = [req EXCEPT ![t] = r]
      BY <2>3, <3>1
    <3>9. Quiet(r, j)
      BY <3>4, <3>8 DEF Quiet
    <3>. QED BY <1>b, <1>c, <1>e, <1>f, <2>1, <2>3, <3>7, <3>8, <3>9
  <2>. QED BY <1>4, <2>2, <2>3, Stages
<1>5. ASSUME NEW t \in Thread, SaveChecks(t) PROVE Unheard(j)'
  <2>1. UNCHANGED <<mem, file, acked>> /\ req[t].pc = "saving"
    BY <1>5 DEF SaveChecks, memory, disk
  <2>2. CASE Answer(t)
    <3>1. req' = [req EXCEPT ![t] = Idle]
      BY <2>2, Stages
    <3>. QED BY <1>b, <1>c, <1>d, <1>e, <2>1, <3>1
  <2>3. ASSUME NEW r, r.pc = "writing", r.op = req[t].op, req' = [req EXCEPT ![t] = r]
        PROVE  Unheard(j)'
    <3>1. Quiet(r, j)
      BY <1>b, <2>1, <2>3 DEF Quiet, Applied
    <3>. QED BY <1>b, <1>c, <1>e, <2>1, <2>3, <3>1
  <2>. QED BY <1>5, <2>2, <2>3, Stages
<1>6. ASSUME NEW t \in Thread, SaveWrites(t) PROVE Unheard(j)'
  <2>1. UNCHANGED <<mem, acked>> /\ file'.data = mem /\ req[t].pc = "writing"
    BY <1>6 DEF SaveWrites, memory, ghosts
  <2>2. PICK r : r.pc = "stamping" /\ r.op = req[t].op /\ req' = [req EXCEPT ![t] = r]
    BY <1>6, Stages
  <2>3. Quiet(r, j)
    BY <1>b, <2>1, <2>2 DEF Quiet, Applied
  <2>. QED BY <1>b, <1>c, <1>e, <2>1, <2>2, <2>3
<1>7. ASSUME NEW t \in Thread, SaveStamps(t) PROVE Unheard(j)'
  <2>1. UNCHANGED <<mem, file>> /\ req[t].pc = "stamping" /\ req' = [req EXCEPT ![t] = Idle]
    BY <1>7, Stages DEF SaveStamps, disk
  <2>2. \A u \in User : j \notin acked'[u].revoked
    <3>1. PICK op, tv : op = req[t].op /\ tv = req[t].tv
      OBVIOUS
    <3>2. OpOK(op) /\ tv \in Nat
      BY <2>1, <3>1, Stages DEF Changes
    <3>3. op.call = "RevokeToken" => op.jti # j
      BY <1>b, <2>1, <3>1 DEF Quiet, Applied
    <3>4. CASE acked' = acked
      BY <1>b, <3>4
    <3>5. CASE /\ op.call = "Bump" \/ op.call = "AddToken" \/ op.call = "RevokeToken"
               /\ acked' = Acknowledge(op, tv)
      <4>1. /\ \A u \in User : u # op.user => acked'[u] = acked[u]
            /\ \A i \in acked'[op.user].revoked :
                  i \in acked[op.user].revoked \/ (op.call = "RevokeToken" /\ i = op.jti)
            /\ op.user \in User
        BY <1>a, <3>2, <3>5, AckAdds
      <4>. QED BY <1>b, <3>3, <4>1
    <3>. QED BY <1>7, <3>1, <3>4, <3>5 DEF SaveStamps, ChangesTokens
  <2>. QED BY <1>b, <1>c, <1>d, <1>e, <2>1, <2>2
<1>8. ASSUME NEW t \in Thread, SaveFails(t) PROVE Unheard(j)'
  <2>1. UNCHANGED <<mem, file, acked>> /\ req' = [req EXCEPT ![t] = Idle]
    BY <1>8, Stages DEF SaveFails, memory, disk
  <2>. QED BY <1>b, <1>c, <1>d, <1>e, <2>1
<1>9. ASSUME NEW t \in Thread, ReloadSets(t) PROVE Unheard(j)'
  <2>1. /\ UNCHANGED <<file>> /\ req' = [req EXCEPT ![t] = Idle] /\ acked' = Remember(acked, mem')
        /\ mem' = req[t].op.data /\ req[t].pc = "reloading"
    BY <1>9 DEF ReloadSets, disk, Answer
  <2>2. ~Holds(mem', j)
    BY <1>b, <2>1 DEF Quiet
  <2>. QED BY <1>b, <1>c, <1>d, <1>e, <1>f, <2>1, <2>2
<1>10. ASSUME Restart PROVE Unheard(j)'
  <2>1. /\ mem' = SeedRoles(file.data) /\ acked' = Remember(acked, mem')
        /\ \A t \in Thread : req'[t] = Idle
        /\ file' = file \/ file' = [file EXCEPT !.v = clock + 1, !.data = SeedRoles(file.data)]
    BY <1>10 DEF Restart, disk
  <2>2. SeedRoles(file.data).users = file.data.users
    BY DEF SeedRoles, TypeOK, FileOK, StoreOK
  <2>3. file'.data = file.data \/ file'.data = SeedRoles(file.data)
    BY <1>a, <2>1
  <2>4. ~Holds(mem', j) /\ ~Holds(file'.data, j)
    BY <1>b, <2>1, <2>2, <2>3 DEF Holds
  <2>. QED BY <1>c, <1>d, <1>f, <2>1, <2>4
<1>11. ASSUME Edit PROVE Unheard(j)'
  <2>1. UNCHANGED <<mem, acked, req>> /\ file'.data = file.data
    BY <1>11, <1>a DEF Edit, memory
  <2>. QED BY <1>b, <1>c, <2>1
<1>12. ASSUME Remove PROVE Unheard(j)'
  <2>1. UNCHANGED <<mem, acked, req>> /\ file'.data = EmptyStore
    BY <1>12 DEF Remove, memory
  <2>2. DOMAIN EmptyStore.users = {}
    BY DEF EmptyStore
  <2>3. ~Holds(file'.data, j)
    BY <2>1, <2>2 DEF Holds
  <2>. QED BY <1>b, <1>c, <2>1, <2>3
<1>13. ASSUME UNCHANGED vars PROVE Unheard(j)'
  <2>1. UNCHANGED <<mem, acked, req, file>>
    BY <1>13 DEF vars, memory, disk, ghosts
  <2>. QED BY <1>b, <1>c, <2>1
<1>. QED
  BY <1>1, <1>2, <1>3, <1>4, <1>5, <1>6, <1>7, <1>8, <1>9, <1>10, <1>11, <1>12, <1>13, Moves

LEMMA AddingMoves ==
  ASSUME TypeOK, [Next]_vars
  PROVE  /\ started' \in Nat /\ started <= started'
         /\ \A t \in Thread : Adding(t)' =>
              \/ Adding(t) /\ req'[t] = req[t] /\ ~Apply(t)
              \/ /\ req'[t].op.jti = started + 1 /\ started' = started + 1
                 /\ \A x \in Thread : x # t => req'[x] = req[x]
<1>a. req = [t \in Thread |-> req[t]] /\ started \in Nat
  BY SessionsAssumption DEF TypeOK, SessionsAssumption
<1>b. Idle.pc = "idle" /\ \A t \in Thread : Answer(t) => req' = [req EXCEPT ![t] = Idle]
  BY DEF Idle, Answer
<1>c. ASSUME started' = started, NEW t \in Thread, NEW r, req' = [req EXCEPT ![t] = r], r.pc # "called",
             \A x \in Thread : Apply(x) => req'[x].pc # "called"
      PROVE  /\ started' \in Nat /\ started <= started'
             /\ \A x \in Thread : Adding(x)' => Adding(x) /\ req'[x] = req[x] /\ ~Apply(x)
  <2>1. \A x \in Thread : req'[x] = IF x = t THEN r ELSE req[x]
    BY <1>a, <1>c
  <2>. QED BY <1>a, <1>c, <2>1 DEF Adding
<1>d. ASSUME NEW x \in Thread, Apply(x)
      PROVE  req'[x].pc # "called"
  <2>1. \E r : r.pc # "called" /\ req' = [req EXCEPT ![x] = r]
    BY <1>b, <1>d, Stages
  <2>. QED BY <1>a, <2>1
<1>1. ASSUME NEW t \in Thread, NEW op, Calling(t, op)
      PROVE  /\ started' = started + 1
             /\ \A x \in Thread : x # t => req'[x] = req[x]
             /\ Adding(t)' => req'[t].op.jti = started + 1
             /\ \A x \in Thread : x # t => ~Apply(x) \/ req'[x].pc # "called"
  <2>1. PICK r : r = [pc |-> "called", op |-> op, tv |-> 0, v |-> 0]
    OBVIOUS
  <2>2. started' = started + 1 /\ req' = [req EXCEPT ![t] = r] /\ (op.call = "AddToken" => op.jti = started + 1)
    BY <1>1, <2>1 DEF Calling
  <2>3. req'[t] = r /\ r.op = op /\ \A x \in Thread : x # t => req'[x] = req[x]
    BY <1>a, <2>1, <2>2
  <2>. QED BY <1>d, <2>2, <2>3 DEF Adding
<1>2. ASSUME NEW t \in Thread, NEW r, r.pc # "called", req' = [req EXCEPT ![t] = r],
             started' = started \/ started' = started + 1
      PROVE  /\ started' \in Nat /\ started <= started'
             /\ \A x \in Thread : Adding(x)' => Adding(x) /\ req'[x] = req[x] /\ ~Apply(x)
  <2>1. \A x \in Thread : req'[x] = IF x = t THEN r ELSE req[x]
    BY <1>a, <1>2
  <2>. QED BY <1>a, <1>d, <1>2, <2>1 DEF Adding
<1>3. ASSUME req' = req, started' = started \/ started' = started + 1
      PROVE  /\ started' \in Nat /\ started <= started'
             /\ \A x \in Thread : Adding(x)' => Adding(x) /\ req'[x] = req[x] /\ ~Apply(x)
  BY <1>a, <1>d, <1>3 DEF Adding
<1>4. CASE \E t \in Thread : \E op : Calling(t, op)
  <2>1. PICK t \in Thread : \E op : Calling(t, op)
    BY <1>4
  <2>2. PICK op : Calling(t, op)
    BY <2>1
  <2>. QED BY <1>a, <1>1, <2>2 DEF Adding
<1>5. ASSUME NEW t \in Thread, \/ Reloading(t) \/ Apply(t) \/ SaveChecks(t) \/ SaveWrites(t)
                               \/ SaveStamps(t) \/ SaveFails(t) \/ ReloadSets(t)
      PROVE  /\ started' \in Nat /\ started <= started'
             /\ \A x \in Thread : Adding(x)' => Adding(x) /\ req'[x] = req[x] /\ ~Apply(x)
  <2>1. started' = started \/ started' = started + 1
    BY <1>5 DEF Reloading, Apply, SaveChecks, SaveWrites, SaveStamps, SaveFails, ReloadSets
  <2>2. \E r : r.pc # "called" /\ req' = [req EXCEPT ![t] = r]
    <3>1. CASE Reloading(t)
      BY <3>1 DEF Reloading
    <3>2. CASE Apply(t) \/ SaveChecks(t) \/ SaveWrites(t)
      BY <1>b, <3>2, Stages
    <3>3. CASE SaveStamps(t) \/ SaveFails(t) \/ ReloadSets(t)
      BY <1>b, <3>3 DEF SaveStamps, SaveFails, ReloadSets
    <3>. QED BY <1>5, <3>1, <3>2, <3>3
  <2>. QED BY <1>2, <2>1, <2>2
<1>6. ASSUME Logging
      PROVE  /\ started' \in Nat /\ started <= started'
             /\ \A x \in Thread : Adding(x)' => Adding(x) /\ req'[x] = req[x] /\ ~Apply(x)
  <2>1. started' = started \/ started' = started + 1
    BY <1>6 DEF Logging
  <2>2. req' = req \/ \E t \in Thread : \E r : r.pc # "called" /\ req' = [req EXCEPT ![t] = r]
    BY <1>6 DEF Logging, Idle, LogsIn
  <2>. QED BY <1>2, <1>3, <2>1, <2>2
<1>7. ASSUME Edit \/ Remove \/ UNCHANGED vars
      PROVE  /\ started' \in Nat /\ started <= started'
             /\ \A x \in Thread : Adding(x)' => Adding(x) /\ req'[x] = req[x] /\ ~Apply(x)
  <2>1. started' = started /\ req' = req
    BY <1>7 DEF Edit, Remove, vars
  <2>. QED BY <1>3, <2>1
<1>8. ASSUME Restart
      PROVE  /\ started' \in Nat /\ started <= started'
             /\ \A x \in Thread : Adding(x)' => Adding(x) /\ req'[x] = req[x] /\ ~Apply(x)
  BY <1>8, <1>a DEF Restart, Idle, Adding
<1>. QED
  BY <1>4, <1>5, <1>6, <1>7, <1>8, Moves

LEMMA JtisStep ==
  ASSUME TypeOK, JtisOK, [Next]_vars
  PROVE  JtisOK'
<1>a. /\ \A j \in Nat : j > started => Unheard(j)
      /\ \A t \in Thread : Adding(t) => Unheard(req[t].op.jti) /\ req[t].op.jti <= started
      /\ \A t, x \in Thread : Adding(t) /\ Adding(x) /\ req[t].op.jti = req[x].op.jti => t = x
  BY DEF JtisOK
<1>b. /\ started \in Nat /\ started' \in Nat /\ started <= started'
      /\ \A t \in Thread : Adding(t)' =>
           \/ Adding(t) /\ req'[t] = req[t] /\ ~Apply(t)
           \/ /\ req'[t].op.jti = started + 1 /\ started' = started + 1
              /\ \A x \in Thread : x # t => req'[x] = req[x]
  BY AddingMoves, SessionsAssumption DEF TypeOK, SessionsAssumption
<1>c. \A t \in Thread : Adding(t) => req[t].op.jti \in Nat
  <2>. SUFFICES ASSUME NEW t \in Thread, Adding(t) PROVE req[t].op.jti \in Nat
    OBVIOUS
  <2>1. req[t].op.jti \in Jti
    BY Stages DEF Adding, Changes, OpOK
  <2>. QED BY <2>1, SessionsAssumption DEF SessionsAssumption
<1>1. ASSUME NEW j \in Nat, j > started
      PROVE  Unheard(j)'
  <2>1. \A t \in Thread : Adding(t) => req[t].op.jti # j
    BY <1>1, <1>a, <1>b, <1>c
  <2>. QED BY <1>1, <1>a, <2>1, UnheardStep
<1>2. \A j \in Nat : j > started' => Unheard(j)'
  BY <1>1, <1>b
<1>3. ASSUME NEW t \in Thread, Adding(t)'
      PROVE  /\ \A j : j = req'[t].op.jti => Unheard(j)'
             /\ req'[t].op.jti <= started'
             /\ \A x \in Thread : Adding(x)' /\ req'[t].op.jti = req'[x].op.jti => t = x
  <2>1. CASE Adding(t) /\ req'[t] = req[t] /\ ~Apply(t)
    <3>1. PICK j : j = req[t].op.jti
      OBVIOUS
    <3>2. \A x \in Thread : ~(Apply(x) /\ Adding(x) /\ req[x].op.jti = j)
      BY <1>a, <2>1, <3>1
    <3>3. Unheard(j)'
      BY <1>a, <2>1, <3>1, <3>2, UnheardStep
    <3>4. j <= started' /\ j <= started
      BY <1>a, <1>b, <1>c, <2>1, <3>1
    <3>5. j # started + 1
      BY <1>b, <1>c, <2>1, <3>1, <3>4
    <3>6. req'[t].op.jti = j
      BY <2>1, <3>1
    <3>7. ASSUME NEW x \in Thread, Adding(x)', req'[t].op.jti = req'[x].op.jti
          PROVE  t = x
      <4>1. req'[x].op.jti # started + 1
        BY <3>5, <3>6, <3>7
      <4>2. Adding(x) /\ req'[x] = req[x]
        BY <1>b, <3>7, <4>1
      <4>. QED BY <1>a, <2>1, <3>7, <4>2
    <3>. QED BY <3>3, <3>4, <3>6, <3>7
  <2>2. CASE /\ req'[t].op.jti = started + 1 /\ started' = started + 1
             /\ \A x \in Thread : x # t => req'[x] = req[x]
    <3>1. PICK j : j = started + 1
      OBVIOUS
    <3>2. j \in Nat /\ j > started /\ j <= started'
      BY <1>b, <2>2, <3>1
    <3>3. Unheard(j)'
      BY <1>1, <3>2
    <3>4. \A x \in Thread : x # t /\ Adding(x)' => Adding(x) /\ req'[x] = req[x]
      BY <2>2 DEF Adding
    <3>5. \A x \in Thread : Adding(x) => req[x].op.jti # j
      BY <1>a, <1>b, <1>c, <3>2
    <3>6. req'[t].op.jti = j
      BY <2>2, <3>1
    <3>7. ASSUME NEW x \in Thread, Adding(x)', req'[t].op.jti = req'[x].op.jti
          PROVE  t = x
      BY <3>4, <3>5, <3>6, <3>7
    <3>. QED BY <3>2, <3>3, <3>6, <3>7
  <2>. QED BY <1>3, <1>b, <2>1, <2>2
<1>4. ASSUME NEW t \in Thread, Adding(t)'
      PROVE  Unheard(req[t].op.jti)'
  <2>1. PICK j : j = req'[t].op.jti
    OBVIOUS
  <2>2. Unheard(j)'
    BY <1>3, <1>4, <2>1
  <2>. QED BY <2>1, <2>2 DEF Unheard
<1>. QED
  BY <1>2, <1>3, <1>4 DEF JtisOK

\* What fits an account still does when it is forgotten.
LEMMA FitsRemembered ==
  ASSUME NEW s, StoreOK(s), acked \in [User -> Ack], NEW S,
         \A u \in DOMAIN s.users \ S : acked[u] = NoAck \/ FitsRecord(acked[u], s.users[u]), NEW x
  PROVE  Fits(Remember(acked, x), S, s)
<1>1. \A u \in DOMAIN s.users : u \in User /\ s.users[u] \in UserRecord
  BY DEF StoreOK, Partial
<1>2. \A rec \in UserRecord : FitsRecord(NoAck, rec)
  BY DEF FitsRecord, NoAck, UserRecord
<1>3. \A u \in User : Remember(acked, x)[u] = acked[u] \/ Remember(acked, x)[u] = NoAck
  BY DEF Remember
<1>. QED
  BY <1>1, <1>2, <1>3 DEF Fits

LEMMA AckedStep ==
  ASSUME TypeOK, MatchOK, JtisOK, AckedOK, [Next]_vars
  PROVE  AckedOK'
<1>a. /\ req = [t \in Thread |-> req[t]] /\ StoreOK(mem) /\ StoreOK(file.data) /\ acked \in [User -> Ack]
      /\ file = [v |-> file.v, data |-> file.data, edits |-> file.edits]
      /\ \A u \in DOMAIN mem.users : u \in User /\ mem.users[u] \in UserRecord
      /\ \A x \in Thread : req[x].pc = "reloading" => StoreOK(req[x].op.data)
  BY Stages DEF TypeOK, Ack, FileOK, StoreOK, Partial, Reloads
<1>b. /\ \A u \in User : u \notin DOMAIN mem.users => acked[u] = NoAck
      /\ \A t \in Thread : Pending(req[t], crossed) => Promised(req[t].op, req[t].tv, mem)
      /\ Fits(acked, crossed, mem) /\ Fits(acked, crossed, file.data)
      /\ \A x \in Thread : req[x].pc = "reloading" => Fits(acked, crossed, req[x].op.data)
      /\ \A t \in Thread : req[t].pc = "stamping" => file.data = mem \/ DOMAIN file.data.users = {}
      /\ \A t, x \in Thread :
           /\ req[t].pc = "stamping" /\ Pending(req[t], crossed) /\ req[x].pc = "reloading"
           /\ req[t].op.user \in DOMAIN req[x].op.data.users
           => Promised(req[t].op, req[t].tv, req[x].op.data)
  BY DEF AckedOK
<1>c. ASSUME \A u \in User : u \notin DOMAIN mem'.users => acked'[u] = NoAck,
             \A t \in Thread : Pending(req'[t], crossed') => Promised(req'[t].op, req'[t].tv, mem'),
             Fits(acked', crossed', mem') /\ Fits(acked', crossed', file'.data),
             \A x \in Thread : req'[x].pc = "reloading" => Fits(acked', crossed', req'[x].op.data),
             \A t \in Thread : req'[t].pc = "stamping" => file'.data = mem' \/ DOMAIN file'.data.users = {},
             \A t, x \in Thread :
               /\ req'[t].pc = "stamping" /\ Pending(req'[t], crossed') /\ req'[x].pc = "reloading"
               /\ req'[t].op.user \in DOMAIN req'[x].op.data.users
               => Promised(req'[t].op, req'[t].tv, req'[x].op.data)
      PROVE  AckedOK'
  BY <1>c DEF AckedOK, Fits, FitsRecord, Promised, Pending, Applied
<1>d. ASSUME NEW t \in Thread, NEW r, req' = [req EXCEPT ![t] = r]
      PROVE  \A x \in Thread : req'[x] = IF x = t THEN r ELSE req[x]
  BY <1>a, <1>d
<1>e. Idle.pc = "idle" /\ \A t \in Thread : Answer(t) => req' = [req EXCEPT ![t] = Idle]
  BY DEF Idle, Answer
\* What is excepted grows; accounts are forgotten.
<1>f. ASSUME NEW S, crossed \subseteq S
      PROVE  /\ \A r : Pending(r, S) => Pending(r, crossed)
             /\ \A s : Fits(acked, crossed, s) => Fits(acked, S, s)
             /\ \A s, x : StoreOK(s) /\ Fits(acked, crossed, s) => Fits(Remember(acked, x), S, s)
  <2>1. \A r : Pending(r, S) => Pending(r, crossed)
    BY <1>f DEF Pending
  <2>2. \A s : Fits(acked, crossed, s) => Fits(acked, S, s)
    BY <1>f DEF Fits
  <2>3. ASSUME NEW s, NEW x, StoreOK(s), Fits(acked, crossed, s) PROVE Fits(Remember(acked, x), S, s)
    <3>1. \A u \in DOMAIN s.users \ S : FitsRecord(acked[u], s.users[u])
      BY <1>f, <2>3 DEF Fits
    <3>. QED BY <1>a, <2>3, <3>1, FitsRemembered
  <2>. QED BY <2>1, <2>2, <2>3
\* One request goes on, and neither the store nor the file changes.
<1>1. ASSUME UNCHANGED <<mem, file, acked, crossed>>, NEW t \in Thread, NEW r, req' = [req EXCEPT ![t] = r],
             Applied(r) => Applied(req[t]) /\ r.op = req[t].op /\ r.tv = req[t].tv,
             r.pc # "stamping", r.pc = "reloading" => r.op = file
      PROVE  AckedOK'
  <2>1. \A x \in Thread : req'[x] = IF x = t THEN r ELSE req[x]
    BY <1>1, <1>d
  <2>2. \A x \in Thread : Pending(req'[x], crossed') => Promised(req'[x].op, req'[x].tv, mem')
    BY <1>1, <1>b, <2>1 DEF Pending
  <2>3. \A x \in Thread : req'[x].pc = "reloading" => Fits(acked', crossed', req'[x].op.data)
    BY <1>1, <1>b, <2>1
  <2>4. \A y \in Thread : req'[y].pc = "stamping" => y # t /\ req'[y] = req[y]
    BY <1>1, <2>1
  <2>5. ASSUME NEW y \in Thread, NEW x \in Thread,
               req'[y].pc = "stamping", Pending(req'[y], crossed'), req'[x].pc = "reloading",
               req'[y].op.user \in DOMAIN req'[x].op.data.users
        PROVE  Promised(req'[y].op, req'[y].tv, req'[x].op.data)
    <3>1. CASE x = t
      <4>1. req'[x].op.data = mem
        BY <1>1, <1>b, <2>1, <2>4, <2>5, <3>1
      <4>. QED BY <1>1, <2>2, <2>5, <4>1
    <3>2. CASE x # t
      BY <1>1, <1>b, <2>1, <2>4, <2>5, <3>2
    <3>. QED BY <3>1, <3>2
  <2>. QED BY <1>1, <1>b, <1>c, <2>2, <2>3, <2>4, <2>5
<1>2. ASSUME NEW t \in Thread, \E op : Calling(t, op) PROVE AckedOK'
  <2>1. UNCHANGED <<mem, file, acked, crossed>> /\ \E r : r.pc = "called" /\ req' = [req EXCEPT ![t] = r]
    BY <1>2 DEF Calling, memory, disk, ghosts
  <2>. QED BY <1>1, <2>1 DEF Applied
<1>3. ASSUME NEW t \in Thread, Reloading(t) PROVE AckedOK'
  <2>1. PICK r : r = [pc |-> "reloading", op |-> file]
    OBVIOUS
  <2>2. UNCHANGED <<mem, file, acked, crossed>> /\ req' = [req EXCEPT ![t] = r]
    BY <1>3, <2>1 DEF Reloading, memory, disk, ghosts
  <2>3. r.pc = "reloading" /\ r.op = file
    BY <2>1
  <2>. QED BY <1>1, <2>2, <2>3 DEF Applied
<1>4. ASSUME Logging PROVE AckedOK'
  <2>1. UNCHANGED <<mem, file, acked, crossed>>
    BY <1>4 DEF Logging, memory, disk, ghosts
  <2>2. CASE req' = req
    BY <1>b, <1>c, <2>1, <2>2
  <2>3. ASSUME NEW t \in Thread, NEW r, r = Idle \/ LogsIn(r), req' = [req EXCEPT ![t] = r]
        PROVE  AckedOK'
    <3>1. r.pc = "idle" \/ r.pc = "issuing"
      BY <1>e, <2>3 DEF LogsIn
    <3>. QED BY <1>1, <2>1, <2>3, <3>1 DEF Applied
  <2>. QED BY <1>4, <2>2, <2>3 DEF Logging
<1>5. ASSUME NEW t \in Thread, SaveChecks(t) PROVE AckedOK'
  <2>1. UNCHANGED <<mem, file, acked, crossed>> /\ req[t].pc = "saving"
    BY <1>5 DEF SaveChecks, memory, disk
  <2>2. CASE Answer(t)
    BY <1>1, <1>e, <2>1, <2>2 DEF Applied
  <2>3. ASSUME NEW r, r.pc = "writing", r.op = req[t].op, r.tv = req[t].tv, req' = [req EXCEPT ![t] = r]
        PROVE  AckedOK'
    BY <1>1, <2>1, <2>3 DEF Applied
  <2>. QED BY <1>5, <2>2, <2>3, Stages
<1>6. ASSUME NEW t \in Thread, SaveFails(t) PROVE AckedOK'
  <2>1. UNCHANGED <<mem, file, acked, crossed>> /\ Answer(t)
    BY <1>6 DEF SaveFails, memory, disk
  <2>. QED BY <1>1, <1>e, <2>1 DEF Applied
\* Nobody else stamps; where somebody reloads, the user crosses.
<1>7. ASSUME NEW t \in Thread, SaveWrites(t) PROVE AckedOK'
  <2>1. /\ UNCHANGED <<mem, acked>> /\ req[t].pc = "writing" /\ file'.data = mem /\ crossed \subseteq crossed'
        /\ \A x, u : x \in Thread /\ req[x].pc = "reloading" /\ u \in User /\ ChangesTokens(t, u) => u \in crossed'
    BY <1>7 DEF SaveWrites, memory
  <2>2. PICK r : r.pc = "stamping" /\ r.op = req[t].op /\ r.tv = req[t].tv /\ req' = [req EXCEPT ![t] = r]
    BY <1>7, Stages
  <2>3. \A x \in Thread : req'[x] = IF x = t THEN r ELSE req[x]
    BY <1>d, <2>2
  <2>4. \A x \in Thread : Pending(req'[x], crossed') => Promised(req'[x].op, req'[x].tv, mem')
    BY <1>b, <2>1, <2>2, <2>3 DEF Pending, Applied
  <2>5. /\ Fits(acked', crossed', mem') /\ Fits(acked', crossed', file'.data)
        /\ \A x \in Thread : req'[x].pc = "reloading" => Fits(acked', crossed', req'[x].op.data)
    BY <1>b, <1>f, <2>1, <2>2, <2>3
  <2>6. \A y \in Thread : req'[y].pc = "stamping" => y = t
    BY <2>1, <2>3 DEF MatchOK
  <2>7. ASSUME NEW x \in Thread, req'[x].pc = "reloading", Pending(req'[t], crossed')
        PROVE  FALSE
    <3>1. req[x].pc = "reloading"
      BY <2>2, <2>3, <2>7
    <3>2. OpOK(req[t].op)
      BY <2>1, Stages DEF Changes
    <3>3. /\ req[t].op.call \in {"Bump", "AddToken", "RevokeToken"} /\ req[t].op.user \notin crossed'
          /\ req[t].op.user \in User
      BY <2>2, <2>3, <2>7, <3>2 DEF Pending, OpOK
    <3>. QED BY <2>1, <3>1, <3>3 DEF ChangesTokens
  <2>. QED BY <1>b, <1>c, <2>1, <2>4, <2>5, <2>6, <2>7
<1>8. ASSUME NEW t \in Thread, SaveStamps(t) PROVE AckedOK'
  <2>1. /\ UNCHANGED <<mem, file, crossed>> /\ req[t].pc = "stamping"
        /\ \A x \in Thread : req'[x] = IF x = t THEN Idle ELSE req[x]
    BY <1>8, <1>d, <1>e DEF SaveStamps, disk
  <2>2. \A x \in Thread : Pending(req'[x], crossed') => Promised(req'[x].op, req'[x].tv, mem')
    BY <1>b, <1>e, <2>1 DEF Pending, Applied
  <2>3. \A y \in Thread : req'[y].pc = "stamping" => y # t /\ req'[y] = req[y]
    BY <1>e, <2>1
  <2>4. \A x \in Thread : req'[x].pc = "reloading" => req'[x] = req[x]
    BY <1>e, <2>1
  <2>5. CASE acked' = acked
    BY <1>b, <1>c, <2>1, <2>2, <2>3, <2>4, <2>5
  <2>6. CASE acked' # acked
    <3>1. PICK op, tv : op = req[t].op /\ tv = req[t].tv
      OBVIOUS
    <3>2. OpOK(op) /\ tv \in Nat
      BY <2>1, <3>1, Stages DEF Changes
    <3>3. /\ op.call = "Bump" \/ op.call = "AddToken" \/ op.call = "RevokeToken"
          /\ acked' = Acknowledge(op, tv) /\ op.user \in DOMAIN mem.users
      BY <1>8, <2>6, <3>1 DEF SaveStamps, ChangesTokens
    <3>4. /\ op.user \in User
          /\ \A u \in User : u # op.user => acked'[u] = acked[u]
      BY <1>a, <3>2, <3>3, AckAdds
    <3>5. /\ acked'[op.user].tv = acked[op.user].tv \/ (op.call = "Bump" /\ acked'[op.user].tv = tv)
          /\ \A j \in acked'[op.user].valid : j \in acked[op.user].valid \/ (op.call = "AddToken" /\ j = op.jti)
          /\ \A j \in acked'[op.user].revoked : j \in acked[op.user].revoked \/ (op.call = "RevokeToken" /\ j = op.jti)
      BY <1>a, <3>2, <3>3, AckAdds
    <3>6. ASSUME NEW s, StoreOK(s), Fits(acked, crossed, s),
                 op.user \notin crossed /\ op.user \in DOMAIN s.users => Promised(op, tv, s)
          PROVE  Fits(acked', crossed', s)
      <4>. SUFFICES ASSUME NEW u \in DOMAIN s.users \ crossed PROVE FitsRecord(acked'[u], s.users[u])
        BY <2>1 DEF Fits
      <4>1. FitsRecord(acked[u], s.users[u]) /\ u \in User
        BY <3>6 DEF Fits, StoreOK, Partial
      <4>2. CASE u = op.user
        BY <3>3, <3>5, <3>6, <4>1, <4>2 DEF FitsRecord, Promised
      <4>3. CASE u # op.user
        BY <3>4, <4>1, <4>3
      <4>. QED BY <4>2, <4>3
    <3>7. op.user \notin crossed => Pending(req[t], crossed) /\ Promised(op, tv, mem)
      BY <1>b, <2>1, <3>1, <3>3 DEF Pending, Applied
    <3>8. Fits(acked', crossed', mem') /\ Fits(acked', crossed', file'.data)
      BY <1>a, <1>b, <2>1, <3>6, <3>7
    <3>9. ASSUME NEW x \in Thread, req'[x].pc = "reloading" PROVE Fits(acked', crossed', req'[x].op.data)
      <4>1. PICK s : s = req[x].op.data
        OBVIOUS
      <4>2. req[x].pc = "reloading" /\ req'[x].op.data = s
        BY <2>4, <3>9, <4>1
      <4>3. op.user \notin crossed /\ op.user \in DOMAIN s.users => Promised(op, tv, s)
        BY <1>b, <2>1, <3>1, <3>7, <4>1, <4>2
      <4>. QED BY <1>a, <1>b, <3>6, <4>1, <4>2, <4>3
    <3>10. \A u \in User : u \notin DOMAIN mem'.users => acked'[u] = NoAck
      BY <1>b, <2>1, <3>3, <3>4
    <3>. QED BY <1>b, <1>c, <2>1, <2>2, <2>3, <2>4, <3>8, <3>9, <3>10
  <2>. QED BY <2>5, <2>6
<1>9. ASSUME NEW t \in Thread, Apply(t) PROVE AckedOK'
  <2>1. UNCHANGED file /\ req[t].pc = "called" /\ Unlocked
    BY <1>9 DEF Apply, disk
  <2>2. CASE Refused(req[t].op)
    <3>1. Answer(t) /\ mem' = mem /\ acked' = acked /\ crossed' = crossed
      BY <1>9, <2>2 DEF Apply
    <3>. QED BY <1>1, <1>e, <2>1, <3>1 DEF Applied
  <2>3. CASE ~Refused(req[t].op)
    <3>1. PICK op : op = req[t].op
      OBVIOUS
    <3>2. OpOK(op) /\ mem' = Effect(op) /\ acked' = Remember(acked, mem')
      BY <1>9, <2>1, <2>3, <3>1, Stages DEF Changes
    <3>3. EffectOn(op, mem') /\ StoreOK(mem')
      BY <1>a, <2>3, <3>1, <3>2, EffectOfUsers, EffectType
    <3>4. PICK r : /\ r.pc = "saving" /\ r.op = op
                   /\ r.tv = IF op.call = "Bump" THEN mem'.users[op.user].tv ELSE 0
                   /\ req' = [req EXCEPT ![t] = r]
      BY <1>9, <2>3, <3>1, Stages
    <3>5. \A x \in Thread : req'[x] = IF x = t THEN r ELSE req[x]
      BY <1>d, <3>4
    <3>6. op.call = "AddToken" => Unheard(op.jti)
      BY <2>1, <3>1 DEF JtisOK, Adding
    <3>7. /\ crossed \subseteq crossed'
          /\ op.call = "DeleteUser" => \A u \in User : op.user = u /\ Unsaved(u) => u \in crossed'
      BY <1>9, <2>3, <3>1 DEF Apply
    <3>8. ASSUME NEW x \in Thread, Pending(req'[x], crossed')
          PROVE  Promised(req'[x].op, req'[x].tv, mem')
      <4>1. CASE x = t
        BY <3>3, <3>4, <3>5, <4>1 DEF EffectOn, Promises
      <4>2. CASE x # t
        <5>1. PICK o, tv : o = req[x].op /\ tv = req[x].tv
          OBVIOUS
        <5>2. req'[x] = req[x] /\ req[x].pc = "saving"
          BY <2>1, <3>5, <3>8, <4>2 DEF Pending, Applied, Unlocked
        <5>9. Pending(req[x], crossed') /\ Pending(req[x], crossed) /\ OpOK(o) /\ tv \in Nat
          BY <1>f, <3>7, <3>8, <5>1, <5>2, Stages DEF Changes
        <5>10. ChangesTokens(x, o.user) /\ o.user \in User /\ o.user \notin crossed'
          BY <5>1, <5>2, <5>9 DEF Pending, ChangesTokens, OpOK
        <5>3. ~(op.call = "DeleteUser" /\ op.user = o.user) /\ Promised(o, tv, mem)
          BY <1>b, <3>7, <5>1, <5>2, <5>9, <5>10 DEF Unsaved
        <5>4. o.user \in DOMAIN mem.users =>
                o.user \in DOMAIN mem'.users /\ Keeps(op, mem.users[o.user], mem'.users[o.user])
          BY <3>3, <5>3 DEF EffectOn
        <5>5. op.call = "AddToken" /\ o.call = "RevokeToken" => op.jti # o.jti
          BY <3>6, <5>1, <5>2 DEF Unheard, Quiet, Applied
        <5>6. o.call = "Bump" => o.user \in DOMAIN mem'.users /\ tv <= mem'.users[o.user].tv
          <6>1. StoreOK(mem') => \A u \in DOMAIN mem'.users : mem'.users[u].tv \in Nat
            BY DEF StoreOK, Partial, UserRecord
          <6>. QED BY <1>a, <3>3, <5>3, <5>4, <5>9, <6>1 DEF Promised, Keeps, UserRecord
        <5>7. o.call = "AddToken" => /\ o.user \in DOMAIN mem'.users
                                     /\ o.jti \in mem'.users[o.user].valid \cup mem'.users[o.user].revoked
          BY <5>3, <5>4 DEF Promised, Keeps
        <5>8. o.call = "RevokeToken" => /\ o.user \in DOMAIN mem'.users
                                        /\ o.jti \in mem'.users[o.user].revoked
                                        /\ o.jti \notin mem'.users[o.user].valid
          BY <5>3, <5>4, <5>5 DEF Promised, Keeps
        <5>. QED BY <5>1, <5>2, <5>6, <5>7, <5>8 DEF Promised
      <4>. QED BY <4>1, <4>2
    <3>9. Fits(acked', crossed', mem')
      <4>1. \A u \in DOMAIN mem'.users \ crossed' : acked[u] = NoAck \/ FitsRecord(acked[u], mem'.users[u])
        <5>. SUFFICES ASSUME NEW u \in DOMAIN mem'.users, u \notin crossed', acked[u] # NoAck
             PROVE FitsRecord(acked[u], mem'.users[u])
          OBVIOUS
        <5>1. u \in User /\ mem'.users[u].tv \in Nat
          BY <3>3 DEF StoreOK, Partial, UserRecord
        <5>2. u \in DOMAIN mem.users
          BY <1>b, <5>1
        <5>3. FitsRecord(acked[u], mem.users[u]) /\ Keeps(op, mem.users[u], mem'.users[u])
          BY <1>b, <3>3, <3>7, <5>2 DEF Fits, EffectOn
        <5>4. op.call = "AddToken" => op.jti \notin acked[u].revoked
          BY <3>6, <5>1 DEF Unheard
        <5>5. acked[u].tv <= mem'.users[u].tv
          BY <1>a, <5>1, <5>2, <5>3 DEF FitsRecord, Keeps, UserRecord, Ack
        <5>6. \A j \in acked[u].revoked : j \notin mem'.users[u].valid
          BY <5>3, <5>4 DEF FitsRecord, Keeps
        <5>7. acked[u].valid \subseteq mem'.users[u].valid \cup mem'.users[u].revoked
          BY <5>3 DEF FitsRecord, Keeps
        <5>. QED BY <5>5, <5>6, <5>7 DEF FitsRecord
      <4>. QED BY <1>a, <3>2, <3>3, <4>1, FitsRemembered
    <3>10. \A u \in User : u \notin DOMAIN mem'.users => acked'[u] = NoAck
      BY <3>2 DEF Remember
    <3>11. /\ Fits(acked', crossed', file'.data)
           /\ \A x \in Thread : req'[x].pc = "reloading" => Fits(acked', crossed', req'[x].op.data)
      BY <1>a, <1>b, <1>f, <2>1, <3>2, <3>4, <3>5, <3>7
    <3>12. \A y \in Thread : req'[y].pc # "stamping"
      BY <2>1, <3>4, <3>5 DEF Unlocked
    <3>. QED BY <1>c, <3>8, <3>9, <3>10, <3>11, <3>12
  <2>. QED BY <2>2, <2>3
<1>10. ASSUME NEW t \in Thread, ReloadSets(t) PROVE AckedOK'
  <2>1. /\ UNCHANGED file /\ req[t].pc = "reloading" /\ Unlocked
        /\ mem' = req[t].op.data /\ acked' = Remember(acked, mem')
        /\ crossed \subseteq crossed' /\ \A u \in User : Unsaved(u) => u \in crossed'
        /\ \A x \in Thread : req'[x] = IF x = t THEN Idle ELSE req[x]
    BY <1>10, <1>d, <1>e DEF ReloadSets, disk
  <2>2. ASSUME NEW x \in Thread, Pending(req'[x], crossed') PROVE FALSE
    <3>1. req'[x] = req[x] /\ req[x].pc = "saving"
      BY <1>e, <2>1, <2>2 DEF Pending, Applied, Unlocked
    <3>2. OpOK(req[x].op)
      BY <3>1, Stages DEF Changes
    <3>3. ChangesTokens(x, req[x].op.user) /\ req[x].op.user \in User /\ req[x].op.user \notin crossed'
      BY <2>2, <3>1, <3>2 DEF Pending, ChangesTokens, OpOK
    <3>. QED BY <2>1, <3>1, <3>3 DEF Unsaved
  <2>3. Fits(acked', crossed', mem') /\ Fits(acked', crossed', file'.data)
    BY <1>a, <1>b, <1>f, <2>1
  <2>4. \A x \in Thread : req'[x].pc = "reloading" => Fits(acked', crossed', req'[x].op.data)
    BY <1>a, <1>b, <1>e, <1>f, <2>1
  <2>5. \A u \in User : u \notin DOMAIN mem'.users => acked'[u] = NoAck
    BY <2>1 DEF Remember
  <2>6. \A y \in Thread : req'[y].pc # "stamping"
    BY <1>e, <2>1 DEF Unlocked
  <2>. QED BY <1>c, <2>2, <2>3, <2>4, <2>5, <2>6
<1>11. ASSUME Restart PROVE AckedOK'
  <2>1. /\ mem' = SeedRoles(file.data) /\ acked' = Remember(acked, mem') /\ crossed' = crossed
        /\ \A t \in Thread : req'[t] = Idle
        /\ file' = file \/ file' = [file EXCEPT !.v = clock + 1, !.data = SeedRoles(file.data)]
    BY <1>11 DEF Restart, disk
  <2>2. SeedRoles(file.data).users = file.data.users
    BY <1>a DEF SeedRoles, StoreOK
  <2>3. file'.data = file.data \/ file'.data = SeedRoles(file.data)
    BY <1>a, <2>1
  <2>4. Fits(acked', crossed', file.data)
    BY <1>a, <1>b, <1>f, <2>1
  <2>5. Fits(acked', crossed', mem') /\ Fits(acked', crossed', file'.data)
    BY <2>1, <2>2, <2>3, <2>4 DEF Fits
  <2>6. \A u \in User : u \notin DOMAIN mem'.users => acked'[u] = NoAck
    BY <2>1 DEF Remember
  <2>. QED BY <1>c, <1>e, <2>1, <2>5, <2>6 DEF Pending, Applied
<1>12. ASSUME Edit PROVE AckedOK'
  <2>1. UNCHANGED <<mem, acked, req, crossed>> /\ file'.data = file.data
    BY <1>12, <1>a DEF Edit, memory
  <2>. QED BY <1>b, <1>c, <2>1
<1>13. ASSUME Remove PROVE AckedOK'
  <2>1. UNCHANGED <<mem, acked, req, crossed>> /\ file'.data = EmptyStore
    BY <1>13 DEF Remove, memory
  <2>2. DOMAIN file'.data.users = {}
    BY <2>1 DEF EmptyStore
  <2>3. Fits(acked', crossed', file'.data)
    BY <2>2 DEF Fits
  <2>. QED BY <1>b, <1>c, <2>1, <2>2, <2>3
<1>14. ASSUME UNCHANGED vars PROVE AckedOK'
  <2>1. UNCHANGED <<mem, acked, req, crossed, file>>
    BY <1>14 DEF vars, memory, disk, ghosts
  <2>. QED BY <1>b, <1>c, <2>1
<1>. QED
  BY <1>2, <1>3, <1>4, <1>5, <1>6, <1>7, <1>8, <1>9, <1>10, <1>11, <1>12, <1>13, <1>14, Moves

LEMMA AckedInit == Init => JtisOK /\ AckedOK
<1>. SUFFICES ASSUME Init PROVE JtisOK /\ AckedOK
  OBVIOUS
<1>1. /\ mem \in InitialStores /\ file.data = mem /\ file.v = 1 /\ started = 0
      /\ \A t \in Thread : req[t].pc = "idle"
      /\ \A u \in User : acked[u] = NoAck
  BY DEF Init, Idle
<1>2. /\ StoreOK(mem)
      /\ \A u \in DOMAIN mem.users : mem.users[u].valid \cup mem.users[u].revoked \subseteq {0}
  BY <1>1, SessionsAssumption DEF SessionsAssumption
<1>3. \A u \in DOMAIN mem.users : u \in User /\ mem.users[u] \in UserRecord
  BY <1>2 DEF StoreOK, Partial
<1>4. \A rec \in UserRecord : FitsRecord(NoAck, rec)
  BY DEF FitsRecord, NoAck, UserRecord
<1>5. Fits(acked, crossed, mem) /\ Fits(acked, crossed, file.data)
  BY <1>1, <1>3, <1>4 DEF Fits
<1>6. AckedOK
  BY <1>1, <1>5 DEF AckedOK, Applied, Pending
<1>7. ASSUME NEW j \in Nat, j > started
      PROVE  Unheard(j)
  <2>1. ~Holds(mem, j) /\ ~Holds(file.data, j)
    BY <1>1, <1>2, <1>7 DEF Holds
  <2>2. \A u \in User : j \notin acked[u].revoked
    BY <1>1 DEF NoAck
  <2>3. \A t \in Thread : Quiet(req[t], j)
    BY <1>1 DEF Quiet, Applied
  <2>. QED BY <2>1, <2>2, <2>3 DEF Unheard
<1>8. \A t \in Thread : ~Adding(t)
  BY <1>1 DEF Adding
<1>. QED
  BY <1>6, <1>7, <1>8 DEF JtisOK

\* A token of an older version than the one a revocation announced is refused,
\* and so is an API token whose revocation was answered; one that was shown and
\* not revoked stays registered (api/router.go requireWith, acl/store.go
\* BumpTokenVersion, RevokeToken, AddToken): through Saves that fail, manual
\* edits and restarts, and through Reloads except for the users a change of whose
\* tokens was saved while a Reload stood between its read and its critical
\* section, or was not saved yet when a Reload replaced the store or DeleteUser
\* dropped the account.
THEOREM RevocationsHold == Spec => []RevokedStayOut
<1>1. TypeOK /\ MatchOK /\ JtisOK /\ AckedOK /\ [Next]_vars => JtisOK' /\ AckedOK'
  BY JtisStep, AckedStep
<1>2. TypeOK /\ AckedOK => RevokedStayOut
  <2>. SUFFICES ASSUME TypeOK, AckedOK PROVE RevokedStayOut
    OBVIOUS
  <2>1. \A u \in DOMAIN mem.users \ crossed : FitsRecord(acked[u], mem.users[u])
    BY DEF AckedOK, Fits
  <2>2. \A u \in DOMAIN mem.users : u \in User /\ mem.users[u].tv \in Nat
    BY DEF TypeOK, StoreOK, Partial, UserRecord
  <2>3. \A u \in User : acked[u].tv \in Nat /\ acked[u].revoked \subseteq Jti
    BY DEF TypeOK
  <2>4. ASSUME NEW c \in issued, Outdated(c), c.user \notin crossed
        PROVE  ~Accepted(c)
    <3>1. c.user \in User /\ c.tv \in Nat /\ c.user \in DOMAIN mem.users
      BY <2>4 DEF TypeOK, Claims, Outdated
    <3>2. FitsRecord(acked[c.user], mem.users[c.user])
      BY <2>1, <2>4, <3>1
    <3>3. CASE c.tv < acked[c.user].tv
      <4>1. c.tv # mem.users[c.user].tv
        BY <2>2, <2>3, <3>1, <3>2, <3>3 DEF FitsRecord
      <4>. QED BY <3>1, <4>1 DEF Accepted
    <3>4. CASE c.jti \in acked[c.user].revoked
      <4>1. c.jti # Nothing
        BY <2>3, <3>1, <3>4, SessionsAssumption DEF SessionsAssumption
      <4>2. ~TokenValid(mem, c.user, c.jti)
        BY <3>2, <3>4 DEF FitsRecord, TokenValid
      <4>. QED BY <3>1, <4>1, <4>2 DEF Accepted
    <3>. QED BY <2>4, <3>3, <3>4 DEF Outdated
  <2>5. \A u \in DOMAIN mem.users \ crossed : acked[u].valid \subseteq mem.users[u].valid \cup mem.users[u].revoked
    BY <2>1 DEF FitsRecord
  <2>. QED BY <2>4, <2>5 DEF RevokedStayOut
<1>. QED
  BY <1>1, <1>2, AckedInit, TypeInvariant, MatchInvariant, PTL DEF Spec
=============================================================================
