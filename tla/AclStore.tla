------------------------------ MODULE AclStore ------------------------------
(***************************************************************************)
(* What users.yaml holds and what packages/acl/store.go makes of it: the   *)
(* setters of Store as functions from a store to a store, the access rules *)
(* and, from packages/auth and packages/api, what a role is worth.  When   *)
(* the setters run and what is saved when is Sessions' part.               *)
(***************************************************************************)
EXTENDS Naturals, Sequences, FiniteSets, FiniteSetsExt, Functions

CONSTANTS
  User, Group, Path, Jti,
  CustomRole,        \* names an administrator may give a role
  SvcId, Provider,   \* service tokens, login providers
  RuleList,          \* the lists PutACL may be given, all of them valid
  StaticRole         \* StaticRole[u]: the accounts of config.yaml

BuiltIn == {"admin", "editor", "viewer"}
Role == BuiltIn \cup CustomRole

AllPermissions == {"notes:read", "notes:edit", "notes:delete", "history:read",
                   "files:upload", "settings:write", "trash:read", "trash:purge"}

ServiceTokenPermissions == {"users:provision", "session:code", "login-providers:write"}

\* rolePermissions: what a built-in role is worth; any other name, nothing.
BuiltInPermissions(role) ==
  CASE role = "admin"  -> AllPermissions
    [] role = "editor" -> AllPermissions \ {"settings:write", "trash:purge"}
    [] role = "viewer" -> {"notes:read"}
    [] OTHER           -> {}

None == 0    Read == 1    Write == 2

\* A grant names a user or a group; a rule's glob is the set of paths it
\* matches, and of an owner rule, whose folder each of them lies in.
UserRecord == [role: Role, groups: SUBSET Group, secret: BOOLEAN, tv: Nat,
               valid: SUBSET Jti, revoked: SUBSET Jti]
ServiceToken == [perms: SUBSET ServiceTokenPermissions, ceiling: Role, revoked: BOOLEAN]

\* validateRules: a list of rules, each with a default and with grants that
\* allow something.
RulesOK(rules) ==
  /\ rules = [i \in 1..Len(rules) |-> rules[i]]
  /\ \A i \in DOMAIN rules : /\ rules[i].default \in {None, Read, Write}
                            /\ \A g \in rules[i].allow : g.access \in {Read, Write}

Partial(f, S, T) == DOMAIN f \subseteq S /\ f \in [DOMAIN f -> T]

StoreOK(s) ==
  /\ DOMAIN s = {"users", "groups", "roles", "rules", "svc", "providers"}
  /\ Partial(s.users, User, UserRecord) /\ s.groups \subseteq Group
  /\ Partial(s.roles, Role, SUBSET AllPermissions) /\ s.rules \in RuleList
  /\ Partial(s.svc, SvcId, ServiceToken) /\ s.providers \subseteq Provider

Put(f, x, v) == [y \in DOMAIN f \cup {x} |-> IF y = x THEN v ELSE f[y]]
Drop(f, x) == Restrict(f, DOMAIN f \ {x})

-----------------------------------------------------------------------------
(* Who may do what                                                         *)

Owns(rule, u, p) == rule.owner[p] = u

Granted(s, rule, u) ==
  {g.access : g \in {h \in rule.allow :
     h.who = u \/ (u \in DOMAIN s.users /\ h.who \in s.users[u].groups)}}

\* The first rule that matches decides; a path none matches is unrestricted.
Access(s, u, p) ==
  LET hits == {i \in DOMAIN s.rules : p \in s.rules[i].paths}
      rule == s.rules[Min(hits)]
  IN CASE hits = {}              -> Write
       [] hits # {} /\ rule.special -> IF Owns(rule, u, p) THEN Write ELSE None
       [] OTHER                  -> Max({rule.default} \cup Granted(s, rule, u))

\* permissionsFor with the store as resolver: an unknown role is looked up
\* among the built-in ones.
PermissionsFor(s, role) ==
  IF role \in DOMAIN s.roles THEN s.roles[role] ELSE BuiltInPermissions(role)

\* Claims.HasPermission: no embedded list means the built-in role map.
HasPermission(claims, perm) ==
  \/ claims.role = "admin"
  \/ perm \in IF claims.perms = {} THEN BuiltInPermissions(claims.role) ELSE claims.perms

RoleKnown(s, role) == role \in DOMAIN s.roles \/ role \in BuiltIn

\* A slip: only the built-in roles are looked at.
RoleAccessCeilingBuiltIn(s, role) ==
  LET perms == BuiltInPermissions(role)
  IN CASE role = "admin" \/ "notes:edit" \in perms -> Write
       [] role # "admin" /\ perms \cap {"notes:read", "notes:edit"} = {"notes:read"} -> Read
       [] OTHER -> None

\* The highest folder access a role could ever have.
RoleAccessCeiling(s, role) ==
  LET perms == PermissionsFor(s, role)
  IN CASE role = "admin" \/ "notes:edit" \in perms -> Write
       [] role # "admin" /\ perms \cap {"notes:read", "notes:edit"} = {"notes:read"} -> Read
       [] OTHER -> None

\* May a token capped at ceiling assign the role.
RoleWithinCeiling(s, role, ceiling) ==
  \/ role = ceiling
  \/ role # "admin" /\ (ceiling = "admin" \/ PermissionsFor(s, role) \subseteq PermissionsFor(s, ceiling))

UserRole(s, u) ==
  CASE u \in DOMAIN s.users -> s.users[u].role
    [] u \notin DOMAIN s.users /\ u \in DOMAIN StaticRole -> StaticRole[u]
    [] OTHER -> "viewer"

\* What handleAccess and handleAdminCheck report.
Reported(s, u, p) == Min({Access(s, u, p), RoleAccessCeiling(s, UserRole(s, u))})

\* TokenValid; tokens that expire are no longer presented.
TokenValid(s, u, jti) == u \in DOMAIN s.users /\ jti \in s.users[u].valid

-----------------------------------------------------------------------------
(* The setters: what each does to the store in memory before it saves      *)

\* A slip: the record replaces the stored one as it is.
UpsertUserWhole(s, u, rec) == [s EXCEPT !.users = Put(@, u, rec)]

\* Secrets, the token version and the tokens are the stored ones.
UpsertUser(s, u, rec) ==
  LET old == s.users[u]
      new == IF u \in DOMAIN s.users
             THEN [rec EXCEPT !.secret = @ \/ old.secret, !.tv = old.tv,
                              !.valid = old.valid, !.revoked = old.revoked]
             ELSE rec
  IN [s EXCEPT !.users = Put(@, u, new)]

DeleteUser(s, u) == [s EXCEPT !.users = Drop(@, u)]

BumpTokenVersion(s, u) == [s EXCEPT !.users[u].tv = @ + 1]

AddToken(s, u, jti) == [s EXCEPT !.users[u].valid = @ \cup {jti}]

RevokeToken(s, u, jti) ==
  [s EXCEPT !.users[u].valid = @ \ {jti}, !.users[u].revoked = @ \cup {jti}]

SetRules(s, rules) == [s EXCEPT !.rules = rules]

AddGroup(s, g) == [s EXCEPT !.groups = @ \cup {g}]

\* Grants that name the group stay.
DeleteGroup(s, g) ==
  [s EXCEPT !.groups = @ \ {g},
            !.users = [u \in DOMAIN @ |-> [s.users[u] EXCEPT !.groups = @ \ {g}]]]

\* An existing admin role keeps its permissions.
UpsertRole(s, role, perms) ==
  IF role = "admin" /\ role \in DOMAIN s.roles THEN s
  ELSE [s EXCEPT !.roles = Put(@, role, perms)]

\* Whoever had the role becomes a viewer.
DeleteRole(s, role) ==
  [s EXCEPT !.roles = Drop(@, role),
            !.users = [u \in DOMAIN @ |->
                         IF @[u].role = role THEN [@[u] EXCEPT !.role = "viewer"] ELSE @[u]]]

\* DefaultRoles fill in what is missing.
SeedRoles(s) ==
  [s EXCEPT !.roles = [r \in DOMAIN @ \cup BuiltIn |->
                         IF r \in DOMAIN @ THEN @[r] ELSE BuiltInPermissions(r)]]

AddServiceToken(s, id, tok) == [s EXCEPT !.svc = Put(@, id, tok)]

RevokeServiceToken(s, id) == [s EXCEPT !.svc[id].revoked = TRUE]

SetLoginProviders(s, list) == [s EXCEPT !.providers = list]

UpsertLoginProvider(s, p) == [s EXCEPT !.providers = @ \cup {p}]

EmptyStore ==
  [users |-> << >>, groups |-> {}, roles |-> << >>, rules |-> << >>,
   svc |-> << >>, providers |-> {}]
=============================================================================
