----------------------------- MODULE MCSessions -----------------------------
(* Instances of Sessions for TLC: one user of the store beside one of       *)
(* config.yaml, one custom role, and rules of every kind.                   *)
EXTENDS Sessions, TLC

CONSTANTS t1, t2, p1, p2, ann, root, team

Root == root :> "admin"

Mine == [paths |-> {p1}, special |-> TRUE, owner |-> [p \in Path |-> ann],
         default |-> None, allow |-> {}]
Teams == [paths |-> {p1, p2}, special |-> FALSE, owner |-> [p \in Path |-> ann],
          default |-> Read, allow |-> {[who |-> team, access |-> Write]}]

Rules == {<< >>, <<Mine, Teams>>}

\* As after the first start, and with a user who has an API token.
Fresh0 == SeedRoles(EmptyStore)
Member == [role |-> "lead", groups |-> {team}, secret |-> TRUE, tv |-> 1, valid |-> {0}, revoked |-> {}]
Used == [Fresh0 EXCEPT !.users = ann :> Member, !.rules = <<Mine, Teams>>,
                       !.groups = {team}, !.roles = ("lead" :> {"notes:read", "notes:edit"}) @@ @,
                       !.svc = "idp" :> [perms |-> ServiceTokenPermissions, ceiling |-> "lead", revoked |-> FALSE]]
Stores == {Fresh0, Used}
Perms == {{}, {"notes:edit"}}
=============================================================================
