------------------------------- MODULE MCHub -------------------------------
(* An instance of Hub for TLC: two users, one connection each; the second   *)
(* user may not see the second path.                                        *)
EXTENDS Hub, TLC

CONSTANTS c1, c2, u1, u2, p1, p2

TwoUsers == (c1 :> u1) @@ (c2 :> u2)
Sees(u, p) == ~(u = u2 /\ p = p2)
=============================================================================
