----------------------------- MODULE MCVaultSync -----------------------------
(* Instances of VaultSync for TLC. *)
EXTENDS VaultSync

CONSTANTS u1, n1, n2, c1, c2, w1, piece

OneName == << n1 >>

AsSent(op, u, c) == c
=============================================================================
