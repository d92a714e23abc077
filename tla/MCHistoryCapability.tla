------------------------- MODULE MCHistoryCapability -------------------------
(* Instances of HistoryCapability for TLC. *)
EXTENDS HistoryCapability, TLC

CONSTANTS u1, u2, a1, a2, b1, b2, b3
=============================================================================
