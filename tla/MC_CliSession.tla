---------------------------- MODULE MC_CliSession ----------------------------
(* Two CLI processes, two nodes, two wallets.                             *)
EXTENDS CliSession

CONSTANTS p1, p2, n1, n2, w1, w2
=============================================================================
