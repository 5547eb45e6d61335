---------------------------- MODULE MC_ResetSync ----------------------------
(* Three reset endpoints instead of thirteen: enough for a lost answer at *)
(* one, a reset answered 204 and followed by the GET of the same          *)
(* endpoint, and a POST endpoint after them.                              *)
EXTENDS ResetSync

CONSTANTS e1, e2, e3
MCResetEndpoints == <<e1, e2, e3>>
=============================================================================
