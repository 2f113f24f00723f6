---------------------------- MODULE MCLocalHelper ----------------------------
(* The instance of LocalHelper that TLC checks.                              *)
EXTENDS LocalHelper

CONSTANTS h1, h2, r1, r2, u1, u2

MCHandlers == {h1, h2}
MCRequests == {r1, r2}
MCUpdates == {u1, u2}
=============================================================================
