----------------------------- MODULE MCSessions -----------------------------
(* Instances of SessionsInSeries for TLC.                                  *)
EXTENDS SessionsInSeries

CONSTANTS r1, r2
=============================================================================
