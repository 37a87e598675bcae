------------------------------ MODULE MCBridge ------------------------------
(* The instance of Bridge that BridgeTurns.cfg checks: two calls with the  *)
(* same text, so that the second joins the first, replaces it or follows   *)
(* it, and two connections, so that one is lost while the other is used.   *)
EXTENDS Bridge
=============================================================================
