---------------------------- MODULE MCEventHooks ----------------------------
(* Instances of EventHooks for TLC. *)
EXTENDS EventHooks

CONSTANTS h1, h2, m1
=============================================================================
