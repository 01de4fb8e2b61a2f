---------------------------- MODULE MCPushLimits ---------------------------
(***************************************************************************)
(* Finite instances of PushLimits.  Endpoints and handlers are             *)
(* interchangeable, so the safety runs use symmetry.                       *)
(***************************************************************************)
EXTENDS PushLimits, TLC

Symmetry == Permutations(Endpoint) \cup Permutations(Request)
=============================================================================
