---------------------------- MODULE MCPushRelay ----------------------------
(***************************************************************************)
(* Finite instances of PushRelay.  Ids, tokens and requests are            *)
(* interchangeable, so the safety runs use symmetry.                       *)
(***************************************************************************)
EXTENDS PushRelay, TLC

Symmetry == Permutations(Device) \cup Permutations(Token)
              \cup Permutations(Subscription) \cup Permutations(Request)
=============================================================================
