--------------------------- MODULE MCRuntimeDirs ---------------------------
(* An instance of RuntimeDirs for model checking: two Apps that share a       *)
(* runtime root, each with one name of its own, and a name nobody makes.      *)
EXTENDS RuntimeDirs, TLC
CONSTANTS a1, a2, n0, n1, n2
Owners == n1 :> a1 @@ n2 :> a2 @@ n0 :> Nobody
=============================================================================
