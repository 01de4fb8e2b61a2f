-------------------------- MODULE MCBrowserAdapter --------------------------
(* Instances of BrowserAdapter for model checking.  Jobs, screen keys and     *)
(* profiles are only compared for equality, so they may be permuted; where    *)
(* only one profile may crash, the profiles are not alike.                    *)
EXTENDS BrowserAdapter, TLC
JobSymmetry == Permutations(Jobs)
KeyedSymmetry == Permutations(Jobs) \cup Permutations(Keys)
=============================================================================
