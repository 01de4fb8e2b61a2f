--------------------------- MODULE MCBrowserAlone ---------------------------
(* Instances of BrowserAlone for model checking.  Nothing compares two screen *)
(* keys other than for equality, so they may be permuted.                     *)
EXTENDS BrowserAlone, TLC
KeySymmetry == Permutations(Keys)
=============================================================================
