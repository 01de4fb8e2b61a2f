----------------------------- MODULE ProfileLease -----------------------------
(***************************************************************************)
(* What the App promises about a profile's data: at most one browser holds *)
(* it at a time, numbered by its launch; it is given to another launch     *)
(* only after the holder ended normally; after any other end it is kept,   *)
(* untouched, for as long as the App runs.                                 *)
(***************************************************************************)
EXTENDS Integers

CONSTANT Profiles
VARIABLE lease           \* the launch that holds the profile, Vacant or Kept

Vacant == 0
Kept == 0 - 1

Init == lease = [p \in Profiles |-> Vacant]

Take(p) == /\ lease[p] = Vacant
           /\ lease'[p] \in Nat \ {0}
           /\ \A q \in Profiles : lease[q] < lease'[p]
           /\ lease' = [lease EXCEPT ![p] = lease'[p]]
End(p) == /\ lease[p] > 0
          /\ \E end \in {Vacant, Kept} : lease' = [lease EXCEPT ![p] = end]

Next == \E p \in Profiles : Take(p) \/ End(p)
Spec == Init /\ [][Next]_lease
=============================================================================
