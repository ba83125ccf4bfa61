----------------------------- MODULE MCAdmission -----------------------------
(***************************************************************************)
(* TLC instance of Admission: three requests for two slots and three dials *)
(* for two, so that refusals, lost compare-and-swaps and slots given back  *)
(* while others ask all happen.                                            *)
(***************************************************************************)
EXTENDS Admission, TLC

CONSTANTS c1, c2, c3, d1, d2, d3

ConnSet == {c1, c2, c3}
DialSet == {d1, d2, d3}

Symmetry == Permutations(ConnSet) \cup Permutations(DialSet)
==============================================================================
