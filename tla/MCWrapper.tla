------------------------------ MODULE MCWrapper ------------------------------
(***************************************************************************)
(* TLC instance of Wrapper: all workers ask for the same port first, as    *)
(* the default configuration has them do, and there are enough of them for *)
(* a second start() after a stop().                                        *)
(***************************************************************************)
EXTENDS Wrapper

CONSTANTS p1, p2, p3

ThreeProcs == {p1, p2, p3}

OnePort == [k \in 0 .. Count - 1 |-> 1]

==============================================================================
