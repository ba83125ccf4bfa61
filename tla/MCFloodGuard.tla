----------------------------- MODULE MCFloodGuard -----------------------------
(***************************************************************************)
(* TLC instance of FloodGuard: connections of one source to one            *)
(* destination, and the windows in the proportions of a configuration.     *)
(***************************************************************************)
EXTENDS FloodGuard, TLC

CONSTANTS c1, c2, ip, dst

MCConns  == {c1, c2}
MCSource == [c \in MCConns |-> ip]
MCLimit  == [minute |-> 2]
MCLength == [minute |-> 2]

Symmetry == Permutations(MCConns)
===============================================================================
