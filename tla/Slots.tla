-------------------------------- MODULE Slots --------------------------------
(***************************************************************************)
(* What a Semaphore (wisp/limits.go) promises its users: each asks for one *)
(* of Limit slots and is told at once, truthfully, whether there is one; a *)
(* slot is given back by whoever has it.  Admission, where the slots are a *)
(* counter moved by compare-and-swap, is shown to implement this twice.    *)
(***************************************************************************)
EXTENDS Integers, FiniteSets

CONSTANTS Users, Limit

VARIABLE state           \* "out", "asking" or "in", for each user

Inside == {u \in Users : state[u] = "in"}

Init == state = [u \in Users |-> "out"]

Move(u, from, to) ==
  /\ state[u] = from
  /\ state' = [state EXCEPT ![u] = to]

Ask(u) == Move(u, "out", "asking")

Grant(u) == Cardinality(Inside) < Limit /\ Move(u, "asking", "in")

Refuse(u) == Cardinality(Inside) = Limit /\ Move(u, "asking", "out")

Leave(u) == Move(u, "in", "out")

Next == \E u \in Users : Ask(u) \/ Grant(u) \/ Refuse(u) \/ Leave(u)

Spec == Init /\ [][Next]_state
==============================================================================
