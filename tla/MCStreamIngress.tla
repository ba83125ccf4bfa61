---------------------------- MODULE MCStreamIngress ----------------------------
(***************************************************************************)
(* TLC instance of StreamIngress: the early packets are small, and of the  *)
(* later ones two do not fit into what handleDataPacket keeps.             *)
(***************************************************************************)
EXTENDS StreamIngress

MCSize == [p \in 1..Packets |-> IF p <= 2 THEN 1 ELSE 2]
===============================================================================
