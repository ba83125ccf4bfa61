--------------------------- MODULE MCStreamRegistry ---------------------------
(* Three stream ids, two of which share a cache slot, as ids 32 apart do,    *)
(* and three streams for a limit of two, so that an id is used again and the *)
(* limit is met by the ids there are and while a close is under way.         *)
EXTENDS StreamRegistry

CONSTANTS i1, i2, i3, k1, k2, s1, s2, s3

MCIds == {i1, i2, i3}
MCSlots == {k1, k2}
MCSlotOf == [i \in MCIds |-> IF i = i3 THEN k2 ELSE k1]
MCStreams == {s1, s2, s3}
===============================================================================
