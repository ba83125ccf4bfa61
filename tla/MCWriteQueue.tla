---------------------------- MODULE MCWriteQueue ----------------------------
(* Three goroutines hand in three frames, two of which carry pool buffers:  *)
(* enough for a writer with a batch of two and a close at the same time.    *)
(* No symmetry, as the run checks liveness too.                             *)
EXTENDS WriteQueue

CONSTANTS g1, g2, g3, r1, r2, r3

MCGoroutines == {g1, g2, g3}
MCReqs == {r1, r2, r3}
MCPooled == {r1, r2}
=============================================================================
