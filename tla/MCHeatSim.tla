----------------------------- MODULE MCHeatSim -----------------------------
(* Three threads with two rows each, so that a thread has a row next to
   others' and a thread may be late or early at either wait while the other
   two move; up to four iterations swap the buffers both ways twice, and a
   limit stops them after an odd or an even number of swaps, or never. *)
EXTENDS HeatSim
============================================================================
