---------------------------- MODULE MCHeatSave ----------------------------
(* Two iterations swap the buffers both ways; the third start reads what the
   second, itself resumed, left. *)
EXTENDS HeatSave
============================================================================
