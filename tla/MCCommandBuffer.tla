-------------------------- MODULE MCCommandBuffer --------------------------
(* Two workers, a ring of two slots so that it fills and wraps, and three
   requests of one kind: the pipeline treats all the operations alike. *)
EXTENDS CommandBuffer, TLC

CONSTANTS t1, t2, op
MCThreads == {t1, t2}
MCOps == {op}
============================================================================
