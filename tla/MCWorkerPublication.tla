------------------------- MODULE MCWorkerPublication -------------------------
(* One live of one publisher, whose worker changes generation, in any order. *)
EXTENDS WorkerPublication
=============================================================================
