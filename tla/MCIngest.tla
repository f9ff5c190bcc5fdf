------------------------------ MODULE MCIngest ------------------------------
(* One live, two client ids, two API processes.                              *)
EXTENDS Ingest, TLC

Symmetry == Permutations(Handlers) \cup Permutations(Sessions)
=============================================================================
