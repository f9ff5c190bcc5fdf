--------------------------- MODULE MCLiveService ---------------------------
(* A small instance of LiveService: API processes and publishers are        *)
(* interchangeable.                                                         *)
EXTENDS LiveService, TLC

Symmetry == Permutations(Handlers) \cup Permutations(Sessions)
============================================================================
