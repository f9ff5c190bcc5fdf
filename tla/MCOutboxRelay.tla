--------------------------- MODULE MCOutboxRelay ---------------------------
(* Two lives that start, one that stops; one relay per API process.         *)
EXTENDS OutboxRelay

MCEvents == {[live |-> 1, type |-> "started", version |-> 2],
             [live |-> 1, type |-> "stopped", version |-> 4],
             [live |-> 2, type |-> "started", version |-> 2]}
============================================================================
