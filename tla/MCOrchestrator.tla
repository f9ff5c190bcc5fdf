--------------------------- MODULE MCOrchestrator ---------------------------
(* Two lives in an open environment: events in any order and number, and     *)
(* states of which a restart finds nothing, or both lives.                   *)
EXTENDS Orchestrator

\* Live 1 started at version 2, was reported ready, and stopped at version 4;
\* one event contradicts the stop, and one message is of no known type.  Live 2
\* is known from the load alone.
MCEvents == {[live |-> 1, type |-> "started", version |-> 2],
             [live |-> 1, type |-> "stopped", version |-> 4],
             [live |-> 1, type |-> "started", version |-> 4],
             [live |-> 1, type |-> "paused", version |-> 5]}

\* The first generation of live 1 has been reported, that of live 2 not yet.
MCLoads == {{}, {NewRecord(1, "running", 3, 1), NewRecord(2, "running", 2, 0)}}
=============================================================================
