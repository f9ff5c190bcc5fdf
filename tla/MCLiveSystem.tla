---------------------------- MODULE MCLiveSystem ----------------------------
(* Instances of LiveSystem with one live; the constants of Orchestrator's    *)
(* open environment get the values the closed system can produce.            *)
EXTENDS LiveSystem

\* Versions: created 1, started 2, one report per generation, stopped.
MCEvents == [live : Lives, type : {"started"}, session : {Session}, version : {2}]
            \cup [live : Lives, type : {"stopped"}, session : {Session},
                  version : 3 .. MaxGeneration + 3]
============================================================================
