-------------------------- MODULE MCPostgresFailover --------------------------
(* The deployed thresholds, with few writes and failures.                      *)
EXTENDS PostgresFailover
===============================================================================
