--------------------------- MODULE MCHealthMonitor ---------------------------
(* The deployed threshold and cooldown, and the slowest boot they allow for. *)
EXTENDS HealthMonitor
=============================================================================
