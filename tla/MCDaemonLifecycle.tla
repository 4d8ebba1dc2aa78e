------------------------- MODULE MCDaemonLifecycle --------------------------
(***************************************************************************)
(* DaemonLifecycle for TLC: two clients of two builds and three daemons.   *)
(***************************************************************************)
EXTENDS DaemonLifecycle, TLC

CONSTANTS d1, d2, d3, old, new   \* the daemons and the clients

BuildOf(c) == IF c = new THEN 2 ELSE 1

=============================================================================
