------------------------------ MODULE MCDaemon ------------------------------
(* Instances of Daemon for TLC. *)
EXTENDS Daemon

CONSTANTS c1, c2, c3

AllKinds == {"start", "stop", "restart", "status", "run"}
StartAndRun == {"start", "run"}
StartAndStop == {"start", "stop"}

=============================================================================
