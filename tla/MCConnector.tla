---------------------------- MODULE MCConnector ----------------------------
(* Instances of Connector for TLC. *)
EXTENDS Connector, TLC

CONSTANTS e1, e2

=============================================================================
