------------------------------- MODULE MCWeCom -------------------------------
(* An instance of WeCom for TLC. *)
EXTENDS WeCom, TLC

\* Both limits in use, none of them, and a single attempt.
MCLimits == {[io |-> 1, auth |-> 1], [io |-> -1, auth |-> 0], [io |-> 2, auth |-> -1]}

=============================================================================
