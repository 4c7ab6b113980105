------------------------------- MODULE MCTui -------------------------------
(* An instance of Tui for TLC: two sessions, two messages. *)
EXTENDS Tui, TLC

CONSTANTS s1, s2, t1, t2, x, y

Turn(text, tool, read) == [text |-> text, tool |-> tool, read |-> read]

\* An answer, and a /read that says the same.
MCKind == [t \in Turns |-> IF t = t1 THEN Turn(x, None, FALSE) ELSE Turn(x, x, TRUE)]

=============================================================================
