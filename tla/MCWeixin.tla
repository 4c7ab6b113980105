------------------------------ MODULE MCWeixin ------------------------------
(* An instance of Weixin for TLC. *)
EXTENDS Weixin, TLC

Said(from, type, text) ==
  [from |-> from, bot |-> FALSE, items |-> <<[type |-> type, text |-> text]>>]

\* Two users write and speak; an image, a blank text and the bot's own reply come
\* in between.
MCUpdates ==
  << Said("ann", "text", "word"),
     [Said("bot", "text", "word") EXCEPT !.bot = TRUE],
     Said("ben", "voice", "word"),
     Said("ann", "image", "absent") >>

=============================================================================
