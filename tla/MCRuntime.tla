----------------------------- MODULE MCRuntime -----------------------------
(* Instances of Runtime for TLC. *)
EXTENDS RuntimeDelivery, TLC

CONSTANTS e1, e2, e3, c1

\* A client's message by conversation, as a connector sends it.
ByConv(kind) == [kind |-> kind, session |-> None, conv |-> c1]
\* A message to the session that a given request created.
ToSession(kind, s) == [kind |-> kind, session |-> s, conv |-> None]
NewSession == [kind |-> "create", session |-> None, conv |-> None]
\* A message to a session, that moves a conversation to it.
Rebinding(s) == [kind |-> "chat", session |-> s, conv |-> c1]

\* Concurrent clients: connectors, the web page and the TUI.
MixedWorkload ==
  {ByConv("chat"), NewSession, ToSession("chat", e1),
   Rebinding(e1), ToSession("read", None)}

\* One connector that sends the messages of one conversation.
ConversationWorkload == {ByConv("chat"), ByConv("read")}
ChatWorkload == {ByConv("chat")}

=============================================================================
