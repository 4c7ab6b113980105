----------------------------- MODULE Connector -----------------------------
(***************************************************************************)
(* How a connector finds the answer to a channel message:                  *)
(* process_inbound_message of goldclaw-connector-wecom, handle_message of  *)
(* goldclaw-connector-weixin, and wait_for_assistant_reply, which both     *)
(* have.  The connector is a process of its own: it talks to the runtime   *)
(* by HTTP (apps/goldclaw/src/gateway_handle.rs) and hears its events over *)
(* an SSE stream that a pump task copies into a channel.                   *)
(*                                                                         *)
(* All messages are of one conversation, so of one session, whose row is   *)
(* stored: a gateway that restarts knows it.  The runtime is what Delivery *)
(* says of it, together with the order in which answers are dated,         *)
(* announced and appended to the session's history.  Left out are a        *)
(* session that a restart forgets, whose history is not found, and a       *)
(* stream that is more than 64 events ahead of its reader: each ends the   *)
(* wait with an error.                                                     *)
(***************************************************************************)
EXTENDS Naturals, Sequences

CONSTANTS
  Messages,  \* messages of one chat
  Serial,    \* TRUE: the next message is taken up after the last (weixin)
  MaxFaults, \* bound on answers that cannot be stored and deaths of the gateway
  None

ASSUME ConnectorAssumption ==
  /\ None \notin Messages
  /\ Serial \in BOOLEAN
  /\ MaxFaults \in Nat

VARIABLES
  state, onRecord, kept,  \* the runtime: see Delivery
  dated,    \* messages whose answer has its created_at
  answers,  \* provider_response messages of the session, in the order of their append
  early,    \* early[e]: answers dated before the accepted_at of e's receipt
  task,     \* where the connector's task for a message is
  stream,   \* the event stream it subscribed to
  inbox,    \* events that reached it
  reply,    \* whose answer it found for its message
  reads,    \* the messages that run_read_tool answers: what users wrote
  before,   \* before[e]: whose turns had ended when e was posted (not in the code)
  late,     \* a turn outlasted its wait (not in the code)
  up, failures, crashes

delivery    == <<state, onRecord, kept>>
runtimeVars == <<delivery, dated, answers, early>>
taskVars    == <<task, stream, inbox, reply>>
procVars    == <<reads, before, late, up, failures, crashes>>
vars == <<runtimeVars, taskVars, procVars>>

D == INSTANCE Delivery WITH Requests <- Messages

Event == [kind : {"other", "completed", "error"}, of : Messages]

TaskPc == {"idle", "submit", "check", "subscribe", "recheck", "wait", "last",
           "send", "replied", "gave_up"}

Busy(e) == task[e] \notin {"idle", "replied", "gave_up"}

TypeOK ==
  /\ state \in [Messages -> D!State]
  /\ onRecord \subseteq Messages
  /\ kept \subseteq Messages
  /\ dated \subseteq Messages
  /\ answers \in Seq(Messages)
  /\ early \in [Messages -> SUBSET Messages]
  /\ task \in [Messages -> TaskPc]
  /\ stream \in [Messages -> {"none", "connecting", "open", "closed"}]
  /\ inbox \in [Messages -> Seq(Event)]
  /\ reply \in [Messages -> Messages \cup {None}]
  /\ \A e \in Messages : task[e] \in {"send", "replied"} => reply[e] # None
  /\ reads \subseteq Messages
  /\ before \in [Messages -> SUBSET Messages]
  /\ late \in BOOLEAN
  /\ up \in BOOLEAN
  /\ failures \in Nat /\ crashes \in Nat
  /\ failures + crashes <= MaxFaults

Init ==
  /\ D!Init
  /\ dated = {}
  /\ answers = <<>>
  /\ early = [e \in Messages |-> {}]
  /\ task = [e \in Messages |-> "idle"]
  /\ stream = [e \in Messages |-> "none"]
  /\ inbox = [e \in Messages |-> <<>>]
  /\ reply = [e \in Messages |-> None]
  /\ reads \in SUBSET Messages
  /\ before = [e \in Messages |-> {}]
  /\ late = FALSE
  /\ up = TRUE
  /\ failures = 0
  /\ crashes = 0

Goto(e, label) == task' = [task EXCEPT ![e] = label]

\* What GET /sessions has of the answers: those that died with a gateway before
\* they were stored are dated no more.
InHistory(e) == e \in dated /\ \E i \in DOMAIN answers : answers[i] = e

-----------------------------------------------------------------------------
(* The runtime's side *)

\* The session's broadcast channel, and each open stream of a listener.
Broadcast(kind, e) ==
  inbox' = [f \in Messages |->
              IF stream[f] = "open"
              THEN Append(inbox[f], [kind |-> kind, of |-> e]) ELSE inbox[f]]

\* submit takes accepted_at and appends the message.
Record(e) ==
  /\ up
  /\ e \notin onRecord
  /\ D!Record(e)
  /\ early' = [early EXCEPT ![e] = dated]
  /\ UNCHANGED <<dated, answers, taskVars, procVars>>

Accept(e) ==
  /\ up
  /\ D!Accept(e)
  /\ Broadcast("other", e)
  /\ UNCHANGED <<dated, answers, early, task, stream, reply, procVars>>

Refuse(e) ==
  /\ up
  /\ D!Refuse(e)
  /\ UNCHANGED <<dated, answers, early, taskVars, procVars>>

\* run_provider dates the provider's answer and sends its MessageChunk ...
ReceiveAnswer(e) ==
  /\ up
  /\ state[e] = "accepted"
  /\ e \notin reads \cup dated
  /\ dated' = dated \cup {e}
  /\ Broadcast("other", e)
  /\ UNCHANGED <<delivery, answers, early, task, stream, reply, procVars>>

\* ... then its MessageCompleted; run_read_tool only sends MessageCompleted.
Announce(e) ==
  /\ up
  /\ e \in reads \cup dated
  /\ D!Answer(e)
  /\ Broadcast("completed", e)
  /\ UNCHANGED <<dated, answers, early, task, stream, reply, procVars>>

Fail(e) ==
  /\ up
  /\ e \notin dated
  /\ D!Fail(e)
  /\ Broadcast("error", e)
  /\ UNCHANGED <<dated, answers, early, task, stream, reply, procVars>>

\* append_message: the history in memory, then the table.
PushAnswer(e) ==
  /\ up
  /\ state[e] = "answered"
  /\ e \in dated
  /\ ~InHistory(e)
  /\ answers' = Append(answers, e)
  /\ UNCHANGED <<delivery, dated, early, taskVars, procVars>>

StoreAnswer(e) ==
  /\ up
  /\ InHistory(e)
  /\ e \notin kept
  /\ D!Keep(e)
  /\ UNCHANGED <<dated, answers, early, taskVars, procVars>>

StoreFails(e) ==
  /\ up
  /\ InHistory(e)
  /\ failures + crashes < MaxFaults
  /\ failures' = failures + 1
  /\ D!Withdraw(e)
  /\ Broadcast("error", e)
  /\ UNCHANGED <<dated, answers, early, task, stream, reply, reads, before, late, up,
                 crashes>>

\* The gateway dies with its turns, the answers they had not stored and its
\* streams, and comes back with the answers that were stored.
GatewayDies ==
  /\ up
  /\ failures + crashes < MaxFaults
  /\ crashes' = crashes + 1
  /\ up' = FALSE
  /\ D!Drop({e \in Messages : state[e] \in {"pending", "accepted"}})
  /\ dated' = dated \cap kept
  /\ stream' = [e \in Messages |-> IF stream[e] = "none" THEN "none" ELSE "closed"]
  /\ UNCHANGED <<answers, early, task, inbox, reply, reads, before, late, failures>>

GatewayRestarts ==
  /\ ~up
  /\ up' = TRUE
  /\ UNCHANGED <<runtimeVars, taskVars, reads, before, late, failures, crashes>>

-----------------------------------------------------------------------------
(* The connector's side *)

\* run_once handles one message after the other, handle_frame spawns a task for
\* each.
MayTakeUp(e) == task[e] = "idle" /\ (Serial => \A f \in Messages : ~Busy(f))

\* A channel message arrives and is posted to the gateway.
TakeUp(e) ==
  /\ MayTakeUp(e)
  /\ up
  /\ D!Begin(e)
  /\ before' = [before EXCEPT ![e] =
                  {f \in Messages : state[f] \in {"answered", "failed"}}]
  /\ Goto(e, "submit")
  /\ UNCHANGED <<dated, answers, early, stream, inbox, reply, reads, late, up,
                 failures, crashes>>

\* POST /messages returns the receipt, or the runtime's error.
SubmitReturns(e) ==
  /\ task[e] = "submit"
  /\ state[e] # "pending"
  /\ Goto(e, IF state[e] \in {"refused", "dropped"} THEN "gave_up" ELSE "check")
  /\ UNCHANGED <<runtimeVars, stream, inbox, reply, procVars>>

\* Mutant: the date of the receipt is not looked at.
Eligible_AnyDate(e, i) == answers[i] \in dated

\* latest_provider_reply: the last answer of the history that is not older than
\* the receipt.
Eligible(e, i) == answers[i] \in dated \ early[e]

IsLatest(e, i) ==
  /\ Eligible(e, i)
  /\ \A j \in DOMAIN answers : j > i => ~Eligible(e, j)

\* Looks for an answer in the history; finds one, or goes on to the next step.
Look(e, next) ==
  /\ up
  /\ \/ \E i \in DOMAIN answers :
          /\ IsLatest(e, i)
          /\ reply' = [reply EXCEPT ![e] = answers[i]]
          /\ Goto(e, "send")
     \/ /\ \A i \in DOMAIN answers : ~Eligible(e, i)
        /\ Goto(e, next)
        /\ UNCHANGED reply
  /\ UNCHANGED <<runtimeVars, stream, inbox, procVars>>

Check(e)     == task[e] = "check" /\ Look(e, "subscribe")
Recheck(e)   == task[e] = "recheck" /\ Look(e, "wait")

\* Mutant: an answer that timed out is sent as an empty message.
LastCheck_SendsAnyway(e) == task[e] = "last" /\ Look(e, "send")

\* Mutant: once the wait is over the history is not looked at again.
LastCheck_Skipped(e) ==
  /\ task[e] = "last"
  /\ Goto(e, "gave_up")
  /\ UNCHANGED <<runtimeVars, stream, inbox, reply, procVars>>

LastCheck(e) == task[e] = "last" /\ Look(e, "gave_up")

\* A GET or POST cannot reach the gateway.
CallFails(e) ==
  /\ ~up
  /\ MayTakeUp(e) \/ task[e] \in {"check", "recheck", "last"}
  /\ Goto(e, "gave_up")
  /\ UNCHANGED <<runtimeVars, stream, inbox, reply, procVars>>

\* subscribe returns a receiver at once; the pump connects afterwards.
Subscribe(e) ==
  /\ task[e] = "subscribe"
  /\ stream' = [stream EXCEPT ![e] = "connecting"]
  /\ Goto(e, "recheck")
  /\ UNCHANGED <<runtimeVars, inbox, reply, procVars>>

PumpConnects(e) ==
  /\ stream[e] = "connecting"
  /\ Busy(e)
  /\ stream' = [stream EXCEPT ![e] = IF up THEN "open" ELSE "closed"]
  /\ UNCHANGED <<runtimeVars, task, inbox, reply, procVars>>

\* Mutant: only MessageCompleted may come from the stream.
ReceiveEvent_OthersFail(e) ==
  /\ task[e] = "wait"
  /\ inbox[e] # <<>>
  /\ inbox' = [inbox EXCEPT ![e] = Tail(@)]
  /\ IF Head(inbox[e]).kind = "completed"
     THEN /\ reply' = [reply EXCEPT ![e] = Head(inbox[e]).of]
          /\ Goto(e, "send")
     ELSE /\ Goto(e, "gave_up")
          /\ UNCHANGED reply
  /\ UNCHANGED <<runtimeVars, stream, procVars>>

\* The receiver yields an event: any MessageCompleted is taken for the answer.
ReceiveEvent(e) ==
  /\ task[e] = "wait"
  /\ inbox[e] # <<>>
  /\ inbox' = [inbox EXCEPT ![e] = Tail(@)]
  /\ LET event == Head(inbox[e]) IN
       \/ /\ event.kind = "completed"
          /\ reply' = [reply EXCEPT ![e] = event.of]
          /\ Goto(e, "send")
       \/ /\ event.kind = "error"
          /\ Goto(e, "gave_up")
          /\ UNCHANGED reply
       \/ /\ event.kind = "other"
          /\ Goto(e, "recheck")
          /\ UNCHANGED reply
  /\ UNCHANGED <<runtimeVars, stream, procVars>>

\* The pump has ended and its channel is empty.
StreamEnds(e) ==
  /\ task[e] = "wait"
  /\ stream[e] = "closed"
  /\ inbox[e] = <<>>
  /\ Goto(e, "gave_up")
  /\ UNCHANGED <<runtimeVars, stream, inbox, reply, procVars>>

\* Is e's turn over, as far as its wait can tell?
TurnOver(e) ==
  \/ state[e] = "answered" /\ (e \in reads \/ InHistory(e) \/ e \notin dated)
  \/ state[e] \in {"failed", "refused", "dropped"}

\* Mutant: the receiver is awaited without a timeout.
Timeout_NotWhileWaiting(e) ==
  /\ task[e] = "recheck"
  /\ Goto(e, "last")
  /\ late' = (late \/ ~TurnOver(e))
  /\ UNCHANGED <<runtimeVars, stream, inbox, reply, reads, before, up, failures,
                 crashes>>

\* reply_timeout is over, while waiting or when the loop comes round.
Timeout(e) ==
  /\ task[e] \in {"recheck", "wait"}
  /\ task[e] = "wait" => inbox[e] = <<>>
  /\ Goto(e, "last")
  /\ late' = (late \/ ~TurnOver(e))
  /\ UNCHANGED <<runtimeVars, stream, inbox, reply, reads, before, up, failures,
                 crashes>>

\* The reply goes to the channel, or that fails.
Send(e) ==
  /\ task[e] = "send"
  /\ \E end \in {"replied", "gave_up"} : Goto(e, end)
  /\ UNCHANGED <<runtimeVars, stream, inbox, reply, procVars>>

-----------------------------------------------------------------------------

RuntimeStep(e) ==
  \/ Record(e) \/ Accept(e) \/ Refuse(e)
  \/ ReceiveAnswer(e) \/ Announce(e) \/ Fail(e)
  \/ PushAnswer(e) \/ StoreAnswer(e) \/ StoreFails(e)

WaitStep(e) ==
  \/ SubmitReturns(e) \/ Check(e) \/ Subscribe(e) \/ Recheck(e)
  \/ ReceiveEvent(e) \/ StreamEnds(e) \/ LastCheck(e) \/ CallFails(e) \/ Send(e)

Next ==
  \/ \E e \in Messages :
       TakeUp(e) \/ RuntimeStep(e) \/ WaitStep(e) \/ PumpConnects(e) \/ Timeout(e)
  \/ GatewayDies
  \/ GatewayRestarts

Spec == Init /\ [][Next]_vars

\* The runtime's turns end (RuntimeLive), the connector's task is polled, and
\* reply_timeout ends the wait for an event.  Nothing is assumed of the rest: the
\* clients of the gateway and of the channel have no timeout, so a call may never
\* return and a stream never open, and a gateway that died may stay down.
FairSpec ==
  /\ Spec
  /\ \A e \in Messages :
       /\ WF_vars(RuntimeStep(e))
       /\ WF_vars(Subscribe(e) \/ ReceiveEvent(e) \/ StreamEnds(e))
       /\ WF_vars(task[e] = "wait" /\ Timeout(e))

-----------------------------------------------------------------------------
(* Properties *)

\* The reply found for a message is the answer to that message, although the
\* connector looks for it by session and date only (latest_provider_reply), as
\* long as no turn outlasted its wait and the session's answers could be stored: the
\* Error event of one that could not ends the wait for the next message while its
\* turn goes on.
RightAnswer == failures = 0 /\ ~late => \A e \in Messages : reply[e] \in {None, e}

\* The reply found for a message is never the answer of a turn that had announced it, or
\* had failed, before the message was posted, however many messages are in flight,
\* however late their turns end, and whatever is stored or dies
\* (latest_provider_reply, subscribe).
NoOldReply == \A e \in Messages : reply[e] \notin before[e]

\* Giving up on a message for the provider means that something went wrong: the
\* runtime refused, failed or lost the message, the gateway died, the channel did
\* not take the reply, a turn outlasted its wait, or an answer of the session could
\* not be stored (its Error event reaches the waits of other messages, too).
GaveUpForAReason ==
  \A e \in Messages \ reads : task[e] = "gave_up" =>
    \/ state[e] \in {"refused", "failed", "dropped"}
    \/ crashes > 0 \/ failures > 0 \/ late
    \/ reply[e] # None

\* The task is in a call that has no timeout: submit, load_session, or the one
\* that sends the reply.
Calls(e) == task[e] \in {"submit", "check", "recheck", "last", "send"}

\* An answer of the provider is found by the connector that asked for it, also
\* when its stream opened too late for the event or not at all, unless the gateway
\* dies, an answer of the session cannot be stored, a turn outlasts its wait, or a
\* call never returns.
AnswerFound ==
  \A e \in Messages :
    e \notin reads /\ state[e] = "answered" ~>
      reply[e] = e \/ crashes > 0 \/ failures > 0 \/ late \/ []Calls(e)

\* No message keeps its connector waiting for ever for an event of the stream,
\* whatever dies or is late: the only thing that may never end is one call
\* (wait_for_assistant_reply).
WaitEnds == \A e \in Messages : Busy(e) ~> ~Busy(e) \/ []Calls(e)

-----------------------------------------------------------------------------
(* The inductive invariant behind RightAnswer and GaveUpForAReason, when the   *)
(* connector handles one message at a time (ConnectorProofs)                   *)

Running(e) == state[e] \in {"pending", "accepted"}

\* What the messages, the answers and the streams say of a turn.
TurnOf(e) ==
  /\ state[e] \in {"accepted", "answered", "failed"} => e \in onRecord
  /\ e \in kept => state[e] = "answered"
  /\ e \in dated => e \notin reads /\ state[e] \in {"accepted", "answered", "failed"}
  /\ \A i \in DOMAIN answers : answers[i] = e => state[e] \in {"answered", "failed"}
  /\ e \notin early[e]
  /\ state[e] = "new" => e \notin onRecord
  /\ task[e] = "idle" => state[e] = "new"
  /\ Busy(e) => state[e] # "new"
  /\ Busy(e) /\ task[e] # "submit" => e \in onRecord
  /\ stream[e] # "none" =>
       state[e] # "new" /\ task[e] \notin {"idle", "submit", "check", "subscribe"}
  /\ stream[e] \in {"none", "connecting"} => inbox[e] = <<>>
  /\ reply[e] # None => task[e] \in {"send", "replied", "gave_up"}

\* A gateway that is down runs no turn, and a stream ends with its gateway only.
CrashOf(e) ==
  /\ ~up => crashes > 0 /\ ~Running(e)
  /\ stream[e] = "closed" => crashes > 0 /\ ~Running(e)
  /\ crashes = 0 /\ state[e] = "answered" /\ e \notin reads => e \in dated

\* One message is waited for at a time, and only its turn is running.
Alone ==
  /\ \A e, f \in Messages : Busy(e) /\ Busy(f) => e = f
  /\ \A e \in Messages : Running(e) => Busy(e)

\* So what its wait may take for the answer is the answer.
WaitOf(e) ==
  /\ Busy(e) => \A i \in DOMAIN inbox[e] :
       /\ inbox[e][i].kind = "completed" => inbox[e][i].of = e /\ state[e] = "answered"
       /\ inbox[e][i].kind = "error" => inbox[e][i].of = e /\ state[e] = "failed"
  /\ Busy(e) /\ e \in onRecord => dated \subseteq early[e] \cup {e}
  /\ task[e] = "last" => ~Running(e)
  /\ task[e] = "last" /\ e \notin reads /\ crashes = 0 =>
       state[e] \in {"refused", "failed", "dropped"} \/ InHistory(e)
  /\ reply[e] \in {None, e}
  /\ reply[e] # None => ~Running(e)

\* What is dated in a message's history, or queued for it, and is of an old turn, is
\* behind its receipt (needs neither of the two conditions).
OldOf(e) ==
  /\ \A f \in before[e] : state[f] \in {"answered", "failed"}
  /\ e \in onRecord => before[e] \cap dated \subseteq early[e]
  /\ \A i \in DOMAIN inbox[e] :
       inbox[e][i].kind = "completed" => inbox[e][i].of \notin before[e]
  /\ reply[e] \notin before[e]

OldInv   == \A e \in Messages : OldOf(e)
TurnInv  == \A e \in Messages : TurnOf(e)
CrashInv == \A e \in Messages : CrashOf(e)
Waits    == \A e \in Messages : WaitOf(e)
WaitInv  == failures = 0 /\ ~late => Alone /\ Waits

IndInv == TypeOK /\ TurnInv /\ CrashInv /\ WaitInv /\ GaveUpForAReason

=============================================================================
