------------------------------ MODULE Runtime ------------------------------
(***************************************************************************)
(* The assistant runtime: InMemoryRuntime in                               *)
(* crates/goldclaw-runtime/src/lib.rs over the SQLite tables of            *)
(* crates/goldclaw-store/src/sqlite.rs.                                    *)
(*                                                                         *)
(* Each request of a client (POST /messages or POST /sessions) is a task   *)
(* of a multi-threaded executor.  A task holds a lock for one map access   *)
(* at a time, so the steps of concurrent requests interleave wherever the  *)
(* code releases a lock, awaits, or calls the store.  The process may die  *)
(* between any two steps; a new process restores its maps from the store.  *)
(***************************************************************************)
EXTENDS Naturals, Sequences

CONSTANTS
  Requests,       \* the calls clients may make; each is made at most once
  Conversations,  \* binding keys (ConversationRef::binding_key)
  Workload,       \* the request contents clients choose from
  ToolCallLimit,  \* provider calls in one turn (8 in the code)
  SerialClients,  \* TRUE: a client awaits its answer before it sends again
  MaxFailures,    \* bound on store calls that fail
  MaxCrashes,     \* bound on process deaths
  None            \* Option::None

(***************************************************************************)
(* What a client sends.  "read" is a message that parse_read_command       *)
(* recognises, "create" is POST /sessions.  A session is named by the      *)
(* request that created it: Uuid::new_v4 never repeats an id.              *)
(***************************************************************************)
RequestContent ==
  [kind : {"chat", "read", "create"},
   session : Requests \cup {None},
   conv : Conversations \cup {None}]

ASSUME RuntimeAssumption ==
  /\ None \notin Requests \cup Conversations
  /\ Workload \subseteq RequestContent
  /\ ToolCallLimit \in Nat \ {0}
  /\ SerialClients \in BOOLEAN
  /\ MaxFailures \in Nat
  /\ MaxCrashes \in Nat

VARIABLES
  up,          \* is a runtime process serving?
  sessions,    \* memory: keys of the sessions map
  history,     \* memory: SessionState.history, by session
  bindings,    \* memory: the session each conversation is bound to
  dbSessions,  \* store: ids in table sessions
  dbLog,       \* store: table messages by session, in the order it is read
  dbBindings,  \* store: table session_bindings
  dbMemory,    \* store: requests whose exchange is a row of memory_chunks
  clock,       \* Utc::now(); advances whenever a message is dated
  req,         \* the content of each request
  pc,          \* where its task is
  sess,        \* the session it was resolved to
  part,        \* which message of its exchange the task is writing
  stamp,       \* created_at of that message
  round,       \* finished iterations of the provider loop
  prompted,    \* whose user message carried the [Memory] block last
  emitted,     \* kinds of events sent for the request
  failures, crashes

memVars  == <<sessions, history, bindings>>
dbVars   == <<dbSessions, dbLog, dbBindings, dbMemory>>
dateVars == <<clock, stamp>>
turnVars == <<part, round, prompted>>
envVars  == <<up, failures, crashes>>
vars == <<memVars, dbVars, dateVars, turnVars, envVars, req, pc, sess, emitted>>

-----------------------------------------------------------------------------
(* Types *)

Parts == {"user", "tool_call", "tool", "reply"}

Message == [env : Requests, part : Parts, round : 0..ToolCallLimit, at : Nat]

EventKind == {"session_created", "accepted", "tool_started",
              "tool_completed", "chunk", "completed", "error"}

\* submit, up to the point where the turn is spawned
SubmitPc == {"resolve", "lookup", "create", "save_session", "bind",
             "save_bind", "rebind", "save_rebind", "accept"}
\* append_message, called by submit and by the turn
AppendPc == {"append", "save_summary", "save_message"}
\* process_envelope
TurnPc == {"prompt", "chat", "tool", "executing", "announce", "remember",
           "failed"}
FinalPc == {"done", "rejected", "abandoned", "lost"}

Live(e) == pc[e] \in SubmitPc \cup AppendPc \cup TurnPc

TypeOK ==
  /\ up \in BOOLEAN
  /\ sessions \subseteq Requests
  /\ history \in [Requests -> Seq(Message)]
  /\ bindings \in [Conversations -> Requests \cup {None}]
  /\ dbSessions \subseteq Requests
  /\ dbLog \in [Requests -> Seq(Message)]
  /\ dbBindings \in [Conversations -> Requests \cup {None}]
  /\ dbMemory \subseteq Requests
  /\ clock \in Nat
  /\ req \in [Requests -> RequestContent \cup {None}]
  /\ pc \in [Requests -> {"idle"} \cup SubmitPc \cup AppendPc
                                   \cup TurnPc \cup FinalPc]
  /\ \A e \in Requests : pc[e] # "idle" => req[e] \in RequestContent
  /\ sess \in [Requests -> Requests \cup {None}]
  /\ part \in [Requests -> Parts]
  /\ stamp \in [Requests -> Nat]
  /\ round \in [Requests -> 0..ToolCallLimit]
  /\ prompted \in [Requests -> Requests \cup {None}]
  /\ emitted \in [Requests -> SUBSET EventKind]
  /\ failures \in 0..MaxFailures
  /\ crashes \in 0..MaxCrashes

Init ==
  /\ up = TRUE
  /\ sessions = {}
  /\ history = [s \in Requests |-> <<>>]
  /\ bindings = [c \in Conversations |-> None]
  /\ dbSessions = {}
  /\ dbLog = [s \in Requests |-> <<>>]
  /\ dbBindings = [c \in Conversations |-> None]
  /\ dbMemory = {}
  /\ clock = 0
  /\ req = [e \in Requests |-> None]
  /\ pc = [e \in Requests |-> "idle"]
  /\ sess = [e \in Requests |-> None]
  /\ part = [e \in Requests |-> "user"]
  /\ stamp = [e \in Requests |-> 0]
  /\ round = [e \in Requests |-> 0]
  /\ prompted = [e \in Requests |-> None]
  /\ emitted = [e \in Requests |-> {}]
  /\ failures = 0
  /\ crashes = 0

-----------------------------------------------------------------------------
(* Helpers *)

Goto(e, label) == pc' = [pc EXCEPT ![e] = label]

Emit(e, kinds) == emitted' = [emitted EXCEPT ![e] = @ \cup kinds]

Date(e) ==
  /\ stamp' = [stamp EXCEPT ![e] = clock]
  /\ clock' = clock + 1

Entries(q) == {q[i] : i \in DOMAIN q}

\* The message a task is about to append.
Draft(e) ==
  [env |-> e, part |-> part[e], round |-> round[e], at |-> stamp[e]]

\* Row m joins the rows of log after the k rows that `ORDER BY created_at ASC`
\* returns before it; rows of one instant keep their insertion order.
DatedAfter(log, k, m) ==
  /\ \A i \in 1..k : log[i].at <= m.at
  /\ \A i \in (k + 1)..Len(log) : log[i].at > m.at

InsertAfter(log, k, m) ==
  [i \in 1..(Len(log) + 1) |->
     IF i <= k THEN log[i] ELSE IF i = k + 1 THEN m ELSE log[i - 1]]

\* The `?` of a failed step: submit answers Err, a turn ends with an Error event.
Failure(e) == IF part[e] = "user" THEN "rejected" ELSE "failed"

\* ensure_session_binding does nothing for an envelope without conversation.
AfterResolve(e) == IF req[e].conv = None THEN "append" ELSE "rebind"

AfterCreate(e) ==
  IF req[e].kind = "create" THEN "done"
  ELSE IF req[e].conv = None THEN "append" ELSE "bind"

-----------------------------------------------------------------------------
(* Requests reach the runtime *)

\* The gateway hands a request to the runtime; an Envelope is dated when it
\* is built.
Submit(e, r) ==
  /\ up
  /\ pc[e] = "idle"
  /\ SerialClients =>
       \A f \in Requests : Live(f) => req[f].conv # r.conv
  /\ req' = [req EXCEPT ![e] = r]
  /\ Goto(e, IF r.kind = "create" THEN "create" ELSE "resolve")
  /\ Date(e)
  /\ UNCHANGED <<memVars, dbVars, turnVars, envVars, sess, emitted>>

\* The client's connection closes: axum drops the handler's future at an await.
\* Store calls do not await, and a spawned turn is not the handler's.
Abandon(e) ==
  /\ \/ pc[e] \in {"resolve", "lookup", "create", "bind", "rebind", "accept"}
     \/ pc[e] = "append" /\ part[e] = "user"
  /\ Goto(e, "abandoned")
  /\ UNCHANGED <<memVars, dbVars, dateVars, turnVars, envVars, req, sess, emitted>>

-----------------------------------------------------------------------------
(* resolve_session *)

\* The envelope names a session.
ResolveNamed(e) ==
  /\ pc[e] = "resolve"
  /\ req[e].session # None
  /\ IF req[e].session \in sessions
     THEN /\ sess' = [sess EXCEPT ![e] = req[e].session]
          /\ Goto(e, AfterResolve(e))
     ELSE /\ Goto(e, "rejected")
          /\ UNCHANGED sess
  /\ UNCHANGED <<memVars, dbVars, dateVars, turnVars, envVars, req, emitted>>

\* The envelope has a conversation: read its binding under the bindings lock.
ReadBinding(e) ==
  /\ pc[e] = "resolve"
  /\ req[e].session = None
  /\ req[e].conv # None
  /\ IF bindings[req[e].conv] # None
     THEN /\ sess' = [sess EXCEPT ![e] = bindings[req[e].conv]]
          /\ Goto(e, "lookup")
     ELSE /\ Goto(e, "create")
          /\ UNCHANGED sess
  /\ UNCHANGED <<memVars, dbVars, dateVars, turnVars, envVars, req, emitted>>

\* ... and find its session, under the sessions lock.
LookupSession(e) ==
  /\ pc[e] = "lookup"
  /\ Goto(e, IF sess[e] \in sessions THEN "rebind" ELSE "create")
  /\ UNCHANGED <<memVars, dbVars, dateVars, turnVars, envVars, req, sess, emitted>>

\* The envelope has neither.
ResolveAnonymous(e) ==
  /\ pc[e] = "resolve"
  /\ req[e].session = None
  /\ req[e].conv = None
  /\ Goto(e, "create")
  /\ UNCHANGED <<memVars, dbVars, dateVars, turnVars, envVars, req, sess, emitted>>

(* create_session *)

InsertSession(e) ==
  /\ pc[e] = "create"
  /\ sessions' = sessions \cup {e}
  /\ sess' = [sess EXCEPT ![e] = e]
  /\ Goto(e, "save_session")
  /\ UNCHANGED <<history, bindings, dbVars, dateVars, turnVars, envVars, req, emitted>>

SaveSession(e) ==
  /\ pc[e] = "save_session"
  /\ dbSessions' = dbSessions \cup {e}
  /\ Emit(e, {"session_created"})
  /\ Goto(e, AfterCreate(e))
  /\ UNCHANGED <<memVars, dbLog, dbBindings, dbMemory, dateVars, turnVars,
                 envVars, req, sess>>

(* ensure_session_binding: from resolve_session ("bind"), then from submit *)

SetBinding(e) ==
  /\ pc[e] \in {"bind", "rebind"}
  /\ bindings' = [bindings EXCEPT ![req[e].conv] = sess[e]]
  /\ Goto(e, IF pc[e] = "bind" THEN "save_bind" ELSE "save_rebind")
  /\ UNCHANGED <<sessions, history, dbVars, dateVars, turnVars, envVars, req,
                 sess, emitted>>

\* Mutant: foreign keys are not enforced.
SaveBinding_Unchecked(e) ==
  /\ pc[e] \in {"save_bind", "save_rebind"}
  /\ dbBindings' = [dbBindings EXCEPT ![req[e].conv] = sess[e]]
  /\ Goto(e, IF pc[e] = "save_bind" THEN "rebind" ELSE "append")
  /\ UNCHANGED <<memVars, dbSessions, dbLog, dbMemory, dateVars, turnVars,
                 envVars, req, sess, emitted>>

\* session_bindings.session_id REFERENCES sessions(id)
SaveBinding(e) ==
  /\ pc[e] \in {"save_bind", "save_rebind"}
  /\ sess[e] \in dbSessions
  /\ dbBindings' = [dbBindings EXCEPT ![req[e].conv] = sess[e]]
  /\ Goto(e, IF pc[e] = "save_bind" THEN "rebind" ELSE "append")
  /\ UNCHANGED <<memVars, dbSessions, dbLog, dbMemory, dateVars, turnVars,
                 envVars, req, sess, emitted>>

ForeignKeyFails(e) ==
  /\ pc[e] \in {"save_bind", "save_rebind"}
  /\ sess[e] \notin dbSessions
  /\ Goto(e, "rejected")
  /\ UNCHANGED <<memVars, dbVars, dateVars, turnVars, envVars, req, sess, emitted>>

-----------------------------------------------------------------------------
(* append_message, for each of the four messages of an exchange *)

PushMessage(e) ==
  /\ pc[e] = "append"
  /\ IF sess[e] \in sessions
     THEN /\ history' = [history EXCEPT ![sess[e]] = Append(@, Draft(e))]
          /\ Goto(e, "save_summary")
     ELSE /\ Goto(e, Failure(e))
          /\ UNCHANGED history
  /\ UNCHANGED <<sessions, bindings, dbVars, dateVars, turnVars, envVars, req,
                 sess, emitted>>

SaveSummary(e) ==
  /\ pc[e] = "save_summary"
  /\ dbSessions' = dbSessions \cup {sess[e]}
  /\ Goto(e, "save_message")
  /\ UNCHANGED <<memVars, dbLog, dbBindings, dbMemory, dateVars, turnVars,
                 envVars, req, sess, emitted>>

\* Mutant: the loop goes round once too often.
Continue_OneTooMany(e) ==
  \/ /\ part[e] # "tool" \/ req[e].kind = "read"
     /\ Goto(e, CASE part[e] = "user"      -> "accept"
                  [] part[e] = "tool_call" -> "tool"
                  [] part[e] = "tool"      -> "announce"
                  [] part[e] = "reply"     -> "remember")
     /\ UNCHANGED round
  \/ /\ part[e] = "tool" /\ req[e].kind # "read"
     /\ round' = [round EXCEPT ![e] = @ + 1]
     /\ Goto(e, IF round[e] < ToolCallLimit THEN "prompt" ELSE "failed")

\* Where the caller of append_message continues, and what it does there.
Continue(e) ==
  \/ /\ part[e] = "user"
     /\ Goto(e, "accept")
     /\ UNCHANGED round
  \/ /\ part[e] = "tool_call"
     /\ Goto(e, "tool")
     /\ UNCHANGED round
  \/ /\ part[e] = "tool" /\ req[e].kind = "read"
     /\ Goto(e, "announce")
     /\ UNCHANGED round
  \/ /\ part[e] = "tool" /\ req[e].kind # "read"
     /\ round' = [round EXCEPT ![e] = @ + 1]
     /\ Goto(e, IF round[e] + 1 < ToolCallLimit THEN "prompt" ELSE "failed")
  \/ /\ part[e] = "reply"
     /\ Goto(e, "remember")
     /\ UNCHANGED round

SaveMessage(e) ==
  /\ pc[e] = "save_message"
  /\ \E k \in 0..Len(dbLog[sess[e]]) :
       /\ DatedAfter(dbLog[sess[e]], k, Draft(e))
       /\ dbLog' = [dbLog EXCEPT ![sess[e]] = InsertAfter(@, k, Draft(e))]
  /\ Continue(e)
  /\ UNCHANGED <<memVars, dbSessions, dbBindings, dbMemory, dateVars, part,
                 prompted, envVars, req, sess, emitted>>

\* Mutant: submit goes on although the message could not be stored.
StoreFails_Accepts(e) ==
  /\ pc[e] \in {"save_session", "save_bind", "save_rebind",
                "save_summary", "save_message"}
  /\ failures < MaxFailures
  /\ failures' = failures + 1
  /\ Goto(e, IF pc[e] = "save_message" /\ part[e] = "user"
             THEN "accept" ELSE Failure(e))
  /\ UNCHANGED <<memVars, dbVars, dateVars, turnVars, up, crashes, req, sess, emitted>>

\* Any store call of submit or of a turn fails; what memory holds stays there.
StoreFails(e) ==
  /\ pc[e] \in {"save_session", "save_bind", "save_rebind",
                "save_summary", "save_message"}
  /\ failures < MaxFailures
  /\ failures' = failures + 1
  /\ Goto(e, Failure(e))
  /\ UNCHANGED <<memVars, dbVars, dateVars, turnVars, up, crashes, req, sess, emitted>>

-----------------------------------------------------------------------------
(* The rest of submit, and the spawned turn: process_envelope *)

\* MessageAccepted is emitted, the turn spawned and the receipt returned.
Accept(e) ==
  /\ pc[e] = "accept"
  /\ Emit(e, {"accepted"})
  /\ Goto(e, IF req[e].kind = "read" THEN "tool" ELSE "prompt")
  /\ UNCHANGED <<memVars, dbVars, dateVars, turnVars, envVars, req, sess>>

\* Mutant: the memories go in front of the first user message.
BuildPrompt_First(e) ==
  /\ pc[e] = "prompt"
  /\ \E i \in DOMAIN history[sess[e]] :
       /\ history[sess[e]][i].part = "user"
       /\ \A j \in DOMAIN history[sess[e]] :
            j < i => history[sess[e]][j].part # "user"
       /\ prompted' = [prompted EXCEPT ![e] = history[sess[e]][i].env]
  /\ Goto(e, "chat")
  /\ UNCHANGED <<memVars, dbVars, dateVars, envVars, part, round, req, sess, emitted>>

\* run_provider clones the history and puts the memories recalled for e in
\* front of the last user message it finds there.
BuildPrompt(e) ==
  /\ pc[e] = "prompt"
  /\ \E i \in DOMAIN history[sess[e]] :
       /\ history[sess[e]][i].part = "user"
       /\ \A j \in DOMAIN history[sess[e]] :
            j > i => history[sess[e]][j].part # "user"
       /\ prompted' = [prompted EXCEPT ![e] = history[sess[e]][i].env]
  /\ Goto(e, "chat")
  /\ UNCHANGED <<memVars, dbVars, dateVars, envVars, part, round, req, sess, emitted>>

ProviderFails(e) ==
  /\ pc[e] = "chat"
  /\ Goto(e, "failed")
  /\ UNCHANGED <<memVars, dbVars, dateVars, turnVars, envVars, req, sess, emitted>>

ProviderCallsTool(e) ==
  /\ pc[e] = "chat"
  /\ Date(e)
  /\ part' = [part EXCEPT ![e] = "tool_call"]
  /\ Goto(e, "append")
  /\ UNCHANGED <<memVars, dbVars, envVars, round, prompted, req, sess, emitted>>

\* The answer is announced before it is appended.
ProviderAnswers(e) ==
  /\ pc[e] = "chat"
  /\ Date(e)
  /\ Emit(e, {"chunk", "completed"})
  /\ part' = [part EXCEPT ![e] = "reply"]
  /\ Goto(e, "append")
  /\ UNCHANGED <<memVars, dbVars, envVars, round, prompted, req, sess>>

\* execute_tool: the policy denies the tool, or none of that name exists.
RefuseTool(e) ==
  /\ pc[e] = "tool"
  /\ Goto(e, "failed")
  /\ UNCHANGED <<memVars, dbVars, dateVars, turnVars, envVars, req, sess, emitted>>

StartTool(e) ==
  /\ pc[e] = "tool"
  /\ Emit(e, {"tool_started"})
  /\ Goto(e, "executing")
  /\ UNCHANGED <<memVars, dbVars, dateVars, turnVars, envVars, req, sess>>

\* Mutant: after a failed tool the provider is asked again.
ToolFails_Continues(e) ==
  /\ pc[e] = "executing"
  /\ Goto(e, "prompt")
  /\ UNCHANGED <<memVars, dbVars, dateVars, turnVars, envVars, req, sess, emitted>>

ToolFails(e) ==
  /\ pc[e] = "executing"
  /\ Goto(e, "failed")
  /\ UNCHANGED <<memVars, dbVars, dateVars, turnVars, envVars, req, sess, emitted>>

\* Mutant: the output of a tool has the default date.
ToolReturns_Undated(e) ==
  /\ pc[e] = "executing"
  /\ stamp' = [stamp EXCEPT ![e] = 0]
  /\ Emit(e, {"tool_completed"})
  /\ part' = [part EXCEPT ![e] = "tool"]
  /\ Goto(e, "append")
  /\ UNCHANGED <<memVars, dbVars, envVars, clock, round, prompted, req, sess>>

ToolReturns(e) ==
  /\ pc[e] = "executing"
  /\ Date(e)
  /\ Emit(e, {"tool_completed"})
  /\ part' = [part EXCEPT ![e] = "tool"]
  /\ Goto(e, "append")
  /\ UNCHANGED <<memVars, dbVars, envVars, round, prompted, req, sess>>

\* run_read_tool announces the file once its output is appended.
Announce(e) ==
  /\ pc[e] = "announce"
  /\ Emit(e, {"completed"})
  /\ Goto(e, "done")
  /\ UNCHANGED <<memVars, dbVars, dateVars, turnVars, envVars, req, sess>>

\* Mutant: a memory that cannot be saved fails the turn.
Remember_FailsTurn(e) ==
  /\ pc[e] = "remember"
  /\ \/ dbMemory' = dbMemory \cup {e} /\ Goto(e, "done")
     \/ Goto(e, "failed") /\ UNCHANGED dbMemory
  /\ UNCHANGED <<memVars, dbSessions, dbLog, dbBindings, dateVars, turnVars,
                 envVars, req, sess, emitted>>

\* save_memory_chunk: an error is logged, the turn is complete either way.
Remember(e) ==
  /\ pc[e] = "remember"
  /\ dbMemory' \in {dbMemory, dbMemory \cup {e}}
  /\ Goto(e, "done")
  /\ UNCHANGED <<memVars, dbSessions, dbLog, dbBindings, dateVars, turnVars,
                 envVars, req, sess, emitted>>

\* Mutant: a failed turn ends without an event.
EmitError_Silent(e) ==
  /\ pc[e] = "failed"
  /\ Goto(e, "done")
  /\ UNCHANGED <<memVars, dbVars, dateVars, turnVars, envVars, req, sess, emitted>>

EmitError(e) ==
  /\ pc[e] = "failed"
  /\ Emit(e, {"error"})
  /\ Goto(e, "done")
  /\ UNCHANGED <<memVars, dbVars, dateVars, turnVars, envVars, req, sess>>

-----------------------------------------------------------------------------
(* The process *)

Crash ==
  /\ up
  /\ crashes < MaxCrashes
  /\ crashes' = crashes + 1
  /\ up' = FALSE
  /\ pc' = [e \in Requests |-> IF Live(e) THEN "lost" ELSE pc[e]]
  /\ sessions' = {}
  /\ history' = [s \in Requests |-> <<>>]
  /\ bindings' = [c \in Conversations |-> None]
  /\ UNCHANGED <<dbVars, dateVars, turnVars, failures, req, sess, emitted>>

\* Mutant: the messages are not read back.
Restart_WithoutHistory ==
  /\ ~up
  /\ up' = TRUE
  /\ sessions' = dbSessions
  /\ bindings' = dbBindings
  /\ UNCHANGED <<history, dbVars, dateVars, turnVars, failures, crashes, req,
                 pc, sess, emitted>>

\* Mutant: the bindings are not read back.
Restart_WithoutBindings ==
  /\ ~up
  /\ up' = TRUE
  /\ sessions' = dbSessions
  /\ history' = dbLog
  /\ UNCHANGED <<bindings, dbVars, dateVars, turnVars, failures, crashes, req,
                 pc, sess, emitted>>

\* restore_from_store, before the gateway serves.
Restart ==
  /\ ~up
  /\ up' = TRUE
  /\ sessions' = dbSessions
  /\ history' = dbLog
  /\ bindings' = dbBindings
  /\ UNCHANGED <<dbVars, dateVars, turnVars, failures, crashes, req, pc, sess, emitted>>

-----------------------------------------------------------------------------

ResolveStep(e) ==
  \/ ResolveNamed(e) \/ ReadBinding(e) \/ LookupSession(e)
  \/ ResolveAnonymous(e) \/ InsertSession(e) \/ SaveSession(e)
  \/ SetBinding(e) \/ SaveBinding(e) \/ ForeignKeyFails(e)

AppendStep(e) == PushMessage(e) \/ SaveSummary(e) \/ SaveMessage(e)

TurnStep(e) ==
  \/ Accept(e) \/ BuildPrompt(e)
  \/ ProviderFails(e) \/ ProviderCallsTool(e) \/ ProviderAnswers(e)
  \/ RefuseTool(e) \/ StartTool(e) \/ ToolFails(e) \/ ToolReturns(e)
  \/ Announce(e) \/ Remember(e) \/ EmitError(e)

\* What the executor schedules for a request once it is submitted.
TaskStep(e) == ResolveStep(e) \/ AppendStep(e) \/ TurnStep(e)

Next ==
  \/ \E e \in Requests :
       \/ \E r \in Workload : Submit(e, r)
       \/ TaskStep(e)
       \/ Abandon(e)
       \/ StoreFails(e)
  \/ Crash
  \/ Restart

Spec == Init /\ [][Next]_vars

\* tokio polls every runnable task again, and every provider or tool call returns:
\* the shell tool and the Qwen client have timeouts, the GLM client when one is set.
TaskFairness == \A e \in Requests : WF_vars(TaskStep(e))

FairSpec == Spec /\ TaskFairness /\ WF_vars(Restart)

(* Safety *)

Accepted(e) == "accepted" \in emitted[e]

Stored(e, p) == \E m \in Entries(dbLog[sess[e]]) : m.env = e /\ m.part = p

\* A receipt is a promise: once submit has accepted a message, its row is in
\* the store, whatever fails or dies afterwards (submit, append_message).
AcceptedDurable == \A e \in Requests : Accepted(e) => Stored(e, "user")

\* A submission answered with Err left no row behind, so that the client may
\* send it again without having said it twice (append_message's `?`).
RejectedNotStored ==
  \A e, s \in Requests :
    pc[e] = "rejected" => \A m \in Entries(dbLog[s]) : m.env # e

\* Memory never lags the store: every row of the database is in the history
\* that prompts and GET /sessions/{id} read, also after a restart.
StoreWithinMemory ==
  up => /\ dbSessions \subseteq sessions
        /\ \A s \in Requests : Entries(dbLog[s]) \subseteq Entries(history[s])

\* Memory is ahead of the store only where a task is still writing the
\* message, or the client was told of the failure (Err or an Error event).
Explained(m) ==
  \/ pc[m.env] \in {"save_summary", "save_message"} /\ m = Draft(m.env)
  \/ pc[m.env] \in {"rejected", "failed"}
  \/ "error" \in emitted[m.env]

UnstoredExplained ==
  \A s \in Requests : \A m \in Entries(history[s]) \ Entries(dbLog[s]) : Explained(m)

\* A conversation is never bound to a session that cannot be found, neither in
\* the maps of the process nor among the rows it will restart from.
BindingsLive ==
  \A c \in Conversations :
    /\ bindings[c] \in sessions \cup {None}
    /\ dbBindings[c] \in dbSessions \cup {None}

\* Position of a message within its exchange.
Rank(m) ==
  CASE m.part = "user"      -> 0
    [] m.part = "tool_call" -> 2 * m.round + 1
    [] m.part = "tool"      -> 2 * m.round + 2
    [] m.part = "reply"     -> 2 * ToolCallLimit + 1

InExchangeOrder(log) ==
  \A i, j \in DOMAIN log :
    i < j /\ log[i].env = log[j].env => Rank(log[i]) < Rank(log[j])

\* However turns interleave in a session, each exchange reads in the order it
\* happened (message, tool call, tool output, ..., answer) in the history and
\* in the table, which the next process reads back sorted by created_at.
ExchangesInOrder ==
  \A s \in Requests : InExchangeOrder(history[s]) /\ InExchangeOrder(dbLog[s])

\* A turn that ended without an Error event left a complete exchange in the
\* store: every tool call with its output and, for the provider, the answer.
CleanTurnStored ==
  \A e \in Requests :
    pc[e] = "done" /\ Accepted(e) /\ "error" \notin emitted[e] =>
      /\ req[e].kind = "chat" => Stored(e, "reply")
      /\ \A m \in Entries(dbLog[sess[e]]) :
           m.env = e /\ m.part = "tool_call" =>
             \E n \in Entries(dbLog[sess[e]]) :
               n.env = e /\ n.part = "tool" /\ n.round = m.round

\* Whatever is missing from the store has been accounted for to the client.
GapsExplained == UnstoredExplained /\ CleanTurnStored

\* A turn that is over told its subscribers so exactly once: completed or
\* failed; both only if the announced answer could not be stored.
OneOutcome ==
  \A e \in Requests : pc[e] = "done" /\ Accepted(e) =>
    /\ emitted[e] \cap {"completed", "error"} # {}
    /\ {"completed", "error"} \subseteq emitted[e] => ~Stored(e, "reply")

\* The messages of a conversation that were accepted went to one session, over
\* failures, restarts and abandoned calls (resolve_session).
ByConversation(e, c) ==
  Accepted(e) /\ req[e].session = None /\ req[e].conv = c

StableConversation ==
  \A c \in Conversations : \A e, f \in Requests :
    ByConversation(e, c) /\ ByConversation(f, c) => sess[e] = sess[f]

\* The memories recalled for a message go in front of that message
\* (run_provider looks for the last user message of the session).
OwnMessagePrompted == \A e \in Requests : prompted[e] \in {None, e}

-----------------------------------------------------------------------------
(* The inductive invariant behind the safety properties (RuntimeProofs) *)

\* Where a task knows its session, and where its loop may still go round.
KnowsSession ==
  {"lookup", "save_session", "bind", "save_bind", "rebind", "save_rebind",
   "accept"} \cup AppendPc \cup TurnPc

MayGoRound == {"idle"} \cup SubmitPc \cup AppendPc \cup (TurnPc \ {"failed"})

\* Control points from which nothing of the request has been stored yet.
Unheard(e) ==
  \/ pc[e] \in {"idle", "rejected"} \cup (SubmitPc \ {"accept"})
  \/ pc[e] \in AppendPc /\ part[e] = "user"

TypeInv ==
  /\ TypeOK
  /\ \A e \in Requests :
       /\ pc[e] \in KnowsSession => sess[e] \in Requests
       /\ pc[e] \in MayGoRound => round[e] < ToolCallLimit

\* A live task's session, a bound session and a stored session are all in
\* memory; nothing is live while no process is up.
MapInv ==
  /\ ~up => \A e \in Requests : ~Live(e)
  /\ up => dbSessions \subseteq sessions
  /\ \A e \in Requests :
       /\ pc[e] \in KnowsSession => sess[e] \in sessions
       /\ pc[e] = "save_session" => sess[e] = e
  /\ BindingsLive

\* The phase of a task agrees with what the store and its client know of it.
PhaseInv ==
  \A e \in Requests :
    /\ Unheard(e) => ~Accepted(e)
    /\ pc[e] \in {"idle"} \cup SubmitPc => part[e] = "user"
    /\ pc[e] = "accept" => ~Accepted(e)
    /\ pc[e] = "accept" \/ Accepted(e) =>
         sess[e] \in Requests /\ Stored(e, "user")
    /\ Unheard(e) => \A s \in Requests : \A m \in Entries(dbLog[s]) : m.env # e

\* A message about to be stored is in memory, and so is every stored one.
LogInv ==
  /\ StoreWithinMemory
  /\ \A e \in Requests : pc[e] \in {"save_summary", "save_message"} =>
       Draft(e) \in Entries(history[sess[e]])
  /\ \A e \in Requests : pc[e] = "save_message" => sess[e] \in dbSessions

IndInv == TypeInv /\ MapInv /\ PhaseInv /\ LogInv

(* What further properties need on top of it *)

InTurn(e) == pc[e] \in TurnPc \/ (pc[e] \in AppendPc /\ part[e] # "user")

\* Before the provider's answer or run_read_tool's file is announced, and after.
Undecided(e) ==
  \/ pc[e] \in {"idle"} \cup SubmitPc \cup (TurnPc \ {"remember", "failed"})
  \/ pc[e] \in AppendPc /\ part[e] # "reply"

Answering(e) ==
  pc[e] = "remember" \/ (pc[e] \in AppendPc /\ part[e] = "reply")

\* A turn belongs to an accepted message, POST /sessions appends nothing, and
\* only a /read ends without a provider's answer.
KindInv ==
  \A e \in Requests :
    /\ InTurn(e) => Accepted(e)
    /\ pc[e] # "idle" /\ req[e].kind = "create" =>
         pc[e] \in {"create", "save_session"} \cup FinalPc /\ ~Accepted(e)
    /\ pc[e] = "announce" => req[e].kind = "read"

\* Which of the closing events a client has seen, by the place of its task; the
\* answer is a row only of a turn that did not fail.
OutcomeInv ==
  \A e \in Requests :
    /\ Undecided(e) => emitted[e] \cap {"completed", "error"} = {}
    /\ Answering(e) => "completed" \in emitted[e] /\ "error" \notin emitted[e]
    /\ pc[e] = "failed" => "error" \notin emitted[e]
    /\ pc[e] = "done" /\ Accepted(e) => emitted[e] \cap {"completed", "error"} # {}
    /\ \A s \in Requests : \A m \in Entries(dbLog[s]) :
         m.env = e /\ m.part = "reply" =>
           pc[e] \in {"remember", "done", "lost"} /\ "error" \notin emitted[e]

Answered(call, log) ==
  \E n \in Entries(log) :
    n.env = call.env /\ n.part = "tool" /\ n.round = call.round

\* The tool call whose output is still to come is the one of this round.
PendingCall(e) ==
  pc[e] \in {"tool", "executing"} \/ (pc[e] \in AppendPc /\ part[e] = "tool")

Settled(e) ==
  /\ ~PendingCall(e)
  /\ \/ pc[e] \in {"accept", "prompt", "chat", "announce", "remember"} \cup AppendPc
     \/ pc[e] = "done" /\ "error" \notin emitted[e]

\* A turn at its end without an error, that owes a provider's answer.
Finished(e) ==
  \/ pc[e] = "remember"
  \/ /\ pc[e] = "done" /\ Accepted(e) /\ "error" \notin emitted[e]
     /\ req[e].kind = "chat"

\* An exchange is in its own session's table, with the output of each tool call
\* but the pending one; a turn at its end has its answer there.
PairInv ==
  /\ \A s \in Requests : \A m \in Entries(dbLog[s]) :
       /\ s = sess[m.env]
       /\ m.part = "tool_call" /\ Settled(m.env) => Answered(m, dbLog[s])
       /\ m.part = "tool_call" /\ PendingCall(m.env) =>
            m.round = round[m.env] \/ Answered(m, dbLog[s])
  /\ \A e \in Requests : Finished(e) => Stored(e, "reply")

\* Control points from which nothing of the request has been pushed yet.
Fresh(e) ==
  \/ pc[e] \in {"idle"} \cup (SubmitPc \ {"accept"})
  \/ pc[e] = "append" /\ part[e] = "user"

\* The messages of an exchange are in the history of its session only.
PlaceInv ==
  \A s \in Requests : \A m \in Entries(history[s]) :
    s = sess[m.env] /\ ~Fresh(m.env)

\* The messages of e that are written have a lower rank than this one.
Ceiling(e) ==
  CASE pc[e] = "accept"                -> 1
    [] pc[e] \in {"prompt", "chat"}    -> 2 * round[e] + 1
    [] pc[e] \in {"tool", "executing"} -> 2 * round[e] + 2
    [] pc[e] \in AppendPc              -> Rank(Draft(e))

Writes(e) ==
  pc[e] \in {"accept", "prompt", "chat", "tool", "executing"} \cup AppendPc

\* Ranks and dates of an exchange grow together, and the next message is above
\* all of them (in memory the message being written is there already).
OrderInv ==
  /\ ExchangesInOrder
  /\ \A e \in Requests : pc[e] # "idle" => stamp[e] < clock
  /\ \A s \in Requests : \A m \in Entries(dbLog[s]) :
       /\ m.at <= stamp[m.env]
       /\ pc[m.env] \in AppendPc => m.at < stamp[m.env]
       /\ Writes(m.env) => Rank(m) < Ceiling(m.env)
  /\ \A s \in Requests : \A m \in Entries(history[s]) :
       Writes(m.env) =>
         \/ Rank(m) < Ceiling(m.env)
         \/ /\ pc[m.env] \in {"save_summary", "save_message"}
            /\ m = Draft(m.env)

TurnInv ==
  KindInv /\ OutcomeInv /\ PairInv /\ PlaceInv /\ UnstoredExplained /\ OrderInv

(* Clients that wait for their answers *)

\* No message moves a conversation to a session, or none names a session.
NoRebinding == \A r \in Workload : r.session = None \/ r.conv = None
NoneNamed   == \A r \in Workload : r.session = None

Bound(e) ==
  LET c == req[e].conv IN
  /\ pc[e] \in {"create", "save_session", "bind", "save_bind"} =>
       dbBindings[c] = None
  /\ pc[e] \in {"lookup", "rebind", "save_rebind"} => dbBindings[c] \in {None, sess[e]}
  /\ pc[e] \in {"save_bind", "save_rebind"} => bindings[c] = sess[e]
  /\ (pc[e] \in {"accept"} \cup AppendPc \cup TurnPc \/ Accepted(e)) =>
       dbBindings[c] = sess[e]

\* One call of a conversation at a time; its binding changes only while nothing
\* of it was accepted.
BoundInv ==
  /\ \A e \in Requests : pc[e] # "idle" => req[e] \in Workload
  /\ \A e, f \in Requests :
       Live(e) /\ Live(f) /\ req[e].conv = req[f].conv => e = f
  /\ up => \A c \in Conversations :
             dbBindings[c] # None => bindings[c] = dbBindings[c]
  /\ \A e \in Requests :
       pc[e] # "idle" /\ req[e].conv # None /\ req[e].kind # "create" => Bound(e)

\* The session of a conversation was created for it.
CreatedFor(s, c) == pc[s] # "idle" /\ req[s].conv = c

LastUser(log, e) ==
  \E i \in DOMAIN log :
    /\ log[i].part = "user" /\ log[i].env = e
    /\ \A j \in DOMAIN log : j > i => log[j].part # "user"

\* The message of a live call is in memory.
Said(e) == pc[e] \in {"accept", "save_summary", "save_message"} \/ InTurn(e)

\* No two live calls share a session, so the last user message stays a task's own.
OwnInv ==
  /\ \A c \in Conversations :
       /\ bindings[c] # None => CreatedFor(bindings[c], c)
       /\ dbBindings[c] # None => CreatedFor(dbBindings[c], c)
  /\ \A e \in Requests :
       /\ pc[e] \in KnowsSession => CreatedFor(sess[e], req[e].conv)
       /\ pc[e] \in KnowsSession /\ req[e].conv = None => sess[e] = e
       /\ Said(e) => LastUser(history[sess[e]], e)
  /\ OwnMessagePrompted

-----------------------------------------------------------------------------
(* Liveness *)

\* No call hangs, and an accepted message is eventually answered with an answer or an
\* error (submit, run_provider, run_read_tool, process_envelope).
AcceptedAnswered ==
  \A e \in Requests :
    /\ Live(e) ~> ~Live(e)
    /\ Accepted(e) ~> emitted[e] \cap {"completed", "error"} # {}

=============================================================================
