------------------------------- MODULE WeCom --------------------------------
(***************************************************************************)
(* The long link of the WeCom connector (crates/goldclaw-connector-wecom): *)
(* run_forever opens one connection after the other and decides, by the    *)
(* error a connection ended with, whether to try again; each connection is *)
(* authenticated, served by a read loop and kept alive by a heartbeat task;*)
(* every message spawns a task that answers it on the connection it came   *)
(* on.                                                                     *)
(*                                                                         *)
(* The writer of a socket is shared by the read loop, the heartbeat and    *)
(* the reply tasks, so that a socket outlives the read loop that leaves it.*)
(* A connection that ends cleanly aborts its heartbeat; one that ends with *)
(* an error (the ? of run_connection) does not.                            *)
(***************************************************************************)
EXTENDS Integers, Sequences, FiniteSets

CONSTANTS
  Limits,         \* settings [io, auth] of max_reconnect_attempts and
                  \* max_auth_failure_attempts to choose from
  Delay,          \* reconnect_delay and auth_retry_delay
  MaxDelay,       \* their maxima
  MaxConnections, \* bound on attempts to connect
  MaxMessages     \* bound on messages received

\* What a WebSocket message holds: its command, its body, and for a message
\* callback whether from.userid and a text or voice content are there, for an
\* event callback whether it is a disconnected_event.
Frame == [cmd : {"callback", "event", "other", "unreadable"},
          body : {"none", "unreadable", "ok"},
          from : BOOLEAN, content : BOOLEAN, disconnected : BOOLEAN]

Outcome == {"clean", "io", "auth", "fatal"}

ASSUME WeComAssumption ==
  /\ Limits \subseteq [io : Int, auth : Int]
  /\ Delay \in Nat \ {0}
  /\ MaxDelay \in Nat
  /\ Delay <= MaxDelay
  /\ MaxConnections \in Nat
  /\ MaxMessages \in Nat

VARIABLES
  limits,     \* the configured limits
  phase,      \* where run_forever is
  attempts,   \* reconnect_attempts and auth_failure_attempts
  pause,      \* how long it sleeps before the next connection
  log,        \* how the connections ended, in order
  socket,     \* socket[c]: the server's end of connection c
  heartbeat,  \* heartbeat[c]: the heartbeat task of connection c
  task,       \* task[m]: the task of message m
  via         \* via[m]: the connection m came on

loopVars == <<limits, phase, attempts, pause, log>>
vars == <<loopVars, socket, heartbeat, task, via>>

Connections == 1..MaxConnections
Messages == 1..MaxMessages

\* The connection being opened or served.
Current == Len(log) + 1

Phase == {"connect", "auth", "serve", "pause", "ended"}

TypeOK ==
  /\ limits \in Limits
  /\ phase \in Phase
  /\ attempts \in [io : Nat, auth : Nat]
  /\ pause \in 0..MaxDelay
  /\ phase = "pause" => pause >= Delay
  /\ log \in Seq(Outcome)
  /\ Len(log) <= MaxConnections
  /\ phase \in {"auth", "serve"} => Current \in Connections
  /\ socket \in [Connections -> {"none", "open", "closed"}]
  /\ heartbeat \in [Connections -> {"none", "running", "ended"}]
  /\ task \in [Messages -> {"none", "waiting", "sent", "failed", "lost"}]
  /\ via \in [Messages -> 0..MaxConnections]

Init ==
  /\ limits \in Limits
  /\ phase = "connect"
  /\ attempts = [io |-> 0, auth |-> 0]
  /\ pause = 0
  /\ log = <<>>
  /\ socket = [c \in Connections |-> "none"]
  /\ heartbeat = [c \in Connections |-> "none"]
  /\ task = [m \in Messages |-> "none"]
  /\ via = [m \in Messages |-> 0]

-----------------------------------------------------------------------------
(* run_forever: what follows the end of a connection *)

\* Mutant: the last attempt allowed is not made.
ReachedRetryLimit_AtLimit(n, max) == max >= 0 /\ n >= max

\* A negative limit means that there is none.
ReachedRetryLimit(n, max) == max >= 0 /\ n > max

Smaller(a, b) == IF a < b THEN a ELSE b

\* Mutant: nothing caps the delay.
BackoffDelay_Uncapped(n) == Delay * 2 ^ Smaller(n - 1, 10)

BackoffDelay(n) == Smaller(Delay * 2 ^ Smaller(n - 1, 10), MaxDelay)

\* The process ends, and with it all its tasks.
Exit ==
  /\ phase' = "ended"
  /\ heartbeat' = [c \in Connections |->
                     IF heartbeat[c] = "running" THEN "ended" ELSE heartbeat[c]]
  /\ task' = [m \in Messages |-> IF task[m] = "waiting" THEN "lost" ELSE task[m]]

\* Mutant: the heartbeat is not aborted.
EndsCleanly_KeepsHeartbeat ==
  /\ log' = Append(log, "clean")
  /\ attempts' = [io |-> 0, auth |-> 0]
  /\ pause' = Delay
  /\ phase' = "pause"
  /\ UNCHANGED <<heartbeat, task>>

\* run_connection returned Ok: it has aborted the heartbeat.
EndsCleanly ==
  /\ log' = Append(log, "clean")
  /\ attempts' = [io |-> 0, auth |-> 0]
  /\ pause' = Delay
  /\ phase' = "pause"
  /\ heartbeat' = [heartbeat EXCEPT ![Current] = "ended"]
  /\ UNCHANGED task

\* run_connection returned an error that is worth another attempt.
EndsWithError(kind) ==
  LET n == attempts[kind] + 1 IN
  /\ log' = Append(log, kind)
  /\ attempts' = [attempts EXCEPT ![kind] = n]
  /\ IF ReachedRetryLimit(n, limits[kind])
     THEN Exit /\ UNCHANGED pause
     ELSE /\ phase' = "pause"
          /\ pause' = BackoffDelay(n)
          /\ UNCHANGED <<heartbeat, task>>

\* retry_policy_for_error: DoNotRetry.
EndsForGood ==
  /\ log' = Append(log, "fatal")
  /\ Exit
  /\ UNCHANGED <<attempts, pause>>

Ends(outcome) ==
  \/ outcome = "clean" /\ EndsCleanly
  \/ outcome \in {"io", "auth"} /\ EndsWithError(outcome)
  \/ outcome = "fatal" /\ EndsForGood

Wake ==
  /\ phase = "pause"
  /\ phase' = "connect"
  /\ UNCHANGED <<limits, attempts, pause, log, socket, heartbeat, task, via>>

-----------------------------------------------------------------------------
(* run_connection *)

Connect ==
  /\ phase = "connect"
  /\ Current \in Connections
  /\ socket' = [socket EXCEPT ![Current] = "open"]
  /\ phase' = "auth"
  /\ UNCHANGED <<limits, attempts, pause, log, heartbeat, task, via>>

ConnectFails ==
  /\ phase = "connect"
  /\ Current \in Connections
  /\ Ends("io")
  /\ UNCHANGED <<limits, socket, via>>

\* The server accepts the subscription, and the heartbeat starts.
Authenticated ==
  /\ phase = "auth"
  /\ phase' = "serve"
  /\ heartbeat' = [heartbeat EXCEPT ![Current] = "running"]
  /\ UNCHANGED <<limits, attempts, pause, log, socket, task, via>>

\* errcode 40058, "invalid Request Parameter" or a response that is no JSON is
\* fatal; any other errcode an authentication failure; a close, a frame without
\* data, another req_id or a broken socket one of the connection.
AuthenticationFails ==
  /\ phase = "auth"
  /\ \E outcome \in {"io", "auth", "fatal"} : Ends(outcome)
  /\ UNCHANGED <<limits, socket, via>>

\* auth_timeout is over.
AuthenticationTimesOut ==
  /\ phase = "auth"
  /\ Ends("io")
  /\ UNCHANGED <<limits, socket, via>>

\* handle_frame and message_to_envelope.
Verdict(f) ==
  CASE f.cmd = "unreadable" -> "fatal"
    [] f.cmd = "other" \/ (f.cmd # "unreadable" /\ f.body = "none") -> "ignore"
    [] f.body = "unreadable" -> "fatal"
    [] f.cmd = "event" -> IF f.disconnected THEN "reconnect" ELSE "ignore"
    [] ~f.from -> "fatal"
    [] OTHER -> IF f.content THEN "message" ELSE "ignore"

\* The task of the next message is spawned.
Spawn(m) ==
  /\ task[m] = "none"
  /\ \A k \in Messages : k < m => task[k] # "none"
  /\ task' = [task EXCEPT ![m] = "waiting"]
  /\ via' = [via EXCEPT ![m] = Current]

ReadFrame ==
  /\ phase = "serve"
  /\ socket[Current] = "open"
  /\ \E f \in Frame :
       \/ /\ Verdict(f) = "message"
          /\ \E m \in Messages : Spawn(m)
          /\ UNCHANGED <<phase, attempts, pause, log, heartbeat>>
       \/ /\ Verdict(f) = "reconnect"
          /\ Ends("io")
          /\ UNCHANGED via
       \/ /\ Verdict(f) = "fatal"
          /\ Ends("fatal")
          /\ UNCHANGED via
  /\ UNCHANGED <<limits, socket>>

\* The read loop comes to the Close frame or the end of the stream, or to an
\* error of the socket.
ReadEnd ==
  /\ phase = "serve"
  /\ socket[Current] = "closed"
  /\ Ends("clean") \/ Ends("io")
  /\ UNCHANGED <<limits, socket, via>>

\* The server closes a connection, one in use or one that was left.
ServerCloses(c) ==
  /\ socket[c] = "open"
  /\ socket' = [socket EXCEPT ![c] = "closed"]
  /\ UNCHANGED <<loopVars, heartbeat, task, via>>

-----------------------------------------------------------------------------
(* Tasks that outlive a connection *)

\* The next ping cannot be sent.
HeartbeatFails(c) ==
  /\ heartbeat[c] = "running"
  /\ socket[c] = "closed"
  /\ heartbeat' = [heartbeat EXCEPT ![c] = "ended"]
  /\ UNCHANGED <<loopVars, socket, task, via>>

\* Mutant: the answer goes to the connection in use.
Answer_OnCurrent(m) ==
  /\ task[m] = "waiting"
  /\ task' = [task EXCEPT ![m] =
                IF phase = "serve" /\ socket[Current] = "open" THEN "sent" ELSE "failed"]
  /\ UNCHANGED <<loopVars, socket, heartbeat, via>>

\* The answer is there (that it comes, while calls return, is Connector's matter) and is
\* sent with the req_id of its message.
Answer(m) ==
  /\ task[m] = "waiting"
  /\ task' = [task EXCEPT ![m] = IF socket[via[m]] = "open" THEN "sent" ELSE "failed"]
  /\ UNCHANGED <<loopVars, socket, heartbeat, via>>

-----------------------------------------------------------------------------

LoopStep ==
  \/ Connect \/ ConnectFails \/ Authenticated \/ AuthenticationFails
  \/ ReadFrame \/ ReadEnd \/ Wake

Next ==
  \/ LoopStep
  \/ AuthenticationTimesOut
  \/ \E c \in Connections : ServerCloses(c) \/ HeartbeatFails(c)
  \/ \E m \in Messages : Answer(m)

Spec == Init /\ [][Next]_vars

\* The timer of auth_timeout and the heartbeats' tickers are served; what the server does
\* is up to it.  That the answer a task waits for comes is assumed here: Connector says
\* when its wait ends.
FairSpec ==
  /\ Spec
  /\ WF_vars(AuthenticationTimesOut)
  /\ \A c \in Connections : WF_vars(HeartbeatFails(c))
  /\ \A m \in Messages : WF_vars(Answer(m))

-----------------------------------------------------------------------------
(* Properties *)

\* Failures of one kind since the last connection that ended cleanly.
Since(kind) ==
  Cardinality({i \in DOMAIN log : /\ log[i] = kind
                                  /\ \A j \in DOMAIN log : j > i => log[j] # "clean"})

Exhausted(kind) == limits[kind] >= 0 /\ Since(kind) > limits[kind]

\* The connector gives up exactly when its last connection failed for good, or one
\* kind of failure came more often than its limit since the last clean end.
\* Successful authentications in between do not count, a negative limit is none,
\* and requested reconnects count as failures (run_forever).
RetryBudget ==
  (phase = "ended") <=>
    \/ log # <<>> /\ log[Len(log)] = "fatal"
    \/ Exhausted("io")
    \/ Exhausted("auth")

\* A connection that is served, and that the server has not closed, has its heartbeat;
\* any other heartbeat that runs is of a connection that ended with an error after it
\* was authenticated, for a clean end leaves none behind (spawn_heartbeat, run_connection).
HeartbeatsExplained ==
  /\ phase = "serve" /\ socket[Current] = "open" => heartbeat[Current] = "running"
  /\ \A c \in Connections : heartbeat[c] = "running" =>
       \/ c = Current /\ phase = "serve"
       \/ c < Current /\ log[c] = "io"

\* A message is answered although the connector has reconnected since, unless the
\* server closed the connection it came on or the process ended
\* (process_inbound_message keeps the writer).
AnsweredAcrossReconnects ==
  \A m \in Messages :
    task[m] = "waiting" ~>
      task[m] = "sent" \/ phase = "ended" \/ (via[m] > 0 /\ socket[via[m]] = "closed")

=============================================================================
