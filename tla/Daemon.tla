------------------------------- MODULE Daemon -------------------------------
(***************************************************************************)
(* The life cycle of the gateway daemon and of the WeCom connector process *)
(* as the goldclaw command line manages it (apps/goldclaw/src/main.rs):    *)
(* start, stop, restart, status and `gateway run`.                         *)
(*                                                                         *)
(* What the commands know of the processes is in two files: runtime-state  *)
(* (written and removed by the gateway itself, removed by stop) and        *)
(* connector-wecom-state (written by start, removed by stop).  Commands    *)
(* and processes interleave; no lock protects the files.                   *)
(*                                                                         *)
(* A command starts at most one gateway and one connector, so these are    *)
(* named by the command: that is their pid, which is never used again.     *)
(* All gateways use the bind address of the configuration.                 *)
(***************************************************************************)
EXTENDS Naturals, FiniteSets

CONSTANTS
  Commands,    \* invocations of the command line
  Kinds,       \* the subcommands invoked
  Serial,      \* TRUE: one command or ctrl_c at a time, processes settled before
  CarefulRuns, \* TRUE: nobody runs `gateway run` while a gateway listens
  MaxDeaths,   \* bound on processes that die by themselves, and writes that fail
  None,
  Torn         \* a state file that was truncated and not written

ASSUME DaemonAssumption ==
  /\ None \notin Commands /\ Torn \notin Commands \cup {None}
  /\ Kinds \subseteq {"start", "stop", "restart", "status", "run"}
  /\ Serial \in BOOLEAN /\ CarefulRuns \in BOOLEAN
  /\ MaxDeaths \in Nat

VARIABLES
  kind,     \* the subcommand of each command
  pc,       \* where it is
  seen,     \* the pid it read from a state file
  said,     \* what it reported last
  late,     \* a process took longer than a command waits for it (not in the code)
  gw,       \* each gateway process
  port,     \* the gateway that listens on the bind address
  file,     \* pid in the runtime state file
  conn,     \* each connector process
  connFile, \* pid in the connector's state file
  unfiled,  \* the connectors whose pid was never written (not in the code)
  deaths

cmdVars  == <<kind, pc, seen, said, late>>
gwVars   == <<gw, port, file>>
connVars == <<conn, connFile, unfiled>>
vars == <<cmdVars, gwVars, connVars, deaths>>

Pid == Commands \cup {None}

CmdPc == {"idle", "stop_connector", "remove_connector", "stop", "kill", "remove",
          "start", "probe", "spawn", "wait", "check", "connector",
          "spawn_connector", "write_connector", "done"}

Report == {"nothing", "already", "started", "failed", "not_running", "stopped",
           "running", "stale", "status_stopped"}

TypeOK ==
  /\ kind \in [Commands -> Kinds \cup {None}]
  /\ pc \in [Commands -> CmdPc]
  /\ seen \in [Commands -> Pid]
  /\ said \in [Commands -> Report]
  /\ late \in BOOLEAN
  /\ gw \in [Commands -> {"none", "spawned", "writing", "wrote", "listening",
                          "draining", "dying", "dead"}]
  /\ port \in Pid
  /\ \A g \in Commands : gw[g] = "listening" => port = g
  /\ port # None => gw[port] \in {"listening", "dying"}
  /\ file \in Pid \cup {Torn}
  /\ conn \in [Commands -> {"none", "alive", "dying", "dead"}]
  /\ connFile \in Pid
  /\ unfiled \subseteq Commands
  /\ deaths \in 0..MaxDeaths

Init ==
  /\ kind = [c \in Commands |-> None]
  /\ pc = [c \in Commands |-> "idle"]
  /\ seen = [c \in Commands |-> None]
  /\ said = [c \in Commands |-> "nothing"]
  /\ late = FALSE
  /\ gw = [c \in Commands |-> "none"]
  /\ port = None
  /\ file = None
  /\ conn = [c \in Commands |-> "none"]
  /\ connFile = None
  /\ unfiled = {}
  /\ deaths = 0

Active(c) == pc[c] \notin {"idle", "done"}

Dying == \E p \in Commands : gw[p] = "dying" \/ conn[p] = "dying"

\* No command is at work and no process is starting or ending.
Quiet ==
  /\ \A c \in Commands : ~Active(c)
  /\ \A g \in Commands : gw[g] \in {"none", "listening", "dead"}
  /\ ~Dying

\* The port is probed, perhaps before a process that was told to end is gone.
ProbePort == late' = (late \/ Dying)

Runs(c)     == gw[c] \notin {"none", "dead"}
ConnRuns(c) == conn[c] \in {"alive", "dying"}

Goto(c, label) == pc' = [pc EXCEPT ![c] = label]
Say(c, report) == said' = [said EXCEPT ![c] = report]

-----------------------------------------------------------------------------
(* A command *)

FirstStep(k) ==
  CASE k \in {"stop", "restart"} -> "stop_connector"
    [] k \in {"start", "status"} -> "start"
    [] k = "run"                 -> "done"

\* `gateway run` is the gateway process itself, in the foreground.
Invoke(c, k) ==
  /\ pc[c] = "idle"
  /\ Serial => Quiet
  /\ k = "run" /\ CarefulRuns => port = None
  /\ kind' = [kind EXCEPT ![c] = k]
  /\ Goto(c, FirstStep(k))
  /\ gw' = IF k = "run" THEN [gw EXCEPT ![c] = "spawned"] ELSE gw
  /\ UNCHANGED <<seen, said, late, port, file, connVars, deaths>>

(* stop_wecom_connector *)

\* kill is sent to the pid on file, whether or not it is still a connector.
StopConnector(c) ==
  /\ pc[c] = "stop_connector"
  /\ IF connFile = None
     THEN Goto(c, "stop") /\ UNCHANGED conn
     ELSE /\ Goto(c, "remove_connector")
          /\ conn' = IF ConnRuns(connFile)
                     THEN [conn EXCEPT ![connFile] = "dying"] ELSE conn
  /\ UNCHANGED <<kind, seen, said, late, gwVars, connFile, unfiled, deaths>>

RemoveConnector(c) ==
  /\ pc[c] = "remove_connector"
  /\ connFile' = None
  /\ Goto(c, "stop")
  /\ UNCHANGED <<kind, seen, said, late, gwVars, conn, unfiled, deaths>>

(* stop_gateway *)

\* load_runtime_state reads what is no state, and ? ends the command.
TornFails(c) ==
  /\ pc[c] \in {"stop", "start"}
  /\ file = Torn
  /\ Say(c, "failed")
  /\ Goto(c, "done")
  /\ UNCHANGED <<kind, seen, late, gwVars, connVars, deaths>>

\* After stop_gateway()? restart goes on with start_gateway.
AfterStop(c) == IF kind[c] = "restart" THEN "start" ELSE "done"

StopReadsState(c) ==
  /\ pc[c] = "stop"
  /\ file # Torn
  /\ seen' = [seen EXCEPT ![c] = file]
  /\ IF file = None
     THEN Say(c, "not_running") /\ Goto(c, AfterStop(c))
     ELSE Goto(c, "kill") /\ UNCHANGED said
  /\ UNCHANGED <<kind, late, gwVars, connVars, deaths>>

\* Mutant: the process is asked for, not killed.
Kill_Signal0(c) ==
  /\ pc[c] = "kill"
  /\ IF Runs(seen[c])
     THEN Goto(c, "remove") /\ UNCHANGED said
     ELSE Say(c, "failed") /\ Goto(c, "done")
  /\ UNCHANGED <<kind, seen, late, gwVars, connVars, deaths>>

\* SIGTERM ends the gateway without its guard; kill fails for a dead pid.
Kill(c) ==
  /\ pc[c] = "kill"
  /\ IF Runs(seen[c])
     THEN /\ gw' = [gw EXCEPT ![seen[c]] = "dying"]
          /\ Goto(c, "remove")
          /\ UNCHANGED said
     ELSE /\ Say(c, "failed")
          /\ Goto(c, "done")
          /\ UNCHANGED gw
  /\ UNCHANGED <<kind, seen, late, port, file, connVars, deaths>>

RemoveState(c) ==
  /\ pc[c] = "remove"
  /\ file' = None
  /\ Say(c, "stopped")
  /\ Goto(c, AfterStop(c))
  /\ UNCHANGED <<kind, seen, late, gw, port, connVars, deaths>>

(* start_gateway; show_status begins the same way *)

ReadState(c) ==
  /\ pc[c] = "start"
  /\ file # Torn
  /\ seen' = [seen EXCEPT ![c] = file]
  /\ IF file # None THEN Goto(c, "probe") /\ UNCHANGED said
     ELSE IF kind[c] = "status" THEN Goto(c, "done") /\ Say(c, "status_stopped")
     ELSE Goto(c, "spawn") /\ UNCHANGED said
  /\ UNCHANGED <<kind, late, gwVars, connVars, deaths>>

\* Mutant: the state file alone decides.
Probe_FileOnly(c) ==
  /\ pc[c] = "probe"
  /\ ProbePort
  /\ Goto(c, "done")
  /\ Say(c, IF kind[c] = "status" THEN "running" ELSE "already")
  /\ UNCHANGED <<kind, seen, gwVars, connVars, deaths>>

\* port_open: does anything listen where the state file says?
Probe(c) ==
  /\ pc[c] = "probe"
  /\ ProbePort
  /\ \/ /\ port # None
        /\ Say(c, IF kind[c] = "status" THEN "running" ELSE "already")
        /\ Goto(c, "done")
     \/ /\ port = None
        /\ kind[c] = "status"
        /\ Say(c, "stale")
        /\ Goto(c, "done")
     \/ /\ port = None
        /\ kind[c] # "status"
        /\ Goto(c, "spawn")
        /\ UNCHANGED said
  /\ UNCHANGED <<kind, seen, gwVars, connVars, deaths>>

Spawn(c) ==
  /\ pc[c] = "spawn"
  /\ gw' = [gw EXCEPT ![c] = "spawned"]
  /\ Goto(c, "wait")
  /\ UNCHANGED <<kind, seen, said, late, port, file, connVars, deaths>>

\* One of 20 probes finds the port open, whoever listens there.
WaitSucceeds(c) ==
  /\ pc[c] = "wait"
  /\ ProbePort
  /\ port # None
  /\ Say(c, "started")
  /\ Goto(c, "check")
  /\ UNCHANGED <<kind, seen, gwVars, connVars, deaths>>

\* Mutant: start waits until its gateway listens.
WaitExpires_Never(c) ==
  /\ pc[c] = "wait"
  /\ port = c
  /\ UNCHANGED vars

\* The last probe has found nothing.
WaitExpires(c) ==
  /\ pc[c] = "wait"
  /\ port = None
  /\ late' = (late \/ gw[c] \in {"spawned", "writing", "wrote"})
  /\ Goto(c, "check")
  /\ UNCHANGED <<kind, seen, said, gwVars, connVars, deaths>>

\* The port is probed once more, after either end of the loop.
CheckPort(c) ==
  /\ pc[c] = "check"
  /\ ProbePort
  /\ IF port # None
     THEN Goto(c, "connector") /\ UNCHANGED said
     ELSE Goto(c, "done") /\ Say(c, "failed")
  /\ UNCHANGED <<kind, seen, gwVars, connVars, deaths>>

(* start_wecom_connector *)

\* Mutant: only a missing file means that no connector runs.
FindConnector_FileGone(c) ==
  /\ pc[c] = "connector"
  /\ Goto(c, "spawn_connector")
  /\ UNCHANGED <<kind, seen, said, late, gwVars, connVars, deaths>>

\* kill -0 on the pid on file.
FindConnector(c) ==
  /\ pc[c] = "connector"
  /\ Goto(c, IF connFile # None /\ ConnRuns(connFile)
             THEN "done" ELSE "spawn_connector")
  /\ UNCHANGED <<kind, seen, said, late, gwVars, connVars, deaths>>

SpawnConnector(c) ==
  /\ pc[c] = "spawn_connector"
  /\ conn' = [conn EXCEPT ![c] = "alive"]
  /\ Goto(c, "write_connector")
  /\ UNCHANGED <<kind, seen, said, late, gwVars, connFile, unfiled, deaths>>

WriteConnector(c) ==
  /\ pc[c] = "write_connector"
  /\ connFile' = c
  /\ Goto(c, "done")
  /\ UNCHANGED <<kind, seen, said, late, gwVars, conn, unfiled, deaths>>

\* fs::write fails, or start is killed before it: the connector runs, and what is
\* on file is the dead one's pid or (truncated) none that can be read.
LoseConnector(c) ==
  /\ deaths < MaxDeaths
  /\ pc[c] = "write_connector"
  /\ deaths' = deaths + 1
  /\ unfiled' = unfiled \cup {c}
  /\ connFile' \in {connFile, None}
  /\ Goto(c, "done")
  /\ UNCHANGED <<kind, seen, said, late, gwVars, conn>>

-----------------------------------------------------------------------------
(* A gateway process: gateway_run *)

\* fs::write truncates the file ...
TruncateState(g) ==
  /\ gw[g] = "spawned"
  /\ file' = Torn
  /\ gw' = [gw EXCEPT ![g] = "writing"]
  /\ UNCHANGED <<port, cmdVars, connVars, deaths>>

\* ... and then writes it.
WriteState(g) ==
  /\ gw[g] = "writing"
  /\ file' = g
  /\ gw' = [gw EXCEPT ![g] = "wrote"]
  /\ UNCHANGED <<port, cmdVars, connVars, deaths>>

\* The runtime is built and the address is free.
Listen(g) ==
  /\ gw[g] = "wrote"
  /\ port = None
  /\ port' = g
  /\ gw' = [gw EXCEPT ![g] = "listening"]
  /\ UNCHANGED <<file, cmdVars, connVars, deaths>>

\* build_runtime or bind fails: gateway_run returns, and its guard removes the
\* state file that is there.
GiveUp(g) ==
  /\ gw[g] = "wrote"
  /\ file' = None
  /\ gw' = [gw EXCEPT ![g] = "dead"]
  /\ UNCHANGED <<port, cmdVars, connVars, deaths>>

\* Mutant: the listener stays open until the last connection ends.
Interrupt_StillListening(g) ==
  /\ gw[g] = "listening"
  /\ kind[g] = "run"
  /\ gw' = [gw EXCEPT ![g] = "draining"]
  /\ UNCHANGED <<port, file, cmdVars, connVars, deaths>>

\* ctrl_c in the terminal of `gateway run`: the listener closes, open connections
\* are served to their end ...
Interrupt(g) ==
  /\ gw[g] = "listening"
  /\ kind[g] = "run"
  /\ Serial => \A c \in Commands : ~Active(c)
  /\ port' = None
  /\ gw' = [gw EXCEPT ![g] = "draining"]
  /\ UNCHANGED <<file, cmdVars, connVars, deaths>>

\* ... and the guard removes the state file that is there then.
Drained(g) ==
  /\ gw[g] = "draining"
  /\ file' = None
  /\ gw' = [gw EXCEPT ![g] = "dead"]
  /\ UNCHANGED <<port, cmdVars, connVars, deaths>>

Free(g) == port' = IF port = g THEN None ELSE port

Die(g) ==
  /\ gw[g] = "dying"
  /\ gw' = [gw EXCEPT ![g] = "dead"]
  /\ Free(g)
  /\ UNCHANGED <<file, cmdVars, connVars, deaths>>

\* A gateway is killed by the system or panics before its guard can act, or fails
\* to write its state, before there is a guard.
Crash(g) ==
  /\ deaths < MaxDeaths
  /\ gw[g] \in {"spawned", "writing", "wrote", "listening", "draining"}
  /\ deaths' = deaths + 1
  /\ gw' = [gw EXCEPT ![g] = "dead"]
  /\ Free(g)
  /\ UNCHANGED <<file, cmdVars, connVars>>

ConnectorDies(g) ==
  /\ conn[g] = "dying"
  /\ conn' = [conn EXCEPT ![g] = "dead"]
  /\ UNCHANGED <<cmdVars, gwVars, connFile, unfiled, deaths>>

\* run_forever returned an error, or the system killed the connector.
ConnectorEnds(g) ==
  /\ deaths < MaxDeaths
  /\ conn[g] = "alive"
  /\ deaths' = deaths + 1
  /\ conn' = [conn EXCEPT ![g] = "dead"]
  /\ UNCHANGED <<cmdVars, gwVars, connFile, unfiled>>

-----------------------------------------------------------------------------

CommandStep(c) ==
  \/ StopConnector(c) \/ RemoveConnector(c)
  \/ TornFails(c) \/ StopReadsState(c) \/ Kill(c) \/ RemoveState(c)
  \/ ReadState(c) \/ Probe(c) \/ Spawn(c)
  \/ WaitSucceeds(c) \/ WaitExpires(c) \/ CheckPort(c)
  \/ FindConnector(c) \/ SpawnConnector(c) \/ WriteConnector(c) \/ LoseConnector(c)

GatewayStep(g) ==
  \/ TruncateState(g) \/ WriteState(g) \/ Listen(g) \/ GiveUp(g)
  \/ Drained(g) \/ Die(g)

Next ==
  \E p \in Commands :
    \/ \E k \in Kinds : Invoke(p, k)
    \/ CommandStep(p)
    \/ GatewayStep(p)
    \/ Interrupt(p) \/ Crash(p)
    \/ ConnectorDies(p) \/ ConnectorEnds(p)

Spec == Init /\ [][Next]_vars

\* The system runs every process; a draining gateway may wait for ever for an
\* event stream to close.
FairSpec ==
  /\ Spec
  /\ \A p \in Commands :
       /\ WF_vars(CommandStep(p))
       /\ WF_vars(\/ TruncateState(p) \/ WriteState(p) \/ Listen(p) \/ GiveUp(p)
                  \/ Die(p))
       /\ WF_vars(ConnectorDies(p))

-----------------------------------------------------------------------------
(* Properties *)

\* Once things have settled the state file names every gateway process there
\* is, so that stop, status and the next start find it (load_runtime_state).
ServerOnFile == Quiet => \A g \in Commands : Runs(g) => file = g

\* The connector is never started twice, so that no message is answered twice,
\* and the next stop finds it (start_wecom_connector, stop_wecom_connector), save
\* one whose pid could not be written.
OneConnector ==
  /\ Cardinality({p \in Commands \ unfiled : conn[p] = "alive"}) <= 1
  /\ Quiet => \A p \in Commands \ unfiled : ConnRuns(p) => connFile = p

\* A gateway that was not told to end.
Live(g) == gw[g] \in {"spawned", "writing", "wrote", "listening", "draining"}

\* What a command reports is so when it reports it: a started gateway is its own and
\* listens; after a stop, and after a failure, no gateway is left that was not told
\* to end (stop does not wait for it: it may hold the port a while longer).  Unless a
\* gateway has taken longer to start than start waits, or a killed process longer to
\* end than a command takes to probe the port.
ReportTrue(c) ==
  CASE said[c] = "started"                -> port = c
    [] said[c] \in {"already", "running"} -> port # None
    [] said[c] \in {"stale", "status_stopped",
                    "not_running"}        -> port = None
    [] said[c] \in {"stopped", "failed"}  -> \A g \in Commands : ~Live(g)
    [] OTHER                              -> TRUE

ReportsTrue ==
  [][\A c \in Commands : ~late' /\ said'[c] # said[c] => ReportTrue(c)']_vars

\* No command waits for ever, whatever becomes of the processes.
CommandsEnd == \A c \in Commands : Active(c) ~> ~Active(c)

-----------------------------------------------------------------------------
(* The inductive invariant behind the safety properties (DaemonProofs)         *)

\* start has spawned its gateway.
Spawned == {"wait", "check", "connector", "spawn_connector", "write_connector"}

\* A command that has not spawned a gateway yet has none.
Fresh == \A c \in Commands : pc[c] \notin Spawned \cup {"done"} => gw[c] = "none"

TypeInv == TypeOK /\ Fresh

\* Commands run one after the other, and each from a settled system: while it
\* stops things none is ending, a command that asks for the status ends nothing,
\* and only a gateway run by hand drains.
CommandInv ==
  /\ \A c, d \in Commands : Active(c) /\ Active(d) => c = d
  /\ \A c \in Commands :
       kind[c] = "status" => pc[c] \in {"idle", "start", "probe", "done"}
  /\ \A c \in Commands : kind[c] = "run" => pc[c] \in {"idle", "done"}
  /\ \A g \in Commands : gw[g] = "draining" => kind[g] = "run"
  /\ \A c \in Commands :
       \/ pc[c] \in {"stop_connector", "remove_connector", "stop", "kill"}
       \/ pc[c] \in {"start", "probe"} /\ kind[c] = "status"
       => \A g \in Commands : gw[g] # "dying"

\* There is one gateway at a time that was not told to end, and the state file
\* names it from its first write on.  What a command finds while it is at work is
\* a gateway that listens, or the one it has started itself.
GatewayInv ==
  /\ \A g, h \in Commands : Live(g) /\ Live(h) => g = h
  /\ \A g \in Commands : gw[g] \in {"wrote", "listening", "draining"} => file = g
  /\ \A c, g \in Commands : Active(c) /\ Live(g) =>
       /\ gw[g] = "listening" \/ pc[c] \in Spawned
       /\ pc[c] \notin {"remove", "spawn"}
       /\ pc[c] \in Spawned => g = c
  /\ \A c \in Commands : pc[c] = "kill" => seen[c] = file /\ seen[c] # None
  /\ \A c \in Commands :
       pc[c] = "remove" => seen[c] # None /\ gw[seen[c]] \in {"dying", "dead"}

\* A connector whose pid was written, or is still to be.
Alive(p) == p \notin unfiled /\ conn[p] = "alive"

\* There is one such connector at a time that was not told to end, and its file names
\* it, except while start is about to write it.
ConnectorInv ==
  /\ \A p, q \in Commands : Alive(p) /\ Alive(q) => p = q
  /\ \A p \in Commands : Alive(p) => connFile = p \/ pc[p] = "write_connector"
  /\ \A c, p \in Commands :
       /\ pc[c] \in {"remove_connector", "spawn_connector"} => ~Alive(p)
       /\ pc[c] = "write_connector" /\ Alive(p) => p = c

IndInv == TypeInv /\ CommandInv /\ GatewayInv /\ ConnectorInv

\* As long as no process has taken longer than commands wait, a command is past its
\* wait only when the gateway there is listens.
WaitedInv ==
  ~late => \A c, g \in Commands :
    Active(c) /\ Live(g) /\ pc[c] # "wait" => gw[g] = "listening"

=============================================================================
