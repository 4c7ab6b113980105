---------------------------- MODULE DaemonProofs ----------------------------
(***************************************************************************)
(* Proofs about Daemon, for any number of commands, of processes that die  *)
(* by themselves and of writes that fail: the state files name the         *)
(* processes there are, when commands run one after the other and no       *)
(* gateway is run by hand beside a listening one; and what commands report *)
(* is so, until a process takes longer than commands wait (WaitedInv).     *)
(*                                                                         *)
(* A command decides by what it reads (a state file, a port, a pid) and    *)
(* acts some steps later.  That is right because in between it is the only *)
(* one to act (CommandInv), so what it read is still so: GatewayInv says   *)
(* for every step of a command which gateways there may be, ConnectorInv   *)
(* which connectors.                                                       *)
(***************************************************************************)
EXTENDS Daemon, FiniteSetTheorems, TLAPS

USE DaemonAssumption DEF DaemonAssumption
USE DEF cmdVars, gwVars, connVars

(* Types *)

\* Nothing has been started, and every command is still to be invoked.
LEMMA TypeInit == Init => TypeInv
  <1>1. Init => deaths \in 0..MaxDeaths
    BY DEF Init
  <1>2. Init => late \in BOOLEAN
    BY Zenon DEF Init
  <1>3. Init => /\ pc \in [Commands -> CmdPc]
                /\ said \in [Commands -> Report]
    BY DEF Init, CmdPc, Report
  <1>4. Init => Fresh
    BY DEF Init, Fresh
  <1>5. Init => TypeOK
    BY <1>1, <1>2, <1>3 DEF Init, TypeOK, Pid
  <1> QED BY <1>4, <1>5 DEF TypeInv

\* Every step keeps the types; the bind address is one gateway's at a time, and a
\* command has no gateway before it spawns one.
LEMMA TypeStep ==
  ASSUME TypeInv, [Next]_vars
  PROVE  TypeInv'
  <1>1. ASSUME NEW p \in Commands, NEW k \in Kinds, Invoke(p, k) PROVE TypeInv'
    BY <1>1 DEF Invoke, FirstStep, Goto, TypeInv, TypeOK, Fresh, Spawned, CmdPc
  <1>2. ASSUME NEW p \in Commands, StopConnector(p) PROVE TypeInv'
    BY <1>2 DEF StopConnector, Goto, TypeInv, TypeOK, Fresh, Spawned, CmdPc
  <1>3. ASSUME NEW p \in Commands, RemoveConnector(p) PROVE TypeInv'
    BY <1>3 DEF RemoveConnector, Goto, TypeInv, TypeOK, Fresh, Spawned, Pid, CmdPc
  <1>4. ASSUME NEW p \in Commands, TornFails(p) PROVE TypeInv'
    BY <1>4 DEF TornFails, Goto, Say, TypeInv, TypeOK, Fresh, Spawned, CmdPc, Report
  <1>5. ASSUME NEW p \in Commands, StopReadsState(p) PROVE TypeInv'
    BY <1>5
       DEF StopReadsState, AfterStop, Goto, Say, TypeInv, TypeOK, Fresh, Spawned,
           CmdPc, Report
  <1>6. ASSUME NEW p \in Commands, Kill(p) PROVE TypeInv'
    BY <1>6
       DEF Kill, Runs, Goto, Say, TypeInv, TypeOK, Fresh, Spawned, Pid, CmdPc, Report
  <1>7. ASSUME NEW p \in Commands, RemoveState(p) PROVE TypeInv'
    BY <1>7
       DEF RemoveState, AfterStop, Goto, Say, TypeInv, TypeOK, Fresh, Spawned, Pid,
           CmdPc, Report
  <1>8. ASSUME NEW p \in Commands, ReadState(p) PROVE TypeInv'
    BY <1>8 DEF ReadState, Goto, Say, TypeInv, TypeOK, Fresh, Spawned, CmdPc, Report
  <1>9. ASSUME NEW p \in Commands, Probe(p) PROVE TypeInv'
    BY <1>9
       DEF Probe, ProbePort, Dying, Goto, Say, TypeInv, TypeOK, Fresh, Spawned, CmdPc,
           Report
  <1>10. ASSUME NEW p \in Commands, Spawn(p) PROVE TypeInv'
    BY <1>10 DEF Spawn, Goto, TypeInv, TypeOK, Fresh, Spawned, CmdPc
  <1>11. ASSUME NEW p \in Commands, WaitSucceeds(p) PROVE TypeInv'
    BY <1>11
       DEF WaitSucceeds, ProbePort, Dying, Goto, Say, TypeInv, TypeOK, Fresh, Spawned,
           CmdPc, Report
  <1>12. ASSUME NEW p \in Commands, WaitExpires(p) PROVE TypeInv'
    BY <1>12 DEF WaitExpires, Goto, TypeInv, TypeOK, Fresh, Spawned, CmdPc
  <1>13. ASSUME NEW p \in Commands, CheckPort(p) PROVE TypeInv'
    BY <1>13
       DEF CheckPort, ProbePort, Dying, Goto, Say, TypeInv, TypeOK, Fresh, Spawned,
           CmdPc, Report
  <1>14. ASSUME NEW p \in Commands, FindConnector(p) PROVE TypeInv'
    BY <1>14 DEF FindConnector, Goto, TypeInv, TypeOK, Fresh, Spawned, CmdPc
  <1>15. ASSUME NEW p \in Commands, SpawnConnector(p) PROVE TypeInv'
    BY <1>15 DEF SpawnConnector, Goto, TypeInv, TypeOK, Fresh, Spawned, CmdPc
  <1>16. ASSUME NEW p \in Commands, WriteConnector(p) PROVE TypeInv'
    BY <1>16 DEF WriteConnector, Goto, TypeInv, TypeOK, Fresh, Spawned, Pid, CmdPc
  <1>17. ASSUME NEW p \in Commands, LoseConnector(p) PROVE TypeInv'
    BY <1>17 DEF LoseConnector, Goto, TypeInv, TypeOK, Fresh, Spawned, Pid, CmdPc
  <1>18. ASSUME NEW p \in Commands, TruncateState(p) PROVE TypeInv'
    BY <1>18 DEF TruncateState, TypeInv, TypeOK, Fresh, Spawned, Pid
  <1>19. ASSUME NEW p \in Commands, WriteState(p) PROVE TypeInv'
    BY <1>19 DEF WriteState, TypeInv, TypeOK, Fresh, Spawned, Pid
  <1>20. ASSUME NEW p \in Commands, Listen(p) PROVE TypeInv'
    BY <1>20 DEF Listen, TypeInv, TypeOK, Fresh, Spawned, Pid
  <1>21. ASSUME NEW p \in Commands, GiveUp(p) PROVE TypeInv'
    BY <1>21 DEF GiveUp, TypeInv, TypeOK, Fresh, Spawned, Pid
  <1>22. ASSUME NEW p \in Commands, Drained(p) PROVE TypeInv'
    BY <1>22 DEF Drained, TypeInv, TypeOK, Fresh, Spawned, Pid
  <1>23. ASSUME NEW p \in Commands, Die(p) PROVE TypeInv'
    BY <1>23 DEF Die, Free, TypeInv, TypeOK, Fresh, Spawned, Pid
  <1>24. ASSUME NEW p \in Commands, Interrupt(p) PROVE TypeInv'
    BY <1>24 DEF Interrupt, TypeInv, TypeOK, Fresh, Spawned, Pid
  <1>25. ASSUME NEW p \in Commands, Crash(p) PROVE TypeInv'
    BY <1>25 DEF Crash, Free, TypeInv, TypeOK, Fresh, Spawned, Pid
  <1>26. ASSUME NEW p \in Commands, ConnectorDies(p) PROVE TypeInv'
    BY <1>26 DEF ConnectorDies, TypeInv, TypeOK, Fresh, Spawned
  <1>27. ASSUME NEW p \in Commands, ConnectorEnds(p) PROVE TypeInv'
    BY <1>27 DEF ConnectorEnds, TypeInv, TypeOK, Fresh, Spawned
  <1>28. CASE UNCHANGED vars
    BY <1>28 DEF vars, TypeInv, TypeOK, Fresh, Spawned
  <1> QED
    BY <1>1, <1>2, <1>3, <1>4, <1>5, <1>6, <1>7, <1>8, <1>9, <1>10, <1>11,
       <1>12, <1>13, <1>14, <1>15, <1>16, <1>17, <1>18, <1>19, <1>20, <1>21,
       <1>22, <1>23, <1>24, <1>25, <1>26, <1>27, <1>28
       DEF Next, CommandStep, GatewayStep

\* The types, and who holds the bind address, whatever commands run at once.
THEOREM DaemonTypes == Spec => []TypeOK
  <1>1. TypeInv => TypeOK
    BY DEF TypeInv
  <1> QED BY <1>1, TypeInit, TypeStep, PTL DEF Spec

-----------------------------------------------------------------------------
(* The inductive invariant *)

\* No command is at work, and nothing is ending.
LEMMA CommandInit == Init => CommandInv
  BY DEF Init, CommandInv, Active

\* Commands are invoked when the last one is done and the processes have settled.
LEMMA CommandSteps ==
  ASSUME Serial, CarefulRuns,
         TypeInv, CommandInv, [Next]_vars
  PROVE  CommandInv'
  <1>1. ASSUME NEW p \in Commands, NEW k \in Kinds, Invoke(p, k) PROVE CommandInv'
    BY <1>1 DEF Invoke, FirstStep, Quiet, Goto, CommandInv, Active, TypeInv, TypeOK
  <1>2. ASSUME NEW p \in Commands, StopConnector(p) PROVE CommandInv'
    BY <1>2 DEF StopConnector, Goto, CommandInv, Active, TypeInv, TypeOK
  <1>3. ASSUME NEW p \in Commands, RemoveConnector(p) PROVE CommandInv'
    BY <1>3 DEF RemoveConnector, Goto, CommandInv, Active
  <1>4. ASSUME NEW p \in Commands, TornFails(p) PROVE CommandInv'
    BY <1>4 DEF TornFails, Goto, CommandInv, Active
  <1>5. ASSUME NEW p \in Commands, StopReadsState(p) PROVE CommandInv'
    BY <1>5 DEF StopReadsState, Goto, CommandInv, Active, TypeInv, TypeOK
  <1>6. ASSUME NEW p \in Commands, Kill(p) PROVE CommandInv'
    BY <1>6 DEF Kill, Goto, CommandInv, Active, TypeInv, TypeOK
  <1>7. ASSUME NEW p \in Commands, RemoveState(p) PROVE CommandInv'
    BY <1>7 DEF RemoveState, AfterStop, Goto, CommandInv, Active
  <1>8. ASSUME NEW p \in Commands, ReadState(p) PROVE CommandInv'
    BY <1>8 DEF ReadState, Goto, CommandInv, Active, TypeInv, TypeOK
  <1>9. ASSUME NEW p \in Commands, Probe(p) PROVE CommandInv'
    BY <1>9 DEF Probe, ProbePort, Dying, Goto, CommandInv, Active, TypeInv, TypeOK
  <1>10. ASSUME NEW p \in Commands, Spawn(p) PROVE CommandInv'
    BY <1>10 DEF Spawn, Goto, CommandInv, Active
  <1>11. ASSUME NEW p \in Commands, WaitSucceeds(p) PROVE CommandInv'
    BY <1>11 DEF WaitSucceeds, ProbePort, Dying, Goto, CommandInv, Active
  <1>12. ASSUME NEW p \in Commands, WaitExpires(p) PROVE CommandInv'
    BY <1>12 DEF WaitExpires, Goto, CommandInv, Active, TypeInv, TypeOK
  <1>13. ASSUME NEW p \in Commands, CheckPort(p) PROVE CommandInv'
    BY <1>13
       DEF CheckPort, ProbePort, Dying, Goto, CommandInv, Active, TypeInv, TypeOK
  <1>14. ASSUME NEW p \in Commands, FindConnector(p) PROVE CommandInv'
    BY <1>14 DEF FindConnector, Goto, CommandInv, Active
  <1>15. ASSUME NEW p \in Commands, SpawnConnector(p) PROVE CommandInv'
    BY <1>15 DEF SpawnConnector, Goto, CommandInv, Active
  <1>16. ASSUME NEW p \in Commands, WriteConnector(p) PROVE CommandInv'
    BY <1>16 DEF WriteConnector, Goto, CommandInv, Active
  <1>17. ASSUME NEW p \in Commands, LoseConnector(p) PROVE CommandInv'
    BY <1>17 DEF LoseConnector, Goto, CommandInv, Active
  <1>18. ASSUME NEW p \in Commands, TruncateState(p) PROVE CommandInv'
    BY <1>18 DEF TruncateState, CommandInv, Active
  <1>19. ASSUME NEW p \in Commands, WriteState(p) PROVE CommandInv'
    BY <1>19 DEF WriteState, CommandInv, Active
  <1>20. ASSUME NEW p \in Commands, Listen(p) PROVE CommandInv'
    BY <1>20 DEF Listen, CommandInv, Active
  <1>21. ASSUME NEW p \in Commands, GiveUp(p) PROVE CommandInv'
    BY <1>21 DEF GiveUp, CommandInv, Active
  <1>22. ASSUME NEW p \in Commands, Drained(p) PROVE CommandInv'
    BY <1>22 DEF Drained, CommandInv, Active
  <1>23. ASSUME NEW p \in Commands, Die(p) PROVE CommandInv'
    BY <1>23 DEF Die, CommandInv, Active
  <1>24. ASSUME NEW p \in Commands, Interrupt(p) PROVE CommandInv'
    BY <1>24 DEF Interrupt, CommandInv, Active
  <1>25. ASSUME NEW p \in Commands, Crash(p) PROVE CommandInv'
    BY <1>25 DEF Crash, CommandInv, Active
  <1>26. ASSUME NEW p \in Commands, ConnectorDies(p) PROVE CommandInv'
    BY <1>26 DEF ConnectorDies, CommandInv, Active
  <1>27. ASSUME NEW p \in Commands, ConnectorEnds(p) PROVE CommandInv'
    BY <1>27 DEF ConnectorEnds, CommandInv, Active
  <1>28. CASE UNCHANGED vars
    BY <1>28 DEF vars, CommandInv, Active
  <1> QED
    BY <1>1, <1>2, <1>3, <1>4, <1>5, <1>6, <1>7, <1>8, <1>9, <1>10, <1>11,
       <1>12, <1>13, <1>14, <1>15, <1>16, <1>17, <1>18, <1>19, <1>20, <1>21,
       <1>22, <1>23, <1>24, <1>25, <1>26, <1>27, <1>28
       DEF Next, CommandStep, GatewayStep

\* There is no gateway.
LEMMA GatewayInit == Init => GatewayInv
  BY DEF Init, GatewayInv, Live

\* A gateway is spawned only where none is left, and removes the state file only
\* while it is the only one.
LEMMA GatewaySteps ==
  ASSUME Serial, CarefulRuns,
         TypeInv, CommandInv, GatewayInv, [Next]_vars
  PROVE  GatewayInv'
  <1>1. ASSUME NEW p \in Commands, NEW k \in Kinds, Invoke(p, k) PROVE GatewayInv'
    BY <1>1
       DEF Invoke, FirstStep, Quiet, Goto, GatewayInv, Live, Active, Spawned, TypeInv,
           TypeOK
  <1>2. ASSUME NEW p \in Commands, StopConnector(p) PROVE GatewayInv'
    BY <1>2
       DEF StopConnector, Goto, GatewayInv, Live, Active, Spawned, TypeInv, TypeOK
  <1>3. ASSUME NEW p \in Commands, RemoveConnector(p) PROVE GatewayInv'
    BY <1>3 DEF RemoveConnector, Goto, GatewayInv, Live, Active, Spawned
  <1>4. ASSUME NEW p \in Commands, TornFails(p) PROVE GatewayInv'
    BY <1>4 DEF TornFails, Goto, GatewayInv, Live, Active, Spawned, TypeInv, TypeOK
  <1>5. ASSUME NEW p \in Commands, StopReadsState(p) PROVE GatewayInv'
    BY <1>5
       DEF StopReadsState, AfterStop, Goto, GatewayInv, Live, Active, Spawned,
           TypeInv, TypeOK
  <1>6. ASSUME NEW p \in Commands, Kill(p) PROVE GatewayInv'
    BY <1>6 DEF Kill, Goto, GatewayInv, Live, Active, Spawned, TypeInv, TypeOK, Pid
  <1>7. ASSUME NEW p \in Commands, RemoveState(p) PROVE GatewayInv'
    BY <1>7
       DEF RemoveState, AfterStop, Goto, CommandInv, GatewayInv, Live, Active, Spawned
  <1>8. ASSUME NEW p \in Commands, ReadState(p) PROVE GatewayInv'
    BY <1>8 DEF ReadState, Goto, GatewayInv, Live, Active, Spawned, TypeInv, TypeOK
  <1>9. ASSUME NEW p \in Commands, Probe(p) PROVE GatewayInv'
    BY <1>9
       DEF Probe, ProbePort, Dying, Goto, GatewayInv, Live, Active, Spawned, TypeInv,
           TypeOK
  <1>10. ASSUME NEW p \in Commands, Spawn(p) PROVE GatewayInv'
    BY <1>10
       DEF Spawn, Goto, CommandInv, GatewayInv, Live, Active, Spawned, TypeInv, TypeOK
  <1>11. ASSUME NEW p \in Commands, WaitSucceeds(p) PROVE GatewayInv'
    BY <1>11
       DEF WaitSucceeds, ProbePort, Dying, Goto, GatewayInv, Live, Active, Spawned,
           TypeInv, TypeOK, Pid
  <1>12. ASSUME NEW p \in Commands, WaitExpires(p) PROVE GatewayInv'
    BY <1>12
       DEF WaitExpires, Goto, CommandInv, GatewayInv, Live, Active, Spawned, TypeInv,
           TypeOK
  <1>13. ASSUME NEW p \in Commands, CheckPort(p) PROVE GatewayInv'
    BY <1>13
       DEF CheckPort, ProbePort, Dying, Goto, GatewayInv, Live, Active, Spawned,
           TypeInv, TypeOK
  <1>14. ASSUME NEW p \in Commands, FindConnector(p) PROVE GatewayInv'
    BY <1>14 DEF FindConnector, Goto, GatewayInv, Live, Active, Spawned
  <1>15. ASSUME NEW p \in Commands, SpawnConnector(p) PROVE GatewayInv'
    BY <1>15 DEF SpawnConnector, Goto, GatewayInv, Live, Active, Spawned
  <1>16. ASSUME NEW p \in Commands, WriteConnector(p) PROVE GatewayInv'
    BY <1>16 DEF WriteConnector, Goto, GatewayInv, Live, Active, Spawned
  <1>17. ASSUME NEW p \in Commands, LoseConnector(p) PROVE GatewayInv'
    BY <1>17 DEF LoseConnector, Goto, GatewayInv, Live, Active, Spawned
  <1>18. ASSUME NEW p \in Commands, TruncateState(p) PROVE GatewayInv'
    BY <1>18 DEF TruncateState, GatewayInv, Live, Active, Spawned, TypeInv, TypeOK
  <1>19. ASSUME NEW p \in Commands, WriteState(p) PROVE GatewayInv'
    BY <1>19 DEF WriteState, GatewayInv, Live, Active, Spawned
  <1>20. ASSUME NEW p \in Commands, Listen(p) PROVE GatewayInv'
    BY <1>20 DEF Listen, GatewayInv, Live, Active, Spawned
  <1>21. ASSUME NEW p \in Commands, GiveUp(p) PROVE GatewayInv'
    BY <1>21 DEF GiveUp, GatewayInv, Live, Active, Spawned, TypeInv, TypeOK
  <1>22. ASSUME NEW p \in Commands, Drained(p) PROVE GatewayInv'
    BY <1>22 DEF Drained, GatewayInv, Live, Active, Spawned, TypeInv, TypeOK
  <1>23. ASSUME NEW p \in Commands, Die(p) PROVE GatewayInv'
    BY <1>23 DEF Die, GatewayInv, Live, Active, Spawned
  <1>24. ASSUME NEW p \in Commands, Interrupt(p) PROVE GatewayInv'
    BY <1>24 DEF Interrupt, GatewayInv, Live, Active, Spawned
  <1>25. ASSUME NEW p \in Commands, Crash(p) PROVE GatewayInv'
    BY <1>25 DEF Crash, GatewayInv, Live, Active, Spawned
  <1>26. ASSUME NEW p \in Commands, ConnectorDies(p) PROVE GatewayInv'
    BY <1>26 DEF ConnectorDies, GatewayInv, Live, Active, Spawned
  <1>27. ASSUME NEW p \in Commands, ConnectorEnds(p) PROVE GatewayInv'
    BY <1>27 DEF ConnectorEnds, GatewayInv, Live, Active, Spawned
  <1>28. CASE UNCHANGED vars
    BY <1>28 DEF vars, GatewayInv, Live, Active, Spawned
  <1> QED
    BY <1>1, <1>2, <1>3, <1>4, <1>5, <1>6, <1>7, <1>8, <1>9, <1>10, <1>11,
       <1>12, <1>13, <1>14, <1>15, <1>16, <1>17, <1>18, <1>19, <1>20, <1>21,
       <1>22, <1>23, <1>24, <1>25, <1>26, <1>27, <1>28
       DEF Next, CommandStep, GatewayStep

\* There is no connector.
LEMMA ConnectorInit == Init => ConnectorInv
  BY DEF Init, ConnectorInv, Alive

\* A connector is spawned only where none is left, and its pid is written before the
\* next command reads it.
LEMMA ConnectorSteps ==
  ASSUME Serial, CarefulRuns,
         TypeInv, CommandInv, ConnectorInv, [Next]_vars
  PROVE  ConnectorInv'
  <1>1. ASSUME NEW p \in Commands, NEW k \in Kinds, Invoke(p, k) PROVE ConnectorInv'
    BY <1>1 DEF Invoke, FirstStep, Goto, ConnectorInv, Alive
  <1>2. ASSUME NEW p \in Commands, StopConnector(p) PROVE ConnectorInv'
    BY <1>2
       DEF StopConnector, ConnRuns, CommandInv, ConnectorInv, Alive, Active,
           TypeInv, TypeOK
  <1>3. ASSUME NEW p \in Commands, RemoveConnector(p) PROVE ConnectorInv'
    BY <1>3 DEF RemoveConnector, ConnectorInv, Alive
  <1>4. ASSUME NEW p \in Commands, TornFails(p) PROVE ConnectorInv'
    BY <1>4 DEF TornFails, Goto, ConnectorInv, Alive, TypeInv, TypeOK
  <1>5. ASSUME NEW p \in Commands, StopReadsState(p) PROVE ConnectorInv'
    BY <1>5
       DEF StopReadsState, AfterStop, Goto, ConnectorInv, Alive, TypeInv, TypeOK
  <1>6. ASSUME NEW p \in Commands, Kill(p) PROVE ConnectorInv'
    BY <1>6 DEF Kill, Goto, ConnectorInv, Alive, TypeInv, TypeOK
  <1>7. ASSUME NEW p \in Commands, RemoveState(p) PROVE ConnectorInv'
    BY <1>7 DEF RemoveState, AfterStop, Goto, ConnectorInv, Alive
  <1>8. ASSUME NEW p \in Commands, ReadState(p) PROVE ConnectorInv'
    BY <1>8 DEF ReadState, Goto, ConnectorInv, Alive, TypeInv, TypeOK
  <1>9. ASSUME NEW p \in Commands, Probe(p) PROVE ConnectorInv'
    BY <1>9 DEF Probe, ProbePort, Dying, Goto, ConnectorInv, Alive, TypeInv, TypeOK
  <1>10. ASSUME NEW p \in Commands, Spawn(p) PROVE ConnectorInv'
    BY <1>10 DEF Spawn, Goto, ConnectorInv, Alive
  <1>11. ASSUME NEW p \in Commands, WaitSucceeds(p) PROVE ConnectorInv'
    BY <1>11 DEF WaitSucceeds, ProbePort, Dying, Goto, ConnectorInv, Alive
  <1>12. ASSUME NEW p \in Commands, WaitExpires(p) PROVE ConnectorInv'
    BY <1>12 DEF WaitExpires, Goto, ConnectorInv, Alive, TypeInv, TypeOK
  <1>13. ASSUME NEW p \in Commands, CheckPort(p) PROVE ConnectorInv'
    BY <1>13
       DEF CheckPort, ProbePort, Dying, Goto, ConnectorInv, Alive, TypeInv, TypeOK
  <1>14. ASSUME NEW p \in Commands, FindConnector(p) PROVE ConnectorInv'
    BY <1>14
       DEF FindConnector, ConnRuns, Goto, CommandInv, ConnectorInv, Alive, Active
  <1>15. ASSUME NEW p \in Commands, SpawnConnector(p) PROVE ConnectorInv'
    BY <1>15
       DEF SpawnConnector, Goto, CommandInv, ConnectorInv, Alive, Active, TypeInv,
           TypeOK
  <1>16. ASSUME NEW p \in Commands, WriteConnector(p) PROVE ConnectorInv'
    BY <1>16 DEF WriteConnector, Goto, ConnectorInv, Alive
  <1>17. ASSUME NEW p \in Commands, LoseConnector(p) PROVE ConnectorInv'
    BY <1>17 DEF LoseConnector, Goto, ConnectorInv, Alive, TypeInv, TypeOK
  <1>18. ASSUME NEW p \in Commands, TruncateState(p) PROVE ConnectorInv'
    BY <1>18 DEF TruncateState, ConnectorInv, Alive
  <1>19. ASSUME NEW p \in Commands, WriteState(p) PROVE ConnectorInv'
    BY <1>19 DEF WriteState, ConnectorInv, Alive
  <1>20. ASSUME NEW p \in Commands, Listen(p) PROVE ConnectorInv'
    BY <1>20 DEF Listen, ConnectorInv, Alive
  <1>21. ASSUME NEW p \in Commands, GiveUp(p) PROVE ConnectorInv'
    BY <1>21 DEF GiveUp, ConnectorInv, Alive
  <1>22. ASSUME NEW p \in Commands, Drained(p) PROVE ConnectorInv'
    BY <1>22 DEF Drained, ConnectorInv, Alive
  <1>23. ASSUME NEW p \in Commands, Die(p) PROVE ConnectorInv'
    BY <1>23 DEF Die, ConnectorInv, Alive
  <1>24. ASSUME NEW p \in Commands, Interrupt(p) PROVE ConnectorInv'
    BY <1>24 DEF Interrupt, ConnectorInv, Alive
  <1>25. ASSUME NEW p \in Commands, Crash(p) PROVE ConnectorInv'
    BY <1>25 DEF Crash, ConnectorInv, Alive
  <1>26. ASSUME NEW p \in Commands, ConnectorDies(p) PROVE ConnectorInv'
    BY <1>26 DEF ConnectorDies, ConnectorInv, Alive
  <1>27. ASSUME NEW p \in Commands, ConnectorEnds(p) PROVE ConnectorInv'
    BY <1>27 DEF ConnectorEnds, ConnectorInv, Alive
  <1>28. CASE UNCHANGED vars
    BY <1>28 DEF vars, ConnectorInv, Alive
  <1> QED
    BY <1>1, <1>2, <1>3, <1>4, <1>5, <1>6, <1>7, <1>8, <1>9, <1>10, <1>11,
       <1>12, <1>13, <1>14, <1>15, <1>16, <1>17, <1>18, <1>19, <1>20, <1>21,
       <1>22, <1>23, <1>24, <1>25, <1>26, <1>27, <1>28
       DEF Next, CommandStep, GatewayStep

\* The invariant holds of commands that run one after the other.
THEOREM DaemonInvariance ==
  ASSUME Serial, CarefulRuns
  PROVE  Spec => []IndInv
  <1>1. Init => IndInv
    BY TypeInit, CommandInit, GatewayInit, ConnectorInit DEF IndInv
  <1>2. IndInv /\ [Next]_vars => IndInv'
    BY TypeStep, CommandSteps, GatewaySteps, ConnectorSteps DEF IndInv
  <1> QED BY <1>1, <1>2, PTL DEF Spec

-----------------------------------------------------------------------------
(* The safety properties *)

\* Once things have settled, the state file names every gateway process there is.
THEOREM GatewayOnFile ==
  ASSUME Serial, CarefulRuns
  PROVE  Spec => []ServerOnFile
  <1>1. IndInv => ServerOnFile
    BY DEF IndInv, GatewayInv, ServerOnFile, Quiet, Runs, Live
  <1> QED BY <1>1, DaemonInvariance, PTL

\* There is never more than one connector that was not told to end and whose pid could
\* be written, and once things have settled its file names it.
THEOREM ConnectorOnce ==
  ASSUME Serial, CarefulRuns
  PROVE  Spec => []OneConnector
  <1>1. ASSUME IndInv PROVE OneConnector
    <2> DEFINE Connectors == {p \in Commands \ unfiled : conn[p] = "alive"}
    <2>1. Cardinality(Connectors) <= 1
      <3>1. CASE Connectors = {}
        BY <3>1, FS_EmptySet
      <3>2. CASE Connectors # {}
        <4>1. PICK p \in Connectors : TRUE
          BY <3>2
        <4>2. \A q \in Connectors : q = p
          BY <1>1, <4>1 DEF IndInv, ConnectorInv, Alive
        <4>3. Connectors = {p}
          BY <4>1, <4>2
        <4>4. Cardinality({p}) = 1
          BY FS_Singleton
        <4> HIDE DEF Connectors
        <4> QED BY <4>3, <4>4
      <3> QED BY <3>1, <3>2
    <2>2. Quiet => \A p \in Commands \ unfiled : ConnRuns(p) => connFile = p
      BY <1>1 DEF IndInv, ConnectorInv, Alive, Quiet, Dying, Active, ConnRuns
    <2> QED BY <2>1, <2>2 DEF OneConnector
  <1> QED BY <1>1, DaemonInvariance, PTL

\* A command is past its wait only when the gateway there is listens: within the time
\* that start gives it, it has listened or ended.
LEMMA WaitedSteps ==
  ASSUME Serial, CarefulRuns, IndInv, WaitedInv, [Next]_vars
  PROVE  WaitedInv'
  <1>1. ASSUME NEW p \in Commands, NEW k \in Kinds, Invoke(p, k) PROVE WaitedInv'
    BY <1>1
       DEF Invoke, FirstStep, Quiet, Goto, WaitedInv, Live, Active
  <1>2. ASSUME NEW p \in Commands, StopConnector(p) PROVE WaitedInv'
    BY <1>2 DEF StopConnector, Goto, WaitedInv, Live, Active
  <1>3. ASSUME NEW p \in Commands, RemoveConnector(p) PROVE WaitedInv'
    BY <1>3 DEF RemoveConnector, Goto, WaitedInv, Live, Active
  <1>4. ASSUME NEW p \in Commands, TornFails(p) PROVE WaitedInv'
    BY <1>4 DEF TornFails, Goto, WaitedInv, Live, Active
  <1>5. ASSUME NEW p \in Commands, StopReadsState(p) PROVE WaitedInv'
    BY <1>5
       DEF StopReadsState, AfterStop, Goto, WaitedInv, Live, Active
  <1>6. ASSUME NEW p \in Commands, Kill(p) PROVE WaitedInv'
    BY <1>6
       DEF Kill, Goto, IndInv, CommandInv, GatewayInv, WaitedInv, Live, Active,
           Spawned, TypeInv, TypeOK, Pid
  <1>7. ASSUME NEW p \in Commands, RemoveState(p) PROVE WaitedInv'
    BY <1>7 DEF RemoveState, AfterStop, Goto, WaitedInv, Live, Active
  <1>8. ASSUME NEW p \in Commands, ReadState(p) PROVE WaitedInv'
    BY <1>8 DEF ReadState, Goto, WaitedInv, Live, Active
  <1>9. ASSUME NEW p \in Commands, Probe(p) PROVE WaitedInv'
    BY <1>9 DEF Probe, ProbePort, Dying, Goto, WaitedInv, Live, Active
  <1>10. ASSUME NEW p \in Commands, Spawn(p) PROVE WaitedInv'
    BY <1>10
       DEF Spawn, Goto, IndInv, CommandInv, GatewayInv, WaitedInv, Live, Active,
           Spawned, TypeInv, TypeOK
  <1>11. ASSUME NEW p \in Commands, WaitSucceeds(p) PROVE WaitedInv'
    <2>1. ~late' => gw[port] = "listening" /\ port \in Commands
      BY <1>11 DEF WaitSucceeds, ProbePort, Dying, IndInv, TypeInv, TypeOK, Pid
    <2>2. \A g \in Commands : Live(g) => g = p
      BY <1>11 DEF WaitSucceeds, IndInv, GatewayInv, Active, Spawned
    <2>3. ~late' => \A g \in Commands : Live(g) => gw[g] = "listening"
      BY <2>1, <2>2 DEF Live
    <2> QED
      BY <1>11, <2>3 DEF WaitSucceeds, WaitedInv, Live
  <1>12. ASSUME NEW p \in Commands, WaitExpires(p) PROVE WaitedInv'
    <2>1. \A g \in Commands : Live(g) => g = p
      BY <1>12 DEF WaitExpires, IndInv, GatewayInv, Active, Spawned
    <2>2. gw[p] # "listening"
      BY <1>12 DEF WaitExpires, IndInv, TypeInv, TypeOK
    <2>3. gw[p] # "draining"
      BY <1>12 DEF WaitExpires, IndInv, CommandInv
    <2>4. ~late' => ~Live(p)
      BY <1>12, <2>2, <2>3 DEF WaitExpires, Live
    <2> QED
      BY <1>12, <2>1, <2>4 DEF WaitExpires, WaitedInv, Live
  <1>13. ASSUME NEW p \in Commands, CheckPort(p) PROVE WaitedInv'
    BY <1>13 DEF CheckPort, ProbePort, Dying, Goto, WaitedInv, Live, Active
  <1>14. ASSUME NEW p \in Commands, FindConnector(p) PROVE WaitedInv'
    BY <1>14 DEF FindConnector, Goto, WaitedInv, Live, Active
  <1>15. ASSUME NEW p \in Commands, SpawnConnector(p) PROVE WaitedInv'
    BY <1>15 DEF SpawnConnector, Goto, WaitedInv, Live, Active
  <1>16. ASSUME NEW p \in Commands, WriteConnector(p) PROVE WaitedInv'
    BY <1>16 DEF WriteConnector, Goto, WaitedInv, Live, Active
  <1>17. ASSUME NEW p \in Commands, LoseConnector(p) PROVE WaitedInv'
    BY <1>17 DEF LoseConnector, Goto, WaitedInv, Live, Active
  <1>18. ASSUME NEW p \in Commands, TruncateState(p) PROVE WaitedInv'
    BY <1>18 DEF TruncateState, WaitedInv, Live, Active
  <1>19. ASSUME NEW p \in Commands, WriteState(p) PROVE WaitedInv'
    BY <1>19 DEF WriteState, WaitedInv, Live, Active
  <1>20. ASSUME NEW p \in Commands, Listen(p) PROVE WaitedInv'
    BY <1>20 DEF Listen, WaitedInv, Live, Active
  <1>21. ASSUME NEW p \in Commands, GiveUp(p) PROVE WaitedInv'
    BY <1>21 DEF GiveUp, WaitedInv, Live, Active
  <1>22. ASSUME NEW p \in Commands, Drained(p) PROVE WaitedInv'
    BY <1>22 DEF Drained, WaitedInv, Live, Active
  <1>23. ASSUME NEW p \in Commands, Die(p) PROVE WaitedInv'
    BY <1>23 DEF Die, WaitedInv, Live, Active
  <1>24. ASSUME NEW p \in Commands, Interrupt(p) PROVE WaitedInv'
    BY <1>24 DEF Interrupt, WaitedInv, Live, Active
  <1>25. ASSUME NEW p \in Commands, Crash(p) PROVE WaitedInv'
    BY <1>25 DEF Crash, WaitedInv, Live, Active
  <1>26. ASSUME NEW p \in Commands, ConnectorDies(p) PROVE WaitedInv'
    BY <1>26 DEF ConnectorDies, WaitedInv, Live, Active
  <1>27. ASSUME NEW p \in Commands, ConnectorEnds(p) PROVE WaitedInv'
    BY <1>27 DEF ConnectorEnds, WaitedInv, Live, Active
  <1>28. CASE UNCHANGED vars
    BY <1>28 DEF vars, WaitedInv, Live, Active
  <1> QED
    BY <1>1, <1>2, <1>3, <1>4, <1>5, <1>6, <1>7, <1>8, <1>9, <1>10, <1>11,
       <1>12, <1>13, <1>14, <1>15, <1>16, <1>17, <1>18, <1>19, <1>20, <1>21,
       <1>22, <1>23, <1>24, <1>25, <1>26, <1>27, <1>28
       DEF Next, CommandStep, GatewayStep

\* What a step reports is so after it: it looked at the port, or at a state file that
\* names the only gateway there is; what stop has signalled was that one.
LEMMA ReportStep ==
  ASSUME Serial, CarefulRuns, IndInv, WaitedInv,
         [Next]_vars, ~late', NEW c \in Commands, said'[c] # said[c]
  PROVE  ReportTrue(c)'
  <1>1. ASSUME NEW p \in Commands, NEW k \in Kinds, Invoke(p, k) PROVE ReportTrue(c)'
    BY <1>1 DEF Invoke
  <1>2. ASSUME NEW p \in Commands, StopConnector(p) PROVE ReportTrue(c)'
    BY <1>2 DEF StopConnector
  <1>3. ASSUME NEW p \in Commands, RemoveConnector(p) PROVE ReportTrue(c)'
    BY <1>3 DEF RemoveConnector
  <1>4. ASSUME NEW p \in Commands, TornFails(p) PROVE ReportTrue(c)'
    BY <1>4
       DEF TornFails, Say, ReportTrue, IndInv, GatewayInv, WaitedInv, Spawned, Live,
           Active, TypeInv, TypeOK, Pid
  <1>5. ASSUME NEW p \in Commands, StopReadsState(p) PROVE ReportTrue(c)'
    BY <1>5
       DEF StopReadsState, Say, ReportTrue, IndInv, CommandInv, GatewayInv, WaitedInv,
           Spawned, Live, TypeInv, TypeOK, Pid
  <1>6. ASSUME NEW p \in Commands, Kill(p) PROVE ReportTrue(c)'
    BY <1>6
       DEF Kill, Runs, Say, ReportTrue, IndInv, GatewayInv, WaitedInv, Spawned, Live,
           Active, TypeInv, TypeOK, Pid
  <1>7. ASSUME NEW p \in Commands, RemoveState(p) PROVE ReportTrue(c)'
    BY <1>7
       DEF RemoveState, Say, ReportTrue, IndInv, GatewayInv, WaitedInv, Spawned, Live,
           Active
  <1>8. ASSUME NEW p \in Commands, ReadState(p) PROVE ReportTrue(c)'
    BY <1>8
       DEF ReadState, Say, ReportTrue, IndInv, CommandInv, GatewayInv, WaitedInv,
           Spawned, Live, TypeInv, TypeOK, Pid
  <1>9. ASSUME NEW p \in Commands, Probe(p) PROVE ReportTrue(c)'
    BY <1>9 DEF Probe, ProbePort, Dying, Say, ReportTrue, IndInv, TypeInv, TypeOK
  <1>10. ASSUME NEW p \in Commands, Spawn(p) PROVE ReportTrue(c)'
    BY <1>10 DEF Spawn
  <1>11. ASSUME NEW p \in Commands, WaitSucceeds(p) PROVE ReportTrue(c)'
    <2>1. gw[port] = "listening" /\ port \in Commands
      BY <1>11 DEF WaitSucceeds, ProbePort, Dying, IndInv, TypeInv, TypeOK, Pid
    <2>2. port = p
      BY <1>11, <2>1 DEF WaitSucceeds, IndInv, GatewayInv, Live, Active, Spawned
    <2> QED
      BY <1>11, <2>2 DEF WaitSucceeds, Say, ReportTrue, IndInv, TypeInv, TypeOK
  <1>12. ASSUME NEW p \in Commands, WaitExpires(p) PROVE ReportTrue(c)'
    BY <1>12 DEF WaitExpires
  <1>13. ASSUME NEW p \in Commands, CheckPort(p) PROVE ReportTrue(c)'
    BY <1>13
       DEF CheckPort, ProbePort, Dying, Say, ReportTrue, IndInv, GatewayInv,
           WaitedInv, Spawned, Live, Active, TypeInv, TypeOK, Pid
  <1>14. ASSUME NEW p \in Commands, FindConnector(p) PROVE ReportTrue(c)'
    BY <1>14 DEF FindConnector
  <1>15. ASSUME NEW p \in Commands, SpawnConnector(p) PROVE ReportTrue(c)'
    BY <1>15 DEF SpawnConnector
  <1>16. ASSUME NEW p \in Commands, WriteConnector(p) PROVE ReportTrue(c)'
    BY <1>16 DEF WriteConnector
  <1>17. ASSUME NEW p \in Commands, LoseConnector(p) PROVE ReportTrue(c)'
    BY <1>17 DEF LoseConnector
  <1>18. ASSUME NEW p \in Commands, TruncateState(p) PROVE ReportTrue(c)'
    BY <1>18 DEF TruncateState
  <1>19. ASSUME NEW p \in Commands, WriteState(p) PROVE ReportTrue(c)'
    BY <1>19 DEF WriteState
  <1>20. ASSUME NEW p \in Commands, Listen(p) PROVE ReportTrue(c)'
    BY <1>20 DEF Listen
  <1>21. ASSUME NEW p \in Commands, GiveUp(p) PROVE ReportTrue(c)'
    BY <1>21 DEF GiveUp
  <1>22. ASSUME NEW p \in Commands, Drained(p) PROVE ReportTrue(c)'
    BY <1>22 DEF Drained
  <1>23. ASSUME NEW p \in Commands, Die(p) PROVE ReportTrue(c)'
    BY <1>23 DEF Die
  <1>24. ASSUME NEW p \in Commands, Interrupt(p) PROVE ReportTrue(c)'
    BY <1>24 DEF Interrupt
  <1>25. ASSUME NEW p \in Commands, Crash(p) PROVE ReportTrue(c)'
    BY <1>25 DEF Crash
  <1>26. ASSUME NEW p \in Commands, ConnectorDies(p) PROVE ReportTrue(c)'
    BY <1>26 DEF ConnectorDies
  <1>27. ASSUME NEW p \in Commands, ConnectorEnds(p) PROVE ReportTrue(c)'
    BY <1>27 DEF ConnectorEnds
  <1>28. CASE UNCHANGED vars
    BY <1>28 DEF vars
  <1> QED
    BY <1>1, <1>2, <1>3, <1>4, <1>5, <1>6, <1>7, <1>8, <1>9, <1>10, <1>11,
       <1>12, <1>13, <1>14, <1>15, <1>16, <1>17, <1>18, <1>19, <1>20, <1>21,
       <1>22, <1>23, <1>24, <1>25, <1>26, <1>27, <1>28
       DEF Next, CommandStep, GatewayStep

\* What a command reports is so when it reports it, unless a process was late.
THEOREM ReportsAreTrue ==
  ASSUME Serial, CarefulRuns
  PROVE  Spec => ReportsTrue
  <1>1. Init => WaitedInv
    BY DEF Init, WaitedInv, Active
  <1>2. IndInv /\ WaitedInv /\ [Next]_vars => WaitedInv'
    BY WaitedSteps
  <1>3. IndInv /\ WaitedInv /\ [Next]_vars =>
          [\A c \in Commands : ~late' /\ said'[c] # said[c] => ReportTrue(c)']_vars
    BY ReportStep
  <1> QED BY <1>1, <1>2, <1>3, DaemonInvariance, PTL DEF Spec, ReportsTrue

=============================================================================
