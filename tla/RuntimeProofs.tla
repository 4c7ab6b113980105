--------------------------- MODULE RuntimeProofs ---------------------------
(***************************************************************************)
(* Theorems about Runtime, for every set of requests, conversations and    *)
(* request contents, every tool-call limit and any number of failures and  *)
(* crashes.                                                                *)
(*                                                                         *)
(* The first part is about rows and receipts: IndInv.  The second is about *)
(* exchanges: what a turn leaves in memory and in the store, in which      *)
(* order, and what its client was told.  TurnInv strengthens IndInv; each  *)
(* of its parts has an Init and a Step lemma with one case per action.  A  *)
(* step of one task that touches no log disturbs nothing but that task's   *)
(* own conjunct: the Frame lemmas say so once, and the cases cite them.    *)
(* From TurnInv follow the remaining safety properties and the refinement  *)
(* of Delivery; two more invariants, BoundInv and OwnInv, hold when        *)
(* clients wait for their answers (SerialClients).                         *)
(***************************************************************************)
EXTENDS Runtime, RuntimeDelivery, SequenceTheorems, TLAPS

(* The store's log. *)

\* Inserting a row keeps a log of messages.
LEMMA InsertType ==
  ASSUME NEW S, NEW log \in Seq(S), NEW k \in 0..Len(log), NEW m \in S
  PROVE  InsertAfter(log, k, m) \in Seq(S)
  <1>1. Len(log) \in Nat /\ \A i \in 1..Len(log) : log[i] \in S
    OBVIOUS
  <1>2. \A i \in 1..(Len(log) + 1) :
          (IF i <= k THEN log[i] ELSE IF i = k + 1 THEN m ELSE log[i - 1]) \in S
    BY <1>1
  <1> QED BY <1>1, <1>2, IsASeq DEF InsertAfter

\* Appending adds exactly the new message.
LEMMA AppendEntries ==
  ASSUME NEW S, NEW q \in Seq(S), NEW m \in S
  PROVE  Entries(Append(q, m)) = Entries(q) \cup {m}
  <1>1. \A i \in 1..Len(q) : Append(q, m)[i] = q[i]
    OBVIOUS
  <1>2. Append(q, m)[Len(q) + 1] = m /\ Len(Append(q, m)) = Len(q) + 1
    OBVIOUS
  <1>3. DOMAIN q = 1..Len(q) /\ DOMAIN Append(q, m) = 1..(Len(q) + 1)
    OBVIOUS
  <1> QED BY <1>1, <1>2, <1>3 DEF Entries

\* Inserting a row adds exactly that row.
LEMMA InsertEntries ==
  ASSUME NEW S, NEW log \in Seq(S), NEW k \in 0..Len(log), NEW m \in S
  PROVE  Entries(InsertAfter(log, k, m)) = Entries(log) \cup {m}
  <1> DEFINE new == InsertAfter(log, k, m)
  <1>0. Len(log) \in Nat /\ DOMAIN log = 1..Len(log)
    OBVIOUS
  <1>1. DOMAIN new = 1..(Len(log) + 1)
    BY DEF InsertAfter
  <1>2. \A i \in 1..k : new[i] = log[i]
    BY <1>0 DEF InsertAfter
  <1>3. new[k + 1] = m
    BY <1>0 DEF InsertAfter
  <1>4. \A i \in (k + 1)..Len(log) : new[i + 1] = log[i]
    BY <1>0 DEF InsertAfter
  <1> HIDE DEF new
  <1>5. Entries(new) \subseteq Entries(log) \cup {m}
    <2> SUFFICES ASSUME NEW i \in 1..(Len(log) + 1)
                 PROVE  new[i] \in Entries(log) \cup {m}
      BY <1>1 DEF Entries
    <2>1. CASE i \in 1..k
      BY <2>1, <1>2 DEF Entries
    <2>2. CASE i = k + 1
      BY <2>2, <1>3
    <2>3. CASE i \in (k + 2)..(Len(log) + 1)
      <3>1. i - 1 \in (k + 1)..Len(log) /\ (i - 1) + 1 = i
        BY <2>3
      <3>2. new[i] = log[i - 1] /\ i - 1 \in DOMAIN log
        BY <3>1, <1>4
      <3> QED BY <3>2 DEF Entries
    <2> QED BY <2>1, <2>2, <2>3
  <1>6. Entries(log) \cup {m} \subseteq Entries(new)
    <2>1. m \in Entries(new)
      BY <1>1, <1>3 DEF Entries
    <2>2. ASSUME NEW i \in 1..Len(log)
          PROVE  log[i] \in Entries(new)
      <3>1. CASE i \in 1..k
        BY <3>1, <1>1, <1>2 DEF Entries
      <3>2. CASE i \in (k + 1)..Len(log)
        <4>1. i + 1 \in DOMAIN new /\ new[i + 1] = log[i]
          BY <3>2, <1>1, <1>4
        <4> QED BY <4>1 DEF Entries
      <3> QED BY <3>1, <3>2
    <2> QED BY <2>1, <2>2 DEF Entries
  <1> QED BY <1>5, <1>6 DEF new

-----------------------------------------------------------------------------
(* Types *)

\* The maps and the tables are empty and every request is idle.
LEMMA TypeInit == Init => TypeInv
  <1> SUFFICES ASSUME Init PROVE TypeInv
    OBVIOUS
  <1>1. <<>> \in Seq(Message)
    OBVIOUS
  <1>2. TypeOK
    BY <1>1, RuntimeAssumption
       DEF Init, TypeOK, SubmitPc, AppendPc, TurnPc, FinalPc, Parts
  <1>3. \A e \in Requests : pc[e] = "idle" /\ round[e] = 0
    BY DEF Init
  <1> QED
    BY <1>2, <1>3, RuntimeAssumption
       DEF TypeInv, KnowsSession, AppendPc, TurnPc

\* No step of a task or of the process leaves the types.
LEMMA TypeStep == TypeInv /\ [Next]_vars => TypeInv'
  <1> SUFFICES ASSUME TypeInv, [Next]_vars PROVE TypeInv'
    OBVIOUS
  <1> USE RuntimeAssumption
      DEF TypeInv, TypeOK, KnowsSession, MayGoRound, SubmitPc, AppendPc, TurnPc,
          FinalPc, Parts, memVars, dbVars, dateVars, turnVars, envVars, Goto,
          Date, Emit, EventKind, Failure, AfterResolve, AfterCreate
  <1>1. ASSUME NEW e \in Requests, ResolveNamed(e) PROVE TypeInv'
    <2>1. req[e].session \in Requests
      BY <1>1 DEF ResolveNamed, RequestContent
    <2>2. CASE req[e].session \in sessions
      <3>a. TypeOK'
        BY ZenonT(40), <1>1, <2>1, <2>2 DEF ResolveNamed
      <3>1. /\ sess' = [sess EXCEPT ![e] = req[e].session]
            /\ pc' = [pc EXCEPT ![e] = AfterResolve(e)]
        BY <1>1, <2>2 DEF ResolveNamed
      <3>b. \A f \in Requests : pc'[f] \in KnowsSession => sess'[f] \in Requests
        BY <2>1, <3>1
      <3>c. \A f \in Requests : pc'[f] \in MayGoRound => round'[f] < ToolCallLimit
        BY ZenonT(40), <1>1, <2>1, <2>2 DEF ResolveNamed
      <3> QED BY <3>a, <3>b, <3>c
    <2>3. CASE req[e].session \notin sessions
      <3>a. TypeOK'
        BY <1>1, <2>3 DEF ResolveNamed
      <3>b. \A f \in Requests : pc'[f] \in KnowsSession => sess'[f] \in Requests
        BY <1>1, <2>3 DEF ResolveNamed
      <3>c. \A f \in Requests : pc'[f] \in MayGoRound => round'[f] < ToolCallLimit
        BY ZenonT(40), <1>1, <2>3 DEF ResolveNamed
      <3> QED BY <3>a, <3>b, <3>c
    <2> QED BY <2>2, <2>3
  <1>2. ASSUME NEW e \in Requests, ReadBinding(e) PROVE TypeInv'
    <2>1. req[e].conv \in Conversations
      BY <1>2 DEF ReadBinding, RequestContent
    <2>2. bindings[req[e].conv] \in Requests \cup {None}
      BY <2>1
    <2>3. CASE bindings[req[e].conv] # None
      <3>a. TypeOK'
        BY ZenonT(40), <1>2, <2>2, <2>3 DEF ReadBinding
      <3>1. /\ sess' = [sess EXCEPT ![e] = bindings[req[e].conv]]
            /\ pc' = [pc EXCEPT ![e] = "lookup"]
        BY <1>2, <2>3 DEF ReadBinding
      <3>b. \A f \in Requests : pc'[f] \in KnowsSession => sess'[f] \in Requests
        BY <2>2, <2>3, <3>1
      <3>c. \A f \in Requests : pc'[f] \in MayGoRound => round'[f] < ToolCallLimit
        BY ZenonT(40), <1>2, <2>2, <2>3 DEF ReadBinding
      <3> QED BY <3>a, <3>b, <3>c
    <2>4. CASE bindings[req[e].conv] = None
      <3>a. TypeOK'
        BY ZenonT(40), <1>2, <2>4 DEF ReadBinding
      <3>b. \A f \in Requests : pc'[f] \in KnowsSession => sess'[f] \in Requests
        BY <1>2, <2>4 DEF ReadBinding
      <3>c. \A f \in Requests : pc'[f] \in MayGoRound => round'[f] < ToolCallLimit
        BY ZenonT(40), <1>2, <2>4 DEF ReadBinding
      <3> QED BY <3>a, <3>b, <3>c
    <2> QED BY <2>3, <2>4
  <1>3. ASSUME NEW e \in Requests, LookupSession(e) PROVE TypeInv'
    BY <1>3 DEF LookupSession
  <1>4. ASSUME NEW e \in Requests, ResolveAnonymous(e) PROVE TypeInv'
    BY <1>4 DEF ResolveAnonymous
  <1>5. ASSUME NEW e \in Requests, InsertSession(e) PROVE TypeInv'
    BY <1>5 DEF InsertSession
  <1>6. ASSUME NEW e \in Requests, SaveSession(e) PROVE TypeInv'
    BY <1>6 DEF SaveSession
  <1>7. ASSUME NEW e \in Requests, SetBinding(e) PROVE TypeInv'
    BY ZenonT(40), <1>7 DEF SetBinding
  <1>8. ASSUME NEW e \in Requests, SaveBinding(e) PROVE TypeInv'
    BY ZenonT(40), <1>8 DEF SaveBinding
  <1>9. ASSUME NEW e \in Requests, ForeignKeyFails(e) PROVE TypeInv'
    BY <1>9 DEF ForeignKeyFails
  <1>10. ASSUME NEW e \in Requests, PushMessage(e) PROVE TypeInv'
    <2>1. Draft(e) \in Message
      BY DEF Draft, Message
    <2>2. sess[e] \in Requests /\ Append(history[sess[e]], Draft(e)) \in Seq(Message)
      BY <1>10, <2>1 DEF PushMessage
    <2> HIDE DEF Draft, Message
    <2>3. CASE sess[e] \in sessions
      <3>1. history' = [history EXCEPT ![sess[e]] = Append(history[sess[e]], Draft(e))]
        BY <1>10, <2>3 DEF PushMessage
      <3>2. history' \in [Requests -> Seq(Message)]
        BY <2>2, <3>1
      <3>3. UNCHANGED <<sessions, bindings, dbVars, dateVars, turnVars, envVars,
                        req, sess, emitted>>
            /\ pc' = [pc EXCEPT ![e] = "save_summary"] /\ pc[e] = "append"
        BY <1>10, <2>3 DEF PushMessage
      <3>a. TypeOK'
        BY <3>2, <3>3 DEF PushMessage
      <3>b. \A f \in Requests : pc'[f] \in KnowsSession => sess'[f] \in Requests
        BY <3>2, <3>3 DEF PushMessage
      <3>c. \A f \in Requests : pc'[f] \in MayGoRound => round'[f] < ToolCallLimit
        BY <3>2, <3>3 DEF PushMessage
      <3> QED BY <3>a, <3>b, <3>c
    <2>4. CASE sess[e] \notin sessions
      <3>a. TypeOK'
        BY ZenonT(40), <1>10, <2>4 DEF PushMessage
      <3>b. \A f \in Requests : pc'[f] \in KnowsSession => sess'[f] \in Requests
        BY <1>10, <2>4 DEF PushMessage
      <3>c. \A f \in Requests : pc'[f] \in MayGoRound => round'[f] < ToolCallLimit
        BY ZenonT(40), <1>10, <2>4 DEF PushMessage
      <3> QED BY <3>a, <3>b, <3>c
    <2> QED BY <2>3, <2>4
  <1>11. ASSUME NEW e \in Requests, SaveSummary(e) PROVE TypeInv'
    BY SMTT(30), <1>11 DEF SaveSummary
  <1>12. ASSUME NEW e \in Requests, SaveMessage(e) PROVE TypeInv'
    <2>1. Draft(e) \in Message
      BY DEF Draft, Message
    <2>2. sess[e] \in Requests /\ dbLog[sess[e]] \in Seq(Message)
      BY <1>12 DEF SaveMessage
    <2>3. dbLog' \in [Requests -> Seq(Message)]
      <3>1. PICK k \in 0..Len(dbLog[sess[e]]) :
              dbLog' = [dbLog EXCEPT ![sess[e]] =
                          InsertAfter(dbLog[sess[e]], k, Draft(e))]
        BY <1>12 DEF SaveMessage
      <3>2. InsertAfter(dbLog[sess[e]], k, Draft(e)) \in Seq(Message)
        BY <2>1, <2>2, InsertType
      <3> QED BY <3>1, <3>2
    <2>4. /\ pc[e] = "save_message"
          /\ UNCHANGED <<memVars, dbSessions, dbBindings, dbMemory, dateVars,
                         part, prompted, envVars, req, sess, emitted>>
      BY <1>12 DEF SaveMessage
    <2>5. CASE part[e] = "user"
      <3>1. /\ pc' = [pc EXCEPT ![e] = "accept"]
            /\ UNCHANGED round
        BY <1>12, <2>5 DEF SaveMessage, Continue
      <3>a. TypeOK'
        BY <2>3, <2>4, <3>1
      <3>b. \A f \in Requests : pc'[f] \in KnowsSession => sess'[f] \in Requests
        BY <2>4, <3>1
      <3>c. \A f \in Requests : pc'[f] \in MayGoRound => round'[f] < ToolCallLimit
        BY <2>4, <3>1
      <3> QED BY <3>a, <3>b, <3>c
    <2>6. CASE part[e] = "tool_call"
      <3>1. /\ pc' = [pc EXCEPT ![e] = "tool"]
            /\ UNCHANGED round
        BY <1>12, <2>6 DEF SaveMessage, Continue
      <3>a. TypeOK'
        BY <2>3, <2>4, <3>1
      <3>b. \A f \in Requests : pc'[f] \in KnowsSession => sess'[f] \in Requests
        BY <2>4, <3>1
      <3>c. \A f \in Requests : pc'[f] \in MayGoRound => round'[f] < ToolCallLimit
        BY <2>4, <3>1
      <3> QED BY <3>a, <3>b, <3>c
    <2>7. CASE part[e] = "tool" /\ req[e].kind = "read"
      <3>1. /\ pc' = [pc EXCEPT ![e] = "announce"]
            /\ UNCHANGED round
        BY <1>12, <2>7 DEF SaveMessage, Continue
      <3>a. TypeOK'
        BY <2>3, <2>4, <3>1
      <3>b. \A f \in Requests : pc'[f] \in KnowsSession => sess'[f] \in Requests
        BY <2>4, <3>1
      <3>c. \A f \in Requests : pc'[f] \in MayGoRound => round'[f] < ToolCallLimit
        BY <2>4, <3>1
      <3> QED BY <3>a, <3>b, <3>c
    <2>8. CASE part[e] = "tool" /\ req[e].kind # "read"
      <3>1. /\ round' = [round EXCEPT ![e] = @ + 1]
            /\ pc' = [pc EXCEPT ![e] = IF round[e] + 1 < ToolCallLimit THEN "prompt" ELSE "failed"]
        BY <1>12, <2>8 DEF SaveMessage, Continue
      <3>a. TypeOK'
        BY <2>3, <2>4, <3>1
      <3>b. \A f \in Requests : pc'[f] \in KnowsSession => sess'[f] \in Requests
        BY <2>4, <3>1
      <3>c. \A f \in Requests : pc'[f] \in MayGoRound => round'[f] < ToolCallLimit
        BY <2>4, <3>1
      <3> QED BY <3>a, <3>b, <3>c
    <2>9. CASE part[e] = "reply"
      <3>1. /\ pc' = [pc EXCEPT ![e] = "remember"]
            /\ UNCHANGED round
        BY <1>12, <2>9 DEF SaveMessage, Continue
      <3>a. TypeOK'
        BY <2>3, <2>4, <3>1
      <3>b. \A f \in Requests : pc'[f] \in KnowsSession => sess'[f] \in Requests
        BY <2>4, <3>1
      <3>c. \A f \in Requests : pc'[f] \in MayGoRound => round'[f] < ToolCallLimit
        BY <2>4, <3>1
      <3> QED BY <3>a, <3>b, <3>c
    <2> QED
      BY <1>12, <2>5, <2>6, <2>7, <2>8, <2>9 DEF SaveMessage, Continue
  <1>13. ASSUME NEW e \in Requests, Accept(e) PROVE TypeInv'
    BY <1>13 DEF Accept
  <1>14. ASSUME NEW e \in Requests, BuildPrompt(e) PROVE TypeInv'
    <2>1. sess[e] \in Requests /\ history[sess[e]] \in Seq(Message)
      BY <1>14 DEF BuildPrompt
    <2>2. \A i \in DOMAIN history[sess[e]] : history[sess[e]][i] \in Message
      BY <2>1, ElementOfSeq
    <2>3. prompted' \in [Requests -> Requests \cup {None}]
      BY <1>14, <2>1, <2>2 DEF BuildPrompt, Message
    <2> QED BY <1>14, <2>3 DEF BuildPrompt
  <1>15. ASSUME NEW e \in Requests, ProviderFails(e) PROVE TypeInv'
    BY <1>15 DEF ProviderFails
  <1>16. ASSUME NEW e \in Requests, ProviderCallsTool(e) PROVE TypeInv'
    BY SMTT(30), <1>16 DEF ProviderCallsTool
  <1>17. ASSUME NEW e \in Requests, ProviderAnswers(e) PROVE TypeInv'
    BY SMTT(30), <1>17 DEF ProviderAnswers
  <1>18. ASSUME NEW e \in Requests, RefuseTool(e) PROVE TypeInv'
    BY <1>18 DEF RefuseTool
  <1>19. ASSUME NEW e \in Requests, StartTool(e) PROVE TypeInv'
    BY <1>19 DEF StartTool
  <1>20. ASSUME NEW e \in Requests, ToolFails(e) PROVE TypeInv'
    BY SMTT(30), <1>20 DEF ToolFails
  <1>21. ASSUME NEW e \in Requests, ToolReturns(e) PROVE TypeInv'
    BY SMTT(30), <1>21 DEF ToolReturns
  <1>22. ASSUME NEW e \in Requests, Remember(e) PROVE TypeInv'
    BY <1>22 DEF Remember
  <1>23. ASSUME NEW e \in Requests, EmitError(e) PROVE TypeInv'
    BY <1>23 DEF EmitError
  <1>24. ASSUME NEW e \in Requests, Abandon(e) PROVE TypeInv'
    BY <1>24 DEF Abandon
  <1>25. ASSUME NEW e \in Requests, StoreFails(e) PROVE TypeInv'
    BY SMTT(30), <1>25 DEF StoreFails
  <1>26. ASSUME NEW e \in Requests, NEW r \in Workload, Submit(e, r)
         PROVE  TypeInv'
    BY <1>26 DEF Submit
  <1>27. ASSUME Crash PROVE TypeInv'
    <2>1. <<>> \in Seq(Message)
      OBVIOUS
    <2>2. \A e \in Requests : pc'[e] \in {pc[e], "lost"}
      BY <1>27 DEF Crash
    <2>a. TypeOK'
      <3>1. \A e \in Requests : pc'[e] # "idle" => pc[e] # "idle"
        BY <1>27 DEF Crash, Live
      <3>2. pc' \in [Requests -> {"idle"} \cup SubmitPc \cup AppendPc
                                   \cup TurnPc \cup FinalPc]
        BY <1>27 DEF Crash
      <3>3. history' \in [Requests -> Seq(Message)]
        BY <1>27, <2>1 DEF Crash
      <3>4. bindings' \in [Conversations -> Requests \cup {None}]
        BY <1>27 DEF Crash
      <3>5. crashes' \in 0..MaxCrashes /\ sessions' \subseteq Requests
        BY <1>27 DEF Crash
      <3>7. up' = FALSE
        BY <1>27 DEF Crash
      <3>6. UNCHANGED <<dbVars, dateVars, turnVars, failures, req, sess, emitted>>
        BY <1>27 DEF Crash
      <3> QED BY <3>1, <3>2, <3>3, <3>4, <3>5, <3>6, <3>7
    <2>b. \A f \in Requests : pc'[f] \in KnowsSession => sess'[f] \in Requests
      BY <1>27, <2>1, <2>2 DEF Crash, Live
    <2>c. \A f \in Requests : pc'[f] \in MayGoRound => round'[f] < ToolCallLimit
      BY <1>27, <2>1, <2>2 DEF Crash, Live
    <2> QED BY <2>a, <2>b, <2>c
  <1>28. ASSUME Restart PROVE TypeInv'
    BY <1>28 DEF Restart
  <1>29. ASSUME UNCHANGED vars PROVE TypeInv'
    BY <1>29 DEF vars
  <1>30. ASSUME NEW e \in Requests, Announce(e) PROVE TypeInv'
    BY <1>30 DEF Announce
  <1> QED
    BY <1>1, <1>2, <1>3, <1>4, <1>5, <1>6, <1>7, <1>8, <1>9, <1>10, <1>11,
       <1>12, <1>13, <1>14, <1>15, <1>16, <1>17, <1>18, <1>19, <1>20, <1>21,
       <1>22, <1>23, <1>24, <1>25, <1>26, <1>27, <1>28, <1>29, <1>30
       DEF Next, TaskStep, ResolveStep, AppendStep, TurnStep

\* Every reachable state is well typed: among others, the provider is asked at
\* most ToolCallLimit times in a turn, and the failures and deaths stay counted.
THEOREM TypeCorrect == Spec => []TypeOK
  <1>1. TypeInv => TypeOK
    BY DEF TypeInv
  <1> QED BY <1>1, TypeInit, TypeStep, PTL DEF Spec
-----------------------------------------------------------------------------
(* Sessions and bindings *)

\* Nothing is bound, stored or running yet.
LEMMA MapInit == Init => MapInv
  BY RuntimeAssumption
     DEF Init, MapInv, BindingsLive, Live, KnowsSession, SubmitPc, AppendPc, TurnPc

\* A step never leaves a task, a binding or a row of session_bindings with a
\* session that cannot be found (resolve_session, create_session).
LEMMA MapStep == TypeInv /\ MapInv /\ [Next]_vars => MapInv'
  <1> SUFFICES ASSUME TypeInv, MapInv, [Next]_vars PROVE MapInv'
    OBVIOUS
  <1> USE RuntimeAssumption
      DEF MapInv, BindingsLive, Live, KnowsSession, SubmitPc, AppendPc, TurnPc,
          memVars, dbVars, dateVars, turnVars, envVars, Goto
  <1>0. /\ pc \in [Requests -> {"idle"} \cup SubmitPc \cup AppendPc
                                   \cup TurnPc \cup FinalPc]
        /\ sess \in [Requests -> Requests \cup {None}]
        /\ bindings \in [Conversations -> Requests \cup {None}]
        /\ dbBindings \in [Conversations -> Requests \cup {None}]
    BY DEF TypeInv, TypeOK
  <1>1. ASSUME NEW e \in Requests, ResolveNamed(e) PROVE MapInv'
    BY <1>0, <1>1 DEF ResolveNamed, AfterResolve
  <1>2. ASSUME NEW e \in Requests, ReadBinding(e) PROVE MapInv'
    <2>1. req[e].conv \in Conversations
      BY <1>2 DEF ReadBinding, TypeInv, TypeOK, RequestContent
    <2>2. CASE bindings[req[e].conv] # None
      <3>1. /\ sess' = [sess EXCEPT ![e] = bindings[req[e].conv]]
            /\ pc' = [pc EXCEPT ![e] = "lookup"]
            /\ pc[e] = "resolve"
            /\ UNCHANGED <<memVars, dbVars, envVars>>
        BY <1>2, <2>2 DEF ReadBinding
      <3> QED BY <1>0, <2>1, <2>2, <3>1
    <2>3. CASE bindings[req[e].conv] = None
      BY <1>0, <1>2, <2>3 DEF ReadBinding
    <2> QED BY <2>2, <2>3
  <1>3. ASSUME NEW e \in Requests, LookupSession(e) PROVE MapInv'
    BY <1>0, <1>3 DEF LookupSession
  <1>4. ASSUME NEW e \in Requests, ResolveAnonymous(e) PROVE MapInv'
    BY <1>0, <1>4 DEF ResolveAnonymous
  <1>5. ASSUME NEW e \in Requests, InsertSession(e) PROVE MapInv'
    BY <1>0, <1>5 DEF InsertSession
  <1>6. ASSUME NEW e \in Requests, SaveSession(e) PROVE MapInv'
    BY <1>0, <1>6 DEF SaveSession, AfterCreate
  <1>7. ASSUME NEW e \in Requests, SetBinding(e) PROVE MapInv'
    BY <1>0, <1>7 DEF SetBinding
  <1>8. ASSUME NEW e \in Requests, SaveBinding(e) PROVE MapInv'
    BY <1>0, <1>8 DEF SaveBinding
  <1>9. ASSUME NEW e \in Requests, ForeignKeyFails(e) PROVE MapInv'
    BY <1>0, <1>9 DEF ForeignKeyFails
  <1>10. ASSUME NEW e \in Requests, PushMessage(e) PROVE MapInv'
    BY <1>0, <1>10 DEF PushMessage, Failure
  <1>11. ASSUME NEW e \in Requests, SaveSummary(e) PROVE MapInv'
    BY <1>0, <1>11 DEF SaveSummary
  <1>12. ASSUME NEW e \in Requests, SaveMessage(e) PROVE MapInv'
    <2>1. /\ pc[e] = "save_message"
          /\ UNCHANGED <<memVars, dbSessions, dbBindings, envVars, sess>>
      BY <1>12 DEF SaveMessage
    <2>2. PICK l \in {"accept", "tool", "announce", "prompt", "failed", "remember"} :
            pc' = [pc EXCEPT ![e] = l]
      BY <1>12 DEF SaveMessage, Continue
    <2> QED BY <1>0, <2>1, <2>2
  <1>13. ASSUME NEW e \in Requests, Accept(e) PROVE MapInv'
    BY <1>0, <1>13 DEF Accept
  <1>14. ASSUME NEW e \in Requests, BuildPrompt(e) PROVE MapInv'
    BY <1>0, <1>14 DEF BuildPrompt
  <1>15. ASSUME NEW e \in Requests, ProviderFails(e) PROVE MapInv'
    BY <1>0, <1>15 DEF ProviderFails
  <1>16. ASSUME NEW e \in Requests, ProviderCallsTool(e) PROVE MapInv'
    BY <1>0, <1>16 DEF ProviderCallsTool
  <1>17. ASSUME NEW e \in Requests, ProviderAnswers(e) PROVE MapInv'
    BY <1>0, <1>17 DEF ProviderAnswers
  <1>18. ASSUME NEW e \in Requests, RefuseTool(e) PROVE MapInv'
    BY <1>0, <1>18 DEF RefuseTool
  <1>19. ASSUME NEW e \in Requests, StartTool(e) PROVE MapInv'
    BY <1>0, <1>19 DEF StartTool
  <1>20. ASSUME NEW e \in Requests, ToolFails(e) PROVE MapInv'
    BY <1>0, <1>20 DEF ToolFails
  <1>21. ASSUME NEW e \in Requests, ToolReturns(e) PROVE MapInv'
    BY <1>0, <1>21 DEF ToolReturns
  <1>22. ASSUME NEW e \in Requests, Remember(e) PROVE MapInv'
    BY <1>0, <1>22 DEF Remember
  <1>23. ASSUME NEW e \in Requests, EmitError(e) PROVE MapInv'
    BY <1>0, <1>23 DEF EmitError
  <1>24. ASSUME NEW e \in Requests, Abandon(e) PROVE MapInv'
    BY <1>0, <1>24 DEF Abandon
  <1>25. ASSUME NEW e \in Requests, StoreFails(e) PROVE MapInv'
    BY <1>0, <1>25 DEF StoreFails, Failure
  <1>26. ASSUME NEW e \in Requests, NEW r \in Workload, Submit(e, r)
         PROVE  MapInv'
    BY <1>0, <1>26 DEF Submit
  <1>27. ASSUME Crash PROVE MapInv'
    BY <1>0, <1>27 DEF Crash
  <1>28. ASSUME Restart PROVE MapInv'
    BY <1>0, <1>28 DEF Restart
  <1>29. ASSUME UNCHANGED vars PROVE MapInv'
    BY <1>29 DEF vars
  <1>30. ASSUME NEW e \in Requests, Announce(e) PROVE MapInv'
    BY <1>0, <1>30 DEF Announce
  <1> QED
    BY <1>1, <1>2, <1>3, <1>4, <1>5, <1>6, <1>7, <1>8, <1>9, <1>10, <1>11,
       <1>12, <1>13, <1>14, <1>15, <1>16, <1>17, <1>18, <1>19, <1>20, <1>21,
       <1>22, <1>23, <1>24, <1>25, <1>26, <1>27, <1>28, <1>29, <1>30
       DEF Next, TaskStep, ResolveStep, AppendStep, TurnStep

-----------------------------------------------------------------------------
(* Memory and store *)

\* What storing a message does to the tables and to the task.
LEMMA SaveMessageEffect ==
  ASSUME TypeInv, NEW e \in Requests, SaveMessage(e)
  PROVE  /\ pc[e] = "save_message"
         /\ sess[e] \in Requests
         /\ \A s \in Requests : \A m :
              m \in Entries(dbLog'[s]) <=>
                m \in Entries(dbLog[s]) \/ (s = sess[e] /\ m = Draft(e))
         /\ \E l \in {"accept", "tool", "announce", "prompt", "failed", "remember"} :
              /\ pc' = [pc EXCEPT ![e] = l]
              /\ l = "accept" <=> part[e] = "user"
         /\ \A f \in Requests \ {e} : round'[f] = round[f]
  <1>1. /\ pc[e] = "save_message"
        /\ sess[e] \in Requests
        /\ dbLog \in [Requests -> Seq(Message)]
        /\ round \in [Requests -> 0..ToolCallLimit]
    BY DEF SaveMessage, TypeInv, TypeOK, KnowsSession, AppendPc
  <1>2. Draft(e) \in Message
    BY DEF Draft, Message, TypeInv, TypeOK
  <1>3. PICK k \in 0..Len(dbLog[sess[e]]) :
          dbLog' = [dbLog EXCEPT ![sess[e]] =
                      InsertAfter(dbLog[sess[e]], k, Draft(e))]
    BY DEF SaveMessage
  <1>4. Entries(InsertAfter(dbLog[sess[e]], k, Draft(e)))
          = Entries(dbLog[sess[e]]) \cup {Draft(e)}
    BY <1>1, <1>2, InsertEntries
  <1>5. ASSUME NEW s \in Requests, NEW m
        PROVE  m \in Entries(dbLog'[s]) <=>
                 m \in Entries(dbLog[s]) \/ (s = sess[e] /\ m = Draft(e))
    <2>1. CASE s = sess[e]
      <3>1. dbLog'[s] = InsertAfter(dbLog[sess[e]], k, Draft(e))
        BY <1>1, <1>3, <2>1
      <3> QED BY <1>4, <2>1, <3>1
    <2>2. CASE s # sess[e]
      <3>1. dbLog'[s] = dbLog[s]
        BY <1>1, <1>3, <2>2
      <3> QED BY <2>2, <3>1
    <2> QED BY <2>1, <2>2
  <1>6. \E l \in {"accept", "tool", "announce", "prompt", "failed", "remember"} :
          /\ pc' = [pc EXCEPT ![e] = l]
          /\ l = "accept" <=> part[e] = "user"
    BY DEF SaveMessage, Continue, Goto
  <1>7. \A f \in Requests \ {e} : round'[f] = round[f]
    BY <1>1 DEF SaveMessage, Continue
  <1> QED BY <1>1, <1>5, <1>6, <1>7

\* No message is in memory or in the store.
LEMMA LogInit == Init => LogInv
  <1> SUFFICES ASSUME Init PROVE LogInv
    OBVIOUS
  <1>1. \A s \in Requests : Entries(dbLog[s]) \subseteq Entries(history[s])
    BY DEF Init
  <1> QED BY <1>1 DEF Init, LogInv, StoreWithinMemory

\* append_message pushes before it persists, and a restart copies the table: a
\* step never stores what memory does not hold.
LEMMA LogStep == TypeInv /\ MapInv /\ LogInv /\ [Next]_vars => LogInv'
  <1> SUFFICES ASSUME TypeInv, MapInv, LogInv, [Next]_vars PROVE LogInv'
    OBVIOUS
  <1> USE RuntimeAssumption
      DEF LogInv, StoreWithinMemory, SubmitPc, AppendPc, TurnPc,
          memVars, dbVars, dateVars, turnVars, envVars, Goto, Date, Draft
  <1>0. /\ pc \in [Requests -> {"idle"} \cup SubmitPc \cup AppendPc
                                   \cup TurnPc \cup FinalPc]
        /\ sess \in [Requests -> Requests \cup {None}]
        /\ part \in [Requests -> Parts]
        /\ stamp \in [Requests -> Nat]
        /\ round \in [Requests -> 0..ToolCallLimit]
    BY DEF TypeInv, TypeOK
  <1>1. ASSUME NEW e \in Requests, ResolveNamed(e) PROVE LogInv'
    BY SMTT(30), <1>0, <1>1 DEF ResolveNamed, AfterResolve
  <1>2. ASSUME NEW e \in Requests, ReadBinding(e) PROVE LogInv'
    BY SMTT(30), <1>0, <1>2 DEF ReadBinding
  <1>3. ASSUME NEW e \in Requests, LookupSession(e) PROVE LogInv'
    BY <1>0, <1>3 DEF LookupSession
  <1>4. ASSUME NEW e \in Requests, ResolveAnonymous(e) PROVE LogInv'
    BY <1>0, <1>4 DEF ResolveAnonymous
  <1>5. ASSUME NEW e \in Requests, InsertSession(e) PROVE LogInv'
    BY <1>0, <1>5 DEF InsertSession
  <1>6. ASSUME NEW e \in Requests, SaveSession(e) PROVE LogInv'
    <2>1. e \in sessions
      BY <1>6 DEF SaveSession, MapInv, KnowsSession
    <2> QED BY <1>0, <1>6, <2>1 DEF SaveSession, AfterCreate
  <1>7. ASSUME NEW e \in Requests, SetBinding(e) PROVE LogInv'
    BY <1>0, <1>7 DEF SetBinding
  <1>8. ASSUME NEW e \in Requests, SaveBinding(e) PROVE LogInv'
    BY <1>0, <1>8 DEF SaveBinding
  <1>9. ASSUME NEW e \in Requests, ForeignKeyFails(e) PROVE LogInv'
    BY <1>0, <1>9 DEF ForeignKeyFails
  <1>10. ASSUME NEW e \in Requests, PushMessage(e) PROVE LogInv'
    <2>1. /\ sess[e] \in sessions
          /\ sess[e] \in Requests
          /\ history \in [Requests -> Seq(Message)]
      BY <1>10 DEF PushMessage, MapInv, KnowsSession, TypeInv, TypeOK
    <2>2. Draft(e) \in Message
      BY <1>0 DEF Message
    <2> HIDE DEF Draft
    <2>3. /\ history' = [history EXCEPT ![sess[e]] = Append(history[sess[e]], Draft(e))]
          /\ pc' = [pc EXCEPT ![e] = "save_summary"]
          /\ UNCHANGED <<sessions, dbVars, dateVars, turnVars, envVars, sess>>
      BY <1>10, <2>1 DEF PushMessage
    <2>4. \A s \in Requests :
            Entries(history'[s]) =
              IF s = sess[e] THEN Entries(history[s]) \cup {Draft(e)}
                             ELSE Entries(history[s])
      <3>1. Entries(Append(history[sess[e]], Draft(e)))
              = Entries(history[sess[e]]) \cup {Draft(e)}
        BY <2>1, <2>2, AppendEntries
      <3> QED BY <2>1, <2>3, <3>1
    <2>5. \A f \in Requests : Draft(f)' = Draft(f)
      BY <2>3 DEF Draft
    <2>6. StoreWithinMemory'
      <3> SUFFICES ASSUME up
                   PROVE  /\ dbSessions' \subseteq sessions'
                          /\ \A s \in Requests :
                               Entries(dbLog'[s]) \subseteq Entries(history'[s])
        BY <2>3
      <3>1. \A s \in Requests : Entries(dbLog[s]) \subseteq Entries(history[s])
        OBVIOUS
      <3>2. dbSessions' \subseteq sessions'
        BY <2>3
      <3>3. \A s \in Requests : Entries(dbLog'[s]) \subseteq Entries(history'[s])
        <4>1. dbLog' = dbLog
          BY <2>3
        <4> QED BY <2>4, <3>1, <4>1
      <3> QED BY <3>2, <3>3
    <2>7. \A f \in Requests : pc'[f] \in {"save_summary", "save_message"} =>
            Draft(f)' \in Entries(history'[sess'[f]])
      <3> SUFFICES ASSUME NEW f \in Requests,
                          pc'[f] \in {"save_summary", "save_message"}
                   PROVE  Draft(f) \in Entries(history'[sess[f]])
        BY <2>3, <2>5
      <3>1. CASE f = e
        BY <2>1, <2>4, <3>1
      <3>2. CASE f # e
        <4>1. pc[f] \in {"save_summary", "save_message"} /\ sess[f] \in Requests
          BY <1>0, <2>3, <3>2 DEF TypeInv, KnowsSession
        <4>2. Draft(f) \in Entries(history[sess[f]])
          BY <4>1
        <4> QED BY <2>4, <4>1, <4>2
      <3> QED BY <3>1, <3>2
    <2>8. \A f \in Requests : pc'[f] = "save_message" => sess'[f] \in dbSessions'
      BY <1>0, <2>3
    <2> QED BY <2>6, <2>7, <2>8
  <1>11. ASSUME NEW e \in Requests, SaveSummary(e) PROVE LogInv'
    <2>1. sess[e] \in sessions
      BY <1>11 DEF SaveSummary, MapInv, KnowsSession
    <2> QED BY <1>0, <1>11, <2>1 DEF SaveSummary
  <1>12. ASSUME NEW e \in Requests, SaveMessage(e) PROVE LogInv'
    <2>1. /\ sess[e] \in Requests
          /\ Draft(e) \in Entries(history[sess[e]])
      BY <1>12, SaveMessageEffect
    <2>2. UNCHANGED <<memVars, dbSessions, dateVars, part, envVars, sess>>
      BY <1>12 DEF SaveMessage
    <2> HIDE DEF Draft
    <2>3. PICK l \in {"accept", "tool", "announce", "prompt", "failed", "remember"} :
            pc' = [pc EXCEPT ![e] = l]
      BY <1>12, SaveMessageEffect
    <2>4. StoreWithinMemory'
      BY <1>12, <2>1, <2>2, SaveMessageEffect
    <2>5. ASSUME NEW f \in Requests, pc'[f] \in {"save_summary", "save_message"}
          PROVE  Draft(f)' \in Entries(history'[sess'[f]])
      <3>1. f # e /\ pc[f] = pc'[f]
        BY <1>0, <2>3, <2>5
      <3>2. Draft(f) \in Entries(history[sess[f]])
        BY <2>5, <3>1
      <3>3. Draft(f)' = Draft(f)
        BY <1>12, <2>2, <3>1, SaveMessageEffect DEF Draft
      <3> QED BY <2>2, <3>2, <3>3
    <2>6. \A f \in Requests : pc'[f] = "save_message" => sess'[f] \in dbSessions'
      BY <1>0, <2>2, <2>3
    <2> QED BY <2>4, <2>5, <2>6
  <1>13. ASSUME NEW e \in Requests, Accept(e) PROVE LogInv'
    BY <1>0, <1>13 DEF Accept
  <1>14. ASSUME NEW e \in Requests, BuildPrompt(e) PROVE LogInv'
    BY <1>0, <1>14 DEF BuildPrompt
  <1>15. ASSUME NEW e \in Requests, ProviderFails(e) PROVE LogInv'
    BY <1>0, <1>15 DEF ProviderFails
  <1>16. ASSUME NEW e \in Requests, ProviderCallsTool(e) PROVE LogInv'
    BY <1>0, <1>16 DEF ProviderCallsTool
  <1>17. ASSUME NEW e \in Requests, ProviderAnswers(e) PROVE LogInv'
    BY <1>0, <1>17 DEF ProviderAnswers
  <1>18. ASSUME NEW e \in Requests, RefuseTool(e) PROVE LogInv'
    BY <1>0, <1>18 DEF RefuseTool
  <1>19. ASSUME NEW e \in Requests, StartTool(e) PROVE LogInv'
    BY <1>0, <1>19 DEF StartTool
  <1>20. ASSUME NEW e \in Requests, ToolFails(e) PROVE LogInv'
    BY <1>0, <1>20 DEF ToolFails
  <1>21. ASSUME NEW e \in Requests, ToolReturns(e) PROVE LogInv'
    BY <1>0, <1>21 DEF ToolReturns
  <1>22. ASSUME NEW e \in Requests, Remember(e) PROVE LogInv'
    BY <1>0, <1>22 DEF Remember
  <1>23. ASSUME NEW e \in Requests, EmitError(e) PROVE LogInv'
    BY <1>0, <1>23 DEF EmitError
  <1>24. ASSUME NEW e \in Requests, Abandon(e) PROVE LogInv'
    BY <1>0, <1>24 DEF Abandon
  <1>25. ASSUME NEW e \in Requests, StoreFails(e) PROVE LogInv'
    BY <1>0, <1>25 DEF StoreFails, Failure
  <1>26. ASSUME NEW e \in Requests, NEW r \in Workload, Submit(e, r)
         PROVE  LogInv'
    BY <1>0, <1>26 DEF Submit
  <1>27. ASSUME Crash PROVE LogInv'
    BY <1>0, <1>27 DEF Crash, Live
  <1>28. ASSUME Restart PROVE LogInv'
    BY <1>0, <1>28 DEF Restart, MapInv, Live
  <1>29. ASSUME UNCHANGED vars PROVE LogInv'
    BY <1>29 DEF vars
  <1>30. ASSUME NEW e \in Requests, Announce(e) PROVE LogInv'
    BY <1>0, <1>30 DEF Announce
  <1> QED
    BY <1>1, <1>2, <1>3, <1>4, <1>5, <1>6, <1>7, <1>8, <1>9, <1>10, <1>11,
       <1>12, <1>13, <1>14, <1>15, <1>16, <1>17, <1>18, <1>19, <1>20, <1>21,
       <1>22, <1>23, <1>24, <1>25, <1>26, <1>27, <1>28, <1>29, <1>30
       DEF Next, TaskStep, ResolveStep, AppendStep, TurnStep

-----------------------------------------------------------------------------
(* Promises to clients *)

\* No request has been made, none has been accepted.
LEMMA PhaseInit == Init => PhaseInv
  <1> SUFFICES ASSUME Init PROVE PhaseInv
    OBVIOUS
  <1>1. \A s \in Requests : Entries(dbLog[s]) = {}
    <2>1. \A s \in Requests : dbLog[s] = <<>>
      BY DEF Init
    <2>2. DOMAIN <<>> = {}
      OBVIOUS
    <2> QED BY <2>1, <2>2 DEF Entries
  <1>2. \A e \in Requests : pc[e] = "idle" /\ part[e] = "user" /\ ~Accepted(e)
    BY DEF Init, Accepted
  <1> QED BY <1>1, <1>2 DEF PhaseInv

\* A step never accepts a message before its row is stored, nor rejects one
\* after (submit and append_message).
LEMMA PhaseStep == TypeInv /\ PhaseInv /\ [Next]_vars => PhaseInv'
  <1> SUFFICES ASSUME TypeInv, PhaseInv, [Next]_vars PROVE PhaseInv'
    OBVIOUS
  <1> USE RuntimeAssumption
      DEF PhaseInv, Unheard, Accepted, Stored, SubmitPc, AppendPc, TurnPc,
          memVars, dbVars, dateVars, turnVars, envVars, Goto, Date, Emit
  <1>0. /\ pc \in [Requests -> {"idle"} \cup SubmitPc \cup AppendPc
                                   \cup TurnPc \cup FinalPc]
        /\ sess \in [Requests -> Requests \cup {None}]
        /\ part \in [Requests -> Parts]
        /\ emitted \in [Requests -> SUBSET EventKind]
    BY DEF TypeInv, TypeOK
  <1>1. ASSUME NEW e \in Requests, ResolveNamed(e) PROVE PhaseInv'
    BY <1>0, <1>1 DEF ResolveNamed, AfterResolve
  <1>2. ASSUME NEW e \in Requests, ReadBinding(e) PROVE PhaseInv'
    BY <1>0, <1>2 DEF ReadBinding
  <1>3. ASSUME NEW e \in Requests, LookupSession(e) PROVE PhaseInv'
    BY <1>0, <1>3 DEF LookupSession
  <1>4. ASSUME NEW e \in Requests, ResolveAnonymous(e) PROVE PhaseInv'
    BY <1>0, <1>4 DEF ResolveAnonymous
  <1>5. ASSUME NEW e \in Requests, InsertSession(e) PROVE PhaseInv'
    BY <1>0, <1>5 DEF InsertSession
  <1>6. ASSUME NEW e \in Requests, SaveSession(e) PROVE PhaseInv'
    BY <1>0, <1>6 DEF SaveSession, AfterCreate
  <1>7. ASSUME NEW e \in Requests, SetBinding(e) PROVE PhaseInv'
    BY <1>0, <1>7 DEF SetBinding
  <1>8. ASSUME NEW e \in Requests, SaveBinding(e) PROVE PhaseInv'
    BY <1>0, <1>8 DEF SaveBinding
  <1>9. ASSUME NEW e \in Requests, ForeignKeyFails(e) PROVE PhaseInv'
    BY <1>0, <1>9 DEF ForeignKeyFails
  <1>10. ASSUME NEW e \in Requests, PushMessage(e) PROVE PhaseInv'
    BY <1>0, <1>10 DEF PushMessage, Failure
  <1>11. ASSUME NEW e \in Requests, SaveSummary(e) PROVE PhaseInv'
    BY <1>0, <1>11 DEF SaveSummary
  <1>12. ASSUME NEW e \in Requests, SaveMessage(e) PROVE PhaseInv'
    <2>1. Draft(e).env = e /\ Draft(e).part = part[e]
      BY DEF Draft
    <2>2. PICK l \in {"accept", "tool", "announce", "prompt", "failed", "remember"} :
            pc' = [pc EXCEPT ![e] = l] /\ (l = "accept" <=> part[e] = "user")
      BY <1>12, SaveMessageEffect
    <2>3. UNCHANGED <<part, sess>>
      BY <1>12 DEF SaveMessage
    <2>4. \A f \in Requests : Accepted(f)' <=> Accepted(f)
      BY <1>12 DEF SaveMessage
    <2>5. /\ pc[e] = "save_message"
          /\ sess[e] \in Requests
          /\ \A s \in Requests : \A m :
               m \in Entries(dbLog'[s]) <=>
                 m \in Entries(dbLog[s]) \/ (s = sess[e] /\ m = Draft(e))
      BY <1>12, SaveMessageEffect
    <2> HIDE DEF Accepted
    <2>6. ASSUME NEW f \in Requests, pc'[f] = "accept" \/ Accepted(f)'
          PROVE  sess'[f] \in Requests /\ Stored(f, "user")'
      <3>1. CASE pc[f] = "accept" \/ Accepted(f)
        <4>1. sess[f] \in Requests /\ \E m \in Entries(dbLog[sess[f]]) : m.env = f /\ m.part = "user"
          BY <3>1
        <4>2. PICK m \in Entries(dbLog[sess[f]]) : m.env = f /\ m.part = "user"
          BY <4>1
        <4>3. m \in Entries(dbLog'[sess[f]])
          BY <2>5, <4>1, <4>2
        <4> QED BY <2>3, <4>1, <4>2, <4>3
      <3>2. CASE ~(pc[f] = "accept" \/ Accepted(f))
        <4>1. f = e /\ part[e] = "user"
          BY <1>0, <2>2, <2>4, <2>6, <3>2
        <4>2. Draft(e) \in Entries(dbLog'[sess[e]])
          BY <2>5
        <4> QED BY <2>1, <2>3, <2>5, <4>1, <4>2
      <3> QED BY <3>1, <3>2
    <2>7. ASSUME NEW f \in Requests, Unheard(f)'
          PROVE  \A s \in Requests : \A m \in Entries(dbLog'[s]) : m.env # f
      <3>1. f # e
        BY <1>0, <2>2, <2>3, <2>7
      <3>2. Unheard(f)
        BY <1>0, <2>2, <2>3, <2>7, <3>1
      <3>3. \A s \in Requests : \A m \in Entries(dbLog[s]) : m.env # f
        BY <3>2
      <3> QED BY <2>1, <2>5, <3>1, <3>3
    <2>8. ASSUME NEW f \in Requests, Unheard(f)'
          PROVE  ~Accepted(f)'
      <3>1. Unheard(f)
        BY <1>0, <2>2, <2>3, <2>5, <2>8
      <3> QED BY <2>4, <3>1
    <2>9. ASSUME NEW f \in Requests
          PROVE  /\ pc'[f] \in {"idle"} \cup SubmitPc => part'[f] = "user"
                 /\ pc'[f] = "accept" => ~Accepted(f)'
      BY <1>0, <2>2, <2>3, <2>4, <2>5
    <2> HIDE DEF Unheard, Stored
    <2> QED BY <2>6, <2>7, <2>8, <2>9
  <1>13. ASSUME NEW e \in Requests, Accept(e) PROVE PhaseInv'
    BY <1>0, <1>13 DEF Accept
  <1>14. ASSUME NEW e \in Requests, BuildPrompt(e) PROVE PhaseInv'
    BY <1>0, <1>14 DEF BuildPrompt
  <1>15. ASSUME NEW e \in Requests, ProviderFails(e) PROVE PhaseInv'
    BY <1>0, <1>15 DEF ProviderFails
  <1>16. ASSUME NEW e \in Requests, ProviderCallsTool(e) PROVE PhaseInv'
    BY <1>0, <1>16 DEF ProviderCallsTool
  <1>17. ASSUME NEW e \in Requests, ProviderAnswers(e) PROVE PhaseInv'
    BY <1>0, <1>17 DEF ProviderAnswers
  <1>18. ASSUME NEW e \in Requests, RefuseTool(e) PROVE PhaseInv'
    BY <1>0, <1>18 DEF RefuseTool
  <1>19. ASSUME NEW e \in Requests, StartTool(e) PROVE PhaseInv'
    BY <1>0, <1>19 DEF StartTool
  <1>20. ASSUME NEW e \in Requests, ToolFails(e) PROVE PhaseInv'
    BY <1>0, <1>20 DEF ToolFails
  <1>21. ASSUME NEW e \in Requests, ToolReturns(e) PROVE PhaseInv'
    BY <1>0, <1>21 DEF ToolReturns
  <1>22. ASSUME NEW e \in Requests, Remember(e) PROVE PhaseInv'
    BY <1>0, <1>22 DEF Remember
  <1>23. ASSUME NEW e \in Requests, EmitError(e) PROVE PhaseInv'
    BY <1>0, <1>23 DEF EmitError
  <1>24. ASSUME NEW e \in Requests, Abandon(e) PROVE PhaseInv'
    BY <1>0, <1>24 DEF Abandon
  <1>25. ASSUME NEW e \in Requests, StoreFails(e) PROVE PhaseInv'
    BY <1>0, <1>25 DEF StoreFails, Failure
  <1>26. ASSUME NEW e \in Requests, NEW r \in Workload, Submit(e, r)
         PROVE  PhaseInv'
    BY <1>0, <1>26 DEF Submit
  <1>27. ASSUME Crash PROVE PhaseInv'
    BY <1>0, <1>27 DEF Crash, Live
  <1>28. ASSUME Restart PROVE PhaseInv'
    BY <1>0, <1>28 DEF Restart
  <1>29. ASSUME UNCHANGED vars PROVE PhaseInv'
    BY <1>29 DEF vars
  <1>30. ASSUME NEW e \in Requests, Announce(e) PROVE PhaseInv'
    BY <1>0, <1>30 DEF Announce
  <1> QED
    BY <1>1, <1>2, <1>3, <1>4, <1>5, <1>6, <1>7, <1>8, <1>9, <1>10, <1>11,
       <1>12, <1>13, <1>14, <1>15, <1>16, <1>17, <1>18, <1>19, <1>20, <1>21,
       <1>22, <1>23, <1>24, <1>25, <1>26, <1>27, <1>28, <1>29, <1>30
       DEF Next, TaskStep, ResolveStep, AppendStep, TurnStep

-----------------------------------------------------------------------------
(* Theorems *)

\* The conjuncts of IndInv support each other: a row is in memory because the
\* task that stores it has a session in memory, which holds because bindings
\* and the rows a restart reads back refer to sessions that exist.
THEOREM Invariance == Spec => []IndInv
  <1>1. Init => IndInv
    BY TypeInit, MapInit, PhaseInit, LogInit DEF IndInv
  <1>2. IndInv /\ [Next]_vars => IndInv'
    BY TypeStep, MapStep, PhaseStep, LogStep DEF IndInv
  <1> QED BY <1>1, <1>2, PTL DEF Spec

\* Whatever interleaves, fails or dies: the message of every receipt is in the
\* store for good (submit and append_message).
THEOREM Durability == Spec => []AcceptedDurable
  <1>1. IndInv => AcceptedDurable
    BY DEF IndInv, PhaseInv, AcceptedDurable
  <1> QED BY <1>1, Invariance, PTL

\* A submission that was answered with Err is in no table.
THEOREM CleanRejection == Spec => []RejectedNotStored
  <1>1. IndInv => RejectedNotStored
    BY DEF IndInv, PhaseInv, Unheard, RejectedNotStored
  <1> QED BY <1>1, Invariance, PTL

\* A serving process never knows less than its database.
THEOREM MemoryCoversStore == Spec => []StoreWithinMemory
  <1>1. IndInv => StoreWithinMemory
    BY DEF IndInv, LogInv
  <1> QED BY <1>1, Invariance, PTL

\* No binding dangles, in memory or in the store, at any time.
THEOREM BindingsResolve == Spec => []BindingsLive
  <1>1. IndInv => BindingsLive
    BY DEF IndInv, MapInv
  <1> QED BY <1>1, Invariance, PTL

-----------------------------------------------------------------------------
(* Turns belong to accepted messages *)

\* Every request is idle.
LEMMA KindInit == Init => KindInv
  BY RuntimeAssumption
     DEF Init, KindInv, InTurn, SubmitPc, AppendPc, TurnPc

\* A step never gets a turn going whose message is not accepted.
LEMMA KindStep == TypeInv /\ PhaseInv /\ KindInv /\ [Next]_vars => KindInv'
  <1> SUFFICES ASSUME TypeInv, PhaseInv, KindInv, [Next]_vars PROVE KindInv'
    OBVIOUS
  <1> USE RuntimeAssumption
      DEF KindInv, InTurn, Accepted, SubmitPc, AppendPc, TurnPc, FinalPc,
          memVars, dbVars, dateVars, turnVars, envVars, Goto, Date, Emit
  <1>0. /\ pc \in [Requests -> {"idle"} \cup SubmitPc \cup AppendPc
                                   \cup TurnPc \cup FinalPc]
        /\ part \in [Requests -> Parts]
        /\ req \in [Requests -> RequestContent \cup {None}]
        /\ emitted \in [Requests -> SUBSET EventKind]
        /\ \A e \in Requests : pc[e] \in {"idle"} \cup SubmitPc => part[e] = "user"
    BY DEF TypeInv, TypeOK, PhaseInv
  <1>1. ASSUME NEW e \in Requests, ResolveNamed(e) PROVE KindInv'
    BY <1>0, <1>1 DEF ResolveNamed, AfterResolve
  <1>2. ASSUME NEW e \in Requests, ReadBinding(e) PROVE KindInv'
    BY <1>0, <1>2 DEF ReadBinding
  <1>3. ASSUME NEW e \in Requests, LookupSession(e) PROVE KindInv'
    BY <1>0, <1>3 DEF LookupSession
  <1>4. ASSUME NEW e \in Requests, ResolveAnonymous(e) PROVE KindInv'
    BY <1>0, <1>4 DEF ResolveAnonymous
  <1>5. ASSUME NEW e \in Requests, InsertSession(e) PROVE KindInv'
    BY <1>0, <1>5 DEF InsertSession
  <1>6. ASSUME NEW e \in Requests, SaveSession(e) PROVE KindInv'
    BY <1>0, <1>6 DEF SaveSession, AfterCreate
  <1>7. ASSUME NEW e \in Requests, SetBinding(e) PROVE KindInv'
    BY <1>0, <1>7 DEF SetBinding
  <1>8. ASSUME NEW e \in Requests, SaveBinding(e) PROVE KindInv'
    BY <1>0, <1>8 DEF SaveBinding
  <1>9. ASSUME NEW e \in Requests, ForeignKeyFails(e) PROVE KindInv'
    BY <1>0, <1>9 DEF ForeignKeyFails
  <1>10. ASSUME NEW e \in Requests, PushMessage(e) PROVE KindInv'
    BY <1>0, <1>10 DEF PushMessage, Failure
  <1>11. ASSUME NEW e \in Requests, SaveSummary(e) PROVE KindInv'
    BY <1>0, <1>11 DEF SaveSummary
  <1>12. ASSUME NEW e \in Requests, SaveMessage(e) PROVE KindInv'
    BY <1>0, <1>12 DEF SaveMessage, Continue
  <1>13. ASSUME NEW e \in Requests, Accept(e) PROVE KindInv'
    BY <1>0, <1>13 DEF Accept
  <1>14. ASSUME NEW e \in Requests, BuildPrompt(e) PROVE KindInv'
    BY <1>0, <1>14 DEF BuildPrompt
  <1>15. ASSUME NEW e \in Requests, ProviderFails(e) PROVE KindInv'
    BY <1>0, <1>15 DEF ProviderFails
  <1>16. ASSUME NEW e \in Requests, ProviderCallsTool(e) PROVE KindInv'
    BY <1>0, <1>16 DEF ProviderCallsTool
  <1>17. ASSUME NEW e \in Requests, ProviderAnswers(e) PROVE KindInv'
    BY <1>0, <1>17 DEF ProviderAnswers
  <1>18. ASSUME NEW e \in Requests, RefuseTool(e) PROVE KindInv'
    BY <1>0, <1>18 DEF RefuseTool
  <1>19. ASSUME NEW e \in Requests, StartTool(e) PROVE KindInv'
    BY <1>0, <1>19 DEF StartTool
  <1>20. ASSUME NEW e \in Requests, ToolFails(e) PROVE KindInv'
    BY <1>0, <1>20 DEF ToolFails
  <1>21. ASSUME NEW e \in Requests, ToolReturns(e) PROVE KindInv'
    BY <1>0, <1>21 DEF ToolReturns
  <1>22. ASSUME NEW e \in Requests, Remember(e) PROVE KindInv'
    BY <1>0, <1>22 DEF Remember
  <1>23. ASSUME NEW e \in Requests, EmitError(e) PROVE KindInv'
    BY <1>0, <1>23 DEF EmitError
  <1>24. ASSUME NEW e \in Requests, Abandon(e) PROVE KindInv'
    BY <1>0, <1>24 DEF Abandon
  <1>25. ASSUME NEW e \in Requests, StoreFails(e) PROVE KindInv'
    BY <1>0, <1>25 DEF StoreFails, Failure
  <1>26. ASSUME NEW e \in Requests, NEW r \in Workload, Submit(e, r) PROVE KindInv'
    BY <1>0, <1>26 DEF Submit, PhaseInv, Unheard
  <1>27. ASSUME Crash PROVE KindInv'
    BY <1>0, <1>27 DEF Crash, Live
  <1>28. ASSUME Restart PROVE KindInv'
    BY <1>0, <1>28 DEF Restart
  <1>29. ASSUME UNCHANGED vars PROVE KindInv'
    BY <1>29 DEF vars
  <1>30. ASSUME NEW e \in Requests, Announce(e) PROVE KindInv'
    BY <1>0, <1>30 DEF Announce
  <1> QED
    BY <1>1, <1>2, <1>3, <1>4, <1>5, <1>6, <1>7, <1>8, <1>9, <1>10, <1>11,
       <1>12, <1>13, <1>14, <1>15, <1>16, <1>17, <1>18, <1>19, <1>20, <1>21,
       <1>22, <1>23, <1>24, <1>25, <1>26, <1>27, <1>28, <1>29, <1>30
       DEF Next, TaskStep, ResolveStep, AppendStep, TurnStep
-----------------------------------------------------------------------------
(* The closing events of a turn *)

\* There are no messages at first.
LEMMA InitLogs ==
  ASSUME Init
  PROVE  \A s \in Requests : Entries(history[s]) = {} /\ Entries(dbLog[s]) = {}
  <1>1. \A s \in Requests : history[s] = <<>> /\ dbLog[s] = <<>>
    BY DEF Init
  <1>2. DOMAIN <<>> = {}
    OBVIOUS
  <1> QED BY <1>1, <1>2 DEF Entries

\* No event was sent and nothing is stored.
LEMMA OutcomeInit == Init => OutcomeInv
  <1> SUFFICES ASSUME Init PROVE OutcomeInv
    OBVIOUS
  <1>1. \A s \in Requests : Entries(dbLog[s]) = {}
    BY InitLogs
  <1> QED
    BY <1>1 DEF Init, OutcomeInv, Answering, Accepted, AppendPc

\* A step tells a client that its turn is over when it is, and stores no answer of a
\* turn that fails.
LEMMA OutcomeStep ==
  TypeInv /\ PhaseInv /\ KindInv /\ OutcomeInv /\ [Next]_vars => OutcomeInv'
  <1> SUFFICES ASSUME TypeInv, PhaseInv, KindInv, OutcomeInv, [Next]_vars
               PROVE  OutcomeInv'
    OBVIOUS
  <1> USE RuntimeAssumption
      DEF OutcomeInv, Undecided, Answering, Accepted, SubmitPc, AppendPc, TurnPc,
          memVars, dbVars, dateVars, turnVars, envVars, Goto, Date, Emit
  <1>0. /\ pc \in [Requests -> {"idle"} \cup SubmitPc \cup AppendPc
                                   \cup TurnPc \cup FinalPc]
        /\ part \in [Requests -> Parts]
        /\ req \in [Requests -> RequestContent \cup {None}]
        /\ emitted \in [Requests -> SUBSET EventKind]
        /\ \A e \in Requests : pc[e] \in {"idle"} \cup SubmitPc => part[e] = "user"
    BY DEF TypeInv, TypeOK, PhaseInv
  <1>a. \A e \in Requests : Unheard(e) =>
          ~Accepted(e) /\ \A s \in Requests : \A m \in Entries(dbLog[s]) : m.env # e
    BY DEF PhaseInv
  <1>1. ASSUME NEW e \in Requests, ResolveNamed(e) PROVE OutcomeInv'
    BY <1>0, <1>a, <1>1 DEF ResolveNamed, AfterResolve
  <1>2. ASSUME NEW e \in Requests, ReadBinding(e) PROVE OutcomeInv'
    BY <1>0, <1>a, <1>2 DEF ReadBinding
  <1>3. ASSUME NEW e \in Requests, LookupSession(e) PROVE OutcomeInv'
    BY <1>0, <1>a, <1>3 DEF LookupSession
  <1>4. ASSUME NEW e \in Requests, ResolveAnonymous(e) PROVE OutcomeInv'
    BY <1>0, <1>a, <1>4 DEF ResolveAnonymous
  <1>5. ASSUME NEW e \in Requests, InsertSession(e) PROVE OutcomeInv'
    BY <1>0, <1>a, <1>5 DEF InsertSession
  <1>6. ASSUME NEW e \in Requests, SaveSession(e) PROVE OutcomeInv'
    BY <1>0, <1>a, <1>6 DEF SaveSession, AfterCreate, Unheard
  <1>7. ASSUME NEW e \in Requests, SetBinding(e) PROVE OutcomeInv'
    BY <1>0, <1>a, <1>7 DEF SetBinding
  <1>8. ASSUME NEW e \in Requests, SaveBinding(e) PROVE OutcomeInv'
    BY <1>0, <1>a, <1>8 DEF SaveBinding
  <1>9. ASSUME NEW e \in Requests, ForeignKeyFails(e) PROVE OutcomeInv'
    BY <1>0, <1>a, <1>9 DEF ForeignKeyFails
  <1>10. ASSUME NEW e \in Requests, PushMessage(e) PROVE OutcomeInv'
    BY <1>0, <1>a, <1>10 DEF PushMessage, Failure
  <1>11. ASSUME NEW e \in Requests, SaveSummary(e) PROVE OutcomeInv'
    BY <1>0, <1>a, <1>11 DEF SaveSummary
  <1>12. ASSUME NEW e \in Requests, SaveMessage(e) PROVE OutcomeInv'
    <2>1. Draft(e).env = e /\ Draft(e).part = part[e]
      BY DEF Draft
    <2>2. /\ pc[e] = "save_message"
          /\ \A s \in Requests : \A m :
               m \in Entries(dbLog'[s]) <=>
                 m \in Entries(dbLog[s]) \/ (s = sess[e] /\ m = Draft(e))
      BY <1>12, SaveMessageEffect
    <2>3. PICK l \in {"accept", "tool", "announce", "prompt", "failed", "remember"} :
            pc' = [pc EXCEPT ![e] = l] /\ (l = "remember" <=> part[e] = "reply")
      BY <1>0, <1>12 DEF SaveMessage, Continue, Parts
    <2>4. UNCHANGED <<part, emitted>>
      BY <1>12 DEF SaveMessage
    <2>5. ASSUME NEW f \in Requests
          PROVE  /\ Undecided(f)' => emitted'[f] \cap {"completed", "error"} = {}
                 /\ Answering(f)' => "completed" \in emitted'[f] /\ "error" \notin emitted'[f]
                 /\ pc'[f] = "failed" => "error" \notin emitted'[f]
                 /\ pc'[f] = "done" /\ Accepted(f)' =>
                      emitted'[f] \cap {"completed", "error"} # {}
      BY <1>0, <2>2, <2>3, <2>4
    <2>6. ASSUME NEW f \in Requests, NEW s \in Requests,
                 NEW m \in Entries(dbLog'[s]), m.env = f, m.part = "reply"
          PROVE  pc'[f] \in {"remember", "done", "lost"} /\ "error" \notin emitted'[f]
      <3>1. CASE m \in Entries(dbLog[s])
        BY <1>0, <2>2, <2>3, <2>4, <2>6, <3>1
      <3>2. CASE m \notin Entries(dbLog[s])
        <4>1. f = e /\ part[e] = "reply"
          BY <2>1, <2>2, <2>6, <3>2
        <4> QED BY <1>0, <2>2, <2>3, <2>4, <4>1
      <3> QED BY <3>1, <3>2
    <2> HIDE DEF Undecided, Answering
    <2> QED BY <2>5, <2>6
  <1>13. ASSUME NEW e \in Requests, Accept(e) PROVE OutcomeInv'
    BY <1>0, <1>a, <1>13 DEF Accept
  <1>14. ASSUME NEW e \in Requests, BuildPrompt(e) PROVE OutcomeInv'
    BY <1>0, <1>a, <1>14 DEF BuildPrompt
  <1>15. ASSUME NEW e \in Requests, ProviderFails(e) PROVE OutcomeInv'
    BY <1>0, <1>a, <1>15 DEF ProviderFails
  <1>16. ASSUME NEW e \in Requests, ProviderCallsTool(e) PROVE OutcomeInv'
    BY <1>0, <1>a, <1>16 DEF ProviderCallsTool
  <1>17. ASSUME NEW e \in Requests, ProviderAnswers(e) PROVE OutcomeInv'
    BY <1>0, <1>a, <1>17 DEF ProviderAnswers
  <1>18. ASSUME NEW e \in Requests, RefuseTool(e) PROVE OutcomeInv'
    BY <1>0, <1>a, <1>18 DEF RefuseTool
  <1>19. ASSUME NEW e \in Requests, StartTool(e) PROVE OutcomeInv'
    BY <1>0, <1>a, <1>19 DEF StartTool
  <1>20. ASSUME NEW e \in Requests, ToolFails(e) PROVE OutcomeInv'
    BY <1>0, <1>a, <1>20 DEF ToolFails
  <1>21. ASSUME NEW e \in Requests, ToolReturns(e) PROVE OutcomeInv'
    BY <1>0, <1>a, <1>21 DEF ToolReturns
  <1>22. ASSUME NEW e \in Requests, Remember(e) PROVE OutcomeInv'
    BY <1>0, <1>a, <1>22 DEF Remember
  <1>23. ASSUME NEW e \in Requests, EmitError(e) PROVE OutcomeInv'
    BY <1>0, <1>a, <1>23 DEF EmitError
  <1>24. ASSUME NEW e \in Requests, Abandon(e) PROVE OutcomeInv'
    BY <1>0, <1>a, <1>24 DEF Abandon
  <1>25. ASSUME NEW e \in Requests, StoreFails(e) PROVE OutcomeInv'
    BY <1>0, <1>a, <1>25 DEF StoreFails, Failure
  <1>26. ASSUME NEW e \in Requests, NEW r \in Workload, Submit(e, r) PROVE OutcomeInv'
    BY <1>0, <1>a, <1>26 DEF Submit
  <1>27. ASSUME Crash PROVE OutcomeInv'
    BY <1>0, <1>a, <1>27 DEF Crash, Live
  <1>28. ASSUME Restart PROVE OutcomeInv'
    BY <1>0, <1>a, <1>28 DEF Restart
  <1>29. ASSUME UNCHANGED vars PROVE OutcomeInv'
    BY <1>29 DEF vars
  <1>30. ASSUME NEW e \in Requests, Announce(e) PROVE OutcomeInv'
    BY <1>0, <1>a, <1>30 DEF Announce
  <1> QED
    BY <1>1, <1>2, <1>3, <1>4, <1>5, <1>6, <1>7, <1>8, <1>9, <1>10, <1>11,
       <1>12, <1>13, <1>14, <1>15, <1>16, <1>17, <1>18, <1>19, <1>20, <1>21,
       <1>22, <1>23, <1>24, <1>25, <1>26, <1>27, <1>28, <1>29, <1>30
       DEF Next, TaskStep, ResolveStep, AppendStep, TurnStep
-----------------------------------------------------------------------------
(* Tool calls and their outputs *)

\* Only messages are in a log.
LEMMA EntriesType ==
  ASSUME NEW S, NEW log \in Seq(S)
  PROVE  \A m \in Entries(log) : m \in S
  BY ElementOfSeq DEF Entries

\* What is in memory or in the store is a message of some request.
LEMMA LogTypes ==
  ASSUME TypeInv
  PROVE  \A s \in Requests :
           /\ \A m \in Entries(dbLog[s]) : m \in Message /\ m.env \in Requests
           /\ \A m \in Entries(history[s]) : m \in Message /\ m.env \in Requests
  <1>1. history \in [Requests -> Seq(Message)] /\ dbLog \in [Requests -> Seq(Message)]
    BY DEF TypeInv, TypeOK
  <1>2. \A m \in Message : m.env \in Requests
    BY DEF Message
  <1> QED BY <1>1, <1>2, EntriesType

\* A step of e that appends nothing to a table keeps the exchanges there paired, if it
\* does not settle a turn that waits for a tool.
LEMMA PairFrame ==
  ASSUME TypeInv, PhaseInv, PairInv, NEW e \in Requests,
         UNCHANGED <<dbLog, round>>,
         \A f \in Requests \ {e} :
           /\ pc'[f] = pc[f] /\ part'[f] = part[f] /\ emitted'[f] = emitted[f]
           /\ sess'[f] = sess[f] /\ req'[f] = req[f],
         Unheard(e) \/ sess'[e] = sess[e],
         Settled(e)' => Settled(e) \/ Unheard(e),
         PendingCall(e)' => PendingCall(e) \/ Settled(e) \/ Unheard(e),
         Finished(e)' => Finished(e) /\ sess'[e] = sess[e]
  PROVE  PairInv'
  <1>1. ASSUME NEW s \in Requests, NEW m \in Entries(dbLog[s])
        PROVE  /\ s = sess'[m.env]
               /\ m.part = "tool_call" /\ Settled(m.env)' => Answered(m, dbLog[s])
               /\ m.part = "tool_call" /\ PendingCall(m.env)' =>
                    m.round = round[m.env] \/ Answered(m, dbLog[s])
    <2>1. CASE m.env = e
      <3>1. ~Unheard(e)
        BY <2>1 DEF PhaseInv
      <3> QED BY <2>1, <3>1 DEF PairInv
    <2>2. CASE m.env # e
      <3>1. m.env \in Requests \ {e}
        BY <2>2, LogTypes
      <3>2. /\ Settled(m.env)' <=> Settled(m.env)
            /\ PendingCall(m.env)' <=> PendingCall(m.env)
        BY <3>1 DEF Settled, PendingCall
      <3> QED BY <3>1, <3>2 DEF PairInv
    <2> QED BY <2>1, <2>2
  <1>2. ASSUME NEW f \in Requests, Finished(f)'
        PROVE  Stored(f, "reply")'
    <2>1. Finished(f) /\ sess'[f] = sess[f]
      BY <1>2 DEF Finished, Accepted
    <2> QED BY <2>1 DEF PairInv, Stored
  <1> QED BY <1>1, <1>2 DEF PairInv, Answered

\* No exchange has begun.
LEMMA PairInit == Init => PairInv
  <1> SUFFICES ASSUME Init PROVE PairInv
    OBVIOUS
  <1>1. \A s \in Requests : Entries(dbLog[s]) = {}
    BY InitLogs
  <1> QED BY <1>1 DEF Init, PairInv, Finished

\* A step never ends a turn with a tool call whose output is not stored.
LEMMA PairStep ==
  TypeInv /\ PhaseInv /\ KindInv /\ PairInv /\ [Next]_vars => PairInv'
  <1> SUFFICES ASSUME TypeInv, PhaseInv, KindInv, PairInv, [Next]_vars
               PROVE  PairInv'
    OBVIOUS
  <1> USE RuntimeAssumption
      DEF SubmitPc, AppendPc, TurnPc,
          memVars, dbVars, dateVars, turnVars, envVars, Goto, Date, Emit
  <1>0. /\ pc \in [Requests -> {"idle"} \cup SubmitPc \cup AppendPc
                                   \cup TurnPc \cup FinalPc]
        /\ part \in [Requests -> Parts]
        /\ sess \in [Requests -> Requests \cup {None}]
        /\ round \in [Requests -> 0..ToolCallLimit]
        /\ req \in [Requests -> RequestContent \cup {None}]
        /\ emitted \in [Requests -> SUBSET EventKind]
        /\ \A e \in Requests : pc[e] \in {"idle"} \cup SubmitPc => part[e] = "user"
    BY DEF TypeInv, TypeOK, PhaseInv
  <1>a. \A e \in Requests : Unheard(e) =>
          ~Accepted(e) /\ \A s \in Requests : \A m \in Entries(dbLog[s]) : m.env # e
    BY DEF PhaseInv
  <1>b. \A s \in Requests : \A m \in Entries(dbLog[s]) : m.env \in Requests
    BY LogTypes
  <1>c. \A e \in Requests : pc[e] = "announce" => req[e].kind = "read"
    BY DEF KindInv
  <1>1. ASSUME NEW e \in Requests, ResolveNamed(e) PROVE PairInv'
    BY <1>0, <1>a, <1>1, PairFrame
       DEF ResolveNamed, Unheard, Settled, PendingCall, Finished, Accepted, AfterResolve
  <1>2. ASSUME NEW e \in Requests, ReadBinding(e) PROVE PairInv'
    BY <1>0, <1>a, <1>2, PairFrame
       DEF ReadBinding, Unheard, Settled, PendingCall, Finished, Accepted
  <1>3. ASSUME NEW e \in Requests, LookupSession(e) PROVE PairInv'
    BY <1>0, <1>a, <1>3, PairFrame
       DEF LookupSession, Unheard, Settled, PendingCall, Finished, Accepted
  <1>4. ASSUME NEW e \in Requests, ResolveAnonymous(e) PROVE PairInv'
    BY <1>0, <1>a, <1>4, PairFrame
       DEF ResolveAnonymous, Unheard, Settled, PendingCall, Finished, Accepted
  <1>5. ASSUME NEW e \in Requests, InsertSession(e) PROVE PairInv'
    BY <1>0, <1>a, <1>5, PairFrame
       DEF InsertSession, Unheard, Settled, PendingCall, Finished, Accepted
  <1>6. ASSUME NEW e \in Requests, SaveSession(e) PROVE PairInv'
    BY <1>0, <1>a, <1>6, PairFrame
       DEF SaveSession, Unheard, Settled, PendingCall, Finished, Accepted, AfterCreate
  <1>7. ASSUME NEW e \in Requests, SetBinding(e) PROVE PairInv'
    BY <1>0, <1>a, <1>7, PairFrame
       DEF SetBinding, Unheard, Settled, PendingCall, Finished, Accepted
  <1>8. ASSUME NEW e \in Requests, SaveBinding(e) PROVE PairInv'
    BY <1>0, <1>a, <1>8, PairFrame
       DEF SaveBinding, Unheard, Settled, PendingCall, Finished, Accepted
  <1>9. ASSUME NEW e \in Requests, ForeignKeyFails(e) PROVE PairInv'
    BY <1>0, <1>a, <1>9, PairFrame
       DEF ForeignKeyFails, Unheard, Settled, PendingCall, Finished, Accepted
  <1>10. ASSUME NEW e \in Requests, PushMessage(e) PROVE PairInv'
    BY <1>0, <1>a, <1>10, PairFrame
       DEF PushMessage, Unheard, Settled, PendingCall, Finished, Accepted, Failure
  <1>11. ASSUME NEW e \in Requests, SaveSummary(e) PROVE PairInv'
    BY <1>0, <1>a, <1>11, PairFrame
       DEF SaveSummary, Unheard, Settled, PendingCall, Finished, Accepted
  <1>12. ASSUME NEW e \in Requests, SaveMessage(e) PROVE PairInv'
    <2>1. /\ Draft(e).env = e /\ Draft(e).part = part[e]
          /\ Draft(e).round = round[e]
      BY DEF Draft
    <2>2. /\ pc[e] = "save_message"
          /\ sess[e] \in Requests
          /\ \A s \in Requests : \A m :
               m \in Entries(dbLog'[s]) <=>
                 m \in Entries(dbLog[s]) \/ (s = sess[e] /\ m = Draft(e))
          /\ \A f \in Requests \ {e} : round'[f] = round[f]
      BY <1>12, SaveMessageEffect
    <2>3. PICK l \in {"accept", "tool", "announce", "prompt", "failed", "remember"} :
            /\ pc' = [pc EXCEPT ![e] = l]
            /\ l = "accept" <=> part[e] = "user"
            /\ l = "tool" <=> part[e] = "tool_call"
            /\ l = "remember" <=> part[e] = "reply"
            /\ l \notin {"prompt", "failed"} => round'[e] = round[e]
      BY <1>0, <1>12 DEF SaveMessage, Continue, Parts
    <2>4. UNCHANGED <<part, emitted, sess, req>>
      BY <1>12 DEF SaveMessage
    <2>5. ASSUME NEW s \in Requests, NEW m, Answered(m, dbLog[s])
          PROVE  Answered(m, dbLog'[s])
      BY <2>2, <2>5 DEF Answered
    <2>6. ASSUME NEW s \in Requests, NEW m \in Entries(dbLog'[s])
          PROVE  /\ s = sess'[m.env]
                 /\ m.part = "tool_call" /\ Settled(m.env)' => Answered(m, dbLog'[s])
                 /\ m.part = "tool_call" /\ PendingCall(m.env)' =>
                      m.round = round'[m.env] \/ Answered(m, dbLog'[s])
      <3>1. CASE m \in Entries(dbLog[s]) /\ m.env = e
        <4>1. s = sess[e] /\ part[e] # "user"
          BY <1>a, <2>2, <3>1 DEF PairInv, Unheard, AppendPc
        <4>2. CASE part[e] = "tool" /\ m.round = round[e]
          <5>1. Answered(m, dbLog'[s])
            BY <2>1, <2>2, <3>1, <4>1, <4>2 DEF Answered
          <5> QED BY <2>4, <3>1, <4>1, <5>1
        <4>3. CASE ~(part[e] = "tool" /\ m.round = round[e])
          <5>1. m.part = "tool_call" => Answered(m, dbLog[s])
            BY <1>0, <2>2, <3>1, <4>3 DEF PairInv, Settled, PendingCall, AppendPc
          <5> QED BY <2>4, <2>5, <3>1, <4>1, <5>1
        <4> QED BY <4>2, <4>3
      <3>2. CASE m \in Entries(dbLog[s]) /\ m.env # e
        <4>1. m.env \in Requests
          BY <3>2, LogTypes
        <4>2. /\ Settled(m.env)' <=> Settled(m.env)
              /\ PendingCall(m.env)' <=> PendingCall(m.env)
              /\ round'[m.env] = round[m.env]
          BY <1>0, <2>2, <2>3, <2>4, <3>2, <4>1 DEF Settled, PendingCall
        <4> QED BY <2>4, <2>5, <3>2, <4>2 DEF PairInv
      <3>3. CASE m \notin Entries(dbLog[s])
        <4>1. s = sess[e] /\ m = Draft(e)
          BY <2>2, <2>6, <3>3
        <4>2. m.part = "tool_call" => ~Settled(e)' /\ round'[e] = round[e]
          BY <1>0, <2>1, <2>2, <2>3, <4>1 DEF Settled, PendingCall
        <4> QED BY <2>1, <2>4, <4>1, <4>2
      <3> QED BY <3>1, <3>2, <3>3
    <2>7. ASSUME NEW f \in Requests, Finished(f)'
          PROVE  Stored(f, "reply")'
      <3>1. CASE f = e
        <4>1. part[e] = "reply"
          BY <1>0, <2>3, <2>7, <3>1 DEF Finished
        <4>2. Draft(e) \in Entries(dbLog'[sess[e]])
          BY <2>2
        <4> QED BY <2>1, <2>4, <3>1, <4>1, <4>2 DEF Stored
      <3>2. CASE f # e
        <4>1. Finished(f)
          BY <1>0, <2>3, <2>4, <2>7, <3>2 DEF Finished, Accepted
        <4>2. Stored(f, "reply")
          BY <4>1 DEF PairInv
        <4>3. sess[f] \in Requests
          BY <4>1 DEF Finished, PhaseInv, TypeInv, KnowsSession, TurnPc
        <4> QED BY <2>2, <2>4, <4>2, <4>3 DEF Stored
      <3> QED BY <3>1, <3>2
    <2> QED BY <2>6, <2>7 DEF PairInv
  <1>13. ASSUME NEW e \in Requests, Accept(e) PROVE PairInv'
    BY <1>0, <1>a, <1>13, PairFrame
       DEF Accept, Unheard, Settled, PendingCall, Finished, Accepted
  <1>14. ASSUME NEW e \in Requests, BuildPrompt(e) PROVE PairInv'
    BY <1>0, <1>a, <1>14, PairFrame
       DEF BuildPrompt, Unheard, Settled, PendingCall, Finished, Accepted
  <1>15. ASSUME NEW e \in Requests, ProviderFails(e) PROVE PairInv'
    BY <1>0, <1>a, <1>15, PairFrame
       DEF ProviderFails, Unheard, Settled, PendingCall, Finished, Accepted
  <1>16. ASSUME NEW e \in Requests, ProviderCallsTool(e) PROVE PairInv'
    BY <1>0, <1>a, <1>16, PairFrame
       DEF ProviderCallsTool, Unheard, Settled, PendingCall, Finished, Accepted
  <1>17. ASSUME NEW e \in Requests, ProviderAnswers(e) PROVE PairInv'
    BY <1>0, <1>a, <1>17, PairFrame
       DEF ProviderAnswers, Unheard, Settled, PendingCall, Finished, Accepted
  <1>18. ASSUME NEW e \in Requests, RefuseTool(e) PROVE PairInv'
    BY <1>0, <1>a, <1>18, PairFrame
       DEF RefuseTool, Unheard, Settled, PendingCall, Finished, Accepted
  <1>19. ASSUME NEW e \in Requests, StartTool(e) PROVE PairInv'
    BY <1>0, <1>a, <1>19, PairFrame
       DEF StartTool, Unheard, Settled, PendingCall, Finished, Accepted
  <1>20. ASSUME NEW e \in Requests, ToolFails(e) PROVE PairInv'
    BY <1>0, <1>a, <1>20, PairFrame
       DEF ToolFails, Unheard, Settled, PendingCall, Finished, Accepted
  <1>21. ASSUME NEW e \in Requests, ToolReturns(e) PROVE PairInv'
    BY <1>0, <1>a, <1>21, PairFrame
       DEF ToolReturns, Unheard, Settled, PendingCall, Finished, Accepted
  <1>22. ASSUME NEW e \in Requests, Remember(e) PROVE PairInv'
    BY <1>0, <1>a, <1>22, PairFrame
       DEF Remember, Unheard, Settled, PendingCall, Finished, Accepted
  <1>23. ASSUME NEW e \in Requests, EmitError(e) PROVE PairInv'
    BY <1>0, <1>a, <1>23, PairFrame
       DEF EmitError, Unheard, Settled, PendingCall, Finished, Accepted
  <1>24. ASSUME NEW e \in Requests, Abandon(e) PROVE PairInv'
    BY <1>0, <1>a, <1>24, PairFrame
       DEF Abandon, Unheard, Settled, PendingCall, Finished, Accepted
  <1>25. ASSUME NEW e \in Requests, StoreFails(e) PROVE PairInv'
    BY <1>0, <1>a, <1>25, PairFrame
       DEF StoreFails, Unheard, Settled, PendingCall, Finished, Accepted, Failure
  <1>26. ASSUME NEW e \in Requests, NEW r \in Workload, Submit(e, r) PROVE PairInv'
    BY <1>0, <1>a, <1>26, PairFrame
       DEF Submit, Unheard, Settled, PendingCall, Finished, Accepted
  <1>27. ASSUME Crash PROVE PairInv'
    <2>1. \A e \in Requests : pc'[e] = pc[e] \/ pc'[e] = "lost"
      BY <1>27 DEF Crash
    <2>2. UNCHANGED <<dbLog, round, part, emitted, sess, req>>
      BY <1>27 DEF Crash
    <2>3. \A e \in Requests : /\ Settled(e)' => Settled(e)
                              /\ PendingCall(e)' => PendingCall(e)
                              /\ Finished(e)' => Finished(e)
      BY <2>1, <2>2 DEF Settled, PendingCall, Finished, Accepted
    <2> QED BY <1>b, <2>2, <2>3 DEF PairInv, Stored, Answered
  <1>28. ASSUME Restart PROVE PairInv'
    <2>1. UNCHANGED <<pc, dbLog, round, part, emitted, sess, req>>
      BY <1>28 DEF Restart
    <2> QED BY <2>1 DEF PairInv, Stored, Answered, Settled, PendingCall, Finished, Accepted
  <1>29. ASSUME UNCHANGED vars PROVE PairInv'
    BY <1>29 DEF vars, PairInv, Stored, Answered, Settled, PendingCall, Finished, Accepted
  <1>30. ASSUME NEW e \in Requests, Announce(e) PROVE PairInv'
    BY <1>0, <1>a, <1>c, <1>30, PairFrame
       DEF Announce, Unheard, Settled, PendingCall, Finished, Accepted
  <1> QED
    BY <1>1, <1>2, <1>3, <1>4, <1>5, <1>6, <1>7, <1>8, <1>9, <1>10, <1>11,
       <1>12, <1>13, <1>14, <1>15, <1>16, <1>17, <1>18, <1>19, <1>20, <1>21,
       <1>22, <1>23, <1>24, <1>25, <1>26, <1>27, <1>28, <1>29, <1>30
       DEF Next, TaskStep, ResolveStep, AppendStep, TurnStep
-----------------------------------------------------------------------------
(* Where the messages of an exchange are *)

\* What PushMessage does to the history of a session that is in memory.
LEMMA PushMessageEffect ==
  ASSUME TypeInv, MapInv, NEW e \in Requests, PushMessage(e)
  PROVE  /\ pc[e] = "append"
         /\ sess[e] \in Requests
         /\ history' = [history EXCEPT ![sess[e]] = Append(history[sess[e]], Draft(e))]
         /\ history[sess[e]] \in Seq(Message)
         /\ Draft(e) \in Message
         /\ pc' = [pc EXCEPT ![e] = "save_summary"]
         /\ UNCHANGED <<dbLog, part, round, stamp, clock, emitted, sess, req>>
         /\ \A s \in Requests : \A m :
              m \in Entries(history'[s]) <=>
                m \in Entries(history[s]) \/ (s = sess[e] /\ m = Draft(e))
  <1>1. /\ pc[e] = "append"
        /\ sess[e] \in Requests
        /\ sess[e] \in sessions
        /\ history \in [Requests -> Seq(Message)]
    BY DEF PushMessage, TypeInv, TypeOK, KnowsSession, AppendPc, MapInv
  <1>2. Draft(e) \in Message
    BY DEF Draft, Message, TypeInv, TypeOK
  <1>3. /\ history' = [history EXCEPT ![sess[e]] = Append(history[sess[e]], Draft(e))]
        /\ pc' = [pc EXCEPT ![e] = "save_summary"]
        /\ UNCHANGED <<dbLog, part, round, stamp, clock, emitted, sess, req>>
    BY <1>1 DEF PushMessage, Goto, dbVars, turnVars, dateVars
  <1>4. Entries(Append(history[sess[e]], Draft(e)))
          = Entries(history[sess[e]]) \cup {Draft(e)}
    BY <1>1, <1>2, AppendEntries
  <1>5. ASSUME NEW s \in Requests, NEW m
        PROVE  m \in Entries(history'[s]) <=>
                 m \in Entries(history[s]) \/ (s = sess[e] /\ m = Draft(e))
    <2>1. CASE s = sess[e]
      <3>1. history'[s] = Append(history[sess[e]], Draft(e))
        BY <1>1, <1>3, <2>1
      <3> QED BY <1>4, <2>1, <3>1
    <2>2. CASE s # sess[e]
      <3>1. history'[s] = history[s]
        BY <1>1, <1>3, <2>2
      <3> QED BY <2>2, <3>1
    <2> QED BY <2>1, <2>2
  <1> QED BY <1>1, <1>2, <1>3, <1>5

\* A step of e that touches no log keeps its messages in place, if it does not start over.
LEMMA PlaceFrame ==
  ASSUME TypeInv, PlaceInv, NEW e \in Requests,
         UNCHANGED history,
         \A f \in Requests \ {e} :
           pc'[f] = pc[f] /\ part'[f] = part[f] /\ sess'[f] = sess[f],
         Fresh(e) \/ (sess'[e] = sess[e] /\ ~Fresh(e)')
  PROVE  PlaceInv'
  <1> SUFFICES ASSUME NEW s \in Requests, NEW m \in Entries(history[s])
               PROVE  s = sess'[m.env] /\ ~Fresh(m.env)'
    BY DEF PlaceInv
  <1>1. s = sess[m.env] /\ ~Fresh(m.env) /\ m.env \in Requests
    BY LogTypes DEF PlaceInv
  <1> QED BY <1>1 DEF Fresh

\* No message is in memory.
LEMMA PlaceInit == Init => PlaceInv
  <1> SUFFICES ASSUME Init PROVE PlaceInv
    OBVIOUS
  <1> QED BY InitLogs DEF PlaceInv

\* A step pushes a message to the session its request was resolved to, and no step
\* resolves a request whose message is in memory.
LEMMA PlaceStep ==
  TypeInv /\ MapInv /\ PhaseInv /\ PairInv /\ PlaceInv /\ [Next]_vars => PlaceInv'
  <1> SUFFICES ASSUME TypeInv, MapInv, PhaseInv, PairInv, PlaceInv, [Next]_vars
               PROVE  PlaceInv'
    OBVIOUS
  <1> USE RuntimeAssumption
      DEF SubmitPc, AppendPc, TurnPc,
          memVars, dbVars, dateVars, turnVars, envVars, Goto, Date, Emit
  <1>0. /\ pc \in [Requests -> {"idle"} \cup SubmitPc \cup AppendPc
                                   \cup TurnPc \cup FinalPc]
        /\ part \in [Requests -> Parts]
        /\ stamp \in [Requests -> Nat]
        /\ round \in [Requests -> 0..ToolCallLimit]
        /\ sess \in [Requests -> Requests \cup {None}]
        /\ emitted \in [Requests -> SUBSET EventKind]
    BY DEF TypeInv, TypeOK
  <1>1. ASSUME NEW e \in Requests, ResolveNamed(e) PROVE PlaceInv'
    BY <1>0, <1>1, PlaceFrame DEF ResolveNamed, Fresh, AfterResolve
  <1>2. ASSUME NEW e \in Requests, ReadBinding(e) PROVE PlaceInv'
    BY <1>0, <1>2, PlaceFrame DEF ReadBinding, Fresh
  <1>3. ASSUME NEW e \in Requests, LookupSession(e) PROVE PlaceInv'
    BY <1>0, <1>3, PlaceFrame DEF LookupSession, Fresh
  <1>4. ASSUME NEW e \in Requests, ResolveAnonymous(e) PROVE PlaceInv'
    BY <1>0, <1>4, PlaceFrame DEF ResolveAnonymous, Fresh
  <1>5. ASSUME NEW e \in Requests, InsertSession(e) PROVE PlaceInv'
    BY <1>0, <1>5, PlaceFrame DEF InsertSession, Fresh
  <1>6. ASSUME NEW e \in Requests, SaveSession(e) PROVE PlaceInv'
    BY <1>0, <1>6, PlaceFrame DEF SaveSession, Fresh, AfterCreate
  <1>7. ASSUME NEW e \in Requests, SetBinding(e) PROVE PlaceInv'
    BY <1>0, <1>7, PlaceFrame DEF SetBinding, Fresh
  <1>8. ASSUME NEW e \in Requests, SaveBinding(e) PROVE PlaceInv'
    BY <1>0, <1>8, PlaceFrame DEF SaveBinding, Fresh
  <1>9. ASSUME NEW e \in Requests, ForeignKeyFails(e) PROVE PlaceInv'
    BY <1>0, <1>9, PlaceFrame DEF ForeignKeyFails, Fresh
  <1>10. ASSUME NEW e \in Requests, PushMessage(e) PROVE PlaceInv'
    <2>1. Draft(e).env = e
      BY DEF Draft
    <2>2. \A f \in Requests : Fresh(f)' => Fresh(f) /\ f # e
      BY <1>0, <1>10, PushMessageEffect DEF Fresh
    <2> QED BY <1>10, <2>1, <2>2, LogTypes, PushMessageEffect DEF PlaceInv
  <1>11. ASSUME NEW e \in Requests, SaveSummary(e) PROVE PlaceInv'
    BY <1>0, <1>11, PlaceFrame DEF SaveSummary, Fresh
  <1>12. ASSUME NEW e \in Requests, SaveMessage(e) PROVE PlaceInv'
    <2>1. UNCHANGED <<history, part, sess>>
      BY <1>12 DEF SaveMessage
    <2>2. \A f \in Requests : Fresh(f)' => Fresh(f)
      BY <1>0, <2>1, <1>12, SaveMessageEffect DEF Fresh
    <2> QED BY <2>1, <2>2, LogTypes DEF PlaceInv
  <1>13. ASSUME NEW e \in Requests, Accept(e) PROVE PlaceInv'
    BY <1>0, <1>13, PlaceFrame DEF Accept, Fresh
  <1>14. ASSUME NEW e \in Requests, BuildPrompt(e) PROVE PlaceInv'
    BY <1>0, <1>14, PlaceFrame DEF BuildPrompt, Fresh
  <1>15. ASSUME NEW e \in Requests, ProviderFails(e) PROVE PlaceInv'
    BY <1>0, <1>15, PlaceFrame DEF ProviderFails, Fresh
  <1>16. ASSUME NEW e \in Requests, ProviderCallsTool(e) PROVE PlaceInv'
    BY <1>0, <1>16, PlaceFrame DEF ProviderCallsTool, Fresh
  <1>17. ASSUME NEW e \in Requests, ProviderAnswers(e) PROVE PlaceInv'
    BY <1>0, <1>17, PlaceFrame DEF ProviderAnswers, Fresh
  <1>18. ASSUME NEW e \in Requests, RefuseTool(e) PROVE PlaceInv'
    BY <1>0, <1>18, PlaceFrame DEF RefuseTool, Fresh
  <1>19. ASSUME NEW e \in Requests, StartTool(e) PROVE PlaceInv'
    BY <1>0, <1>19, PlaceFrame DEF StartTool, Fresh
  <1>20. ASSUME NEW e \in Requests, ToolFails(e) PROVE PlaceInv'
    BY <1>0, <1>20, PlaceFrame DEF ToolFails, Fresh
  <1>21. ASSUME NEW e \in Requests, ToolReturns(e) PROVE PlaceInv'
    BY <1>0, <1>21, PlaceFrame DEF ToolReturns, Fresh
  <1>22. ASSUME NEW e \in Requests, Remember(e) PROVE PlaceInv'
    BY <1>0, <1>22, PlaceFrame DEF Remember, Fresh
  <1>23. ASSUME NEW e \in Requests, EmitError(e) PROVE PlaceInv'
    BY <1>0, <1>23, PlaceFrame DEF EmitError, Fresh
  <1>24. ASSUME NEW e \in Requests, Abandon(e) PROVE PlaceInv'
    BY <1>0, <1>24, PlaceFrame DEF Abandon, Fresh
  <1>25. ASSUME NEW e \in Requests, StoreFails(e) PROVE PlaceInv'
    BY <1>0, <1>25, PlaceFrame DEF StoreFails, Fresh, Failure
  <1>26. ASSUME NEW e \in Requests, NEW r \in Workload, Submit(e, r) PROVE PlaceInv'
    BY <1>0, <1>26, PlaceFrame DEF Submit, Fresh
  <1>27. ASSUME Crash PROVE PlaceInv'
    <2>1. \A s \in Requests : history'[s] = <<>>
      BY <1>27 DEF Crash
    <2>2. Entries(<<>>) = {}
      BY DEF Entries
    <2> QED BY <2>1, <2>2 DEF PlaceInv
  <1>28. ASSUME Restart PROVE PlaceInv'
    <2>1. history' = dbLog /\ UNCHANGED <<sess, pc, part>>
      BY <1>28 DEF Restart
    <2>2. \A f \in Requests : Fresh(f)' => Unheard(f)
      BY <2>1 DEF Fresh, Unheard
    <2> QED BY <2>1, <2>2, LogTypes DEF PlaceInv, PairInv, PhaseInv
  <1>29. ASSUME UNCHANGED vars PROVE PlaceInv'
    BY <1>29 DEF vars, PlaceInv, Fresh
  <1>30. ASSUME NEW e \in Requests, Announce(e) PROVE PlaceInv'
    BY <1>0, <1>30, PlaceFrame DEF Announce, Fresh
  <1> QED
    BY <1>1, <1>2, <1>3, <1>4, <1>5, <1>6, <1>7, <1>8, <1>9, <1>10, <1>11,
       <1>12, <1>13, <1>14, <1>15, <1>16, <1>17, <1>18, <1>19, <1>20, <1>21,
       <1>22, <1>23, <1>24, <1>25, <1>26, <1>27, <1>28, <1>29, <1>30
       DEF Next, TaskStep, ResolveStep, AppendStep, TurnStep
-----------------------------------------------------------------------------
(* What memory has and the store lacks *)

\* A step of e that touches no log leaves what explains a gap.
LEMMA GapFrame ==
  ASSUME TypeInv, UnstoredExplained, NEW e \in Requests,
         UNCHANGED <<history, dbLog>>,
         \A f \in Requests \ {e} :
           /\ pc'[f] = pc[f] /\ part'[f] = part[f] /\ emitted'[f] = emitted[f]
           /\ round'[f] = round[f] /\ stamp'[f] = stamp[f],
         \A m : m.env = e /\ Explained(m) => Explained(m)'
  PROVE  UnstoredExplained'
  <1> SUFFICES ASSUME NEW s \in Requests,
                      NEW m \in Entries(history[s]) \ Entries(dbLog[s])
               PROVE  Explained(m)'
    BY DEF UnstoredExplained
  <1>1. Explained(m) /\ m.env \in Requests
    BY LogTypes DEF UnstoredExplained
  <1>2. m.env # e => Explained(m)'
    BY <1>1 DEF Explained, Draft
  <1> QED BY <1>1, <1>2

\* Memory has nothing that the store lacks.
LEMMA GapInit == Init => UnstoredExplained
  <1> SUFFICES ASSUME Init PROVE UnstoredExplained
    OBVIOUS
  <1> QED BY InitLogs DEF UnstoredExplained

\* A step that leaves a message in memory only has told its client, or is not done with it.
LEMMA GapStep ==
  TypeInv /\ MapInv /\ PlaceInv /\ UnstoredExplained /\ [Next]_vars
    => UnstoredExplained'
  <1> SUFFICES ASSUME TypeInv, MapInv, PlaceInv, UnstoredExplained, [Next]_vars
               PROVE  UnstoredExplained'
    OBVIOUS
  <1> USE RuntimeAssumption
      DEF SubmitPc, AppendPc, TurnPc,
          memVars, dbVars, dateVars, turnVars, envVars, Goto, Date, Emit
  <1>0. /\ pc \in [Requests -> {"idle"} \cup SubmitPc \cup AppendPc
                                   \cup TurnPc \cup FinalPc]
        /\ part \in [Requests -> Parts]
        /\ stamp \in [Requests -> Nat]
        /\ round \in [Requests -> 0..ToolCallLimit]
        /\ emitted \in [Requests -> SUBSET EventKind]
    BY DEF TypeInv, TypeOK
  <1>1. ASSUME NEW e \in Requests, ResolveNamed(e) PROVE UnstoredExplained'
    BY <1>0, <1>1, GapFrame
       DEF ResolveNamed, Explained, Draft, AfterResolve
  <1>2. ASSUME NEW e \in Requests, ReadBinding(e) PROVE UnstoredExplained'
    BY <1>0, <1>2, GapFrame
       DEF ReadBinding, Explained, Draft
  <1>3. ASSUME NEW e \in Requests, LookupSession(e) PROVE UnstoredExplained'
    BY <1>0, <1>3, GapFrame
       DEF LookupSession, Explained, Draft
  <1>4. ASSUME NEW e \in Requests, ResolveAnonymous(e) PROVE UnstoredExplained'
    BY <1>0, <1>4, GapFrame
       DEF ResolveAnonymous, Explained, Draft
  <1>5. ASSUME NEW e \in Requests, InsertSession(e) PROVE UnstoredExplained'
    BY <1>0, <1>5, GapFrame
       DEF InsertSession, Explained, Draft
  <1>6. ASSUME NEW e \in Requests, SaveSession(e) PROVE UnstoredExplained'
    BY <1>0, <1>6, GapFrame
       DEF SaveSession, Explained, Draft, AfterCreate
  <1>7. ASSUME NEW e \in Requests, SetBinding(e) PROVE UnstoredExplained'
    BY <1>0, <1>7, GapFrame
       DEF SetBinding, Explained, Draft
  <1>8. ASSUME NEW e \in Requests, SaveBinding(e) PROVE UnstoredExplained'
    BY <1>0, <1>8, GapFrame
       DEF SaveBinding, Explained, Draft
  <1>9. ASSUME NEW e \in Requests, ForeignKeyFails(e) PROVE UnstoredExplained'
    BY <1>0, <1>9, GapFrame
       DEF ForeignKeyFails, Explained, Draft
  <1>10. ASSUME NEW e \in Requests, PushMessage(e) PROVE UnstoredExplained'
    <2>0. /\ pc[e] = "append" /\ pc' = [pc EXCEPT ![e] = "save_summary"]
          /\ UNCHANGED <<part, round, stamp, emitted>>
          /\ Draft(e).env = e
      BY <1>10, PushMessageEffect DEF Draft
    <2>1. ASSUME NEW s \in Requests, NEW m \in Entries(history[s]) \ Entries(dbLog[s])
          PROVE  Explained(m)'
      <3>1. Explained(m) /\ m.env \in Requests
        BY LogTypes DEF UnstoredExplained
      <3>2. CASE m.env = e
        BY <2>0, <3>1, <3>2 DEF Explained
      <3>3. CASE m.env # e
        BY <1>0, <2>0, <3>1, <3>3 DEF Explained, Draft
      <3> QED BY <3>2, <3>3
    <2>2. ASSUME NEW m, m = Draft(e)
          PROVE  Explained(m)'
      <3>1. m.env = e /\ pc'[e] = "save_summary"
        BY <1>0, <2>0, <2>2
      <3>2. m = Draft(e)'
        BY <2>0, <2>2 DEF Draft
      <3> QED BY <3>1, <3>2 DEF Explained
    <2> QED BY <1>10, <2>1, <2>2, PushMessageEffect DEF UnstoredExplained
  <1>11. ASSUME NEW e \in Requests, SaveSummary(e) PROVE UnstoredExplained'
    BY <1>0, <1>11, GapFrame
       DEF SaveSummary, Explained, Draft
  <1>12. ASSUME NEW e \in Requests, SaveMessage(e) PROVE UnstoredExplained'
    <2>1. UNCHANGED <<history, part, stamp, emitted>>
      BY <1>12 DEF SaveMessage
    <2> SUFFICES ASSUME NEW s \in Requests,
                        NEW m \in Entries(history[s]) \ Entries(dbLog'[s])
                 PROVE  Explained(m)'
      BY <2>1 DEF UnstoredExplained
    <2>2. m \notin Entries(dbLog[s]) /\ (s = sess[e] => m # Draft(e))
      BY <1>12, SaveMessageEffect
    <2>3. Explained(m) /\ m.env \in Requests
      BY <2>2, LogTypes DEF UnstoredExplained
    <2>4. m = Draft(e) => s = sess[e]
      BY DEF PlaceInv, Draft
    <2>5. \A f \in Requests : f # e => pc'[f] = pc[f] /\ round'[f] = round[f]
      BY <1>0, <1>12, SaveMessageEffect
    <2>6. CASE m.env = e
      BY <1>12, <2>1, <2>2, <2>3, <2>4, <2>6, SaveMessageEffect DEF Explained
    <2>7. CASE m.env # e
      BY <2>1, <2>3, <2>5, <2>7 DEF Explained, Draft
    <2> QED BY <2>6, <2>7
  <1>13. ASSUME NEW e \in Requests, Accept(e) PROVE UnstoredExplained'
    BY <1>0, <1>13, GapFrame
       DEF Accept, Explained, Draft
  <1>14. ASSUME NEW e \in Requests, BuildPrompt(e) PROVE UnstoredExplained'
    BY <1>0, <1>14, GapFrame
       DEF BuildPrompt, Explained, Draft
  <1>15. ASSUME NEW e \in Requests, ProviderFails(e) PROVE UnstoredExplained'
    BY <1>0, <1>15, GapFrame
       DEF ProviderFails, Explained, Draft
  <1>16. ASSUME NEW e \in Requests, ProviderCallsTool(e) PROVE UnstoredExplained'
    BY <1>0, <1>16, GapFrame
       DEF ProviderCallsTool, Explained, Draft
  <1>17. ASSUME NEW e \in Requests, ProviderAnswers(e) PROVE UnstoredExplained'
    BY <1>0, <1>17, GapFrame
       DEF ProviderAnswers, Explained, Draft
  <1>18. ASSUME NEW e \in Requests, RefuseTool(e) PROVE UnstoredExplained'
    BY <1>0, <1>18, GapFrame
       DEF RefuseTool, Explained, Draft
  <1>19. ASSUME NEW e \in Requests, StartTool(e) PROVE UnstoredExplained'
    BY <1>0, <1>19, GapFrame
       DEF StartTool, Explained, Draft
  <1>20. ASSUME NEW e \in Requests, ToolFails(e) PROVE UnstoredExplained'
    BY <1>0, <1>20, GapFrame
       DEF ToolFails, Explained, Draft
  <1>21. ASSUME NEW e \in Requests, ToolReturns(e) PROVE UnstoredExplained'
    BY <1>0, <1>21, GapFrame
       DEF ToolReturns, Explained, Draft
  <1>22. ASSUME NEW e \in Requests, Remember(e) PROVE UnstoredExplained'
    BY <1>0, <1>22, GapFrame
       DEF Remember, Explained, Draft
  <1>23. ASSUME NEW e \in Requests, EmitError(e) PROVE UnstoredExplained'
    BY <1>0, <1>23, GapFrame
       DEF EmitError, Explained, Draft
  <1>24. ASSUME NEW e \in Requests, Abandon(e) PROVE UnstoredExplained'
    BY <1>0, <1>24, GapFrame
       DEF Abandon, Explained, Draft
  <1>25. ASSUME NEW e \in Requests, StoreFails(e) PROVE UnstoredExplained'
    BY <1>0, <1>25, GapFrame
       DEF StoreFails, Explained, Draft, Failure
  <1>26. ASSUME NEW e \in Requests, NEW r \in Workload, Submit(e, r) PROVE UnstoredExplained'
    BY <1>0, <1>26, GapFrame
       DEF Submit, Explained, Draft
  <1>27. ASSUME Crash PROVE UnstoredExplained'
    <2>1. \A s \in Requests : history'[s] = <<>>
      BY <1>27 DEF Crash
    <2>2. Entries(<<>>) = {}
      BY DEF Entries
    <2> QED BY <2>1, <2>2 DEF UnstoredExplained
  <1>28. ASSUME Restart PROVE UnstoredExplained'
    <2>1. history' = dbLog /\ dbLog' = dbLog
      BY <1>28 DEF Restart
    <2> QED BY <2>1 DEF UnstoredExplained
  <1>29. ASSUME UNCHANGED vars PROVE UnstoredExplained'
    BY <1>29 DEF vars, UnstoredExplained, Explained, Draft
  <1>30. ASSUME NEW e \in Requests, Announce(e) PROVE UnstoredExplained'
    BY <1>0, <1>30, GapFrame
       DEF Announce, Explained, Draft
  <1> QED
    BY <1>1, <1>2, <1>3, <1>4, <1>5, <1>6, <1>7, <1>8, <1>9, <1>10, <1>11,
       <1>12, <1>13, <1>14, <1>15, <1>16, <1>17, <1>18, <1>19, <1>20, <1>21,
       <1>22, <1>23, <1>24, <1>25, <1>26, <1>27, <1>28, <1>29, <1>30
       DEF Next, TaskStep, ResolveStep, AppendStep, TurnStep
-----------------------------------------------------------------------------
(* The order of an exchange *)

\* The rank of a message, part by part.
LEMMA RankOf ==
  ASSUME NEW m \in Message
  PROVE  /\ Rank(m) \in Nat
         /\ m.part = "user" => Rank(m) = 0
         /\ m.part = "tool_call" => Rank(m) = 2 * m.round + 1
         /\ m.part = "tool" => Rank(m) = 2 * m.round + 2
         /\ m.part = "reply" => Rank(m) = 2 * ToolCallLimit + 1
  <1>1. m.part \in Parts /\ m.round \in Nat /\ ToolCallLimit \in Nat
    BY RuntimeAssumption DEF Message
  <1> QED BY <1>1 DEF Rank, Parts

\* The message a task is about to append, and its rank.
LEMMA DraftRank ==
  ASSUME TypeInv, NEW e \in Requests
  PROVE  /\ Draft(e) \in Message
         /\ Draft(e).env = e /\ Draft(e).at = stamp[e]
         /\ Rank(Draft(e)) \in Nat
         /\ part[e] = "user" => Rank(Draft(e)) = 0
         /\ part[e] = "tool_call" => Rank(Draft(e)) = 2 * round[e] + 1
         /\ part[e] = "tool" => Rank(Draft(e)) = 2 * round[e] + 2
         /\ part[e] = "reply" => Rank(Draft(e)) = 2 * ToolCallLimit + 1
  <1>1. Draft(e) \in Message
    BY DEF Draft, Message, TypeInv, TypeOK
  <1>2. /\ Draft(e).env = e /\ Draft(e).at = stamp[e]
        /\ Draft(e).part = part[e] /\ Draft(e).round = round[e]
    BY DEF Draft
  <1> QED BY <1>1, <1>2, RankOf

\* A message above all of its exchange may be appended ...
LEMMA AppendOrder ==
  ASSUME NEW q \in Seq(Message), NEW m \in Message, InExchangeOrder(q),
         \A n \in Entries(q) : n.env = m.env => Rank(n) < Rank(m)
  PROVE  InExchangeOrder(Append(q, m))
  <1> SUFFICES ASSUME NEW i \in DOMAIN Append(q, m), NEW j \in DOMAIN Append(q, m),
                      i < j, Append(q, m)[i].env = Append(q, m)[j].env
               PROVE  Rank(Append(q, m)[i]) < Rank(Append(q, m)[j])
    BY DEF InExchangeOrder
  <1>1. /\ Len(q) \in Nat /\ DOMAIN q = 1..Len(q)
        /\ DOMAIN Append(q, m) = 1..(Len(q) + 1)
        /\ \A l \in 1..Len(q) : Append(q, m)[l] = q[l]
        /\ Append(q, m)[Len(q) + 1] = m
    OBVIOUS
  <1>2. i \in 1..Len(q) /\ Append(q, m)[i] = q[i]
    BY <1>1
  <1>3. CASE j = Len(q) + 1
    BY <1>1, <1>2, <1>3 DEF Entries
  <1>4. CASE j \in 1..Len(q)
    BY <1>1, <1>2, <1>4 DEF InExchangeOrder
  <1> QED BY <1>1, <1>3, <1>4

\* ... or inserted by date, if it is also dated after all of its exchange.
LEMMA InsertOrder ==
  ASSUME NEW log \in Seq(Message), NEW m \in Message, NEW k \in 0..Len(log),
         DatedAfter(log, k, m), InExchangeOrder(log),
         \A n \in Entries(log) :
           n.env = m.env => Rank(n) < Rank(m) /\ n.at < m.at
  PROVE  InExchangeOrder(InsertAfter(log, k, m))
  <1> DEFINE new == InsertAfter(log, k, m)
  <1>1. /\ Len(log) \in Nat /\ DOMAIN log = 1..Len(log) /\ k \in Nat
        /\ \A l \in 1..Len(log) : log[l] \in Message /\ log[l] \in Entries(log)
    BY DEF Entries
  <1>2. /\ DOMAIN new = 1..(Len(log) + 1)
        /\ \A l \in 1..(Len(log) + 1) :
             new[l] = IF l <= k THEN log[l] ELSE IF l = k + 1 THEN m ELSE log[l - 1]
    BY DEF InsertAfter
  <1> HIDE DEF new
  <1> SUFFICES ASSUME NEW i \in 1..(Len(log) + 1), NEW j \in 1..(Len(log) + 1),
                      i < j, new[i].env = new[j].env
               PROVE  Rank(new[i]) < Rank(new[j])
    BY <1>2 DEF InExchangeOrder, new
  <1>3. CASE j <= k
    <2>1. new[i] = log[i] /\ new[j] = log[j] /\ i \in 1..Len(log) /\ j \in 1..Len(log)
      BY <1>1, <1>2, <1>3
    <2> QED BY <1>1, <2>1 DEF InExchangeOrder
  <1>4. CASE j = k + 1
    <2>1. new[i] = log[i] /\ new[j] = m /\ i \in 1..Len(log)
      BY <1>1, <1>2, <1>4
    <2> QED BY <1>1, <2>1
  <1>5. CASE j > k + 1 /\ i <= k
    <2>1. new[i] = log[i] /\ new[j] = log[j - 1] /\ i \in 1..Len(log)
          /\ j - 1 \in 1..Len(log) /\ i < j - 1
      BY <1>1, <1>2, <1>5
    <2> QED BY <1>1, <2>1 DEF InExchangeOrder
  <1>6. CASE j > k + 1 /\ i = k + 1
    <2>1. new[i] = m /\ new[j] = log[j - 1] /\ j - 1 \in (k + 1)..Len(log)
      BY <1>1, <1>2, <1>6
    <2>2. log[j - 1].at > m.at
      BY <2>1 DEF DatedAfter
    <2>3. log[j - 1] \in Entries(log) /\ log[j - 1].at \in Nat /\ m.at \in Nat
      BY <1>1, <2>1 DEF Message
    <2>4. log[j - 1].at < m.at
      BY <2>1, <2>3
    <2> QED BY <2>2, <2>3, <2>4
  <1>7. CASE i > k + 1
    <2>1. new[i] = log[i - 1] /\ new[j] = log[j - 1] /\ i - 1 \in 1..Len(log)
          /\ j - 1 \in 1..Len(log) /\ i - 1 < j - 1
      BY <1>1, <1>2, <1>7
    <2> QED BY <1>1, <2>1 DEF InExchangeOrder
  <1> QED BY <1>1, <1>3, <1>4, <1>5, <1>6, <1>7

\* A step of e that touches no log keeps the order, if what e may write next does not
\* sink below what it has written.
LEMMA OrderFrame ==
  ASSUME TypeInv, PhaseInv, PlaceInv, OrderInv, NEW e \in Requests,
         UNCHANGED <<history, dbLog>>,
         clock' \in Nat, clock' >= clock,
         \A f \in Requests \ {e} :
           /\ pc'[f] = pc[f] /\ part'[f] = part[f]
           /\ round'[f] = round[f] /\ stamp'[f] = stamp[f],
         stamp'[e] \in Nat, stamp'[e] >= stamp[e] \/ Fresh(e), stamp'[e] < clock',
         pc'[e] \in AppendPc =>
           \/ Fresh(e)
           \/ pc[e] \in AppendPc /\ stamp'[e] = stamp[e]
           \/ stamp'[e] = clock /\ pc[e] # "idle",
         Writes(e)' =>
           \/ Fresh(e)
           \/ Writes(e) /\ pc[e] \notin {"save_summary", "save_message"}
                /\ Ceiling(e)' \in Nat /\ Ceiling(e)' >= Ceiling(e)
           \/ pc'[e] \in {"save_summary", "save_message"} /\ Writes(e)
                /\ Ceiling(e)' = Ceiling(e) /\ Draft(e)' = Draft(e)
  PROVE  OrderInv'
  <1>0. /\ clock \in Nat /\ stamp[e] \in Nat
        /\ Writes(e) => Ceiling(e) \in Nat
    <2>1. clock \in Nat /\ stamp[e] \in Nat /\ round[e] \in Nat
      BY RuntimeAssumption DEF TypeInv, TypeOK
    <2>2. Rank(Draft(e)) \in Nat
      BY DraftRank
    <2>3. pc[e] \in AppendPc => Ceiling(e) = Rank(Draft(e))
      BY DEF Ceiling, AppendPc
    <2>4. Writes(e) /\ pc[e] \notin AppendPc => Ceiling(e) \in Nat
      BY <2>1 DEF Writes, Ceiling, AppendPc
    <2> QED BY <2>1, <2>2, <2>3, <2>4
  <1>1. Fresh(e) => Unheard(e)
    BY DEF Fresh, Unheard, AppendPc
  <1>2. \A f \in Requests \ {e} :
          /\ Draft(f)' = Draft(f)
          /\ Writes(f)' <=> Writes(f)
          /\ Ceiling(f)' = Ceiling(f)
    BY DEF Draft, Writes, Ceiling
  <1>3. ExchangesInOrder'
    BY DEF OrderInv, ExchangesInOrder
  <1>4. ASSUME NEW f \in Requests, pc'[f] # "idle" PROVE stamp'[f] < clock'
    <2>1. stamp[f] \in Nat
      BY DEF TypeInv, TypeOK
    <2>2. CASE f = e
      BY <2>2
    <2>3. CASE f # e
      BY <1>0, <1>4, <2>1, <2>3 DEF OrderInv
    <2> QED BY <2>2, <2>3
  <1>5. ASSUME NEW s \in Requests, NEW m \in Entries(dbLog[s])
        PROVE  /\ m.at <= stamp'[m.env]
               /\ pc'[m.env] \in AppendPc => m.at < stamp'[m.env]
               /\ Writes(m.env)' => Rank(m) < Ceiling(m.env)'
    <2>1. m \in Message /\ m.env \in Requests /\ m.at \in Nat /\ Rank(m) \in Nat
      BY LogTypes, RankOf DEF Message
    <2>2. CASE m.env = e
      <3>1. ~Unheard(e)
        BY <2>2 DEF PhaseInv
      <3>2. /\ m.at <= stamp[e]
            /\ pc[e] \in AppendPc => m.at < stamp[e]
            /\ Writes(e) => Rank(m) < Ceiling(e)
            /\ pc[e] # "idle" => stamp[e] < clock
        BY <2>2 DEF OrderInv
      <3>3. Writes(e)' => Writes(e) /\ Ceiling(e)' \in Nat /\ Ceiling(e)' >= Ceiling(e)
        BY <1>0, <1>1, <3>1
      <3>4. Writes(e)' => Rank(m) < Ceiling(e)'
        BY <1>0, <2>1, <3>2, <3>3
      <3> QED BY <1>0, <1>1, <2>1, <2>2, <3>1, <3>2, <3>4
    <2>3. CASE m.env # e
      BY <1>2, <2>1, <2>3 DEF OrderInv
    <2> QED BY <2>2, <2>3
  <1>6. ASSUME NEW s \in Requests, NEW m \in Entries(history[s]), Writes(m.env)'
        PROVE  \/ Rank(m) < Ceiling(m.env)'
               \/ /\ pc'[m.env] \in {"save_summary", "save_message"}
                  /\ m = Draft(m.env)'
    <2>1. m \in Message /\ m.env \in Requests /\ Rank(m) \in Nat /\ ~Fresh(m.env)
      BY LogTypes, RankOf DEF PlaceInv
    <2>2. CASE m.env = e
      <3>1. Writes(e) => \/ Rank(m) < Ceiling(e)
                         \/ pc[e] \in {"save_summary", "save_message"} /\ m = Draft(e)
        BY <2>2 DEF OrderInv
      <3> QED BY <1>0, <1>6, <2>1, <2>2, <3>1
    <2>3. CASE m.env # e
      BY <1>2, <1>6, <2>1, <2>3 DEF OrderInv
    <2> QED BY <2>2, <2>3
  <1> HIDE DEF Draft, Writes, Ceiling
  <1>7. /\ \A s \in Requests : \A m \in Entries(dbLog'[s]) :
             /\ m.at <= stamp'[m.env]
             /\ pc'[m.env] \in AppendPc => m.at < stamp'[m.env]
             /\ Writes(m.env)' => Rank(m) < Ceiling(m.env)'
        /\ \A s \in Requests : \A m \in Entries(history'[s]) :
             Writes(m.env)' =>
               \/ Rank(m) < Ceiling(m.env)'
               \/ /\ pc'[m.env] \in {"save_summary", "save_message"}
                  /\ m = Draft(m.env)'
    BY <1>5, <1>6
  <1> QED BY <1>3, <1>4, <1>7 DEF OrderInv

\* ... and so does a step of e that dates nothing, before its first message or when it
\* will write no more.
LEMMA OrderQuiet ==
  ASSUME TypeInv, PhaseInv, PlaceInv, OrderInv, NEW e \in Requests,
         UNCHANGED <<history, dbLog, clock, part, round, stamp>>,
         \A f \in Requests \ {e} : pc'[f] = pc[f],
         pc[e] # "idle",
         Fresh(e) \/ pc'[e] \in {"failed", "rejected", "abandoned", "done"}
  PROVE  OrderInv'
  <1>0. /\ clock' \in Nat /\ clock' >= clock
        /\ stamp'[e] \in Nat /\ stamp'[e] >= stamp[e] /\ stamp'[e] < clock'
    BY DEF TypeInv, TypeOK, OrderInv
  <1>1. Fresh(e) \/ (pc'[e] \notin AppendPc /\ ~Writes(e)')
    BY DEF AppendPc, Writes
  <1>2. \A f \in Requests \ {e} :
          /\ pc'[f] = pc[f] /\ part'[f] = part[f]
          /\ round'[f] = round[f] /\ stamp'[f] = stamp[f]
    OBVIOUS
  <1>3. UNCHANGED <<history, dbLog>>
    OBVIOUS
  <1> QED BY <1>0, <1>1, <1>2, <1>3, OrderFrame

\* Empty logs are in order.
LEMMA OrderInit == Init => OrderInv
  <1> SUFFICES ASSUME Init PROVE OrderInv
    OBVIOUS
  <1>1. \A s \in Requests : DOMAIN history[s] = {} /\ DOMAIN dbLog[s] = {}
    <2>1. DOMAIN <<>> = {}
      OBVIOUS
    <2> QED BY <2>1 DEF Init
  <1> QED
    BY <1>1, InitLogs DEF Init, OrderInv, ExchangesInOrder, InExchangeOrder

\* A step writes the next message of an exchange above those it has, in memory and
\* by its date.
LEMMA OrderStep ==
  TypeInv /\ MapInv /\ PhaseInv /\ PlaceInv /\ OrderInv /\ [Next]_vars => OrderInv'
  <1> SUFFICES ASSUME TypeInv, MapInv, PhaseInv, PlaceInv, OrderInv, [Next]_vars
               PROVE  OrderInv'
    OBVIOUS
  <1> USE RuntimeAssumption
      DEF SubmitPc, AppendPc, TurnPc,
          memVars, dbVars, dateVars, turnVars, envVars, Goto, Date, Emit
  <1>0. /\ pc \in [Requests -> {"idle"} \cup SubmitPc \cup AppendPc
                                   \cup TurnPc \cup FinalPc]
        /\ part \in [Requests -> Parts]
        /\ stamp \in [Requests -> Nat]
        /\ round \in [Requests -> 0..ToolCallLimit]
        /\ clock \in Nat
    BY DEF TypeInv, TypeOK
  <1>a. \A e \in Requests : pc[e] # "idle" => stamp[e] < clock
    BY DEF OrderInv
  <1>b. \A e \in Requests :
          /\ part'[e] = "tool_call" => Rank(Draft(e)') = 2 * round'[e] + 1
          /\ part'[e] = "tool" => Rank(Draft(e)') = 2 * round'[e] + 2
          /\ part'[e] = "reply" => Rank(Draft(e)') = 2 * ToolCallLimit + 1
          /\ pc[e] \in MayGoRound => round[e] < ToolCallLimit
    <2>1. TypeInv'
      BY TypeStep
    <2> SUFFICES ASSUME NEW e \in Requests
                 PROVE  /\ part'[e] = "tool_call" => Rank(Draft(e)') = 2 * round'[e] + 1
                        /\ part'[e] = "tool" => Rank(Draft(e)') = 2 * round'[e] + 2
                        /\ part'[e] = "reply" => Rank(Draft(e)') = 2 * ToolCallLimit + 1
      BY DEF TypeInv
    <2>2. /\ Draft(e)' \in Message
          /\ Draft(e)'.part = part'[e] /\ Draft(e)'.round = round'[e]
      BY <2>1 DEF Draft, Message, TypeInv, TypeOK
    <2> QED BY <2>2, RankOf
  <1>1. ASSUME NEW e \in Requests, ResolveNamed(e) PROVE OrderInv'
    <2>1. /\ UNCHANGED <<history, dbLog, clock, part, round, stamp>>
          /\ pc[e] # "idle"
          /\ \A f \in Requests \ {e} : pc'[f] = pc[f]
          /\ Fresh(e) \/ pc'[e] \in {"failed", "rejected", "abandoned", "done"}
      BY <1>0, <1>1 DEF ResolveNamed, Fresh, AfterResolve
    <2> QED BY <2>1, OrderQuiet
  <1>2. ASSUME NEW e \in Requests, ReadBinding(e) PROVE OrderInv'
    <2>1. /\ UNCHANGED <<history, dbLog, clock, part, round, stamp>>
          /\ pc[e] # "idle"
          /\ \A f \in Requests \ {e} : pc'[f] = pc[f]
          /\ Fresh(e) \/ pc'[e] \in {"failed", "rejected", "abandoned", "done"}
      BY <1>0, <1>2 DEF ReadBinding, Fresh
    <2> QED BY <2>1, OrderQuiet
  <1>3. ASSUME NEW e \in Requests, LookupSession(e) PROVE OrderInv'
    <2>1. /\ UNCHANGED <<history, dbLog, clock, part, round, stamp>>
          /\ pc[e] # "idle"
          /\ \A f \in Requests \ {e} : pc'[f] = pc[f]
          /\ Fresh(e) \/ pc'[e] \in {"failed", "rejected", "abandoned", "done"}
      BY <1>0, <1>3 DEF LookupSession, Fresh
    <2> QED BY <2>1, OrderQuiet
  <1>4. ASSUME NEW e \in Requests, ResolveAnonymous(e) PROVE OrderInv'
    <2>1. /\ UNCHANGED <<history, dbLog, clock, part, round, stamp>>
          /\ pc[e] # "idle"
          /\ \A f \in Requests \ {e} : pc'[f] = pc[f]
          /\ Fresh(e) \/ pc'[e] \in {"failed", "rejected", "abandoned", "done"}
      BY <1>0, <1>4 DEF ResolveAnonymous, Fresh
    <2> QED BY <2>1, OrderQuiet
  <1>5. ASSUME NEW e \in Requests, InsertSession(e) PROVE OrderInv'
    <2>1. /\ UNCHANGED <<history, dbLog, clock, part, round, stamp>>
          /\ pc[e] # "idle"
          /\ \A f \in Requests \ {e} : pc'[f] = pc[f]
          /\ Fresh(e) \/ pc'[e] \in {"failed", "rejected", "abandoned", "done"}
      BY <1>0, <1>5 DEF InsertSession, Fresh
    <2> QED BY <2>1, OrderQuiet
  <1>6. ASSUME NEW e \in Requests, SaveSession(e) PROVE OrderInv'
    <2>1. /\ UNCHANGED <<history, dbLog, clock, part, round, stamp>>
          /\ pc[e] # "idle"
          /\ \A f \in Requests \ {e} : pc'[f] = pc[f]
          /\ Fresh(e) \/ pc'[e] \in {"failed", "rejected", "abandoned", "done"}
      BY <1>0, <1>6 DEF SaveSession, Fresh, AfterCreate
    <2> QED BY <2>1, OrderQuiet
  <1>7. ASSUME NEW e \in Requests, SetBinding(e) PROVE OrderInv'
    <2>1. /\ UNCHANGED <<history, dbLog, clock, part, round, stamp>>
          /\ pc[e] # "idle"
          /\ \A f \in Requests \ {e} : pc'[f] = pc[f]
          /\ Fresh(e) \/ pc'[e] \in {"failed", "rejected", "abandoned", "done"}
      BY <1>0, <1>7 DEF SetBinding, Fresh
    <2> QED BY <2>1, OrderQuiet
  <1>8. ASSUME NEW e \in Requests, SaveBinding(e) PROVE OrderInv'
    <2>1. /\ UNCHANGED <<history, dbLog, clock, part, round, stamp>>
          /\ pc[e] # "idle"
          /\ \A f \in Requests \ {e} : pc'[f] = pc[f]
          /\ Fresh(e) \/ pc'[e] \in {"failed", "rejected", "abandoned", "done"}
      BY <1>0, <1>8 DEF SaveBinding, Fresh
    <2> QED BY <2>1, OrderQuiet
  <1>9. ASSUME NEW e \in Requests, ForeignKeyFails(e) PROVE OrderInv'
    <2>1. /\ UNCHANGED <<history, dbLog, clock, part, round, stamp>>
          /\ pc[e] # "idle"
          /\ \A f \in Requests \ {e} : pc'[f] = pc[f]
          /\ Fresh(e) \/ pc'[e] \in {"failed", "rejected", "abandoned", "done"}
      BY <1>0, <1>9 DEF ForeignKeyFails, Fresh
    <2> QED BY <2>1, OrderQuiet
  <1>10. ASSUME NEW e \in Requests, PushMessage(e) PROVE OrderInv'
    <2>0. /\ pc[e] = "append" /\ pc' = [pc EXCEPT ![e] = "save_summary"]
          /\ UNCHANGED <<dbLog, part, round, stamp, clock>>
          /\ sess[e] \in Requests
          /\ history' = [history EXCEPT ![sess[e]] = Append(history[sess[e]], Draft(e))]
          /\ history[sess[e]] \in Seq(Message)
          /\ Draft(e) \in Message
          /\ \A s \in Requests : \A m :
               m \in Entries(history'[s]) <=>
                 m \in Entries(history[s]) \/ (s = sess[e] /\ m = Draft(e))
      BY <1>10, PushMessageEffect
    <2>1. /\ \A f \in Requests : Draft(f)' = Draft(f) /\ Draft(f).env = f
          /\ \A f \in Requests : Writes(f)' <=> Writes(f)
          /\ \A f \in Requests : Writes(f) => Ceiling(f)' = Ceiling(f)
          /\ Writes(e) /\ Ceiling(e) = Rank(Draft(e))
      BY <1>0, <2>0 DEF Draft, Writes, Ceiling
    <2>2. \A n \in Entries(history[sess[e]]) : n.env = e => Rank(n) < Rank(Draft(e))
      BY <2>0, <2>1 DEF OrderInv
    <2>3. InExchangeOrder(Append(history[sess[e]], Draft(e)))
      <3>1. InExchangeOrder(history[sess[e]])
        BY <2>0 DEF OrderInv, ExchangesInOrder
      <3> QED BY <2>0, <2>1, <2>2, <3>1, AppendOrder
    <2>4. ExchangesInOrder'
      <3>1. history \in [Requests -> Seq(Message)]
        BY DEF TypeInv, TypeOK
      <3> QED BY <2>0, <2>3, <3>1 DEF OrderInv, ExchangesInOrder
    <2>5. \A f \in Requests : pc'[f] # "idle" => pc[f] # "idle"
      BY <1>0, <2>0
    <2>6. \A f \in Requests : pc'[f] \in AppendPc <=> pc[f] \in AppendPc
      BY <1>0, <2>0
    <2>7. ASSUME NEW s \in Requests, NEW m \in Entries(history'[s]), Writes(m.env)'
          PROVE  \/ Rank(m) < Ceiling(m.env)'
                 \/ /\ pc'[m.env] \in {"save_summary", "save_message"}
                    /\ m = Draft(m.env)'
      <3>1. CASE m \in Entries(history[s])
        <4>1. m.env \in Requests
          BY <3>1, LogTypes
        <4>2. \/ Rank(m) < Ceiling(m.env)
              \/ pc[m.env] \in {"save_summary", "save_message"} /\ m = Draft(m.env)
          BY <2>1, <2>7, <3>1, <4>1 DEF OrderInv
        <4> QED BY <1>0, <2>0, <2>1, <2>7, <4>1, <4>2
      <3>2. CASE m = Draft(e)
        BY <1>0, <2>0, <2>1, <3>2
      <3> QED BY <2>0, <3>1, <3>2
    <2>8. ASSUME NEW s \in Requests, NEW m \in Entries(dbLog'[s])
          PROVE  /\ m.at <= stamp'[m.env]
                 /\ pc'[m.env] \in AppendPc => m.at < stamp'[m.env]
                 /\ Writes(m.env)' => Rank(m) < Ceiling(m.env)'
      <3>1. m.env \in Requests /\ m \in Entries(dbLog[s])
        BY <2>0, LogTypes
      <3> QED BY <2>0, <2>1, <2>6, <3>1 DEF OrderInv
    <2> HIDE DEF AppendPc
    <2> QED BY <2>0, <2>4, <2>5, <2>7, <2>8 DEF OrderInv
  <1>11. ASSUME NEW e \in Requests, SaveSummary(e) PROVE OrderInv'
    <2>1. /\ pc[e] = "save_summary" /\ pc'[e] = "save_message"
          /\ UNCHANGED <<history, dbLog, clock, part, round, stamp>>
          /\ \A f \in Requests \ {e} : pc'[f] = pc[f]
      BY <1>0, <1>11 DEF SaveSummary
    <2>2. Draft(e)' = Draft(e) /\ Writes(e) /\ Ceiling(e)' = Ceiling(e)
      BY <2>1 DEF Draft, Writes, Ceiling
    <2> HIDE DEF AppendPc
    <2>3. pc[e] \in AppendPc
      BY <2>1 DEF AppendPc
    <2> QED BY <1>0, <1>a, <2>1, <2>2, <2>3, OrderFrame
  <1>12. ASSUME NEW e \in Requests, SaveMessage(e) PROVE OrderInv'
    <2>0. /\ pc[e] = "save_message" /\ sess[e] \in Requests
          /\ UNCHANGED <<history, part, stamp, clock>>
          /\ \A s \in Requests : \A m :
               m \in Entries(dbLog'[s]) <=>
                 m \in Entries(dbLog[s]) \/ (s = sess[e] /\ m = Draft(e))
          /\ \A f \in Requests \ {e} : pc'[f] = pc[f] /\ round'[f] = round[f]
          /\ Draft(e).env = e /\ Draft(e).at = stamp[e] /\ Draft(e) \in Message
      <3>1. UNCHANGED <<history, part, stamp, clock>>
        BY <1>12 DEF SaveMessage
      <3>2. Draft(e).env = e /\ Draft(e).at = stamp[e] /\ Draft(e) \in Message
        BY DraftRank
      <3>3. /\ pc[e] = "save_message" /\ sess[e] \in Requests
            /\ \A s \in Requests : \A m :
                 m \in Entries(dbLog'[s]) <=>
                   m \in Entries(dbLog[s]) \/ (s = sess[e] /\ m = Draft(e))
            /\ \A f \in Requests \ {e} : round'[f] = round[f]
            /\ \E l : pc' = [pc EXCEPT ![e] = l]
        BY <1>12, SaveMessageEffect
      <3> QED BY <1>0, <3>1, <3>2, <3>3
    <2>1. /\ Rank(Draft(e)) \in Nat
          /\ Writes(e)' => Ceiling(e)' \in Nat /\ Rank(Draft(e)) < Ceiling(e)'
          /\ pc'[e] \notin AppendPc \cup {"idle"}
      <3>1. CASE part[e] = "user"
        <4>1. pc'[e] = "accept"
          BY <1>0, <1>12, <3>1 DEF SaveMessage, Continue
        <4> QED BY <3>1, <4>1, DraftRank DEF Ceiling
      <3>2. CASE part[e] = "tool_call"
        <4>1. pc'[e] = "tool" /\ round'[e] = round[e]
          BY <1>0, <1>12, <3>2 DEF SaveMessage, Continue
        <4> QED BY <1>0, <3>2, <4>1, DraftRank DEF Ceiling
      <3>3. CASE part[e] = "tool"
        <4>1. \/ pc'[e] \in {"announce", "failed"}
              \/ pc'[e] = "prompt" /\ round'[e] = round[e] + 1
          BY <1>0, <1>12, <3>3 DEF SaveMessage, Continue
        <4> QED BY <1>0, <3>3, <4>1, DraftRank DEF Ceiling, Writes
      <3>4. CASE part[e] = "reply"
        <4>1. pc'[e] = "remember"
          BY <1>0, <1>12, <3>4 DEF SaveMessage, Continue
        <4> QED BY <4>1, DraftRank DEF Writes
      <3> QED BY <1>0, <3>1, <3>2, <3>3, <3>4 DEF Parts
    <2>2. Writes(e) /\ Ceiling(e) = Rank(Draft(e))
      BY <2>0 DEF Writes, Ceiling
    <2>3. \A f \in Requests \ {e} :
            /\ Draft(f)' = Draft(f)
            /\ Writes(f)' <=> Writes(f)
            /\ Ceiling(f)' = Ceiling(f)
      BY <2>0 DEF Draft, Writes, Ceiling
    <2>4. ExchangesInOrder'
      <3>1. PICK k \in 0..Len(dbLog[sess[e]]) :
              /\ DatedAfter(dbLog[sess[e]], k, Draft(e))
              /\ dbLog' = [dbLog EXCEPT ![sess[e]] =
                             InsertAfter(dbLog[sess[e]], k, Draft(e))]
        BY <1>12 DEF SaveMessage
      <3>2. /\ dbLog[sess[e]] \in Seq(Message)
            /\ InExchangeOrder(dbLog[sess[e]])
            /\ dbLog \in [Requests -> Seq(Message)]
        BY <2>0 DEF OrderInv, ExchangesInOrder, TypeInv, TypeOK
      <3>3. \A n \in Entries(dbLog[sess[e]]) :
              n.env = e => Rank(n) < Rank(Draft(e)) /\ n.at < stamp[e]
        BY <2>0, <2>2 DEF OrderInv
      <3>4. InExchangeOrder(InsertAfter(dbLog[sess[e]], k, Draft(e)))
        BY <2>0, <3>1, <3>2, <3>3, InsertOrder
      <3> QED BY <2>0, <3>1, <3>2, <3>4 DEF OrderInv, ExchangesInOrder
    <2>5. \A f \in Requests : pc'[f] # "idle" => stamp'[f] < clock'
      BY <2>0 DEF OrderInv
    <2>6. ASSUME NEW s \in Requests, NEW m \in Entries(dbLog'[s])
          PROVE  /\ m.at <= stamp'[m.env]
                 /\ pc'[m.env] \in AppendPc => m.at < stamp'[m.env]
                 /\ Writes(m.env)' => Rank(m) < Ceiling(m.env)'
      <3>1. CASE m \in Entries(dbLog[s]) /\ m.env = e
        <4>1. Rank(m) < Rank(Draft(e)) /\ Rank(m) \in Nat /\ m.at <= stamp[e]
          BY <2>2, <3>1, LogTypes, RankOf DEF OrderInv
        <4> QED BY <2>0, <2>1, <3>1, <4>1
      <3>2. CASE m \in Entries(dbLog[s]) /\ m.env # e
        <4>1. m.env \in Requests \ {e}
          BY <3>2, LogTypes
        <4>2. /\ m.at <= stamp[m.env]
              /\ pc[m.env] \in AppendPc => m.at < stamp[m.env]
              /\ Writes(m.env) => Rank(m) < Ceiling(m.env)
          BY <3>2 DEF OrderInv
        <4>3. pc'[m.env] = pc[m.env] /\ stamp' = stamp
          BY <2>0, <4>1
        <4>4. m.at <= stamp'[m.env]
          BY <4>1, <4>2, <4>3
        <4>5. pc'[m.env] \in AppendPc => m.at < stamp'[m.env]
          BY <4>1, <4>2, <4>3
        <4>6. Writes(m.env)' => Rank(m) < Ceiling(m.env)'
          <5>1. (Writes(m.env)' <=> Writes(m.env)) /\ Ceiling(m.env)' = Ceiling(m.env)
            BY <2>3, <4>1
          <5> QED BY <4>2, <5>1
        <4> QED BY <4>4, <4>5, <4>6
      <3>3. CASE m = Draft(e)
        BY <1>0, <2>0, <2>1, <3>3
      <3> QED BY <2>0, <3>1, <3>2, <3>3
    <2>7. ASSUME NEW s \in Requests, NEW m \in Entries(history[s]), Writes(m.env)'
          PROVE  \/ Rank(m) < Ceiling(m.env)'
                 \/ /\ pc'[m.env] \in {"save_summary", "save_message"}
                    /\ m = Draft(m.env)'
      <3>0. m \in Message /\ m.env \in Requests
        BY LogTypes
      <3>1. CASE m.env = e
        <4>1. Rank(m) < Rank(Draft(e)) \/ m = Draft(e)
          BY <2>2, <3>1 DEF OrderInv
        <4>2. Writes(e)' /\ Rank(m) \in Nat
          BY <2>7, <3>0, <3>1, RankOf
        <4>3. Rank(m) < Ceiling(e)'
          BY <2>1, <4>1, <4>2
        <4> QED BY <3>1, <4>3
      <3>2. CASE m.env # e
        BY <2>0, <2>3, <2>7, <3>0, <3>2 DEF OrderInv
      <3> QED BY <3>1, <3>2
    <2> HIDE DEF AppendPc
    <2> QED BY <2>0, <2>4, <2>5, <2>6, <2>7 DEF OrderInv
  <1>13. ASSUME NEW e \in Requests, Accept(e) PROVE OrderInv'
    <2>1. /\ pc[e] = "accept"
          /\ pc'[e] \in {"prompt", "tool"}
          /\ UNCHANGED <<history, dbLog, clock, part, round, stamp>>
          /\ round[e] \in Nat
      BY <1>0, <1>13 DEF Accept
    <2>2. \A f \in Requests \ {e} :
            /\ pc'[f] = pc[f] /\ part'[f] = part[f]
            /\ round'[f] = round[f] /\ stamp'[f] = stamp[f]
      BY <1>0, <1>13 DEF Accept
    <2>3. /\ Writes(e) /\ Writes(e)' /\ pc[e] \notin {"save_summary", "save_message"}
          /\ Ceiling(e) = 1
          /\ Ceiling(e)' = IF pc'[e] = "prompt" THEN 2 * round[e] + 1
                           ELSE 2 * round[e] + 2
      BY <1>0, <1>b, <2>1 DEF Writes, Ceiling
    <2>4. Ceiling(e)' \in Nat /\ Ceiling(e)' >= Ceiling(e)
      BY <1>0, <1>b, <2>1, <2>3 DEF MayGoRound
    <2>5. stamp'[e] \in Nat /\ stamp'[e] >= stamp[e] /\ stamp'[e] < clock'
          /\ clock' \in Nat /\ clock' >= clock
      BY <1>0, <1>a, <2>1
    <2>6. pc'[e] \in AppendPc => stamp'[e] = clock /\ pc[e] # "idle"
      BY <2>1
    <2> HIDE DEF AppendPc
    <2> QED BY <2>1, <2>2, <2>3, <2>4, <2>5, <2>6, OrderFrame
  <1>14. ASSUME NEW e \in Requests, BuildPrompt(e) PROVE OrderInv'
    <2>1. /\ pc[e] = "prompt"
          /\ pc'[e] = "chat"
          /\ UNCHANGED <<history, dbLog, clock, part, round, stamp>>
          /\ round[e] \in Nat
      BY <1>0, <1>14 DEF BuildPrompt
    <2>2. \A f \in Requests \ {e} :
            /\ pc'[f] = pc[f] /\ part'[f] = part[f]
            /\ round'[f] = round[f] /\ stamp'[f] = stamp[f]
      BY <1>0, <1>14 DEF BuildPrompt
    <2>3. /\ Writes(e) /\ Writes(e)' /\ pc[e] \notin {"save_summary", "save_message"}
          /\ Ceiling(e) = 2 * round[e] + 1 /\ Ceiling(e)' = 2 * round[e] + 1
      BY <1>0, <1>b, <2>1 DEF Writes, Ceiling
    <2>4. Ceiling(e)' \in Nat /\ Ceiling(e)' >= Ceiling(e)
      BY <1>0, <1>b, <2>1, <2>3 DEF MayGoRound
    <2>5. stamp'[e] \in Nat /\ stamp'[e] >= stamp[e] /\ stamp'[e] < clock'
          /\ clock' \in Nat /\ clock' >= clock
      BY <1>0, <1>a, <2>1
    <2>6. pc'[e] \in AppendPc => stamp'[e] = clock /\ pc[e] # "idle"
      BY <2>1
    <2> HIDE DEF AppendPc
    <2> QED BY <2>1, <2>2, <2>3, <2>4, <2>5, <2>6, OrderFrame
  <1>15. ASSUME NEW e \in Requests, ProviderFails(e) PROVE OrderInv'
    <2>1. /\ UNCHANGED <<history, dbLog, clock, part, round, stamp>>
          /\ pc[e] # "idle"
          /\ \A f \in Requests \ {e} : pc'[f] = pc[f]
          /\ Fresh(e) \/ pc'[e] \in {"failed", "rejected", "abandoned", "done"}
      BY <1>0, <1>15 DEF ProviderFails, Fresh
    <2> QED BY <2>1, OrderQuiet
  <1>16. ASSUME NEW e \in Requests, ProviderCallsTool(e) PROVE OrderInv'
    <2>1. /\ pc[e] = "chat"
          /\ pc'[e] = "append" /\ part'[e] = "tool_call"
          /\ UNCHANGED <<history, dbLog, round>>
          /\ stamp'[e] = clock /\ clock' = clock + 1
      BY <1>0, <1>16 DEF ProviderCallsTool
    <2>2. \A f \in Requests \ {e} :
            /\ pc'[f] = pc[f] /\ part'[f] = part[f]
            /\ round'[f] = round[f] /\ stamp'[f] = stamp[f]
      BY <1>0, <1>16 DEF ProviderCallsTool
    <2>3. /\ Writes(e) /\ Writes(e)' /\ pc[e] \notin {"save_summary", "save_message"}
          /\ Ceiling(e) = 2 * round[e] + 1 /\ Ceiling(e)' = 2 * round[e] + 1
      BY <1>0, <1>b, <2>1 DEF Writes, Ceiling
    <2>4. Ceiling(e)' \in Nat /\ Ceiling(e)' >= Ceiling(e)
      BY <1>0, <1>b, <2>1, <2>3 DEF MayGoRound
    <2>5. stamp'[e] \in Nat /\ stamp'[e] >= stamp[e] /\ stamp'[e] < clock'
          /\ clock' \in Nat /\ clock' >= clock
      BY <1>0, <1>a, <2>1
    <2>6. pc'[e] \in AppendPc => stamp'[e] = clock /\ pc[e] # "idle"
      BY <2>1
    <2> HIDE DEF AppendPc
    <2> QED BY <2>1, <2>2, <2>3, <2>4, <2>5, <2>6, OrderFrame
  <1>17. ASSUME NEW e \in Requests, ProviderAnswers(e) PROVE OrderInv'
    <2>1. /\ pc[e] = "chat"
          /\ pc'[e] = "append" /\ part'[e] = "reply"
          /\ UNCHANGED <<history, dbLog, round>>
          /\ stamp'[e] = clock /\ clock' = clock + 1
      BY <1>0, <1>17 DEF ProviderAnswers
    <2>2. \A f \in Requests \ {e} :
            /\ pc'[f] = pc[f] /\ part'[f] = part[f]
            /\ round'[f] = round[f] /\ stamp'[f] = stamp[f]
      BY <1>0, <1>17 DEF ProviderAnswers
    <2>3. /\ Writes(e) /\ Writes(e)' /\ pc[e] \notin {"save_summary", "save_message"}
          /\ Ceiling(e) = 2 * round[e] + 1 /\ Ceiling(e)' = 2 * ToolCallLimit + 1
      BY <1>0, <1>b, <2>1 DEF Writes, Ceiling
    <2>4. Ceiling(e)' \in Nat /\ Ceiling(e)' >= Ceiling(e)
      BY <1>0, <1>b, <2>1, <2>3 DEF MayGoRound
    <2>5. stamp'[e] \in Nat /\ stamp'[e] >= stamp[e] /\ stamp'[e] < clock'
          /\ clock' \in Nat /\ clock' >= clock
      BY <1>0, <1>a, <2>1
    <2>6. pc'[e] \in AppendPc => stamp'[e] = clock /\ pc[e] # "idle"
      BY <2>1
    <2> HIDE DEF AppendPc
    <2> QED BY <2>1, <2>2, <2>3, <2>4, <2>5, <2>6, OrderFrame
  <1>18. ASSUME NEW e \in Requests, RefuseTool(e) PROVE OrderInv'
    <2>1. /\ UNCHANGED <<history, dbLog, clock, part, round, stamp>>
          /\ pc[e] # "idle"
          /\ \A f \in Requests \ {e} : pc'[f] = pc[f]
          /\ Fresh(e) \/ pc'[e] \in {"failed", "rejected", "abandoned", "done"}
      BY <1>0, <1>18 DEF RefuseTool, Fresh
    <2> QED BY <2>1, OrderQuiet
  <1>19. ASSUME NEW e \in Requests, StartTool(e) PROVE OrderInv'
    <2>1. /\ pc[e] = "tool"
          /\ pc'[e] = "executing"
          /\ UNCHANGED <<history, dbLog, clock, part, round, stamp>>
          /\ round[e] \in Nat
      BY <1>0, <1>19 DEF StartTool
    <2>2. \A f \in Requests \ {e} :
            /\ pc'[f] = pc[f] /\ part'[f] = part[f]
            /\ round'[f] = round[f] /\ stamp'[f] = stamp[f]
      BY <1>0, <1>19 DEF StartTool
    <2>3. /\ Writes(e) /\ Writes(e)' /\ pc[e] \notin {"save_summary", "save_message"}
          /\ Ceiling(e) = 2 * round[e] + 2 /\ Ceiling(e)' = 2 * round[e] + 2
      BY <1>0, <1>b, <2>1 DEF Writes, Ceiling
    <2>4. Ceiling(e)' \in Nat /\ Ceiling(e)' >= Ceiling(e)
      BY <1>0, <1>b, <2>1, <2>3 DEF MayGoRound
    <2>5. stamp'[e] \in Nat /\ stamp'[e] >= stamp[e] /\ stamp'[e] < clock'
          /\ clock' \in Nat /\ clock' >= clock
      BY <1>0, <1>a, <2>1
    <2>6. pc'[e] \in AppendPc => stamp'[e] = clock /\ pc[e] # "idle"
      BY <2>1
    <2> HIDE DEF AppendPc
    <2> QED BY <2>1, <2>2, <2>3, <2>4, <2>5, <2>6, OrderFrame
  <1>20. ASSUME NEW e \in Requests, ToolFails(e) PROVE OrderInv'
    <2>1. /\ UNCHANGED <<history, dbLog, clock, part, round, stamp>>
          /\ pc[e] # "idle"
          /\ \A f \in Requests \ {e} : pc'[f] = pc[f]
          /\ Fresh(e) \/ pc'[e] \in {"failed", "rejected", "abandoned", "done"}
      BY <1>0, <1>20 DEF ToolFails, Fresh
    <2> QED BY <2>1, OrderQuiet
  <1>21. ASSUME NEW e \in Requests, ToolReturns(e) PROVE OrderInv'
    <2>1. /\ pc[e] = "executing"
          /\ pc'[e] = "append" /\ part'[e] = "tool"
          /\ UNCHANGED <<history, dbLog, round>>
          /\ stamp'[e] = clock /\ clock' = clock + 1
      BY <1>0, <1>21 DEF ToolReturns
    <2>2. \A f \in Requests \ {e} :
            /\ pc'[f] = pc[f] /\ part'[f] = part[f]
            /\ round'[f] = round[f] /\ stamp'[f] = stamp[f]
      BY <1>0, <1>21 DEF ToolReturns
    <2>3. /\ Writes(e) /\ Writes(e)' /\ pc[e] \notin {"save_summary", "save_message"}
          /\ Ceiling(e) = 2 * round[e] + 2 /\ Ceiling(e)' = 2 * round[e] + 2
      BY <1>0, <1>b, <2>1 DEF Writes, Ceiling
    <2>4. Ceiling(e)' \in Nat /\ Ceiling(e)' >= Ceiling(e)
      BY <1>0, <1>b, <2>1, <2>3 DEF MayGoRound
    <2>5. stamp'[e] \in Nat /\ stamp'[e] >= stamp[e] /\ stamp'[e] < clock'
          /\ clock' \in Nat /\ clock' >= clock
      BY <1>0, <1>a, <2>1
    <2>6. pc'[e] \in AppendPc => stamp'[e] = clock /\ pc[e] # "idle"
      BY <2>1
    <2> HIDE DEF AppendPc
    <2> QED BY <2>1, <2>2, <2>3, <2>4, <2>5, <2>6, OrderFrame
  <1>22. ASSUME NEW e \in Requests, Remember(e) PROVE OrderInv'
    <2>1. /\ UNCHANGED <<history, dbLog, clock, part, round, stamp>>
          /\ pc[e] # "idle"
          /\ \A f \in Requests \ {e} : pc'[f] = pc[f]
          /\ Fresh(e) \/ pc'[e] \in {"failed", "rejected", "abandoned", "done"}
      BY <1>0, <1>22 DEF Remember, Fresh
    <2> QED BY <2>1, OrderQuiet
  <1>23. ASSUME NEW e \in Requests, EmitError(e) PROVE OrderInv'
    <2>1. /\ UNCHANGED <<history, dbLog, clock, part, round, stamp>>
          /\ pc[e] # "idle"
          /\ \A f \in Requests \ {e} : pc'[f] = pc[f]
          /\ Fresh(e) \/ pc'[e] \in {"failed", "rejected", "abandoned", "done"}
      BY <1>0, <1>23 DEF EmitError, Fresh
    <2> QED BY <2>1, OrderQuiet
  <1>24. ASSUME NEW e \in Requests, Abandon(e) PROVE OrderInv'
    <2>1. /\ UNCHANGED <<history, dbLog, clock, part, round, stamp>>
          /\ pc[e] # "idle"
          /\ \A f \in Requests \ {e} : pc'[f] = pc[f]
          /\ Fresh(e) \/ pc'[e] \in {"failed", "rejected", "abandoned", "done"}
      BY <1>0, <1>24 DEF Abandon, Fresh
    <2> QED BY <2>1, OrderQuiet
  <1>25. ASSUME NEW e \in Requests, StoreFails(e) PROVE OrderInv'
    <2>1. /\ UNCHANGED <<history, dbLog, clock, part, round, stamp>>
          /\ pc[e] # "idle"
          /\ \A f \in Requests \ {e} : pc'[f] = pc[f]
          /\ Fresh(e) \/ pc'[e] \in {"failed", "rejected", "abandoned", "done"}
      BY <1>0, <1>25 DEF StoreFails, Fresh, Failure
    <2> QED BY <2>1, OrderQuiet
  <1>26. ASSUME NEW e \in Requests, NEW r \in Workload, Submit(e, r) PROVE OrderInv'
    <2>1. /\ Fresh(e)
          /\ UNCHANGED <<history, dbLog, part, round>>
          /\ \A f \in Requests \ {e} : pc'[f] = pc[f] /\ stamp'[f] = stamp[f]
          /\ stamp'[e] = clock /\ clock' = clock + 1
      BY <1>0, <1>26 DEF Submit, Fresh
    <2> HIDE DEF AppendPc
    <2> QED BY <1>0, <2>1, OrderFrame
  <1>27. ASSUME Crash PROVE OrderInv'
    <2>0. /\ history' = [s \in Requests |-> <<>>]
          /\ UNCHANGED <<dbLog, stamp, clock, part, round>>
          /\ \A f \in Requests : pc'[f] \in {pc[f], "lost"}
          /\ \A f \in Requests : pc'[f] = "idle" => pc[f] = "idle"
          /\ \A f \in Requests : pc'[f] # "idle" => pc[f] # "idle"
          /\ \A f \in Requests : ~Writes(f)' /\ pc'[f] \notin AppendPc
      BY <1>0, <1>27 DEF Crash, Live, Writes
    <2>1. Entries(<<>>) = {} /\ InExchangeOrder(<<>>)
      BY DEF Entries, InExchangeOrder
    <2> HIDE DEF AppendPc
    <2>2. ASSUME NEW s \in Requests, NEW m \in Entries(dbLog[s])
          PROVE  m.env \in Requests /\ m.at <= stamp[m.env]
      BY LogTypes DEF OrderInv
    <2> QED BY <2>0, <2>1, <2>2 DEF OrderInv, ExchangesInOrder
  <1>28. ASSUME Restart PROVE OrderInv'
    <2>0. history' = dbLog /\ UNCHANGED <<dbLog, pc, stamp, clock, part, round>>
      BY <1>28 DEF Restart
    <2>1. \A f \in Requests : (Writes(f)' <=> Writes(f)) /\ Ceiling(f)' = Ceiling(f)
      BY <2>0 DEF Writes, Ceiling, Draft
    <2> HIDE DEF AppendPc
    <2>2. ASSUME NEW s \in Requests, NEW m \in Entries(dbLog[s])
          PROVE  m.env \in Requests
      BY LogTypes
    <2> QED BY <2>0, <2>1, <2>2 DEF OrderInv, ExchangesInOrder
  <1>29. ASSUME UNCHANGED vars PROVE OrderInv'
    <2>0. UNCHANGED <<history, dbLog, pc, stamp, clock, part, round>>
      BY <1>29 DEF vars
    <2>1. \A f : /\ (Writes(f)' <=> Writes(f)) /\ Ceiling(f)' = Ceiling(f)
                 /\ Draft(f)' = Draft(f)
      BY <2>0 DEF Writes, Ceiling, Draft
    <2> HIDE DEF AppendPc
    <2> QED BY <2>0, <2>1 DEF OrderInv, ExchangesInOrder
  <1>30. ASSUME NEW e \in Requests, Announce(e) PROVE OrderInv'
    <2>1. /\ UNCHANGED <<history, dbLog, clock, part, round, stamp>>
          /\ pc[e] # "idle"
          /\ \A f \in Requests \ {e} : pc'[f] = pc[f]
          /\ Fresh(e) \/ pc'[e] \in {"failed", "rejected", "abandoned", "done"}
      BY <1>0, <1>30 DEF Announce, Fresh
    <2> QED BY <2>1, OrderQuiet
  <1> QED
    BY <1>1, <1>2, <1>3, <1>4, <1>5, <1>6, <1>7, <1>8, <1>9, <1>10, <1>11,
       <1>12, <1>13, <1>14, <1>15, <1>16, <1>17, <1>18, <1>19, <1>20, <1>21,
       <1>22, <1>23, <1>24, <1>25, <1>26, <1>27, <1>28, <1>29, <1>30
       DEF Next, TaskStep, ResolveStep, AppendStep, TurnStep
-----------------------------------------------------------------------------
(* Theorems *)

\* Whatever interleaves, fails or dies, each exchange keeps its order, its place and its
\* account to the client (append_message, run_provider, process_envelope).
THEOREM TurnInvariance == Spec => [](IndInv /\ TurnInv)
  <1>1. Init => IndInv /\ TurnInv
    BY TypeInit, MapInit, PhaseInit, LogInit, KindInit, OutcomeInit, PairInit,
       PlaceInit, GapInit, OrderInit DEF IndInv, TurnInv
  <1>2. IndInv /\ TurnInv /\ [Next]_vars => (IndInv /\ TurnInv)'
    BY TypeStep, MapStep, PhaseStep, LogStep, KindStep, OutcomeStep, PairStep,
       PlaceStep, GapStep, OrderStep DEF IndInv, TurnInv
  <1> QED BY <1>1, <1>2, PTL DEF Spec

\* Whatever the store lacks, the client has been told of; a turn that ended without an
\* Error event left a complete exchange in the store.
THEOREM GapsAccounted == Spec => []GapsExplained
  <1>1. IndInv /\ TurnInv => GapsExplained
    <2> SUFFICES ASSUME IndInv, TurnInv PROVE CleanTurnStored
      BY DEF TurnInv, GapsExplained
    <2> SUFFICES ASSUME NEW e \in Requests, pc[e] = "done", Accepted(e),
                        "error" \notin emitted[e]
                 PROVE  /\ req[e].kind = "chat" => Stored(e, "reply")
                        /\ \A m \in Entries(dbLog[sess[e]]) :
                             m.env = e /\ m.part = "tool_call" =>
                               Answered(m, dbLog[sess[e]])
      BY DEF CleanTurnStored, Answered
    <2>1. sess[e] \in Requests
      BY DEF IndInv, PhaseInv
    <2>2. Settled(e) /\ (req[e].kind = "chat" => Finished(e))
      BY DEF Settled, PendingCall, Finished, AppendPc
    <2> QED BY <2>1, <2>2 DEF TurnInv, PairInv
  <1> QED BY <1>1, TurnInvariance, PTL

\* Each exchange reads in the order it happened, in memory and in the table that the
\* next process sorts by created_at.
THEOREM OrderKept == Spec => []ExchangesInOrder
  <1>1. IndInv /\ TurnInv => ExchangesInOrder
    BY DEF TurnInv, OrderInv
  <1> QED BY <1>1, TurnInvariance, PTL

\* A turn that is over said so once: completed, failed, or an announced answer taken
\* back because it could not be stored.
THEOREM OutcomeTold == Spec => []OneOutcome
  <1>1. IndInv /\ TurnInv => OneOutcome
    <2> SUFFICES ASSUME IndInv, TurnInv, NEW e \in Requests,
                        pc[e] = "done", Accepted(e)
                 PROVE  /\ emitted[e] \cap {"completed", "error"} # {}
                        /\ "error" \in emitted[e] => ~Stored(e, "reply")
      BY DEF OneOutcome
    <2>1. sess[e] \in Requests
      BY DEF IndInv, PhaseInv
    <2> QED BY <2>1 DEF TurnInv, OutcomeInv, Stored
  <1> QED BY <1>1, TurnInvariance, PTL

-----------------------------------------------------------------------------
(* The runtime implements Delivery *)

\* What a client sees of its call, case by case.
LEMMA StateCases ==
  ASSUME NEW e \in Requests
  PROVE  /\ ~IsMessage(e) => DeliveryState(e) = "new"
         /\ IsMessage(e) /\ "error" \in emitted[e] => DeliveryState(e) = "failed"
         /\ IsMessage(e) /\ "error" \notin emitted[e] /\ "completed" \in emitted[e]
              => DeliveryState(e) = "answered"
         /\ IsMessage(e) /\ emitted[e] \cap {"completed", "error"} = {} =>
              DeliveryState(e) = IF pc[e] \in {"lost", "abandoned"} THEN "dropped"
                                 ELSE IF pc[e] = "rejected" THEN "refused"
                                 ELSE IF Accepted(e) THEN "accepted" ELSE "pending"
  BY DEF DeliveryState

\* No client has sent anything.
LEMMA DeliveryInit == Init => D!Init
  <1> SUFFICES ASSUME Init PROVE D!Init
    OBVIOUS
  <1>1. \A e \in Requests : DeliveryState(e) = "new"
    BY DEF Init, IsMessage, DeliveryState
  <1>2. InStore("user") = {} /\ InStore("reply") = {}
    BY DEF Init, InStore
  <1> QED BY <1>1, <1>2 DEF D!Init

\* A step of e that stores no message is seen by its own client only.
LEMMA DeliveryFrame ==
  ASSUME TypeInv, PhaseInv, NEW e \in Requests,
         UNCHANGED dbLog,
         \A f \in Requests \ {e} :
           /\ pc'[f] = pc[f] /\ req'[f] = req[f]
           /\ emitted'[f] = emitted[f] /\ sess'[f] = sess[f],
         Unheard(e) \/ sess'[e] = sess[e],
         sess'[e] \in Requests \cup {None},
         \/ DeliveryState(e)' = DeliveryState(e)
         \/ DeliveryState(e) = "new" /\ DeliveryState(e)' = "pending"
         \/ /\ DeliveryState(e) = "pending" /\ DeliveryState(e)' = "accepted"
            /\ e \in InStore("user")
         \/ /\ DeliveryState(e) = "pending" /\ DeliveryState(e)' = "refused"
            /\ e \notin InStore("user")
         \/ DeliveryState(e) = "accepted" /\ DeliveryState(e)' \in {"answered", "failed"}
         \/ /\ DeliveryState(e) = "answered" /\ DeliveryState(e)' = "failed"
            /\ e \notin InStore("reply")
         \/ /\ DeliveryState(e) \in {"pending", "accepted"}
            /\ DeliveryState(e)' = "dropped"
  PROVE  [D!Next]_(D!vars)
  <1>1. \A f \in Requests \ {e} : DeliveryState(f)' = DeliveryState(f)
    BY DEF DeliveryState, IsMessage, Accepted
  <1>2. ASSUME NEW p PROVE UNCHANGED InStore(p)
    <2>1. ASSUME NEW f \in Requests
          PROVE  (sess'[f] # None /\ Stored(f, p)') <=> (sess[f] # None /\ Stored(f, p))
      <3>1. CASE sess'[f] = sess[f]
        BY <3>1 DEF Stored
      <3>2. CASE f = e /\ Unheard(e)
        <4>1. \A s \in Requests : \A m \in Entries(dbLog[s]) : m.env # e
          BY <3>2 DEF PhaseInv
        <4>2. sess[e] \in Requests \cup {None}
          BY DEF TypeInv, TypeOK
        <4> QED BY <3>2, <4>1, <4>2 DEF Stored
      <3> QED BY <3>1, <3>2
    <2> QED BY <2>1 DEF InStore
  <1> DEFINE st == [f \in Requests |-> DeliveryState(f)]
  <1>3. st' = [st EXCEPT ![e] = DeliveryState(e)'] /\ st[e] = DeliveryState(e)
    BY <1>1
  <1>4. UNCHANGED <<InStore("user"), InStore("reply")>>
    BY <1>2
  <1>5. CASE DeliveryState(e)' = DeliveryState(e)
    <2>1. st' = st
      BY <1>1, <1>5
    <2> QED BY <1>4, <2>1 DEF D!vars
  <1> HIDE DEF st
  <1>6. CASE DeliveryState(e)' # DeliveryState(e) /\ DeliveryState(e)' # "dropped"
    <2>1. \/ D!Begin(e) \/ D!Accept(e) \/ D!Refuse(e) \/ D!Answer(e) \/ D!Fail(e)
          \/ D!Withdraw(e)
      BY <1>3, <1>4, <1>6
         DEF st, D!Begin, D!Accept, D!Refuse, D!Answer, D!Fail, D!Withdraw, D!Move
    <2> QED BY <2>1 DEF D!Next
  <1>7. CASE DeliveryState(e)' # DeliveryState(e) /\ DeliveryState(e)' = "dropped"
    <2>1. st' = [f \in Requests |-> IF f \in {e} THEN "dropped" ELSE st[f]]
      BY <1>1, <1>7 DEF st
    <2>2. D!Drop({e})
      BY <1>3, <1>4, <1>7, <2>1 DEF st, D!Drop
    <2> QED BY <2>2 DEF D!Next
  <1> QED BY <1>5, <1>6, <1>7

\* A step on which nothing is announced and the call stays open is not seen at all.
LEMMA DeliverySilent ==
  ASSUME TypeInv, PhaseInv, NEW e \in Requests,
         UNCHANGED <<dbLog, req>>,
         \A f \in Requests \ {e} :
           pc'[f] = pc[f] /\ emitted'[f] = emitted[f] /\ sess'[f] = sess[f],
         Unheard(e) \/ sess'[e] = sess[e],
         sess'[e] \in Requests \cup {None},
         {pc[e], pc'[e]} \cap {"idle", "lost", "abandoned", "rejected"} = {},
         \A k \in {"accepted", "completed", "error"} :
           k \in emitted'[e] <=> k \in emitted[e]
  PROVE  [D!Next]_(D!vars)
  <1>1. IsMessage(e)' <=> IsMessage(e)
    BY DEF IsMessage
  <1>2. DeliveryState(e)' = DeliveryState(e)
    BY <1>1 DEF DeliveryState, Accepted
  <1> QED BY <1>2, DeliveryFrame

\* A refusal is one, of a message that no table holds.
LEMMA Refused ==
  ASSUME TypeInv, PhaseInv, KindInv, OutcomeInv, NEW e \in Requests,
         UNCHANGED <<dbLog, req, sess>>,
         \A f \in Requests \ {e} : pc'[f] = pc[f] /\ emitted'[f] = emitted[f],
         Unheard(e), pc[e] \notin {"idle", "rejected"}, pc'[e] = "rejected",
         emitted'[e] = emitted[e]
  PROVE  [D!Next]_(D!vars)
  <1>1. e \notin InStore("user")
    BY DEF InStore, Stored, PhaseInv, TypeInv, TypeOK
  <1>2. ~Accepted(e) /\ emitted[e] \cap {"completed", "error"} = {}
    BY DEF PhaseInv, OutcomeInv, Undecided, Unheard
  <1>3. pc[e] \notin {"lost", "abandoned"}
    BY DEF Unheard, SubmitPc, AppendPc
  <1>4. CASE IsMessage(e)
    <2>1. DeliveryState(e) = "pending" /\ DeliveryState(e)' = "refused"
      BY <1>2, <1>3, <1>4 DEF DeliveryState, IsMessage
    <2> QED BY <1>1, <2>1, DeliveryFrame DEF TypeInv, TypeOK
  <1>5. CASE ~IsMessage(e)
    <2>1. DeliveryState(e) = "new" /\ DeliveryState(e)' = "new"
      BY <1>5 DEF DeliveryState, IsMessage
    <2> QED BY <2>1, DeliveryFrame DEF TypeInv, TypeOK
  <1> QED BY <1>4, <1>5

\* Every step of the runtime is one of Delivery, or one that no client sees.
LEMMA DeliveryStep ==
  IndInv /\ TurnInv /\ [Next]_vars => [D!Next]_(D!vars)
  <1> SUFFICES ASSUME IndInv, TurnInv, [Next]_vars
               PROVE  [D!Next]_(D!vars)
    OBVIOUS
  <1> USE RuntimeAssumption
      DEF SubmitPc, AppendPc, TurnPc, FinalPc, IndInv, TurnInv,
          memVars, dbVars, dateVars, turnVars, envVars, Goto, Date, Emit
  <1>0. /\ pc \in [Requests -> {"idle"} \cup SubmitPc \cup AppendPc
                                   \cup TurnPc \cup FinalPc]
        /\ part \in [Requests -> Parts]
        /\ req \in [Requests -> RequestContent \cup {None}]
        /\ sess \in [Requests -> Requests \cup {None}]
        /\ emitted \in [Requests -> SUBSET EventKind]
        /\ \A e \in Requests : pc[e] \in {"idle"} \cup SubmitPc => part[e] = "user"
    BY DEF TypeInv, TypeOK, PhaseInv
  <1>a. \A e \in Requests :
          /\ Unheard(e) => ~Accepted(e)
          /\ pc[e] = "accept" => ~Accepted(e)
          /\ pc[e] \in TurnPc => Accepted(e)
    BY DEF PhaseInv, KindInv, InTurn
  <1>b. \A e \in Requests :
          /\ Undecided(e) => emitted[e] \cap {"completed", "error"} = {}
          /\ Answering(e) => "completed" \in emitted[e] /\ "error" \notin emitted[e]
          /\ pc[e] = "failed" => "error" \notin emitted[e]
          /\ pc[e] # "idle" /\ req[e].kind = "create" =>
               pc[e] \in {"create", "save_session"} \cup FinalPc
    BY DEF OutcomeInv, KindInv
  <1>s. \A e \in Requests :
         /\ ~IsMessage(e) => DeliveryState(e) = "new"
         /\ IsMessage(e) /\ "error" \in emitted[e] => DeliveryState(e) = "failed"
         /\ IsMessage(e) /\ "error" \notin emitted[e] /\ "completed" \in emitted[e]
              => DeliveryState(e) = "answered"
         /\ IsMessage(e) /\ emitted[e] \cap {"completed", "error"} = {} =>
              DeliveryState(e) = IF pc[e] \in {"lost", "abandoned"} THEN "dropped"
                                 ELSE IF pc[e] = "rejected" THEN "refused"
                                 ELSE IF Accepted(e) THEN "accepted" ELSE "pending"
    BY StateCases
  <1>t. \A e \in Requests :
         /\ ~IsMessage(e)' => DeliveryState(e)' = "new"
         /\ IsMessage(e)' /\ "error" \in emitted'[e] => DeliveryState(e)' = "failed"
         /\ IsMessage(e)' /\ "error" \notin emitted'[e] /\ "completed" \in emitted'[e]
              => DeliveryState(e)' = "answered"
         /\ IsMessage(e)' /\ emitted'[e] \cap {"completed", "error"} = {} =>
              DeliveryState(e)' = IF pc'[e] \in {"lost", "abandoned"} THEN "dropped"
                                  ELSE IF pc'[e] = "rejected" THEN "refused"
                                  ELSE IF Accepted(e)' THEN "accepted" ELSE "pending"
    BY DEF DeliveryState
  <1> USE DEF Undecided, Answering, Accepted
  <1>1. ASSUME NEW e \in Requests, ResolveNamed(e) PROVE [D!Next]_(D!vars)
    <2>a. CASE req[e].session \in sessions
      <3>1. req[e].session \in Requests
        BY <1>0, <1>1 DEF ResolveNamed, RequestContent, TypeInv, TypeOK
      <3>2. /\ UNCHANGED <<dbLog, req>>
            /\ \A f \in Requests \ {e} :
                 pc'[f] = pc[f] /\ emitted'[f] = emitted[f] /\ sess'[f] = sess[f]
            /\ Unheard(e) \/ sess'[e] = sess[e]
            /\ sess'[e] \in Requests \cup {None}
        BY <1>0, <1>1, <2>a, <3>1 DEF ResolveNamed, Unheard, AfterResolve
      <3>3. /\ {pc[e], pc'[e]} \cap {"idle", "lost", "abandoned", "rejected"} = {}
            /\ \A k \in {"accepted", "completed", "error"} :
                 k \in emitted'[e] <=> k \in emitted[e]
        BY <1>0, <1>1, <2>a, <3>1 DEF ResolveNamed, AfterResolve
      <3> QED BY <3>2, <3>3, DeliverySilent

    <2>b. CASE req[e].session \notin sessions
      <3>1. /\ UNCHANGED <<dbLog, req, sess>>
            /\ \A f \in Requests \ {e} : pc'[f] = pc[f] /\ emitted'[f] = emitted[f]
        BY <1>0, <1>1, <2>b DEF ResolveNamed
      <3>2. /\ Unheard(e) /\ pc[e] \notin {"idle", "rejected"}
            /\ pc'[e] = "rejected" /\ emitted'[e] = emitted[e]
        BY <1>0, <1>1, <2>b DEF ResolveNamed, Unheard
      <3> QED BY <1>0, <1>a, <3>1, <3>2, Refused

    <2> QED BY <2>a, <2>b
  <1>2. ASSUME NEW e \in Requests, ReadBinding(e) PROVE [D!Next]_(D!vars)
    <2>0. \A c \in Conversations : bindings[c] \in Requests \cup {None}
      BY DEF TypeInv, TypeOK
    <2>a. req[e].conv \in Conversations
      BY <1>0, <1>2 DEF ReadBinding, RequestContent, TypeInv, TypeOK
    <2>1. /\ UNCHANGED <<dbLog, req>>
          /\ \A f \in Requests \ {e} :
               pc'[f] = pc[f] /\ emitted'[f] = emitted[f] /\ sess'[f] = sess[f]
          /\ Unheard(e) \/ sess'[e] = sess[e]
          /\ sess'[e] \in Requests \cup {None}
      BY <1>0, <1>2, <2>0, <2>a DEF ReadBinding, Unheard
    <2>2. /\ {pc[e], pc'[e]} \cap {"idle", "lost", "abandoned", "rejected"} = {}
          /\ \A k \in {"accepted", "completed", "error"} :
               k \in emitted'[e] <=> k \in emitted[e]
      BY <1>0, <1>2, <2>0, <2>a DEF ReadBinding
    <2> QED BY <2>1, <2>2, DeliverySilent
  <1>3. ASSUME NEW e \in Requests, LookupSession(e) PROVE [D!Next]_(D!vars)
    <2>1. /\ UNCHANGED <<dbLog, req>>
          /\ \A f \in Requests \ {e} :
               pc'[f] = pc[f] /\ emitted'[f] = emitted[f] /\ sess'[f] = sess[f]
          /\ Unheard(e) \/ sess'[e] = sess[e]
          /\ sess'[e] \in Requests \cup {None}
      BY <1>0, <1>3 DEF LookupSession, Unheard
    <2>2. /\ {pc[e], pc'[e]} \cap {"idle", "lost", "abandoned", "rejected"} = {}
          /\ \A k \in {"accepted", "completed", "error"} :
               k \in emitted'[e] <=> k \in emitted[e]
      BY <1>0, <1>3 DEF LookupSession
    <2> QED BY <2>1, <2>2, DeliverySilent
  <1>4. ASSUME NEW e \in Requests, ResolveAnonymous(e) PROVE [D!Next]_(D!vars)
    <2>1. /\ UNCHANGED <<dbLog, req>>
          /\ \A f \in Requests \ {e} :
               pc'[f] = pc[f] /\ emitted'[f] = emitted[f] /\ sess'[f] = sess[f]
          /\ Unheard(e) \/ sess'[e] = sess[e]
          /\ sess'[e] \in Requests \cup {None}
      BY <1>0, <1>4 DEF ResolveAnonymous, Unheard
    <2>2. /\ {pc[e], pc'[e]} \cap {"idle", "lost", "abandoned", "rejected"} = {}
          /\ \A k \in {"accepted", "completed", "error"} :
               k \in emitted'[e] <=> k \in emitted[e]
      BY <1>0, <1>4 DEF ResolveAnonymous
    <2> QED BY <2>1, <2>2, DeliverySilent
  <1>5. ASSUME NEW e \in Requests, InsertSession(e) PROVE [D!Next]_(D!vars)
    <2>1. /\ UNCHANGED <<dbLog, req>>
          /\ \A f \in Requests \ {e} :
               pc'[f] = pc[f] /\ emitted'[f] = emitted[f] /\ sess'[f] = sess[f]
          /\ Unheard(e) \/ sess'[e] = sess[e]
          /\ sess'[e] \in Requests \cup {None}
      BY <1>0, <1>5 DEF InsertSession, Unheard
    <2>2. /\ {pc[e], pc'[e]} \cap {"idle", "lost", "abandoned", "rejected"} = {}
          /\ \A k \in {"accepted", "completed", "error"} :
               k \in emitted'[e] <=> k \in emitted[e]
      BY <1>0, <1>5 DEF InsertSession
    <2> QED BY <2>1, <2>2, DeliverySilent
  <1>6. ASSUME NEW e \in Requests, SaveSession(e) PROVE [D!Next]_(D!vars)
    <2>1. /\ UNCHANGED <<dbLog, req>>
          /\ \A f \in Requests \ {e} :
               pc'[f] = pc[f] /\ emitted'[f] = emitted[f] /\ sess'[f] = sess[f]
          /\ Unheard(e) \/ sess'[e] = sess[e]
          /\ sess'[e] \in Requests \cup {None}
      BY <1>0, <1>6 DEF SaveSession, Unheard, AfterCreate
    <2>2. /\ {pc[e], pc'[e]} \cap {"idle", "lost", "abandoned", "rejected"} = {}
          /\ \A k \in {"accepted", "completed", "error"} :
               k \in emitted'[e] <=> k \in emitted[e]
      BY <1>0, <1>6 DEF SaveSession, AfterCreate
    <2> QED BY <2>1, <2>2, DeliverySilent
  <1>7. ASSUME NEW e \in Requests, SetBinding(e) PROVE [D!Next]_(D!vars)
    <2>1. /\ UNCHANGED <<dbLog, req>>
          /\ \A f \in Requests \ {e} :
               pc'[f] = pc[f] /\ emitted'[f] = emitted[f] /\ sess'[f] = sess[f]
          /\ Unheard(e) \/ sess'[e] = sess[e]
          /\ sess'[e] \in Requests \cup {None}
      BY <1>0, <1>7 DEF SetBinding, Unheard
    <2>2. /\ {pc[e], pc'[e]} \cap {"idle", "lost", "abandoned", "rejected"} = {}
          /\ \A k \in {"accepted", "completed", "error"} :
               k \in emitted'[e] <=> k \in emitted[e]
      BY <1>0, <1>7 DEF SetBinding
    <2> QED BY <2>1, <2>2, DeliverySilent
  <1>8. ASSUME NEW e \in Requests, SaveBinding(e) PROVE [D!Next]_(D!vars)
    <2>1. /\ UNCHANGED <<dbLog, req>>
          /\ \A f \in Requests \ {e} :
               pc'[f] = pc[f] /\ emitted'[f] = emitted[f] /\ sess'[f] = sess[f]
          /\ Unheard(e) \/ sess'[e] = sess[e]
          /\ sess'[e] \in Requests \cup {None}
      BY <1>0, <1>8 DEF SaveBinding, Unheard
    <2>2. /\ {pc[e], pc'[e]} \cap {"idle", "lost", "abandoned", "rejected"} = {}
          /\ \A k \in {"accepted", "completed", "error"} :
               k \in emitted'[e] <=> k \in emitted[e]
      BY <1>0, <1>8 DEF SaveBinding
    <2> QED BY <2>1, <2>2, DeliverySilent
  <1>9. ASSUME NEW e \in Requests, ForeignKeyFails(e) PROVE [D!Next]_(D!vars)
    <2>1. /\ UNCHANGED <<dbLog, req, sess>>
          /\ \A f \in Requests \ {e} : pc'[f] = pc[f] /\ emitted'[f] = emitted[f]
      BY <1>0, <1>9 DEF ForeignKeyFails
    <2>2. /\ Unheard(e) /\ pc[e] \notin {"idle", "rejected"}
          /\ pc'[e] = "rejected" /\ emitted'[e] = emitted[e]
      BY <1>0, <1>9 DEF ForeignKeyFails, Unheard
    <2> QED BY <1>0, <1>a, <2>1, <2>2, Refused
  <1>10. ASSUME NEW e \in Requests, PushMessage(e) PROVE [D!Next]_(D!vars)
    <2>1. /\ pc[e] = "append" /\ pc' = [pc EXCEPT ![e] = "save_summary"]
          /\ UNCHANGED <<dbLog, req, emitted, sess>>
      BY <1>10, PushMessageEffect
    <2> QED BY <1>0, <2>1, DeliverySilent
  <1>11. ASSUME NEW e \in Requests, SaveSummary(e) PROVE [D!Next]_(D!vars)
    <2>1. /\ UNCHANGED <<dbLog, req>>
          /\ \A f \in Requests \ {e} :
               pc'[f] = pc[f] /\ emitted'[f] = emitted[f] /\ sess'[f] = sess[f]
          /\ Unheard(e) \/ sess'[e] = sess[e]
          /\ sess'[e] \in Requests \cup {None}
      BY <1>0, <1>11 DEF SaveSummary, Unheard
    <2>2. /\ {pc[e], pc'[e]} \cap {"idle", "lost", "abandoned", "rejected"} = {}
          /\ \A k \in {"accepted", "completed", "error"} :
               k \in emitted'[e] <=> k \in emitted[e]
      BY <1>0, <1>11 DEF SaveSummary
    <2> QED BY <2>1, <2>2, DeliverySilent
  <1>12. ASSUME NEW e \in Requests, SaveMessage(e) PROVE [D!Next]_(D!vars)
    <2>0. /\ pc[e] = "save_message" /\ sess[e] \in Requests
          /\ UNCHANGED <<req, emitted, sess>>
          /\ \A f \in Requests \ {e} : pc'[f] = pc[f]
          /\ pc'[e] \in {"accept", "tool", "announce", "prompt", "failed", "remember"}
      <3>1. UNCHANGED <<req, emitted, sess>>
        BY <1>12 DEF SaveMessage
      <3> QED BY <1>0, <3>1, <1>12, SaveMessageEffect
    <2>1. \A s \in Requests : \A m :
             m \in Entries(dbLog'[s]) <=>
               m \in Entries(dbLog[s]) \/ (s = sess[e] /\ m = Draft(e))
      BY <1>12, SaveMessageEffect
    <2>2. \A f \in Requests : DeliveryState(f)' = DeliveryState(f)
      BY <1>0, <1>s, <1>t, <2>0 DEF IsMessage, Accepted
    <2>3. ASSUME NEW p
          PROVE  InStore(p)' = IF p = part[e] THEN InStore(p) \cup {e} ELSE InStore(p)
      <3>1. Draft(e).env = e /\ Draft(e).part = part[e]
        BY DEF Draft
      <3>2. ASSUME NEW f \in Requests, sess[f] # None
            PROVE  Stored(f, p)' <=> Stored(f, p) \/ (f = e /\ p = part[e])
        BY <1>0, <2>0, <2>1, <3>1, <3>2 DEF Stored
      <3> QED BY <1>0, <2>0, <3>2, RuntimeAssumption DEF InStore
    <2> DEFINE st == [f \in Requests |-> DeliveryState(f)]
    <2>4. st' = st /\ st[e] = DeliveryState(e)
      BY <2>2
    <2> HIDE DEF st
    <2>5. CASE part[e] = "user"
      <3>1. DeliveryState(e) = "pending"
        BY <1>a, <1>b, <1>s, <2>0, <2>5 DEF Unheard, IsMessage
      <3>2. InStore("user")' = InStore("user") \cup {e} /\ UNCHANGED InStore("reply")
        BY <2>3, <2>5
      <3>3. D!Record(e)
        BY <2>4, <3>1, <3>2 DEF st, D!Record
      <3> QED BY <3>3 DEF D!Next
    <2>6. CASE part[e] = "reply"
      <3>1. DeliveryState(e) = "answered"
        BY <1>b, <1>s, <2>0, <2>6 DEF IsMessage
      <3>2. InStore("reply")' = InStore("reply") \cup {e} /\ UNCHANGED InStore("user")
        BY <2>3, <2>6
      <3>3. D!Keep(e)
        BY <2>4, <3>1, <3>2 DEF st, D!Keep
      <3> QED BY <3>3 DEF D!Next
    <2>7. CASE part[e] \notin {"user", "reply"}
      <3>1. UNCHANGED <<InStore("user"), InStore("reply")>>
        BY <2>3, <2>7
      <3> QED BY <2>4, <3>1 DEF st, D!vars
    <2> QED BY <2>5, <2>6, <2>7
  <1>13. ASSUME NEW e \in Requests, Accept(e) PROVE [D!Next]_(D!vars)
    <2>1. /\ UNCHANGED <<dbLog, req, sess>>
          /\ \A f \in Requests \ {e} : pc'[f] = pc[f] /\ emitted'[f] = emitted[f]
      BY <1>0, <1>13 DEF Accept
    <2>2. e \in InStore("user")
      BY <1>0, <1>13 DEF Accept, InStore, PhaseInv
    <2>3. DeliveryState(e) = "pending" /\ DeliveryState(e)' = "accepted"
      BY <1>0, <1>a, <1>b, <1>s, <1>t, <1>13 DEF Accept, IsMessage
    <2> QED BY <1>0, <2>1, <2>2, <2>3, DeliveryFrame
  <1>14. ASSUME NEW e \in Requests, BuildPrompt(e) PROVE [D!Next]_(D!vars)
    <2>1. /\ UNCHANGED <<dbLog, req>>
          /\ \A f \in Requests \ {e} :
               pc'[f] = pc[f] /\ emitted'[f] = emitted[f] /\ sess'[f] = sess[f]
          /\ Unheard(e) \/ sess'[e] = sess[e]
          /\ sess'[e] \in Requests \cup {None}
      BY <1>0, <1>14 DEF BuildPrompt, Unheard
    <2>2. /\ {pc[e], pc'[e]} \cap {"idle", "lost", "abandoned", "rejected"} = {}
          /\ \A k \in {"accepted", "completed", "error"} :
               k \in emitted'[e] <=> k \in emitted[e]
      BY <1>0, <1>14 DEF BuildPrompt
    <2> QED BY <2>1, <2>2, DeliverySilent
  <1>15. ASSUME NEW e \in Requests, ProviderFails(e) PROVE [D!Next]_(D!vars)
    <2>1. /\ UNCHANGED <<dbLog, req>>
          /\ \A f \in Requests \ {e} :
               pc'[f] = pc[f] /\ emitted'[f] = emitted[f] /\ sess'[f] = sess[f]
          /\ Unheard(e) \/ sess'[e] = sess[e]
          /\ sess'[e] \in Requests \cup {None}
      BY <1>0, <1>15 DEF ProviderFails, Unheard
    <2>2. /\ {pc[e], pc'[e]} \cap {"idle", "lost", "abandoned", "rejected"} = {}
          /\ \A k \in {"accepted", "completed", "error"} :
               k \in emitted'[e] <=> k \in emitted[e]
      BY <1>0, <1>15 DEF ProviderFails
    <2> QED BY <2>1, <2>2, DeliverySilent
  <1>16. ASSUME NEW e \in Requests, ProviderCallsTool(e) PROVE [D!Next]_(D!vars)
    <2>1. /\ UNCHANGED <<dbLog, req>>
          /\ \A f \in Requests \ {e} :
               pc'[f] = pc[f] /\ emitted'[f] = emitted[f] /\ sess'[f] = sess[f]
          /\ Unheard(e) \/ sess'[e] = sess[e]
          /\ sess'[e] \in Requests \cup {None}
      BY <1>0, <1>16 DEF ProviderCallsTool, Unheard
    <2>2. /\ {pc[e], pc'[e]} \cap {"idle", "lost", "abandoned", "rejected"} = {}
          /\ \A k \in {"accepted", "completed", "error"} :
               k \in emitted'[e] <=> k \in emitted[e]
      BY <1>0, <1>16 DEF ProviderCallsTool
    <2> QED BY <2>1, <2>2, DeliverySilent
  <1>17. ASSUME NEW e \in Requests, ProviderAnswers(e) PROVE [D!Next]_(D!vars)
    <2>1. /\ UNCHANGED <<dbLog, req, sess>>
          /\ \A f \in Requests \ {e} : pc'[f] = pc[f] /\ emitted'[f] = emitted[f]
      BY <1>0, <1>17 DEF ProviderAnswers
    <2>2. DeliveryState(e) = "accepted" /\ DeliveryState(e)' = "answered"
      BY <1>0, <1>a, <1>b, <1>s, <1>t, <1>17 DEF ProviderAnswers, IsMessage
    <2> QED BY <1>0, <2>1, <2>2, DeliveryFrame
  <1>18. ASSUME NEW e \in Requests, RefuseTool(e) PROVE [D!Next]_(D!vars)
    <2>1. /\ UNCHANGED <<dbLog, req>>
          /\ \A f \in Requests \ {e} :
               pc'[f] = pc[f] /\ emitted'[f] = emitted[f] /\ sess'[f] = sess[f]
          /\ Unheard(e) \/ sess'[e] = sess[e]
          /\ sess'[e] \in Requests \cup {None}
      BY <1>0, <1>18 DEF RefuseTool, Unheard
    <2>2. /\ {pc[e], pc'[e]} \cap {"idle", "lost", "abandoned", "rejected"} = {}
          /\ \A k \in {"accepted", "completed", "error"} :
               k \in emitted'[e] <=> k \in emitted[e]
      BY <1>0, <1>18 DEF RefuseTool
    <2> QED BY <2>1, <2>2, DeliverySilent
  <1>19. ASSUME NEW e \in Requests, StartTool(e) PROVE [D!Next]_(D!vars)
    <2>1. /\ UNCHANGED <<dbLog, req>>
          /\ \A f \in Requests \ {e} :
               pc'[f] = pc[f] /\ emitted'[f] = emitted[f] /\ sess'[f] = sess[f]
          /\ Unheard(e) \/ sess'[e] = sess[e]
          /\ sess'[e] \in Requests \cup {None}
      BY <1>0, <1>19 DEF StartTool, Unheard
    <2>2. /\ {pc[e], pc'[e]} \cap {"idle", "lost", "abandoned", "rejected"} = {}
          /\ \A k \in {"accepted", "completed", "error"} :
               k \in emitted'[e] <=> k \in emitted[e]
      BY <1>0, <1>19 DEF StartTool
    <2> QED BY <2>1, <2>2, DeliverySilent
  <1>20. ASSUME NEW e \in Requests, ToolFails(e) PROVE [D!Next]_(D!vars)
    <2>1. /\ UNCHANGED <<dbLog, req>>
          /\ \A f \in Requests \ {e} :
               pc'[f] = pc[f] /\ emitted'[f] = emitted[f] /\ sess'[f] = sess[f]
          /\ Unheard(e) \/ sess'[e] = sess[e]
          /\ sess'[e] \in Requests \cup {None}
      BY <1>0, <1>20 DEF ToolFails, Unheard
    <2>2. /\ {pc[e], pc'[e]} \cap {"idle", "lost", "abandoned", "rejected"} = {}
          /\ \A k \in {"accepted", "completed", "error"} :
               k \in emitted'[e] <=> k \in emitted[e]
      BY <1>0, <1>20 DEF ToolFails
    <2> QED BY <2>1, <2>2, DeliverySilent
  <1>21. ASSUME NEW e \in Requests, ToolReturns(e) PROVE [D!Next]_(D!vars)
    <2>1. /\ UNCHANGED <<dbLog, req>>
          /\ \A f \in Requests \ {e} :
               pc'[f] = pc[f] /\ emitted'[f] = emitted[f] /\ sess'[f] = sess[f]
          /\ Unheard(e) \/ sess'[e] = sess[e]
          /\ sess'[e] \in Requests \cup {None}
      BY <1>0, <1>21 DEF ToolReturns, Unheard
    <2>2. /\ {pc[e], pc'[e]} \cap {"idle", "lost", "abandoned", "rejected"} = {}
          /\ \A k \in {"accepted", "completed", "error"} :
               k \in emitted'[e] <=> k \in emitted[e]
      BY <1>0, <1>21 DEF ToolReturns
    <2> QED BY <2>1, <2>2, DeliverySilent
  <1>22. ASSUME NEW e \in Requests, Remember(e) PROVE [D!Next]_(D!vars)
    <2>1. /\ UNCHANGED <<dbLog, req>>
          /\ \A f \in Requests \ {e} :
               pc'[f] = pc[f] /\ emitted'[f] = emitted[f] /\ sess'[f] = sess[f]
          /\ Unheard(e) \/ sess'[e] = sess[e]
          /\ sess'[e] \in Requests \cup {None}
      BY <1>0, <1>22 DEF Remember, Unheard
    <2>2. /\ {pc[e], pc'[e]} \cap {"idle", "lost", "abandoned", "rejected"} = {}
          /\ \A k \in {"accepted", "completed", "error"} :
               k \in emitted'[e] <=> k \in emitted[e]
      BY <1>0, <1>22 DEF Remember
    <2> QED BY <2>1, <2>2, DeliverySilent
  <1>23. ASSUME NEW e \in Requests, EmitError(e) PROVE [D!Next]_(D!vars)
    <2>1. /\ UNCHANGED <<dbLog, req, sess>>
          /\ \A f \in Requests \ {e} : pc'[f] = pc[f] /\ emitted'[f] = emitted[f]
      BY <1>0, <1>23 DEF EmitError
    <2>2. e \notin InStore("reply")
      BY <1>0, <1>23 DEF EmitError, InStore, Stored, OutcomeInv
    <2>3. DeliveryState(e) \in {"accepted", "answered"} /\ DeliveryState(e)' = "failed"
      BY <1>0, <1>a, <1>b, <1>s, <1>t, <1>23 DEF EmitError, IsMessage
    <2> QED BY <1>0, <2>1, <2>2, <2>3, DeliveryFrame
  <1>24. ASSUME NEW e \in Requests, Abandon(e) PROVE [D!Next]_(D!vars)
    <2>1. /\ UNCHANGED <<dbLog, req, sess>>
          /\ \A f \in Requests \ {e} : pc'[f] = pc[f] /\ emitted'[f] = emitted[f]
      BY <1>0, <1>24 DEF Abandon
    <2>2. \/ DeliveryState(e) = "new" /\ DeliveryState(e)' = "new"
          \/ DeliveryState(e) = "pending" /\ DeliveryState(e)' = "dropped"
      <3>1. ~Accepted(e) /\ emitted[e] \cap {"completed", "error"} = {}
        BY <1>a, <1>b, <1>24 DEF Abandon, Unheard
      <3>2. emitted' = emitted /\ pc'[e] = "abandoned" /\ req' = req
            /\ pc[e] \notin {"idle", "lost", "abandoned", "rejected"}
        BY <1>0, <1>24 DEF Abandon
      <3> QED BY <1>s, <1>t, <3>1, <3>2 DEF IsMessage
    <2> QED BY <1>0, <2>1, <2>2, DeliveryFrame
  <1>25. ASSUME NEW e \in Requests, StoreFails(e) PROVE [D!Next]_(D!vars)
    <2>a. CASE part[e] = "user"
      <3>1. /\ UNCHANGED <<dbLog, req, sess>>
            /\ \A f \in Requests \ {e} : pc'[f] = pc[f] /\ emitted'[f] = emitted[f]
        BY <1>0, <1>25, <2>a DEF StoreFails, Failure
      <3>2. /\ Unheard(e) /\ pc[e] \notin {"idle", "rejected"}
            /\ pc'[e] = "rejected" /\ emitted'[e] = emitted[e]
        BY <1>0, <1>25, <2>a DEF StoreFails, Unheard, Failure
      <3> QED BY <1>0, <1>a, <3>1, <3>2, Refused

    <2>b. CASE part[e] # "user"
      <3>1. /\ UNCHANGED <<dbLog, req>>
            /\ \A f \in Requests \ {e} :
                 pc'[f] = pc[f] /\ emitted'[f] = emitted[f] /\ sess'[f] = sess[f]
            /\ Unheard(e) \/ sess'[e] = sess[e]
            /\ sess'[e] \in Requests \cup {None}
        BY <1>0, <1>25, <2>b DEF StoreFails, Unheard, Failure
      <3>2. /\ {pc[e], pc'[e]} \cap {"idle", "lost", "abandoned", "rejected"} = {}
            /\ \A k \in {"accepted", "completed", "error"} :
                 k \in emitted'[e] <=> k \in emitted[e]
        BY <1>0, <1>25, <2>b DEF StoreFails, Failure
      <3> QED BY <3>1, <3>2, DeliverySilent

    <2> QED BY <2>a, <2>b
  <1>26. ASSUME NEW e \in Requests, NEW r \in Workload, Submit(e, r) PROVE [D!Next]_(D!vars)
    <2>1. /\ UNCHANGED <<dbLog, emitted, sess>> /\ Unheard(e)
          /\ \A f \in Requests \ {e} : pc'[f] = pc[f] /\ req'[f] = req[f]
      BY <1>0, <1>26 DEF Submit, Unheard
    <2>2. ~Accepted(e) /\ emitted[e] \cap {"completed", "error"} = {}
      BY <1>a, <1>b, <2>1, <1>26 DEF Submit
    <2>3. ~IsMessage(e) /\ pc'[e] \in {"create", "resolve"}
      BY <1>0, <1>26 DEF Submit, IsMessage
    <2>4. DeliveryState(e) = "new" /\ DeliveryState(e)' \in {"new", "pending"}
      BY <1>s, <1>t, <2>1, <2>2, <2>3
    <2> QED BY <1>0, <2>1, <2>4, DeliveryFrame
  <1>27. ASSUME Crash PROVE [D!Next]_(D!vars)
    <2> DEFINE E == {e \in Requests : DeliveryState(e)' = "dropped" /\ Live(e)}
               st == [f \in Requests |-> DeliveryState(f)]
    <2>1. /\ UNCHANGED <<req, emitted, sess, dbLog>>
          /\ \A e \in Requests : pc'[e] = IF Live(e) THEN "lost" ELSE pc[e]
      BY <1>27 DEF Crash
    <2>2. ASSUME NEW e \in Requests
          PROVE  /\ e \in E => DeliveryState(e) \in {"pending", "accepted"}
                 /\ e \notin E => DeliveryState(e)' = DeliveryState(e)
      <3>0. IsMessage(e)' <=> IsMessage(e)
        BY <2>1 DEF IsMessage, Live
      <3>1. CASE Live(e)
        <4>1. pc[e] \notin {"idle", "lost", "abandoned", "rejected"} /\ pc'[e] = "lost"
          BY <2>1, <3>1 DEF Live
        <4> QED BY <1>s, <1>t, <2>1, <3>0, <3>1, <4>1
      <3>2. CASE ~Live(e)
        <4>1. pc'[e] = pc[e]
          BY <2>1, <3>2
        <4> QED BY <1>s, <1>t, <2>1, <3>0, <3>2, <4>1
      <3> QED BY <3>1, <3>2
    <2>3. st' = [f \in Requests |-> IF f \in E THEN "dropped" ELSE st[f]]
      BY <2>2
    <2>4. UNCHANGED <<InStore("user"), InStore("reply")>>
      BY <2>1 DEF InStore, Stored
    <2>5. E \in SUBSET Requests /\ \A e \in E : st[e] \in {"pending", "accepted"}
      BY <2>2
    <2> HIDE DEF E, st
    <2>6. D!Drop(E)
      BY <2>3, <2>4, <2>5 DEF st, D!Drop
    <2> QED BY <2>5, <2>6 DEF D!Next
  <1>28. ASSUME Restart PROVE [D!Next]_(D!vars)
    <2>1. UNCHANGED <<pc, req, emitted, sess, dbLog>>
      BY <1>28 DEF Restart
    <2>2. /\ \A f \in Requests : DeliveryState(f)' = DeliveryState(f)
          /\ \A p : InStore(p)' = InStore(p)
      BY <2>1 DEF DeliveryState, IsMessage, Accepted, InStore, Stored
    <2>3. UNCHANGED D!vars
      BY <2>2 DEF D!vars
    <2> QED BY <2>3
  <1>29. ASSUME UNCHANGED vars PROVE [D!Next]_(D!vars)
    <2>1. UNCHANGED <<pc, req, emitted, sess, dbLog>>
      BY <1>29 DEF vars
    <2>2. /\ \A f \in Requests : DeliveryState(f)' = DeliveryState(f)
          /\ \A p : InStore(p)' = InStore(p)
      BY <2>1 DEF DeliveryState, IsMessage, Accepted, InStore, Stored
    <2>3. UNCHANGED D!vars
      BY <2>2 DEF D!vars
    <2> QED BY <2>3
  <1>30. ASSUME NEW e \in Requests, Announce(e) PROVE [D!Next]_(D!vars)
    <2>1. /\ UNCHANGED <<dbLog, req, sess>>
          /\ \A f \in Requests \ {e} : pc'[f] = pc[f] /\ emitted'[f] = emitted[f]
      BY <1>0, <1>30 DEF Announce
    <2>2. DeliveryState(e) = "accepted" /\ DeliveryState(e)' = "answered"
      BY <1>0, <1>a, <1>b, <1>s, <1>t, <1>30 DEF Announce, IsMessage
    <2> QED BY <1>0, <2>1, <2>2, DeliveryFrame
  <1> QED
    BY <1>1, <1>2, <1>3, <1>4, <1>5, <1>6, <1>7, <1>8, <1>9, <1>10, <1>11,
       <1>12, <1>13, <1>14, <1>15, <1>16, <1>17, <1>18, <1>19, <1>20, <1>21,
       <1>22, <1>23, <1>24, <1>25, <1>26, <1>27, <1>28, <1>29, <1>30
       DEF Next, TaskStep, ResolveStep, AppendStep, TurnStep

\* What clients and readers of the store see of the runtime is a behaviour of Delivery.
THEOREM DeliveryImplemented == Spec => ImplementsDelivery
  <1>1. Init => D!Init
    BY DeliveryInit
  <1>2. IndInv /\ TurnInv /\ [Next]_vars => [D!Next]_(D!vars)
    BY DeliveryStep
  <1> QED BY <1>1, <1>2, TurnInvariance, PTL DEF Spec, ImplementsDelivery, D!Spec

-----------------------------------------------------------------------------
(* Clients that wait for their answers *)

\* A step of a live call that binds nothing keeps the bindings of the other calls.
LEMMA BoundFrame ==
  ASSUME BoundInv, NEW e \in Requests, Live(e), up' = up,
         UNCHANGED <<req, bindings, dbBindings>>,
         \A f \in Requests \ {e} :
           pc'[f] = pc[f] /\ sess'[f] = sess[f] /\ emitted'[f] = emitted[f],
         req[e].conv # None /\ req[e].kind # "create" => Bound(e)'
  PROVE  BoundInv'
  <1>1. \A f \in Requests : pc'[f] # "idle" => pc[f] # "idle"
    BY DEF Live, SubmitPc, AppendPc, TurnPc
  <1>2. \A f \in Requests : Live(f)' => Live(f)
    BY DEF Live
  <1>3. \A f \in Requests : pc'[f] # "idle" /\ req[f].conv # None /\ req[f].kind # "create"
                              => Bound(f)'
    <2> SUFFICES ASSUME NEW f \in Requests \ {e}, pc[f] # "idle",
                        req[f].conv # None, req[f].kind # "create"
                 PROVE  Bound(f)'
      OBVIOUS
    <2>1. Bound(f)
      BY DEF BoundInv
    <2> QED BY <2>1 DEF Bound, Accepted
  <1> QED BY <1>1, <1>2, <1>3 DEF BoundInv

\* No conversation is bound.
LEMMA BoundInit == Init => BoundInv
  BY RuntimeAssumption DEF Init, BoundInv, Live, SubmitPc, AppendPc, TurnPc

\* A client that waits for its answers finds its conversation where it left it.
LEMMA BoundStep ==
  ASSUME SerialClients, NoRebinding
  PROVE  IndInv /\ KindInv /\ BoundInv /\ [Next]_vars => BoundInv'
  <1> SUFFICES ASSUME IndInv, KindInv, BoundInv, [Next]_vars PROVE BoundInv'
    OBVIOUS
  <1> USE RuntimeAssumption
      DEF SubmitPc, AppendPc, TurnPc, FinalPc, IndInv,
          memVars, dbVars, dateVars, turnVars, envVars, Goto, Date, Emit
  <1>0. /\ pc \in [Requests -> {"idle"} \cup SubmitPc \cup AppendPc
                                   \cup TurnPc \cup FinalPc]
        /\ req \in [Requests -> RequestContent \cup {None}]
        /\ sess \in [Requests -> Requests \cup {None}]
        /\ emitted \in [Requests -> SUBSET EventKind]
        /\ bindings \in [Conversations -> Requests \cup {None}]
        /\ dbBindings \in [Conversations -> Requests \cup {None}]
        /\ \A e \in Requests : pc[e] \in {"idle"} \cup SubmitPc => part[e] = "user"
    BY DEF TypeInv, TypeOK, PhaseInv
  <1>c. \A e \in Requests :
          pc[e] # "idle" /\ req[e].conv # None /\ req[e].kind # "create" => Bound(e)
    BY DEF BoundInv
  <1>d. \A e \in Requests : pc[e] # "idle" /\ req[e].kind = "create" =>
          pc[e] \in {"create", "save_session"} \cup FinalPc
    BY DEF KindInv
  <1>1. ASSUME NEW e \in Requests, ResolveNamed(e) PROVE BoundInv'
    <2>1. req[e].conv = None
      BY <1>1 DEF ResolveNamed, BoundInv, NoRebinding
    <2>2. /\ UNCHANGED <<req, bindings, dbBindings>> /\ up' = up
          /\ \A f \in Requests \ {e} :
               pc'[f] = pc[f] /\ sess'[f] = sess[f] /\ emitted'[f] = emitted[f]
          /\ Live(e)
      BY <1>0, <1>1 DEF ResolveNamed, Live
    <2> QED BY <2>1, <2>2, BoundFrame
  <1>2. ASSUME NEW e \in Requests, ReadBinding(e) PROVE BoundInv'
    <2>1. Live(e) /\ up
      BY <1>0, <1>2 DEF ReadBinding, Live, MapInv
    <2>2. req[e].conv \in Conversations
      BY <1>0, <1>2 DEF ReadBinding, RequestContent, TypeInv, TypeOK
    <2>3. dbBindings[req[e].conv] # None => bindings[req[e].conv] = dbBindings[req[e].conv]
      BY <2>1, <2>2 DEF BoundInv
    <2>4. ~Accepted(e)
      BY <1>2 DEF ReadBinding, PhaseInv, Unheard
    <2>5. Bound(e)'
      BY <1>0, <2>3, <2>4, <1>2 DEF ReadBinding, Bound, Accepted
    <2>6. /\ UNCHANGED <<req, bindings, dbBindings>> /\ up' = up
          /\ \A f \in Requests \ {e} :
               pc'[f] = pc[f] /\ sess'[f] = sess[f] /\ emitted'[f] = emitted[f]
      BY <1>0, <1>2 DEF ReadBinding
    <2> QED BY <2>1, <2>5, <2>6, BoundFrame
  <1>3. ASSUME NEW e \in Requests, LookupSession(e) PROVE BoundInv'
    <2>1. sess[e] \in sessions
      BY <1>3 DEF LookupSession, MapInv, KnowsSession
    <2>2. /\ UNCHANGED <<req, bindings, dbBindings, sess>> /\ up' = up
          /\ \A f \in Requests \ {e} : pc'[f] = pc[f] /\ emitted'[f] = emitted[f]
          /\ Live(e) /\ pc[e] = "lookup" /\ pc'[e] = "rebind" /\ emitted'[e] = emitted[e]
      BY <1>0, <1>3, <2>1 DEF LookupSession, Live
    <2>3. req[e].conv # None /\ req[e].kind # "create" => Bound(e)'
      BY <1>c, <2>2 DEF Bound, Accepted
    <2> QED BY <2>2, <2>3, BoundFrame
  <1>4. ASSUME NEW e \in Requests, ResolveAnonymous(e) PROVE BoundInv'
    <2>1. /\ UNCHANGED <<req, bindings, dbBindings>> /\ up' = up
          /\ \A f \in Requests \ {e} :
               pc'[f] = pc[f] /\ sess'[f] = sess[f] /\ emitted'[f] = emitted[f]
          /\ Live(e)
      BY <1>0, <1>4 DEF ResolveAnonymous, Live
    <2>2. req[e].conv # None /\ req[e].kind # "create" => Bound(e)'
      BY <1>0, <1>c, <1>4 DEF ResolveAnonymous, Bound, Accepted
    <2> QED BY <2>1, <2>2, BoundFrame
  <1>5. ASSUME NEW e \in Requests, InsertSession(e) PROVE BoundInv'
    <2>1. /\ UNCHANGED <<req, bindings, dbBindings, emitted>> /\ up' = up
          /\ \A f \in Requests \ {e} : pc'[f] = pc[f] /\ sess'[f] = sess[f]
          /\ Live(e) /\ pc[e] = "create" /\ pc'[e] = "save_session"
      BY <1>0, <1>5 DEF InsertSession, Live
    <2>2. ~Accepted(e)
      BY <2>1 DEF PhaseInv, Unheard
    <2>3. req[e].conv # None /\ req[e].kind # "create" => Bound(e)'
      BY <1>c, <2>1, <2>2 DEF Bound, Accepted
    <2> QED BY <2>1, <2>3, BoundFrame
  <1>6. ASSUME NEW e \in Requests, SaveSession(e) PROVE BoundInv'
    <2>1. /\ UNCHANGED <<req, bindings, dbBindings>> /\ up' = up
          /\ \A f \in Requests \ {e} :
               pc'[f] = pc[f] /\ sess'[f] = sess[f] /\ emitted'[f] = emitted[f]
          /\ Live(e)
      BY <1>0, <1>6 DEF SaveSession, Live
    <2>2. req[e].conv # None /\ req[e].kind # "create" => Bound(e)'
      BY <1>0, <1>c, <1>6 DEF SaveSession, Bound, Accepted, AfterCreate
    <2> QED BY <2>1, <2>2, BoundFrame
  <1>7. ASSUME NEW e \in Requests, SetBinding(e) PROVE BoundInv'
    <2>1. /\ UNCHANGED <<req, dbBindings, sess, emitted>> /\ up' = up
          /\ \A f \in Requests \ {e} : pc'[f] = pc[f]
          /\ bindings' = [bindings EXCEPT ![req[e].conv] = sess[e]]
          /\ pc[e] \in {"bind", "rebind"}
          /\ pc'[e] = IF pc[e] = "bind" THEN "save_bind" ELSE "save_rebind"
      BY <1>0, <1>7 DEF SetBinding
    <2>2. /\ \A f \in Requests : Live(f)' <=> Live(f)
          /\ \A f \in Requests : pc'[f] # "idle" => pc[f] # "idle"
          /\ Live(e) /\ req[e].kind # "create"
      BY <1>0, <1>d, <2>1 DEF Live
    <2>3. req[e].conv # None => Bound(e) /\ req[e].conv \in Conversations
      BY <1>0, <1>c, <2>1, <2>2 DEF RequestContent, TypeInv, TypeOK
    <2>4. req[e].conv # None => Bound(e)'
      BY <1>0, <2>1, <2>3 DEF Bound, Accepted
    <2>5. ASSUME NEW f \in Requests \ {e}, pc[f] # "idle",
                 req[f].conv # None, req[f].kind # "create"
          PROVE  Bound(f)'
      <3>1. Bound(f)
        BY <1>c, <2>5
      <3>2. CASE req[f].conv = req[e].conv
        <4>1. ~Live(f)
          BY <2>2, <3>2 DEF BoundInv
        <4> QED BY <2>1, <3>1, <4>1 DEF Bound, Accepted, Live
      <3>3. CASE req[f].conv # req[e].conv
        <4>1. bindings'[req[f].conv] = bindings[req[f].conv]
          <5>1. req[f].conv \in Conversations
            BY <2>5 DEF RequestContent, TypeInv, TypeOK
          <5> QED BY <1>0, <2>1, <3>3, <5>1
        <4> QED BY <2>1, <3>1, <4>1 DEF Bound, Accepted
      <3> QED BY <3>2, <3>3
    <2>6. ASSUME NEW c \in Conversations, up, dbBindings[c] # None
          PROVE  bindings'[c] = dbBindings[c]
      <3>1. bindings[c] = dbBindings[c]
        BY <2>6 DEF BoundInv
      <3>2. CASE c = req[e].conv
        <4>1. Bound(e) /\ bindings'[c] = sess[e]
          BY <1>0, <2>1, <2>3, <3>2, RuntimeAssumption
        <4> QED BY <2>1, <2>6, <3>2, <4>1 DEF Bound
      <3> QED BY <1>0, <2>1, <3>1, <3>2
    <2> HIDE DEF SubmitPc, AppendPc, TurnPc
    <2> QED BY <2>1, <2>2, <2>4, <2>5, <2>6 DEF BoundInv
  <1>8. ASSUME NEW e \in Requests, SaveBinding(e) PROVE BoundInv'
    <2>1. /\ UNCHANGED <<req, bindings, sess, emitted>> /\ up' = up
          /\ \A f \in Requests \ {e} : pc'[f] = pc[f]
          /\ dbBindings' = [dbBindings EXCEPT ![req[e].conv] = sess[e]]
          /\ pc[e] \in {"save_bind", "save_rebind"}
          /\ pc'[e] = IF pc[e] = "save_bind" THEN "rebind" ELSE "append"
      BY <1>0, <1>8 DEF SaveBinding
    <2>2. /\ \A f \in Requests : Live(f)' <=> Live(f)
          /\ \A f \in Requests : pc'[f] # "idle" => pc[f] # "idle"
          /\ Live(e) /\ req[e].kind # "create"
      BY <1>0, <1>d, <2>1 DEF Live
    <2>3. req[e].conv # None => /\ Bound(e) /\ req[e].conv \in Conversations
                                /\ dbBindings'[req[e].conv] = sess[e]
      BY <1>0, <1>c, <2>1, <2>2 DEF RequestContent, TypeInv, TypeOK
    <2>4. req[e].conv # None => Bound(e)'
      BY <1>0, <2>1, <2>3 DEF Bound, Accepted
    <2>5. ASSUME NEW f \in Requests \ {e}, pc[f] # "idle",
                 req[f].conv # None, req[f].kind # "create"
          PROVE  Bound(f)'
      <3>1. Bound(f)
        BY <1>c, <2>5
      <3>2. CASE req[f].conv = req[e].conv
        <4>1. ~Live(f)
          BY <2>2, <3>2 DEF BoundInv
        <4>2. ASSUME Accepted(f) PROVE dbBindings[req[f].conv] = sess[f] /\ sess[f] # None
          BY <3>1, <4>2, RuntimeAssumption DEF Bound, PhaseInv
        <4>3. Accepted(f) => sess[e] = sess[f]
          <5>1. dbBindings[req[e].conv] \in {None, sess[e]}
            BY <2>1, <2>3, <2>5, <3>2 DEF Bound
          <5> QED BY <3>2, <4>2, <5>1
        <4> QED BY <2>1, <2>3, <3>1, <3>2, <4>1, <4>3 DEF Bound, Accepted, Live
      <3>3. CASE req[f].conv # req[e].conv
        <4>1. dbBindings'[req[f].conv] = dbBindings[req[f].conv]
          <5>1. req[f].conv \in Conversations
            BY <2>5 DEF RequestContent, TypeInv, TypeOK
          <5> QED BY <1>0, <2>1, <3>3, <5>1
        <4> QED BY <2>1, <3>1, <4>1 DEF Bound, Accepted
      <3> QED BY <3>2, <3>3
    <2>6. ASSUME NEW c \in Conversations, up, dbBindings'[c] # None
          PROVE  bindings[c] = dbBindings'[c]
      <3>1. CASE c = req[e].conv
        <4>1. Bound(e) /\ dbBindings'[c] = sess[e]
          BY <2>3, <3>1, RuntimeAssumption
        <4> QED BY <2>1, <3>1, <4>1 DEF Bound
      <3>2. CASE c # req[e].conv
        BY <1>0, <2>1, <2>6, <3>2 DEF BoundInv
      <3> QED BY <3>1, <3>2
    <2> HIDE DEF SubmitPc, AppendPc, TurnPc
    <2> QED BY <2>1, <2>2, <2>4, <2>5, <2>6 DEF BoundInv
  <1>9. ASSUME NEW e \in Requests, ForeignKeyFails(e) PROVE BoundInv'
    <2>1. /\ UNCHANGED <<req, bindings, dbBindings>> /\ up' = up
          /\ \A f \in Requests \ {e} :
               pc'[f] = pc[f] /\ sess'[f] = sess[f] /\ emitted'[f] = emitted[f]
          /\ Live(e)
      BY <1>0, <1>9 DEF ForeignKeyFails, Live
    <2>2. req[e].conv # None /\ req[e].kind # "create" => Bound(e)'
      BY <1>0, <1>c, <1>9 DEF ForeignKeyFails, Bound, Accepted
    <2> QED BY <2>1, <2>2, BoundFrame
  <1>10. ASSUME NEW e \in Requests, PushMessage(e) PROVE BoundInv'
    <2>1. /\ UNCHANGED <<req, bindings, dbBindings, sess, emitted>> /\ up' = up
      BY <1>10 DEF PushMessage
    <2>2. /\ \A f \in Requests \ {e} : pc'[f] = pc[f]
          /\ pc[e] = "append" /\ pc'[e] = "save_summary"
      BY <1>0, <1>10, PushMessageEffect
    <2>3. req[e].conv # None /\ req[e].kind # "create" => Bound(e)'
      BY <1>c, <2>1, <2>2 DEF Bound, Accepted
    <2> QED BY <2>1, <2>2, <2>3, BoundFrame DEF Live
  <1>11. ASSUME NEW e \in Requests, SaveSummary(e) PROVE BoundInv'
    <2>1. /\ UNCHANGED <<req, bindings, dbBindings>> /\ up' = up
          /\ \A f \in Requests \ {e} :
               pc'[f] = pc[f] /\ sess'[f] = sess[f] /\ emitted'[f] = emitted[f]
          /\ Live(e)
      BY <1>0, <1>11 DEF SaveSummary, Live
    <2>2. req[e].conv # None /\ req[e].kind # "create" => Bound(e)'
      BY <1>0, <1>c, <1>11 DEF SaveSummary, Bound, Accepted
    <2> QED BY <2>1, <2>2, BoundFrame
  <1>12. ASSUME NEW e \in Requests, SaveMessage(e) PROVE BoundInv'
    <2>1. /\ UNCHANGED <<req, bindings, dbBindings, sess, emitted>> /\ up' = up
          /\ pc[e] = "save_message"
      BY <1>12 DEF SaveMessage
    <2>2. /\ \A f \in Requests \ {e} : pc'[f] = pc[f]
          /\ pc'[e] \in {"accept", "tool", "announce", "prompt", "failed", "remember"}
      BY <1>0, <1>12, SaveMessageEffect
    <2>3. req[e].conv # None /\ req[e].kind # "create" => Bound(e)'
      BY <1>c, <2>1, <2>2 DEF Bound, Accepted
    <2> QED BY <2>1, <2>2, <2>3, BoundFrame DEF Live
  <1>13. ASSUME NEW e \in Requests, Accept(e) PROVE BoundInv'
    <2>1. /\ UNCHANGED <<req, bindings, dbBindings>> /\ up' = up
          /\ \A f \in Requests \ {e} :
               pc'[f] = pc[f] /\ sess'[f] = sess[f] /\ emitted'[f] = emitted[f]
          /\ Live(e)
      BY <1>0, <1>13 DEF Accept, Live
    <2>2. req[e].conv # None /\ req[e].kind # "create" => Bound(e)'
      BY <1>0, <1>c, <1>13 DEF Accept, Bound, Accepted
    <2> QED BY <2>1, <2>2, BoundFrame
  <1>14. ASSUME NEW e \in Requests, BuildPrompt(e) PROVE BoundInv'
    <2>1. /\ UNCHANGED <<req, bindings, dbBindings>> /\ up' = up
          /\ \A f \in Requests \ {e} :
               pc'[f] = pc[f] /\ sess'[f] = sess[f] /\ emitted'[f] = emitted[f]
          /\ Live(e)
      BY <1>0, <1>14 DEF BuildPrompt, Live
    <2>2. req[e].conv # None /\ req[e].kind # "create" => Bound(e)'
      BY <1>0, <1>c, <1>14 DEF BuildPrompt, Bound, Accepted
    <2> QED BY <2>1, <2>2, BoundFrame
  <1>15. ASSUME NEW e \in Requests, ProviderFails(e) PROVE BoundInv'
    <2>1. /\ UNCHANGED <<req, bindings, dbBindings>> /\ up' = up
          /\ \A f \in Requests \ {e} :
               pc'[f] = pc[f] /\ sess'[f] = sess[f] /\ emitted'[f] = emitted[f]
          /\ Live(e)
      BY <1>0, <1>15 DEF ProviderFails, Live
    <2>2. req[e].conv # None /\ req[e].kind # "create" => Bound(e)'
      BY <1>0, <1>c, <1>15 DEF ProviderFails, Bound, Accepted
    <2> QED BY <2>1, <2>2, BoundFrame
  <1>16. ASSUME NEW e \in Requests, ProviderCallsTool(e) PROVE BoundInv'
    <2>1. /\ UNCHANGED <<req, bindings, dbBindings>> /\ up' = up
          /\ \A f \in Requests \ {e} :
               pc'[f] = pc[f] /\ sess'[f] = sess[f] /\ emitted'[f] = emitted[f]
          /\ Live(e)
      BY <1>0, <1>16 DEF ProviderCallsTool, Live
    <2>2. req[e].conv # None /\ req[e].kind # "create" => Bound(e)'
      BY <1>0, <1>c, <1>16 DEF ProviderCallsTool, Bound, Accepted
    <2> QED BY <2>1, <2>2, BoundFrame
  <1>17. ASSUME NEW e \in Requests, ProviderAnswers(e) PROVE BoundInv'
    <2>1. /\ UNCHANGED <<req, bindings, dbBindings>> /\ up' = up
          /\ \A f \in Requests \ {e} :
               pc'[f] = pc[f] /\ sess'[f] = sess[f] /\ emitted'[f] = emitted[f]
          /\ Live(e)
      BY <1>0, <1>17 DEF ProviderAnswers, Live
    <2>2. req[e].conv # None /\ req[e].kind # "create" => Bound(e)'
      BY <1>0, <1>c, <1>17 DEF ProviderAnswers, Bound, Accepted
    <2> QED BY <2>1, <2>2, BoundFrame
  <1>18. ASSUME NEW e \in Requests, RefuseTool(e) PROVE BoundInv'
    <2>1. /\ UNCHANGED <<req, bindings, dbBindings>> /\ up' = up
          /\ \A f \in Requests \ {e} :
               pc'[f] = pc[f] /\ sess'[f] = sess[f] /\ emitted'[f] = emitted[f]
          /\ Live(e)
      BY <1>0, <1>18 DEF RefuseTool, Live
    <2>2. req[e].conv # None /\ req[e].kind # "create" => Bound(e)'
      BY <1>0, <1>c, <1>18 DEF RefuseTool, Bound, Accepted
    <2> QED BY <2>1, <2>2, BoundFrame
  <1>19. ASSUME NEW e \in Requests, StartTool(e) PROVE BoundInv'
    <2>1. /\ UNCHANGED <<req, bindings, dbBindings>> /\ up' = up
          /\ \A f \in Requests \ {e} :
               pc'[f] = pc[f] /\ sess'[f] = sess[f] /\ emitted'[f] = emitted[f]
          /\ Live(e)
      BY <1>0, <1>19 DEF StartTool, Live
    <2>2. req[e].conv # None /\ req[e].kind # "create" => Bound(e)'
      BY <1>0, <1>c, <1>19 DEF StartTool, Bound, Accepted
    <2> QED BY <2>1, <2>2, BoundFrame
  <1>20. ASSUME NEW e \in Requests, ToolFails(e) PROVE BoundInv'
    <2>1. /\ UNCHANGED <<req, bindings, dbBindings>> /\ up' = up
          /\ \A f \in Requests \ {e} :
               pc'[f] = pc[f] /\ sess'[f] = sess[f] /\ emitted'[f] = emitted[f]
          /\ Live(e)
      BY <1>0, <1>20 DEF ToolFails, Live
    <2>2. req[e].conv # None /\ req[e].kind # "create" => Bound(e)'
      BY <1>0, <1>c, <1>20 DEF ToolFails, Bound, Accepted
    <2> QED BY <2>1, <2>2, BoundFrame
  <1>21. ASSUME NEW e \in Requests, ToolReturns(e) PROVE BoundInv'
    <2>1. /\ UNCHANGED <<req, bindings, dbBindings>> /\ up' = up
          /\ \A f \in Requests \ {e} :
               pc'[f] = pc[f] /\ sess'[f] = sess[f] /\ emitted'[f] = emitted[f]
          /\ Live(e)
      BY <1>0, <1>21 DEF ToolReturns, Live
    <2>2. req[e].conv # None /\ req[e].kind # "create" => Bound(e)'
      BY <1>0, <1>c, <1>21 DEF ToolReturns, Bound, Accepted
    <2> QED BY <2>1, <2>2, BoundFrame
  <1>22. ASSUME NEW e \in Requests, Remember(e) PROVE BoundInv'
    <2>1. /\ UNCHANGED <<req, bindings, dbBindings>> /\ up' = up
          /\ \A f \in Requests \ {e} :
               pc'[f] = pc[f] /\ sess'[f] = sess[f] /\ emitted'[f] = emitted[f]
          /\ Live(e)
      BY <1>0, <1>22 DEF Remember, Live
    <2>2. req[e].conv # None /\ req[e].kind # "create" => Bound(e)'
      BY <1>0, <1>c, <1>22 DEF Remember, Bound, Accepted
    <2> QED BY <2>1, <2>2, BoundFrame
  <1>23. ASSUME NEW e \in Requests, EmitError(e) PROVE BoundInv'
    <2>1. /\ UNCHANGED <<req, bindings, dbBindings>> /\ up' = up
          /\ \A f \in Requests \ {e} :
               pc'[f] = pc[f] /\ sess'[f] = sess[f] /\ emitted'[f] = emitted[f]
          /\ Live(e)
      BY <1>0, <1>23 DEF EmitError, Live
    <2>2. req[e].conv # None /\ req[e].kind # "create" => Bound(e)'
      BY <1>0, <1>c, <1>23 DEF EmitError, Bound, Accepted
    <2> QED BY <2>1, <2>2, BoundFrame
  <1>24. ASSUME NEW e \in Requests, Abandon(e) PROVE BoundInv'
    <2>1. /\ UNCHANGED <<req, bindings, dbBindings>> /\ up' = up
          /\ \A f \in Requests \ {e} :
               pc'[f] = pc[f] /\ sess'[f] = sess[f] /\ emitted'[f] = emitted[f]
          /\ Live(e)
      BY <1>0, <1>24 DEF Abandon, Live
    <2>2. req[e].conv # None /\ req[e].kind # "create" => Bound(e)'
      BY <1>0, <1>c, <1>24 DEF Abandon, Bound, Accepted
    <2> QED BY <2>1, <2>2, BoundFrame
  <1>25. ASSUME NEW e \in Requests, StoreFails(e) PROVE BoundInv'
    <2>1. /\ UNCHANGED <<req, bindings, dbBindings>> /\ up' = up
          /\ \A f \in Requests \ {e} :
               pc'[f] = pc[f] /\ sess'[f] = sess[f] /\ emitted'[f] = emitted[f]
          /\ Live(e)
      BY <1>0, <1>25 DEF StoreFails, Live
    <2>2. req[e].conv # None /\ req[e].kind # "create" => Bound(e)'
      BY <1>0, <1>c, <1>25 DEF StoreFails, Bound, Accepted, Failure
    <2> QED BY <2>1, <2>2, BoundFrame
  <1>26. ASSUME NEW e \in Requests, NEW r \in Workload, Submit(e, r) PROVE BoundInv'
    <2>1. /\ pc'[e] # "idle" /\ pc'[e] \in {"create", "resolve"}
          /\ r.kind # "create" => pc'[e] = "resolve"
          /\ req'[e] = r /\ pc[e] = "idle"
          /\ \A f \in Requests \ {e} : pc'[f] = pc[f] /\ req'[f] = req[f]
          /\ UNCHANGED <<up, bindings, dbBindings, sess, emitted>>
          /\ \A f \in Requests : Live(f) => req[f].conv # r.conv
      BY <1>0, <1>26 DEF Submit
    <2>2. ~Accepted(e)
      BY <2>1 DEF PhaseInv, Unheard
    <2>3. r.kind # "create" => Bound(e)'
      BY <2>1, <2>2 DEF Bound, Accepted
    <2>4. \A f \in Requests \ {e} : (Live(f)' <=> Live(f)) /\ (Bound(f)' <=> Bound(f))
      BY <2>1 DEF Live, Bound, Accepted
    <2>5. \A f \in Requests \ {e} :
            pc'[f] # "idle" => /\ req'[f] \in Workload
                               /\ req'[f].conv # None /\ req'[f].kind # "create" => Bound(f)'
      BY <2>1, <2>4 DEF BoundInv
    <2>6. \A f, g \in Requests :
            Live(f)' /\ Live(g)' /\ req'[f].conv = req'[g].conv => f = g
      BY <2>1, <2>4 DEF BoundInv
    <2> HIDE DEF SubmitPc, AppendPc, TurnPc
    <2> QED BY <2>1, <2>3, <2>5, <2>6 DEF BoundInv
  <1>27. ASSUME Crash PROVE BoundInv'
    <2>1. /\ UNCHANGED <<req, dbBindings, sess, emitted>> /\ up' = FALSE
          /\ \A f \in Requests : pc'[f] = IF Live(f) THEN "lost" ELSE pc[f]
      BY <1>27 DEF Crash
    <2>2. \A f \in Requests : ~Live(f)' /\ (pc'[f] # "idle" => pc[f] # "idle")
      BY <2>1 DEF Live
    <2>3. ASSUME NEW f \in Requests, Bound(f) PROVE Bound(f)'
      BY <2>1, <2>2, <2>3 DEF Bound, Accepted, Live
    <2> HIDE DEF SubmitPc, AppendPc, TurnPc
    <2> QED BY <2>1, <2>2, <2>3 DEF BoundInv
  <1>28. ASSUME Restart PROVE BoundInv'
    <2>1. /\ UNCHANGED <<req, dbBindings, sess, emitted, pc>>
          /\ bindings' = dbBindings
          /\ \A f \in Requests : ~Live(f)
      BY <1>28 DEF Restart, MapInv
    <2>2. ASSUME NEW f \in Requests, Bound(f) PROVE Bound(f)'
      BY <2>1, <2>2 DEF Bound, Accepted, Live
    <2>3. \A f \in Requests : ~Live(f)'
      BY <2>1 DEF Live
    <2> HIDE DEF SubmitPc, AppendPc, TurnPc
    <2> QED BY <2>1, <2>2, <2>3 DEF BoundInv
  <1>29. ASSUME UNCHANGED vars PROVE BoundInv'
    <2>1. UNCHANGED <<up, req, bindings, dbBindings, sess, emitted, pc>>
      BY <1>29 DEF vars
    <2> QED BY <2>1 DEF BoundInv, Bound, Live, Accepted
  <1>30. ASSUME NEW e \in Requests, Announce(e) PROVE BoundInv'
    <2>1. /\ UNCHANGED <<req, bindings, dbBindings>> /\ up' = up
          /\ \A f \in Requests \ {e} :
               pc'[f] = pc[f] /\ sess'[f] = sess[f] /\ emitted'[f] = emitted[f]
          /\ Live(e)
      BY <1>0, <1>30 DEF Announce, Live
    <2>2. req[e].conv # None /\ req[e].kind # "create" => Bound(e)'
      BY <1>0, <1>c, <1>30 DEF Announce, Bound, Accepted
    <2> QED BY <2>1, <2>2, BoundFrame
  <1> QED
    BY <1>1, <1>2, <1>3, <1>4, <1>5, <1>6, <1>7, <1>8, <1>9, <1>10, <1>11,
       <1>12, <1>13, <1>14, <1>15, <1>16, <1>17, <1>18, <1>19, <1>20, <1>21,
       <1>22, <1>23, <1>24, <1>25, <1>26, <1>27, <1>28, <1>29, <1>30
       DEF Next, TaskStep, ResolveStep, AppendStep, TurnStep
\* A step that touches no history and no binding keeps calls to sessions of their own.
LEMMA OwnFrame ==
  ASSUME TypeInv, OwnInv, NEW e \in Requests,
         UNCHANGED <<history, bindings, dbBindings, req>>,
         \A f \in Requests \ {e} :
           /\ pc'[f] = pc[f] /\ part'[f] = part[f]
           /\ sess'[f] = sess[f] /\ prompted'[f] = prompted[f],
         pc[e] # "idle", pc'[e] # "idle",
         pc'[e] \in KnowsSession =>
           \/ pc[e] \in KnowsSession /\ sess'[e] = sess[e]
           \/ sess'[e] \in Requests /\ CreatedFor(sess'[e], req[e].conv)
              /\ (req[e].conv = None => sess'[e] = e),
         Said(e)' => Said(e) /\ sess'[e] = sess[e],
         prompted'[e] \in {None, e}
  PROVE  OwnInv'
  <1> DEFINE Made(s, c) == pc'[s] # "idle" /\ req'[s].conv = c
  <1>1. \A s \in Requests : \A c : CreatedFor(s, c) => Made(s, c)
    BY DEF CreatedFor
  <1>2. ASSUME NEW c \in Conversations
        PROVE  /\ bindings[c] # None => Made(bindings[c], c)
               /\ dbBindings[c] # None => Made(dbBindings[c], c)
    <2>1. bindings[c] \in Requests \cup {None} /\ dbBindings[c] \in Requests \cup {None}
      BY DEF TypeInv, TypeOK
    <2> QED BY <1>1, <2>1 DEF OwnInv
  <1>3. ASSUME NEW f \in Requests, pc'[f] \in KnowsSession
        PROVE  Made(sess'[f], req[f].conv) /\ (req[f].conv = None => sess'[f] = f)
    <2>1. CASE pc[f] \in KnowsSession /\ sess'[f] = sess[f]
      <3>1. sess[f] \in Requests /\ CreatedFor(sess[f], req[f].conv)
        BY <2>1 DEF OwnInv, TypeInv
      <3> QED BY <2>1, <3>1 DEF OwnInv, CreatedFor
    <2>2. CASE f = e /\ ~(pc[f] \in KnowsSession /\ sess'[f] = sess[f])
      BY <1>3, <2>2 DEF CreatedFor
    <2> QED BY <1>3, <2>1, <2>2
  <1>4. ASSUME NEW f \in Requests, Said(f)'
        PROVE  LastUser(history[sess'[f]], f)
    <2>1. Said(f) /\ sess'[f] = sess[f]
      BY <1>4 DEF Said, InTurn
    <2> QED BY <2>1 DEF OwnInv
  <1>5. OwnMessagePrompted'
    BY DEF OwnInv, OwnMessagePrompted
  <1> QED BY <1>2, <1>3, <1>4, <1>5 DEF OwnInv, CreatedFor

\* The last user message of a session is a task's own, or it was not.
LEMMA LastUserUnique ==
  ASSUME NEW log \in Seq(Message), NEW e, LastUser(log, e), NEW i \in DOMAIN log,
         log[i].part = "user",
         \A j \in DOMAIN log : j > i => log[j].part # "user"
  PROVE  log[i].env = e
  <1>1. PICK l \in DOMAIN log :
          /\ log[l].part = "user" /\ log[l].env = e
          /\ \A j \in DOMAIN log : j > l => log[j].part # "user"
    BY DEF LastUser
  <1>2. i = l
    BY <1>1
  <1> QED BY <1>1, <1>2

\* Appending a message of e itself leaves or makes the last user message its own.
LEMMA LastUserAppend ==
  ASSUME NEW log \in Seq(Message), NEW m \in Message, NEW e, m.env = e,
         m.part = "user" \/ LastUser(log, e)
  PROVE  LastUser(Append(log, m), e)
  <1> DEFINE new == Append(log, m)
  <1>1. /\ Len(log) \in Nat /\ DOMAIN log = 1..Len(log)
        /\ DOMAIN new = 1..(Len(log) + 1)
        /\ \A l \in 1..Len(log) : new[l] = log[l]
        /\ new[Len(log) + 1] = m
    OBVIOUS
  <1> HIDE DEF new
  <1>2. CASE m.part = "user"
    <2>1. /\ Len(log) + 1 \in DOMAIN new
          /\ \A j \in DOMAIN new : ~(j > Len(log) + 1)
      BY <1>1
    <2> QED BY <1>1, <1>2, <2>1 DEF LastUser, new
  <1>3. CASE m.part # "user"
    <2>1. PICK l \in 1..Len(log) :
            /\ log[l].part = "user" /\ log[l].env = e
            /\ \A j \in 1..Len(log) : j > l => log[j].part # "user"
      BY <1>1, <1>3 DEF LastUser
    <2>2. /\ l \in DOMAIN new /\ new[l].part = "user" /\ new[l].env = e
          /\ \A j \in DOMAIN new : j > l => new[j].part # "user"
      BY <1>1, <1>3, <2>1
    <2> QED BY <2>2 DEF LastUser, new
  <1> QED BY <1>2, <1>3

\* No session exists.
LEMMA OwnInit == Init => OwnInv
  BY RuntimeAssumption
     DEF Init, OwnInv, OwnMessagePrompted, Said, InTurn, KnowsSession, AppendPc, TurnPc

\* A client that waits for its answers, in a session of its own, is always the last to
\* have spoken there.
LEMMA OwnStep ==
  ASSUME SerialClients, NoneNamed
  PROVE  IndInv /\ BoundInv /\ OwnInv /\ [Next]_vars => OwnInv'
  <1> SUFFICES ASSUME IndInv, BoundInv, OwnInv, [Next]_vars PROVE OwnInv'
    OBVIOUS
  <1> USE RuntimeAssumption
      DEF SubmitPc, AppendPc, TurnPc, FinalPc, IndInv,
          memVars, dbVars, dateVars, turnVars, envVars, Goto, Date, Emit
  <1>0. /\ pc \in [Requests -> {"idle"} \cup SubmitPc \cup AppendPc
                                   \cup TurnPc \cup FinalPc]
        /\ part \in [Requests -> Parts]
        /\ req \in [Requests -> RequestContent \cup {None}]
        /\ sess \in [Requests -> Requests \cup {None}]
        /\ prompted \in [Requests -> Requests \cup {None}]
        /\ history \in [Requests -> Seq(Message)]
        /\ bindings \in [Conversations -> Requests \cup {None}]
        /\ dbBindings \in [Conversations -> Requests \cup {None}]
        /\ \A e \in Requests : pc[e] \in {"idle"} \cup SubmitPc => part[e] = "user"
    BY DEF TypeInv, TypeOK, PhaseInv
  <1> DEFINE Made(s, c) == pc'[s] # "idle" /\ req'[s].conv = c
  <1>p. \A e \in Requests : prompted[e] \in {None, e}
    BY DEF OwnInv, OwnMessagePrompted
  <1>1. ASSUME NEW e \in Requests, ResolveNamed(e) PROVE OwnInv'
    <2>1. FALSE
      BY <1>1 DEF ResolveNamed, BoundInv, NoneNamed
    <2> QED BY <2>1
  <1>2. ASSUME NEW e \in Requests, ReadBinding(e) PROVE OwnInv'
    <2>1. /\ UNCHANGED <<history, bindings, dbBindings, req, part, prompted>>
          /\ \A f \in Requests \ {e} : pc'[f] = pc[f] /\ sess'[f] = sess[f]
          /\ pc[e] = "resolve" /\ req[e].conv # None
          /\ \/ /\ pc'[e] = "lookup" /\ sess'[e] = bindings[req[e].conv]
                /\ bindings[req[e].conv] # None
             \/ pc'[e] = "create"
      BY <1>0, <1>2 DEF ReadBinding
    <2>2. req[e].conv \in Conversations
      BY <1>0, <1>2 DEF ReadBinding, RequestContent, TypeInv, TypeOK
    <2>3. pc'[e] = "lookup" => sess'[e] \in Requests /\ CreatedFor(sess'[e], req[e].conv)
      BY <1>0, <2>1, <2>2 DEF OwnInv
    <2>4. ~Said(e)' /\ (pc'[e] \in KnowsSession => pc'[e] = "lookup")
      BY <2>1 DEF Said, InTurn, KnowsSession
    <2> QED BY <1>p, <2>1, <2>3, <2>4, OwnFrame
  <1>3. ASSUME NEW e \in Requests, LookupSession(e) PROVE OwnInv'
    <2>1. /\ UNCHANGED <<history, bindings, dbBindings, req, sess, prompted>>
          /\ \A f \in Requests \ {e} : pc'[f] = pc[f] /\ part'[f] = part[f]
          /\ pc[e] # "idle" /\ pc'[e] # "idle"
          /\ pc'[e] \in KnowsSession => pc[e] \in KnowsSession
          /\ Said(e)' => Said(e)
      BY <1>0, <1>3 DEF LookupSession, Said, InTurn, KnowsSession
    <2> QED BY <1>p, <2>1, OwnFrame
  <1>4. ASSUME NEW e \in Requests, ResolveAnonymous(e) PROVE OwnInv'
    <2>1. /\ UNCHANGED <<history, bindings, dbBindings, req, sess, prompted>>
          /\ \A f \in Requests \ {e} : pc'[f] = pc[f] /\ part'[f] = part[f]
          /\ pc[e] # "idle" /\ pc'[e] # "idle"
          /\ pc'[e] \in KnowsSession => pc[e] \in KnowsSession
          /\ Said(e)' => Said(e)
      BY <1>0, <1>4 DEF ResolveAnonymous, Said, InTurn, KnowsSession
    <2> QED BY <1>p, <2>1, OwnFrame
  <1>5. ASSUME NEW e \in Requests, InsertSession(e) PROVE OwnInv'
    <2>1. /\ UNCHANGED <<history, bindings, dbBindings, req, part, prompted>>
          /\ \A f \in Requests \ {e} : pc'[f] = pc[f] /\ sess'[f] = sess[f]
          /\ pc[e] = "create" /\ pc'[e] = "save_session" /\ sess'[e] = e
      BY <1>0, <1>5 DEF InsertSession
    <2>2. CreatedFor(e, req[e].conv) /\ ~Said(e)'
      BY <2>1 DEF CreatedFor, Said, InTurn
    <2> QED BY <1>p, <2>1, <2>2, OwnFrame
  <1>6. ASSUME NEW e \in Requests, SaveSession(e) PROVE OwnInv'
    <2>1. /\ UNCHANGED <<history, bindings, dbBindings, req, sess, prompted>>
          /\ \A f \in Requests \ {e} : pc'[f] = pc[f] /\ part'[f] = part[f]
          /\ pc[e] # "idle" /\ pc'[e] # "idle"
          /\ pc'[e] \in KnowsSession => pc[e] \in KnowsSession
          /\ Said(e)' => Said(e)
      BY <1>0, <1>6 DEF SaveSession, Said, InTurn, KnowsSession, AfterCreate
    <2> QED BY <1>p, <2>1, OwnFrame
  <1>7. ASSUME NEW e \in Requests, SetBinding(e) PROVE OwnInv'
    <2>1. /\ UNCHANGED <<history, dbBindings, req, sess, part, prompted>>
          /\ \A f \in Requests \ {e} : pc'[f] = pc[f]
          /\ bindings' = [bindings EXCEPT ![req[e].conv] = sess[e]]
          /\ pc[e] \in KnowsSession /\ pc'[e] # "idle" /\ ~Said(e)' /\ ~Said(e)
      BY <1>0, <1>7 DEF SetBinding, Said, InTurn, KnowsSession
    <2>2. \A s : \A c : CreatedFor(s, c) => s \notin Requests \/ Made(s, c)
      BY <2>1 DEF CreatedFor, KnowsSession
    <2>3. ASSUME NEW c \in Conversations
          PROVE  /\ bindings'[c] # None => Made(bindings'[c], c)
                 /\ dbBindings[c] # None => Made(dbBindings[c], c)
      <3>1. bindings'[c] = bindings[c] \/ (c = req[e].conv /\ bindings'[c] = sess[e])
        BY <1>0, <2>1
      <3>2. sess[e] \in Requests /\ CreatedFor(sess[e], req[e].conv)
        BY <2>1 DEF OwnInv, TypeInv
      <3>3. bindings[c] \in Requests \cup {None} /\ dbBindings[c] \in Requests \cup {None}
        BY <1>0
      <3>4. /\ bindings[c] # None => CreatedFor(bindings[c], c)
            /\ dbBindings[c] # None => CreatedFor(dbBindings[c], c)
        BY DEF OwnInv
      <3> QED BY <2>2, <3>1, <3>2, <3>3, <3>4
    <2>4. ASSUME NEW f \in Requests
          PROVE  /\ pc'[f] \in KnowsSession => Made(sess[f], req[f].conv)
                 /\ pc'[f] \in KnowsSession /\ req[f].conv = None => sess[f] = f
                 /\ Said(f)' => LastUser(history[sess[f]], f)
      <3>1. pc'[f] \in KnowsSession => pc[f] \in KnowsSession
        BY <2>1
      <3>2. Said(f)' => Said(f)
        BY <2>1 DEF Said, InTurn
      <3>3. pc[f] \in KnowsSession => sess[f] \in Requests
        BY DEF TypeInv
      <3> HIDE DEF SubmitPc, AppendPc, TurnPc
      <3> QED BY <2>2, <3>1, <3>2, <3>3 DEF OwnInv
    <2>5. OwnMessagePrompted'
      BY <2>1 DEF OwnInv, OwnMessagePrompted
    <2> HIDE DEF SubmitPc, AppendPc, TurnPc
    <2> QED BY <2>1, <2>3, <2>4, <2>5 DEF OwnInv, CreatedFor
  <1>8. ASSUME NEW e \in Requests, SaveBinding(e) PROVE OwnInv'
    <2>1. /\ UNCHANGED <<history, bindings, req, sess, part, prompted>>
          /\ \A f \in Requests \ {e} : pc'[f] = pc[f]
          /\ dbBindings' = [dbBindings EXCEPT ![req[e].conv] = sess[e]]
          /\ pc[e] \in KnowsSession /\ pc'[e] # "idle" /\ ~Said(e)' /\ ~Said(e)
      BY <1>0, <1>8 DEF SaveBinding, Said, InTurn, KnowsSession
    <2>2. \A s : \A c : CreatedFor(s, c) => s \notin Requests \/ Made(s, c)
      BY <2>1 DEF CreatedFor, KnowsSession
    <2>3. ASSUME NEW c \in Conversations
          PROVE  /\ dbBindings'[c] # None => Made(dbBindings'[c], c)
                 /\ bindings[c] # None => Made(bindings[c], c)
      <3>1. dbBindings'[c] = dbBindings[c] \/ (c = req[e].conv /\ dbBindings'[c] = sess[e])
        BY <1>0, <2>1
      <3>2. sess[e] \in Requests /\ CreatedFor(sess[e], req[e].conv)
        BY <2>1 DEF OwnInv, TypeInv
      <3>3. dbBindings[c] \in Requests \cup {None} /\ bindings[c] \in Requests \cup {None}
        BY <1>0
      <3>4. /\ dbBindings[c] # None => CreatedFor(dbBindings[c], c)
            /\ bindings[c] # None => CreatedFor(bindings[c], c)
        BY DEF OwnInv
      <3> QED BY <2>2, <3>1, <3>2, <3>3, <3>4
    <2>4. ASSUME NEW f \in Requests
          PROVE  /\ pc'[f] \in KnowsSession => Made(sess[f], req[f].conv)
                 /\ pc'[f] \in KnowsSession /\ req[f].conv = None => sess[f] = f
                 /\ Said(f)' => LastUser(history[sess[f]], f)
      <3>1. pc'[f] \in KnowsSession => pc[f] \in KnowsSession
        BY <2>1
      <3>2. Said(f)' => Said(f)
        BY <2>1 DEF Said, InTurn
      <3>3. pc[f] \in KnowsSession => sess[f] \in Requests
        BY DEF TypeInv
      <3> HIDE DEF SubmitPc, AppendPc, TurnPc
      <3> QED BY <2>2, <3>1, <3>2, <3>3 DEF OwnInv
    <2>5. OwnMessagePrompted'
      BY <2>1 DEF OwnInv, OwnMessagePrompted
    <2> HIDE DEF SubmitPc, AppendPc, TurnPc
    <2> QED BY <2>1, <2>3, <2>4, <2>5 DEF OwnInv, CreatedFor
  <1>9. ASSUME NEW e \in Requests, ForeignKeyFails(e) PROVE OwnInv'
    <2>1. /\ UNCHANGED <<history, bindings, dbBindings, req, sess, prompted>>
          /\ \A f \in Requests \ {e} : pc'[f] = pc[f] /\ part'[f] = part[f]
          /\ pc[e] # "idle" /\ pc'[e] # "idle"
          /\ pc'[e] \in KnowsSession => pc[e] \in KnowsSession
          /\ Said(e)' => Said(e)
      BY <1>0, <1>9 DEF ForeignKeyFails, Said, InTurn, KnowsSession
    <2> QED BY <1>p, <2>1, OwnFrame
  <1>10. ASSUME NEW e \in Requests, PushMessage(e) PROVE OwnInv'
    <2>1. /\ pc[e] = "append" /\ sess[e] \in Requests
          /\ \A f \in Requests \ {e} : pc'[f] = pc[f]
          /\ pc'[e] = "save_summary"
          /\ history' = [history EXCEPT ![sess[e]] = Append(history[sess[e]], Draft(e))]
          /\ history[sess[e]] \in Seq(Message) /\ Draft(e) \in Message
          /\ UNCHANGED <<sess, req, part>>
      BY <1>0, <1>10, PushMessageEffect
    <2>2. UNCHANGED <<bindings, dbBindings, prompted>>
      BY <1>10 DEF PushMessage
    <2>3. Draft(e).env = e /\ Draft(e).part = part[e]
      BY DEF Draft
    <2>4. LastUser(Append(history[sess[e]], Draft(e)), e)
      <3>1. part[e] # "user" => LastUser(history[sess[e]], e)
        BY <2>1 DEF OwnInv, Said, InTurn
      <3> QED BY <2>1, <2>3, <3>1, LastUserAppend
    <2>5. history'[sess[e]] = Append(history[sess[e]], Draft(e))
      BY <1>0, <2>1
    <2>6. ASSUME NEW f \in Requests, Said(f)'
          PROVE  LastUser(history'[sess[f]], f)
      <3>1. CASE f = e
        BY <2>4, <2>5, <3>1
      <3>2. CASE f # e
        <4>1. Said(f) /\ pc[f] \in KnowsSession /\ Live(f)
          BY <2>1, <2>6, <3>2 DEF Said, InTurn, KnowsSession, Live
        <4>2. pc[e] \in KnowsSession /\ Live(e)
          BY <2>1 DEF KnowsSession, Live
        <4>3. sess[f] # sess[e]
          <5>1. /\ CreatedFor(sess[f], req[f].conv) /\ CreatedFor(sess[e], req[e].conv)
            BY <4>1, <4>2 DEF OwnInv
          <5>2. req[f].conv # req[e].conv
            BY <3>2, <4>1, <4>2 DEF BoundInv
          <5> QED BY <5>1, <5>2 DEF CreatedFor
        <4>4. history'[sess[f]] = history[sess[f]]
          BY <1>0, <2>1, <4>1, <4>3 DEF TypeInv
        <4> QED BY <4>1, <4>4 DEF OwnInv
      <3> QED BY <3>1, <3>2
    <2>7. \A s : \A c : CreatedFor(s, c) => s \notin Requests \/ Made(s, c)
      BY <2>1 DEF CreatedFor
    <2>8. ASSUME NEW c \in Conversations
          PROVE  /\ bindings[c] # None => Made(bindings[c], c)
                 /\ dbBindings[c] # None => Made(dbBindings[c], c)
      <3>1. bindings[c] \in Requests \cup {None} /\ dbBindings[c] \in Requests \cup {None}
        BY <1>0
      <3> QED BY <2>7, <3>1 DEF OwnInv
    <2>9. ASSUME NEW f \in Requests, pc'[f] \in KnowsSession
          PROVE  Made(sess[f], req[f].conv) /\ (req[f].conv = None => sess[f] = f)
      <3>1. pc[f] \in KnowsSession
        BY <2>1, <2>9 DEF KnowsSession
      <3>2. sess[f] \in Requests /\ CreatedFor(sess[f], req[f].conv)
        BY <3>1 DEF OwnInv, TypeInv
      <3> QED BY <2>7, <3>1, <3>2 DEF OwnInv
    <2>10. OwnMessagePrompted'
      BY <2>2 DEF OwnInv, OwnMessagePrompted
    <2> HIDE DEF SubmitPc, AppendPc, TurnPc
    <2> QED BY <2>1, <2>2, <2>6, <2>8, <2>9, <2>10 DEF OwnInv, CreatedFor
  <1>11. ASSUME NEW e \in Requests, SaveSummary(e) PROVE OwnInv'
    <2>1. /\ UNCHANGED <<history, bindings, dbBindings, req, sess, prompted>>
          /\ \A f \in Requests \ {e} : pc'[f] = pc[f] /\ part'[f] = part[f]
          /\ pc[e] # "idle" /\ pc'[e] # "idle"
          /\ pc'[e] \in KnowsSession => pc[e] \in KnowsSession
          /\ Said(e)' => Said(e)
      BY <1>0, <1>11 DEF SaveSummary, Said, InTurn, KnowsSession
    <2> QED BY <1>p, <2>1, OwnFrame
  <1>12. ASSUME NEW e \in Requests, SaveMessage(e) PROVE OwnInv'
    <2>1. UNCHANGED <<history, req, bindings, dbBindings, sess, prompted, part>>
      BY <1>12 DEF SaveMessage
    <2>2. /\ \A f \in Requests \ {e} : pc'[f] = pc[f]
          /\ pc[e] = "save_message"
          /\ pc'[e] \in {"accept", "tool", "announce", "prompt", "failed", "remember"}
      BY <1>0, <1>12, SaveMessageEffect
    <2>3. Said(e) /\ pc[e] \in KnowsSession
      BY <2>2 DEF Said, KnowsSession
    <2> HIDE DEF SubmitPc, AppendPc, TurnPc
    <2> QED BY <1>p, <2>1, <2>2, <2>3, OwnFrame
  <1>13. ASSUME NEW e \in Requests, Accept(e) PROVE OwnInv'
    <2>1. /\ UNCHANGED <<history, bindings, dbBindings, req, sess, prompted>>
          /\ \A f \in Requests \ {e} : pc'[f] = pc[f] /\ part'[f] = part[f]
          /\ pc[e] # "idle" /\ pc'[e] # "idle"
          /\ pc'[e] \in KnowsSession => pc[e] \in KnowsSession
          /\ Said(e)' => Said(e)
      BY <1>0, <1>13 DEF Accept, Said, InTurn, KnowsSession
    <2> QED BY <1>p, <2>1, OwnFrame
  <1>14. ASSUME NEW e \in Requests, BuildPrompt(e) PROVE OwnInv'
    <2>1. /\ UNCHANGED <<history, bindings, dbBindings, req, part, sess>>
          /\ \A f \in Requests \ {e} : pc'[f] = pc[f] /\ prompted'[f] = prompted[f]
          /\ pc[e] = "prompt" /\ pc'[e] = "chat"
          /\ \E i \in DOMAIN history[sess[e]] :
               /\ history[sess[e]][i].part = "user"
               /\ \A j \in DOMAIN history[sess[e]] :
                    j > i => history[sess[e]][j].part # "user"
               /\ prompted'[e] = history[sess[e]][i].env
      BY <1>0, <1>14 DEF BuildPrompt
    <2>2. Said(e) /\ pc[e] \in KnowsSession
      BY <2>1 DEF Said, InTurn, KnowsSession
    <2>3. LastUser(history[sess[e]], e) /\ history[sess[e]] \in Seq(Message)
      BY <1>0, <2>2 DEF OwnInv, TypeInv
    <2>4. prompted'[e] = e
      BY <2>1, <2>3, LastUserUnique
    <2> HIDE DEF SubmitPc, AppendPc, TurnPc
    <2> QED BY <2>1, <2>2, <2>4, OwnFrame
  <1>15. ASSUME NEW e \in Requests, ProviderFails(e) PROVE OwnInv'
    <2>1. /\ UNCHANGED <<history, bindings, dbBindings, req, sess, prompted>>
          /\ \A f \in Requests \ {e} : pc'[f] = pc[f] /\ part'[f] = part[f]
          /\ pc[e] # "idle" /\ pc'[e] # "idle"
          /\ pc'[e] \in KnowsSession => pc[e] \in KnowsSession
          /\ Said(e)' => Said(e)
      BY <1>0, <1>15 DEF ProviderFails, Said, InTurn, KnowsSession
    <2> QED BY <1>p, <2>1, OwnFrame
  <1>16. ASSUME NEW e \in Requests, ProviderCallsTool(e) PROVE OwnInv'
    <2>1. /\ UNCHANGED <<history, bindings, dbBindings, req, sess, prompted>>
          /\ \A f \in Requests \ {e} : pc'[f] = pc[f] /\ part'[f] = part[f]
          /\ pc[e] # "idle" /\ pc'[e] # "idle"
          /\ pc'[e] \in KnowsSession => pc[e] \in KnowsSession
          /\ Said(e)' => Said(e)
      BY <1>0, <1>16 DEF ProviderCallsTool, Said, InTurn, KnowsSession
    <2> QED BY <1>p, <2>1, OwnFrame
  <1>17. ASSUME NEW e \in Requests, ProviderAnswers(e) PROVE OwnInv'
    <2>1. /\ UNCHANGED <<history, bindings, dbBindings, req, sess, prompted>>
          /\ \A f \in Requests \ {e} : pc'[f] = pc[f] /\ part'[f] = part[f]
          /\ pc[e] # "idle" /\ pc'[e] # "idle"
          /\ pc'[e] \in KnowsSession => pc[e] \in KnowsSession
          /\ Said(e)' => Said(e)
      BY <1>0, <1>17 DEF ProviderAnswers, Said, InTurn, KnowsSession
    <2> QED BY <1>p, <2>1, OwnFrame
  <1>18. ASSUME NEW e \in Requests, RefuseTool(e) PROVE OwnInv'
    <2>1. /\ UNCHANGED <<history, bindings, dbBindings, req, sess, prompted>>
          /\ \A f \in Requests \ {e} : pc'[f] = pc[f] /\ part'[f] = part[f]
          /\ pc[e] # "idle" /\ pc'[e] # "idle"
          /\ pc'[e] \in KnowsSession => pc[e] \in KnowsSession
          /\ Said(e)' => Said(e)
      BY <1>0, <1>18 DEF RefuseTool, Said, InTurn, KnowsSession
    <2> QED BY <1>p, <2>1, OwnFrame
  <1>19. ASSUME NEW e \in Requests, StartTool(e) PROVE OwnInv'
    <2>1. /\ UNCHANGED <<history, bindings, dbBindings, req, sess, prompted>>
          /\ \A f \in Requests \ {e} : pc'[f] = pc[f] /\ part'[f] = part[f]
          /\ pc[e] # "idle" /\ pc'[e] # "idle"
          /\ pc'[e] \in KnowsSession => pc[e] \in KnowsSession
          /\ Said(e)' => Said(e)
      BY <1>0, <1>19 DEF StartTool, Said, InTurn, KnowsSession
    <2> QED BY <1>p, <2>1, OwnFrame
  <1>20. ASSUME NEW e \in Requests, ToolFails(e) PROVE OwnInv'
    <2>1. /\ UNCHANGED <<history, bindings, dbBindings, req, sess, prompted>>
          /\ \A f \in Requests \ {e} : pc'[f] = pc[f] /\ part'[f] = part[f]
          /\ pc[e] # "idle" /\ pc'[e] # "idle"
          /\ pc'[e] \in KnowsSession => pc[e] \in KnowsSession
          /\ Said(e)' => Said(e)
      BY <1>0, <1>20 DEF ToolFails, Said, InTurn, KnowsSession
    <2> QED BY <1>p, <2>1, OwnFrame
  <1>21. ASSUME NEW e \in Requests, ToolReturns(e) PROVE OwnInv'
    <2>1. /\ UNCHANGED <<history, bindings, dbBindings, req, sess, prompted>>
          /\ \A f \in Requests \ {e} : pc'[f] = pc[f] /\ part'[f] = part[f]
          /\ pc[e] # "idle" /\ pc'[e] # "idle"
          /\ pc'[e] \in KnowsSession => pc[e] \in KnowsSession
          /\ Said(e)' => Said(e)
      BY <1>0, <1>21 DEF ToolReturns, Said, InTurn, KnowsSession
    <2> QED BY <1>p, <2>1, OwnFrame
  <1>22. ASSUME NEW e \in Requests, Remember(e) PROVE OwnInv'
    <2>1. /\ UNCHANGED <<history, bindings, dbBindings, req, sess, prompted>>
          /\ \A f \in Requests \ {e} : pc'[f] = pc[f] /\ part'[f] = part[f]
          /\ pc[e] # "idle" /\ pc'[e] # "idle"
          /\ pc'[e] \in KnowsSession => pc[e] \in KnowsSession
          /\ Said(e)' => Said(e)
      BY <1>0, <1>22 DEF Remember, Said, InTurn, KnowsSession
    <2> QED BY <1>p, <2>1, OwnFrame
  <1>23. ASSUME NEW e \in Requests, EmitError(e) PROVE OwnInv'
    <2>1. /\ UNCHANGED <<history, bindings, dbBindings, req, sess, prompted>>
          /\ \A f \in Requests \ {e} : pc'[f] = pc[f] /\ part'[f] = part[f]
          /\ pc[e] # "idle" /\ pc'[e] # "idle"
          /\ pc'[e] \in KnowsSession => pc[e] \in KnowsSession
          /\ Said(e)' => Said(e)
      BY <1>0, <1>23 DEF EmitError, Said, InTurn, KnowsSession
    <2> QED BY <1>p, <2>1, OwnFrame
  <1>24. ASSUME NEW e \in Requests, Abandon(e) PROVE OwnInv'
    <2>1. /\ UNCHANGED <<history, bindings, dbBindings, req, sess, prompted>>
          /\ \A f \in Requests \ {e} : pc'[f] = pc[f] /\ part'[f] = part[f]
          /\ pc[e] # "idle" /\ pc'[e] # "idle"
          /\ pc'[e] \in KnowsSession => pc[e] \in KnowsSession
          /\ Said(e)' => Said(e)
      BY <1>0, <1>24 DEF Abandon, Said, InTurn, KnowsSession
    <2> QED BY <1>p, <2>1, OwnFrame
  <1>25. ASSUME NEW e \in Requests, StoreFails(e) PROVE OwnInv'
    <2>1. /\ UNCHANGED <<history, bindings, dbBindings, req, sess, prompted>>
          /\ \A f \in Requests \ {e} : pc'[f] = pc[f] /\ part'[f] = part[f]
          /\ pc[e] # "idle" /\ pc'[e] # "idle"
          /\ pc'[e] \in KnowsSession => pc[e] \in KnowsSession
          /\ Said(e)' => Said(e)
      BY <1>0, <1>25 DEF StoreFails, Said, InTurn, KnowsSession, Failure
    <2> QED BY <1>p, <2>1, OwnFrame
  <1>26. ASSUME NEW e \in Requests, NEW r \in Workload, Submit(e, r) PROVE OwnInv'
    <2>1. /\ pc'[e] \in {"create", "resolve"} /\ pc[e] = "idle" /\ req'[e] = r
          /\ \A f \in Requests \ {e} : pc'[f] = pc[f] /\ req'[f] = req[f]
          /\ UNCHANGED <<history, bindings, dbBindings, sess, part, prompted>>
      BY <1>0, <1>26 DEF Submit
    <2>2. \A s \in Requests : \A c : CreatedFor(s, c) => Made(s, c)
      BY <2>1 DEF CreatedFor
    <2>3. ASSUME NEW c \in Conversations
          PROVE  /\ bindings[c] # None => Made(bindings[c], c)
                 /\ dbBindings[c] # None => Made(dbBindings[c], c)
      <3>1. bindings[c] \in Requests \cup {None} /\ dbBindings[c] \in Requests \cup {None}
        BY <1>0
      <3> QED BY <2>2, <3>1 DEF OwnInv
    <2>4. ASSUME NEW f \in Requests
          PROVE  /\ pc'[f] \in KnowsSession => Made(sess[f], req'[f].conv)
                 /\ pc'[f] \in KnowsSession /\ req'[f].conv = None => sess[f] = f
                 /\ Said(f)' => LastUser(history[sess[f]], f)
      <3>1. CASE f = e
        BY <2>1, <3>1 DEF KnowsSession, Said, InTurn
      <3>2. CASE f # e
        <4>1. pc[f] \in KnowsSession => sess[f] \in Requests
          BY DEF TypeInv
        <4>2. Said(f)' <=> Said(f)
          BY <2>1, <3>2 DEF Said, InTurn
        <4>3. pc'[f] = pc[f] /\ req'[f] = req[f]
          BY <2>1, <3>2
        <4> HIDE DEF SubmitPc, AppendPc, TurnPc
        <4> QED BY <2>2, <4>1, <4>2, <4>3 DEF OwnInv
      <3> QED BY <3>1, <3>2
    <2>5. OwnMessagePrompted'
      BY <2>1 DEF OwnInv, OwnMessagePrompted
    <2> HIDE DEF SubmitPc, AppendPc, TurnPc
    <2> QED BY <2>1, <2>3, <2>4, <2>5 DEF OwnInv, CreatedFor
  <1>27. ASSUME Crash PROVE OwnInv'
    <2>1. /\ UNCHANGED <<req, dbBindings, sess, prompted, part>>
          /\ bindings' = [c \in Conversations |-> None]
          /\ \A f \in Requests : pc'[f] = IF Live(f) THEN "lost" ELSE pc[f]
      BY <1>27 DEF Crash
    <2>2. \A f \in Requests : ~Said(f)' /\ pc'[f] \notin KnowsSession
                              /\ (pc[f] # "idle" => pc'[f] # "idle")
      BY <2>1 DEF Live, Said, InTurn, KnowsSession
    <2>3. \A s \in Requests : \A c : CreatedFor(s, c) => Made(s, c)
      BY <2>1, <2>2 DEF CreatedFor
    <2>4. ASSUME NEW c \in Conversations, dbBindings[c] # None
          PROVE  Made(dbBindings[c], c)
      BY <1>0, <2>3, <2>4 DEF OwnInv
    <2>5. OwnMessagePrompted'
      BY <2>1 DEF OwnInv, OwnMessagePrompted
    <2> HIDE DEF SubmitPc, AppendPc, TurnPc
    <2> QED BY <2>1, <2>2, <2>4, <2>5 DEF OwnInv, CreatedFor
  <1>28. ASSUME Restart PROVE OwnInv'
    <2>1. /\ UNCHANGED <<req, dbBindings, sess, pc, prompted, part>>
          /\ bindings' = dbBindings
          /\ \A f \in Requests : ~Live(f)
      BY <1>28 DEF Restart, MapInv
    <2>2. \A f \in Requests : ~Said(f)'
      BY <2>1 DEF Live, Said, InTurn
    <2>3. \A s, c : CreatedFor(s, c)' <=> CreatedFor(s, c)
      BY <2>1 DEF CreatedFor
    <2> HIDE DEF SubmitPc, AppendPc, TurnPc
    <2>4. OwnMessagePrompted'
      BY <2>1 DEF OwnInv, OwnMessagePrompted
    <2> QED BY <2>1, <2>2, <2>3, <2>4 DEF OwnInv, CreatedFor
  <1>29. ASSUME UNCHANGED vars PROVE OwnInv'
    <2>1. UNCHANGED <<history, req, bindings, dbBindings, sess, pc, prompted, part>>
      BY <1>29 DEF vars
    <2> QED BY <2>1 DEF OwnInv, CreatedFor, Said, InTurn, OwnMessagePrompted
  <1>30. ASSUME NEW e \in Requests, Announce(e) PROVE OwnInv'
    <2>1. /\ UNCHANGED <<history, bindings, dbBindings, req, sess, prompted>>
          /\ \A f \in Requests \ {e} : pc'[f] = pc[f] /\ part'[f] = part[f]
          /\ pc[e] # "idle" /\ pc'[e] # "idle"
          /\ pc'[e] \in KnowsSession => pc[e] \in KnowsSession
          /\ Said(e)' => Said(e)
      BY <1>0, <1>30 DEF Announce, Said, InTurn, KnowsSession
    <2> QED BY <1>p, <2>1, OwnFrame
  <1> QED
    BY <1>1, <1>2, <1>3, <1>4, <1>5, <1>6, <1>7, <1>8, <1>9, <1>10, <1>11,
       <1>12, <1>13, <1>14, <1>15, <1>16, <1>17, <1>18, <1>19, <1>20, <1>21,
       <1>22, <1>23, <1>24, <1>25, <1>26, <1>27, <1>28, <1>29, <1>30
       DEF Next, TaskStep, ResolveStep, AppendStep, TurnStep

\* With clients that wait for their answers, a conversation stays in the session that its
\* first accepted message went to (resolve_session, ensure_session_binding).
THEOREM ConversationStable ==
  ASSUME SerialClients, NoRebinding
  PROVE  Spec => []StableConversation
  <1>1. Init => IndInv /\ TurnInv /\ BoundInv
    BY TypeInit, MapInit, PhaseInit, LogInit, KindInit, OutcomeInit, PairInit,
       PlaceInit, GapInit, OrderInit, BoundInit DEF IndInv, TurnInv
  <1>2. (IndInv /\ TurnInv) /\ BoundInv /\ [Next]_vars => BoundInv'
    BY BoundStep DEF TurnInv
  <1>3. (IndInv /\ TurnInv) /\ BoundInv => StableConversation
    <2> SUFFICES ASSUME IndInv, TurnInv, BoundInv
                 PROVE  StableConversation
      OBVIOUS
    <2>1. ASSUME NEW c \in Conversations, NEW e \in Requests, ByConversation(e, c)
          PROVE  dbBindings[c] = sess[e]
      <3>1. /\ pc[e] # "idle" /\ req[e].kind # "create"
            /\ Accepted(e) /\ req[e].conv = c /\ c # None
        BY <2>1, RuntimeAssumption
           DEF IndInv, TurnInv, KindInv, PhaseInv, Unheard, ByConversation
      <3> QED BY <3>1 DEF BoundInv, Bound
    <2> QED BY <2>1 DEF StableConversation
  <1> QED BY <1>1, <1>2, <1>3, TurnInvariance, PTL DEF Spec

\* ... and if no message names a session, the memories recalled for a message are put
\* in front of that message (run_provider).
THEOREM OwnPrompt ==
  ASSUME SerialClients, NoneNamed
  PROVE  Spec => []OwnMessagePrompted
  <1>0. NoRebinding
    BY DEF NoneNamed, NoRebinding
  <1>1. Init => BoundInv /\ OwnInv
    BY BoundInit, OwnInit
  <1>2. (IndInv /\ TurnInv) /\ BoundInv /\ OwnInv /\ [Next]_vars => (BoundInv /\ OwnInv)'
    BY <1>0, BoundStep, OwnStep DEF TurnInv
  <1>3. OwnInv => OwnMessagePrompted
    BY DEF OwnInv
  <1> QED BY <1>1, <1>2, <1>3, TurnInvariance, PTL DEF Spec

=============================================================================
