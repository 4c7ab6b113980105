-------------------------- MODULE ConnectorProofs --------------------------
(***************************************************************************)
(* Proofs about Connector, for any number of messages, failures and deaths *)
(* of the gateway.  A reply is never the answer of an old turn (OldInv);   *)
(* and when messages are handled one after the other, the reply found by   *)
(* session and date is the right one, until a turn outlasts its wait, and  *)
(* nothing is given up without a reason.                                   *)
(*                                                                         *)
(* An answer is taken from the history or from an event, by session only.  *)
(* It is the right one because only one turn of the session runs during a  *)
(* wait (Alone): the one that is waited for.  That in turn holds because a *)
(* wait ends after its turn, which is what WaitOf is about, so the two are *)
(* proved together.  An answer that cannot be stored ends both: its Error  *)
(* event comes after its MessageCompleted event has ended its own wait.    *)
(***************************************************************************)
EXTENDS Connector, TLAPS

USE ConnectorAssumption DEF ConnectorAssumption
USE DEF delivery, runtimeVars, taskVars, procVars

\* Every open stream has one event more.
Heard(kind, e) ==
  /\ inbox' \in [Messages -> Seq(Event)]
  /\ \A f \in Messages : stream[f] # "open" => inbox'[f] = inbox[f]
  /\ \A f \in Messages : \A i \in DOMAIN inbox'[f] :
       \/ i \in DOMAIN inbox[f] /\ inbox'[f][i] = inbox[f][i]
       \/ inbox'[f][i].kind = kind /\ inbox'[f][i].of = e

\* emit's event is in every open stream, behind what was there.
LEMMA BroadcastHeard ==
  ASSUME TypeOK, NEW e \in Messages, NEW kind \in {"other", "completed", "error"},
         Broadcast(kind, e)
  PROVE  Heard(kind, e)
  <1> DEFINE event == [kind |-> kind, of |-> e]
  <1>1. event \in Event
    BY DEF Event
  <1>2. inbox \in [Messages -> Seq(Event)]
    BY DEF TypeOK
  <1>3. inbox' = [f \in Messages |-> IF stream[f] = "open" THEN Append(inbox[f], event)
                                                      ELSE inbox[f]]
    BY DEF Broadcast
  <1>4. event.kind = kind /\ event.of = e
    OBVIOUS
  <1> HIDE DEF event
  <1>5. ASSUME NEW f \in Messages, NEW i \in DOMAIN inbox'[f]
        PROVE  \/ i \in DOMAIN inbox[f] /\ inbox'[f][i] = inbox[f][i]
               \/ inbox'[f][i] = event
    BY <1>1, <1>2, <1>3
  <1>6. inbox' \in [Messages -> Seq(Event)]
    BY <1>1, <1>2, <1>3
  <1> QED BY <1>3, <1>4, <1>5, <1>6 DEF Heard

\* A look at the history finds an answer that is not from before the receipt, and
\* finds one if there is one.
Looked(e, next) ==
  /\ up
  /\ UNCHANGED <<runtimeVars, stream, inbox, procVars>>
  /\ \/ \E f \in Messages : /\ InHistory(f) /\ f \notin early[e]
                            /\ reply' = [reply EXCEPT ![e] = f]
                            /\ task' = [task EXCEPT ![e] = "send"]
     \/ /\ \A f \in Messages : InHistory(f) => f \in early[e]
        /\ task' = [task EXCEPT ![e] = next]
        /\ UNCHANGED reply

\* latest_provider_reply returns an answer that is in the history and not from
\* before the receipt, and nothing only if there is none.
LEMMA LookFinds ==
  ASSUME TypeOK, NEW e \in Messages, NEW next, Look(e, next)
  PROVE  Looked(e, next)
  <1>1. \A i \in DOMAIN answers : answers[i] \in Messages
    BY DEF TypeOK
  <1> QED
    BY <1>1 DEF Looked, Look, IsLatest, Eligible, InHistory, Goto

\* The history has one answer more.
Pushed(e) ==
  /\ answers' \in Seq(Messages)
  /\ \A f \in Messages :
       (\E i \in DOMAIN answers' : answers'[i] = f)
         <=> f = e \/ \E i \in DOMAIN answers : answers[i] = f

\* append_message adds an answer to the history and leaves the others.
LEMMA AppendPushes ==
  ASSUME TypeOK, NEW e \in Messages, answers' = Append(answers, e)
  PROVE  Pushed(e)
  <1>1. answers \in Seq(Messages)
    BY DEF TypeOK
  <1>2. /\ answers' \in Seq(Messages)
        /\ DOMAIN answers' = DOMAIN answers \cup {Len(answers) + 1}
        /\ answers'[Len(answers) + 1] = e
        /\ \A i \in DOMAIN answers : answers'[i] = answers[i]
    BY <1>1
  <1> QED
    BY <1>2 DEF Pushed

\* The receiver's queue has its first event less.
Taken(e) ==
  /\ Head(inbox[e]) = inbox[e][1]
  /\ 1 \in DOMAIN inbox[e]
  /\ inbox[e][1] \in Event
  /\ inbox' \in [Messages -> Seq(Event)]
  /\ \A f \in Messages \ {e} : inbox'[f] = inbox[f]
  /\ \A i \in DOMAIN inbox'[e] : \E j \in DOMAIN inbox[e] : inbox'[e][i] = inbox[e][j]

\* recv takes the first event and leaves the others.
LEMMA TailTakes ==
  ASSUME TypeOK, NEW e \in Messages, inbox[e] # <<>>,
         inbox' = [inbox EXCEPT ![e] = Tail(@)]
  PROVE  Taken(e)
  <1>1. inbox \in [Messages -> Seq(Event)]
    BY DEF TypeOK
  <1>2. inbox'[e] = Tail(inbox[e]) /\ \A f \in Messages \ {e} : inbox'[f] = inbox[f]
    BY <1>1
  <1>3. /\ inbox[e] \in Seq(Event)
        /\ 1 \in DOMAIN inbox[e]
        /\ Head(inbox[e]) = inbox[e][1]
        /\ inbox[e][1] \in Event
        /\ Tail(inbox[e]) \in Seq(Event)
        /\ \A i \in DOMAIN Tail(inbox[e]) :
             i + 1 \in DOMAIN inbox[e] /\ Tail(inbox[e])[i] = inbox[e][i + 1]
    BY <1>1
  <1> QED
    BY <1>1, <1>2, <1>3 DEF Taken

\* The initial state is well typed.
LEMMA TypeInit == Init => TypeOK
  <1>1. Init => failures \in Nat /\ crashes \in Nat /\ failures + crashes <= MaxFaults
    BY DEF Init
  <1>2. Init => answers \in Seq(Messages) /\ inbox \in [Messages -> Seq(Event)]
    BY DEF Init
  <1>3. Init => /\ state \in [Messages -> D!State]
                /\ task \in [Messages -> TaskPc]
                /\ stream \in [Messages -> {"none", "connecting", "open", "closed"}]
                /\ reply \in [Messages -> Messages \cup {None}]
                /\ \A e \in Messages : task[e] \notin {"send", "replied"}
    BY DEF Init, D!Init, TaskPc, D!State
  <1> QED
    BY <1>1, <1>2, <1>3, Zenon DEF Init, D!Init, TypeOK

\* Every step of the runtime, a connector's task, its pump or the gateway process
\* keeps the types.
LEMMA TypeStep ==
  ASSUME TypeOK, [Next]_vars
  PROVE  TypeOK'
  <1>1. ASSUME NEW e \in Messages, Record(e) PROVE TypeOK'
    BY <1>1 DEF Record, D!Record, TypeOK, TaskPc, D!State
  <1>2. ASSUME NEW e \in Messages, Accept(e) PROVE TypeOK'
    <2>1. Heard("other", e)
      BY <1>2, BroadcastHeard DEF Accept
    <2> QED
      BY <1>2, <2>1 DEF Accept, D!Accept, D!Move, Heard, TypeOK, TaskPc, D!State
  <1>3. ASSUME NEW e \in Messages, Refuse(e) PROVE TypeOK'
    BY <1>3 DEF Refuse, D!Refuse, D!Move, TypeOK, TaskPc, D!State
  <1>4. ASSUME NEW e \in Messages, ReceiveAnswer(e) PROVE TypeOK'
    <2>1. Heard("other", e)
      BY <1>4, BroadcastHeard DEF ReceiveAnswer
    <2> QED
      BY <1>4, <2>1 DEF ReceiveAnswer, Heard, TypeOK, TaskPc, D!State
  <1>5. ASSUME NEW e \in Messages, Announce(e) PROVE TypeOK'
    <2>1. Heard("completed", e)
      BY <1>5, BroadcastHeard DEF Announce
    <2> QED
      BY <1>5, <2>1 DEF Announce, D!Answer, D!Move, Heard, TypeOK, TaskPc, D!State
  <1>6. ASSUME NEW e \in Messages, Fail(e) PROVE TypeOK'
    <2>1. Heard("error", e)
      BY <1>6, BroadcastHeard DEF Fail
    <2> QED
      BY <1>6, <2>1 DEF Fail, D!Fail, D!Move, Heard, TypeOK, TaskPc, D!State
  <1>7. ASSUME NEW e \in Messages, PushAnswer(e) PROVE TypeOK'
    <2>1. Pushed(e)
      BY <1>7, AppendPushes DEF PushAnswer
    <2> QED
      BY <1>7, <2>1 DEF PushAnswer, InHistory, Pushed, TypeOK, TaskPc, D!State
  <1>8. ASSUME NEW e \in Messages, StoreAnswer(e) PROVE TypeOK'
    BY <1>8 DEF StoreAnswer, InHistory, D!Keep, TypeOK, TaskPc, D!State
  <1>9. ASSUME NEW e \in Messages, StoreFails(e) PROVE TypeOK'
    <2>1. Heard("error", e)
      BY <1>9, BroadcastHeard DEF StoreFails
    <2>2. state' \in [Messages -> D!State]
      BY <1>9 DEF StoreFails, D!Withdraw, D!Move, D!State, TypeOK
    <2>3. /\ failures' \in Nat /\ crashes' \in Nat
          /\ failures' + crashes' <= MaxFaults
      BY <1>9 DEF StoreFails, TypeOK
    <2> QED
      BY <1>9, <2>1, <2>2, <2>3 DEF StoreFails, D!Withdraw, Heard, TypeOK
  <1>10. ASSUME NEW e \in Messages, TakeUp(e) PROVE TypeOK'
    BY <1>10 DEF TakeUp, MayTakeUp, D!Begin, D!Move, Goto, TypeOK, TaskPc, D!State
  <1>11. ASSUME NEW e \in Messages, SubmitReturns(e) PROVE TypeOK'
    BY <1>11 DEF SubmitReturns, Goto, TypeOK, TaskPc, D!State
  <1>12. ASSUME NEW e \in Messages, Check(e) PROVE TypeOK'
    <2>1. Looked(e, "subscribe")
      BY <1>12, LookFinds DEF Check
    <2>2. UNCHANGED <<runtimeVars, stream, inbox, procVars>>
      BY <2>1 DEF Looked
    <2>3. CASE \E f \in Messages : /\ reply' = [reply EXCEPT ![e] = f]
                                      /\ task' = [task EXCEPT ![e] = "send"]
      BY <2>2, <2>3 DEF TypeOK, TaskPc
    <2>4. CASE task' = [task EXCEPT ![e] = "subscribe"] /\ UNCHANGED reply
      BY <2>2, <2>4 DEF TypeOK, TaskPc
    <2> QED
      BY <2>1, <2>3, <2>4 DEF Looked
  <1>13. ASSUME NEW e \in Messages, Subscribe(e) PROVE TypeOK'
    BY <1>13 DEF Subscribe, Goto, TypeOK, TaskPc, D!State
  <1>14. ASSUME NEW e \in Messages, Recheck(e) PROVE TypeOK'
    <2>1. Looked(e, "wait")
      BY <1>14, LookFinds DEF Recheck
    <2>2. UNCHANGED <<runtimeVars, stream, inbox, procVars>>
      BY <2>1 DEF Looked
    <2>3. CASE \E f \in Messages : /\ reply' = [reply EXCEPT ![e] = f]
                                      /\ task' = [task EXCEPT ![e] = "send"]
      BY <2>2, <2>3 DEF TypeOK, TaskPc
    <2>4. CASE task' = [task EXCEPT ![e] = "wait"] /\ UNCHANGED reply
      BY <2>2, <2>4 DEF TypeOK, TaskPc
    <2> QED
      BY <2>1, <2>3, <2>4 DEF Looked
  <1>15. ASSUME NEW e \in Messages, ReceiveEvent(e) PROVE TypeOK'
    <2>1. Taken(e)
      BY <1>15, TailTakes DEF ReceiveEvent
    <2>0. inbox' \in [Messages -> Seq(Event)]
      BY <2>1 DEF Taken
    <2>2. inbox[e][1].of \in Messages
      BY <2>1 DEF Taken, Event
    <2>3. UNCHANGED <<runtimeVars, stream, procVars>>
      BY <1>15 DEF ReceiveEvent
    <2>4. ASSUME NEW f \in Messages, reply' = [reply EXCEPT ![e] = f], Goto(e, "send")
          PROVE  TypeOK'
      BY <2>0, <2>3, <2>4
         DEF Goto, TypeOK, TaskPc
    <2>5. CASE (Goto(e, "gave_up") \/ Goto(e, "recheck")) /\ UNCHANGED reply
      BY <2>0, <2>3, <2>5
         DEF Goto, TypeOK, TaskPc
    <2> QED
      BY <1>15, <2>1, <2>2, <2>4, <2>5 DEF ReceiveEvent, Taken
  <1>16. ASSUME NEW e \in Messages, StreamEnds(e) PROVE TypeOK'
    BY <1>16 DEF StreamEnds, Goto, TypeOK, TaskPc, D!State
  <1>17. ASSUME NEW e \in Messages, LastCheck(e) PROVE TypeOK'
    <2>1. Looked(e, "gave_up")
      BY <1>17, LookFinds DEF LastCheck
    <2>2. UNCHANGED <<runtimeVars, stream, inbox, procVars>>
      BY <2>1 DEF Looked
    <2>3. CASE \E f \in Messages : /\ reply' = [reply EXCEPT ![e] = f]
                                      /\ task' = [task EXCEPT ![e] = "send"]
      BY <2>2, <2>3 DEF TypeOK, TaskPc
    <2>4. CASE task' = [task EXCEPT ![e] = "gave_up"] /\ UNCHANGED reply
      BY <2>2, <2>4 DEF TypeOK, TaskPc
    <2> QED
      BY <2>1, <2>3, <2>4 DEF Looked
  <1>18. ASSUME NEW e \in Messages, CallFails(e) PROVE TypeOK'
    BY <1>18 DEF CallFails, MayTakeUp, Goto, TypeOK, TaskPc, D!State
  <1>19. ASSUME NEW e \in Messages, Send(e) PROVE TypeOK'
    BY <1>19 DEF Send, Goto, TypeOK, TaskPc, D!State
  <1>20. ASSUME NEW e \in Messages, PumpConnects(e) PROVE TypeOK'
    BY <1>20 DEF PumpConnects, TypeOK, TaskPc, D!State
  <1>21. ASSUME NEW e \in Messages, Timeout(e) PROVE TypeOK'
    BY <1>21 DEF Timeout, TurnOver, InHistory, Goto, TypeOK, TaskPc, D!State
  <1>22. CASE GatewayDies
    <2>1. /\ state' \in [Messages -> D!State]
          /\ onRecord' \subseteq Messages /\ kept' \subseteq Messages
      BY <1>22 DEF GatewayDies, D!Drop, D!State, TypeOK
    <2>2. stream' \in [Messages -> {"none", "connecting", "open", "closed"}]
      BY <1>22 DEF GatewayDies, TypeOK
    <2>3. dated' \subseteq Messages /\ up' \in BOOLEAN
      BY <1>22 DEF GatewayDies, TypeOK
    <2>4. crashes' \in Nat /\ failures' + crashes' <= MaxFaults
      BY <1>22 DEF GatewayDies, TypeOK
    <2>5. UNCHANGED <<answers, early, task, inbox, reply, reads, before, late,
                    failures>>
      BY <1>22 DEF GatewayDies
    <2> QED
      BY <2>1, <2>2, <2>3, <2>4, <2>5 DEF TypeOK
  <1>23. CASE GatewayRestarts
    BY <1>23 DEF GatewayRestarts, TypeOK, TaskPc, D!State
  <1>24. CASE UNCHANGED vars
    BY <1>24 DEF vars, TypeOK, TaskPc, D!State
  <1> QED
    BY <1>1, <1>2, <1>3, <1>4, <1>5, <1>6, <1>7, <1>8, <1>9, <1>10, <1>11, <1>12,
           <1>13, <1>14, <1>15, <1>16, <1>17, <1>18, <1>19, <1>20, <1>21, <1>22,
           <1>23, <1>24 DEF Next, RuntimeStep, WaitStep

\* The initial state satisfies TurnInv.
LEMMA TurnInit == Init => TurnInv
  <1>1. DOMAIN <<>> = {}
    OBVIOUS
  <1> QED
    BY <1>1 DEF Init, D!Init, TurnInv, TurnOf, Busy

\* What messages, answers and streams say of a turn stays true: the runtime's steps
\* follow submit, run_provider and append_message, the connector's its own order.
LEMMA TurnStep ==
  ASSUME TypeOK, TurnInv, [Next]_vars
  PROVE  TurnInv'
  <1>1. ASSUME NEW e \in Messages, Record(e) PROVE TurnInv'
    BY <1>1 DEF Record, D!Record, TurnInv, TurnOf, Busy, TypeOK, D!State
  <1>2. ASSUME NEW e \in Messages, Accept(e) PROVE TurnInv'
    <2>1. Heard("other", e)
      BY <1>2, BroadcastHeard DEF Accept
    <2> QED
      BY <1>2, <2>1
         DEF Accept, D!Accept, D!Move, Heard, TurnInv, TurnOf, Busy, TypeOK,
             D!State
  <1>3. ASSUME NEW e \in Messages, Refuse(e) PROVE TurnInv'
    BY <1>3 DEF Refuse, D!Refuse, D!Move, TurnInv, TurnOf, Busy, TypeOK, D!State
  <1>4. ASSUME NEW e \in Messages, ReceiveAnswer(e) PROVE TurnInv'
    <2>1. Heard("other", e)
      BY <1>4, BroadcastHeard DEF ReceiveAnswer
    <2> QED
      BY <1>4, <2>1 DEF ReceiveAnswer, Heard, TurnInv, TurnOf, Busy, TypeOK, D!State
  <1>5. ASSUME NEW e \in Messages, Announce(e) PROVE TurnInv'
    <2>1. Heard("completed", e)
      BY <1>5, BroadcastHeard DEF Announce
    <2> QED
      BY <1>5, <2>1
         DEF Announce, D!Answer, D!Move, Heard, TurnInv, TurnOf, Busy, TypeOK,
             D!State
  <1>6. ASSUME NEW e \in Messages, Fail(e) PROVE TurnInv'
    <2>1. Heard("error", e)
      BY <1>6, BroadcastHeard DEF Fail
    <2> QED
      BY <1>6, <2>1
         DEF Fail, D!Fail, D!Move, Heard, TurnInv, TurnOf, Busy, TypeOK, D!State
  <1>7. ASSUME NEW e \in Messages, PushAnswer(e) PROVE TurnInv'
    <2>1. Pushed(e)
      BY <1>7, AppendPushes DEF PushAnswer
    <2> QED
      BY <1>7, <2>1
         DEF PushAnswer, InHistory, Pushed, TurnInv, TurnOf, Busy, TypeOK, D!State
  <1>8. ASSUME NEW e \in Messages, StoreAnswer(e) PROVE TurnInv'
    BY <1>8 DEF StoreAnswer, InHistory, D!Keep, TurnInv, TurnOf, Busy, TypeOK, D!State
  <1>9. ASSUME NEW e \in Messages, StoreFails(e) PROVE TurnInv'
    <2>1. Heard("error", e)
      BY <1>9, BroadcastHeard DEF StoreFails
    <2> QED
      BY <1>9, <2>1
         DEF StoreFails, InHistory, D!Withdraw, D!Move, Heard, TurnInv, TurnOf,
             Busy, TypeOK, D!State
  <1>10. ASSUME NEW e \in Messages, TakeUp(e) PROVE TurnInv'
    BY <1>10
       DEF TakeUp, MayTakeUp, D!Begin, D!Move, Goto, TurnInv, TurnOf, Busy,
           TypeOK, D!State
  <1>11. ASSUME NEW e \in Messages, SubmitReturns(e) PROVE TurnInv'
    BY <1>11 DEF SubmitReturns, Goto, TurnInv, TurnOf, Busy, TypeOK, D!State
  <1>12. ASSUME NEW e \in Messages, Check(e) PROVE TurnInv'
    <2>1. Looked(e, "subscribe")
      BY <1>12, LookFinds DEF Check
    <2>2. up /\ UNCHANGED <<runtimeVars, stream, inbox, procVars>>
      BY <2>1 DEF Looked
    <2>3. ASSUME NEW f \in Messages, InHistory(f), f \notin early[e],
                 reply' = [reply EXCEPT ![e] = f], task' = [task EXCEPT ![e] = "send"]
          PROVE  TurnInv'
      BY <1>12, <2>2, <2>3
         DEF Check, InHistory, TurnInv, TurnOf, Busy, TypeOK, D!State
    <2>4. ASSUME \A f \in Messages : InHistory(f) => f \in early[e],
                 task' = [task EXCEPT ![e] = "subscribe"], UNCHANGED reply
          PROVE  TurnInv'
      BY <1>12, <2>2, <2>4
         DEF Check, InHistory, TurnInv, TurnOf, Busy, TypeOK, D!State
    <2> QED
      BY <2>1, <2>3, <2>4 DEF Looked
  <1>13. ASSUME NEW e \in Messages, Subscribe(e) PROVE TurnInv'
    BY <1>13 DEF Subscribe, Goto, TurnInv, TurnOf, Busy, TypeOK, D!State
  <1>14. ASSUME NEW e \in Messages, Recheck(e) PROVE TurnInv'
    <2>1. Looked(e, "wait")
      BY <1>14, LookFinds DEF Recheck
    <2>2. up /\ UNCHANGED <<runtimeVars, stream, inbox, procVars>>
      BY <2>1 DEF Looked
    <2>3. ASSUME NEW f \in Messages, InHistory(f), f \notin early[e],
                 reply' = [reply EXCEPT ![e] = f], task' = [task EXCEPT ![e] = "send"]
          PROVE  TurnInv'
      BY <1>14, <2>2, <2>3
         DEF Recheck, InHistory, TurnInv, TurnOf, Busy, TypeOK, D!State
    <2>4. ASSUME \A f \in Messages : InHistory(f) => f \in early[e],
                 task' = [task EXCEPT ![e] = "wait"], UNCHANGED reply
          PROVE  TurnInv'
      BY <1>14, <2>2, <2>4
         DEF Recheck, InHistory, TurnInv, TurnOf, Busy, TypeOK, D!State
    <2> QED
      BY <2>1, <2>3, <2>4 DEF Looked
  <1>15. ASSUME NEW e \in Messages, ReceiveEvent(e) PROVE TurnInv'
    <2>1. Taken(e)
      BY <1>15, TailTakes DEF ReceiveEvent
    <2> QED
      BY <1>15, <2>1
         DEF ReceiveEvent, Goto, Taken, TurnInv, TurnOf, Busy, TypeOK, D!State
  <1>16. ASSUME NEW e \in Messages, StreamEnds(e) PROVE TurnInv'
    BY <1>16 DEF StreamEnds, Goto, TurnInv, TurnOf, Busy, TypeOK, D!State
  <1>17. ASSUME NEW e \in Messages, LastCheck(e) PROVE TurnInv'
    <2>1. Looked(e, "gave_up")
      BY <1>17, LookFinds DEF LastCheck
    <2>2. up /\ UNCHANGED <<runtimeVars, stream, inbox, procVars>>
      BY <2>1 DEF Looked
    <2>3. ASSUME NEW f \in Messages, InHistory(f), f \notin early[e],
                 reply' = [reply EXCEPT ![e] = f], task' = [task EXCEPT ![e] = "send"]
          PROVE  TurnInv'
      BY <1>17, <2>2, <2>3
         DEF LastCheck, InHistory, TurnInv, TurnOf, Busy, TypeOK, D!State
    <2>4. ASSUME \A f \in Messages : InHistory(f) => f \in early[e],
                 task' = [task EXCEPT ![e] = "gave_up"], UNCHANGED reply
          PROVE  TurnInv'
      BY <1>17, <2>2, <2>4
         DEF LastCheck, InHistory, TurnInv, TurnOf, Busy, TypeOK, D!State
    <2> QED
      BY <2>1, <2>3, <2>4 DEF Looked
  <1>18. ASSUME NEW e \in Messages, CallFails(e) PROVE TurnInv'
    BY <1>18 DEF CallFails, MayTakeUp, Goto, TurnInv, TurnOf, Busy, TypeOK, D!State
  <1>19. ASSUME NEW e \in Messages, Send(e) PROVE TurnInv'
    BY <1>19 DEF Send, Goto, TurnInv, TurnOf, Busy, TypeOK, D!State
  <1>20. ASSUME NEW e \in Messages, PumpConnects(e) PROVE TurnInv'
    BY <1>20 DEF PumpConnects, TurnInv, TurnOf, Busy, TypeOK, D!State
  <1>21. ASSUME NEW e \in Messages, Timeout(e) PROVE TurnInv'
    BY <1>21
       DEF Timeout, TurnOver, InHistory, Goto, TurnInv, TurnOf, Busy, TypeOK,
           D!State
  <1>22. CASE GatewayDies
    BY <1>22 DEF GatewayDies, D!Drop, TurnInv, TurnOf, Busy, TypeOK, D!State
  <1>23. CASE GatewayRestarts
    BY <1>23 DEF GatewayRestarts, TurnInv, TurnOf, Busy, TypeOK, D!State
  <1>24. CASE UNCHANGED vars
    BY <1>24 DEF vars, TurnInv, TurnOf, Busy, TypeOK, D!State
  <1> QED
    BY <1>1, <1>2, <1>3, <1>4, <1>5, <1>6, <1>7, <1>8, <1>9, <1>10, <1>11, <1>12,
           <1>13, <1>14, <1>15, <1>16, <1>17, <1>18, <1>19, <1>20, <1>21, <1>22,
           <1>23, <1>24 DEF Next, RuntimeStep, WaitStep

\* The initial state satisfies CrashInv.
LEMMA CrashInit == Init => CrashInv
  BY DEF Init, D!Init, CrashInv, CrashOf, Running

\* A stream ends, and an answer is lost, only by a death of the gateway.
LEMMA CrashStep ==
  ASSUME TypeOK, TurnInv, CrashInv, [Next]_vars
  PROVE  CrashInv'
  <1>1. ASSUME NEW e \in Messages, Record(e) PROVE CrashInv'
    BY <1>1
       DEF Record, D!Record, CrashInv, CrashOf, Running, TypeOK, D!State, TurnInv,
           TurnOf
  <1>2. ASSUME NEW e \in Messages, Accept(e) PROVE CrashInv'
    <2>1. Heard("other", e)
      BY <1>2, BroadcastHeard DEF Accept
    <2> QED
      BY <1>2, <2>1
         DEF Accept, D!Accept, D!Move, Heard, CrashInv, CrashOf, Running, TypeOK,
             D!State, TurnInv, TurnOf
  <1>3. ASSUME NEW e \in Messages, Refuse(e) PROVE CrashInv'
    BY <1>3
       DEF Refuse, D!Refuse, D!Move, CrashInv, CrashOf, Running, TypeOK, D!State,
           TurnInv, TurnOf
  <1>4. ASSUME NEW e \in Messages, ReceiveAnswer(e) PROVE CrashInv'
    <2>1. Heard("other", e)
      BY <1>4, BroadcastHeard DEF ReceiveAnswer
    <2> QED
      BY <1>4, <2>1
         DEF ReceiveAnswer, Heard, CrashInv, CrashOf, Running, TypeOK, D!State,
             TurnInv, TurnOf
  <1>5. ASSUME NEW e \in Messages, Announce(e) PROVE CrashInv'
    <2>1. Heard("completed", e)
      BY <1>5, BroadcastHeard DEF Announce
    <2> QED
      BY <1>5, <2>1
         DEF Announce, D!Answer, D!Move, Heard, CrashInv, CrashOf, Running,
             TypeOK, D!State, TurnInv, TurnOf
  <1>6. ASSUME NEW e \in Messages, Fail(e) PROVE CrashInv'
    <2>1. Heard("error", e)
      BY <1>6, BroadcastHeard DEF Fail
    <2> QED
      BY <1>6, <2>1
         DEF Fail, D!Fail, D!Move, Heard, CrashInv, CrashOf, Running, TypeOK,
             D!State, TurnInv, TurnOf
  <1>7. ASSUME NEW e \in Messages, PushAnswer(e) PROVE CrashInv'
    <2>1. Pushed(e)
      BY <1>7, AppendPushes DEF PushAnswer
    <2> QED
      BY <1>7, <2>1
         DEF PushAnswer, InHistory, Pushed, CrashInv, CrashOf, Running, TypeOK,
             D!State, TurnInv, TurnOf
  <1>8. ASSUME NEW e \in Messages, StoreAnswer(e) PROVE CrashInv'
    BY <1>8
       DEF StoreAnswer, InHistory, D!Keep, CrashInv, CrashOf, Running, TypeOK,
           D!State, TurnInv, TurnOf
  <1>9. ASSUME NEW e \in Messages, StoreFails(e) PROVE CrashInv'
    <2>1. Heard("error", e)
      BY <1>9, BroadcastHeard DEF StoreFails
    <2> QED
      BY <1>9, <2>1
         DEF StoreFails, InHistory, D!Withdraw, D!Move, Heard, CrashInv, CrashOf,
             Running, TypeOK, D!State, TurnInv, TurnOf
  <1>10. ASSUME NEW e \in Messages, TakeUp(e) PROVE CrashInv'
    BY <1>10
       DEF TakeUp, MayTakeUp, D!Begin, D!Move, Goto, CrashInv, CrashOf, Running,
           TypeOK, D!State, TurnInv, TurnOf
  <1>11. ASSUME NEW e \in Messages, SubmitReturns(e) PROVE CrashInv'
    BY <1>11
       DEF SubmitReturns, Goto, CrashInv, CrashOf, Running, TypeOK, D!State,
           TurnInv, TurnOf
  <1>12. ASSUME NEW e \in Messages, Check(e) PROVE CrashInv'
    <2>1. Looked(e, "subscribe")
      BY <1>12, LookFinds DEF Check
    <2>2. up /\ UNCHANGED <<runtimeVars, stream, inbox, procVars>>
      BY <2>1 DEF Looked
    <2>3. ASSUME NEW f \in Messages, InHistory(f), f \notin early[e],
                 reply' = [reply EXCEPT ![e] = f], task' = [task EXCEPT ![e] = "send"]
          PROVE  CrashInv'
      BY <1>12, <2>2, <2>3
         DEF Check, InHistory, CrashInv, CrashOf, Running, TypeOK, D!State,
             TurnInv, TurnOf
    <2>4. ASSUME \A f \in Messages : InHistory(f) => f \in early[e],
                 task' = [task EXCEPT ![e] = "subscribe"], UNCHANGED reply
          PROVE  CrashInv'
      BY <1>12, <2>2, <2>4
         DEF Check, InHistory, CrashInv, CrashOf, Running, TypeOK, D!State,
             TurnInv, TurnOf
    <2> QED
      BY <2>1, <2>3, <2>4 DEF Looked
  <1>13. ASSUME NEW e \in Messages, Subscribe(e) PROVE CrashInv'
    BY <1>13
       DEF Subscribe, Goto, CrashInv, CrashOf, Running, TypeOK, D!State, TurnInv,
           TurnOf
  <1>14. ASSUME NEW e \in Messages, Recheck(e) PROVE CrashInv'
    <2>1. Looked(e, "wait")
      BY <1>14, LookFinds DEF Recheck
    <2>2. up /\ UNCHANGED <<runtimeVars, stream, inbox, procVars>>
      BY <2>1 DEF Looked
    <2>3. ASSUME NEW f \in Messages, InHistory(f), f \notin early[e],
                 reply' = [reply EXCEPT ![e] = f], task' = [task EXCEPT ![e] = "send"]
          PROVE  CrashInv'
      BY <1>14, <2>2, <2>3
         DEF Recheck, InHistory, CrashInv, CrashOf, Running, TypeOK, D!State,
             TurnInv, TurnOf
    <2>4. ASSUME \A f \in Messages : InHistory(f) => f \in early[e],
                 task' = [task EXCEPT ![e] = "wait"], UNCHANGED reply
          PROVE  CrashInv'
      BY <1>14, <2>2, <2>4
         DEF Recheck, InHistory, CrashInv, CrashOf, Running, TypeOK, D!State,
             TurnInv, TurnOf
    <2> QED
      BY <2>1, <2>3, <2>4 DEF Looked
  <1>15. ASSUME NEW e \in Messages, ReceiveEvent(e) PROVE CrashInv'
    <2>1. Taken(e)
      BY <1>15, TailTakes DEF ReceiveEvent
    <2> QED
      BY <1>15, <2>1
         DEF ReceiveEvent, Goto, Taken, CrashInv, CrashOf, Running, TypeOK,
             D!State, TurnInv, TurnOf
  <1>16. ASSUME NEW e \in Messages, StreamEnds(e) PROVE CrashInv'
    BY <1>16
       DEF StreamEnds, Goto, CrashInv, CrashOf, Running, TypeOK, D!State, TurnInv,
           TurnOf
  <1>17. ASSUME NEW e \in Messages, LastCheck(e) PROVE CrashInv'
    <2>1. Looked(e, "gave_up")
      BY <1>17, LookFinds DEF LastCheck
    <2>2. up /\ UNCHANGED <<runtimeVars, stream, inbox, procVars>>
      BY <2>1 DEF Looked
    <2>3. ASSUME NEW f \in Messages, InHistory(f), f \notin early[e],
                 reply' = [reply EXCEPT ![e] = f], task' = [task EXCEPT ![e] = "send"]
          PROVE  CrashInv'
      BY <1>17, <2>2, <2>3
         DEF LastCheck, InHistory, CrashInv, CrashOf, Running, TypeOK, D!State,
             TurnInv, TurnOf
    <2>4. ASSUME \A f \in Messages : InHistory(f) => f \in early[e],
                 task' = [task EXCEPT ![e] = "gave_up"], UNCHANGED reply
          PROVE  CrashInv'
      BY <1>17, <2>2, <2>4
         DEF LastCheck, InHistory, CrashInv, CrashOf, Running, TypeOK, D!State,
             TurnInv, TurnOf
    <2> QED
      BY <2>1, <2>3, <2>4 DEF Looked
  <1>18. ASSUME NEW e \in Messages, CallFails(e) PROVE CrashInv'
    BY <1>18
       DEF CallFails, MayTakeUp, Goto, CrashInv, CrashOf, Running, TypeOK,
           D!State, TurnInv, TurnOf
  <1>19. ASSUME NEW e \in Messages, Send(e) PROVE CrashInv'
    BY <1>19
       DEF Send, Goto, CrashInv, CrashOf, Running, TypeOK, D!State, TurnInv,
           TurnOf
  <1>20. ASSUME NEW e \in Messages, PumpConnects(e) PROVE CrashInv'
    BY <1>20
       DEF PumpConnects, CrashInv, CrashOf, Running, TypeOK, D!State, TurnInv,
           TurnOf
  <1>21. ASSUME NEW e \in Messages, Timeout(e) PROVE CrashInv'
    BY <1>21
       DEF Timeout, TurnOver, InHistory, Goto, CrashInv, CrashOf, Running, TypeOK,
           D!State, TurnInv, TurnOf
  <1>22. CASE GatewayDies
    BY <1>22
       DEF GatewayDies, D!Drop, CrashInv, CrashOf, Running, TypeOK, D!State,
           TurnInv, TurnOf
  <1>23. CASE GatewayRestarts
    BY <1>23
       DEF GatewayRestarts, CrashInv, CrashOf, Running, TypeOK, D!State, TurnInv,
           TurnOf
  <1>24. CASE UNCHANGED vars
    BY <1>24 DEF vars, CrashInv, CrashOf, Running, TypeOK, D!State, TurnInv, TurnOf
  <1> QED
    BY <1>1, <1>2, <1>3, <1>4, <1>5, <1>6, <1>7, <1>8, <1>9, <1>10, <1>11, <1>12,
           <1>13, <1>14, <1>15, <1>16, <1>17, <1>18, <1>19, <1>20, <1>21, <1>22,
           <1>23, <1>24 DEF Next, RuntimeStep, WaitStep

\* The initial state satisfies WaitInv.
LEMMA WaitInit == Init => WaitInv
  <1>1. DOMAIN <<>> = {}
    OBVIOUS
  <1> QED
    BY <1>1 DEF Init, D!Init, WaitInv, Waits, WaitOf, Alone, Busy, Running

\* While no turn was late and no answer failed to be stored, no wait ends before its
\* turn, so the next message is taken up after the turn of the last one.
LEMMA AloneStep ==
  ASSUME Serial, TypeOK, TurnInv, CrashInv,
         failures = 0, failures' = 0, ~late', Alone, Waits, [Next]_vars
  PROVE  Alone'
  <1>1. ASSUME NEW e \in Messages, Record(e) PROVE Alone'
    BY <1>1
       DEF Record, D!Record, Alone, Waits, WaitOf, Busy, Running, TypeOK, D!State,
           TurnInv, TurnOf, CrashInv, CrashOf
  <1>2. ASSUME NEW e \in Messages, Accept(e) PROVE Alone'
    <2>1. Heard("other", e)
      BY <1>2, BroadcastHeard DEF Accept
    <2> QED
      BY <1>2, <2>1
         DEF Accept, D!Accept, D!Move, Heard, Alone, Waits, WaitOf, Busy, Running,
             TypeOK, D!State, TurnInv, TurnOf, CrashInv, CrashOf
  <1>3. ASSUME NEW e \in Messages, Refuse(e) PROVE Alone'
    BY <1>3
       DEF Refuse, D!Refuse, D!Move, Alone, Waits, WaitOf, Busy, Running, TypeOK,
           D!State, TurnInv, TurnOf, CrashInv, CrashOf
  <1>4. ASSUME NEW e \in Messages, ReceiveAnswer(e) PROVE Alone'
    <2>1. Heard("other", e)
      BY <1>4, BroadcastHeard DEF ReceiveAnswer
    <2> QED
      BY <1>4, <2>1
         DEF ReceiveAnswer, Heard, Alone, Waits, WaitOf, Busy, Running, TypeOK,
             D!State, TurnInv, TurnOf, CrashInv, CrashOf
  <1>5. ASSUME NEW e \in Messages, Announce(e) PROVE Alone'
    <2>1. Heard("completed", e)
      BY <1>5, BroadcastHeard DEF Announce
    <2> QED
      BY <1>5, <2>1
         DEF Announce, D!Answer, D!Move, Heard, Alone, Waits, WaitOf, Busy,
             Running, TypeOK, D!State, TurnInv, TurnOf, CrashInv, CrashOf
  <1>6. ASSUME NEW e \in Messages, Fail(e) PROVE Alone'
    <2>1. Heard("error", e)
      BY <1>6, BroadcastHeard DEF Fail
    <2> QED
      BY <1>6, <2>1
         DEF Fail, D!Fail, D!Move, Heard, Alone, Waits, WaitOf, Busy, Running,
             TypeOK, D!State, TurnInv, TurnOf, CrashInv, CrashOf
  <1>7. ASSUME NEW e \in Messages, PushAnswer(e) PROVE Alone'
    <2>1. Pushed(e)
      BY <1>7, AppendPushes DEF PushAnswer
    <2> QED
      BY <1>7, <2>1
         DEF PushAnswer, InHistory, Pushed, Alone, Waits, WaitOf, Busy, Running,
             TypeOK, D!State, TurnInv, TurnOf, CrashInv, CrashOf
  <1>8. ASSUME NEW e \in Messages, StoreAnswer(e) PROVE Alone'
    BY <1>8
       DEF StoreAnswer, InHistory, D!Keep, Alone, Waits, WaitOf, Busy, Running,
           TypeOK, D!State, TurnInv, TurnOf, CrashInv, CrashOf
  <1>9. ASSUME NEW e \in Messages, StoreFails(e) PROVE Alone'
    <2>1. Heard("error", e)
      BY <1>9, BroadcastHeard DEF StoreFails
    <2> QED
      BY <1>9, <2>1
         DEF StoreFails, InHistory, D!Withdraw, D!Move, Heard, Alone, Waits,
             WaitOf, Busy, Running, TypeOK, D!State, TurnInv, TurnOf, CrashInv,
             CrashOf
  <1>10. ASSUME NEW e \in Messages, TakeUp(e) PROVE Alone'
    BY <1>10
       DEF TakeUp, MayTakeUp, D!Begin, D!Move, Goto, Alone, Waits, WaitOf, Busy,
           Running, TypeOK, D!State, TurnInv, TurnOf, CrashInv, CrashOf
  <1>11. ASSUME NEW e \in Messages, SubmitReturns(e) PROVE Alone'
    BY <1>11
       DEF SubmitReturns, Goto, Alone, Waits, WaitOf, Busy, Running, TypeOK,
           D!State, TurnInv, TurnOf, CrashInv, CrashOf
  <1>12. ASSUME NEW e \in Messages, Check(e) PROVE Alone'
    <2>1. Looked(e, "subscribe")
      BY <1>12, LookFinds DEF Check
    <2>2. up /\ UNCHANGED <<runtimeVars, stream, inbox, procVars>>
      BY <2>1 DEF Looked
    <2>3. ASSUME NEW f \in Messages, InHistory(f), f \notin early[e],
                 reply' = [reply EXCEPT ![e] = f], task' = [task EXCEPT ![e] = "send"]
          PROVE  Alone'
      BY <1>12, <2>2, <2>3
         DEF Check, InHistory, Alone, Waits, WaitOf, Busy, Running, TypeOK,
             D!State, TurnInv, TurnOf, CrashInv, CrashOf
    <2>4. ASSUME \A f \in Messages : InHistory(f) => f \in early[e],
                 task' = [task EXCEPT ![e] = "subscribe"], UNCHANGED reply
          PROVE  Alone'
      BY <1>12, <2>2, <2>4
         DEF Check, InHistory, Alone, Waits, WaitOf, Busy, Running, TypeOK,
             D!State, TurnInv, TurnOf, CrashInv, CrashOf
    <2> QED
      BY <2>1, <2>3, <2>4 DEF Looked
  <1>13. ASSUME NEW e \in Messages, Subscribe(e) PROVE Alone'
    BY <1>13
       DEF Subscribe, Goto, Alone, Waits, WaitOf, Busy, Running, TypeOK, D!State,
           TurnInv, TurnOf, CrashInv, CrashOf
  <1>14. ASSUME NEW e \in Messages, Recheck(e) PROVE Alone'
    <2>1. Looked(e, "wait")
      BY <1>14, LookFinds DEF Recheck
    <2>2. up /\ UNCHANGED <<runtimeVars, stream, inbox, procVars>>
      BY <2>1 DEF Looked
    <2>3. ASSUME NEW f \in Messages, InHistory(f), f \notin early[e],
                 reply' = [reply EXCEPT ![e] = f], task' = [task EXCEPT ![e] = "send"]
          PROVE  Alone'
      BY <1>14, <2>2, <2>3
         DEF Recheck, InHistory, Alone, Waits, WaitOf, Busy, Running, TypeOK,
             D!State, TurnInv, TurnOf, CrashInv, CrashOf
    <2>4. ASSUME \A f \in Messages : InHistory(f) => f \in early[e],
                 task' = [task EXCEPT ![e] = "wait"], UNCHANGED reply
          PROVE  Alone'
      BY <1>14, <2>2, <2>4
         DEF Recheck, InHistory, Alone, Waits, WaitOf, Busy, Running, TypeOK,
             D!State, TurnInv, TurnOf, CrashInv, CrashOf
    <2> QED
      BY <2>1, <2>3, <2>4 DEF Looked
  <1>15. ASSUME NEW e \in Messages, ReceiveEvent(e) PROVE Alone'
    <2>1. Taken(e)
      BY <1>15, TailTakes DEF ReceiveEvent
    <2>2. /\ UNCHANGED state
          /\ \A f \in Messages \ {e} : task'[f] = task[f]
          /\ \/ task'[e] = "recheck"
             \/ inbox[e][1].kind \in {"completed", "error"}
      BY <1>15, <2>1 DEF ReceiveEvent, Taken, Goto, TypeOK
    <2>3. Busy(e)
      BY <1>15 DEF ReceiveEvent, Busy
    <2>4. inbox[e][1].kind \in {"completed", "error"} => ~Running(e)
      BY <2>1, <2>3 DEF Waits, WaitOf, Taken, Running
    <2> QED
      BY <2>2, <2>3, <2>4 DEF Alone, Busy, Running
  <1>16. ASSUME NEW e \in Messages, StreamEnds(e) PROVE Alone'
    BY <1>16
       DEF StreamEnds, Goto, Alone, Waits, WaitOf, Busy, Running, TypeOK, D!State,
           TurnInv, TurnOf, CrashInv, CrashOf
  <1>17. ASSUME NEW e \in Messages, LastCheck(e) PROVE Alone'
    <2>1. Looked(e, "gave_up")
      BY <1>17, LookFinds DEF LastCheck
    <2>2. up /\ UNCHANGED <<runtimeVars, stream, inbox, procVars>>
      BY <2>1 DEF Looked
    <2>3. ASSUME NEW f \in Messages, InHistory(f), f \notin early[e],
                 reply' = [reply EXCEPT ![e] = f], task' = [task EXCEPT ![e] = "send"]
          PROVE  Alone'
      BY <1>17, <2>2, <2>3
         DEF LastCheck, InHistory, Alone, Waits, WaitOf, Busy, Running, TypeOK,
             D!State, TurnInv, TurnOf, CrashInv, CrashOf
    <2>4. ASSUME \A f \in Messages : InHistory(f) => f \in early[e],
                 task' = [task EXCEPT ![e] = "gave_up"], UNCHANGED reply
          PROVE  Alone'
      BY <1>17, <2>2, <2>4
         DEF LastCheck, InHistory, Alone, Waits, WaitOf, Busy, Running, TypeOK,
             D!State, TurnInv, TurnOf, CrashInv, CrashOf
    <2> QED
      BY <2>1, <2>3, <2>4 DEF Looked
  <1>18. ASSUME NEW e \in Messages, CallFails(e) PROVE Alone'
    BY <1>18
       DEF CallFails, MayTakeUp, Goto, Alone, Waits, WaitOf, Busy, Running,
           TypeOK, D!State, TurnInv, TurnOf, CrashInv, CrashOf
  <1>19. ASSUME NEW e \in Messages, Send(e) PROVE Alone'
    BY <1>19
       DEF Send, Goto, Alone, Waits, WaitOf, Busy, Running, TypeOK, D!State,
           TurnInv, TurnOf, CrashInv, CrashOf
  <1>20. ASSUME NEW e \in Messages, PumpConnects(e) PROVE Alone'
    BY <1>20
       DEF PumpConnects, Alone, Waits, WaitOf, Busy, Running, TypeOK, D!State,
           TurnInv, TurnOf, CrashInv, CrashOf
  <1>21. ASSUME NEW e \in Messages, Timeout(e) PROVE Alone'
    BY <1>21
       DEF Timeout, TurnOver, InHistory, Goto, Alone, Waits, WaitOf, Busy,
           Running, TypeOK, D!State, TurnInv, TurnOf, CrashInv, CrashOf
  <1>22. CASE GatewayDies
    BY <1>22
       DEF GatewayDies, D!Drop, Alone, Waits, WaitOf, Busy, Running, TypeOK,
           D!State, TurnInv, TurnOf, CrashInv, CrashOf
  <1>23. CASE GatewayRestarts
    BY <1>23
       DEF GatewayRestarts, Alone, Waits, WaitOf, Busy, Running, TypeOK, D!State,
           TurnInv, TurnOf, CrashInv, CrashOf
  <1>24. CASE UNCHANGED vars
    BY <1>24
       DEF vars, Alone, Waits, WaitOf, Busy, Running, TypeOK, D!State, TurnInv,
           TurnOf, CrashInv, CrashOf
  <1> QED
    BY <1>1, <1>2, <1>3, <1>4, <1>5, <1>6, <1>7, <1>8, <1>9, <1>10, <1>11, <1>12,
           <1>13, <1>14, <1>15, <1>16, <1>17, <1>18, <1>19, <1>20, <1>21, <1>22,
           <1>23, <1>24 DEF Next, RuntimeStep, WaitStep

\* While no turn was late and no answer failed to be stored, the events and the
\* history show the message that is waited for no answer but its own.
LEMMA WaitsStep ==
  ASSUME Serial, TypeOK, TurnInv, CrashInv,
         failures = 0, failures' = 0, ~late', Alone, Waits, [Next]_vars
  PROVE  Waits'
  <1>1. ASSUME NEW e \in Messages, Record(e) PROVE Waits'
    BY <1>1
       DEF Record, D!Record, Alone, Waits, WaitOf, InHistory, Busy, Running,
           TypeOK, D!State, TurnInv, TurnOf, CrashInv, CrashOf
  <1>2. ASSUME NEW e \in Messages, Accept(e) PROVE Waits'
    <2>1. Heard("other", e)
      BY <1>2, BroadcastHeard DEF Accept
    <2>2. ASSUME NEW f \in Messages PROVE WaitOf(f)'
      <3>1. WaitOf(f) /\ TurnOf(f) /\ TurnOf(e)
        BY DEF Waits, TurnInv
      <3>2. ASSUME Busy(f)', NEW i \in DOMAIN inbox'[f]
            PROVE  /\ inbox'[f][i].kind = "completed" =>
                        inbox'[f][i].of = f /\ state'[f] = "answered"
                   /\ inbox'[f][i].kind = "error" =>
                        inbox'[f][i].of = f /\ state'[f] = "failed"
        BY <1>2, <2>1, <3>1, <3>2
           DEF Accept, D!Accept, D!Move, Heard, WaitOf, Alone, Busy, Running, TypeOK
      <3>3. /\ Busy(f)' /\ f \in onRecord' => dated' \subseteq early'[f] \cup {f}
            /\ task'[f] = "last" => ~Running(f)'
            /\ reply'[f] \in {None, f}
            /\ reply'[f] # None => ~Running(f)'
        BY <1>2, <3>1
           DEF Accept, D!Accept, D!Move, WaitOf, TurnOf, Alone, Busy, Running,
               TypeOK
      <3>4. task'[f] = "last" /\ f \notin reads' /\ crashes' = 0 =>
              state'[f] \in {"refused", "failed", "dropped"} \/ InHistory(f)'
        BY <1>2, <2>1, <3>1
           DEF Accept, D!Accept, D!Move, Heard, WaitOf, InHistory, TypeOK
      <3> QED BY <3>2, <3>3, <3>4 DEF WaitOf
    <2> QED BY <2>2 DEF Waits
  <1>3. ASSUME NEW e \in Messages, Refuse(e) PROVE Waits'
    BY <1>3
       DEF Refuse, D!Refuse, D!Move, Alone, Waits, WaitOf, InHistory, Busy,
           Running, TypeOK, D!State, TurnInv, TurnOf, CrashInv, CrashOf
  <1>4. ASSUME NEW e \in Messages, ReceiveAnswer(e) PROVE Waits'
    <2>1. Heard("other", e)
      BY <1>4, BroadcastHeard DEF ReceiveAnswer
    <2> QED
      BY <1>4, <2>1
         DEF ReceiveAnswer, Heard, Alone, Waits, WaitOf, InHistory, Busy, Running,
             TypeOK, D!State, TurnInv, TurnOf, CrashInv, CrashOf
  <1>5. ASSUME NEW e \in Messages, Announce(e) PROVE Waits'
    <2>1. Heard("completed", e)
      BY <1>5, BroadcastHeard DEF Announce
    <2>2. ASSUME NEW f \in Messages PROVE WaitOf(f)'
      <3>1. WaitOf(f) /\ TurnOf(f) /\ TurnOf(e)
        BY DEF Waits, TurnInv
      <3>2. ASSUME Busy(f)', NEW i \in DOMAIN inbox'[f]
            PROVE  /\ inbox'[f][i].kind = "completed" =>
                        inbox'[f][i].of = f /\ state'[f] = "answered"
                   /\ inbox'[f][i].kind = "error" =>
                        inbox'[f][i].of = f /\ state'[f] = "failed"
        BY <1>5, <2>1, <3>1, <3>2
           DEF Announce, D!Answer, D!Move, Heard, WaitOf, Alone, Busy, Running, TypeOK
      <3>3. /\ Busy(f)' /\ f \in onRecord' => dated' \subseteq early'[f] \cup {f}
            /\ task'[f] = "last" => ~Running(f)'
            /\ reply'[f] \in {None, f}
            /\ reply'[f] # None => ~Running(f)'
        BY <1>5, <3>1
           DEF Announce, D!Answer, D!Move, WaitOf, TurnOf, Alone, Busy, Running,
               TypeOK
      <3>4. task'[f] = "last" /\ f \notin reads' /\ crashes' = 0 =>
              state'[f] \in {"refused", "failed", "dropped"} \/ InHistory(f)'
        BY <1>5, <2>1, <3>1
           DEF Announce, D!Answer, D!Move, Heard, WaitOf, InHistory, TypeOK
      <3> QED BY <3>2, <3>3, <3>4 DEF WaitOf
    <2> QED BY <2>2 DEF Waits
  <1>6. ASSUME NEW e \in Messages, Fail(e) PROVE Waits'
    <2>1. Heard("error", e)
      BY <1>6, BroadcastHeard DEF Fail
    <2> QED
      BY <1>6, <2>1
         DEF Fail, D!Fail, D!Move, Heard, Alone, Waits, WaitOf, InHistory, Busy,
             Running, TypeOK, D!State, TurnInv, TurnOf, CrashInv, CrashOf
  <1>7. ASSUME NEW e \in Messages, PushAnswer(e) PROVE Waits'
    <2>1. Pushed(e)
      BY <1>7, AppendPushes DEF PushAnswer
    <2>2. ASSUME NEW f \in Messages PROVE WaitOf(f)'
      <3>1. WaitOf(f) /\ TurnOf(f) /\ TurnOf(e)
        BY DEF Waits, TurnInv
      <3>2. ASSUME Busy(f)', NEW i \in DOMAIN inbox'[f]
            PROVE  /\ inbox'[f][i].kind = "completed" =>
                        inbox'[f][i].of = f /\ state'[f] = "answered"
                   /\ inbox'[f][i].kind = "error" =>
                        inbox'[f][i].of = f /\ state'[f] = "failed"
        BY <1>7, <2>1, <3>1, <3>2
           DEF PushAnswer, Pushed, WaitOf, Alone, Busy, Running, TypeOK
      <3>3. /\ Busy(f)' /\ f \in onRecord' => dated' \subseteq early'[f] \cup {f}
            /\ task'[f] = "last" => ~Running(f)'
            /\ reply'[f] \in {None, f}
            /\ reply'[f] # None => ~Running(f)'
        BY <1>7, <3>1 DEF PushAnswer, WaitOf, TurnOf, Alone, Busy, Running, TypeOK
      <3>4. task'[f] = "last" /\ f \notin reads' /\ crashes' = 0 =>
              state'[f] \in {"refused", "failed", "dropped"} \/ InHistory(f)'
        BY <1>7, <2>1, <3>1 DEF PushAnswer, Pushed, WaitOf, InHistory, TypeOK
      <3> QED BY <3>2, <3>3, <3>4 DEF WaitOf
    <2> QED BY <2>2 DEF Waits
  <1>8. ASSUME NEW e \in Messages, StoreAnswer(e) PROVE Waits'
    BY <1>8
       DEF StoreAnswer, InHistory, D!Keep, Alone, Waits, WaitOf, InHistory, Busy,
           Running, TypeOK, D!State, TurnInv, TurnOf, CrashInv, CrashOf
  <1>9. ASSUME NEW e \in Messages, StoreFails(e) PROVE Waits'
    <2>1. Heard("error", e)
      BY <1>9, BroadcastHeard DEF StoreFails
    <2> QED
      BY <1>9, <2>1
         DEF StoreFails, InHistory, D!Withdraw, D!Move, Heard, Alone, Waits,
             WaitOf, InHistory, Busy, Running, TypeOK, D!State, TurnInv, TurnOf,
             CrashInv, CrashOf
  <1>10. ASSUME NEW e \in Messages, TakeUp(e) PROVE Waits'
    <2>1. ASSUME NEW f \in Messages PROVE WaitOf(f)'
      <3>1. WaitOf(f) /\ TurnOf(f) /\ TurnOf(e)
        BY DEF Waits, TurnInv
      <3>2. inbox[e] = <<>> /\ e \notin onRecord /\ reply[e] = None
        BY <1>10, <3>1 DEF TakeUp, MayTakeUp, TurnOf, TypeOK
      <3>3. /\ UNCHANGED <<onRecord, dated, answers, early, inbox, reply, reads, crashes>>
            /\ state'[e] = "pending" /\ task'[e] = "submit"
            /\ \A g \in Messages \ {e} : state'[g] = state[g] /\ task'[g] = task[g]
        BY <1>10 DEF TakeUp, D!Begin, D!Move, Goto, TypeOK
      <3>4. DOMAIN <<>> = {}
        OBVIOUS
      <3>5. CASE f = e
        BY <3>2, <3>3, <3>4, <3>5 DEF WaitOf
      <3>6. CASE f # e
        BY <3>1, <3>3, <3>6 DEF WaitOf, Busy, Running, InHistory
      <3> QED
        BY <3>5, <3>6
    <2> QED BY <2>1 DEF Waits
  <1>11. ASSUME NEW e \in Messages, SubmitReturns(e) PROVE Waits'
    BY <1>11
       DEF SubmitReturns, Goto, Alone, Waits, WaitOf, InHistory, Busy, Running,
           TypeOK, D!State, TurnInv, TurnOf, CrashInv, CrashOf
  <1>12. ASSUME NEW e \in Messages, Check(e) PROVE Waits'
    <2>1. Looked(e, "subscribe")
      BY <1>12, LookFinds DEF Check
    <2>2. up /\ UNCHANGED <<runtimeVars, stream, inbox, procVars>>
      BY <2>1 DEF Looked
    <2>3. ASSUME NEW f \in Messages, InHistory(f), f \notin early[e],
                 reply' = [reply EXCEPT ![e] = f], task' = [task EXCEPT ![e] = "send"]
          PROVE  Waits'
      BY <1>12, <2>2, <2>3
         DEF Check, InHistory, Alone, Waits, WaitOf, InHistory, Busy, Running,
             TypeOK, D!State, TurnInv, TurnOf, CrashInv, CrashOf
    <2>4. ASSUME \A f \in Messages : InHistory(f) => f \in early[e],
                 task' = [task EXCEPT ![e] = "subscribe"], UNCHANGED reply
          PROVE  Waits'
      BY <1>12, <2>2, <2>4
         DEF Check, InHistory, Alone, Waits, WaitOf, InHistory, Busy, Running,
             TypeOK, D!State, TurnInv, TurnOf, CrashInv, CrashOf
    <2> QED
      BY <2>1, <2>3, <2>4 DEF Looked
  <1>13. ASSUME NEW e \in Messages, Subscribe(e) PROVE Waits'
    BY <1>13
       DEF Subscribe, Goto, Alone, Waits, WaitOf, InHistory, Busy, Running,
           TypeOK, D!State, TurnInv, TurnOf, CrashInv, CrashOf
  <1>14. ASSUME NEW e \in Messages, Recheck(e) PROVE Waits'
    <2>1. Looked(e, "wait")
      BY <1>14, LookFinds DEF Recheck
    <2>2. up /\ UNCHANGED <<runtimeVars, stream, inbox, procVars>>
      BY <2>1 DEF Looked
    <2>3. ASSUME NEW f \in Messages, InHistory(f), f \notin early[e],
                 reply' = [reply EXCEPT ![e] = f], task' = [task EXCEPT ![e] = "send"]
          PROVE  Waits'
      BY <1>14, <2>2, <2>3
         DEF Recheck, InHistory, Alone, Waits, WaitOf, InHistory, Busy, Running,
             TypeOK, D!State, TurnInv, TurnOf, CrashInv, CrashOf
    <2>4. ASSUME \A f \in Messages : InHistory(f) => f \in early[e],
                 task' = [task EXCEPT ![e] = "wait"], UNCHANGED reply
          PROVE  Waits'
      BY <1>14, <2>2, <2>4
         DEF Recheck, InHistory, Alone, Waits, WaitOf, InHistory, Busy, Running,
             TypeOK, D!State, TurnInv, TurnOf, CrashInv, CrashOf
    <2> QED
      BY <2>1, <2>3, <2>4 DEF Looked
  <1>15. ASSUME NEW e \in Messages, ReceiveEvent(e) PROVE Waits'
    <2>1. Taken(e)
      BY <1>15, TailTakes DEF ReceiveEvent
    <2> QED
      BY <1>15, <2>1
         DEF ReceiveEvent, Goto, Taken, Alone, Waits, WaitOf, InHistory, Busy,
             Running, TypeOK, D!State, TurnInv, TurnOf, CrashInv, CrashOf
  <1>16. ASSUME NEW e \in Messages, StreamEnds(e) PROVE Waits'
    BY <1>16
       DEF StreamEnds, Goto, Alone, Waits, WaitOf, InHistory, Busy, Running,
           TypeOK, D!State, TurnInv, TurnOf, CrashInv, CrashOf
  <1>17. ASSUME NEW e \in Messages, LastCheck(e) PROVE Waits'
    <2>1. Looked(e, "gave_up")
      BY <1>17, LookFinds DEF LastCheck
    <2>2. up /\ UNCHANGED <<runtimeVars, stream, inbox, procVars>>
      BY <2>1 DEF Looked
    <2>3. ASSUME NEW f \in Messages, InHistory(f), f \notin early[e],
                 reply' = [reply EXCEPT ![e] = f], task' = [task EXCEPT ![e] = "send"]
          PROVE  Waits'
      BY <1>17, <2>2, <2>3
         DEF LastCheck, InHistory, Alone, Waits, WaitOf, InHistory, Busy, Running,
             TypeOK, D!State, TurnInv, TurnOf, CrashInv, CrashOf
    <2>4. ASSUME \A f \in Messages : InHistory(f) => f \in early[e],
                 task' = [task EXCEPT ![e] = "gave_up"], UNCHANGED reply
          PROVE  Waits'
      BY <1>17, <2>2, <2>4
         DEF LastCheck, InHistory, Alone, Waits, WaitOf, InHistory, Busy, Running,
             TypeOK, D!State, TurnInv, TurnOf, CrashInv, CrashOf
    <2> QED
      BY <2>1, <2>3, <2>4 DEF Looked
  <1>18. ASSUME NEW e \in Messages, CallFails(e) PROVE Waits'
    BY <1>18
       DEF CallFails, MayTakeUp, Goto, Alone, Waits, WaitOf, InHistory, Busy,
           Running, TypeOK, D!State, TurnInv, TurnOf, CrashInv, CrashOf
  <1>19. ASSUME NEW e \in Messages, Send(e) PROVE Waits'
    BY <1>19
       DEF Send, Goto, Alone, Waits, WaitOf, InHistory, Busy, Running, TypeOK,
           D!State, TurnInv, TurnOf, CrashInv, CrashOf
  <1>20. ASSUME NEW e \in Messages, PumpConnects(e) PROVE Waits'
    BY <1>20
       DEF PumpConnects, Alone, Waits, WaitOf, InHistory, Busy, Running, TypeOK,
           D!State, TurnInv, TurnOf, CrashInv, CrashOf
  <1>21. ASSUME NEW e \in Messages, Timeout(e) PROVE Waits'
    BY <1>21
       DEF Timeout, TurnOver, InHistory, Goto, Alone, Waits, WaitOf, InHistory,
           Busy, Running, TypeOK, D!State, TurnInv, TurnOf, CrashInv, CrashOf
  <1>22. CASE GatewayDies
    BY <1>22
       DEF GatewayDies, D!Drop, Alone, Waits, WaitOf, InHistory, Busy, Running,
           TypeOK, D!State, TurnInv, TurnOf, CrashInv, CrashOf
  <1>23. CASE GatewayRestarts
    BY <1>23
       DEF GatewayRestarts, Alone, Waits, WaitOf, InHistory, Busy, Running,
           TypeOK, D!State, TurnInv, TurnOf, CrashInv, CrashOf
  <1>24. CASE UNCHANGED vars
    BY <1>24
       DEF vars, Alone, Waits, WaitOf, InHistory, Busy, Running, TypeOK, D!State,
           TurnInv, TurnOf, CrashInv, CrashOf
  <1> QED
    BY <1>1, <1>2, <1>3, <1>4, <1>5, <1>6, <1>7, <1>8, <1>9, <1>10, <1>11, <1>12,
           <1>13, <1>14, <1>15, <1>16, <1>17, <1>18, <1>19, <1>20, <1>21, <1>22,
           <1>23, <1>24 DEF Next, RuntimeStep, WaitStep

\* Nothing is given up in the initial state.
LEMMA ReasonInit == Init => GaveUpForAReason
  BY DEF Init, GaveUpForAReason

\* No step gives up on a message without a reason.
LEMMA ReasonStep ==
  ASSUME Serial, TypeOK, TurnInv, CrashInv,
         WaitInv, GaveUpForAReason, [Next]_vars
  PROVE  GaveUpForAReason'
  <1>1. ASSUME NEW e \in Messages, Record(e) PROVE GaveUpForAReason'
    BY <1>1
       DEF Record, D!Record, GaveUpForAReason, TypeOK, D!State, TurnInv, TurnOf,
           CrashInv, CrashOf, WaitInv, Waits, WaitOf, Busy, Running
  <1>2. ASSUME NEW e \in Messages, Accept(e) PROVE GaveUpForAReason'
    <2>1. Heard("other", e)
      BY <1>2, BroadcastHeard DEF Accept
    <2> QED
      BY <1>2, <2>1
         DEF Accept, D!Accept, D!Move, Heard, GaveUpForAReason, TypeOK, D!State,
             TurnInv, TurnOf, CrashInv, CrashOf, WaitInv, Waits, WaitOf, Busy,
             Running
  <1>3. ASSUME NEW e \in Messages, Refuse(e) PROVE GaveUpForAReason'
    BY <1>3
       DEF Refuse, D!Refuse, D!Move, GaveUpForAReason, TypeOK, D!State, TurnInv,
           TurnOf, CrashInv, CrashOf, WaitInv, Waits, WaitOf, Busy, Running
  <1>4. ASSUME NEW e \in Messages, ReceiveAnswer(e) PROVE GaveUpForAReason'
    <2>1. Heard("other", e)
      BY <1>4, BroadcastHeard DEF ReceiveAnswer
    <2> QED
      BY <1>4, <2>1
         DEF ReceiveAnswer, Heard, GaveUpForAReason, TypeOK, D!State, TurnInv,
             TurnOf, CrashInv, CrashOf, WaitInv, Waits, WaitOf, Busy, Running
  <1>5. ASSUME NEW e \in Messages, Announce(e) PROVE GaveUpForAReason'
    <2>1. Heard("completed", e)
      BY <1>5, BroadcastHeard DEF Announce
    <2> QED
      BY <1>5, <2>1
         DEF Announce, D!Answer, D!Move, Heard, GaveUpForAReason, TypeOK, D!State,
             TurnInv, TurnOf, CrashInv, CrashOf, WaitInv, Waits, WaitOf, Busy,
             Running
  <1>6. ASSUME NEW e \in Messages, Fail(e) PROVE GaveUpForAReason'
    <2>1. Heard("error", e)
      BY <1>6, BroadcastHeard DEF Fail
    <2> QED
      BY <1>6, <2>1
         DEF Fail, D!Fail, D!Move, Heard, GaveUpForAReason, TypeOK, D!State,
             TurnInv, TurnOf, CrashInv, CrashOf, WaitInv, Waits, WaitOf, Busy,
             Running
  <1>7. ASSUME NEW e \in Messages, PushAnswer(e) PROVE GaveUpForAReason'
    <2>1. Pushed(e)
      BY <1>7, AppendPushes DEF PushAnswer
    <2> QED
      BY <1>7, <2>1
         DEF PushAnswer, InHistory, Pushed, GaveUpForAReason, TypeOK, D!State,
             TurnInv, TurnOf, CrashInv, CrashOf, WaitInv, Waits, WaitOf, Busy,
             Running
  <1>8. ASSUME NEW e \in Messages, StoreAnswer(e) PROVE GaveUpForAReason'
    BY <1>8
       DEF StoreAnswer, InHistory, D!Keep, GaveUpForAReason, TypeOK, D!State,
           TurnInv, TurnOf, CrashInv, CrashOf, WaitInv, Waits, WaitOf, Busy,
           Running
  <1>9. ASSUME NEW e \in Messages, StoreFails(e) PROVE GaveUpForAReason'
    <2>1. Heard("error", e)
      BY <1>9, BroadcastHeard DEF StoreFails
    <2> QED
      BY <1>9, <2>1
         DEF StoreFails, InHistory, D!Withdraw, D!Move, Heard, GaveUpForAReason,
             TypeOK, D!State, TurnInv, TurnOf, CrashInv, CrashOf, WaitInv, Waits,
             WaitOf, Busy, Running
  <1>10. ASSUME NEW e \in Messages, TakeUp(e) PROVE GaveUpForAReason'
    BY <1>10
       DEF TakeUp, MayTakeUp, D!Begin, D!Move, Goto, GaveUpForAReason, TypeOK,
           D!State, TurnInv, TurnOf, CrashInv, CrashOf, WaitInv, Waits, WaitOf,
           Busy, Running
  <1>11. ASSUME NEW e \in Messages, SubmitReturns(e) PROVE GaveUpForAReason'
    BY <1>11
       DEF SubmitReturns, Goto, GaveUpForAReason, TypeOK, D!State, TurnInv,
           TurnOf, CrashInv, CrashOf, WaitInv, Waits, WaitOf, Busy, Running
  <1>12. ASSUME NEW e \in Messages, Check(e) PROVE GaveUpForAReason'
    <2>1. Looked(e, "subscribe")
      BY <1>12, LookFinds DEF Check
    <2>2. up /\ UNCHANGED <<runtimeVars, stream, inbox, procVars>>
      BY <2>1 DEF Looked
    <2>3. ASSUME NEW f \in Messages, InHistory(f), f \notin early[e],
                 reply' = [reply EXCEPT ![e] = f], task' = [task EXCEPT ![e] = "send"]
          PROVE  GaveUpForAReason'
      BY <1>12, <2>2, <2>3
         DEF Check, InHistory, GaveUpForAReason, TypeOK, D!State, TurnInv, TurnOf,
             CrashInv, CrashOf, WaitInv, Waits, WaitOf, Busy, Running
    <2>4. ASSUME \A f \in Messages : InHistory(f) => f \in early[e],
                 task' = [task EXCEPT ![e] = "subscribe"], UNCHANGED reply
          PROVE  GaveUpForAReason'
      BY <1>12, <2>2, <2>4
         DEF Check, InHistory, GaveUpForAReason, TypeOK, D!State, TurnInv, TurnOf,
             CrashInv, CrashOf, WaitInv, Waits, WaitOf, Busy, Running
    <2> QED
      BY <2>1, <2>3, <2>4 DEF Looked
  <1>13. ASSUME NEW e \in Messages, Subscribe(e) PROVE GaveUpForAReason'
    BY <1>13
       DEF Subscribe, Goto, GaveUpForAReason, TypeOK, D!State, TurnInv, TurnOf,
           CrashInv, CrashOf, WaitInv, Waits, WaitOf, Busy, Running
  <1>14. ASSUME NEW e \in Messages, Recheck(e) PROVE GaveUpForAReason'
    <2>1. Looked(e, "wait")
      BY <1>14, LookFinds DEF Recheck
    <2>2. up /\ UNCHANGED <<runtimeVars, stream, inbox, procVars>>
      BY <2>1 DEF Looked
    <2>3. ASSUME NEW f \in Messages, InHistory(f), f \notin early[e],
                 reply' = [reply EXCEPT ![e] = f], task' = [task EXCEPT ![e] = "send"]
          PROVE  GaveUpForAReason'
      BY <1>14, <2>2, <2>3
         DEF Recheck, InHistory, GaveUpForAReason, TypeOK, D!State, TurnInv,
             TurnOf, CrashInv, CrashOf, WaitInv, Waits, WaitOf, Busy, Running
    <2>4. ASSUME \A f \in Messages : InHistory(f) => f \in early[e],
                 task' = [task EXCEPT ![e] = "wait"], UNCHANGED reply
          PROVE  GaveUpForAReason'
      BY <1>14, <2>2, <2>4
         DEF Recheck, InHistory, GaveUpForAReason, TypeOK, D!State, TurnInv,
             TurnOf, CrashInv, CrashOf, WaitInv, Waits, WaitOf, Busy, Running
    <2> QED
      BY <2>1, <2>3, <2>4 DEF Looked
  <1>15. ASSUME NEW e \in Messages, ReceiveEvent(e) PROVE GaveUpForAReason'
    <2>1. Taken(e)
      BY <1>15, TailTakes DEF ReceiveEvent
    <2> QED
      BY <1>15, <2>1
         DEF ReceiveEvent, Goto, Taken, GaveUpForAReason, TypeOK, D!State,
             TurnInv, TurnOf, CrashInv, CrashOf, WaitInv, Waits, WaitOf, Busy,
             Running
  <1>16. ASSUME NEW e \in Messages, StreamEnds(e) PROVE GaveUpForAReason'
    BY <1>16
       DEF StreamEnds, Goto, GaveUpForAReason, TypeOK, D!State, TurnInv, TurnOf,
           CrashInv, CrashOf, WaitInv, Waits, WaitOf, Busy, Running
  <1>17. ASSUME NEW e \in Messages, LastCheck(e) PROVE GaveUpForAReason'
    <2>1. Looked(e, "gave_up")
      BY <1>17, LookFinds DEF LastCheck
    <2>2. up /\ UNCHANGED <<runtimeVars, stream, inbox, procVars>>
      BY <2>1 DEF Looked
    <2>3. ASSUME NEW f \in Messages, InHistory(f), f \notin early[e],
                 reply' = [reply EXCEPT ![e] = f], task' = [task EXCEPT ![e] = "send"]
          PROVE  GaveUpForAReason'
      BY <1>17, <2>2, <2>3
         DEF LastCheck, InHistory, GaveUpForAReason, TypeOK, D!State, TurnInv,
             TurnOf, CrashInv, CrashOf, WaitInv, Waits, WaitOf, Busy, Running
    <2>4. ASSUME \A f \in Messages : InHistory(f) => f \in early[e],
                 task' = [task EXCEPT ![e] = "gave_up"], UNCHANGED reply
          PROVE  GaveUpForAReason'
      BY <1>17, <2>2, <2>4
         DEF LastCheck, InHistory, GaveUpForAReason, TypeOK, D!State, TurnInv,
             TurnOf, CrashInv, CrashOf, WaitInv, Waits, WaitOf, Busy, Running
    <2> QED
      BY <2>1, <2>3, <2>4 DEF Looked
  <1>18. ASSUME NEW e \in Messages, CallFails(e) PROVE GaveUpForAReason'
    BY <1>18
       DEF CallFails, MayTakeUp, Goto, GaveUpForAReason, TypeOK, D!State, TurnInv,
           TurnOf, CrashInv, CrashOf, WaitInv, Waits, WaitOf, Busy, Running
  <1>19. ASSUME NEW e \in Messages, Send(e) PROVE GaveUpForAReason'
    BY <1>19
       DEF Send, Goto, GaveUpForAReason, TypeOK, D!State, TurnInv, TurnOf,
           CrashInv, CrashOf, WaitInv, Waits, WaitOf, Busy, Running
  <1>20. ASSUME NEW e \in Messages, PumpConnects(e) PROVE GaveUpForAReason'
    BY <1>20
       DEF PumpConnects, GaveUpForAReason, TypeOK, D!State, TurnInv, TurnOf,
           CrashInv, CrashOf, WaitInv, Waits, WaitOf, Busy, Running
  <1>21. ASSUME NEW e \in Messages, Timeout(e) PROVE GaveUpForAReason'
    BY <1>21
       DEF Timeout, TurnOver, InHistory, Goto, GaveUpForAReason, TypeOK, D!State,
           TurnInv, TurnOf, CrashInv, CrashOf, WaitInv, Waits, WaitOf, Busy,
           Running
  <1>22. CASE GatewayDies
    BY <1>22
       DEF GatewayDies, D!Drop, GaveUpForAReason, TypeOK, D!State, TurnInv,
           TurnOf, CrashInv, CrashOf, WaitInv, Waits, WaitOf, Busy, Running
  <1>23. CASE GatewayRestarts
    BY <1>23
       DEF GatewayRestarts, GaveUpForAReason, TypeOK, D!State, TurnInv, TurnOf,
           CrashInv, CrashOf, WaitInv, Waits, WaitOf, Busy, Running
  <1>24. CASE UNCHANGED vars
    BY <1>24
       DEF vars, GaveUpForAReason, TypeOK, D!State, TurnInv, TurnOf, CrashInv,
           CrashOf, WaitInv, Waits, WaitOf, Busy, Running
  <1> QED
    BY <1>1, <1>2, <1>3, <1>4, <1>5, <1>6, <1>7, <1>8, <1>9, <1>10, <1>11, <1>12,
           <1>13, <1>14, <1>15, <1>16, <1>17, <1>18, <1>19, <1>20, <1>21, <1>22,
           <1>23, <1>24 DEF Next, RuntimeStep, WaitStep

\* The initial state satisfies OldInv.
LEMMA OldInit == Init => OldInv
  <1>1. DOMAIN <<>> = {}
    OBVIOUS
  <1> QED
    BY <1>1 DEF Init, D!Init, OldInv, OldOf

\* What a look finds behind the receipt is of no old turn.
LEMMA FoundIsNew ==
  ASSUME TypeOK, OldInv, NEW e \in Messages, NEW f \in Messages, e \in onRecord,
         InHistory(f), f \notin early[e], reply' = [reply EXCEPT ![e] = f],
         UNCHANGED <<runtimeVars, stream, inbox, procVars>>
  PROVE  OldInv'
  <1>1. f \notin before[e]
    BY DEF OldInv, OldOf, InHistory
  <1>2. UNCHANGED <<state, onRecord, dated, early, inbox, before>>
    OBVIOUS
  <1>3. \A g \in Messages : reply'[g] \notin before[g]
    BY <1>1 DEF OldInv, OldOf, TypeOK
  <1> QED
    BY <1>2, <1>3 DEF OldInv, OldOf

\* No step finds the answer of an old turn: its event was sent before the stream of a
\* later message opened, and its date is before the receipt.
LEMMA OldStep ==
  ASSUME TypeOK, TurnInv, OldInv, [Next]_vars
  PROVE  OldInv'
  <1>1. ASSUME NEW e \in Messages, Record(e) PROVE OldInv'
    BY <1>1
       DEF Record, D!Record, OldInv, OldOf, TurnInv, TurnOf, Busy, TypeOK, D!State
  <1>2. ASSUME NEW e \in Messages, Accept(e) PROVE OldInv'
    <2>1. Heard("other", e)
      BY <1>2, BroadcastHeard DEF Accept
    <2> QED
      BY <1>2, <2>1
         DEF Accept, D!Accept, D!Move, Heard, OldInv, OldOf, TurnInv, TurnOf, Busy,
             TypeOK,
             D!State
  <1>3. ASSUME NEW e \in Messages, Refuse(e) PROVE OldInv'
    BY <1>3
       DEF Refuse, D!Refuse, D!Move, OldInv, OldOf, TurnInv, TurnOf, Busy, TypeOK,
           D!State
  <1>4. ASSUME NEW e \in Messages, ReceiveAnswer(e) PROVE OldInv'
    <2>1. Heard("other", e)
      BY <1>4, BroadcastHeard DEF ReceiveAnswer
    <2> QED
      BY <1>4, <2>1
         DEF ReceiveAnswer, Heard, OldInv, OldOf, TurnInv, TurnOf, Busy, TypeOK,
             D!State
  <1>5. ASSUME NEW e \in Messages, Announce(e) PROVE OldInv'
    <2>1. Heard("completed", e)
      BY <1>5, BroadcastHeard DEF Announce
    <2>2. /\ UNCHANGED <<onRecord, dated, early, reply, before>>
          /\ state[e] = "accepted" /\ state' = [state EXCEPT ![e] = "answered"]
      BY <1>5 DEF Announce, D!Answer, D!Move
    <2>3. \A g \in Messages : e \notin before[g]
      BY <2>2 DEF OldInv, OldOf
    <2>4. ASSUME NEW g \in Messages PROVE OldOf(g)'
      <3>1. OldOf(g) /\ e \notin before[g]
        BY <2>3 DEF OldInv
      <3>2. \A f \in before[g] : state'[f] \in {"answered", "failed"}
        BY <2>2, <3>1 DEF OldOf, TypeOK
      <3>3. \A i \in DOMAIN inbox'[g] :
              inbox'[g][i].kind = "completed" => inbox'[g][i].of \notin before[g]
        BY <2>1, <3>1 DEF Heard, OldOf
      <3> QED
        BY <2>2, <3>1, <3>2, <3>3 DEF OldOf
    <2> QED
      BY <2>4 DEF OldInv
  <1>6. ASSUME NEW e \in Messages, Fail(e) PROVE OldInv'
    <2>1. Heard("error", e)
      BY <1>6, BroadcastHeard DEF Fail
    <2> QED
      BY <1>6, <2>1
         DEF Fail, D!Fail, D!Move, Heard, OldInv, OldOf, TurnInv, TurnOf, Busy,
             TypeOK, D!State
  <1>7. ASSUME NEW e \in Messages, PushAnswer(e) PROVE OldInv'
    <2>1. Pushed(e)
      BY <1>7, AppendPushes DEF PushAnswer
    <2> QED
      BY <1>7, <2>1
         DEF PushAnswer, InHistory, Pushed, OldInv, OldOf, TurnInv, TurnOf, Busy,
             TypeOK, D!State
  <1>8. ASSUME NEW e \in Messages, StoreAnswer(e) PROVE OldInv'
    BY <1>8
       DEF StoreAnswer, InHistory, D!Keep, OldInv, OldOf, TurnInv, TurnOf, Busy,
           TypeOK, D!State
  <1>9. ASSUME NEW e \in Messages, StoreFails(e) PROVE OldInv'
    <2>1. Heard("error", e)
      BY <1>9, BroadcastHeard DEF StoreFails
    <2> QED
      BY <1>9, <2>1
         DEF StoreFails, InHistory, D!Withdraw, D!Move, Heard, OldInv, OldOf,
             TurnInv, TurnOf,
             Busy, TypeOK, D!State
  <1>10. ASSUME NEW e \in Messages, TakeUp(e) PROVE OldInv'
    <2>1. /\ UNCHANGED <<onRecord, dated, early, inbox, reply>>
          /\ state[e] = "new" /\ state' = [state EXCEPT ![e] = "pending"]
          /\ before' = [before EXCEPT ![e] =
                          {f \in Messages : state[f] \in {"answered", "failed"}}]
          /\ task[e] = "idle"
      BY <1>10 DEF TakeUp, MayTakeUp, D!Begin, D!Move
    <2>2. e \notin onRecord /\ inbox[e] = <<>> /\ reply[e] = None
      BY <2>1 DEF TurnInv, TurnOf, TypeOK
    <2>3. ASSUME NEW g \in Messages PROVE OldOf(g)'
      <3>1. CASE g = e
        <4>1. before'[e] = {f \in Messages : state[f] \in {"answered", "failed"}}
          BY <2>1 DEF TypeOK
        <4>2. \A f \in before'[e] : state'[f] \in {"answered", "failed"}
          BY <2>1, <4>1 DEF TypeOK
        <4>3. DOMAIN inbox'[e] = {} /\ reply'[e] \notin before'[e]
          BY <2>1, <2>2, <4>1
        <4> QED
          BY <2>1, <2>2, <3>1, <4>2, <4>3 DEF OldOf
      <3>2. CASE g # e
        <4>1. OldOf(g) /\ before'[g] = before[g] /\ e \notin before[g]
          BY <2>1, <3>2 DEF OldInv, OldOf, TypeOK
        <4>2. \A f \in before[g] : state'[f] \in {"answered", "failed"}
          BY <2>1, <4>1 DEF OldOf, TypeOK
        <4> QED
          BY <2>1, <4>1, <4>2 DEF OldOf
      <3> QED BY <3>1, <3>2
    <2> QED
      BY <2>3 DEF OldInv
  <1>11. ASSUME NEW e \in Messages, SubmitReturns(e) PROVE OldInv'
    BY <1>11
       DEF SubmitReturns, Goto, OldInv, OldOf, TurnInv, TurnOf, Busy, TypeOK, D!State
  <1>12. ASSUME NEW e \in Messages, Check(e) PROVE OldInv'
    <2>1. Looked(e, "subscribe")
      BY <1>12, LookFinds DEF Check
    <2>2. up /\ UNCHANGED <<runtimeVars, stream, inbox, procVars>>
      BY <2>1 DEF Looked
    <2>3. ASSUME NEW f \in Messages, InHistory(f), f \notin early[e],
                 reply' = [reply EXCEPT ![e] = f], task' = [task EXCEPT ![e] = "send"]
          PROVE  OldInv'
      <3>1. e \in onRecord
        BY <1>12 DEF Check, TurnInv, TurnOf, Busy
      <3> QED
        BY <2>2, <2>3, <3>1, FoundIsNew
    <2>4. ASSUME \A f \in Messages : InHistory(f) => f \in early[e],
                 task' = [task EXCEPT ![e] = "subscribe"], UNCHANGED reply
          PROVE  OldInv'
      BY <1>12, <2>2, <2>4
         DEF Check, InHistory, OldInv, OldOf, TurnInv, TurnOf, Busy, TypeOK, D!State
    <2> QED
      BY <2>1, <2>3, <2>4 DEF Looked
  <1>13. ASSUME NEW e \in Messages, Subscribe(e) PROVE OldInv'
    BY <1>13
       DEF Subscribe, Goto, OldInv, OldOf, TurnInv, TurnOf, Busy, TypeOK, D!State
  <1>14. ASSUME NEW e \in Messages, Recheck(e) PROVE OldInv'
    <2>1. Looked(e, "wait")
      BY <1>14, LookFinds DEF Recheck
    <2>2. up /\ UNCHANGED <<runtimeVars, stream, inbox, procVars>>
      BY <2>1 DEF Looked
    <2>3. ASSUME NEW f \in Messages, InHistory(f), f \notin early[e],
                 reply' = [reply EXCEPT ![e] = f], task' = [task EXCEPT ![e] = "send"]
          PROVE  OldInv'
      <3>1. e \in onRecord
        BY <1>14 DEF Recheck, TurnInv, TurnOf, Busy
      <3> QED
        BY <2>2, <2>3, <3>1, FoundIsNew
    <2>4. ASSUME \A f \in Messages : InHistory(f) => f \in early[e],
                 task' = [task EXCEPT ![e] = "wait"], UNCHANGED reply
          PROVE  OldInv'
      BY <1>14, <2>2, <2>4
         DEF Recheck, InHistory, OldInv, OldOf, TurnInv, TurnOf, Busy, TypeOK, D!State
    <2> QED
      BY <2>1, <2>3, <2>4 DEF Looked
  <1>15. ASSUME NEW e \in Messages, ReceiveEvent(e) PROVE OldInv'
    <2>1. Taken(e)
      BY <1>15, TailTakes DEF ReceiveEvent
    <2> QED
      BY <1>15, <2>1
         DEF ReceiveEvent, Goto, Taken, OldInv, OldOf, TurnInv, TurnOf, Busy, TypeOK,
             D!State
  <1>16. ASSUME NEW e \in Messages, StreamEnds(e) PROVE OldInv'
    BY <1>16
       DEF StreamEnds, Goto, OldInv, OldOf, TurnInv, TurnOf, Busy, TypeOK, D!State
  <1>17. ASSUME NEW e \in Messages, LastCheck(e) PROVE OldInv'
    <2>1. Looked(e, "gave_up")
      BY <1>17, LookFinds DEF LastCheck
    <2>2. up /\ UNCHANGED <<runtimeVars, stream, inbox, procVars>>
      BY <2>1 DEF Looked
    <2>3. ASSUME NEW f \in Messages, InHistory(f), f \notin early[e],
                 reply' = [reply EXCEPT ![e] = f], task' = [task EXCEPT ![e] = "send"]
          PROVE  OldInv'
      <3>1. e \in onRecord
        BY <1>17 DEF LastCheck, TurnInv, TurnOf, Busy
      <3> QED
        BY <2>2, <2>3, <3>1, FoundIsNew
    <2>4. ASSUME \A f \in Messages : InHistory(f) => f \in early[e],
                 task' = [task EXCEPT ![e] = "gave_up"], UNCHANGED reply
          PROVE  OldInv'
      BY <1>17, <2>2, <2>4
         DEF LastCheck, InHistory, OldInv, OldOf, TurnInv, TurnOf, Busy, TypeOK,
             D!State
    <2> QED
      BY <2>1, <2>3, <2>4 DEF Looked
  <1>18. ASSUME NEW e \in Messages, CallFails(e) PROVE OldInv'
    BY <1>18
       DEF CallFails, MayTakeUp, Goto, OldInv, OldOf, TurnInv, TurnOf, Busy, TypeOK,
           D!State
  <1>19. ASSUME NEW e \in Messages, Send(e) PROVE OldInv'
    BY <1>19 DEF Send, Goto, OldInv, OldOf, TurnInv, TurnOf, Busy, TypeOK, D!State
  <1>20. ASSUME NEW e \in Messages, PumpConnects(e) PROVE OldInv'
    BY <1>20 DEF PumpConnects, OldInv, OldOf, TurnInv, TurnOf, Busy, TypeOK, D!State
  <1>21. ASSUME NEW e \in Messages, Timeout(e) PROVE OldInv'
    BY <1>21
       DEF Timeout, TurnOver, InHistory, Goto, OldInv, OldOf, TurnInv, TurnOf, Busy,
           TypeOK,
           D!State
  <1>22. CASE GatewayDies
    BY <1>22
       DEF GatewayDies, D!Drop, OldInv, OldOf, TurnInv, TurnOf, Busy, TypeOK, D!State
  <1>23. CASE GatewayRestarts
    BY <1>23
       DEF GatewayRestarts, OldInv, OldOf, TurnInv, TurnOf, Busy, TypeOK, D!State
  <1>24. CASE UNCHANGED vars
    BY <1>24
       DEF vars, OldInv, OldOf, OldInv, OldOf, TurnInv, TurnOf, Busy, TypeOK, D!State
  <1> QED
    BY <1>1, <1>2, <1>3, <1>4, <1>5, <1>6, <1>7, <1>8, <1>9, <1>10, <1>11, <1>12,
           <1>13, <1>14, <1>15, <1>16, <1>17, <1>18, <1>19, <1>20, <1>21, <1>22,
           <1>23, <1>24 DEF Next, RuntimeStep, WaitStep

-----------------------------------------------------------------------------

\* Every reachable state is well typed, and a reply that is sent was found.
THEOREM ConnectorTypes == Spec => []TypeOK
  <1> QED BY TypeInit, TypeStep, PTL DEF Spec

\* An answer is lost, and a stream ends, only with a gateway.
THEOREM CrashesOnly == Spec => [](TypeOK /\ TurnInv /\ CrashInv)
  <1>1. Init => TypeOK /\ TurnInv /\ CrashInv
    BY TypeInit, TurnInit, CrashInit
  <1>2. (TypeOK /\ TurnInv /\ CrashInv) /\ [Next]_vars => (TypeOK /\ TurnInv /\ CrashInv)'
    BY TypeStep, TurnStep, CrashStep
  <1> QED BY <1>1, <1>2, PTL DEF Spec

\* A reply is never the answer of a turn that was over when its message was posted.
THEOREM RepliesAreNew == Spec => []NoOldReply
  <1> DEFINE I == TypeOK /\ TurnInv /\ OldInv
  <1>1. Init => I
    BY TypeInit, TurnInit, OldInit
  <1>2. I /\ [Next]_vars => I'
    BY TypeStep, TurnStep, OldStep
  <1>3. I => NoOldReply
    BY DEF OldInv, OldOf, NoOldReply
  <1> QED BY <1>1, <1>2, <1>3, PTL DEF Spec

\* Failures and late turns are remembered.
LEMMA FaultsRemembered ==
  ASSUME TypeOK, [Next]_vars, failures' = 0, ~late'
  PROVE  failures = 0 /\ ~late
  <1>1. failures \in Nat
    BY DEF TypeOK
  <1>2. failures' = failures \/ failures' = failures + 1
    BY DEF Next, RuntimeStep, WaitStep, Record, Accept, Refuse, ReceiveAnswer,
           Announce, Fail, PushAnswer, StoreAnswer, StoreFails, TakeUp,
           SubmitReturns, Check, Recheck, LastCheck, Look, Subscribe, ReceiveEvent,
           StreamEnds, CallFails, Send, PumpConnects, Timeout, GatewayDies,
           GatewayRestarts, vars
  <1>3. late' = late \/ \E e \in Messages : late' = (late \/ ~TurnOver(e))
    BY DEF Next, RuntimeStep, WaitStep, Record, Accept, Refuse, ReceiveAnswer,
           Announce, Fail, PushAnswer, StoreAnswer, StoreFails, TakeUp,
           SubmitReturns, Check, Recheck, LastCheck, Look, Subscribe, ReceiveEvent,
           StreamEnds, CallFails, Send, PumpConnects, Timeout, GatewayDies,
           GatewayRestarts, vars
  <1>4. late => late'
    BY <1>3, Zenon
  <1> QED BY <1>1, <1>2, <1>4

\* The invariant holds of a connector that handles one message after the other.
THEOREM ConnectorInvariance ==
  ASSUME Serial
  PROVE  Spec => []IndInv
  <1>1. Init => IndInv
    BY TypeInit, TurnInit, CrashInit, WaitInit, ReasonInit DEF IndInv
  <1>2. ASSUME IndInv, [Next]_vars PROVE IndInv'
    <2>1. TypeOK' /\ TurnInv' /\ CrashInv'
      BY <1>2, TypeStep, TurnStep, CrashStep DEF IndInv
    <2>2. WaitInv'
      <3> SUFFICES ASSUME failures' = 0, ~late' PROVE Alone' /\ Waits'
        BY DEF WaitInv
      <3>1. failures = 0 /\ ~late
        BY <1>2, FaultsRemembered DEF IndInv
      <3>2. Alone /\ Waits
        BY <1>2, <3>1 DEF IndInv, WaitInv
      <3> QED BY <1>2, <3>1, <3>2, AloneStep, WaitsStep DEF IndInv
    <2>3. GaveUpForAReason'
      BY <1>2, ReasonStep DEF IndInv
    <2> QED BY <2>1, <2>2, <2>3 DEF IndInv
  <1> QED BY <1>1, <1>2, PTL DEF Spec

\* The reply found by session and date is the answer to the message.
THEOREM ReplyIsRight ==
  ASSUME Serial
  PROVE  Spec => []RightAnswer
  <1>1. IndInv => RightAnswer
    BY DEF IndInv, WaitInv, Waits, WaitOf, RightAnswer
  <1> QED BY <1>1, ConnectorInvariance, PTL

\* A message for the provider is given up for a reason only.
THEOREM ReasonToGiveUp ==
  ASSUME Serial
  PROVE  Spec => []GaveUpForAReason
  <1>1. IndInv => GaveUpForAReason
    BY DEF IndInv
  <1> QED BY <1>1, ConnectorInvariance, PTL

=============================================================================
