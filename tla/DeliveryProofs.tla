--------------------------- MODULE DeliveryProofs ---------------------------
(* Proofs about the abstract specification Delivery. *)
EXTENDS Delivery, TLAPS

Inv == TypeOK /\ RecordAgrees

LEMMA InitInv == Init => Inv
BY DEF Init, Inv, TypeOK, RecordAgrees, Told, State

\* A step changes what one client knows or one row of the store.
LEMMA NextInv == Inv /\ [Next]_vars => Inv'
<1> SUFFICES ASSUME Inv, [Next]_vars PROVE Inv'
  OBVIOUS
<1> USE DEF Inv, TypeOK, RecordAgrees, Told, State
<1>1. ASSUME NEW e \in Requests, Begin(e) PROVE Inv'
  BY <1>1 DEF Begin, Move
<1>2. ASSUME NEW e \in Requests, Record(e) PROVE Inv'
  BY <1>2 DEF Record
<1>3. ASSUME NEW e \in Requests, Accept(e) PROVE Inv'
  BY <1>3 DEF Accept, Move
<1>4. ASSUME NEW e \in Requests, Refuse(e) PROVE Inv'
  BY <1>4 DEF Refuse, Move
<1>5. ASSUME NEW e \in Requests, Answer(e) PROVE Inv'
  BY <1>5 DEF Answer, Move
<1>6. ASSUME NEW e \in Requests, Fail(e) PROVE Inv'
  BY <1>6 DEF Fail, Move
<1>7. ASSUME NEW e \in Requests, Keep(e) PROVE Inv'
  BY <1>7 DEF Keep
<1>8. ASSUME NEW e \in Requests, Withdraw(e) PROVE Inv'
  BY <1>8 DEF Withdraw, Move
<1>9. ASSUME NEW E \in SUBSET Requests, Drop(E) PROVE Inv'
  <2>1. \A e \in Requests : state'[e] = IF e \in E THEN "dropped" ELSE state[e]
    BY <1>9 DEF Drop
  <2>2. state' \in [Requests -> State] /\ onRecord' = onRecord /\ kept' = kept
    BY <1>9 DEF Drop
  <2>3. ASSUME NEW e \in Requests, e \in E PROVE Told(e)'
    BY <2>1, <2>2, <2>3, <1>9 DEF Drop
  <2>4. ASSUME NEW e \in Requests, e \notin E PROVE Told(e)'
    BY <2>1, <2>2, <2>4
  <2> QED BY <2>2, <2>3, <2>4
<1>10. ASSUME UNCHANGED vars PROVE Inv'
  BY <1>10 DEF vars
<1> QED
  BY <1>1, <1>2, <1>3, <1>4, <1>5, <1>6, <1>7, <1>8, <1>9, <1>10 DEF Next

\* For any number of requests, whatever clients hang up and processes die: what
\* submit and the events of a turn tell a client agrees with the store.
THEOREM RecordAgreement == Spec => []RecordAgrees
<1>1. Inv => RecordAgrees
  BY DEF Inv
<1> QED
  BY InitInv, NextInv, <1>1, PTL DEF Spec

=============================================================================
