------------------------------ MODULE Delivery ------------------------------
(***************************************************************************)
(* What the runtime promises the clients that send it messages, with the   *)
(* sessions, the locks, the store and the provider left out: a receipt is  *)
(* given only for a message on record, a refused message is never on       *)
(* record, an accepted one is answered or failed once, and an answer that  *)
(* could not be kept is taken back.                                        *)
(***************************************************************************)
CONSTANT Requests

VARIABLES
  state,     \* what the client of each request knows
  onRecord,  \* requests whose message a reader of the store finds
  kept       \* requests whose answer a reader of the store finds

vars == <<state, onRecord, kept>>

State == {"new", "pending", "refused", "accepted", "answered", "failed", "dropped"}

TypeOK ==
  /\ state \in [Requests -> State]
  /\ onRecord \subseteq Requests
  /\ kept \subseteq Requests

Init ==
  /\ state = [e \in Requests |-> "new"]
  /\ onRecord = {}
  /\ kept = {}

Move(e, from, to) ==
  /\ state[e] = from
  /\ state' = [state EXCEPT ![e] = to]

Begin(e)  == Move(e, "new", "pending") /\ UNCHANGED <<onRecord, kept>>

Record(e) ==
  /\ state[e] = "pending"
  /\ onRecord' = onRecord \cup {e}
  /\ UNCHANGED <<state, kept>>

Accept(e) ==
  /\ e \in onRecord
  /\ Move(e, "pending", "accepted")
  /\ UNCHANGED <<onRecord, kept>>

Refuse(e) ==
  /\ e \notin onRecord
  /\ Move(e, "pending", "refused")
  /\ UNCHANGED <<onRecord, kept>>

Answer(e) == Move(e, "accepted", "answered") /\ UNCHANGED <<onRecord, kept>>

Fail(e)   == Move(e, "accepted", "failed") /\ UNCHANGED <<onRecord, kept>>

\* An announced answer is put on record, or else its client hears of an error.
Keep(e) ==
  /\ state[e] = "answered"
  /\ kept' = kept \cup {e}
  /\ UNCHANGED <<state, onRecord>>

Withdraw(e) ==
  /\ e \notin kept
  /\ Move(e, "answered", "failed")
  /\ UNCHANGED <<onRecord, kept>>

\* A client hangs up, or the process dies with everything it was working on.
Drop(E) ==
  /\ \A e \in E : state[e] \in {"pending", "accepted"}
  /\ state' = [e \in Requests |-> IF e \in E THEN "dropped" ELSE state[e]]
  /\ UNCHANGED <<onRecord, kept>>

Next ==
  \/ \E e \in Requests :
       \/ Begin(e) \/ Record(e) \/ Accept(e) \/ Refuse(e)
       \/ Answer(e) \/ Fail(e) \/ Keep(e) \/ Withdraw(e)
  \/ \E E \in SUBSET Requests : Drop(E)

Spec == Init /\ [][Next]_vars

\* What a client was told agrees with what a reader of the store finds: a receipt
\* stands for a message on record, a refusal for none, and no answer is on record
\* without its question.
Told(e) ==
  /\ state[e] \in {"accepted", "answered", "failed"} => e \in onRecord
  /\ state[e] \in {"new", "refused"} => e \notin onRecord
  /\ e \in kept => state[e] = "answered"

RecordAgrees == \A e \in Requests : Told(e)

=============================================================================
