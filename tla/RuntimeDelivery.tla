-------------------------- MODULE RuntimeDelivery --------------------------
(***************************************************************************)
(* The runtime implements Delivery.  A client sees of its call the result  *)
(* of POST /messages and the last event that settles its turn; it sees of  *)
(* the store what GET /sessions/{id} returns after the next restart.       *)
(***************************************************************************)
EXTENDS Runtime

IsMessage(e) == pc[e] # "idle" /\ req[e].kind # "create"

DeliveryState(e) ==
  CASE ~IsMessage(e)                                -> "new"
    [] IsMessage(e) /\ "error" \in emitted[e]       -> "failed"
    [] IsMessage(e) /\ "error" \notin emitted[e]
                    /\ "completed" \in emitted[e]   -> "answered"
    [] OTHER ->
         IF pc[e] \in {"lost", "abandoned"} THEN "dropped"
         ELSE IF pc[e] = "rejected" THEN "refused"
         ELSE IF Accepted(e) THEN "accepted" ELSE "pending"

InStore(p) == {e \in Requests : sess[e] # None /\ Stored(e, p)}

D == INSTANCE Delivery
       WITH state    <- [e \in Requests |-> DeliveryState(e)],
            onRecord <- InStore("user"),
            kept     <- InStore("reply")

\* Every step of submit, of a turn, of a failing store and of a dying process
\* is a step of Delivery or changes nothing its clients can see.
ImplementsDelivery == D!Spec

=============================================================================
