-------------------------- MODULE DeliveryLifecycle --------------------------
(***************************************************************************)
(* What docs/concepts/outputs.md promises of the status column of          *)
(* output_deliveries: the delivery state machine, whoever moves a row and  *)
(* however emit_output and cancel_output interleave.                       *)
(***************************************************************************)
CONSTANT Deliveries

VARIABLE life    \* the status of each delivery, "absent" before its row exists

Lives == {"absent", "in_flight", "delivered", "failed", "cancel_pending", "cancelled"}

Init == life = [d \in Deliveries |-> "absent"]

\* The moves of one row.
Moves ==
  { <<"absent", "in_flight">>,
    <<"in_flight", "delivered">>, <<"in_flight", "failed">>,
    <<"delivered", "cancelled">>,
    <<"cancel_pending", "cancelled">>, <<"cancel_pending", "failed">> }

Move(d) ==
  \E to \in Lives :
    /\ <<life[d], to>> \in Moves
    /\ life' = [life EXCEPT ![d] = to]

\* A cancel claims any number of deliveries in flight.
Claim(D) ==
  /\ \A d \in D : life[d] = "in_flight"
  /\ life' = [d \in Deliveries |-> IF d \in D THEN "cancel_pending" ELSE life[d]]

Next ==
  \/ \E d \in Deliveries : Move(d)
  \/ \E D \in SUBSET Deliveries : Claim(D)

Spec == Init /\ [][Next]_life
=============================================================================
