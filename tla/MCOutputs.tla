------------------------------ MODULE MCOutputs ------------------------------
(* Outputs with router decisions that a cfg cannot write.                    *)
EXTENDS Outputs

CONSTANTS phone, digest

MCDecisions == {<<phone>>, <<digest, phone>>}

MCDigest == {<<digest>>}

MCPhone == {<<phone>>}

\* While an event goes to two channels there is no other.
MCOneAtATime ==
  \A e, f \in Events :
    e # f /\ (Len(todo[e]) = 2 \/ row[<<e, digest>>] # "absent") => emit[f] = "idle"
=============================================================================
