---------------------------- MODULE MCInvocations ----------------------------
(* Invocations for TLC: a background run of one tool that calls another.   *)
EXTENDS Invocations, TLC

CONSTANTS a1, s1, n1, t1, t2

MCParent == n1 :> s1
MCTarget == a1 :> t2 @@ s1 :> t1 @@ n1 :> t2
=============================================================================
