---------------------------- MODULE MCPermissions ----------------------------
(* Permissions with relations between requests that a cfg cannot write.      *)
EXTENDS Permissions

CONSTANTS p1, p2, p3

\* The requests ask for one capability; the scope of p1 covers each other one, and is covered.
MCSame   == Requests \X Requests
MCCovers == {pq \in MCSame : pq[1] = pq[2] \/ p1 \in {pq[1], pq[2]}}
=============================================================================
