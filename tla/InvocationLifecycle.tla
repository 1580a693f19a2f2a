------------------------- MODULE InvocationLifecycle -------------------------
(***************************************************************************)
(* What the invocations table promises to whoever polls it: the status of  *)
(* a run, as docs/concepts/activities.md lists its values.  A run that has *)
(* ended stays as it ended.                                                *)
(***************************************************************************)
CONSTANT Calls
VARIABLE life

Lives == {"absent", "running", "ok", "error"}

\* A run that is refused ends without having been "running".
Moves == {<<"absent", "running">>, <<"absent", "error">>, <<"running", "ok">>,
          <<"running", "error">>}

Init == life = [c \in Calls |-> "absent"]

\* One commit may publish the moves of several runs.
Next ==
  /\ life' \in [Calls -> Lives]
  /\ \A c \in Calls : life'[c] # life[c] => <<life[c], life'[c]>> \in Moves

Spec == Init /\ [][Next]_life
=============================================================================
