------------------------------- MODULE Secrets -------------------------------
(***************************************************************************)
(* One secret of the store (secrets/store.py): the user's puts and         *)
(* deletes, the user's own reads (get_secret_value) and the reads of tools *)
(* (get_secret_for_tool), which may wait for minutes on a permission       *)
(* request.  What becomes of the request itself is in Permissions; here it *)
(* is answered, or times out, at any time.                                 *)
(*                                                                         *)
(* A statement and its commit are one step.  A secret's value is the call  *)
(* that put it; it is stored encrypted under the master key (crypto.py),   *)
(* and a start with another key cannot decrypt what is there.              *)
(***************************************************************************)
EXTENDS Naturals

CONSTANTS
  Puts,      \* calls of put_secret, with a list that allows the tool or not
  Deletes,   \* calls of delete_secret
  ToolReads, \* secret_get of one tool, over the tool socket
  UserReads, \* GET /secrets/{name}/value
  Key,       \* the master key, and another that a start may find instead
  OtherKey,
  MaxCrashes \* bound on the crashes of a behaviour

Reads == ToolReads \cup UserReads
Calls == Puts \cup Deletes \cup Reads

Phases == {"idle", "looked", "stored", "loaded", "asking", "granted", "recorded", "denied",
           "done"}

\* What a call answers: a value, or one of these.
NoValue == {"none", "ok", "absent", "raised", "denied", "unknown"}
Replies == Puts \cup NoValue

\* The calls are of one kind each, and no call is one of the strings that stand for an
\* answer without a value.
ConstantsAssumption ==
  /\ Puts \cap (Deletes \cup Reads) = {} /\ Deletes \cap Reads = {}
  /\ ToolReads \cap UserReads = {}
  /\ Puts \cap NoValue = {}

NoRow == [value |-> "none", key |-> Key, allowed |-> FALSE]
Rows  == [value : Puts, key : {Key, OtherKey}, allowed : BOOLEAN] \cup {NoRow}

VARIABLES
  row,     \* the secret's row
  grant,   \* a standing secret:read permission of the tool
  logged,  \* secret_access_log: [read, granted]
  key,     \* crypto._cached_key
  phase,   \* where each call is
  copy,    \* the row that it read
  answer,  \* what it answered
  \* what happened, for the properties
  basis,   \* why each read was allowed: list, grant, prompt
  deleted, \* the puts whose row was deleted, or overwritten by another put, since they began
  old,     \* the puts that were superseded already when each read loaded the row
  crashes

store   == <<row, grant, logged, key>>
calls   == <<phase, copy, answer>>
history == <<basis, deleted, old>>
vars    == <<store, calls, history, crashes>>

Init ==
  /\ row = NoRow /\ grant = FALSE /\ logged = {} /\ key = Key
  /\ phase = [c \in Calls |-> "idle"]
  /\ copy = [c \in Calls |-> NoRow]
  /\ answer = [c \in Calls |-> "none"]
  /\ basis = [r \in Reads |-> "none"] /\ deleted = {}
  /\ old = [r \in Reads |-> {}]
  /\ crashes = 0

Step(c, from, to) == phase[c] = from /\ phase' = [phase EXCEPT ![c] = to]

Answers(c, a) == answer' = [answer EXCEPT ![c] = a] /\ copy' = [copy EXCEPT ![c] = NoRow]

-----------------------------------------------------------------------------
(* put_secret, delete_secret.                                              *)

\* The value is encrypted; the SELECT tells whether there is a row.
PutReads(p) ==
  /\ Step(p, "idle", "looked")
  /\ copy' = [copy EXCEPT ![p] = row]
  /\ UNCHANGED <<store, answer, history, crashes>>

Stored(p, allowed) == [value |-> p, key |-> key, allowed |-> allowed]

Overtaken == {p \in Puts : phase[p] # "idle"}

\* The UPDATE of the row that was there, and its commit.  It may be there no more.
PutUpdates(p) ==
  /\ copy[p] # NoRow
  /\ Step(p, "looked", "stored")
  /\ IF row = NoRow THEN UNCHANGED <<row, deleted>>
     ELSE /\ \E allowed \in BOOLEAN : row' = Stored(p, allowed)
          /\ deleted' = deleted \cup (Overtaken \ {p})
  /\ UNCHANGED <<grant, logged, key, copy, answer, basis, old, crashes>>

\* Slip: a row that is there by now makes the INSERT a no-op.
PutInsertsOrIgnores(p) ==
  /\ copy[p] = NoRow
  /\ Step(p, "looked", "stored")
  /\ \E allowed \in BOOLEAN : row' = IF row = NoRow THEN Stored(p, allowed) ELSE row
  /\ UNCHANGED <<grant, logged, key, copy, answer, history, crashes>>

\* The INSERT; a row that is there by now makes it fail, and the call.
PutInserts(p) ==
  /\ copy[p] = NoRow
  /\ IF row = NoRow
     THEN /\ Step(p, "looked", "stored")
          /\ \E allowed \in BOOLEAN : row' = Stored(p, allowed)
          /\ UNCHANGED <<copy, answer>>
     ELSE Step(p, "looked", "done") /\ Answers(p, "raised") /\ UNCHANGED row
  /\ UNCHANGED <<grant, logged, key, history, crashes>>

\* The audit, and the answer with what was asked for.
PutAnswers(p) ==
  /\ Step(p, "stored", "done")
  /\ Answers(p, "ok")
  /\ UNCHANGED <<store, history, crashes>>

\* delete_secret.
Delete(d) ==
  /\ Step(d, "idle", "done")
  /\ Answers(d, IF row = NoRow THEN "absent" ELSE "ok")
  /\ row' = NoRow
  /\ deleted' = IF row = NoRow THEN deleted ELSE deleted \cup Overtaken
  /\ UNCHANGED <<grant, logged, key, basis, old, crashes>>

-----------------------------------------------------------------------------
(* get_secret_for_tool, get_secret_value.                                  *)

\* The puts that have been made, and are no longer what the row holds.
Superseded == {p \in Puts : phase[p] \in {"stored", "done"} /\ row.value # p}

\* _load_row.
Load(r) ==
  /\ IF row = NoRow THEN Step(r, "idle", "done") /\ Answers(r, "unknown")
     ELSE /\ Step(r, "idle", IF r \in UserReads THEN "granted" ELSE "loaded")
          /\ copy' = [copy EXCEPT ![r] = row] /\ UNCHANGED answer
  /\ old' = [old EXCEPT ![r] = Superseded]
  /\ UNCHANGED <<store, basis, deleted, crashes>>

Because(r, why) == basis' = [basis EXCEPT ![r] = why] /\ UNCHANGED <<deleted, old>>

\* The tool is on the list of the row that was read.
AllowedByList(r) ==
  /\ copy[r].allowed
  /\ Step(r, "loaded", "granted")
  /\ Because(r, "list")
  /\ UNCHANGED <<store, copy, answer, crashes>>

\* It is not: a standing permission, or a request to the user.
LookForGrant(r) ==
  /\ ~copy[r].allowed
  /\ Step(r, "loaded", IF grant THEN "granted" ELSE "asking")
  /\ IF grant THEN Because(r, "grant") ELSE UNCHANGED history
  /\ UNCHANGED <<store, copy, answer, crashes>>

\* The user grants it, once or always.
PromptGranted(r) ==
  /\ Step(r, "asking", "granted")
  /\ Because(r, "prompt")
  /\ grant' \in {grant, TRUE}
  /\ UNCHANGED <<row, logged, key, copy, answer, crashes>>

\* The user denies it, or the wait times out.
PromptDenied(r) ==
  /\ Step(r, "asking", "denied")
  /\ UNCHANGED <<store, copy, answer, history, crashes>>

Log(r, ok) == logged' = logged \cup {[read |-> r, granted |-> ok]}

\* Slip: the value is answered and the access recorded after it.
DiscloseFirst(r) ==
  /\ copy[r].key = key
  /\ Step(r, "granted", "done")
  /\ Answers(r, copy[r].value)
  /\ UNCHANGED <<store, history, crashes>>

\* decrypt, of the row that was read, and _record_access; the value is answered after it.
Disclose(r) ==
  /\ copy[r].key = key
  /\ Step(r, "granted", "recorded")
  /\ Log(r, TRUE)
  /\ UNCHANGED <<row, grant, key, copy, answer, history, crashes>>

\* It was encrypted under another key: decrypt raises, and nothing is recorded.
CannotDecrypt(r) ==
  /\ copy[r].key # key
  /\ Step(r, "granted", "done") /\ Answers(r, "raised")
  /\ UNCHANGED <<store, history, crashes>>

ReadAnswers(r) ==
  /\ Step(r, "recorded", "done") /\ Answers(r, copy[r].value)
  /\ UNCHANGED <<store, history, crashes>>

\* SecretAccessDenied, recorded as well.
Refuse(r) ==
  /\ Step(r, "denied", "done") /\ Answers(r, "denied")
  /\ Log(r, FALSE)
  /\ UNCHANGED <<row, grant, key, history, crashes>>

-----------------------------------------------------------------------------

\* The user revokes the tool's permission.
Revoke ==
  /\ grant /\ grant' = FALSE
  /\ UNCHANGED <<row, logged, key, calls, history, crashes>>

\* resolve_master_key at the next start: the environment, the key file, or a new key.
Restart ==
  /\ crashes < MaxCrashes /\ crashes' = crashes + 1
  /\ key' \in {Key, OtherKey}
  /\ phase' = [c \in Calls |-> IF phase[c] = "idle" THEN "idle" ELSE "done"]
  /\ copy' = [c \in Calls |-> NoRow]
  /\ UNCHANGED <<row, grant, logged, answer, history>>

Next ==
  \/ \E p \in Puts : PutReads(p) \/ PutUpdates(p) \/ PutInserts(p) \/ PutAnswers(p)
  \/ \E d \in Deletes : Delete(d)
  \/ \E r \in Reads :
       \/ Load(r) \/ AllowedByList(r) \/ LookForGrant(r) \/ PromptGranted(r)
       \/ PromptDenied(r) \/ Disclose(r) \/ CannotDecrypt(r) \/ ReadAnswers(r) \/ Refuse(r)
  \/ Revoke \/ Restart

Spec == Init /\ [][Next]_vars

-----------------------------------------------------------------------------
(* Properties.                                                             *)

TypeOK ==
  /\ row \in Rows /\ grant \in BOOLEAN /\ key \in {Key, OtherKey}
  /\ logged \subseteq [read : Reads, granted : BOOLEAN]
  /\ phase \in [Calls -> Phases]
  /\ copy \in [Calls -> Rows]
  /\ answer \in [Calls -> Replies]
  /\ basis \in [Reads -> {"none", "list", "grant", "prompt"}]
  /\ deleted \subseteq Puts /\ old \in [Reads -> SUBSET Puts]

\* A value that is handed out to a tool had a reason, in the tool's list, a permission
\* or the user's answer, and has its row in the access log, whatever died in between; a
\* row that says granted is of a read that had a reason.  What is handed out may have been
\* replaced or deleted while the user was asked, but not before the read began.
DisclosureIsAccounted ==
  /\ \A r \in Reads : answer[r] \in Puts => [read |-> r, granted |-> TRUE] \in logged
  /\ \A r \in ToolReads : [read |-> r, granted |-> TRUE] \in logged => basis[r] # "none"
  /\ \A r \in Reads : answer[r] \in Puts => answer[r] \notin old[r]

\* A put that was answered ok is in the row, unless another put or a delete came after it
\* began.
PutIsStored ==
  \A p \in Puts : answer[p] = "ok" /\ p \notin deleted => row.value = p
=============================================================================
