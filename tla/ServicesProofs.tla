---------------------------- MODULE ServicesProofs ----------------------------
(***************************************************************************)
(* The safety properties of the parts that MCServices puts together, for   *)
(* any numbers of calls, files, tabs, processes and restarts.  A theorem   *)
(* is about the specification of its part; no two parts share a step.      *)
(***************************************************************************)
EXTENDS MCServices, SequenceTheorems, FiniteSetTheorems, TLAPS

-----------------------------------------------------------------------------
(* Secrets: what a read hands out, and what a put leaves behind.           *)

\* What a read has in its hands while it waits: a row that was the secret's when it began,
\* a reason once it may have the value, and a row in the log before it answers.
ReadFollowsPhase ==
  \A r \in Vault!Reads :
    /\ secretPhase[r] \in {"loaded", "asking", "granted", "recorded"} => copy[r].value \notin old[r]
    /\ r \in ToolReads /\ secretPhase[r] \in {"granted", "recorded"} => basis[r] # "none"
    /\ secretPhase[r] = "recorded" => [read |-> r, granted |-> TRUE] \in logged

\* Where a put is tells what the row is, unless it was overtaken: a put that found a row finds
\* it again, and one that has written is in it.
PutFollowsPhase ==
  \A p \in Puts \ deleted :
    /\ secretPhase[p] = "looked" /\ copy[p] # Vault!NoRow => row # Vault!NoRow
    /\ secretPhase[p] = "stored" \/ disclosed[p] = "ok" => row.value = p

\* A call that has not begun has no answer, and a put leaves by its answer.
AnswerFollowsPhase ==
  /\ \A c \in Vault!Reads \cup Puts : secretPhase[c] # "done" => disclosed[c] = "none"
  /\ \A p \in Puts : secretPhase[p] \in {"idle", "looked", "stored", "done"}

SecretsInv ==
  Vault!TypeOK /\ ReadFollowsPhase /\ PutFollowsPhase /\ AnswerFollowsPhase /\ Vault!DisclosureIsAccounted

-----------------------------------------------------------------------------
(* Types.                                                                  *)

LEMMA NoRowTyped == Vault!NoRow \in Vault!Rows
BY DEF Vault!NoRow, Vault!Rows

LEMMA ValueTyped ==
  ASSUME NEW x \in Vault!Rows
  PROVE  x.value \in Puts \cup {"none"}
<1>1. CASE x = Vault!NoRow
  BY <1>1 DEF Vault!NoRow
<1>2. CASE x \in [value : Puts, key : {Key, OtherKey}, allowed : BOOLEAN]
  BY <1>2
<1> QED BY <1>1, <1>2 DEF Vault!Rows

LEMMA AnswersTyped ==
  ASSUME Vault!TypeOK, NEW c \in Vault!Calls, NEW a \in Vault!Replies, Vault!Answers(c, a)
  PROVE  copy' \in [Vault!Calls -> Vault!Rows] /\ disclosed' \in [Vault!Calls -> Vault!Replies]
BY NoRowTyped DEF Vault!TypeOK, Vault!Answers

LEMMA SecretsTypeStep ==
  ASSUME Vault!ConstantsAssumption, Vault!TypeOK, [Vault!Next]_Vault!vars
  PROVE  Vault!TypeOK'
<1> USE NoRowTyped DEF Vault!TypeOK, Vault!Calls, Vault!Reads
<1>1. ASSUME NEW p \in Puts, Vault!PutReads(p) PROVE Vault!TypeOK'
  BY <1>1 DEF Vault!Phases, Vault!PutReads, Vault!Step, Vault!store, Vault!history
<1>2. ASSUME NEW p \in Puts, Vault!PutUpdates(p) PROVE Vault!TypeOK'
  <2>1. \A allowed \in BOOLEAN : Vault!Stored(p, allowed) \in Vault!Rows
    BY DEF Vault!Stored, Vault!Rows
  <2>2. row' \in Vault!Rows /\ deleted' \subseteq Puts
    BY <1>2, <2>1 DEF Vault!PutUpdates, Vault!Overtaken
  <2> QED BY <1>2, <2>2 DEF Vault!PutUpdates, Vault!Step, Vault!Phases
<1>3. ASSUME NEW p \in Puts, Vault!PutInserts(p) PROVE Vault!TypeOK'
  <2>1. \A allowed \in BOOLEAN : Vault!Stored(p, allowed) \in Vault!Rows
    BY DEF Vault!Stored, Vault!Rows
  <2> QED BY <1>3, <2>1 DEF Vault!PutInserts, Vault!Step, Vault!Answers, Vault!history,
                 Vault!Phases, Vault!Replies, Vault!NoValue
<1>4. ASSUME NEW p \in Puts, Vault!PutAnswers(p) PROVE Vault!TypeOK'
  BY <1>4 DEF Vault!PutAnswers, Vault!Step, Vault!Answers, Vault!store, Vault!history,
         Vault!Phases, Vault!Replies, Vault!NoValue
<1>5. ASSUME NEW d \in Deletes, Vault!Delete(d) PROVE Vault!TypeOK'
  BY <1>5 DEF Vault!Delete, Vault!Step, Vault!Answers, Vault!Overtaken, Vault!Phases,
         Vault!Replies, Vault!NoValue
<1>6. ASSUME NEW r \in Vault!Reads, Vault!Load(r) PROVE Vault!TypeOK'
  <2>1. old' \in [Vault!Reads -> SUBSET Puts]
    BY <1>6 DEF Vault!Load, Vault!Superseded
  <2>2. secretPhase' \in [Vault!Calls -> Vault!Phases]
    <3>1. \E to \in Vault!Phases : secretPhase' = [secretPhase EXCEPT ![r] = to]
      BY <1>6 DEF Vault!Load, Vault!Step, Vault!Phases
    <3> QED BY <3>1
  <2>3. copy' \in [Vault!Calls -> Vault!Rows] /\ disclosed' \in [Vault!Calls -> Vault!Replies]
    <3>1. CASE row = Vault!NoRow
      <4>1. Vault!Answers(r, "unknown") /\ "unknown" \in Vault!Replies
        BY <1>6, <3>1 DEF Vault!Load, Vault!Replies, Vault!NoValue
      <4> QED BY <4>1, AnswersTyped
    <3>2. CASE row # Vault!NoRow
      BY <1>6, <3>2 DEF Vault!Load
    <3> QED BY <3>1, <3>2
  <2> QED BY <1>6, <2>1, <2>2, <2>3 DEF Vault!Load, Vault!store
<1>7. ASSUME NEW r \in Vault!Reads, Vault!AllowedByList(r) \/ Vault!LookForGrant(r) \/ Vault!PromptGranted(r) \/ Vault!PromptDenied(r)
      PROVE Vault!TypeOK'
  BY <1>7 DEF Vault!AllowedByList, Vault!LookForGrant, Vault!PromptGranted, Vault!PromptDenied,
         Vault!Step, Vault!Because, Vault!store, Vault!history, Vault!Phases
<1>8. ASSUME NEW r \in Vault!Reads, Vault!Disclose(r) \/ Vault!CannotDecrypt(r) \/ Vault!Refuse(r)
      PROVE Vault!TypeOK'
  <2>1. \A ok \in BOOLEAN : [read |-> r, granted |-> ok] \in [read : Vault!Reads, granted : BOOLEAN]
    OBVIOUS
  <2>2. CASE Vault!Disclose(r)
    BY <2>1, <2>2 DEF Vault!Disclose, Vault!Step, Vault!Log, Vault!history, Vault!Phases
  <2>3. CASE Vault!CannotDecrypt(r)
    BY <2>3 DEF Vault!CannotDecrypt, Vault!Step, Vault!Answers, Vault!store, Vault!history,
           Vault!Phases, Vault!Replies, Vault!NoValue
  <2>4. CASE Vault!Refuse(r)
    <3>1. logged' \subseteq [read : Vault!Reads, granted : BOOLEAN]
      BY <2>1, <2>4 DEF Vault!Refuse, Vault!Log
    <3> QED BY <2>4, <3>1 DEF Vault!Refuse, Vault!Step, Vault!Answers, Vault!history,
                   Vault!Phases, Vault!Replies, Vault!NoValue
  <2> QED BY <1>8, <2>2, <2>3, <2>4
<1>9. ASSUME NEW r \in Vault!Reads, Vault!ReadAnswers(r) PROVE Vault!TypeOK'
  <2>1. copy[r].value \in Vault!Replies
    <3>1. copy[r] \in Vault!Rows
      OBVIOUS
    <3> QED BY <3>1, ValueTyped DEF Vault!Replies, Vault!NoValue
  <2>2. copy' \in [Vault!Calls -> Vault!Rows] /\ disclosed' \in [Vault!Calls -> Vault!Replies]
    BY <1>9, <2>1, AnswersTyped DEF Vault!ReadAnswers
  <2> QED BY <1>9, <2>2
          DEF Vault!ReadAnswers, Vault!Step, Vault!store, Vault!history, Vault!Phases
<1>10. ASSUME Vault!Revoke \/ Vault!Restart PROVE Vault!TypeOK'
  BY <1>10 DEF Vault!Revoke, Vault!Restart, Vault!calls, Vault!history, Vault!Phases
<1>11. ASSUME UNCHANGED Vault!vars PROVE Vault!TypeOK'
  BY <1>11 DEF Vault!vars, Vault!store, Vault!calls, Vault!history
<1> QED
  BY <1>1, <1>2, <1>3, <1>4, <1>5, <1>6, <1>7, <1>8, <1>9, <1>10, <1>11 DEF Vault!Next

LEMMA SecretsInit == ASSUME Vault!ConstantsAssumption, Vault!Init PROVE SecretsInv
<1> USE DEF Vault!Init, Vault!Calls, Vault!Reads
<1>1. Vault!TypeOK
  BY NoRowTyped DEF Vault!TypeOK, Vault!Phases, Vault!Replies, Vault!NoValue
<1>2. ReadFollowsPhase /\ AnswerFollowsPhase
  BY DEF ReadFollowsPhase, AnswerFollowsPhase
<1>3. PutFollowsPhase /\ Vault!DisclosureIsAccounted
  BY DEF PutFollowsPhase, Vault!DisclosureIsAccounted, Vault!ConstantsAssumption, Vault!NoValue,
         Vault!NoRow
<1> QED BY <1>1, <1>2, <1>3 DEF SecretsInv

-----------------------------------------------------------------------------
(* Reads.                                                                  *)

\* A read has its row in the log.
Granted(r) == [read |-> r, granted |-> TRUE] \in logged

LEMMA SecretsShapes ==
  ASSUME Vault!TypeOK
  PROVE  /\ secretPhase \in [Vault!Calls -> Vault!Phases] /\ copy \in [Vault!Calls -> Vault!Rows]
         /\ disclosed \in [Vault!Calls -> Vault!Replies]
         /\ basis \in [Vault!Reads -> {"none", "list", "grant", "prompt"}]
         /\ old \in [Vault!Reads -> SUBSET Puts]
         /\ Vault!Reads \subseteq Vault!Calls /\ Puts \subseteq Vault!Calls /\ Deletes \subseteq Vault!Calls
BY DEF Vault!TypeOK, Vault!Calls

LEMMA LogStep ==
  ASSUME NEW r, NEW ok \in BOOLEAN, Vault!Log(r, ok)
  PROVE  /\ \A s : s # r => (Granted(s)' <=> Granted(s))
         /\ Granted(r)' <=> ok \/ Granted(r)
BY DEF Vault!Log, Granted

\* What a step leaves alone for the reads but one.
ReadsElse(r) ==
  /\ \A s \in Vault!Reads \ {r} :
       /\ secretPhase'[s] = secretPhase[s] /\ copy'[s] = copy[s] /\ disclosed'[s] = disclosed[s]
       /\ old'[s] = old[s] /\ basis'[s] = basis[s]
  /\ \A s \in Vault!Reads \ {r} : Granted(s)' <=> Granted(s)

\* What the two invariants say of one read.
ReadOK(r) ==
  /\ secretPhase[r] \in {"loaded", "asking", "granted", "recorded"} => copy[r].value \notin old[r]
  /\ r \in ToolReads /\ secretPhase[r] \in {"granted", "recorded"} => basis[r] # "none"
  /\ secretPhase[r] = "recorded" => Granted(r)
  /\ disclosed[r] \in Puts => Granted(r) /\ disclosed[r] \notin old[r]
  /\ r \in ToolReads /\ Granted(r) => basis[r] # "none"
  /\ secretPhase[r] # "done" => disclosed[r] = "none"

LEMMA ReadsOK ==
  ReadFollowsPhase /\ Vault!DisclosureIsAccounted /\ (\A r \in Vault!Reads : secretPhase[r] # "done" => disclosed[r] = "none")
    <=> \A r \in Vault!Reads : ReadOK(r)
BY DEF ReadFollowsPhase, Vault!DisclosureIsAccounted, ReadOK, Vault!Reads, Granted

LEMMA ReadStep ==
  ASSUME Vault!ConstantsAssumption, Vault!TypeOK, \A r \in Vault!Reads : ReadOK(r), [Vault!Next]_Vault!vars
  PROVE  \A r \in Vault!Reads : ReadOK(r)'
<1> USE SecretsShapes
<1>1. ASSUME NEW r \in Vault!Reads, ReadOK(r)', ReadsElse(r) PROVE \A s \in Vault!Reads : ReadOK(s)'
  BY <1>1 DEF ReadOK, ReadsElse
<1>2. ASSUME \A r \in Vault!Reads : /\ secretPhase'[r] = secretPhase[r] /\ copy'[r] = copy[r]
                                    /\ disclosed'[r] = disclosed[r],
             UNCHANGED <<logged, basis, old>>
      PROVE  \A r \in Vault!Reads : ReadOK(r)'
  <2>1. ASSUME NEW r \in Vault!Reads PROVE ReadOK(r)'
    <3>1. Granted(r)' <=> Granted(r)
      BY <1>2 DEF Granted
    <3> QED BY <1>2, <3>1 DEF ReadOK
  <2> QED BY <2>1
<1>3. ASSUME NEW p \in Puts, Vault!PutReads(p) \/ Vault!PutUpdates(p) \/ Vault!PutInserts(p) \/ Vault!PutAnswers(p)
      PROVE  \A r \in Vault!Reads : ReadOK(r)'
  <2>1. \A r \in Vault!Reads : r # p
    BY DEF Vault!ConstantsAssumption
  <2> QED
    BY <1>2, <1>3, <2>1
    DEF Vault!PutReads, Vault!PutUpdates, Vault!PutInserts, Vault!PutAnswers, Vault!Step,
       Vault!Answers, Vault!store, Vault!history
<1>4. ASSUME NEW d \in Deletes, Vault!Delete(d) PROVE \A r \in Vault!Reads : ReadOK(r)'
  <2>1. \A r \in Vault!Reads : r # d
    BY DEF Vault!ConstantsAssumption
  <2> QED BY <1>2, <1>4, <2>1 DEF Vault!Delete, Vault!Step, Vault!Answers
<1>5. ASSUME NEW r \in Vault!Reads, Vault!Load(r) PROVE \A s \in Vault!Reads : ReadOK(s)'
  <2>1. ReadsElse(r)
    BY <1>5 DEF Vault!Load, Vault!Step, Vault!Answers, ReadsElse, Vault!store, Granted
  <2>2. disclosed[r] = "none" /\ "none" \notin Puts /\ "unknown" \notin Puts
    BY <1>5 DEF Vault!Load, Vault!Step, ReadOK, Vault!ConstantsAssumption, Vault!NoValue
  <2>3. CASE row = Vault!NoRow
    <3>1. secretPhase'[r] = "done" /\ disclosed'[r] = "unknown" /\ UNCHANGED <<basis, logged>>
      BY <1>5, <2>3 DEF Vault!Load, Vault!Step, Vault!Answers, Vault!store
    <3>2. Granted(r)' <=> Granted(r)
      BY <3>1 DEF Granted
    <3>3. ReadOK(r)'
      BY <2>2, <3>1, <3>2 DEF ReadOK
    <3> QED BY <1>1, <2>1, <3>3
  <2>4. CASE row # Vault!NoRow
    <3>1. /\ secretPhase'[r] = IF r \in UserReads THEN "granted" ELSE "loaded"
          /\ copy'[r] = row /\ disclosed'[r] = disclosed[r] /\ UNCHANGED <<basis, logged>>
      BY <1>5, <2>4 DEF Vault!Load, Vault!Step, Vault!store
    <3>2. old'[r] = Vault!Superseded /\ row.value \notin Vault!Superseded
      BY <1>5 DEF Vault!Load, Vault!Superseded
    <3>3. r \in ToolReads => secretPhase'[r] = "loaded"
      BY <3>1 DEF Vault!ConstantsAssumption
    <3>4. ReadOK(r)'
      BY <2>2, <3>1, <3>2, <3>3 DEF ReadOK, Granted
    <3> QED BY <1>1, <2>1, <3>4
  <2> QED BY <2>3, <2>4
<1>6. ASSUME NEW r \in Vault!Reads, Vault!AllowedByList(r) \/ Vault!LookForGrant(r) \/ Vault!PromptGranted(r) \/ Vault!PromptDenied(r)
      PROVE  \A s \in Vault!Reads : ReadOK(s)'
  <2>1. ReadsElse(r)
    BY <1>6 DEF Vault!AllowedByList, Vault!LookForGrant, Vault!PromptGranted, Vault!PromptDenied,
           Vault!Step, Vault!Because,
                ReadsElse, Vault!store, Vault!history, Granted
  <2>2. ReadOK(r)'
    BY <1>6 DEF Vault!AllowedByList, Vault!LookForGrant, Vault!PromptGranted, Vault!PromptDenied,
           Vault!Step, Vault!Because,
                ReadOK, Vault!store, Vault!history, Granted
  <2> QED BY <1>1, <2>1, <2>2
<1>7. ASSUME NEW r \in Vault!Reads, Vault!Disclose(r) PROVE \A s \in Vault!Reads : ReadOK(s)'
  <2>1. ReadsElse(r)
    BY <1>7, LogStep DEF Vault!Disclose, Vault!Step, ReadsElse, Vault!history
  <2>2. ReadOK(r)'
    BY <1>7, LogStep DEF Vault!Disclose, Vault!Step, ReadOK, Vault!history,
           Vault!ConstantsAssumption, Vault!NoValue
  <2> QED BY <1>1, <2>1, <2>2
<1>8. ASSUME NEW r \in Vault!Reads, Vault!CannotDecrypt(r) PROVE \A s \in Vault!Reads : ReadOK(s)'
  <2>1. ReadsElse(r)
    BY <1>8 DEF Vault!CannotDecrypt, Vault!Step, Vault!Answers, ReadsElse, Vault!store,
           Vault!history, Granted
  <2>2. ReadOK(r)'
    BY <1>8 DEF Vault!CannotDecrypt, Vault!Step, Vault!Answers, ReadOK, Vault!store,
           Vault!history, Granted, Vault!ConstantsAssumption, Vault!NoValue
  <2> QED BY <1>1, <2>1, <2>2
<1>9. ASSUME NEW r \in Vault!Reads, Vault!ReadAnswers(r) PROVE \A s \in Vault!Reads : ReadOK(s)'
  <2>1. ReadsElse(r)
    BY <1>9 DEF Vault!ReadAnswers, Vault!Step, Vault!Answers, ReadsElse, Vault!store,
           Vault!history, Granted
  <2>2. ReadOK(r)'
    BY <1>9 DEF Vault!ReadAnswers, Vault!Step, Vault!Answers, ReadOK, Vault!store, Vault!history,
           Granted
  <2> QED BY <1>1, <2>1, <2>2
<1>10. ASSUME NEW r \in Vault!Reads, Vault!Refuse(r) PROVE \A s \in Vault!Reads : ReadOK(s)'
  <2>1. ReadsElse(r)
    BY <1>10, LogStep DEF Vault!Refuse, Vault!Step, Vault!Answers, ReadsElse, Vault!history
  <2>2. ReadOK(r)'
    BY <1>10, LogStep DEF Vault!Refuse, Vault!Step, Vault!Answers, ReadOK, Vault!history,
           Vault!ConstantsAssumption, Vault!NoValue
  <2> QED BY <1>1, <2>1, <2>2
<1>11. CASE Vault!Revoke
  BY <1>2, <1>11 DEF Vault!Revoke, Vault!calls, Vault!history
<1>12. CASE Vault!Restart
  <2>1. ASSUME NEW r \in Vault!Reads PROVE ReadOK(r)'
    <3>1. Granted(r)' <=> Granted(r)
      BY <1>12 DEF Vault!Restart, Granted
    <3> QED BY <1>12, <3>1 DEF Vault!Restart, Vault!history, ReadOK
  <2> QED BY <2>1
<1>13. CASE UNCHANGED Vault!vars
  BY <1>2, <1>13 DEF Vault!vars, Vault!store, Vault!calls, Vault!history
<1> QED
  BY <1>3, <1>4, <1>5, <1>6, <1>7, <1>8, <1>9, <1>10, <1>11, <1>12, <1>13 DEF Vault!Next

-----------------------------------------------------------------------------
(* Puts.                                                                   *)

\* What the invariants say of one put.
PutOK(p) ==
  /\ p \notin deleted =>
       /\ secretPhase[p] = "looked" /\ copy[p] # Vault!NoRow => row # Vault!NoRow
       /\ secretPhase[p] = "stored" \/ disclosed[p] = "ok" => row.value = p
  /\ secretPhase[p] # "done" => disclosed[p] = "none"
  /\ secretPhase[p] \in {"idle", "looked", "stored", "done"}

LEMMA PutsOK ==
  (/\ PutFollowsPhase
   /\ \A p \in Puts : /\ secretPhase[p] # "done" => disclosed[p] = "none"
                      /\ secretPhase[p] \in {"idle", "looked", "stored", "done"})
    <=> (\A p \in Puts : PutOK(p))
BY DEF PutFollowsPhase, PutOK

\* A step of another call, which leaves the row alone or overtakes every put at work.
LEMMA PutElse ==
  ASSUME NEW p \in Puts, PutOK(p), "none" \notin Puts,
         secretPhase'[p] = secretPhase[p], copy'[p] = copy[p], disclosed'[p] = disclosed[p],
         deleted \subseteq deleted',
         row' = row \/ secretPhase[p] = "idle" \/ p \in deleted' \/ (row = Vault!NoRow /\ row' # Vault!NoRow)
  PROVE  PutOK(p)'
<1>1. CASE row = Vault!NoRow /\ row' # Vault!NoRow
  <2>1. row.value # p
    BY <1>1 DEF Vault!NoRow
  <2> QED BY <1>1, <2>1 DEF PutOK
<1>2. CASE row' = row
  BY <1>2 DEF PutOK
<1>3. CASE secretPhase[p] = "idle"
  BY <1>3 DEF PutOK
<1>4. CASE p \in deleted'
  BY <1>4 DEF PutOK
<1> QED BY <1>1, <1>2, <1>3, <1>4

LEMMA PutStep ==
  ASSUME Vault!ConstantsAssumption, Vault!TypeOK, \A p \in Puts : PutOK(p), [Vault!Next]_Vault!vars
  PROVE  \A p \in Puts : PutOK(p)'
<1> USE SecretsShapes
<1>1. "none" \notin Puts /\ "ok" \notin Puts /\ deleted \subseteq Puts
  BY DEF Vault!ConstantsAssumption, Vault!NoValue, Vault!TypeOK
<1>2. \A p, q \in Puts : row.value = p => row # Vault!NoRow
  BY <1>1 DEF Vault!NoRow
<1>3. ASSUME NEW q \in Puts, Vault!PutReads(q), NEW p \in Puts PROVE PutOK(p)'
  BY <1>3 DEF Vault!PutReads, Vault!Step, Vault!store, Vault!history, PutOK
<1>4. ASSUME NEW q \in Puts, Vault!PutUpdates(q), NEW p \in Puts PROVE PutOK(p)'
  <2>1. CASE row = Vault!NoRow
    BY <1>1, <1>4, <2>1 DEF Vault!PutUpdates, Vault!Step, PutOK, Vault!NoRow
  <2>2. CASE row # Vault!NoRow
    <3>1. PICK allowed \in BOOLEAN : row' = Vault!Stored(q, allowed)
      BY <1>4, <2>2 DEF Vault!PutUpdates
    <3>2. row' # Vault!NoRow /\ row'.value = q
      BY <1>1, <3>1 DEF Vault!Stored, Vault!NoRow
    <3>3. deleted' = deleted \cup (Vault!Overtaken \ {q})
      BY <1>4, <2>2 DEF Vault!PutUpdates
    <3>4. CASE p = q
      BY <1>4, <3>2, <3>4 DEF Vault!PutUpdates, Vault!Step, PutOK
    <3>5. CASE p # q
      BY <1>4, <3>3, <3>5, <1>1, PutElse DEF Vault!PutUpdates, Vault!Step, Vault!Overtaken
    <3> QED BY <3>4, <3>5
  <2> QED BY <2>1, <2>2
<1>5. ASSUME NEW q \in Puts, Vault!PutInserts(q), NEW p \in Puts PROVE PutOK(p)'
  <2>1. CASE row = Vault!NoRow
    <3>1. PICK allowed \in BOOLEAN : row' = Vault!Stored(q, allowed)
      BY <1>5, <2>1 DEF Vault!PutInserts
    <3>2. row' # Vault!NoRow /\ row'.value = q
      BY <1>1, <3>1 DEF Vault!Stored, Vault!NoRow
    <3>3. CASE p = q
      BY <1>5, <2>1, <3>2, <3>3 DEF Vault!PutInserts, Vault!Step, PutOK, Vault!history
    <3>4. CASE p # q
      BY <1>1, <1>5, <2>1, <3>2, <3>4, PutElse
      DEF Vault!PutInserts, Vault!Step, Vault!history, PutOK, Vault!NoRow
    <3> QED BY <3>3, <3>4
  <2>2. CASE row # Vault!NoRow
    BY <1>5, <2>2 DEF Vault!PutInserts, Vault!Step, Vault!Answers, Vault!history, PutOK
  <2> QED BY <2>1, <2>2
<1>6. ASSUME NEW q \in Puts, Vault!PutAnswers(q), NEW p \in Puts PROVE PutOK(p)'
  BY <1>6 DEF Vault!PutAnswers, Vault!Step, Vault!Answers, Vault!store, Vault!history, PutOK
<1>7. ASSUME NEW d \in Deletes, Vault!Delete(d), NEW p \in Puts PROVE PutOK(p)'
  <2>1. p # d
    BY DEF Vault!ConstantsAssumption
  <2>2. /\ secretPhase'[p] = secretPhase[p] /\ copy'[p] = copy[p] /\ disclosed'[p] = disclosed[p]
        /\ row' = row \/ deleted' = deleted \cup Vault!Overtaken
        /\ deleted \subseteq deleted'
    BY <1>7, <2>1 DEF Vault!Delete, Vault!Step, Vault!Answers
  <2> QED BY <2>2, <1>1, PutElse DEF Vault!Overtaken
<1>8. ASSUME NEW r \in Vault!Reads,
             Vault!Load(r) \/ Vault!AllowedByList(r) \/ Vault!LookForGrant(r) \/ Vault!PromptGranted(r) \/ Vault!PromptDenied(r),
             NEW p \in Puts
      PROVE  PutOK(p)'
  <2>1. p # r
    BY DEF Vault!ConstantsAssumption
  <2> QED
    BY <1>8, <2>1, <1>1, PutElse
    DEF Vault!Load, Vault!AllowedByList, Vault!LookForGrant, Vault!PromptGranted,
       Vault!PromptDenied, Vault!Because, Vault!Step, Vault!Answers,
        Vault!store, Vault!history
<1>9. ASSUME NEW r \in Vault!Reads,
             Vault!Disclose(r) \/ Vault!CannotDecrypt(r) \/ Vault!ReadAnswers(r) \/ Vault!Refuse(r),
             NEW p \in Puts
      PROVE  PutOK(p)'
  <2>1. p # r
    BY DEF Vault!ConstantsAssumption
  <2> QED
    BY <1>9, <2>1, <1>1, PutElse
    DEF Vault!Disclose, Vault!CannotDecrypt, Vault!ReadAnswers, Vault!Refuse, Vault!Step,
       Vault!Answers, Vault!store, Vault!history
<1>10. ASSUME Vault!Restart, NEW p \in Puts PROVE PutOK(p)'
  BY <1>10 DEF Vault!Restart, Vault!history, PutOK
<1>11. ASSUME Vault!Revoke \/ UNCHANGED Vault!vars, NEW p \in Puts PROVE PutOK(p)'
  BY <1>11, <1>1, PutElse DEF Vault!Revoke, Vault!vars, Vault!store, Vault!calls, Vault!history
<1> QED
  BY <1>3, <1>4, <1>5, <1>6, <1>7, <1>8, <1>9, <1>10, <1>11 DEF Vault!Next

-----------------------------------------------------------------------------
(* The theorems.                                                           *)

LEMMA SecretsInvIsInductive ==
  ASSUME Vault!ConstantsAssumption, SecretsInv, [Vault!Next]_Vault!vars
  PROVE  SecretsInv'
<1>1. Vault!TypeOK'
  BY SecretsTypeStep DEF SecretsInv
<1>2. (\A r \in Vault!Reads : ReadOK(r)) /\ (\A p \in Puts : PutOK(p))
  BY ReadsOK, PutsOK DEF SecretsInv, AnswerFollowsPhase
<1>3. \A r \in Vault!Reads : ReadOK(r)'
  BY <1>2, ReadStep DEF SecretsInv
<1>4. \A p \in Puts : PutOK(p)'
  BY <1>2, PutStep DEF SecretsInv
<1>5. ReadFollowsPhase' /\ Vault!DisclosureIsAccounted' /\ \A r \in Vault!Reads : secretPhase'[r] # "done" => disclosed'[r] = "none"
  BY <1>3 DEF ReadFollowsPhase, Vault!DisclosureIsAccounted, ReadOK, Vault!Reads, Granted
<1>6. PutFollowsPhase' /\ \A p \in Puts : /\ secretPhase'[p] # "done" => disclosed'[p] = "none"
                                         /\ secretPhase'[p] \in {"idle", "looked", "stored", "done"}
  BY <1>4 DEF PutFollowsPhase, PutOK
<1> QED BY <1>1, <1>5, <1>6 DEF SecretsInv, AnswerFollowsPhase

\* The states of the store and of its calls are of their types.
THEOREM SecretsTyped == Vault!Spec => []Vault!TypeOK
<1>1. Vault!Init => SecretsInv
  BY SecretsInit, PartsAssumption
<1>2. SecretsInv /\ [Vault!Next]_Vault!vars => SecretsInv'
  BY SecretsInvIsInductive, PartsAssumption
<1>3. SecretsInv => Vault!TypeOK
  BY DEF SecretsInv
<1> QED BY <1>1, <1>2, <1>3, PTL DEF Vault!Spec

\* get_secret_for_tool and get_secret_value: what is handed out has a reason, a row in the
\* log that was there before it, and was not superseded when the read began.
THEOREM DisclosuresAreAccounted == Vault!Spec => []DisclosureIsAccounted
<1>1. Vault!Init => SecretsInv
  BY SecretsInit, PartsAssumption
<1>2. SecretsInv /\ [Vault!Next]_Vault!vars => SecretsInv'
  BY SecretsInvIsInductive, PartsAssumption
<1>3. SecretsInv => DisclosureIsAccounted
  BY DEF SecretsInv, DisclosureIsAccounted
<1> QED BY <1>1, <1>2, <1>3, PTL DEF Vault!Spec

\* put_secret: a put that was answered is what the row holds, unless it was overtaken.
THEOREM PutsAreStored == Vault!Spec => []PutIsStored
<1>1. Vault!Init => SecretsInv
  BY SecretsInit, PartsAssumption
<1>2. SecretsInv /\ [Vault!Next]_Vault!vars => SecretsInv'
  BY SecretsInvIsInductive, PartsAssumption
<1>3. SecretsInv => PutIsStored
  BY DEF SecretsInv, PutFollowsPhase, PutIsStored, Vault!PutIsStored
<1> QED BY <1>1, <1>2, <1>3, PTL DEF Vault!Spec

-----------------------------------------------------------------------------
(* Input subscriptions: the events of a source.                            *)

Hashes == Intake!Contents \cup {Intake!None}

LEMMA Numbers ==
  ASSUME Intake!ConstantsAssumption
  PROVE  /\ Hashes = 0..MaxContent /\ Intake!None = 0 /\ Intake!Contents \subseteq Nat \ {0}
         /\ MaxContent \in Nat
BY DEF Intake!ConstantsAssumption, Hashes, Intake!Contents, Intake!None

LEMMA PollOf == \A p \in Intake!Polls : Intake!Of(p) \in Subs
BY DEF Intake!Polls, Intake!Of

-----------------------------------------------------------------------------
(* Types.                                                                  *)

LEMMA PollsTypeInit == ASSUME Intake!ConstantsAssumption, Intake!Init PROVE Intake!TypeOK
BY DEF Intake!Init, Intake!TypeOK, Intake!Row, Intake!Answer, Intake!NoRow, Intake!NoAnswer,
       Intake!PollPhases, Intake!Contents, Intake!None, Intake!ConstantsAssumption

\* The local variables of a poll, and a step of it, keep to their types.
LEMMA LocalTyped ==
  /\ Intake!NoRow \in Intake!Row /\ Intake!NoAnswer \in Intake!Answer
  /\ \A p \in Intake!Polls : Intake!Ended(p) \in Intake!PollPhases
BY DEF Intake!NoRow, Intake!NoAnswer, Intake!Row, Intake!Answer, Intake!Ended, Intake!PollPhases,
       Intake!None

LEMMA AnsweredTyped ==
  ASSUME Intake!TypeOK, NEW p \in Intake!Polls, NEW a \in Intake!Answer, Intake!Answered(p, a)
  PROVE  Intake!TypeOK'
BY DEF Intake!TypeOK, Intake!Answered, Intake!Step, Intake!PollPhases, Intake!sources, Intake!seen

LEMMA PollsTypeStep ==
  ASSUME Intake!ConstantsAssumption, Intake!TypeOK, [Intake!Next]_Intake!vars
  PROVE  Intake!TypeOK'
<1> USE LocalTyped, PollOf
<1>1. CASE Intake!Tick
  BY <1>1 DEF Intake!TypeOK, Intake!Tick, Intake!PollPhases, Intake!sources, Intake!seen
<1>2. CASE Intake!Sleep
  BY <1>2 DEF Intake!TypeOK, Intake!Sleep, Intake!PollPhases, Intake!sources, Intake!seen
<1>3. ASSUME NEW s \in Subs, Intake!ForcePoll(s) PROVE Intake!TypeOK'
  BY <1>3 DEF Intake!TypeOK, Intake!ForcePoll, Intake!Step, Intake!PollPhases, Intake!sources,
         Intake!seen
<1>4. ASSUME NEW s \in Subs, Intake!SourceChanges(s) PROVE Intake!TypeOK'
  <2>1. content[s] + 1 \in Intake!Contents
    BY <1>4 DEF Intake!TypeOK, Intake!SourceChanges, Intake!Contents, Intake!ConstantsAssumption
  <2> QED BY <1>4, <2>1 DEF Intake!TypeOK, Intake!SourceChanges, Intake!polling, Intake!seen
<1>5. ASSUME NEW s \in Subs, Intake!Delete(s) PROVE Intake!TypeOK'
  BY <1>5 DEF Intake!TypeOK, Intake!Delete, Intake!polling, Intake!seen
<1>6. ASSUME NEW s \in Subs, NEW enable \in BOOLEAN, Intake!SetEnabled(s, enable) PROVE Intake!TypeOK'
  BY <1>6 DEF Intake!TypeOK, Intake!SetEnabled, Intake!Row, Intake!polling, Intake!seen
<1>7. ASSUME NEW p \in Intake!Polls, Intake!ReadRow(p) PROVE Intake!TypeOK'
  BY <1>7 DEF Intake!TypeOK, Intake!ReadRow, Intake!PollPhases, Intake!sources
<1>8. ASSUME NEW p \in Intake!Polls, Intake!PollErrs(p) PROVE Intake!TypeOK'
  BY <1>8, AnsweredTyped DEF Intake!PollErrs
<1>9. ASSUME NEW p \in Intake!Polls, Intake!NotModified(p) PROVE Intake!TypeOK'
  <2>1. [payload |-> Intake!None, etag |-> read[p].etag, hash |-> Intake!None] \in Intake!Answer
    BY DEF Intake!TypeOK, Intake!Row, Intake!Answer, Intake!None
  <2> QED BY <1>9, <2>1, AnsweredTyped DEF Intake!NotModified
<1>10. ASSUME NEW p \in Intake!Polls, Intake!Fetched(p) PROVE Intake!TypeOK'
  <2>1. \E a \in Intake!Answer : Intake!Answered(p, a)
    <3>1. content[Intake!Of(p)] \in Intake!Contents /\ read[p].etag \in Intake!Contents \cup {Intake!None}
      BY DEF Intake!TypeOK, Intake!Row
    <3> QED BY <1>10, <3>1 DEF Intake!Fetched, Intake!Answer, Intake!None
  <2> QED BY <2>1, AnsweredTyped
<1>11. ASSUME NEW p \in Intake!Polls, Intake!RecordPoll(p) PROVE Intake!TypeOK'
  <2>1. sub' \in [Subs -> Intake!Row]
    <3>1. polled[p].etag \in Intake!Contents \cup {Intake!None} /\ polled[p].hash \in Intake!Contents \cup {Intake!None}
      BY DEF Intake!TypeOK, Intake!Answer
    <3>2. \A a, b \in Intake!Contents \cup {Intake!None} :
            [sub EXCEPT ![Intake!Of(p)].etag = a, ![Intake!Of(p)].hash = b] \in [Subs -> Intake!Row]
      BY DEF Intake!TypeOK, Intake!Row
    <3> QED BY <1>11, <3>1, <3>2 DEF Intake!TypeOK, Intake!RecordPoll
  <2>2. poll' \in [Intake!Polls -> Intake!PollPhases]
    BY <1>11 DEF Intake!TypeOK, Intake!RecordPoll, Intake!Step, Intake!PollPhases
  <2>3. read' \in [Intake!Polls -> Intake!Row] /\ polled' \in [Intake!Polls -> Intake!Answer]
    BY <1>11 DEF Intake!TypeOK, Intake!RecordPoll, Intake!Forget
  <2>4. forgot' \subseteq Subs
    BY <1>11 DEF Intake!TypeOK, Intake!RecordPoll
  <2> QED BY <1>11, <2>1, <2>2, <2>3, <2>4 DEF Intake!TypeOK, Intake!RecordPoll
<1>12. ASSUME NEW p \in Intake!Polls, Intake!Emit(p) PROVE Intake!TypeOK'
  <2>1. polled[p].payload \in Intake!Contents \cup {Intake!None}
    BY DEF Intake!TypeOK, Intake!Answer
  <2> QED BY <1>12, <2>1
          DEF Intake!TypeOK, Intake!Emit, Intake!Step, Intake!PollPhases, Intake!sources
<1>13. ASSUME NEW p \in Intake!Polls, Intake!EmitReturns(p) \/ Intake!PollRaises(p) PROVE Intake!TypeOK'
  BY <1>13 DEF Intake!TypeOK, Intake!EmitReturns, Intake!PollRaises, Intake!Step, Intake!Forget, Intake!sources,
         Intake!seen
<1>14. CASE Intake!Crash
  <2>1. dropped' \in [Subs -> SUBSET (Intake!Contents \cup {Intake!None})]
    <3>1. \A p \in Intake!Polls : polled[p].payload \in Intake!Contents \cup {Intake!None}
      BY DEF Intake!TypeOK, Intake!Answer
    <3> QED BY <1>14, <3>1 DEF Intake!TypeOK, Intake!Crash
  <2> QED BY <1>14, <2>1 DEF Intake!TypeOK, Intake!Crash, Intake!PollPhases, Intake!sources
<1>15. CASE UNCHANGED Intake!vars
  BY <1>15 DEF Intake!TypeOK, Intake!vars, Intake!sources, Intake!polling, Intake!seen
<1> QED
  BY <1>1, <1>2, <1>3, <1>4, <1>5, <1>6, <1>7, <1>8, <1>9, <1>10, <1>11, <1>12, <1>13, <1>14,
     <1>15
  DEF Intake!Next, Intake!PollStep

-----------------------------------------------------------------------------
(* What is seen has been emitted.                                          *)

\* Content that has been emitted, is about to be, or was taken by a crash in the gap.
Seen(s, h) ==
  \/ h \in events[s] \cup dropped[s]
  \/ \E p \in Intake!Polls : Intake!Of(p) = s /\ poll[p] = "emitting" /\ polled[p].payload = h

\* A hash is of content that was seen, on the rows that are in the table or were read; one
\* that an answer brings is of the content that it brings, or of the row that was read.
HashesAreSeen ==
  /\ \A s \in Subs : sub[s].hash # Intake!None => Seen(s, sub[s].hash)
  /\ \A p \in Intake!Polls :
       /\ read[p].hash # Intake!None => Seen(Intake!Of(p), read[p].hash)
       /\ polled[p].payload = Intake!None /\ polled[p].hash # Intake!None => Seen(Intake!Of(p), polled[p].hash)
       /\ polled[p].payload # Intake!None => polled[p].hash = polled[p].payload
       /\ poll[p] = "emitting" => polled[p].payload # Intake!None

SeenInv == Intake!TypeOK /\ HashesAreSeen

LEMMA SeenStays ==
  ASSUME \A s \in Subs : events[s] \subseteq events'[s] /\ dropped[s] \subseteq dropped'[s],
         \A q \in Intake!Polls : poll[q] = "emitting" =>
           \/ poll'[q] = "emitting" /\ polled'[q].payload = polled[q].payload
           \/ polled[q].payload \in events'[Intake!Of(q)] \cup dropped'[Intake!Of(q)],
         NEW s \in Subs, NEW h, Seen(s, h)
  PROVE  Seen(s, h)'
BY DEF Seen

LEMMA SeenStep ==
  ASSUME Intake!ConstantsAssumption, SeenInv, [Intake!Next]_Intake!vars
  PROVE  HashesAreSeen'
<1> USE PollOf DEF SeenInv
<1>0. Intake!TypeOK'
  BY PollsTypeStep
<1> DEFINE Kept == /\ \A s \in Subs : events[s] \subseteq events'[s] /\ dropped[s] \subseteq dropped'[s]
                   /\ \A q \in Intake!Polls : poll[q] = "emitting" =>
                        \/ poll'[q] = "emitting" /\ polled'[q].payload = polled[q].payload
                        \/ polled[q].payload \in events'[Intake!Of(q)] \cup dropped'[Intake!Of(q)]
           Keeps == \A s \in Subs : \A h : Seen(s, h) => Seen(s, h)'
<1>1. Kept => Keeps
  BY SeenStays
\* No local variable and no hash changes.
<1>2. ASSUME Kept, \A s \in Subs : sub'[s].hash = sub[s].hash, read' = read, polled' = polled,
             \A q \in Intake!Polls : poll'[q] = "emitting" => poll[q] = "emitting"
      PROVE  HashesAreSeen'
  BY <1>1, <1>2 DEF HashesAreSeen
<1>3. CASE Intake!Tick \/ Intake!Sleep
  <2>1. /\ UNCHANGED <<sub, read, polled, events, dropped>>
        /\ \A q \in Intake!Polls : poll[q] = "emitting" <=> poll'[q] = "emitting"
    BY <1>3
    DEF Intake!Tick, Intake!Sleep, Intake!sources, Intake!seen, Intake!TypeOK, Intake!Polls
  <2> QED BY <1>2, <2>1
<1>4. ASSUME NEW s \in Subs, Intake!ForcePoll(s) \/ Intake!SourceChanges(s) \/ Intake!Delete(s) PROVE HashesAreSeen'
  <2>1. /\ UNCHANGED <<sub, read, polled, events, dropped>>
        /\ \A q \in Intake!Polls : poll[q] = "emitting" <=> poll'[q] = "emitting"
    BY <1>4 DEF Intake!ForcePoll, Intake!SourceChanges, Intake!Delete, Intake!Step,
           Intake!sources, Intake!polling, Intake!seen, Intake!TypeOK
  <2> QED BY <1>2, <2>1
<1>5. ASSUME NEW s \in Subs, NEW enable \in BOOLEAN, Intake!SetEnabled(s, enable) PROVE HashesAreSeen'
  <2>1. UNCHANGED <<poll, read, polled, events, dropped>> /\ \A r \in Subs : sub'[r].hash = sub[r].hash
    BY <1>5 DEF Intake!SetEnabled, Intake!polling, Intake!seen, Intake!TypeOK, Intake!Row
  <2> QED BY <1>2, <2>1
<1>6. ASSUME NEW p \in Intake!Polls, Intake!ReadRow(p) PROVE HashesAreSeen'
  <2>1. CASE Intake!Of(p) \in gone \/ ~sub[Intake!Of(p)].enabled
    <3>1. /\ UNCHANGED <<sub, read, polled, events, dropped>>
          /\ \A q \in Intake!Polls : poll[q] = "emitting" <=> poll'[q] = "emitting"
      BY <1>6, <2>1 DEF Intake!ReadRow, Intake!sources, Intake!TypeOK, Intake!Ended
    <3> QED BY <1>2, <3>1
  <2>2. CASE ~(Intake!Of(p) \in gone \/ ~sub[Intake!Of(p)].enabled)
    <3>1. /\ UNCHANGED <<sub, polled, events, dropped>> /\ read' = [read EXCEPT ![p] = sub[Intake!Of(p)]]
          /\ \A q \in Intake!Polls : poll[q] = "emitting" <=> poll'[q] = "emitting"
      BY <1>6, <2>2 DEF Intake!ReadRow, Intake!sources, Intake!TypeOK
    <3>2. Keeps
      BY <1>1, <3>1
    <3> QED BY <3>1, <3>2 DEF HashesAreSeen, Intake!TypeOK
  <2> QED BY <2>1, <2>2
<1>7. ASSUME NEW p \in Intake!Polls, NEW a \in Intake!Answer, Intake!Answered(p, a),
             a.payload = Intake!None /\ a.hash # Intake!None => a.hash = read[p].hash,
             a.payload # Intake!None => a.hash = a.payload
      PROVE  HashesAreSeen'
  <2>1. /\ UNCHANGED <<sub, read, events, dropped>> /\ polled' = [polled EXCEPT ![p] = a]
        /\ poll[p] = "requesting" /\ poll' = [poll EXCEPT ![p] = "answered"]
    BY <1>7 DEF Intake!Answered, Intake!Step, Intake!sources, Intake!seen
  <2>2. Keeps
    <3>1. \A q \in Intake!Polls : poll[q] = "emitting" => q # p /\ poll'[q] = "emitting" /\ polled'[q] = polled[q]
      BY <2>1 DEF Intake!TypeOK
    <3> QED BY <1>1, <2>1, <3>1
  <2>3. \A q \in Intake!Polls : poll'[q] = "emitting" => poll[q] = "emitting" /\ q # p
    BY <2>1 DEF Intake!TypeOK
  <2>4. /\ \A q \in Intake!Polls : q # p => polled'[q] = polled[q]
        /\ polled'[p] = a
    BY <2>1 DEF Intake!TypeOK
  <2> QED BY <1>7, <2>1, <2>2, <2>3, <2>4 DEF HashesAreSeen
<1>8. ASSUME NEW p \in Intake!Polls, Intake!PollErrs(p) \/ Intake!NotModified(p) PROVE HashesAreSeen'
  <2>1. PICK a \in Intake!Answer : Intake!Answered(p, a) /\ a.payload = Intake!None /\ a.hash = Intake!None
    BY <1>8, LocalTyped DEF Intake!PollErrs, Intake!NotModified, Intake!NoAnswer, Intake!TypeOK,
           Intake!Row, Intake!Answer, Intake!None
  <2> QED BY <1>7, <2>1
<1>9. ASSUME NEW p \in Intake!Polls, Intake!Fetched(p) PROVE HashesAreSeen'
  <2>1. content[Intake!Of(p)] \in Intake!Contents /\ read[p].etag \in Intake!Contents \cup {Intake!None}
    BY DEF Intake!TypeOK, Intake!Row
  <2>2. PICK etag \in {Intake!None, content[Intake!Of(p)]} :
          IF content[Intake!Of(p)] = read[p].hash
          THEN Intake!Answered(p, [payload |-> Intake!None, hash |-> content[Intake!Of(p)],
                            etag |-> IF etag = Intake!None THEN read[p].etag ELSE etag])
          ELSE Intake!Answered(p, [payload |-> content[Intake!Of(p)], hash |-> content[Intake!Of(p)], etag |-> etag])
    BY <1>9 DEF Intake!Fetched
  <2>3. CASE content[Intake!Of(p)] = read[p].hash
    <3>1. PICK a \in Intake!Answer : Intake!Answered(p, a) /\ a.payload = Intake!None /\ a.hash = read[p].hash
      BY <2>1, <2>2, <2>3 DEF Intake!Answer
    <3> QED BY <1>7, <3>1
  <2>4. CASE content[Intake!Of(p)] # read[p].hash
    <3>1. PICK a \in Intake!Answer : Intake!Answered(p, a) /\ a.payload = a.hash
      BY <2>1, <2>2, <2>4 DEF Intake!Answer
    <3> QED BY <1>7, <3>1
  <2> QED BY <2>3, <2>4
<1>10. ASSUME NEW p \in Intake!Polls, Intake!RecordPoll(p) PROVE HashesAreSeen'
  <2>1. /\ poll[p] = "answered" /\ UNCHANGED <<events, dropped>>
        /\ \A q \in Intake!Polls \ {p} : poll'[q] = poll[q] /\ polled'[q] = polled[q] /\ read'[q] = read[q]
    BY <1>10 DEF Intake!RecordPoll, Intake!Step, Intake!Forget, Intake!TypeOK
  <2>2. Keeps
    <3>1. \A q \in Intake!Polls : poll[q] = "emitting" => poll'[q] = "emitting" /\ polled'[q] = polled[q]
      BY <2>1
    <3> QED BY <1>1, <2>1, <3>1
  <2>3. \A s \in Subs : sub'[s].hash = sub[s].hash \/ (s = Intake!Of(p) /\ sub'[s].hash = polled[p].hash)
    BY <1>10 DEF Intake!RecordPoll, Intake!TypeOK, Intake!Row
  <2>4. CASE polled[p].payload = Intake!None
    <3>1. /\ poll'[p] # "emitting" /\ read'[p] = Intake!NoRow /\ polled'[p] = Intake!NoAnswer
      BY <1>10, <2>4
      DEF Intake!RecordPoll, Intake!Step, Intake!Forget, Intake!TypeOK, Intake!Ended
    <3>2. PICK h : h = polled[p].hash
      OBVIOUS
    <3>3. h # Intake!None => Seen(Intake!Of(p), h)'
      BY <2>2, <2>4, <3>2 DEF HashesAreSeen
    <3>4. \A s \in Subs : sub'[s].hash # Intake!None => Seen(s, sub[s].hash)'
      BY <2>2, <2>3, <3>2, <3>3 DEF HashesAreSeen
    <3>5. \A q \in Intake!Polls \ {p} :
            /\ read'[q].hash # Intake!None => Seen(Intake!Of(q), read[q].hash)'
            /\ polled'[q].payload = Intake!None /\ polled'[q].hash # Intake!None => Seen(Intake!Of(q), polled[q].hash)'
            /\ polled'[q].payload # Intake!None => polled'[q].hash = polled'[q].payload
            /\ poll'[q] = "emitting" => polled'[q].payload # Intake!None
      BY <2>1, <2>2 DEF HashesAreSeen
    <3> QED BY <3>1, <3>4, <3>5 DEF HashesAreSeen, Intake!NoRow, Intake!NoAnswer
  <2>5. CASE polled[p].payload # Intake!None
    <3>1. poll'[p] = "emitting" /\ read' = read /\ polled' = polled
      BY <1>10, <2>5 DEF Intake!RecordPoll, Intake!Step, Intake!TypeOK
    <3>2. Seen(Intake!Of(p), polled[p].hash)'
      BY <2>5, <3>1 DEF HashesAreSeen, Seen
    <3> QED BY <2>1, <2>2, <2>3, <2>5, <3>1, <3>2 DEF HashesAreSeen
  <2> QED BY <2>4, <2>5
<1>11. ASSUME NEW p \in Intake!Polls, Intake!Emit(p) PROVE HashesAreSeen'
  <2>1. /\ UNCHANGED <<sub, read, polled, dropped>>
        /\ events' = [events EXCEPT ![Intake!Of(p)] = @ \cup {polled[p].payload}]
        /\ \A q \in Intake!Polls : q # p => poll'[q] = poll[q]
        /\ poll'[p] = "ingesting"
    BY <1>11 DEF Intake!Emit, Intake!Step, Intake!sources, Intake!TypeOK
  <2>2. \A s \in Subs : events[s] \subseteq events'[s]
    BY <2>1 DEF Intake!TypeOK
  <2>3. polled[p].payload \in events'[Intake!Of(p)]
    BY <2>1 DEF Intake!TypeOK
  <2> QED BY <1>2, <2>1, <2>2, <2>3
<1>12. ASSUME NEW p \in Intake!Polls, Intake!EmitReturns(p) \/ Intake!PollRaises(p) PROVE HashesAreSeen'
  <2>1. /\ UNCHANGED <<sub, events, dropped>> /\ poll[p] \in {"requesting", "ingesting"}
        /\ \A q \in Intake!Polls \ {p} : poll'[q] = poll[q] /\ polled'[q] = polled[q] /\ read'[q] = read[q]
        /\ poll'[p] # "emitting" /\ read'[p] = Intake!NoRow /\ polled'[p] = Intake!NoAnswer
    BY <1>12 DEF Intake!EmitReturns, Intake!PollRaises, Intake!Step, Intake!Forget, Intake!sources, Intake!seen,
           Intake!TypeOK, Intake!Ended
  <2>2. Keeps
    <3>1. \A q \in Intake!Polls : poll[q] = "emitting" => poll'[q] = "emitting" /\ polled'[q] = polled[q]
      BY <2>1
    <3> QED BY <1>1, <2>1, <3>1
  <2> QED BY <2>1, <2>2 DEF HashesAreSeen, Intake!NoRow, Intake!NoAnswer
<1>13. CASE Intake!Crash
  <2>1. /\ \A q \in Intake!Polls : poll'[q] = "idle" /\ read'[q] = Intake!NoRow /\ polled'[q] = Intake!NoAnswer
        /\ UNCHANGED <<sub, events>>
    BY <1>13 DEF Intake!Crash, Intake!sources
  <2>2. \A q \in Intake!Polls : poll[q] = "emitting" => polled[q].payload \in dropped'[Intake!Of(q)]
    BY <1>13 DEF Intake!Crash
  <2>3. \A s \in Subs : dropped[s] \subseteq dropped'[s]
    BY <1>13 DEF Intake!Crash
  <2>4. Keeps
    BY <1>1, <2>1, <2>2, <2>3
  <2> QED BY <2>1, <2>4 DEF HashesAreSeen, Intake!NoRow, Intake!NoAnswer
<1>14. CASE UNCHANGED Intake!vars
  BY <1>2, <1>14 DEF Intake!vars, Intake!sources, Intake!polling, Intake!seen
<1> QED
  BY <1>3, <1>4, <1>5, <1>6, <1>8, <1>9, <1>10, <1>11, <1>12, <1>13, <1>14
  DEF Intake!Next, Intake!PollStep

LEMMA SeenInit == ASSUME Intake!ConstantsAssumption, Intake!Init PROVE SeenInv
BY PollsTypeInit DEF SeenInv, Intake!Init, HashesAreSeen, Intake!NoRow, Intake!NoAnswer

\* The states of the subscriptions and of their polls are of their types.
THEOREM SubscriptionsTyped == Intake!Spec => []Intake!TypeOK
<1>1. Intake!Init => SeenInv
  BY SeenInit, PartsAssumption
<1>2. SeenInv /\ [Intake!Next]_Intake!vars => SeenInv'
  BY SeenStep, PollsTypeStep, PartsAssumption DEF SeenInv
<1>3. SeenInv => Intake!TypeOK
  BY DEF SeenInv
<1> QED BY <1>1, <1>2, <1>3, PTL DEF Intake!Spec

\* _record_poll: content that the polls to come pass over has been emitted, or is about to be,
\* or was lost to a crash in the gap between the record and the event.
THEOREM RecordedIsEmitted == Intake!Spec => []SeenIsEmitted
<1>1. Intake!Init => SeenInv
  BY SeenInit, PartsAssumption
<1>2. SeenInv /\ [Intake!Next]_Intake!vars => SeenInv'
  BY SeenStep, PollsTypeStep, PartsAssumption DEF SeenInv
<1>3. SeenInv => SeenIsEmitted
  BY DEF SeenInv, HashesAreSeen, Seen, SeenIsEmitted, Intake!SeenIsEmitted
<1> QED BY <1>1, <1>2, <1>3, PTL DEF Intake!Spec
-----------------------------------------------------------------------------
(* Events are in order.                                                    *)

\* Nothing is ahead of the source; and while the hash has not been forgotten, the row's is
\* not behind the last event.
SubOK(s) ==
  /\ emitted[s] <= content[s] /\ sub[s].hash <= content[s]
  /\ s \notin crossed \cup gone \cup forgot => emitted[s] <= sub[s].hash

\* A poll that no other has crossed is the only one at work on its subscription; what it has
\* read or fetched is not behind the last event, and what it is to emit is ahead of it.
PollOK(p) ==
  /\ read[p].hash <= content[Intake!Of(p)]
  /\ polled[p].hash <= content[Intake!Of(p)] /\ polled[p].payload <= content[Intake!Of(p)]
  /\ Intake!Busy(p) /\ Intake!Of(p) \notin crossed =>
       /\ \A q \in Intake!Polls \ {p} : Intake!Of(q) = Intake!Of(p) => ~Intake!Busy(q)
       /\ poll[p] = "requesting" /\ Intake!Of(p) \notin forgot => emitted[Intake!Of(p)] <= read[p].hash
       /\ poll[p] = "answered" /\ polled[p].hash # Intake!None /\ Intake!Of(p) \notin forgot =>
            emitted[Intake!Of(p)] <= polled[p].hash
       /\ poll[p] \in {"answered", "emitting"} /\ polled[p].payload # Intake!None =>
            /\ emitted[Intake!Of(p)] <= polled[p].payload
            /\ Intake!Of(p) \notin forgot => emitted[Intake!Of(p)] < polled[p].payload
       /\ poll[p] = "emitting" /\ Intake!Of(p) \notin gone => sub[Intake!Of(p)].hash = polled[p].payload

OrderInv == SeenInv /\ (\A s \in Subs : SubOK(s)) /\ (\A p \in Intake!Polls : PollOK(p))

LEMMA Ints ==
  ASSUME Intake!ConstantsAssumption, Intake!TypeOK
  PROVE  /\ \A s \in Subs : content[s] \in Nat /\ emitted[s] \in Nat /\ sub[s].hash \in Nat
         /\ \A p \in Intake!Polls : /\ read[p].hash \in Nat
                                    /\ polled[p].hash \in Nat /\ polled[p].payload \in Nat
         /\ Intake!None = 0
<1>1. Intake!Contents \cup {Intake!None} \subseteq Nat /\ Intake!Contents \subseteq Nat /\ Intake!None = 0
  BY DEF Intake!Contents, Intake!None, Intake!ConstantsAssumption
<1>2. \A s \in Subs : content[s] \in Intake!Contents /\ emitted[s] \in Intake!Contents \cup {Intake!None}
                     /\ sub[s].hash \in Intake!Contents \cup {Intake!None}
  BY DEF Intake!TypeOK, Intake!Row
<1>3. \A p \in Intake!Polls : /\ read[p].hash \in Intake!Contents \cup {Intake!None}
                      /\ polled[p].hash \in Intake!Contents \cup {Intake!None}
                      /\ polled[p].payload \in Intake!Contents \cup {Intake!None}
  BY DEF Intake!TypeOK, Intake!Row, Intake!Answer
<1> QED BY <1>1, <1>2, <1>3

\* What no step of a poll does: the source, and what is gone, stay as they are.
SourceStays == UNCHANGED <<content, gone>>

\* A step of one poll at work leaves the other polls, and the other subscriptions, as they are.
PollAlone(p) ==
  /\ SourceStays /\ crossed' = crossed
  /\ \A q \in Intake!Polls \ {p} : poll'[q] = poll[q] /\ read'[q] = read[q] /\ polled'[q] = polled[q]
  /\ \A s \in Subs \ {Intake!Of(p)} : /\ sub'[s] = sub[s] /\ emitted'[s] = emitted[s]
                              /\ (s \in forgot' <=> s \in forgot)

LEMMA OthersOK ==
  ASSUME NEW p \in Intake!Polls, OrderInv, Intake!Busy(p), PollAlone(p)
  PROVE  /\ \A q \in Intake!Polls \ {p} : PollOK(q)'
         /\ \A s \in Subs \ {Intake!Of(p)} : SubOK(s)'
<1> USE PollOf
<1>1. ASSUME NEW q \in Intake!Polls \ {p}, Intake!Of(q) # Intake!Of(p) PROVE PollOK(q)'
  <2>1. /\ poll'[q] = poll[q] /\ read'[q] = read[q] /\ polled'[q] = polled[q]
        /\ sub'[Intake!Of(q)] = sub[Intake!Of(q)] /\ emitted'[Intake!Of(q)] = emitted[Intake!Of(q)]
        /\ (Intake!Of(q) \in forgot' <=> Intake!Of(q) \in forgot)
        /\ \A r \in Intake!Polls : Intake!Of(r) = Intake!Of(q) => poll'[r] = poll[r]
    BY <1>1 DEF PollAlone
  <2> QED BY <2>1 DEF PollOK, OrderInv, PollAlone, SourceStays, Intake!Busy
<1>2. ASSUME NEW q \in Intake!Polls \ {p}, Intake!Of(q) = Intake!Of(p) PROVE PollOK(q)'
  <2>1. Intake!Of(q) \notin crossed' => ~Intake!Busy(q)'
    BY <1>2 DEF OrderInv, PollOK, PollAlone, Intake!Busy
  <2>2. read'[q] = read[q] /\ polled'[q] = polled[q] /\ content' = content
    BY DEF PollAlone, SourceStays
  <2> QED BY <2>1, <2>2 DEF PollOK, OrderInv
<1>3. \A s \in Subs \ {Intake!Of(p)} : SubOK(s)'
  BY DEF SubOK, OrderInv, PollAlone, SourceStays
<1> QED BY <1>1, <1>2, <1>3

LEMMA OrderOfPoll ==
  ASSUME NEW p \in Intake!Polls, OrderInv, Intake!Busy(p), PollAlone(p), PollOK(p)', SubOK(Intake!Of(p))'
  PROVE  (\A s \in Subs : SubOK(s)') /\ (\A q \in Intake!Polls : PollOK(q)')
<1>1. /\ \A q \in Intake!Polls \ {p} : PollOK(q)'
      /\ \A s \in Subs \ {Intake!Of(p)} : SubOK(s)'
  BY OthersOK
<1>2. \A s : s = Intake!Of(p) => SubOK(s)'
  BY DEF SubOK, Intake!Of
<1> QED BY <1>1, <1>2

LEMMA OrderStep ==
  ASSUME Intake!ConstantsAssumption, OrderInv, [Intake!Next]_Intake!vars
  PROVE  (\A s \in Subs : SubOK(s)') /\ (\A p \in Intake!Polls : PollOK(p)')
<1> USE PollOf
<1>0. Intake!TypeOK /\ Intake!TypeOK' /\ HashesAreSeen
  BY PollsTypeStep DEF OrderInv, SeenInv
<1>i. /\ \A s \in Subs : content[s] \in Nat /\ emitted[s] \in Nat /\ sub[s].hash \in Nat
      /\ \A p \in Intake!Polls : /\ read[p].hash \in Nat
                                 /\ polled[p].hash \in Nat /\ polled[p].payload \in Nat
      /\ Intake!None = 0
  BY <1>0, Ints
\* No hash, no local variable and no event changes, and nobody begins.
<1>1. ASSUME \A s \in Subs : sub'[s].hash = sub[s].hash /\ content[s] <= content'[s],
             \A s \in Subs : content'[s] \in Nat,
             UNCHANGED <<read, polled, emitted, forgot, crossed>>, gone \subseteq gone',
             \A q \in Intake!Polls : poll'[q] = poll[q] \/ (~Intake!Busy(q) /\ ~Intake!Busy(q)')
      PROVE  (\A s \in Subs : SubOK(s)') /\ (\A p \in Intake!Polls : PollOK(p)')
  <2>1. \A s \in Subs : SubOK(s)'
    BY <1>i, <1>1 DEF SubOK, OrderInv
  <2>2. ASSUME NEW p \in Intake!Polls PROVE PollOK(p)'
    <3>1. \A q \in Intake!Polls : Intake!Busy(q)' => Intake!Busy(q) /\ poll'[q] = poll[q]
      BY <1>1 DEF Intake!Busy
    <3>2. PollOK(p)
      BY DEF OrderInv
    <3>3. /\ read[p].hash <= content'[Intake!Of(p)]
          /\ polled[p].hash <= content'[Intake!Of(p)] /\ polled[p].payload <= content'[Intake!Of(p)]
      BY <1>i, <1>1, <3>2 DEF PollOK
    <3> QED BY <1>1, <3>1, <3>2, <3>3 DEF PollOK
  <2> QED BY <2>1, <2>2
<1>2. CASE Intake!Tick
  <2>1. \A q \in Intake!Polls : poll'[q] = poll[q] \/ (~Intake!Busy(q) /\ ~Intake!Busy(q)')
    BY <1>0, <1>2 DEF Intake!Tick, Intake!Busy, Intake!TypeOK, Intake!Polls, Intake!Of
  <2> QED BY <1>i, <1>1, <1>2, <2>1 DEF Intake!Tick, Intake!sources, Intake!seen
<1>3. CASE Intake!Sleep
  <2>1. \A q \in Intake!Polls : poll'[q] = poll[q] \/ (~Intake!Busy(q) /\ ~Intake!Busy(q)')
    BY <1>0, <1>3 DEF Intake!Sleep, Intake!Busy, Intake!TypeOK, Intake!Polls, Intake!Of
  <2> QED BY <1>i, <1>1, <1>3, <2>1 DEF Intake!Sleep, Intake!sources, Intake!seen
<1>4. ASSUME NEW s \in Subs, Intake!ForcePoll(s)
      PROVE  (\A r \in Subs : SubOK(r)') /\ (\A p \in Intake!Polls : PollOK(p)')
  <2>1. \A q \in Intake!Polls : poll'[q] = poll[q] \/ (~Intake!Busy(q) /\ ~Intake!Busy(q)')
    BY <1>0, <1>4 DEF Intake!ForcePoll, Intake!Step, Intake!Busy, Intake!TypeOK
  <2> QED BY <1>i, <1>1, <1>4, <2>1 DEF Intake!ForcePoll, Intake!sources, Intake!seen
<1>5. ASSUME NEW s \in Subs, Intake!SourceChanges(s)
      PROVE  (\A r \in Subs : SubOK(r)') /\ (\A p \in Intake!Polls : PollOK(p)')
  <2>1. \A r \in Subs : content'[r] \in Nat /\ content[r] <= content'[r]
    BY <1>0, <1>i, <1>5 DEF Intake!SourceChanges, Intake!TypeOK
  <2> QED BY <1>1, <1>5, <2>1 DEF Intake!SourceChanges, Intake!polling, Intake!seen
<1>6. ASSUME NEW s \in Subs, Intake!Delete(s)
      PROVE  (\A r \in Subs : SubOK(r)') /\ (\A p \in Intake!Polls : PollOK(p)')
  BY <1>i, <1>1, <1>6 DEF Intake!Delete, Intake!polling, Intake!seen
<1>7. ASSUME NEW s \in Subs, NEW enable \in BOOLEAN, Intake!SetEnabled(s, enable)
      PROVE  (\A r \in Subs : SubOK(r)') /\ (\A p \in Intake!Polls : PollOK(p)')
  <2>1. \A r \in Subs : sub'[r].hash = sub[r].hash
    BY <1>0, <1>7 DEF Intake!SetEnabled, Intake!TypeOK, Intake!Row
  <2> QED BY <1>i, <1>1, <1>7, <2>1 DEF Intake!SetEnabled, Intake!polling, Intake!seen
<1>8. ASSUME NEW p \in Intake!Polls, Intake!ReadRow(p)
      PROVE  (\A r \in Subs : SubOK(r)') /\ (\A q \in Intake!Polls : PollOK(q)')
  <2>1. CASE Intake!Of(p) \in gone \/ ~sub[Intake!Of(p)].enabled
    <3>1. \A q \in Intake!Polls : poll'[q] = poll[q] \/ (~Intake!Busy(q) /\ ~Intake!Busy(q)')
      BY <1>0, <1>8, <2>1 DEF Intake!ReadRow, Intake!Busy, Intake!TypeOK, Intake!Ended
    <3> QED BY <1>i, <1>1, <1>8, <2>1, <3>1 DEF Intake!ReadRow, Intake!sources
  <2>2. CASE ~(Intake!Of(p) \in gone \/ ~sub[Intake!Of(p)].enabled)
    <3>1. /\ UNCHANGED <<content, sub, gone, polled, emitted, forgot>>
          /\ poll[p] = "due" /\ poll'[p] = "requesting" /\ read'[p] = sub[Intake!Of(p)]
          /\ \A q \in Intake!Polls \ {p} : poll'[q] = poll[q] /\ read'[q] = read[q]
          /\ crossed \subseteq crossed'
          /\ Intake!Of(p) \in crossed' \/ \A q \in Intake!Polls \ {p} : Intake!Of(q) = Intake!Of(p) => ~Intake!Busy(q)
      BY <1>0, <1>8, <2>2 DEF Intake!ReadRow, Intake!sources, Intake!TypeOK
    <3>2. \A s \in Subs : SubOK(s)'
      BY <3>1 DEF SubOK, OrderInv
    <3>3. PollOK(p)'
      <4>1. SubOK(Intake!Of(p)) /\ PollOK(p)
        BY DEF OrderInv
      <4>2. Intake!Of(p) \notin crossed' => \A q \in Intake!Polls \ {p} : Intake!Of(q) = Intake!Of(p) => ~Intake!Busy(q)'
        BY <3>1 DEF Intake!Busy
      <4> QED BY <2>2, <3>1, <4>1, <4>2 DEF PollOK, SubOK
    <3>4. ASSUME NEW q \in Intake!Polls \ {p} PROVE PollOK(q)'
      <4>1. PollOK(q)
        BY DEF OrderInv
      <4>2. Intake!Busy(q)' <=> Intake!Busy(q)
        BY <3>1 DEF Intake!Busy
      <4>3. CASE Intake!Of(q) # Intake!Of(p)
        <5>1. \A r \in Intake!Polls : Intake!Of(r) = Intake!Of(q) => (Intake!Busy(r)' <=> Intake!Busy(r))
          BY <3>1, <4>3 DEF Intake!Busy
        <5> QED BY <3>1, <4>1, <4>2, <5>1 DEF PollOK
      <4>4. CASE Intake!Of(q) = Intake!Of(p)
        <5>1. Intake!Of(q) \notin crossed' => ~Intake!Busy(q)'
          BY <3>1, <4>2, <4>4
        <5> QED BY <3>1, <4>1, <5>1 DEF PollOK
      <4> QED BY <4>3, <4>4
    <3> QED BY <3>2, <3>3, <3>4
  <2> QED BY <2>1, <2>2
<1>9. ASSUME NEW p \in Intake!Polls, NEW a \in Intake!Answer, Intake!Answered(p, a),
             \/ a.payload = Intake!None /\ a.hash \in {Intake!None, read[p].hash}
             \/ a.payload = content[Intake!Of(p)] /\ a.hash = a.payload /\ a.hash # read[p].hash
      PROVE  (\A s \in Subs : SubOK(s)') /\ (\A q \in Intake!Polls : PollOK(q)')
  <2>1. /\ UNCHANGED <<content, sub, gone, read, emitted, forgot, crossed>>
        /\ poll[p] = "requesting" /\ poll'[p] = "answered" /\ polled'[p] = a
        /\ \A q \in Intake!Polls \ {p} : poll'[q] = poll[q] /\ polled'[q] = polled[q]
    BY <1>0, <1>9 DEF Intake!Answered, Intake!Step, Intake!sources, Intake!seen, Intake!TypeOK
  <2>2. Intake!Busy(p) /\ PollAlone(p)
    BY <2>1 DEF Intake!Busy, PollAlone, SourceStays
  <2>3. SubOK(Intake!Of(p))'
    BY <2>1 DEF SubOK, OrderInv
  <2>4. PollOK(p) /\ SubOK(Intake!Of(p))
    BY DEF OrderInv
  <2>5. \A q \in Intake!Polls \ {p} : Intake!Busy(q)' <=> Intake!Busy(q)
    BY <2>1 DEF Intake!Busy
  <2>6. a.hash \in Nat /\ a.payload \in Nat /\ a.hash <= content[Intake!Of(p)] /\ a.payload <= content[Intake!Of(p)]
    BY <1>i, <1>9, <2>4 DEF PollOK
  <2>7. Intake!Of(p) \notin crossed =>
          /\ a.hash # Intake!None /\ Intake!Of(p) \notin forgot => emitted[Intake!Of(p)] <= a.hash
          /\ a.payload # Intake!None => /\ emitted[Intake!Of(p)] <= a.payload
                                        /\ Intake!Of(p) \notin forgot => emitted[Intake!Of(p)] < a.payload
    BY <1>i, <1>9, <2>1, <2>2, <2>4 DEF PollOK, SubOK
  <2>8. PollOK(p)'
    BY <2>1, <2>2, <2>4, <2>5, <2>6, <2>7 DEF PollOK
  <2> QED BY <2>2, <2>3, <2>8, OrderOfPoll
<1>10. ASSUME NEW p \in Intake!Polls, Intake!PollErrs(p) \/ Intake!NotModified(p)
       PROVE  (\A s \in Subs : SubOK(s)') /\ (\A q \in Intake!Polls : PollOK(q)')
  <2>1. PICK a \in Intake!Answer : Intake!Answered(p, a) /\ a.payload = Intake!None /\ a.hash = Intake!None
    <3>1. Intake!TypeOK
      BY <1>0
    <3> QED
      BY <1>10, <3>1, LocalTyped DEF Intake!PollErrs, Intake!NotModified, Intake!NoAnswer,
             Intake!TypeOK, Intake!Row, Intake!Answer, Intake!None
  <2> QED BY <1>9, <2>1
<1>11. ASSUME NEW p \in Intake!Polls, Intake!Fetched(p)
       PROVE  (\A s \in Subs : SubOK(s)') /\ (\A q \in Intake!Polls : PollOK(q)')
  <2>1. content[Intake!Of(p)] \in Intake!Contents /\ read[p].etag \in Intake!Contents \cup {Intake!None}
    BY <1>0 DEF Intake!TypeOK, Intake!Row
  <2>2. PICK etag \in {Intake!None, content[Intake!Of(p)]} :
          IF content[Intake!Of(p)] = read[p].hash
          THEN Intake!Answered(p, [payload |-> Intake!None, hash |-> content[Intake!Of(p)],
                            etag |-> IF etag = Intake!None THEN read[p].etag ELSE etag])
          ELSE Intake!Answered(p, [payload |-> content[Intake!Of(p)], hash |-> content[Intake!Of(p)], etag |-> etag])
    BY <1>11 DEF Intake!Fetched
  <2>3. CASE content[Intake!Of(p)] = read[p].hash
    <3>1. PICK a \in Intake!Answer : Intake!Answered(p, a) /\ a.payload = Intake!None /\ a.hash = read[p].hash
      BY <2>1, <2>2, <2>3 DEF Intake!Answer
    <3> QED BY <1>9, <3>1
  <2>4. CASE content[Intake!Of(p)] # read[p].hash
    <3>1. PICK a \in Intake!Answer : Intake!Answered(p, a) /\ a.payload = a.hash /\ a.hash = content[Intake!Of(p)]
      BY <2>1, <2>2, <2>4 DEF Intake!Answer
    <3> QED BY <1>9, <2>4, <3>1
  <2> QED BY <2>3, <2>4
<1>12. ASSUME NEW p \in Intake!Polls, Intake!RecordPoll(p)
       PROVE  (\A s \in Subs : SubOK(s)') /\ (\A q \in Intake!Polls : PollOK(q)')
  <2>1. /\ UNCHANGED <<content, gone, emitted, crossed>> /\ poll[p] = "answered"
        /\ \A q \in Intake!Polls \ {p} : poll'[q] = poll[q] /\ polled'[q] = polled[q] /\ read'[q] = read[q]
    BY <1>0, <1>12 DEF Intake!RecordPoll, Intake!Step, Intake!Forget, Intake!TypeOK
  <2>2. /\ \A s \in Subs \ {Intake!Of(p)} : sub'[s] = sub[s]
        /\ Intake!Of(p) \in gone => sub'[Intake!Of(p)] = sub[Intake!Of(p)]
        /\ Intake!Of(p) \notin gone => sub'[Intake!Of(p)].hash = polled[p].hash
    BY <1>0, <1>12 DEF Intake!RecordPoll, Intake!TypeOK, Intake!Row
  <2>3. forgot' = IF polled[p].hash = Intake!None THEN forgot \cup {Intake!Of(p)} ELSE forgot
    BY <1>12 DEF Intake!RecordPoll
  <2>4. Intake!Busy(p) /\ PollAlone(p)
    BY <2>1, <2>2, <2>3 DEF Intake!Busy, PollAlone, SourceStays
  <2>5. PollOK(p) /\ SubOK(Intake!Of(p))
    BY DEF OrderInv
  <2>6. SubOK(Intake!Of(p))'
    BY <1>i, <2>1, <2>2, <2>3, <2>4, <2>5 DEF PollOK, SubOK
  <2>7. PollOK(p)'
    <3>1. CASE polled[p].payload = Intake!None
      <4>1. ~Intake!Busy(p)' /\ read'[p] = Intake!NoRow /\ polled'[p] = Intake!NoAnswer
        BY <1>0, <1>12, <3>1 DEF Intake!RecordPoll, Intake!Step, Intake!Forget, Intake!TypeOK,
               Intake!Ended, Intake!Busy
      <4> QED BY <1>i, <2>1, <4>1 DEF PollOK, Intake!NoRow, Intake!NoAnswer
    <3>2. CASE polled[p].payload # Intake!None
      <4>1. poll'[p] = "emitting" /\ read'[p] = read[p] /\ polled'[p] = polled[p]
        BY <1>0, <1>12, <3>2 DEF Intake!RecordPoll, Intake!Step, Intake!TypeOK
      <4>2. polled[p].hash = polled[p].payload
        BY <1>0, <3>2 DEF HashesAreSeen
      <4>3. \A q \in Intake!Polls \ {p} : Intake!Busy(q)' <=> Intake!Busy(q)
        BY <2>1 DEF Intake!Busy
      <4>4. forgot' = forgot
        BY <2>3, <3>2, <4>2
      <4> QED BY <2>1, <2>2, <2>4, <2>5, <3>2, <4>1, <4>2, <4>3, <4>4 DEF PollOK
    <3> QED BY <3>1, <3>2
  <2> QED BY <2>4, <2>6, <2>7, OrderOfPoll
<1>13. ASSUME NEW p \in Intake!Polls, Intake!Emit(p)
       PROVE  (\A s \in Subs : SubOK(s)') /\ (\A q \in Intake!Polls : PollOK(q)')
  <2>1. /\ UNCHANGED <<content, sub, gone, read, polled, crossed>>
        /\ poll[p] = "emitting" /\ poll'[p] = "ingesting"
        /\ \A q \in Intake!Polls \ {p} : poll'[q] = poll[q]
        /\ emitted'[Intake!Of(p)] = polled[p].payload
        /\ \A s \in Subs \ {Intake!Of(p)} : emitted'[s] = emitted[s]
        /\ forgot' = forgot \ {Intake!Of(p)}
    BY <1>0, <1>13 DEF Intake!Emit, Intake!Step, Intake!sources, Intake!TypeOK
  <2>2. Intake!Busy(p) /\ PollAlone(p)
    BY <2>1 DEF Intake!Busy, PollAlone, SourceStays
  <2>3. PollOK(p) /\ SubOK(Intake!Of(p)) /\ polled[p].payload # Intake!None
    BY <1>0, <2>1 DEF OrderInv, HashesAreSeen
  <2>4. SubOK(Intake!Of(p))'
    BY <1>i, <2>1, <2>2, <2>3 DEF PollOK, SubOK
  <2>5. \A q \in Intake!Polls \ {p} : Intake!Busy(q)' <=> Intake!Busy(q)
    BY <2>1 DEF Intake!Busy
  <2>6. PollOK(p)'
    BY <2>1, <2>2, <2>3, <2>5 DEF PollOK
  <2> QED BY <2>2, <2>4, <2>6, OrderOfPoll
<1>14. ASSUME NEW p \in Intake!Polls, Intake!EmitReturns(p) \/ Intake!PollRaises(p)
       PROVE  (\A s \in Subs : SubOK(s)') /\ (\A q \in Intake!Polls : PollOK(q)')
  <2>1. /\ UNCHANGED <<content, sub, gone, emitted, forgot, crossed>> /\ poll[p] \in {"requesting", "ingesting"}
        /\ \A q \in Intake!Polls \ {p} : poll'[q] = poll[q] /\ polled'[q] = polled[q] /\ read'[q] = read[q]
        /\ ~Intake!Busy(p)' /\ read'[p] = Intake!NoRow /\ polled'[p] = Intake!NoAnswer
    BY <1>0, <1>14 DEF Intake!EmitReturns, Intake!PollRaises, Intake!Step, Intake!Forget, Intake!sources,
           Intake!seen, Intake!TypeOK, Intake!Ended, Intake!Busy
  <2>2. Intake!Busy(p) /\ PollAlone(p)
    BY <2>1 DEF Intake!Busy, PollAlone, SourceStays
  <2>3. SubOK(Intake!Of(p))'
    BY <2>1 DEF SubOK, OrderInv
  <2>4. PollOK(p)'
    BY <1>i, <2>1 DEF PollOK, Intake!NoRow, Intake!NoAnswer
  <2> QED BY <2>2, <2>3, <2>4, OrderOfPoll
<1>15. CASE Intake!Crash
  <2>1. /\ \A q \in Intake!Polls : ~Intake!Busy(q)' /\ read'[q] = Intake!NoRow /\ polled'[q] = Intake!NoAnswer
        /\ UNCHANGED <<content, sub, gone, emitted, forgot, crossed>>
    BY <1>15 DEF Intake!Crash, Intake!sources, Intake!Busy
  <2>2. \A s \in Subs : SubOK(s)'
    BY <2>1 DEF SubOK, OrderInv
  <2>3. \A q \in Intake!Polls : PollOK(q)'
    BY <1>i, <2>1 DEF PollOK, Intake!NoRow, Intake!NoAnswer
  <2> QED BY <2>2, <2>3
<1>16. CASE UNCHANGED Intake!vars
  BY <1>i, <1>1, <1>16 DEF Intake!vars, Intake!sources, Intake!polling, Intake!seen
<1> QED
  BY <1>2, <1>3, <1>4, <1>5, <1>6, <1>7, <1>8, <1>10, <1>11, <1>12, <1>13, <1>14, <1>15, <1>16
  DEF Intake!Next, Intake!PollStep

LEMMA OrderInit == ASSUME Intake!ConstantsAssumption, Intake!Init PROVE OrderInv
<1>1. Intake!TypeOK
  BY PollsTypeInit
<1>2. ASSUME NEW s \in Subs PROVE SubOK(s)
  <2>1. emitted[s] = 0 /\ content[s] = 1 /\ sub[s].hash = 0
    BY DEF Intake!Init, Intake!NoRow, Intake!None
  <2>2. 0 <= 1 /\ 0 <= 0
    OBVIOUS
  <2> QED BY <2>1, <2>2, Zenon DEF SubOK
<1>3. \A p \in Intake!Polls : PollOK(p)
  BY PollOf DEF Intake!Init, PollOK, Intake!NoRow, Intake!NoAnswer, Intake!None, Intake!Busy
<1> QED BY <1>2, <1>3, SeenInit DEF OrderInv

LEMMA EmitStep ==
  ASSUME Intake!ConstantsAssumption, OrderInv, [Intake!Next]_Intake!vars
  PROVE  Intake!InOrderStep
<1> SUFFICES ASSUME NEW s \in Subs, Intake!Emits(s), s \notin crossed
             PROVE  emitted'[s] > emitted[s] \/ (emitted'[s] = emitted[s] /\ s \in forgot)
  BY DEF Intake!InOrderStep
<1>1. Intake!TypeOK /\ HashesAreSeen
  BY DEF OrderInv, SeenInv
<1>2. PICK p \in Intake!Polls : Intake!Of(p) = s /\ poll[p] = "emitting" /\ poll'[p] = "ingesting"
  BY DEF Intake!Emits
<1>3. Intake!Emit(p)
  <2>1. CASE Intake!Tick \/ Intake!Sleep \/ Intake!Crash
    BY <1>1, <1>2, <2>1 DEF Intake!Tick, Intake!Sleep, Intake!Crash, Intake!TypeOK
  <2>2. ASSUME NEW r \in Subs, Intake!ForcePoll(r) PROVE FALSE
    BY <1>1, <1>2, <2>2 DEF Intake!ForcePoll, Intake!Step, Intake!TypeOK
  <2>3. ASSUME NEW r \in Subs, Intake!SourceChanges(r) \/ Intake!Delete(r) PROVE FALSE
    BY <1>2, <2>3 DEF Intake!SourceChanges, Intake!Delete, Intake!polling
  <2>4. ASSUME NEW r \in Subs, NEW enable \in BOOLEAN, Intake!SetEnabled(r, enable) PROVE FALSE
    BY <1>2, <2>4 DEF Intake!SetEnabled, Intake!polling
  <2>5. ASSUME NEW q \in Intake!Polls, q # p, Intake!PollStep(q) PROVE FALSE
    BY <1>1, <1>2, <2>5
    DEF Intake!PollStep, Intake!ReadRow, Intake!PollErrs, Intake!PollRaises, Intake!NotModified, Intake!Fetched,
       Intake!Answered, Intake!RecordPoll, Intake!Emit, Intake!EmitReturns,
        Intake!Step, Intake!TypeOK
  <2>6. Intake!PollStep(p) => Intake!Emit(p)
    BY <1>1, <1>2
    DEF Intake!PollStep, Intake!ReadRow, Intake!PollErrs, Intake!PollRaises, Intake!NotModified, Intake!Fetched,
       Intake!Answered, Intake!RecordPoll, Intake!Emit, Intake!EmitReturns,
        Intake!Step, Intake!TypeOK
  <2>7. CASE UNCHANGED Intake!vars
    BY <1>2, <2>7 DEF Intake!vars, Intake!polling
  <2> QED BY <2>1, <2>2, <2>3, <2>4, <2>5, <2>6, <2>7 DEF Intake!Next
<1>4. emitted'[s] = polled[p].payload
  BY <1>1, <1>2, <1>3 DEF Intake!Emit, Intake!TypeOK
<1>5. PollOK(p) /\ Intake!Busy(p) /\ polled[p].payload # Intake!None
  BY <1>1, <1>2 DEF OrderInv, Intake!Busy, HashesAreSeen
<1> QED BY <1>1, <1>2, <1>4, <1>5, Ints DEF PollOK

\* _record_poll before _emit_input_event: the events of a subscription that no two polls
\* worked on at once follow its source, a repeated one after an error apart.
THEOREM EventsAreInOrder == Intake!Spec => EmitsInOrder
<1>1. Intake!Init => OrderInv
  BY OrderInit, PartsAssumption
<1>2. OrderInv /\ [Intake!Next]_Intake!vars => OrderInv'
  BY OrderStep, SeenStep, PollsTypeStep, PartsAssumption DEF OrderInv, SeenInv
<1>3. OrderInv /\ [Intake!Next]_Intake!vars => [Intake!InOrderStep]_all
  BY EmitStep, PartsAssumption
<1> QED BY <1>1, <1>2, <1>3, PTL DEF Intake!Spec, EmitsInOrder

-----------------------------------------------------------------------------
(* The routing engine: the trail of an event.                              *)

\* All that may stand in a decision.
Names == Engine!Handlers \cup (UNION {{d[i] : i \in DOMAIN d} : d \in Decisions})
           \cup {"undecided", "expired"}

DispatchRows == [handler : Names, ok : BOOLEAN]

EngineTypeOK ==
  /\ installed \subseteq ToolNames \cup {"router"}
  /\ eventPhase \in [Events -> {"idle", "recorded", "routing", "deciding", "decided", "raised",
                           "dispatching", "invoked", "unrecorded", "done", "lost"}]
  /\ DOMAIN kind = Events /\ \A e \in Events : eventPhase[e] # "idle" => kind[e] \in Kinds
  /\ decision \in [Events -> Seq(Names)] /\ todo \in [Events -> Seq(Names)]
  /\ result \in [Events -> {"none", "ok", "error"}]
  /\ audits \in [Events -> Seq(Names)]
  /\ rows \in [Events -> Seq(DispatchRows)]
  /\ effects \in [Events -> Seq(Names)]

\* The handlers that the audit row of a decision stands for.
Planned(audit) == IF audit \in {Engine!Undecided, Engine!Expired} THEN <<>> ELSE audit

\* The rows follow the plan, and what there is an effect of is in it.
Followed(plan, recorded, done) ==
  /\ Len(recorded) <= Len(plan)
  /\ \A i \in 1..Len(recorded) : recorded[i].handler = plan[i]
  /\ Len(done) <= Len(recorded) + 1
  /\ \A i \in 1..Len(done) : \E j \in 1..Len(plan) : plan[j] = done[i]
  /\ \A i \in 1..Len(recorded) : recorded[i].ok /\ recorded[i].handler # "discard" =>
       \E j \in 1..Len(done) : done[j] = recorded[i].handler

\* What is left to do is the rest of the plan.
Remaining(plan, recorded, left) ==
  /\ Len(recorded) + Len(left) = Len(plan)
  /\ \A i \in 1..Len(left) : left[i] = plan[Len(recorded) + i]

\* Where a call is tells how far its trail goes.
TrailOK(e) ==
  /\ Followed(Planned(audits[e]), rows[e], effects[e])
  /\ eventPhase[e] \in {"idle", "recorded", "routing", "deciding", "decided", "raised"} =>
       audits[e] = Engine!Undecided /\ rows[e] = <<>> /\ effects[e] = <<>>
  /\ eventPhase[e] = "decided" => decision[e] # Engine!Undecided
  /\ eventPhase[e] \in {"dispatching", "invoked"} =>
       audits[e] # Engine!Undecided /\ Remaining(Planned(audits[e]), rows[e], todo[e])
  /\ eventPhase[e] = "dispatching" => Len(effects[e]) <= Len(rows[e])
  /\ eventPhase[e] = "invoked" =>
       /\ todo[e] # <<>>
       /\ result[e] = "ok" /\ Head(todo[e]) # "discard" =>
            \E j \in 1..Len(effects[e]) : effects[e][j] = Head(todo[e])
  /\ eventPhase[e] = "done" => audits[e] # Engine!Undecided /\ Len(rows[e]) = Len(Planned(audits[e]))

EngineInv == EngineTypeOK /\ \A e \in Events : TrailOK(e)

LEMMA NamesTyped ==
  /\ Engine!Handlers \subseteq Names
  /\ Engine!Undecided \in Seq(Names) /\ Engine!Expired \in Seq(Names) /\ <<>> \in Seq(Names)
<1>1. Engine!Handlers \subseteq Names /\ "undecided" \in Names /\ "expired" \in Names
  BY DEF Names
<1>2. ASSUME NEW n \in Names PROVE <<n>> \in Seq(Names)
  OBVIOUS
<1>3. <<>> \in Seq(Names)
  BY EmptySeq
<1> QED BY <1>1, <1>2, <1>3 DEF Engine!Undecided, Engine!Expired

LEMMA DecisionsTyped ==
  ASSUME Engine!ConstantsAssumption, NEW d \in Decisions
  PROVE  d \in Seq(Names)
<1>1. {d[i] : i \in DOMAIN d} \subseteq Names
  BY DEF Names
<1>2. d \in Seq({d[i] : i \in DOMAIN d})
  BY DEF Engine!ConstantsAssumption
<1> QED BY <1>1, <1>2, SeqMonotonic

LEMMA PicksTyped ==
  ASSUME Engine!ConstantsAssumption, NEW k \in Kinds
  PROVE  /\ Engine!Pick(k) \in Engine!Handlers /\ Engine!Fallback(k) \in Engine!Handlers
         /\ Engine!Pick(k) # "undecided" /\ Engine!Fallback(k) # "undecided"
<1>1. k.domain \in {"input", "memory", "observation"}
  BY DEF Engine!ConstantsAssumption, Engine!Domains
<1>2. {"llm", "direct_invoke", "memory_store", "archive", "summarize", "discard"} \subseteq Engine!Handlers
  BY DEF Engine!Handlers, Engine!Builtins, Engine!InputHandlers, Engine!MemoryHandlers,
         Engine!ObservationHandlers, Engine!Domains
<1>3. Engine!Pick(k) \in {"llm", "direct_invoke", "memory_store", "archive", "summarize", "discard"}
  BY <1>1 DEF Engine!Pick, Engine!InputPick, Engine!MemoryPick, Engine!ObservationPick
<1>4. Engine!Fallback(k) \in {"llm", "direct_invoke", "memory_store", "archive", "summarize", "discard"}
  BY <1>1 DEF Engine!Fallback
<1> QED BY <1>2, <1>3, <1>4

-----------------------------------------------------------------------------

\* A row for the next handler of the plan.
LEMMA WriteFollows ==
  ASSUME NEW plan \in Seq(Names), NEW recorded \in Seq(DispatchRows), NEW left \in Seq(Names),
         NEW done \in Seq(Names), NEW ok \in BOOLEAN,
         left # <<>>, Followed(plan, recorded, done), Remaining(plan, recorded, left),
         ok /\ Head(left) # "discard" => \E j \in 1..Len(done) : done[j] = Head(left)
  PROVE  LET new == Append(recorded, [handler |-> Head(left), ok |-> ok])
         IN  /\ new \in Seq(DispatchRows) /\ Tail(left) \in Seq(Names)
             /\ Followed(plan, new, done) /\ Remaining(plan, new, Tail(left))
             /\ Len(done) <= Len(new)
<1> DEFINE entry == [handler |-> Head(left), ok |-> ok]
           new == Append(recorded, entry)
<1> HIDE DEF entry
<1>1. /\ Head(left) \in Names /\ Tail(left) \in Seq(Names) /\ Len(Tail(left)) = Len(left) - 1
      /\ \A i \in 1..Len(Tail(left)) : Tail(left)[i] = left[i + 1]
  BY HeadTailProperties
<1>2. entry \in DispatchRows /\ entry.handler = Head(left) /\ entry.ok = ok
  BY <1>1 DEF entry, DispatchRows
<1>3. /\ new \in Seq(DispatchRows) /\ Len(new) = Len(recorded) + 1
      /\ \A i \in 1..Len(recorded) : new[i] = recorded[i]
      /\ new[Len(recorded) + 1] = entry
  BY <1>2, AppendProperties
<1> HIDE DEF new
<1>4. /\ Len(recorded) \in Nat /\ Len(left) \in Nat \ {0} /\ Len(plan) \in Nat /\ Len(done) \in Nat
      /\ Head(left) = left[1]
  BY LenProperties, EmptySeq
<1>5. plan[Len(recorded) + 1] = Head(left) /\ Len(recorded) + 1 <= Len(plan)
  BY <1>4 DEF Remaining
<1>6. \A i \in 1..Len(new) : i \in 1..Len(recorded) \/ i = Len(recorded) + 1
  BY <1>3, <1>4
<1>7. Followed(plan, new, done)
  <2>1. \A i \in 1..Len(new) : new[i].handler = plan[i]
    BY <1>2, <1>3, <1>5, <1>6 DEF Followed
  <2>2. \A i \in 1..Len(new) : new[i].ok /\ new[i].handler # "discard" =>
          \E j \in 1..Len(done) : done[j] = new[i].handler
    <3>1. ASSUME NEW i \in 1..Len(recorded), new[i].ok, new[i].handler # "discard"
          PROVE  \E j \in 1..Len(done) : done[j] = new[i].handler
      <4>1. new[i] = recorded[i]
        BY <1>3
      <4> QED BY <3>1, <4>1 DEF Followed
    <3>2. ok /\ Head(left) # "discard" => \E j \in 1..Len(done) : done[j] = Head(left)
      OBVIOUS
    <3> QED BY <1>2, <1>3, <1>6, <3>1, <3>2
  <2>3. Len(new) <= Len(plan) /\ Len(done) <= Len(new) + 1
    BY <1>3, <1>4, <1>5 DEF Followed
  <2> QED BY <2>1, <2>2, <2>3 DEF Followed
<1>8. Remaining(plan, new, Tail(left))
  <2>1. Len(new) + Len(Tail(left)) = Len(plan)
    BY <1>1, <1>3, <1>4 DEF Remaining
  <2>2. ASSUME NEW i \in 1..Len(Tail(left)) PROVE Tail(left)[i] = plan[Len(new) + i]
    <3>1. i + 1 \in 1..Len(left) /\ Tail(left)[i] = left[i + 1]
      BY <1>1, <1>4
    <3>2. left[i + 1] = plan[Len(recorded) + (i + 1)]
      BY <3>1 DEF Remaining
    <3>3. Len(recorded) + (i + 1) = Len(new) + i
      BY <1>3, <1>4
    <3> QED BY <3>1, <3>2, <3>3
  <2> QED BY <2>1, <2>2 DEF Remaining
<1>9. Len(done) <= Len(new)
  BY <1>3, <1>4 DEF Followed
<1> QED BY <1>1, <1>3, <1>7, <1>8, <1>9 DEF new, entry

\* An effect of the next handler of the plan.
LEMMA EffectFollows ==
  ASSUME NEW plan \in Seq(Names), NEW recorded \in Seq(DispatchRows), NEW left \in Seq(Names),
         NEW done \in Seq(Names),
         left # <<>>, Followed(plan, recorded, done), Remaining(plan, recorded, left),
         Len(done) <= Len(recorded)
  PROVE  LET new == Append(done, Head(left))
         IN  /\ new \in Seq(Names)
             /\ Followed(plan, recorded, new)
             /\ \E j \in 1..Len(new) : new[j] = Head(left)
<1> DEFINE new == Append(done, Head(left))
<1>1. Head(left) \in Names
  BY HeadTailProperties
<1>2. /\ new \in Seq(Names) /\ Len(new) = Len(done) + 1
      /\ \A i \in 1..Len(done) : new[i] = done[i]
      /\ new[Len(done) + 1] = Head(left)
  BY <1>1, AppendProperties
<1> HIDE DEF new
<1>3. /\ Len(recorded) \in Nat /\ Len(left) \in Nat \ {0} /\ Len(plan) \in Nat /\ Len(done) \in Nat
      /\ Head(left) = left[1]
  BY LenProperties, EmptySeq
<1>4. plan[Len(recorded) + 1] = Head(left) /\ Len(recorded) + 1 \in 1..Len(plan)
  BY <1>3 DEF Remaining
<1>5. \A i \in 1..Len(new) : i \in 1..Len(done) \/ i = Len(done) + 1
  BY <1>2, <1>3
<1>6. Len(done) + 1 \in 1..Len(new) /\ \A i \in 1..Len(done) : i \in 1..Len(new)
  BY <1>2, <1>3
<1>7. Followed(plan, recorded, new)
  <2>1. \A i \in 1..Len(new) : \E j \in 1..Len(plan) : plan[j] = new[i]
    BY <1>2, <1>4, <1>5 DEF Followed
  <2>2. \A i \in 1..Len(recorded) : recorded[i].ok /\ recorded[i].handler # "discard" =>
          \E j \in 1..Len(new) : new[j] = recorded[i].handler
    BY <1>2, <1>6 DEF Followed
  <2>3. Len(new) <= Len(recorded) + 1
    BY <1>2, <1>3
  <2> QED BY <2>1, <2>2, <2>3 DEF Followed
<1> QED BY <1>2, <1>6, <1>7 DEF new

-----------------------------------------------------------------------------

\* The calls but e are where they were.
OthersStay(e) ==
  \A d \in Events \ {e} :
    /\ eventPhase'[d] = eventPhase[d] /\ decision'[d] = decision[d] /\ todo'[d] = todo[d]
    /\ result'[d] = result[d] /\ audits'[d] = audits[d] /\ rows'[d] = rows[d]
    /\ effects'[d] = effects[d]

LEMMA OneTrail ==
  ASSUME NEW e \in Events, OthersStay(e), TrailOK(e)', \A d \in Events : TrailOK(d)
  PROVE  \A d \in Events : TrailOK(d)'
BY DEF OthersStay, TrailOK

LEMMA EngineInit == ASSUME Engine!ConstantsAssumption, Engine!Init PROVE EngineInv
<1>1. EngineTypeOK
  BY NamesTyped, EmptySeq DEF Engine!Init, EngineTypeOK
<1>2. \A e \in Events : TrailOK(e)
  <2>1. Followed(<<>>, <<>>, <<>>)
    BY EmptySeq DEF Followed
  <2>2. Planned(Engine!Undecided) = <<>>
    BY DEF Planned
  <2> QED BY <2>1, <2>2 DEF Engine!Init, TrailOK
<1> QED BY <1>1, <1>2 DEF EngineInv

LEMMA EngineTypeStep ==
  ASSUME Engine!ConstantsAssumption, EngineInv, [Engine!Next]_Engine!vars
  PROVE  EngineTypeOK'
<1> USE DEF EngineInv, EngineTypeOK
<1>1. ASSUME NEW e \in Events, NEW k \in Kinds, Engine!Record(e, k) PROVE EngineTypeOK'
  BY <1>1 DEF Engine!Record, Engine!Move, Engine!tables
<1>2. ASSUME NEW e \in Events, Engine!FindRouter(e) \/ Engine!RouterRaises(e) PROVE EngineTypeOK'
  BY <1>2 DEF Engine!FindRouter, Engine!RouterRaises, Engine!Move, Engine!tables
<1>3. ASSUME NEW e \in Events, Engine!DecideBuiltin(e) \/ Engine!RouterAnswers(e) PROVE EngineTypeOK'
  <2>1. kind[e] \in Kinds
    BY <1>3 DEF Engine!DecideBuiltin, Engine!RouterAnswers, Engine!Move
  <2>2. <<Engine!Pick(kind[e])>> \in Seq(Names) /\ <<Engine!Fallback(kind[e])>> \in Seq(Names)
    BY <2>1, PicksTyped, NamesTyped
  <2>3. \E d \in Seq(Names) : decision' = [decision EXCEPT ![e] = d]
    BY <1>3, <2>2, NamesTyped, DecisionsTyped
    DEF Engine!DecideBuiltin, Engine!RouterAnswers, Engine!Decided
  <2>4. decision' \in [Events -> Seq(Names)]
    BY <2>3
  <2> QED BY <1>3, <2>4 DEF Engine!DecideBuiltin, Engine!RouterAnswers, Engine!Move, Engine!tables
<1>4. ASSUME NEW e \in Events, Engine!Audit(e) PROVE EngineTypeOK'
  BY <1>4, NamesTyped DEF Engine!Audit, Engine!Move
<1>5. ASSUME NEW e \in Events, Engine!HandlerMissing(e) \/ Engine!RecordDispatch(e) PROVE EngineTypeOK'
  <2>1. todo[e] # <<>>
    BY <1>5 DEF Engine!HandlerMissing, Engine!RecordDispatch, TrailOK, Engine!Move
  <2>2. PICK ok \in BOOLEAN : Engine!Write(e, Head(todo[e]), ok)
    BY <1>5 DEF Engine!HandlerMissing, Engine!RecordDispatch
  <2>3. /\ Append(rows[e], [handler |-> Head(todo[e]), ok |-> ok]) \in Seq(DispatchRows)
        /\ Tail(todo[e]) \in Seq(Names)
    BY <2>1, HeadTailProperties, AppendProperties DEF DispatchRows
  <2>4. rows' \in [Events -> Seq(DispatchRows)]
    BY <2>2, <2>3 DEF Engine!Write
  <2>5. todo' \in [Events -> Seq(Names)]
    <3>1. todo' = [todo EXCEPT ![e] = Tail(todo[e])]
      BY <1>5 DEF Engine!HandlerMissing, Engine!RecordDispatch
    <3> QED BY <2>3, <3>1
  <2>6. eventPhase' \in [Events -> {"idle", "recorded", "routing", "deciding", "decided", "raised",
                              "dispatching", "invoked", "unrecorded", "done", "lost"}]
        /\ \A d \in Events : eventPhase'[d] # "idle" => eventPhase[d] # "idle"
    <3>1. CASE Engine!HandlerMissing(e)
      BY <3>1 DEF Engine!HandlerMissing
    <3>2. CASE Engine!RecordDispatch(e)
      BY <3>2 DEF Engine!RecordDispatch, Engine!Move
    <3> QED BY <1>5, <3>1, <3>2
  <2>7. UNCHANGED <<installed, kind, decision, result, audits, effects>>
    BY <1>5 DEF Engine!HandlerMissing, Engine!RecordDispatch
  <2> QED BY <2>4, <2>5, <2>6, <2>7
<1>6. ASSUME NEW e \in Events, Engine!HandlerAnswers(e) \/ Engine!HandlerErrs(e) PROVE EngineTypeOK'
  <2>1. todo[e] # <<>>
    BY <1>6 DEF Engine!HandlerAnswers, Engine!HandlerErrs, Engine!Invoking
  <2>2. Append(effects[e], Head(todo[e])) \in Seq(Names)
    BY <2>1, HeadTailProperties, AppendProperties
  <2>3. effects' \in [Events -> Seq(Names)]
    <3>1. effects' = effects \/ effects' = [effects EXCEPT ![e] = Append(effects[e], Head(todo[e]))]
      BY <1>6 DEF Engine!HandlerAnswers, Engine!HandlerErrs
    <3> QED BY <2>2, <3>1
  <2> QED BY <1>6, <2>3
          DEF Engine!HandlerAnswers, Engine!HandlerErrs, Engine!Invoking, Engine!Move
<1>7. ASSUME NEW e \in Events, Engine!Return(e) PROVE EngineTypeOK'
  BY <1>7, NamesTyped DEF Engine!Return, Engine!Move, Engine!tables
<1>8. ASSUME NEW t \in installed, Engine!Deprecate(t) PROVE EngineTypeOK'
  BY <1>8 DEF Engine!Deprecate, Engine!calls, Engine!tables
<1>11. ASSUME NEW e \in Events, Engine!RecordRaises(e) PROVE EngineTypeOK'
  BY <1>11, NamesTyped DEF Engine!RecordRaises, Engine!Move, Engine!tables
<1>9. ASSUME Engine!Crash PROVE EngineTypeOK'
  BY <1>9, NamesTyped DEF Engine!Crash, Engine!tables
<1>10. ASSUME UNCHANGED Engine!vars PROVE EngineTypeOK'
  BY <1>10 DEF Engine!vars, Engine!calls, Engine!tables
<1> QED
  BY <1>1, <1>2, <1>3, <1>4, <1>5, <1>6, <1>7, <1>8, <1>9, <1>10, <1>11
  DEF Engine!Next, Engine!EngineStep, Engine!IngestInput, Engine!RecordMemory, Engine!Observe

LEMMA TrailStep ==
  ASSUME Engine!ConstantsAssumption, EngineInv, [Engine!Next]_Engine!vars
  PROVE  \A e \in Events : TrailOK(e)'
<1> USE DEF EngineInv
<1>1. ASSUME NEW e \in Events, NEW k \in Kinds, Engine!Record(e, k) PROVE \A d \in Events : TrailOK(d)'
  BY <1>1, OneTrail
  DEF Engine!Record, Engine!Move, Engine!tables, TrailOK, OthersStay, EngineTypeOK
<1>2. ASSUME NEW e \in Events, Engine!FindRouter(e) \/ Engine!RouterRaises(e)
      PROVE  \A d \in Events : TrailOK(d)'
  <2>1. OthersStay(e)
    BY <1>2 DEF Engine!FindRouter, Engine!RouterRaises, Engine!Move, Engine!tables, OthersStay,
           EngineTypeOK
  <2>2. /\ eventPhase[e] \in {"recorded", "routing"} /\ eventPhase'[e] \in {"routing", "deciding", "raised"}
        /\ audits'[e] = audits[e] /\ rows'[e] = rows[e] /\ effects'[e] = effects[e]
    BY <1>2 DEF Engine!FindRouter, Engine!RouterRaises, Engine!Move, Engine!tables, EngineTypeOK
  <2>3. TrailOK(e)'
    BY <2>2 DEF TrailOK
  <2> QED BY <2>1, <2>3, OneTrail
<1>3. ASSUME NEW e \in Events, Engine!DecideBuiltin(e) \/ Engine!RouterAnswers(e)
      PROVE  \A d \in Events : TrailOK(d)'
  <2>1. kind[e] \in Kinds
    BY <1>3 DEF Engine!DecideBuiltin, Engine!RouterAnswers, Engine!Move, EngineTypeOK
  <2>2. /\ <<Engine!Pick(kind[e])>> # Engine!Undecided /\ <<Engine!Fallback(kind[e])>> # Engine!Undecided
        /\ Engine!Expired # Engine!Undecided /\ Engine!Undecided \notin Decisions
    BY <2>1, PicksTyped DEF Engine!Undecided, Engine!Expired, Engine!ConstantsAssumption
  <2>3. \E d : d # Engine!Undecided /\ decision' = [decision EXCEPT ![e] = d]
    BY <1>3, <2>2 DEF Engine!DecideBuiltin, Engine!RouterAnswers, Engine!Decided
  <2>4. OthersStay(e) /\ decision'[e] # Engine!Undecided
    BY <1>3, <2>3 DEF Engine!DecideBuiltin, Engine!RouterAnswers, Engine!Move, Engine!tables,
           OthersStay, EngineTypeOK
  <2>5. /\ eventPhase[e] \in {"routing", "deciding"} /\ eventPhase'[e] = "decided"
        /\ audits'[e] = audits[e] /\ rows'[e] = rows[e] /\ effects'[e] = effects[e]
    BY <1>3
    DEF Engine!DecideBuiltin, Engine!RouterAnswers, Engine!Move, Engine!tables, EngineTypeOK
  <2>6. TrailOK(e)'
    BY <2>4, <2>5 DEF TrailOK
  <2> QED BY <2>4, <2>6, OneTrail
<1>4. ASSUME NEW e \in Events, Engine!Audit(e) PROVE \A d \in Events : TrailOK(d)'
  <2>1. OthersStay(e)
    BY <1>4 DEF Engine!Audit, Engine!Move, OthersStay, EngineTypeOK
  <2>2. /\ eventPhase[e] = "decided" /\ eventPhase'[e] = "dispatching" /\ decision[e] \in Seq(Names)
        /\ audits'[e] = decision[e] /\ rows'[e] = <<>> /\ effects'[e] = <<>>
        /\ decision[e] # Engine!Undecided
        /\ todo'[e] = Planned(decision[e])
    BY <1>4 DEF Engine!Audit, Engine!Move, EngineTypeOK, TrailOK, Planned
  <2>3. Planned(decision[e]) \in Seq(Names)
    BY <2>2, NamesTyped DEF Planned
  <2>4. Len(Planned(decision[e])) \in Nat
    BY <2>3, LenProperties
  <2>5. /\ Followed(Planned(decision[e]), <<>>, <<>>)
        /\ Remaining(Planned(decision[e]), <<>>, Planned(decision[e]))
    BY <2>4 DEF Followed, Remaining
  <2>6. TrailOK(e)'
    BY <2>2, <2>5 DEF TrailOK
  <2> QED BY <2>1, <2>6, OneTrail
<1>5. ASSUME NEW e \in Events, Engine!HandlerMissing(e) \/ Engine!RecordDispatch(e)
      PROVE  \A d \in Events : TrailOK(d)'
  <2>1. OthersStay(e)
    BY <1>5 DEF Engine!HandlerMissing, Engine!RecordDispatch, Engine!Write, Engine!Move,
           OthersStay, EngineTypeOK
  <2> DEFINE plan == Planned(audits[e])
  <2>2. /\ todo[e] # <<>> /\ eventPhase[e] \in {"dispatching", "invoked"} /\ eventPhase'[e] = "dispatching"
        /\ audits'[e] = audits[e] /\ audits[e] # Engine!Undecided /\ effects'[e] = effects[e]
        /\ todo'[e] = Tail(todo[e])
        /\ Followed(plan, rows[e], effects[e]) /\ Remaining(plan, rows[e], todo[e])
    BY <1>5 DEF Engine!HandlerMissing, Engine!RecordDispatch, Engine!Move, EngineTypeOK, TrailOK
  <2>3. PICK ok \in BOOLEAN :
          /\ rows'[e] = Append(rows[e], [handler |-> Head(todo[e]), ok |-> ok])
          /\ ok /\ Head(todo[e]) # "discard" =>
               \E j \in 1..Len(effects[e]) : effects[e][j] = Head(todo[e])
    BY <1>5 DEF Engine!HandlerMissing, Engine!RecordDispatch, Engine!Write, Engine!Move,
           EngineTypeOK, TrailOK
  <2>4. /\ plan \in Seq(Names) /\ rows[e] \in Seq(DispatchRows) /\ todo[e] \in Seq(Names)
        /\ effects[e] \in Seq(Names)
    BY NamesTyped DEF EngineTypeOK, Planned
  <2>5. /\ Followed(plan, rows'[e], effects[e]) /\ Remaining(plan, rows'[e], todo'[e])
        /\ Len(effects[e]) <= Len(rows'[e])
    <3> HIDE DEF plan
    <3> QED BY <2>2, <2>3, <2>4, WriteFollows
  <2>6. TrailOK(e)'
    BY <2>2, <2>5 DEF TrailOK
  <2> QED BY <2>1, <2>6, OneTrail
<1>6. ASSUME NEW e \in Events, Engine!HandlerAnswers(e) \/ Engine!HandlerErrs(e)
      PROVE  \A d \in Events : TrailOK(d)'
  <2>1. OthersStay(e)
    BY <1>6 DEF Engine!HandlerAnswers, Engine!HandlerErrs, Engine!Invoking, Engine!Move,
           OthersStay, EngineTypeOK
  <2> DEFINE plan == Planned(audits[e])
  <2>2. /\ todo[e] # <<>> /\ eventPhase[e] = "dispatching" /\ eventPhase'[e] = "invoked"
        /\ audits'[e] = audits[e] /\ audits[e] # Engine!Undecided /\ rows'[e] = rows[e]
        /\ todo'[e] = todo[e]
        /\ Followed(plan, rows[e], effects[e]) /\ Remaining(plan, rows[e], todo[e])
        /\ Len(effects[e]) <= Len(rows[e])
    BY <1>6 DEF Engine!HandlerAnswers, Engine!HandlerErrs, Engine!Invoking, Engine!Move,
           EngineTypeOK, TrailOK
  <2>3. \/ /\ effects'[e] = effects[e]
           /\ result'[e] = "ok" => Head(todo[e]) = "discard"
        \/ effects'[e] = Append(effects[e], Head(todo[e]))
    BY <1>6 DEF Engine!HandlerAnswers, Engine!HandlerErrs, EngineTypeOK
  <2>4. /\ plan \in Seq(Names) /\ rows[e] \in Seq(DispatchRows) /\ todo[e] \in Seq(Names)
        /\ effects[e] \in Seq(Names)
    BY NamesTyped DEF EngineTypeOK, Planned
  <2>5. /\ Followed(plan, rows[e], effects'[e])
        /\ result'[e] = "ok" /\ Head(todo[e]) # "discard" =>
             \E j \in 1..Len(effects'[e]) : effects'[e][j] = Head(todo[e])
    <3> HIDE DEF plan
    <3>1. CASE effects'[e] = effects[e] /\ (result'[e] = "ok" => Head(todo[e]) = "discard")
      BY <2>2, <3>1
    <3>2. CASE effects'[e] = Append(effects[e], Head(todo[e]))
      <4>1. Followed(plan, rows[e], Append(effects[e], Head(todo[e])))
            /\ \E j \in 1..Len(Append(effects[e], Head(todo[e]))) :
                 Append(effects[e], Head(todo[e]))[j] = Head(todo[e])
        BY <2>2, <2>4, EffectFollows
      <4> QED BY <3>2, <4>1
    <3> QED BY <2>3, <3>1, <3>2
  <2>6. TrailOK(e)'
    BY <2>2, <2>5 DEF TrailOK
  <2> QED BY <2>1, <2>6, OneTrail
<1>7. ASSUME NEW e \in Events, Engine!Return(e) PROVE \A d \in Events : TrailOK(d)'
  <2>1. OthersStay(e)
    BY <1>7 DEF Engine!Return, Engine!Move, Engine!tables, OthersStay, EngineTypeOK
  <2>2. /\ eventPhase[e] = "dispatching" /\ eventPhase'[e] = "done" /\ todo[e] = <<>>
        /\ audits'[e] = audits[e] /\ rows'[e] = rows[e] /\ effects'[e] = effects[e]
    BY <1>7 DEF Engine!Return, Engine!Move, Engine!tables, EngineTypeOK
  <2>3. Len(rows[e]) = Len(Planned(audits[e]))
    <3>1. Len(todo[e]) = 0 /\ Len(rows[e]) \in Nat
      BY <2>2, EmptySeq, LenProperties DEF EngineTypeOK
    <3>2. Remaining(Planned(audits[e]), rows[e], todo[e])
      BY <2>2 DEF TrailOK
    <3> QED BY <3>1, <3>2 DEF Remaining
  <2>4. TrailOK(e)'
    BY <2>2, <2>3 DEF TrailOK
  <2> QED BY <2>1, <2>4, OneTrail
<1>11. ASSUME NEW e \in Events, Engine!RecordRaises(e) PROVE \A d \in Events : TrailOK(d)'
  <2>1. OthersStay(e)
    BY <1>11 DEF Engine!RecordRaises, Engine!Move, Engine!tables, OthersStay, EngineTypeOK
  <2>2. /\ eventPhase'[e] = "unrecorded"
        /\ audits'[e] = audits[e] /\ rows'[e] = rows[e] /\ effects'[e] = effects[e]
    BY <1>11 DEF Engine!RecordRaises, Engine!Move, Engine!tables, EngineTypeOK
  <2>3. TrailOK(e)'
    BY <2>2 DEF TrailOK
  <2> QED BY <2>1, <2>3, OneTrail
<1>8. ASSUME NEW t \in installed, Engine!Deprecate(t) PROVE \A e \in Events : TrailOK(e)'
  BY <1>8 DEF Engine!Deprecate, Engine!calls, Engine!tables, TrailOK
<1>9. ASSUME Engine!Crash PROVE \A e \in Events : TrailOK(e)'
  BY <1>9 DEF Engine!Crash, Engine!tables, TrailOK, EngineTypeOK
<1>10. ASSUME UNCHANGED Engine!vars PROVE \A e \in Events : TrailOK(e)'
  BY <1>10 DEF Engine!vars, Engine!calls, Engine!tables, TrailOK
<1> QED
  BY <1>1, <1>2, <1>3, <1>4, <1>5, <1>6, <1>7, <1>8, <1>9, <1>10, <1>11
  DEF Engine!Next, Engine!EngineStep, Engine!IngestInput, Engine!RecordMemory, Engine!Observe

LEMMA EngineInvIsInductive ==
  ASSUME Engine!ConstantsAssumption, EngineInv, [Engine!Next]_Engine!vars PROVE EngineInv'
BY EngineTypeStep, TrailStep DEF EngineInv

LEMMA TrailImplied == ASSUME EngineInv PROVE Engine!TrailMatches
<1> SUFFICES ASSUME NEW e \in Events
             PROVE  LET decided == IF audits[e] \in {Engine!Undecided, Engine!Expired} THEN <<>> ELSE audits[e]
                    IN  /\ Len(rows[e]) <= Len(decided)
                        /\ Engine!Dispatched(e) = SubSeq(decided, 1, Len(rows[e]))
                        /\ Len(effects[e]) <= Len(rows[e]) + 1
                        /\ \A i \in DOMAIN effects[e] : \E j \in DOMAIN decided :
                             decided[j] = effects[e][i]
                        /\ \A i \in DOMAIN rows[e] : rows[e][i].ok /\ rows[e][i].handler # "discard" =>
                             \E j \in DOMAIN effects[e] : effects[e][j] = rows[e][i].handler
                        /\ eventPhase[e] = "done" => audits[e] # Engine!Undecided /\ Len(rows[e]) = Len(decided)
  BY DEF Engine!TrailMatches
<1> DEFINE plan == Planned(audits[e])
<1>1. /\ plan \in Seq(Names) /\ rows[e] \in Seq(DispatchRows) /\ effects[e] \in Seq(Names)
  BY NamesTyped DEF EngineInv, EngineTypeOK, Planned
<1>2. /\ Followed(plan, rows[e], effects[e])
      /\ eventPhase[e] = "done" => audits[e] # Engine!Undecided /\ Len(rows[e]) = Len(plan)
  BY DEF EngineInv, TrailOK
<1>3. plan = IF audits[e] \in {Engine!Undecided, Engine!Expired} THEN <<>> ELSE audits[e]
  BY DEF Planned
<1> HIDE DEF plan
<1>4. /\ DOMAIN plan = 1..Len(plan) /\ DOMAIN rows[e] = 1..Len(rows[e])
      /\ DOMAIN effects[e] = 1..Len(effects[e]) /\ Len(rows[e]) \in Nat /\ Len(plan) \in Nat
  BY <1>1, LenProperties
<1>5. Engine!Dispatched(e) = SubSeq(plan, 1, Len(rows[e]))
  <2>1. /\ Engine!Dispatched(e) \in Seq(Names) /\ Len(Engine!Dispatched(e)) = Len(rows[e])
        /\ \A i \in 1..Len(rows[e]) : Engine!Dispatched(e)[i] = rows[e][i].handler
    <3>1. \A i \in 1..Len(rows[e]) : rows[e][i].handler \in Names
      <4>1. \A i \in 1..Len(rows[e]) : rows[e][i] \in DispatchRows
        BY <1>1, ElementOfSeq
      <4> QED BY <4>1 DEF DispatchRows
    <3>2. Engine!Dispatched(e) \in [1..Len(rows[e]) -> Names]
      BY <1>4, <3>1 DEF Engine!Dispatched
    <3> QED BY <1>4, <3>2 DEF Engine!Dispatched
  <2>2. \A i \in 1..Len(rows[e]) : plan[i] \in Names
    BY <1>1, <1>2, <1>4, ElementOfSeq DEF Followed
  <2>3. /\ SubSeq(plan, 1, Len(rows[e])) \in Seq(Names)
        /\ Len(SubSeq(plan, 1, Len(rows[e]))) = Len(rows[e])
        /\ \A i \in 1..Len(rows[e]) : SubSeq(plan, 1, Len(rows[e]))[i] = plan[i]
    BY <1>4, <2>2, SubSeqProperties
  <2> QED BY <1>2, <2>1, <2>3, SeqEqual DEF Followed
<1> QED BY <1>2, <1>3, <1>4, <1>5 DEF Followed

\* run_event: the audit row, the dispatch rows and the effects of an event agree, whichever
\* handlers err or are withdrawn and whenever the process dies.
THEOREM TrailsMatch == Engine!Spec => []TrailMatches
<1>1. Engine!Init => EngineInv
  BY EngineInit, PartsAssumption
<1>2. EngineInv /\ [Engine!Next]_Engine!vars => EngineInv'
  BY EngineInvIsInductive, PartsAssumption
<1>3. EngineInv => TrailMatches
  BY TrailImplied DEF TrailMatches
<1> QED BY <1>1, <1>2, <1>3, PTL DEF Engine!Spec

-----------------------------------------------------------------------------
(* The database file, its backups and its restores.                        *)

\* The instance has FiniteSets from Storage.
LEMMA CardinalityIsTheirs == \A S : Files!Cardinality(S) = Cardinality(S)
BY DEF Files!Cardinality, Cardinality

FileStates == {"unused", "opening", "live", "aside", "gone", "closed"}

StorageTypeOK ==
  /\ live \in {Files!Absent, Files!Torn} \cup SUBSET Writers /\ wal \in SUBSET Writers
  /\ aside \in {Files!Absent} \cup SUBSET Writers
  /\ \A q \in backups : q.id \in Nat /\ q.data \in SUBSET Writers
  /\ db \in Files!Conns \cup {0} /\ on \in [Files!Conns -> FileStates]
  /\ pending \in SUBSET Writers
  /\ DOMAIN filePhase = Files!Calls /\ held \in [Files!Calls -> Files!Conns \cup {0}]
  /\ copied \in [Backups -> SUBSET Writers]
  /\ spare \in BOOLEAN /\ overlap \in BOOLEAN /\ failed \in {"no", "back", "stray"}

\* Some backup is the latest, unless none is to be kept.
LatestListed == Retain >= 1 => \E m \in backups : \A q \in backups : q.id <= m.id

\* Where a file is missing, or torn, is known from where the calls are.
FilesFollowCalls ==
  /\ \A c, d \in Files!Calls : filePhase[c] \in Files!Exclusive /\ filePhase[d] \in Files!Exclusive => c = d
  /\ \A r \in Restores : filePhase[r] = "clear" => live # Files!Absent
  /\ live = Files!Torn =>
       \/ \E r \in Restores : filePhase[r] \in {"torn", "fresh"}
       \/ \A c \in Files!Calls : filePhase[c] = "raised"
  /\ \A r \in Restores : filePhase[r] \in {"bare", "torn"} => wal = {}
  /\ \A k \in Files!Conns : on[k] = "live" => live # Files!Absent
  /\ \A k \in Files!Conns : on[k] = "aside" => aside # Files!Absent

Active(r) == filePhase[r] \notin {"idle", "done", "raised"}

\* What was committed is where the restore that is under way has put it.
SavedIsKept ==
  /\ \A q, r \in Restores : Active(q) /\ Active(r) => q = r
  /\ \A r \in Restores : Active(r) => failed = "no"
  /\ \A r \in Restores : filePhase[r] \in {"closed", "clear"} => wal = {} /\ closedWith \subseteq Files!Holds(live)
  /\ \A r \in Restores : filePhase[r] = "renamed" => wal = {}
  /\ \A r \in Restores : filePhase[r] \in {"renamed", "bare", "torn"} => closedWith \subseteq Files!Holds(aside)
  /\ \A r \in Restores : filePhase[r] = "fresh" => closedWith = {}
  /\ (\A k \in Files!Conns : on[k] # "live") => wal = {}
  /\ live = Files!Torn => wal = {}
  /\ closedWith \subseteq Files!Holds(aside) \cup Files!Holds(live) \cup wal
  /\ failed = "back" => closedWith \subseteq Files!Holds(live) \cup wal

StorageInv ==
  /\ StorageTypeOK
  /\ LatestListed
  /\ FilesFollowCalls
  /\ ~spare /\ ~overlap => SavedIsKept

\* A step of the event loop is taken while no other call is between two file operations.
LEMMA StepAlone ==
  ASSUME StorageTypeOK, FilesFollowCalls, NEW c \in Files!Calls, NEW from, NEW to, Files!Step(c, from, to)
  PROVE  /\ filePhase[c] = from /\ filePhase'[c] = to /\ DOMAIN filePhase' = Files!Calls
         /\ \A d \in Files!Calls \ {c} : filePhase'[d] = filePhase[d] /\ filePhase[d] \notin Files!Exclusive
         /\ live = Files!Torn => from \in {"torn", "fresh", "raised"}
         /\ \A d, e \in Files!Calls : filePhase'[d] \in Files!Exclusive /\ filePhase'[e] \in Files!Exclusive => d = e
<1>1. /\ filePhase[c] = from /\ filePhase' = [filePhase EXCEPT ![c] = to] /\ DOMAIN filePhase = Files!Calls
      /\ \A d \in Files!Calls \ {c} : filePhase[d] \notin Files!Exclusive
  BY DEF Files!Step, StorageTypeOK
<1>2. filePhase'[c] = to /\ DOMAIN filePhase' = Files!Calls /\ \A d \in Files!Calls \ {c} : filePhase'[d] = filePhase[d]
  BY <1>1
<1>3. Restores \subseteq Files!Calls
  BY DEF Files!Calls
<1>4. live = Files!Torn => from \in {"torn", "fresh", "raised"}
  <2> SUFFICES ASSUME live = Files!Torn PROVE from \in {"torn", "fresh", "raised"}
    OBVIOUS
  <2>1. CASE \A d \in Files!Calls : filePhase[d] = "raised"
    BY <1>1, <2>1
  <2>2. CASE \E r \in Restores : filePhase[r] \in {"torn", "fresh"}
    <3>1. PICK r \in Restores : filePhase[r] \in {"torn", "fresh"}
      BY <2>2
    <3>2. filePhase[r] \in Files!Exclusive /\ r \in Files!Calls
      BY <1>3, <3>1 DEF Files!Exclusive
    <3> QED BY <1>1, <3>1, <3>2
  <2> QED BY <2>1, <2>2 DEF FilesFollowCalls
<1> QED BY <1>1, <1>2, <1>4

\* A commit goes where the connection's file is by now.
LEMMA CommitWrites ==
  ASSUME StorageTypeOK, FilesFollowCalls, NEW w \in Writers, Files!Commit(w)
  PROVE  LET batch == {v \in pending : held[v] = held[w]}
         IN  \/ wal' = wal \cup batch /\ aside' = aside /\ \E k \in Files!Conns : on[k] = "live"
             \/ wal' = wal /\ aside' = aside \cup batch /\ aside \in SUBSET Writers
             \/ wal' = wal /\ aside' = aside
<1> DEFINE batch == {v \in pending : held[v] = held[w]}
<1>1. on[held[w]] \in {"live", "aside", "gone"} /\ held[w] \in Files!Conns
  BY DEF Files!Commit, Files!Usable, StorageTypeOK, Files!Calls
<1>2. CASE on[held[w]] = "live"
  BY <1>1, <1>2 DEF Files!Commit
<1>3. CASE on[held[w]] = "aside"
  <2>1. aside \in SUBSET Writers
    BY <1>1, <1>3 DEF FilesFollowCalls, StorageTypeOK
  <2>2. wal' = wal /\ aside' = aside \cup batch
    BY <1>3 DEF Files!Commit
  <2> QED BY <2>1, <2>2
<1>4. CASE on[held[w]] = "gone"
  BY <1>4 DEF Files!Commit
<1> QED BY <1>1, <1>2, <1>3, <1>4

\* The name that a backup gets is the latest.
LEMMA NamesAreLatest ==
  \A i \in Files!Names : i \in Nat /\ \A q \in backups : q.id <= i
BY DEF Files!Names

-----------------------------------------------------------------------------

LEMMA StorageInit == ASSUME Files!ConstantsAssumption, Files!Init PROVE StorageInv
<1> USE DEF Files!Init, Files!ConstantsAssumption
<1>1. StorageTypeOK
  <2>1. 1 \in Files!Conns
    BY DEF Files!Conns
  <2>2. on \in [Files!Conns -> FileStates] /\ held \in [Files!Calls -> Files!Conns \cup {0}]
    BY DEF FileStates
  <2>3. \A q \in backups : q.id \in Nat /\ q.data \in SUBSET Writers
    OBVIOUS
  <2> QED BY <2>1, <2>2, <2>3 DEF StorageTypeOK
<1>2. LatestListed
  BY DEF LatestListed
<1>3. FilesFollowCalls
  BY DEF FilesFollowCalls, Files!Exclusive, Files!Absent, Files!Torn
<1>4. SavedIsKept
  <2>1. \A r \in Restores : filePhase[r] = "idle"
    BY DEF Files!Calls
  <2> QED BY <2>1 DEF SavedIsKept, Active
<1> QED BY <1>1, <1>2, <1>3, <1>4 DEF StorageInv

LEMMA StorageTypeStep ==
  ASSUME Files!ConstantsAssumption, StorageInv, [Files!Next]_Files!vars
  PROVE  StorageTypeOK'
<1> USE DEF StorageInv, StorageTypeOK, FileStates, Files!files, Files!handles, Files!calls,
    Files!history, Files!Step
<1>1. ASSUME NEW c \in Files!Calls, NEW from, NEW to, Files!HasDb(c, from, to) \/ Files!Connected(c, to)
      PROVE  StorageTypeOK'
  BY <1>1 DEF Files!HasDb, Files!Connected
<1>2. ASSUME NEW c \in Files!Calls, NEW from, Files!Connect(c, from) PROVE StorageTypeOK'
  BY <1>2 DEF Files!Connect
<1>3. ASSUME NEW w \in Writers, Files!Insert(w) \/ Files!WriterRaises(w) PROVE StorageTypeOK'
  BY <1>3 DEF Files!Insert, Files!WriterRaises, Files!Raise, Files!Calls
<1>4. ASSUME NEW w \in Writers, Files!Commit(w) PROVE StorageTypeOK'
  <2> DEFINE batch == {v \in pending : held[v] = held[w]}
  <2>1. batch \in SUBSET Writers /\ pending' = pending \ batch
    BY <1>4 DEF Files!Commit
  <2>2. held[w] \in Files!Conns /\ w \in Files!Calls
    BY <1>4 DEF Files!Commit, Files!Usable, Files!Calls
  <2>3. aside' = aside \/ (aside \in SUBSET Writers /\ aside' = aside \cup batch)
    BY <1>4, CommitWrites
  <2>4. aside' \in {Files!Absent} \cup SUBSET Writers
    BY <2>1, <2>3
  <2>5. wal' = wal \/ wal' = wal \cup batch
    BY <1>4, CommitWrites
  <2> HIDE DEF batch
  <2> QED BY <1>4, <2>1, <2>2, <2>4, <2>5 DEF Files!Commit
<1>5. ASSUME NEW b \in Backups, Files!VacuumRaises(b) \/ Files!Vacuum(b) \/ Files!WritePart(b) PROVE StorageTypeOK'
  <2>1. CASE Files!VacuumRaises(b) \/ Files!WritePart(b)
    BY <2>1 DEF Files!VacuumRaises, Files!WritePart, Files!Raise, Files!Calls
  <2>2. CASE Files!Vacuum(b)
    <3>1. b \in Files!Calls /\ held[b] \in Files!Conns /\ on[held[b]] \in {"live", "aside", "gone"}
      BY <2>2 DEF Files!Vacuum, Files!Usable, Files!Calls
    <3>2. live # Files!Torn
      BY <2>2, <3>1, StepAlone DEF Files!Vacuum
    <3>3. Files!Contents(held[b]) \subseteq SUBSET Writers
      <4>1. CASE on[held[b]] = "live"
        BY <3>1, <3>2, <4>1 DEF Files!Contents, FilesFollowCalls
      <4>2. CASE on[held[b]] = "aside"
        BY <3>1, <4>2 DEF Files!Contents, FilesFollowCalls
      <4>3. CASE on[held[b]] = "gone"
        BY <4>3 DEF Files!Contents
      <4> QED BY <3>1, <4>1, <4>2, <4>3
    <3>4. copied' \in [Backups -> SUBSET Writers]
      BY <2>2, <3>3 DEF Files!Vacuum
    <3> QED BY <2>2, <3>4 DEF Files!Vacuum
  <2> QED BY <1>5, <2>1, <2>2
<1>6. ASSUME NEW b \in Backups, Files!Publish(b) PROVE StorageTypeOK'
  <2>1. b \in Files!Calls
    BY DEF Files!Calls
  <2>2. PICK i \in Files!Names : backups' = Files!Listed(i, copied[b])
    BY <1>6 DEF Files!Publish
  <2>3. i \in Nat /\ copied[b] \in SUBSET Writers
    BY <2>2, NamesAreLatest
  <2>4. \A q \in backups' : q.id \in Nat /\ q.data \in SUBSET Writers
    BY <2>2, <2>3 DEF Files!Listed
  <2>5. copied' \in [Backups -> SUBSET Writers]
    BY <1>6 DEF Files!Publish
  <2> QED BY <1>6, <2>1, <2>4, <2>5 DEF Files!Publish
<1>7. ASSUME NEW b \in Backups, Files!Prune(b) PROVE StorageTypeOK'
  <2>1. b \in Files!Calls /\ backups' \subseteq backups
    BY <1>7 DEF Files!Prune, Files!Calls
  <2> QED BY <1>7, <2>1 DEF Files!Prune
<1>8. ASSUME NEW r \in Restores, Files!Restore(r) \/ Files!Closed(r) \/ Files!DropAside(r) \/ Files!DropSidecars(r)
      PROVE  StorageTypeOK'
  <2>1. CASE Files!Restore(r)
    <3>1. overlap' \in BOOLEAN
      BY <2>1 DEF Files!Restore
    <3> QED BY <2>1, <3>1 DEF Files!Restore, Files!Calls
  <2>2. CASE Files!Closed(r)
    <3>1. spare' \in BOOLEAN
      BY <2>2 DEF Files!Closed
    <3> QED BY <2>2, <3>1 DEF Files!Closed
  <2>3. CASE Files!DropAside(r)
    <3>1. on' \in [Files!Conns -> FileStates]
      BY <2>3 DEF Files!DropAside, Files!Renamed
    <3> QED BY <2>3, <3>1 DEF Files!DropAside
  <2>4. CASE Files!DropSidecars(r)
    BY <2>4 DEF Files!DropSidecars
  <2> QED BY <1>8, <2>1, <2>2, <2>3, <2>4
<1>9. ASSUME NEW r \in Restores, Files!CloseFile(r) PROVE StorageTypeOK'
  <2>1. held[r] \in Files!Conns /\ r \in Files!Calls
    BY <1>9 DEF Files!CloseFile, Files!Calls
  <2>2. \/ live' = live /\ (wal' = wal \/ wal' = {})
        \/ Files!OnLive = {held[r]} /\ live # Files!Torn /\ live' = live \cup wal /\ wal' = {}
    BY <1>9 DEF Files!CloseFile
  <2>3. live' \in {Files!Absent, Files!Torn} \cup SUBSET Writers /\ wal' \in SUBSET Writers
    <3>1. CASE live' = live /\ (wal' = wal \/ wal' = {})
      BY <3>1
    <3>2. CASE Files!OnLive = {held[r]} /\ live # Files!Torn /\ live' = live \cup wal /\ wal' = {}
      <4>1. live # Files!Absent
        BY <3>2 DEF Files!OnLive, FilesFollowCalls
      <4> QED BY <3>2, <4>1
    <3> QED BY <2>2, <3>1, <3>2
  <2> QED BY <1>9, <2>1, <2>3 DEF Files!CloseFile
<1>10. ASSUME NEW r \in Restores, Files!RenameAside(r) PROVE StorageTypeOK'
  <2>1. r \in Files!Calls /\ live # Files!Torn
    BY <1>10, StepAlone DEF Files!RenameAside, Files!Calls
  <2> QED BY <1>10, <2>1 DEF Files!RenameAside, Files!Renamed
<1>11. ASSUME NEW r \in Restores, Files!WriteBegins(r) \/ Files!WriteEnds(r) PROVE StorageTypeOK'
  <2>1. r \in Files!Calls /\ (live' = Files!Torn \/ live' \in SUBSET Writers)
    BY <1>11 DEF Files!WriteBegins, Files!WriteEnds, Files!Chosen, Files!Calls
  <2>2. UNCHANGED <<wal, aside, backups, Files!handles, held, src, copied, Files!history, crashes>>
    BY <1>11 DEF Files!WriteBegins, Files!WriteEnds
  <2>3. DOMAIN filePhase' = Files!Calls
    BY <1>11 DEF Files!WriteBegins, Files!WriteEnds
  <2> QED BY <2>1, <2>2, <2>3
<1>12. ASSUME NEW r \in Restores, Files!PutBack(r) PROVE StorageTypeOK'
  <2>1. on' \in [Files!Conns -> FileStates]
    BY <1>12 DEF Files!PutBack
  <2>2. live' \in SUBSET Writers /\ aside' = Files!Absent
    BY <1>12 DEF Files!PutBack
  <2> QED BY <1>12, <2>1, <2>2 DEF Files!PutBack, Files!Calls
<1>13. ASSUME NEW k \in Files!Conns, Files!OpenFile(k) PROVE StorageTypeOK'
  BY <1>13 DEF Files!OpenFile
<1>14. ASSUME Files!Crash PROVE StorageTypeOK'
  BY <1>14 DEF Files!Crash
<1>15. ASSUME Files!CrashTorn PROVE StorageTypeOK'
  BY <1>15 DEF Files!CrashTorn
<1>16. ASSUME UNCHANGED Files!vars PROVE StorageTypeOK'
  BY <1>16 DEF Files!vars
<1>17. Writers \subseteq Files!Calls /\ Backups \subseteq Files!Calls /\ Restores \subseteq Files!Calls
  BY DEF Files!Calls
<1>18. ASSUME NEW r \in Restores, Files!RestoreRaises(r) \/ Files!SidecarRaises(r) PROVE StorageTypeOK'
  <2>1. CASE Files!RestoreRaises(r)
    BY <2>1 DEF Files!RestoreRaises, Files!Raise, Files!Calls
  <2>2. CASE Files!SidecarRaises(r)
    BY <2>2 DEF Files!SidecarRaises, Files!Raise, Files!Calls
  <2> QED BY <1>18, <2>1, <2>2
<1> QED
  BY <1>1, <1>2, <1>3, <1>4, <1>5, <1>6, <1>7, <1>8, <1>9, <1>10, <1>11, <1>12, <1>13, <1>14,
     <1>15, <1>16, <1>17, <1>18
  DEF Files!Next, Files!WriterOpens, Files!BackupOpens, Files!Reopen

LEMMA LatestStep ==
  ASSUME Files!ConstantsAssumption, StorageInv, [Files!Next]_Files!vars
  PROVE  LatestListed'
<1>1. LatestListed /\ StorageTypeOK /\ Retain \in Int
  BY DEF StorageInv, Files!ConstantsAssumption
<1>2. ASSUME NEW b \in Backups, Files!Publish(b) PROVE LatestListed'
  <2>1. PICK i \in Files!Names : backups' = Files!Listed(i, copied[b])
    BY <1>2 DEF Files!Publish
  <2> DEFINE new == [id |-> i, data |-> copied[b]]
  <2>2. new \in backups' /\ new.id = i /\ i \in Nat
    BY <2>1, NamesAreLatest DEF Files!Listed
  <2>3. \A q \in backups' : q = new \/ q \in backups
    BY <2>1 DEF Files!Listed
  <2> HIDE DEF new
  <2>4. \A q \in backups' : q.id <= new.id
    BY <2>1, <2>2, <2>3, NamesAreLatest
  <2> QED BY <2>2, <2>4 DEF LatestListed
<1>3. ASSUME NEW b \in Backups, Files!Prune(b), Retain >= 1 PROVE LatestListed'
  <2>1. PICK m \in backups : \A q \in backups : q.id <= m.id
    BY <1>1, <1>3 DEF LatestListed
  <2>2. {q \in backups : q.id > m.id} = {}
    BY <1>1, <2>1 DEF StorageTypeOK
  <2>3. Files!Cardinality({q \in backups : q.id > m.id}) = 0
    BY <2>2, FS_EmptySet, CardinalityIsTheirs
  <2>4. Files!Cut = Retain
    BY <1>1, <1>3 DEF Files!Cut
  <2> DEFINE former == {r \in backups : Files!Cardinality({q \in backups : q.id > r.id}) >= Files!Cut}
  <2>5. m \notin former
    BY <1>1, <1>3, <2>3, <2>4
  <2>6. backups' \subseteq backups /\ backups \ former \subseteq backups'
    BY <1>3 DEF Files!Prune
  <2> HIDE DEF former
  <2> QED BY <2>1, <2>5, <2>6 DEF LatestListed
<1>4. ASSUME UNCHANGED backups PROVE LatestListed'
  BY <1>1, <1>4 DEF LatestListed
<1>5. ~(Retain >= 1) => LatestListed'
  BY DEF LatestListed
<1> QED
  BY <1>2, <1>3, <1>4, <1>5
  DEF Files!Next, Files!WriterOpens, Files!BackupOpens, Files!Reopen, Files!HasDb, Files!Connect,
     Files!Connected, Files!Insert, Files!WriterRaises,
      Files!Commit, Files!VacuumRaises, Files!Vacuum, Files!WritePart, Files!Restore,
      Files!CloseFile, Files!Closed, Files!DropAside, Files!RenameAside,
      Files!DropSidecars, Files!RestoreRaises, Files!SidecarRaises, Files!WriteBegins,
      Files!WriteEnds, Files!PutBack, Files!OpenFile, Files!Crash, Files!CrashTorn, Files!vars


\* A step that leaves the files alone, and that is none of a restore between two of them.
Quiet(c, from, to) ==
  /\ Files!Step(c, from, to)
  /\ from \notin {"raised", "torn", "fresh"} /\ to \notin {"clear", "bare", "torn", "fresh"}
  /\ UNCHANGED <<live, wal, aside>>
  /\ \A k \in Files!Conns : on'[k] = on[k] \/ (on[k] = "unused" /\ on'[k] = "opening")

LEMMA QuietFiles ==
  ASSUME StorageTypeOK, FilesFollowCalls, NEW c \in Files!Calls, NEW from, NEW to, Quiet(c, from, to)
  PROVE  FilesFollowCalls' /\ live # Files!Torn
<1>1. /\ filePhase[c] = from /\ filePhase'[c] = to
      /\ \A d \in Files!Calls \ {c} : filePhase'[d] = filePhase[d] /\ filePhase[d] \notin Files!Exclusive
      /\ \A d, e \in Files!Calls : filePhase'[d] \in Files!Exclusive /\ filePhase'[e] \in Files!Exclusive => d = e
  BY StepAlone DEF Quiet
<1>2. live # Files!Torn
  BY StepAlone DEF Quiet
<1>3. \A r \in Restores : filePhase'[r] \notin {"clear", "bare", "torn"}
  BY <1>1 DEF Quiet, Files!Exclusive, Files!Calls
<1>4. \A k \in Files!Conns : on'[k] \in {"live", "aside"} => on'[k] = on[k]
  BY DEF Quiet
<1> QED BY <1>1, <1>2, <1>3, <1>4 DEF Quiet, Files!files, FilesFollowCalls

LEMMA QuietSteps ==
  ASSUME Files!ConstantsAssumption, StorageInv
  PROVE  /\ \A c \in Files!Calls : \A from \in {"idle", "reopening"} : \A to \in {"open", "vacuum", "done"} :
              Files!HasDb(c, from, to) => Quiet(c, from, to)
         /\ \A c \in Files!Calls : \A from \in {"idle", "reopening"} :
              Files!Connect(c, from) => Quiet(c, from, "connecting")
         /\ \A c \in Files!Calls : \A to \in {"open", "vacuum", "done"} :
              Files!Connected(c, to) => Quiet(c, "connecting", to)
         /\ \A w \in Writers : Files!Insert(w) => Quiet(w, "open", "inserted")
         /\ \A w \in Writers : Files!WriterRaises(w) =>
              \E from \in {"open", "inserted"} : Quiet(w, from, "raised")
         /\ \A b \in Backups : Files!VacuumRaises(b) => Quiet(b, "vacuum", "raised")
         /\ \A b \in Backups : Files!Vacuum(b) => Quiet(b, "vacuum", "vacuumed")
         /\ \A b \in Backups : Files!WritePart(b) => Quiet(b, "vacuumed", "parted")
         /\ \A b \in Backups : Files!Publish(b) => Quiet(b, "parted", "listed")
         /\ \A b \in Backups : Files!Prune(b) => Quiet(b, "listed", "done")
         /\ \A r \in Restores : Files!Restore(r) => Quiet(r, "idle", "closing")
         /\ \A r \in Restores : Files!Closed(r) => Quiet(r, "closing", "closed")
         /\ \A r \in Restores : Files!RestoreRaises(r) =>
              \E from \in {"closed", "clear"} : Quiet(r, from, "raised")
<1> USE DEF Quiet, Files!files, Files!handles
<1>1. ASSUME NEW c \in Files!Calls, NEW from \in {"idle", "reopening"} PROVE
        Files!Connect(c, from) => Quiet(c, from, "connecting")
  <2>1. ASSUME Files!Connect(c, from), NEW k \in Files!Conns
        PROVE  on'[k] = on[k] \/ (on[k] = "unused" /\ on'[k] = "opening")
    <3>1. PICK j \in Files!Conns : on[j] = "unused" /\ on' = [on EXCEPT ![j] = "opening"]
      BY <2>1 DEF Files!Connect
    <3> QED BY <3>1 DEF StorageInv, StorageTypeOK
  <2> QED BY <2>1 DEF Files!Connect
<1>2. /\ \A c \in Files!Calls : \A from \in {"idle", "reopening"} : \A to \in {"open", "vacuum", "done"} :
           Files!HasDb(c, from, to) => Quiet(c, from, to)
      /\ \A c \in Files!Calls : \A to \in {"open", "vacuum", "done"} :
           Files!Connected(c, to) => Quiet(c, "connecting", to)
  BY DEF Files!HasDb, Files!Connected
<1>3. \A w \in Writers : /\ Files!Insert(w) => Quiet(w, "open", "inserted")
                         /\ Files!WriterRaises(w) => \E from \in {"open", "inserted"} : Quiet(w, from, "raised")
  BY DEF Files!Insert, Files!WriterRaises, Files!Raise
<1>4. \A b \in Backups :
        /\ Files!VacuumRaises(b) => Quiet(b, "vacuum", "raised")
        /\ Files!Vacuum(b) => Quiet(b, "vacuum", "vacuumed")
        /\ Files!WritePart(b) => Quiet(b, "vacuumed", "parted")
        /\ Files!Publish(b) => Quiet(b, "parted", "listed")
        /\ Files!Prune(b) => Quiet(b, "listed", "done")
  BY DEF Files!VacuumRaises, Files!Raise, Files!Vacuum, Files!WritePart, Files!Publish,
         Files!Prune
<1>5. \A r \in Restores :
        /\ Files!Restore(r) => Quiet(r, "idle", "closing")
        /\ Files!Closed(r) => Quiet(r, "closing", "closed")
        /\ Files!RestoreRaises(r) => \E from \in {"closed", "clear"} : Quiet(r, from, "raised")
  BY DEF Files!Restore, Files!Closed, Files!RestoreRaises, Files!Raise
<1> QED BY <1>1, <1>2, <1>3, <1>4, <1>5

LEMMA FilesStep ==
  ASSUME Files!ConstantsAssumption, StorageInv, [Files!Next]_Files!vars
  PROVE  FilesFollowCalls'
<1>1. StorageTypeOK /\ FilesFollowCalls
  BY DEF StorageInv
<1>2. Writers \subseteq Files!Calls /\ Backups \subseteq Files!Calls /\ Restores \subseteq Files!Calls
  BY DEF Files!Calls
<1>3. ASSUME NEW c \in Files!Calls, NEW from, NEW to, Quiet(c, from, to) PROVE FilesFollowCalls'
  BY <1>1, <1>3, QuietFiles
<1>4. ASSUME NEW w \in Writers, Files!Commit(w) PROVE FilesFollowCalls'
  <2>1. /\ filePhase[w] = "inserted" /\ filePhase'[w] = "done" /\ live # Files!Torn
        /\ \A d \in Files!Calls \ {w} : filePhase'[d] = filePhase[d] /\ filePhase[d] \notin Files!Exclusive
    BY <1>1, <1>2, <1>4, StepAlone DEF Files!Commit
  <2>2. UNCHANGED <<live, on>> /\ \A d \in Files!Calls : filePhase'[d] \notin Files!Exclusive
    BY <1>4, <2>1 DEF Files!Commit, Files!Exclusive
  <2>3. aside # Files!Absent => aside' # Files!Absent
    <3>1. aside' = aside \/ aside' = aside \cup {v \in pending : held[v] = held[w]}
      BY <1>1, <1>4, CommitWrites
    <3>2. Files!Absent = {"absent"} /\ "absent" \notin Writers
      BY DEF Files!Absent, Files!ConstantsAssumption
    <3>3. pending \subseteq Writers
      BY <1>1 DEF StorageTypeOK
    <3>4. aside \in {Files!Absent} \cup SUBSET Writers
      BY <1>1 DEF StorageTypeOK
    <3> QED BY <3>1, <3>2, <3>3, <3>4
  <2> QED BY <1>1, <1>2, <2>1, <2>2, <2>3 DEF FilesFollowCalls, Files!Exclusive
<1>5. ASSUME NEW r \in Restores, Files!CloseFile(r) PROVE FilesFollowCalls'
  <2>1. /\ UNCHANGED <<filePhase, aside>> /\ filePhase[r] = "closing"
        /\ \A k \in Files!Conns : on'[k] = on[k] \/ on'[k] = "closed"
    BY <1>1, <1>5 DEF Files!CloseFile, StorageTypeOK, Files!calls
  <2>2. \/ live' = live /\ (wal' = wal \/ wal' = {})
        \/ Files!OnLive = {held[r]} /\ live # Files!Torn /\ live' = live \cup wal /\ wal' = {}
    BY <1>5 DEF Files!CloseFile
  <2>3. /\ live' = Files!Absent => live = Files!Absent
        /\ live' = Files!Torn => live = Files!Torn
        /\ wal = {} => wal' = {}
    <3>1. CASE live' = live /\ (wal' = wal \/ wal' = {})
      BY <3>1
    <3>2. CASE Files!OnLive = {held[r]} /\ live # Files!Torn /\ live' = live \cup wal /\ wal' = {}
      <4>1. live # Files!Absent
        BY <1>1, <3>2 DEF Files!OnLive, FilesFollowCalls
      <4>2. "absent" \notin Writers /\ "torn" \notin Writers /\ wal \subseteq Writers
        BY <1>1 DEF Files!ConstantsAssumption, StorageTypeOK
      <4>3. live \subseteq Writers
        BY <1>1, <3>2, <4>1 DEF StorageTypeOK
      <4> QED BY <3>2, <4>1, <4>2, <4>3 DEF Files!Absent, Files!Torn
    <3> QED BY <2>2, <3>1, <3>2
  <2> QED BY <1>1, <2>1, <2>3 DEF FilesFollowCalls
<1>6. ASSUME NEW r \in Restores, Files!DropAside(r) PROVE FilesFollowCalls'
  <2>1. \A k \in Files!Conns : on'[k] # "aside" /\ (on'[k] = "live" => on[k] = "live")
    BY <1>6 DEF Files!DropAside, Files!Renamed
  <2>2. /\ filePhase[r] = "closed" /\ filePhase'[r] = "clear" /\ live # Files!Torn /\ live # Files!Absent
        /\ \A d \in Files!Calls \ {r} : filePhase'[d] = filePhase[d] /\ filePhase[d] \notin Files!Exclusive
        /\ \A d, e \in Files!Calls : filePhase'[d] \in Files!Exclusive /\ filePhase'[e] \in Files!Exclusive => d = e
    BY <1>1, <1>2, <1>6, StepAlone DEF Files!DropAside
  <2>3. UNCHANGED <<live, wal>> /\ \A q \in Restores : filePhase'[q] \notin {"bare", "torn"}
    BY <1>2, <1>6, <2>2 DEF Files!DropAside, Files!Exclusive
  <2> QED BY <1>1, <1>2, <2>1, <2>2, <2>3 DEF FilesFollowCalls
<1>7. ASSUME NEW r \in Restores, Files!RenameAside(r) PROVE FilesFollowCalls'
  <2>1. \A k \in Files!Conns : on'[k] # "live"
    BY <1>7 DEF Files!RenameAside, Files!Renamed
  <2>2. /\ filePhase[r] = "clear" /\ filePhase'[r] = "renamed"
        /\ \A d \in Files!Calls \ {r} : filePhase'[d] = filePhase[d] /\ filePhase[d] \notin Files!Exclusive
        /\ \A d, e \in Files!Calls : filePhase'[d] \in Files!Exclusive /\ filePhase'[e] \in Files!Exclusive => d = e
    BY <1>1, <1>2, <1>7, StepAlone DEF Files!RenameAside
  <2>3. live' = Files!Absent /\ aside' # Files!Absent
    BY <1>1, <1>7, <2>2 DEF Files!RenameAside, FilesFollowCalls
  <2>4. \A q \in Restores : filePhase'[q] \notin {"clear", "bare", "torn"}
    BY <1>2, <2>2 DEF Files!Exclusive
  <2>5. Files!Absent # Files!Torn
    BY DEF Files!Absent, Files!Torn
  <2> QED BY <2>1, <2>2, <2>3, <2>4, <2>5 DEF FilesFollowCalls
<1>8. ASSUME NEW r \in Restores, Files!DropSidecars(r) PROVE FilesFollowCalls'
  <2>1. /\ filePhase'[r] = "bare" /\ live # Files!Torn
        /\ \A d \in Files!Calls \ {r} : filePhase'[d] = filePhase[d] /\ filePhase[d] \notin Files!Exclusive
        /\ \A d, e \in Files!Calls : filePhase'[d] \in Files!Exclusive /\ filePhase'[e] \in Files!Exclusive => d = e
    BY <1>1, <1>2, <1>8, StepAlone DEF Files!DropSidecars
  <2>2. wal' = {} /\ UNCHANGED <<live, aside, on>>
    BY <1>8 DEF Files!DropSidecars, Files!handles
  <2>3. \A q \in Restores : filePhase'[q] # "clear"
    BY <1>2, <2>1 DEF Files!Exclusive
  <2> QED BY <1>1, <2>1, <2>2, <2>3 DEF FilesFollowCalls
<1>9. ASSUME NEW r \in Restores, Files!WriteBegins(r) PROVE FilesFollowCalls'
  <2>1. PICK from \in {"bare", "closed"}, to \in {"torn", "fresh"} :
          Files!Step(r, from, to) /\ (to = "torn" => from = "bare")
    BY <1>9 DEF Files!WriteBegins
  <2>2. /\ filePhase[r] = from /\ filePhase'[r] = to
        /\ \A d \in Files!Calls \ {r} : filePhase'[d] = filePhase[d] /\ filePhase[d] \notin Files!Exclusive
        /\ \A d, e \in Files!Calls : filePhase'[d] \in Files!Exclusive /\ filePhase'[e] \in Files!Exclusive => d = e
    BY <1>1, <1>2, <2>1, StepAlone
  <2>3. live' = Files!Torn /\ Files!Torn # Files!Absent /\ UNCHANGED <<wal, aside, on>>
    BY <1>9 DEF Files!WriteBegins, Files!handles, Files!Absent, Files!Torn
  <2>4. \A q \in Restores : filePhase'[q] # "clear" /\ (filePhase'[q] \in {"bare", "torn"} => wal = {})
    BY <1>1, <1>2, <2>1, <2>2 DEF FilesFollowCalls, Files!Exclusive
  <2> QED BY <1>1, <2>1, <2>2, <2>3, <2>4 DEF FilesFollowCalls
<1>10. ASSUME NEW r \in Restores, Files!WriteEnds(r) PROVE FilesFollowCalls'
  <2>1. /\ filePhase'[r] = "reopening"
        /\ \A d \in Files!Calls \ {r} : filePhase'[d] = filePhase[d] /\ filePhase[d] \notin Files!Exclusive
    BY <1>1, <1>2, <1>10, StepAlone DEF Files!WriteEnds
  <2>2. live' \in SUBSET Writers /\ UNCHANGED <<wal, aside, on>>
    BY <1>1, <1>10 DEF Files!WriteEnds, Files!Chosen, StorageTypeOK, Files!handles
  <2>3. live' # Files!Absent /\ live' # Files!Torn
    BY <2>2 DEF Files!ConstantsAssumption, Files!Absent, Files!Torn
  <2>4. \A d \in Files!Calls : filePhase'[d] \notin Files!Exclusive
    BY <2>1 DEF Files!Exclusive
  <2> QED BY <1>1, <1>2, <2>2, <2>3, <2>4 DEF FilesFollowCalls, Files!Exclusive
<1>11. ASSUME NEW r \in Restores, Files!PutBack(r) PROVE FilesFollowCalls'
  <2>1. /\ filePhase'[r] = "raised"
        /\ \A d \in Files!Calls \ {r} : filePhase'[d] = filePhase[d] /\ filePhase[d] \notin Files!Exclusive
    BY <1>1, <1>2, <1>11, StepAlone DEF Files!PutBack
  <2>2. live' = aside /\ aside \in SUBSET Writers
    BY <1>1, <1>11 DEF Files!PutBack, StorageTypeOK
  <2>3. \A k \in Files!Conns : on'[k] # "aside"
    BY <1>11 DEF Files!PutBack
  <2>4. live' # Files!Absent /\ live' # Files!Torn
    BY <2>2 DEF Files!ConstantsAssumption, Files!Absent, Files!Torn
  <2>5. \A d \in Files!Calls : filePhase'[d] \notin Files!Exclusive
    BY <2>1 DEF Files!Exclusive
  <2> QED BY <1>1, <1>2, <2>3, <2>4, <2>5 DEF FilesFollowCalls, Files!Exclusive
<1>12. ASSUME NEW k \in Files!Conns, Files!OpenFile(k) PROVE FilesFollowCalls'
  <2>1. /\ UNCHANGED <<filePhase, aside>> /\ (wal' = wal \/ wal' = {})
        /\ live' = IF live = Files!Absent THEN {} ELSE live
        /\ on' = [on EXCEPT ![k] = "live"]
    BY <1>12 DEF Files!OpenFile, Files!calls
  <2>2. {} # Files!Absent /\ {} # Files!Torn
    BY DEF Files!Absent, Files!Torn
  <2> QED BY <1>1, <2>1, <2>2 DEF FilesFollowCalls, StorageTypeOK
<1>13. ASSUME Files!Crash PROVE FilesFollowCalls'
  <2>1. /\ live' = IF live = Files!Absent THEN {} ELSE live \cup wal
        /\ wal' = {} /\ aside' = aside /\ live # Files!Torn
        /\ \A c \in Files!Calls : filePhase'[c] \in {"idle", "done", "raised"}
        /\ \A k \in Files!Conns : on'[k] # "aside"
    BY <1>13 DEF Files!Crash
  <2>2. live' \in SUBSET Writers
    BY <1>1, <2>1 DEF StorageTypeOK
  <2>3. live' # Files!Absent /\ live' # Files!Torn
    BY <2>2 DEF Files!ConstantsAssumption, Files!Absent, Files!Torn
  <2>4. \A c \in Files!Calls : filePhase'[c] \notin Files!Exclusive
    BY <2>1 DEF Files!Exclusive
  <2> QED BY <1>1, <1>2, <2>1, <2>3, <2>4 DEF FilesFollowCalls, Files!Exclusive
<1>14. ASSUME Files!CrashTorn PROVE FilesFollowCalls'
  <2>1. /\ UNCHANGED <<live, wal, aside>> /\ live = Files!Torn
        /\ \A c \in Files!Calls : filePhase'[c] = "raised"
        /\ \A k \in Files!Conns : on'[k] \in {"unused", "closed"}
    BY <1>14 DEF Files!CrashTorn, Files!files
  <2>2. Files!Torn # Files!Absent
    BY DEF Files!Torn, Files!Absent
  <2> QED BY <1>1, <1>2, <2>1, <2>2 DEF FilesFollowCalls, Files!Exclusive
<1>15. ASSUME UNCHANGED Files!vars PROVE FilesFollowCalls'
  BY <1>1, <1>15 DEF Files!vars, Files!files, Files!handles, Files!calls, FilesFollowCalls
<1>16. ASSUME NEW r \in Restores, Files!SidecarRaises(r) PROVE FilesFollowCalls'
  <2>1. /\ filePhase'[r] = "raised" /\ live # Files!Torn
        /\ \A d \in Files!Calls \ {r} : filePhase'[d] = filePhase[d] /\ filePhase[d] \notin Files!Exclusive
    BY <1>1, <1>2, <1>16, StepAlone DEF Files!SidecarRaises, Files!Raise
  <2>2. UNCHANGED <<live, aside, on>>
    BY <1>16 DEF Files!SidecarRaises, Files!handles
  <2>3. \A d \in Files!Calls : filePhase'[d] \notin Files!Exclusive
    BY <2>1 DEF Files!Exclusive
  <2> QED BY <1>1, <1>2, <2>1, <2>2, <2>3 DEF FilesFollowCalls, Files!Exclusive
<1> QED
  BY <1>2, <1>3, <1>4, <1>5, <1>6, <1>7, <1>8, <1>9, <1>10, <1>11, <1>12, <1>13, <1>14, <1>15,
     <1>16, QuietSteps
  DEF Files!Next, Files!WriterOpens, Files!BackupOpens, Files!Reopen


\* What is committed in a file that is one.
LEMMA HoldsIsFile ==
  ASSUME Files!ConstantsAssumption
  PROVE  /\ Files!Holds(Files!Absent) = {} /\ Files!Holds(Files!Torn) = {}
         /\ \A file \in SUBSET Writers : Files!Holds(file) = file /\ file # Files!Absent /\ file # Files!Torn
BY DEF Files!ConstantsAssumption, Files!Holds, Files!Absent, Files!Torn

LEMMA SavedStep ==
  ASSUME Files!ConstantsAssumption, StorageInv, [Files!Next]_Files!vars, ~spare', ~overlap'
  PROVE  SavedIsKept'
<1>1. StorageTypeOK /\ FilesFollowCalls
  BY DEF StorageInv
<1>2. /\ Writers \subseteq Files!Calls /\ Backups \subseteq Files!Calls /\ Restores \subseteq Files!Calls
      /\ \A c \in Writers \cup Backups : c \notin Restores
  BY DEF Files!Calls, Files!ConstantsAssumption
<1>3. ~spare /\ ~overlap
  BY <1>1
  DEF StorageTypeOK, Files!Next, Files!WriterOpens, Files!BackupOpens, Files!Reopen, Files!HasDb,
     Files!Connect, Files!Connected, Files!Insert,
      Files!WriterRaises, Files!Commit, Files!VacuumRaises, Files!Vacuum, Files!WritePart,
      Files!Publish, Files!Prune, Files!Restore, Files!CloseFile,
      Files!Closed, Files!RestoreRaises, Files!DropAside, Files!RenameAside, Files!DropSidecars,
      Files!SidecarRaises, Files!WriteBegins, Files!WriteEnds, Files!PutBack, Files!OpenFile,
      Files!Crash, Files!CrashTorn, Files!vars, Files!history
<1>4. SavedIsKept
  BY <1>3 DEF StorageInv
<1>5. ASSUME UNCHANGED <<live, wal, aside, closedWith, failed>>,
             \A k \in Files!Conns : on'[k] = "live" <=> on[k] = "live",
             \A r \in Restores : filePhase'[r] = filePhase[r]
      PROVE  SavedIsKept'
  BY <1>4, <1>5 DEF SavedIsKept, Active, Files!Holds
<1>6. ASSUME NEW c \in Writers \cup Backups, NEW from, NEW to, Quiet(c, from, to),
             UNCHANGED <<closedWith, failed>>
      PROVE  SavedIsKept'
  <2>1. \A r \in Restores : filePhase'[r] = filePhase[r]
    BY <1>1, <1>2, <1>6, StepAlone DEF Quiet
  <2> QED BY <1>5, <1>6, <2>1 DEF Quiet, Files!files
<1>7. ASSUME NEW w \in Writers, Files!Commit(w) PROVE SavedIsKept'
  <2>1. /\ \A r \in Restores : filePhase'[r] = filePhase[r] /\ filePhase[r] \notin Files!Exclusive
        /\ live # Files!Torn
    BY <1>1, <1>2, <1>7, StepAlone DEF Files!Commit
  <2> DEFINE batch == {v \in pending : held[v] = held[w]}
  <2>2. batch \subseteq Writers
    BY <1>1 DEF StorageTypeOK
  <2>3. \/ wal' = wal \cup batch /\ aside' = aside /\ \E k \in Files!Conns : on[k] = "live"
        \/ wal' = wal /\ aside' = aside \cup batch /\ aside \in SUBSET Writers
        \/ wal' = wal /\ aside' = aside
    BY <1>1, <1>7, CommitWrites
  <2> HIDE DEF batch
  <2>4. Files!Holds(aside) \subseteq Files!Holds(aside') /\ wal \subseteq wal'
    BY <2>2, <2>3, HoldsIsFile
  <2>5. UNCHANGED <<live, on, closedWith, failed>>
    BY <1>7 DEF Files!Commit, Files!history
  <2>6. \A r \in Restores : filePhase'[r] \notin {"closed", "clear", "renamed", "bare", "torn", "fresh"}
    BY <2>1 DEF Files!Exclusive
  <2>7. (\A k \in Files!Conns : on'[k] # "live") => wal' = {}
    BY <1>4, <2>3, <2>5 DEF SavedIsKept
  <2> QED BY <1>4, <2>1, <2>4, <2>5, <2>6, <2>7 DEF SavedIsKept, Active
<1>8. ASSUME NEW r \in Restores, Files!Restore(r) PROVE SavedIsKept'
  <2>1. /\ filePhase'[r] = "closing" /\ failed' = "no"
        /\ \A d \in Files!Calls \ {r} : filePhase'[d] = filePhase[d] /\ filePhase[d] \notin Files!Exclusive
    BY <1>1, <1>2, <1>8, StepAlone DEF Files!Restore
  <2>2. \A q \in Restores \ {r} : ~Active(q)
    BY <1>1, <1>8 DEF Files!Restore, Active
  <2>3. UNCHANGED <<live, wal, aside, on, closedWith>>
    BY <1>8 DEF Files!Restore, Files!files, Files!handles
  <2>4. \A q \in Restores : Active(q)' => q = r
    BY <1>2, <2>1, <2>2 DEF Active
  <2>5. \A q \in Restores : filePhase'[q] \notin {"closed", "clear", "renamed", "bare", "torn", "fresh"}
    BY <1>2, <2>1 DEF Files!Exclusive
  <2> QED BY <1>4, <2>1, <2>3, <2>4, <2>5 DEF SavedIsKept, Files!Holds
<1>9. ASSUME NEW r \in Restores, Files!CloseFile(r) PROVE SavedIsKept'
  <2>1. /\ filePhase[r] = "closing" /\ UNCHANGED <<filePhase, aside, closedWith, failed>>
        /\ \A k \in Files!Conns : k # held[r] => on'[k] = on[k]
        /\ on'[held[r]] = "closed"
    <3>1. held[r] \in Files!Conns
      BY <1>1, <1>2, <1>9 DEF Files!CloseFile, StorageTypeOK
    <3> QED BY <1>1, <1>9, <3>1 DEF Files!CloseFile, StorageTypeOK, Files!calls, Files!history
  <2>2. \A q \in Restores : filePhase[q] \notin {"closed", "clear", "renamed", "bare", "torn", "fresh"}
    BY <1>4, <2>1 DEF SavedIsKept, Active
  <2>3. CASE Files!OnLive = {held[r]}
    <3>1. live # Files!Torn
      BY <1>1, <1>2, <2>1, <2>2 DEF FilesFollowCalls
    <3>2. live # Files!Absent /\ live' = live \cup wal /\ wal' = {}
      BY <1>1, <1>9, <2>3, <3>1 DEF Files!CloseFile, Files!OnLive, FilesFollowCalls
    <3>3. live \in SUBSET Writers /\ live \cup wal \in SUBSET Writers
      BY <1>1, <3>1, <3>2 DEF StorageTypeOK
    <3>4. Files!Holds(live') = Files!Holds(live) \cup wal
      BY <3>2, <3>3, HoldsIsFile
    <3> QED BY <1>4, <2>1, <2>2, <3>2, <3>4 DEF SavedIsKept, Active
  <2>4. CASE Files!OnLive # {held[r]}
    <3>1. UNCHANGED <<live, wal>>
      BY <1>9, <2>4 DEF Files!CloseFile
    <3>2. (\A k \in Files!Conns : on'[k] # "live") => \A k \in Files!Conns : on[k] # "live"
      BY <2>1, <2>4 DEF Files!OnLive
    <3> QED BY <1>4, <2>1, <2>2, <3>1, <3>2 DEF SavedIsKept, Active, Files!Holds
  <2> QED BY <2>3, <2>4
<1>10. ASSUME NEW r \in Restores, Files!Closed(r) PROVE SavedIsKept'
  <2>1. /\ filePhase[r] = "closing" /\ filePhase'[r] = "closed" /\ live # Files!Torn
        /\ \A d \in Files!Calls \ {r} : filePhase'[d] = filePhase[d] /\ filePhase[d] \notin Files!Exclusive
    BY <1>1, <1>2, <1>10, StepAlone DEF Files!Closed
  <2>2. /\ UNCHANGED <<live, wal, aside, on, failed>>
        /\ closedWith' = IF live = Files!Absent THEN {} ELSE live \cup wal
    BY <1>10 DEF Files!Closed, Files!files
  <2>3. \A k \in Files!Conns : on[k] # "live"
    BY <1>1, <1>10 DEF Files!Closed, Files!OnLive, StorageTypeOK
  <2>4. wal = {}
    BY <1>4, <2>3 DEF SavedIsKept
  <2>5. closedWith' = Files!Holds(live)
    BY <1>1, <2>1, <2>2, <2>4 DEF StorageTypeOK, Files!Holds
  <2>6. Active(r) /\ \A q \in Restores : Active(q)' => Active(q)
    BY <1>2, <2>1 DEF Active
  <2>7. \A q \in Restores \ {r} : filePhase'[q] \notin {"closed", "clear", "renamed", "bare", "torn", "fresh"}
    BY <1>2, <2>1 DEF Files!Exclusive
  <2>8. failed = "no"
    BY <1>4, <2>6 DEF SavedIsKept
  <2> QED BY <1>4, <2>1, <2>2, <2>4, <2>5, <2>6, <2>7, <2>8 DEF SavedIsKept, Files!Holds
<1> DEFINE FilePhases == {"closed", "clear", "renamed", "bare", "torn", "fresh"}
<1>11. ASSUME NEW r \in Restores, NEW from \in FilePhases, NEW to, Files!Step(r, from, to)
       PROVE  /\ filePhase[r] = from /\ filePhase'[r] = to
              /\ Active(r) /\ \A q \in Restores : Active(q)' => q = r
              /\ \A q \in Restores \ {r} : filePhase'[q] \notin FilePhases
              /\ failed = "no"
  <2>1. /\ filePhase[r] = from /\ filePhase'[r] = to
        /\ \A d \in Files!Calls \ {r} : filePhase'[d] = filePhase[d] /\ filePhase[d] \notin Files!Exclusive
    BY <1>1, <1>2, <1>11, StepAlone
  <2>2. Active(r) /\ \A q \in Restores : Active(q) => q = r
    BY <1>4, <2>1 DEF Active, SavedIsKept
  <2>3. \A q \in Restores : Active(q)' => Active(q)
    BY <1>2, <2>1, <2>2 DEF Active
  <2>4. \A q \in Restores \ {r} : filePhase'[q] \notin FilePhases
    BY <1>2, <2>1 DEF Files!Exclusive
  <2>5. failed = "no"
    BY <1>4, <2>2 DEF SavedIsKept
  <2> QED BY <2>1, <2>2, <2>3, <2>4, <2>5
<1>12. ASSUME NEW r \in Restores, Files!DropAside(r) PROVE SavedIsKept'
  <2>1. Files!Step(r, "closed", "clear") /\ UNCHANGED <<live, wal, closedWith, failed>>
    BY <1>12 DEF Files!DropAside, Files!history
  <2>2. \A k \in Files!Conns : on'[k] = "live" <=> on[k] = "live"
    BY <1>1, <1>12 DEF Files!DropAside, Files!Renamed
  <2>3. /\ filePhase[r] = "closed" /\ filePhase'[r] = "clear" /\ \A q \in Restores : Active(q)' => q = r
        /\ \A q \in Restores \ {r} : filePhase'[q] \notin FilePhases
        /\ failed = "no"
    BY <1>11, <2>1
  <2>4. closedWith \subseteq Files!Holds(live) /\ wal = {}
    BY <1>4, <2>3 DEF SavedIsKept
  <2> QED BY <2>1, <2>3, <2>4 DEF SavedIsKept, Files!Holds
<1>13. ASSUME NEW r \in Restores, Files!RenameAside(r) PROVE SavedIsKept'
  <2>1. Files!Step(r, "clear", "renamed") /\ aside' = live /\ UNCHANGED <<wal, closedWith, failed>>
    BY <1>13 DEF Files!RenameAside, Files!history
  <2>2. /\ filePhase[r] = "clear" /\ filePhase'[r] = "renamed" /\ \A q \in Restores : Active(q)' => q = r
        /\ \A q \in Restores \ {r} : filePhase'[q] \notin FilePhases
        /\ failed = "no"
    BY <1>11, <2>1
  <2>3. closedWith \subseteq Files!Holds(live) /\ wal = {}
    BY <1>4, <2>2 DEF SavedIsKept
  <2> QED BY <2>1, <2>2, <2>3 DEF SavedIsKept, Files!Holds
<1>14. ASSUME NEW r \in Restores, Files!DropSidecars(r) PROVE SavedIsKept'
  <2>1. Files!Step(r, "renamed", "bare") /\ wal' = {} /\ UNCHANGED <<live, aside, closedWith, failed>>
    BY <1>14 DEF Files!DropSidecars, Files!history
  <2>2. /\ filePhase[r] = "renamed" /\ filePhase'[r] = "bare" /\ \A q \in Restores : Active(q)' => q = r
        /\ \A q \in Restores \ {r} : filePhase'[q] \notin FilePhases
        /\ failed = "no"
    BY <1>11, <2>1
  <2>3. closedWith \subseteq Files!Holds(aside)
    BY <1>4, <2>2 DEF SavedIsKept
  <2> QED BY <2>1, <2>2, <2>3 DEF SavedIsKept, Files!Holds
<1>15. ASSUME NEW r \in Restores, Files!WriteBegins(r) PROVE SavedIsKept'
  <2>1. UNCHANGED <<wal, aside, on, closedWith, failed>> /\ live' = Files!Torn
    BY <1>15 DEF Files!WriteBegins, Files!handles, Files!history
  <2>2. CASE Files!Step(r, "bare", "torn")
    <3>1. /\ filePhase[r] = "bare" /\ filePhase'[r] = "torn" /\ \A q \in Restores : Active(q)' => q = r
          /\ \A q \in Restores \ {r} : filePhase'[q] \notin FilePhases
          /\ failed = "no"
      BY <1>11, <2>2
    <3>2. closedWith \subseteq Files!Holds(aside) /\ wal = {}
      BY <1>1, <1>4, <3>1 DEF SavedIsKept, FilesFollowCalls
    <3> QED BY <2>1, <3>1, <3>2 DEF SavedIsKept, Files!Holds
  <2>3. CASE Files!Step(r, "closed", "fresh") /\ live = Files!Absent
    <3>1. /\ filePhase[r] = "closed" /\ filePhase'[r] = "fresh" /\ \A q \in Restores : Active(q)' => q = r
          /\ \A q \in Restores \ {r} : filePhase'[q] \notin FilePhases
          /\ failed = "no"
      BY <1>11, <2>3
    <3>2. closedWith = {} /\ wal = {}
      BY <1>4, <2>3, <3>1, HoldsIsFile DEF SavedIsKept
    <3> QED BY <2>1, <3>1, <3>2 DEF SavedIsKept
  <2> QED BY <1>15, <2>2, <2>3 DEF Files!WriteBegins
<1>16. ASSUME NEW r \in Restores, Files!WriteEnds(r) PROVE SavedIsKept'
  <2>1. PICK from \in {"torn", "fresh"} : Files!Step(r, from, "reopening")
    BY <1>16 DEF Files!WriteEnds
  <2>2. UNCHANGED <<wal, aside, on, closedWith, failed>> /\ live' \in SUBSET Writers
    BY <1>1, <1>16 DEF Files!WriteEnds, Files!Chosen, Files!handles, Files!history, StorageTypeOK
  <2>3. /\ filePhase[r] = from /\ filePhase'[r] = "reopening" /\ \A q \in Restores : Active(q)' => q = r
        /\ \A q \in Restores \ {r} : filePhase'[q] \notin FilePhases
        /\ failed = "no"
    BY <1>11, <2>1
  <2>4. closedWith \subseteq Files!Holds(aside)
    BY <1>4, <2>1, <2>3 DEF SavedIsKept
  <2>5. live' # Files!Torn
    BY <2>2, HoldsIsFile
  <2> QED BY <1>4, <2>2, <2>3, <2>4, <2>5 DEF SavedIsKept
<1>17. ASSUME NEW r \in Restores, Files!PutBack(r) PROVE SavedIsKept'
  <2>1. PICK from \in {"bare", "torn"} : Files!Step(r, from, "raised")
    BY <1>17 DEF Files!PutBack
  <2>2. live' = aside /\ aside \in SUBSET Writers /\ UNCHANGED <<wal, closedWith>>
    BY <1>1, <1>17 DEF Files!PutBack, StorageTypeOK
  <2>3. /\ filePhase[r] = from /\ filePhase'[r] = "raised" /\ \A q \in Restores : Active(q)' => q = r
        /\ \A q \in Restores \ {r} : filePhase'[q] \notin FilePhases
    BY <1>11, <2>1
  <2>4. closedWith \subseteq Files!Holds(aside) /\ wal = {}
    BY <1>1, <1>4, <2>1, <2>3 DEF SavedIsKept, FilesFollowCalls
  <2>5. \A q \in Restores : ~Active(q)'
    BY <2>3 DEF Active
  <2> QED BY <2>2, <2>3, <2>4, <2>5 DEF SavedIsKept, Files!Holds
<1>18. ASSUME NEW r \in Restores, NEW from \in {"reopening", "connecting"},
              NEW to \in {"connecting", "done"}, Quiet(r, from, to), UNCHANGED <<closedWith, failed>>
       PROVE  SavedIsKept'
  <2>1. /\ filePhase[r] = from /\ filePhase'[r] = to
        /\ \A d \in Files!Calls \ {r} : filePhase'[d] = filePhase[d]
    BY <1>1, <1>2, <1>18, StepAlone DEF Quiet
  <2>2. UNCHANGED <<live, wal, aside>> /\ \A k \in Files!Conns : on'[k] = "live" <=> on[k] = "live"
    BY <1>18 DEF Quiet, Files!files
  <2>3. \A q \in Restores : Active(q)' => Active(q)
    BY <1>2, <2>1 DEF Active
  <2>4. \A q \in Restores : filePhase'[q] \in FilePhases => filePhase'[q] = filePhase[q]
    BY <1>2, <2>1
  <2> QED BY <1>4, <1>18, <2>1, <2>2, <2>3, <2>4 DEF SavedIsKept, Files!Holds
<1>19. ASSUME NEW k \in Files!Conns, Files!OpenFile(k) PROVE SavedIsKept'
  <2>1. /\ UNCHANGED <<filePhase, aside, closedWith, failed>>
        /\ \/ live # Files!Absent /\ UNCHANGED <<live, wal>>
           \/ live = Files!Absent /\ live' = {} /\ wal' = {}
        /\ on' = [on EXCEPT ![k] = "live"]
    BY <1>19 DEF Files!OpenFile, Files!calls, Files!history
  <2>2. live = Files!Absent => wal = {}
    BY <1>1, <1>4 DEF FilesFollowCalls, SavedIsKept
  <2>3. Files!Holds(live') = Files!Holds(live) /\ wal' = wal /\ (live' = Files!Torn => live = Files!Torn)
    BY <2>1, <2>2, HoldsIsFile
  <2>4. on'[k] = "live"
    BY <1>1, <2>1 DEF StorageTypeOK
  <2> QED BY <1>4, <2>1, <2>3, <2>4 DEF SavedIsKept, Active
<1>20. ASSUME Files!Crash PROVE SavedIsKept'
  <2>1. /\ live' = IF live = Files!Absent THEN {} ELSE live \cup wal
        /\ wal' = {} /\ live # Files!Torn /\ UNCHANGED <<aside, closedWith, failed>>
        /\ \A c \in Files!Calls : filePhase'[c] \in {"idle", "done", "raised"}
    BY <1>20 DEF Files!Crash, Files!history
  <2>2. \A q \in Restores : ~Active(q)' /\ filePhase'[q] \notin FilePhases
    BY <1>2, <2>1 DEF Active
  <2>3. Files!Holds(live') = Files!Holds(live) \cup wal /\ live' # Files!Torn
    <3>1. CASE live = Files!Absent
      BY <1>1, <1>4, <2>1, <3>1, HoldsIsFile DEF FilesFollowCalls, SavedIsKept
    <3>2. CASE live # Files!Absent
      <4>1. live \in SUBSET Writers /\ live \cup wal \in SUBSET Writers
        BY <1>1, <2>1, <3>2 DEF StorageTypeOK
      <4> QED BY <2>1, <3>2, <4>1, HoldsIsFile
    <3> QED BY <3>1, <3>2
  <2> QED BY <1>4, <2>1, <2>2, <2>3 DEF SavedIsKept
<1>21. ASSUME Files!CrashTorn PROVE SavedIsKept'
  <2>1. /\ UNCHANGED <<live, wal, aside, closedWith, failed>> /\ live = Files!Torn
        /\ \A c \in Files!Calls : filePhase'[c] = "raised"
    BY <1>21 DEF Files!CrashTorn, Files!files, Files!history
  <2>2. \A q \in Restores : ~Active(q)' /\ filePhase'[q] \notin FilePhases
    BY <1>2, <2>1 DEF Active
  <2> QED BY <1>4, <2>1, <2>2 DEF SavedIsKept, Files!Holds
<1>22. ASSUME UNCHANGED Files!vars PROVE SavedIsKept'
  BY <1>5, <1>22 DEF Files!vars, Files!files, Files!handles, Files!calls, Files!history
<1>23. ASSUME NEW w \in Writers, Files!WriterOpens(w) \/ Files!Connected(w, "open") \/ Files!Insert(w) \/ Files!WriterRaises(w)
       PROVE  SavedIsKept'
  <2>1. \E from, to : Quiet(w, from, to)
    BY <1>2, <1>23, QuietSteps DEF Files!WriterOpens
  <2>2. UNCHANGED <<closedWith, failed>>
    BY <1>23 DEF Files!WriterOpens, Files!HasDb, Files!Connect, Files!Connected, Files!Insert,
           Files!WriterRaises, Files!history
  <2> QED BY <1>6, <2>1, <2>2
<1>24. ASSUME NEW b \in Backups,
              \/ Files!BackupOpens(b) \/ Files!Connected(b, "vacuum") \/ Files!VacuumRaises(b) \/ Files!Vacuum(b)
              \/ Files!WritePart(b) \/ Files!Publish(b) \/ Files!Prune(b)
       PROVE  SavedIsKept'
  <2>1. \E from, to : Quiet(b, from, to)
    BY <1>2, <1>24, QuietSteps DEF Files!BackupOpens
  <2>2. UNCHANGED <<closedWith, failed>>
    BY <1>24
    DEF Files!BackupOpens, Files!HasDb, Files!Connect, Files!Connected, Files!VacuumRaises,
       Files!Vacuum, Files!WritePart, Files!Publish, Files!Prune,
        Files!history
  <2> QED BY <1>6, <2>1, <2>2
<1>25. ASSUME NEW r \in Restores, Files!Reopen(r) \/ Files!Connected(r, "done") PROVE SavedIsKept'
  <2>1. \E from \in {"reopening", "connecting"}, to \in {"connecting", "done"} : Quiet(r, from, to)
    BY <1>2, <1>25, QuietSteps DEF Files!Reopen
  <2>2. UNCHANGED <<closedWith, failed>>
    BY <1>25 DEF Files!Reopen, Files!HasDb, Files!Connect, Files!Connected, Files!history
  <2> QED BY <1>18, <2>1, <2>2
<1>26. ASSUME NEW r \in Restores, Files!RestoreRaises(r) PROVE SavedIsKept'
  <2>1. PICK from \in {"closed", "clear"} : Files!Step(r, from, "raised")
    BY <1>26 DEF Files!RestoreRaises, Files!Raise
  <2>2. UNCHANGED <<live, wal, aside, on, closedWith>>
    BY <1>26 DEF Files!RestoreRaises, Files!files, Files!handles
  <2>3. /\ filePhase[r] = from /\ filePhase'[r] = "raised" /\ \A q \in Restores : Active(q)' => q = r
        /\ \A q \in Restores \ {r} : filePhase'[q] \notin FilePhases
    BY <1>11, <2>1
  <2>4. closedWith \subseteq Files!Holds(live) /\ wal = {}
    BY <1>4, <2>1, <2>3 DEF SavedIsKept
  <2>5. \A q \in Restores : ~Active(q)'
    BY <2>3 DEF Active
  <2> QED BY <2>2, <2>3, <2>4, <2>5 DEF SavedIsKept, Files!Holds
<1>27. ASSUME NEW r \in Restores, Files!SidecarRaises(r) PROVE SavedIsKept'
  <2>1. Files!Step(r, "renamed", "raised")
    BY <1>27 DEF Files!SidecarRaises, Files!Raise
  <2>2. UNCHANGED <<live, aside, on, closedWith>> /\ wal' \in {wal, {}} /\ failed' = "stray"
    BY <1>27 DEF Files!SidecarRaises, Files!handles
  <2>3. /\ filePhase[r] = "renamed" /\ filePhase'[r] = "raised" /\ \A q \in Restores : Active(q)' => q = r
        /\ \A q \in Restores \ {r} : filePhase'[q] \notin FilePhases
    BY <1>11, <2>1
  <2>4. closedWith \subseteq Files!Holds(aside) /\ wal = {}
    BY <1>4, <2>3 DEF SavedIsKept
  <2>5. \A q \in Restores : ~Active(q)'
    BY <2>3 DEF Active
  <2> QED BY <2>2, <2>3, <2>4, <2>5 DEF SavedIsKept, Files!Holds
<1> QED
  BY <1>7, <1>8, <1>9, <1>10, <1>12, <1>13, <1>14, <1>15, <1>16, <1>17, <1>19, <1>20, <1>21,
     <1>22, <1>23, <1>24, <1>25, <1>26, <1>27
  DEF Files!Next

LEMMA StorageInvIsInductive ==
  ASSUME Files!ConstantsAssumption, StorageInv, [Files!Next]_Files!vars PROVE StorageInv'
BY StorageTypeStep, LatestStep, FilesStep, SavedStep DEF StorageInv

LEMMA StorageImplied ==
  ASSUME Files!ConstantsAssumption, StorageInv PROVE Files!RestoreIsReversible /\ Files!ListedIsWhole
<1>1. Files!RestoreIsReversible
  BY DEF StorageInv, SavedIsKept, Files!RestoreIsReversible
<1>2. Files!ListedIsWhole
  BY HoldsIsFile DEF StorageInv, StorageTypeOK, LatestListed, Files!ListedIsWhole
<1> QED BY <1>1, <1>2

\* restore_backup: what was committed when a restore closed the database stays in the file
\* that it put aside or in the database, whatever fails or dies between its steps.
THEOREM RestoresAreReversible == Files!Spec => []RestoreIsReversible
<1>1. Files!Init => StorageInv
  BY StorageInit, PartsAssumption
<1>2. StorageInv /\ [Files!Next]_Files!vars => StorageInv'
  BY StorageInvIsInductive, PartsAssumption
<1>3. StorageInv => RestoreIsReversible
  BY StorageImplied, PartsAssumption DEF RestoreIsReversible
<1> QED BY <1>1, <1>2, <1>3, PTL DEF Files!Spec

\* create_backup and _prune: what is listed is whole, and something is.
THEOREM ListedAreWhole == Files!Spec => []ListedIsWhole
<1>1. Files!Init => StorageInv
  BY StorageInit, PartsAssumption
<1>2. StorageInv /\ [Files!Next]_Files!vars => StorageInv'
  BY StorageInvIsInductive, PartsAssumption
<1>3. StorageInv => ListedIsWhole
  BY StorageImplied, PartsAssumption DEF ListedIsWhole
<1> QED BY <1>1, <1>2, <1>3, PTL DEF Files!Spec

-----------------------------------------------------------------------------
(* The build terminal: ids that were minted, and processes that end.       *)

TerminalTypeOK ==
  /\ tab \in [Tabs -> Terminal!TabPhases] /\ agent \in [Tabs -> Terminal!AgentStates]
  /\ DOMAIN id = Tabs /\ DOMAIN first = Tabs /\ DOMAIN began = Tabs
  /\ minted \subseteq Tabs

\* Every id that there is was minted, and a tab that has not looked has none.
IdsAreMinted ==
  /\ externalId \in minted \cup {NoId}
  /\ conversations \subseteq minted
  /\ \A t \in Tabs :
       /\ id[t] \in minted \cup {NoId}
       /\ began[t] \subseteq minted
       /\ began[t] # {} \/ agent[t] # "none" => id[t] # NoId
       /\ tab[t] \in {"identified", "ready", "bridging", "hungup"} => id[t] # NoId
       /\ tab[t] = "identified" => t \in minted

\* A process runs for a handler that will see it out, and is orphaned with its server.
ProcessFollowsTab ==
  \A t \in Tabs :
    /\ agent[t] = "running" => tab[t] \in {"bridging", "hungup"}
    /\ agent[t] = "orphan" => tab[t] = "lost"
    /\ t \in ptys => tab[t] = "bridging" \/ t \in spawnFailed

TerminalInv == TerminalTypeOK /\ IdsAreMinted /\ ProcessFollowsTab

LEMMA TerminalInit == ASSUME Terminal!Init PROVE TerminalInv
BY DEF Terminal!Init, TerminalInv, TerminalTypeOK, Terminal!TabPhases, Terminal!AgentStates,
       IdsAreMinted, ProcessFollowsTab

LEMMA TerminalInvIsInductive ==
  ASSUME Terminal!ConstantsAssumption, TerminalInv, [Terminal!Next]_Terminal!vars PROVE TerminalInv'
<1> USE DEF TerminalInv, TerminalTypeOK, Terminal!TabPhases, Terminal!AgentStates,
    Terminal!handlers, Terminal!outside, Terminal!history
<1>1. ASSUME NEW t \in Tabs, Terminal!Accept(t) \/ Terminal!StartFails(t) \/ Terminal!SendFails(t) PROVE TerminalInv'
  <2>1. TerminalTypeOK'
    BY <1>1 DEF Terminal!Accept, Terminal!StartFails, Terminal!SendFails, Terminal!Move
  <2>2. IdsAreMinted'
    BY <1>1
    DEF Terminal!Accept, Terminal!StartFails, Terminal!SendFails, Terminal!Move, IdsAreMinted
  <2>3. ProcessFollowsTab'
    BY <1>1 DEF Terminal!Accept, Terminal!StartFails, Terminal!SendFails, Terminal!Move,
           ProcessFollowsTab
  <2> QED BY <2>1, <2>2, <2>3
<1>2. ASSUME NEW t \in Tabs, Terminal!Look(t) PROVE TerminalInv'
  <2>1. TerminalTypeOK'
    BY <1>2 DEF Terminal!Look, Terminal!Move, Terminal!Identified
  <2>2. ProcessFollowsTab'
    BY <1>2 DEF Terminal!Look, Terminal!Move, ProcessFollowsTab
  <2>3. CASE externalId = NoId
    <3>1. /\ id' = [id EXCEPT ![t] = t] /\ minted' = minted \cup {t} /\ t # NoId
          /\ began' = [began EXCEPT ![t] = conversations]
          /\ UNCHANGED <<externalId, conversations, agent>>
      BY <1>2, <2>3 DEF Terminal!Look, Terminal!Identified, Terminal!ConstantsAssumption
    <3>2. tab' = [tab EXCEPT ![t] = "identified"]
      BY <1>2, <2>3 DEF Terminal!Look, Terminal!Move
    <3>3. IdsAreMinted'
      BY <3>1, <3>2, <2>1 DEF IdsAreMinted
    <3> QED BY <2>1, <2>2, <3>3
  <2>4. CASE externalId # NoId
    <3>1. /\ id' = [id EXCEPT ![t] = externalId] /\ minted' = minted
          /\ began' = [began EXCEPT ![t] = conversations]
          /\ UNCHANGED <<externalId, conversations, agent>>
      BY <1>2, <2>4 DEF Terminal!Look, Terminal!Identified
    <3>2. tab' = [tab EXCEPT ![t] = "ready"]
      BY <1>2, <2>4 DEF Terminal!Look, Terminal!Move
    <3>3. IdsAreMinted'
      BY <3>1, <3>2, <2>1, <2>4 DEF IdsAreMinted
    <3> QED BY <2>1, <2>2, <3>3
  <2> QED BY <2>3, <2>4
<1>3. ASSUME NEW t \in Tabs, Terminal!Mint(t) PROVE TerminalInv'
  BY <1>3 DEF Terminal!Mint, Terminal!Move, IdsAreMinted, ProcessFollowsTab
<1>4. ASSUME NEW t \in Tabs, Terminal!Spawn(t) \/ Terminal!SpawnFails(t) PROVE TerminalInv'
  <2>1. TerminalTypeOK'
    BY <1>4 DEF Terminal!Spawn, Terminal!SpawnFails, Terminal!Move
  <2>2. IdsAreMinted'
    BY <1>4 DEF Terminal!Spawn, Terminal!SpawnFails, Terminal!Move, IdsAreMinted
  <2>3. ProcessFollowsTab'
    BY <1>4 DEF Terminal!Spawn, Terminal!SpawnFails, Terminal!Move, ProcessFollowsTab
  <2> QED BY <2>1, <2>2, <2>3
<1>5. ASSUME NEW t \in Tabs, Terminal!Converse(t) PROVE TerminalInv'
  BY <1>5 DEF Terminal!Converse, IdsAreMinted, ProcessFollowsTab
<1>6. ASSUME NEW t \in Tabs, Terminal!AgentExits(t) PROVE TerminalInv'
  BY <1>6 DEF Terminal!AgentExits, Terminal!Exits, IdsAreMinted, ProcessFollowsTab
<1>7. ASSUME NEW t \in Tabs, Terminal!HangUp(t) \/ Terminal!Reaped(t) PROVE TerminalInv'
  <2>1. TerminalTypeOK'
    BY <1>7 DEF Terminal!HangUp, Terminal!Reaped, Terminal!Move
  <2>2. IdsAreMinted'
    BY <1>7 DEF Terminal!HangUp, Terminal!Reaped, Terminal!Move, IdsAreMinted
  <2>3. ProcessFollowsTab'
    BY <1>7 DEF Terminal!HangUp, Terminal!Reaped, Terminal!Move, ProcessFollowsTab
  <2> QED BY <2>1, <2>2, <2>3
<1>8. ASSUME NEW t \in Tabs, Terminal!Kill(t) \/ Terminal!KilledReaped(t) PROVE TerminalInv'
  <2>1. TerminalTypeOK'
    BY <1>8 DEF Terminal!Kill, Terminal!Exits, Terminal!KilledReaped, Terminal!Move
  <2>2. IdsAreMinted'
    BY <1>8 DEF Terminal!Kill, Terminal!Exits, Terminal!KilledReaped, Terminal!Move, IdsAreMinted
  <2>3. ProcessFollowsTab'
    BY <1>8
    DEF Terminal!Kill, Terminal!Exits, Terminal!KilledReaped, Terminal!Move, ProcessFollowsTab
  <2> QED BY <2>1, <2>2, <2>3
<1>9. ASSUME Terminal!Archive \/ UNCHANGED Terminal!vars PROVE TerminalInv'
  BY <1>9 DEF Terminal!Archive, Terminal!vars, IdsAreMinted, ProcessFollowsTab
<1>10. ASSUME Terminal!Crash PROVE TerminalInv'
  BY <1>10 DEF Terminal!Crash, IdsAreMinted, ProcessFollowsTab
<1> QED
  BY <1>1, <1>2, <1>3, <1>4, <1>5, <1>6, <1>7, <1>8, <1>9, <1>10 DEF Terminal!Next

LEMMA ResumedImplied == ASSUME TerminalInv PROVE Terminal!ConversationIsResumed /\ Terminal!TabCleansUp
<1>1. Terminal!ConversationIsResumed
  <2> SUFFICES ASSUME NEW t \in Tabs, began[t] # {}, id[t] \notin began[t]
               PROVE  \E u, v \in minted : u # v
    BY DEF Terminal!ConversationIsResumed
  <2>1. began[t] \subseteq minted /\ id[t] \in minted
    BY DEF TerminalInv, IdsAreMinted
  <2>2. PICK u : u \in began[t]
    OBVIOUS
  <2> QED BY <2>1, <2>2
<1>2. Terminal!TabCleansUp
  BY DEF TerminalInv, ProcessFollowsTab, Terminal!TabCleansUp
<1> QED BY <1>1, <1>2

\* _ensure_external_id: a tab that reads the row when there is a conversation goes on with
\* one, unless two tabs have found the row without an id.
THEOREM ConversationsAreResumed == Terminal!Spec => []ConversationIsResumed
<1>1. Terminal!Init => TerminalInv
  BY TerminalInit, PartsAssumption
<1>2. TerminalInv /\ [Terminal!Next]_Terminal!vars => TerminalInv'
  BY TerminalInvIsInductive, PartsAssumption
<1>3. TerminalInv => ConversationIsResumed
  BY ResumedImplied DEF ConversationIsResumed
<1> QED BY <1>1, <1>2, <1>3, PTL DEF Terminal!Spec

\* run_terminal_session: a tab that is over leaves no claude process, nor a pty, except
\* that of a process which could not be started.
THEOREM TabsCleanUp == Terminal!Spec => []TabCleansUp
<1>1. Terminal!Init => TerminalInv
  BY TerminalInit, PartsAssumption
<1>2. TerminalInv /\ [Terminal!Next]_Terminal!vars => TerminalInv'
  BY TerminalInvIsInductive, PartsAssumption
<1>3. TerminalInv => TabCleansUp
  BY ResumedImplied DEF TabCleansUp
<1> QED BY <1>1, <1>2, <1>3, PTL DEF Terminal!Spec

-----------------------------------------------------------------------------
(* The tool API: one request at a time, and its answer.                    *)

RpcTypeOK ==
  /\ callPhase \in [RpcCalls -> {"idle", "reading", "answered", "raised"}]
  /\ method \in [RpcCalls -> Rpc!Methods] /\ DOMAIN answer = RpcCalls
  /\ lock \in [Procs -> RpcCalls \cup {Rpc!Nobody}]
  /\ serving \in [Procs -> [call : RpcCalls \cup {Rpc!Nobody}, stage : {"none", "read", "executed"}]]
  /\ DOMAIN sent = Procs /\ DOMAIN replies = Procs /\ DOMAIN socket = Procs

\* The calls that a process has made.
Asked(p) == {c \in RpcCalls : Owner[c] = p /\ callPhase[c] # "idle"}

AsksItsOwn ==
  \A p \in Procs :
    /\ sent[p] \in Seq(Asked(p))
    /\ serving[p].stage # "none" => serving[p].call \in Asked(p)

\* The server closes a connection when it is at no request.
BrokenIsIdle ==
  \A p \in Procs : socket[p] = "broken" => sent[p] = <<>> /\ serving[p].stage = "none"

\* The lock is of the call that waits, whose request, or answer, is in one place at most.
OneAtATime(p) ==
  /\ \A c \in RpcCalls : Owner[c] = p /\ callPhase[c] = "reading" => lock[p] = c
  /\ lock[p] # Rpc!Nobody => Owner[lock[p]] = p /\ callPhase[lock[p]] = "reading"
  /\ sent[p] # <<>> =>
       /\ lock[p] # Rpc!Nobody /\ Head(sent[p]) = lock[p] /\ Tail(sent[p]) = <<>>
       /\ serving[p].stage = "none" /\ replies[p] = <<>>
  /\ serving[p].stage # "none" =>
       lock[p] # Rpc!Nobody /\ serving[p].call = lock[p] /\ replies[p] = <<>>
  /\ replies[p] # <<>> =>
       lock[p] # Rpc!Nobody /\ Head(replies[p]).to = lock[p] /\ Tail(replies[p]) = <<>>

Settled(c) == stored = c /\ written = c

\* The answer is on its way to the call.
Replied(c) == lock[Owner[c]] = c /\ replies[Owner[c]] # <<>>

\* What the answer to a call says is so.
AnswerOK(c) ==
  /\ callPhase[c] = "answered" => answer[c].to = c
  /\ method[c] = "state_set" /\ c \notin replaced =>
       /\ callPhase[c] = "answered" \/ Replied(c) => Settled(c)
       /\ serving[Owner[c]].stage = "executed" /\ serving[Owner[c]].call = c => written = c

RpcInv ==
  /\ RpcTypeOK
  /\ AsksItsOwn
  /\ BrokenIsIdle
  /\ \A p \in Procs : p \notin interrupted => OneAtATime(p)
  /\ \A c \in RpcCalls : Owner[c] \notin interrupted => AnswerOK(c)

LEMMA RpcInit == ASSUME Rpc!ConstantsAssumption, Rpc!Init PROVE RpcInv
<1> USE DEF Rpc!Init, Rpc!ConstantsAssumption, Rpc!NotServing, Rpc!NoAnswer
<1>1. RpcTypeOK
  BY DEF RpcTypeOK, Rpc!Methods
<1>2. AsksItsOwn
  BY EmptySeq DEF AsksItsOwn
<1>3. BrokenIsIdle /\ \A p \in Procs : OneAtATime(p)
  BY DEF OneAtATime, BrokenIsIdle
<1>4. \A c \in RpcCalls : AnswerOK(c)
  BY DEF AnswerOK, Replied
<1> QED BY <1>1, <1>2, <1>3, <1>4 DEF RpcInv

\* The calls that a process has made stay made.
LEMMA AskedGrows ==
  ASSUME \A c \in RpcCalls : callPhase[c] # "idle" => callPhase'[c] # "idle", NEW p \in Procs
  PROVE  /\ Asked(p) \subseteq Asked(p)'
         /\ \A s : s \in Seq(Asked(p)) => s \in Seq(Asked(p)')
<1>1. Asked(p) \subseteq Asked(p)'
  BY DEF Asked
<1> QED BY <1>1, SeqMonotonic

-----------------------------------------------------------------------------

LEMMA RpcTypeStep ==
  ASSUME Rpc!ConstantsAssumption, RpcInv, [Rpc!Next]_Rpc!vars
  PROVE  RpcTypeOK' /\ AsksItsOwn'
<1> USE
DEF RpcTypeOK, RpcInv, Rpc!ConstantsAssumption, Rpc!server, Rpc!wire, Rpc!client, Rpc!history
<1>1. ASSUME NEW c \in RpcCalls, Rpc!Request(c) PROVE RpcTypeOK' /\ AsksItsOwn'
  <2> DEFINE p == Owner[c]
  <2>1. RpcTypeOK'
    BY <1>1 DEF Rpc!Request, Rpc!Step
  <2>2. \A q \in Procs : Asked(q) \subseteq Asked(q)' /\ Seq(Asked(q)) \subseteq Seq(Asked(q)')
    BY <1>1, AskedGrows DEF Rpc!Request, Rpc!Step
  <2>3. c \in Asked(p)' /\ p \in Procs
    BY <1>1 DEF Rpc!Request, Rpc!Step, Asked
  <2>4. sent[p] \in Seq(Asked(p)')
    BY <2>2, <2>3 DEF AsksItsOwn
  <2>5. Append(sent[p], c) \in Seq(Asked(p)')
    BY <2>3, <2>4, AppendProperties
  <2>6. \A q \in Procs : sent'[q] = IF q = p THEN Append(sent[p], c) ELSE sent[q]
    BY <1>1 DEF Rpc!Request
  <2>7. serving' = serving
    BY <1>1 DEF Rpc!Request
  <2>8. AsksItsOwn'
    <3> HIDE DEF p
    <3> QED BY <2>2, <2>5, <2>6, <2>7 DEF AsksItsOwn
  <2> QED BY <2>1, <2>8
<1>2. ASSUME NEW c \in RpcCalls, Rpc!RequestRaises(c) \/ Rpc!Read(c) \/ Rpc!ReadRaises(c) \/ Rpc!Interrupted(c)
      PROVE  RpcTypeOK' /\ AsksItsOwn'
  <2>1. RpcTypeOK'
    BY <1>2
    DEF Rpc!RequestRaises, Rpc!Read, Rpc!ReadRaises, Rpc!Interrupted, Rpc!Release, Rpc!Step
  <2>2. UNCHANGED <<sent, serving>> /\ \A d \in RpcCalls : callPhase[d] # "idle" => callPhase'[d] # "idle"
    BY <1>2 DEF Rpc!RequestRaises, Rpc!Read, Rpc!ReadRaises, Rpc!Interrupted, Rpc!Step
  <2>3. \A q \in Procs : Asked(q) \subseteq Asked(q)' /\ Seq(Asked(q)) \subseteq Seq(Asked(q)')
    BY <2>2, AskedGrows
  <2> QED BY <2>1, <2>2, <2>3 DEF AsksItsOwn
<1>3. ASSUME NEW p \in Procs, Rpc!ReadLine(p) PROVE RpcTypeOK' /\ AsksItsOwn'
  <2>1. sent[p] \in Seq(Asked(p)) /\ sent[p] # <<>>
    BY <1>3 DEF Rpc!ReadLine, AsksItsOwn
  <2>2. Head(sent[p]) \in Asked(p) /\ Tail(sent[p]) \in Seq(Asked(p))
    BY <2>1, HeadTailProperties
  <2>3. /\ serving' = [serving EXCEPT ![p] = [call |-> Head(sent[p]), stage |-> "read"]]
        /\ sent' = [sent EXCEPT ![p] = Tail(@)]
        /\ UNCHANGED <<callPhase, method, answer, lock, replies, socket>>
    BY <1>3 DEF Rpc!ReadLine
  <2>4. \A q \in Procs : Asked(q)' = Asked(q)
    BY <2>3 DEF Asked
  <2>5. Head(sent[p]) \in RpcCalls
    BY <2>2 DEF Asked
  <2>6. RpcTypeOK'
    BY <2>3, <2>5
  <2>7. AsksItsOwn'
    BY <2>2, <2>3, <2>4 DEF AsksItsOwn
  <2> QED BY <2>6, <2>7
<1>4. ASSUME NEW p \in Procs,
             \/ Rpc!LoopDies(p) \/ Rpc!Execute(p) \/ Rpc!Commit(p) \/ Rpc!StateGet(p) \/ Rpc!Other(p)
             \/ Rpc!SendRaises(p) \/ Rpc!ProcessEnds(p)
      PROVE  RpcTypeOK' /\ AsksItsOwn'
  <2>1. /\ UNCHANGED <<callPhase, method, answer, lock>>
        /\ DOMAIN sent' = Procs /\ DOMAIN replies' = Procs /\ DOMAIN socket' = Procs
        /\ sent' = sent \/ sent' = [sent EXCEPT ![p] = <<>>]
    BY <1>4 DEF Rpc!LoopDies, Rpc!Execute, Rpc!Commit, Rpc!StateGet, Rpc!Other, Rpc!Send,
           Rpc!SendRaises, Rpc!ProcessEnds
  <2>2. /\ DOMAIN serving' = Procs
        /\ \A q \in Procs :
             \/ serving'[q] = serving[q]
             \/ serving'[q] = Rpc!NotServing
             \/ /\ serving[q].stage # "none"
                /\ serving'[q] = [call |-> serving[q].call, stage |-> "executed"]
    <3>1. \/ serving' = serving
          \/ serving' = [serving EXCEPT ![p] = Rpc!NotServing]
          \/ serving[p].stage = "read" /\ serving' = [serving EXCEPT ![p].stage = "executed"]
      BY <1>4 DEF Rpc!LoopDies, Rpc!Execute, Rpc!At, Rpc!Commit, Rpc!StateGet, Rpc!Other,
             Rpc!Send, Rpc!SendRaises, Rpc!ProcessEnds
    <3>2. \A q \in Procs :
            serving[q] \in [call : RpcCalls \cup {Rpc!Nobody}, stage : {"none", "read", "executed"}]
      OBVIOUS
    <3> QED BY <3>1, <3>2
  <2>3. \A q \in Procs : Asked(q)' = Asked(q)
    BY <2>1 DEF Asked
  <2>4. RpcTypeOK'
    <3>1. \A q \in Procs : serving'[q] \in [call : RpcCalls \cup {Rpc!Nobody},
                                           stage : {"none", "read", "executed"}]
      BY <2>2 DEF Rpc!NotServing
    <3>2. serving' = [q \in Procs |-> serving'[q]]
      <4>1. \/ serving' = serving
            \/ \E v : serving' = [serving EXCEPT ![p] = v]
        BY <1>4 DEF Rpc!LoopDies, Rpc!Execute, Rpc!Commit, Rpc!StateGet, Rpc!Other, Rpc!Send,
               Rpc!SendRaises, Rpc!ProcessEnds
      <4> QED BY <4>1
    <3>3. serving' \in [Procs -> [call : RpcCalls \cup {Rpc!Nobody}, stage : {"none", "read", "executed"}]]
      BY <3>1, <3>2
    <3> QED BY <2>1, <3>3
  <2>5. ASSUME NEW q \in Procs
        PROVE  /\ sent'[q] \in Seq(Asked(q)')
               /\ serving'[q].stage # "none" => serving'[q].call \in Asked(q)'
    <3>1. sent'[q] \in Seq(Asked(q)')
      <4>1. sent'[q] = sent[q] \/ sent'[q] = <<>>
        BY <2>1
      <4>2. sent[q] \in Seq(Asked(q)') /\ <<>> \in Seq(Asked(q)')
        BY <2>3, EmptySeq DEF AsksItsOwn
      <4> QED BY <4>1, <4>2
    <3>2. serving'[q].stage # "none" => serving'[q].call \in Asked(q)'
      BY <2>2, <2>3 DEF AsksItsOwn, Rpc!NotServing
    <3> QED BY <3>1, <3>2
  <2> QED BY <2>4, <2>5 DEF AsksItsOwn
<1>5. ASSUME Rpc!Crash PROVE RpcTypeOK' /\ AsksItsOwn'
  BY <1>5, EmptySeq DEF Rpc!Crash, Rpc!NotServing, AsksItsOwn
<1>6. ASSUME UNCHANGED Rpc!vars PROVE RpcTypeOK' /\ AsksItsOwn'
  <2>1. RpcTypeOK'
    BY <1>6 DEF Rpc!vars
  <2>2. \A p \in Procs : Asked(p)' = Asked(p)
    BY <1>6 DEF Rpc!vars, Asked
  <2> QED BY <1>6, <2>1, <2>2 DEF Rpc!vars, AsksItsOwn
<1> QED BY <1>1, <1>2, <1>3, <1>4, <1>5, <1>6 DEF Rpc!Next


LEMMA BrokenStep ==
  ASSUME Rpc!ConstantsAssumption, RpcInv, [Rpc!Next]_Rpc!vars PROVE BrokenIsIdle'
<1> USE DEF RpcTypeOK, RpcInv, BrokenIsIdle, Rpc!ConstantsAssumption, Rpc!server, Rpc!wire,
    Rpc!client, Rpc!history
<1>1. ASSUME NEW c \in RpcCalls,
             Rpc!Request(c) \/ Rpc!RequestRaises(c) \/ Rpc!Read(c) \/ Rpc!ReadRaises(c) \/ Rpc!Interrupted(c)
      PROVE  BrokenIsIdle'
  BY <1>1 DEF Rpc!Request, Rpc!RequestRaises, Rpc!Read, Rpc!ReadRaises, Rpc!Interrupted
<1>2. ASSUME NEW p \in Procs, Rpc!ReadLine(p) \/ Rpc!LoopDies(p) \/ Rpc!ProcessEnds(p) PROVE BrokenIsIdle'
  BY <1>2 DEF Rpc!ReadLine, Rpc!LoopDies, Rpc!ProcessEnds
<1>3. ASSUME NEW p \in Procs, Rpc!Execute(p) \/ Rpc!Commit(p) \/ Rpc!StateGet(p) \/ Rpc!Other(p)
      PROVE  BrokenIsIdle'
  <2>1. /\ UNCHANGED <<socket, sent>> /\ serving[p].stage # "none"
        /\ \A q \in Procs \ {p} : serving'[q] = serving[q]
    BY <1>3 DEF Rpc!Execute, Rpc!Commit, Rpc!StateGet, Rpc!Other, Rpc!At, Rpc!Send
  <2> QED BY <2>1
<1>4. ASSUME Rpc!Crash PROVE BrokenIsIdle'
  BY <1>4 DEF Rpc!Crash
<1>5. ASSUME UNCHANGED Rpc!vars PROVE BrokenIsIdle'
  BY <1>5 DEF Rpc!vars
<1>6. ASSUME NEW p \in Procs, Rpc!SendRaises(p) PROVE BrokenIsIdle'
  BY <1>6 DEF Rpc!SendRaises, Rpc!NotServing
<1> QED BY <1>1, <1>2, <1>3, <1>4, <1>5, <1>6 DEF Rpc!Next

\* A message on its own.
LEMMA OneMessage ==
  ASSUME NEW x
  PROVE  /\ Append(<<>>, x) # <<>>
         /\ Head(Append(<<>>, x)) = x /\ Tail(Append(<<>>, x)) = <<>>
OBVIOUS

LEMMA OneAtATimeStep ==
  ASSUME Rpc!ConstantsAssumption, RpcInv, [Rpc!Next]_Rpc!vars, NEW p \in Procs, p \notin interrupted'
  PROVE  OneAtATime(p)'
<1> USE DEF RpcTypeOK, Rpc!ConstantsAssumption, Rpc!server, Rpc!wire, Rpc!client, Rpc!history
<1>1. ASSUME p \notin interrupted PROVE OneAtATime(p) /\ RpcTypeOK /\ BrokenIsIdle
  BY <1>1 DEF RpcInv
<1>2. ASSUME NEW c \in RpcCalls, Rpc!Request(c) PROVE OneAtATime(p)'
  <2>1. /\ OneAtATime(p) /\ RpcTypeOK
        /\ lock[Owner[c]] = Rpc!Nobody /\ callPhase[c] = "idle" /\ callPhase' = [callPhase EXCEPT ![c] = "reading"]
        /\ lock' = [lock EXCEPT ![Owner[c]] = c]
        /\ sent' = [sent EXCEPT ![Owner[c]] = Append(@, c)]
        /\ UNCHANGED <<serving, replies>>
    BY <1>1, <1>2 DEF Rpc!Request, Rpc!Step
  <2>2. CASE p = Owner[c]
    <3>1. sent[p] = <<>> /\ serving[p].stage = "none" /\ replies[p] = <<>>
      BY <2>1, <2>2 DEF OneAtATime
    <3>2. sent'[p] = Append(<<>>, c) /\ lock'[p] = c /\ callPhase'[c] = "reading"
      BY <2>1, <2>2, <3>1
    <3>3. \A d \in RpcCalls : Owner[d] = p /\ callPhase'[d] = "reading" => d = c
      BY <2>1, <2>2 DEF OneAtATime
    <3>4. serving'[p].stage = "none" /\ replies'[p] = <<>> /\ c # Rpc!Nobody
      BY <2>1, <3>1
    <3> QED BY <2>2, <3>2, <3>3, <3>4, OneMessage DEF OneAtATime
  <2>3. CASE p # Owner[c]
    <3>1. /\ sent'[p] = sent[p] /\ lock'[p] = lock[p] /\ serving'[p] = serving[p]
          /\ replies'[p] = replies[p]
          /\ \A d \in RpcCalls : Owner[d] = p => callPhase'[d] = callPhase[d]
      BY <2>1, <2>3
    <3> QED BY <2>1, <3>1 DEF OneAtATime
  <2> QED BY <2>2, <2>3
<1>3. ASSUME NEW c \in RpcCalls, Rpc!RequestRaises(c) PROVE OneAtATime(p)'
  BY <1>1, <1>3 DEF Rpc!RequestRaises, Rpc!Step, OneAtATime
<1>4. ASSUME NEW c \in RpcCalls, Rpc!Read(c) \/ Rpc!ReadRaises(c) \/ Rpc!Interrupted(c) PROVE OneAtATime(p)'
  <2>1. /\ p \notin interrupted /\ OneAtATime(p) /\ RpcTypeOK
        /\ Rpc!Interrupted(c) => p # Owner[c]
        /\ callPhase[c] = "reading" /\ lock' = [lock EXCEPT ![Owner[c]] = IF @ = c THEN Rpc!Nobody ELSE @]
        /\ UNCHANGED <<sent, serving>>
    BY <1>1, <1>4 DEF Rpc!Read, Rpc!ReadRaises, Rpc!Interrupted, Rpc!Release, Rpc!Step
  <2>2. PICK to \in {"answered", "raised"} : callPhase' = [callPhase EXCEPT ![c] = to]
    BY <1>4 DEF Rpc!Read, Rpc!ReadRaises, Rpc!Interrupted, Rpc!Step
  <2>3. replies' = replies \/ replies' = [replies EXCEPT ![Owner[c]] = Tail(@)]
    BY <1>4 DEF Rpc!Read, Rpc!ReadRaises, Rpc!Interrupted
  <2>4. CASE p = Owner[c]
    <3>1. lock[p] = c /\ lock'[p] = Rpc!Nobody
      BY <2>1, <2>4 DEF OneAtATime
    <3>2. sent[p] = <<>> /\ serving[p].stage = "none" /\ replies'[p] = <<>>
      <4>1. CASE Rpc!Read(c)
        BY <2>4, <4>1, <2>1 DEF Rpc!Read, OneAtATime
      <4>2. CASE Rpc!ReadRaises(c)
        <5>1. socket[p] = "broken" /\ replies'[p] = <<>>
          BY <2>4, <4>2 DEF Rpc!ReadRaises
        <5>2. sent[p] = <<>> /\ serving[p].stage = "none"
          BY <1>1, <2>1, <5>1 DEF BrokenIsIdle
        <5> QED BY <5>1, <5>2
      <4> QED BY <1>4, <2>1, <2>4, <4>1, <4>2
    <3>3. \A d \in RpcCalls : Owner[d] = p => callPhase'[d] # "reading"
      BY <2>1, <2>2, <2>4, <3>1 DEF OneAtATime
    <3>4. sent'[p] = <<>> /\ serving'[p].stage = "none"
      BY <2>1, <3>2
    <3> QED BY <3>1, <3>2, <3>3, <3>4 DEF OneAtATime
  <2>5. CASE p # Owner[c]
    <3>1. /\ sent'[p] = sent[p] /\ lock'[p] = lock[p] /\ serving'[p] = serving[p]
          /\ replies'[p] = replies[p]
          /\ \A d \in RpcCalls : Owner[d] = p => callPhase'[d] = callPhase[d]
      BY <2>1, <2>2, <2>3, <2>5
    <3> QED BY <2>1, <3>1 DEF OneAtATime
  <2> QED BY <2>4, <2>5
<1>5. ASSUME NEW q \in Procs, Rpc!ReadLine(q) \/ Rpc!LoopDies(q) \/ Rpc!Execute(q) \/ Rpc!ProcessEnds(q)
      PROVE  OneAtATime(p)'
  <2>1. /\ OneAtATime(p) /\ RpcTypeOK /\ UNCHANGED <<callPhase, lock>>
    BY <1>1, <1>5 DEF Rpc!ReadLine, Rpc!LoopDies, Rpc!Execute, Rpc!ProcessEnds
  <2>2. CASE Rpc!ReadLine(q)
    BY <2>1, <2>2 DEF Rpc!ReadLine, OneAtATime
  <2>3. CASE Rpc!LoopDies(q)
    BY <2>1, <2>3 DEF Rpc!LoopDies, OneAtATime
  <2>4. CASE Rpc!Execute(q)
    <3>1. /\ serving'[p].call = serving[p].call
          /\ serving'[p].stage = "none" <=> serving[p].stage = "none"
      BY <2>1, <2>4 DEF Rpc!Execute, Rpc!At
    <3>2. UNCHANGED <<sent, replies>>
      BY <2>4 DEF Rpc!Execute
    <3> QED BY <2>1, <3>1, <3>2 DEF OneAtATime
  <2>5. CASE Rpc!ProcessEnds(q)
    BY <2>1, <2>5 DEF Rpc!ProcessEnds, OneAtATime
  <2> QED BY <1>5, <2>2, <2>3, <2>4, <2>5
<1>6. ASSUME NEW q \in Procs, Rpc!Commit(q) \/ Rpc!StateGet(q) \/ Rpc!Other(q) PROVE OneAtATime(p)'
  <2>1. /\ OneAtATime(p) /\ RpcTypeOK /\ UNCHANGED <<callPhase, lock, sent>>
        /\ serving[q].stage # "none"
    BY <1>1, <1>6 DEF Rpc!Commit, Rpc!StateGet, Rpc!Other, Rpc!At
  <2>2. PICK value : Rpc!Send(q, value)
    BY <1>6 DEF Rpc!Commit, Rpc!StateGet, Rpc!Other
  <2>3. CASE p = q
    <3>1. lock[p] # Rpc!Nobody /\ serving[p].call = lock[p] /\ replies[p] = <<>> /\ sent[p] = <<>>
      BY <2>1, <2>3 DEF OneAtATime
    <3>2. serving'[p] = Rpc!NotServing
      BY <2>1, <2>2, <2>3 DEF Rpc!Send
    <3>3. \/ replies'[p] = <<>>
          \/ replies'[p] = Append(<<>>, [to |-> lock[p], value |-> value])
      BY <2>1, <2>2, <2>3, <3>1 DEF Rpc!Send
    <3>4. replies'[p] # <<>> => Head(replies'[p]).to = lock[p] /\ Tail(replies'[p]) = <<>>
      <4> DEFINE reply == [to |-> lock[p], value |-> value]
      <4>1. reply.to = lock[p] /\ (replies'[p] = <<>> \/ replies'[p] = Append(<<>>, reply))
        BY <3>3
      <4> HIDE DEF reply
      <4> QED BY <4>1, OneMessage
    <3> QED BY <2>1, <3>1, <3>2, <3>4 DEF OneAtATime, Rpc!NotServing
  <2>4. CASE p # q
    <3>1. serving'[p] = serving[p] /\ replies'[p] = replies[p]
      BY <2>1, <2>2, <2>4 DEF Rpc!Send
    <3> QED BY <2>1, <3>1 DEF OneAtATime
  <2> QED BY <2>3, <2>4
<1>7. ASSUME Rpc!Crash PROVE OneAtATime(p)'
  BY <1>1, <1>7 DEF Rpc!Crash, OneAtATime, Rpc!NotServing
<1>8. ASSUME UNCHANGED Rpc!vars PROVE OneAtATime(p)'
  BY <1>1, <1>8 DEF Rpc!vars, OneAtATime
<1>9. ASSUME NEW q \in Procs, Rpc!SendRaises(q) PROVE OneAtATime(p)'
  <2>1. /\ OneAtATime(p) /\ RpcTypeOK /\ UNCHANGED <<callPhase, lock, replies>>
        /\ sent'[p] = sent[p] \/ sent'[p] = <<>>
        /\ serving'[p] = serving[p] \/ serving'[p] = Rpc!NotServing
    BY <1>1, <1>9 DEF Rpc!SendRaises
  <2> QED BY <2>1 DEF OneAtATime, Rpc!NotServing
<1> QED BY <1>2, <1>3, <1>4, <1>5, <1>6, <1>7, <1>8, <1>9 DEF Rpc!Next


LEMMA AnswerStep ==
  ASSUME Rpc!ConstantsAssumption, RpcInv, [Rpc!Next]_Rpc!vars,
         NEW c \in RpcCalls, Owner[c] \notin interrupted'
  PROVE  AnswerOK(c)'
<1> DEFINE own == Owner[c]
<1>1. own \in Procs /\ Owner[c] = own
  BY DEF Rpc!ConstantsAssumption
<1> HIDE DEF own
<1> USE DEF RpcTypeOK, Rpc!server, Rpc!wire, Rpc!client, Rpc!history
<1>2. /\ RpcTypeOK /\ OneAtATime(own) /\ AnswerOK(c) /\ own \notin interrupted
      /\ \A q \in Procs : serving[q].stage # "none" =>
           serving[q].call \in RpcCalls /\ Owner[serving[q].call] = q
           /\ callPhase[serving[q].call] # "idle"
  <2>1. own \notin interrupted
    BY <1>1
    DEF Rpc!Next, Rpc!Request, Rpc!RequestRaises, Rpc!Read, Rpc!ReadRaises, Rpc!Interrupted,
       Rpc!ReadLine, Rpc!LoopDies, Rpc!Execute,
        Rpc!Commit, Rpc!StateGet, Rpc!Other, Rpc!SendRaises, Rpc!ProcessEnds, Rpc!Crash, Rpc!vars
  <2> QED BY <1>1, <2>1 DEF RpcInv, AsksItsOwn, Asked
<1>3. Rpc!Nobody \notin RpcCalls
  BY DEF Rpc!ConstantsAssumption
<1>4. ASSUME NEW d \in RpcCalls, Rpc!Request(d) PROVE AnswerOK(c)'
  <2>1. /\ callPhase' = [callPhase EXCEPT ![d] = "reading"] /\ lock[Owner[d]] = Rpc!Nobody
        /\ lock' = [lock EXCEPT ![Owner[d]] = d] /\ \E m \in Rpc!Methods : method' = [method EXCEPT ![d] = m]
        /\ UNCHANGED <<serving, replies, answer, replaced, stored, written>>
    BY <1>4 DEF Rpc!Request, Rpc!Step
  <2>2. CASE c = d
    <3>1. callPhase'[c] = "reading" /\ serving'[own].stage = "none" /\ replies'[own] = <<>>
      BY <1>1, <1>2, <2>1, <2>2 DEF OneAtATime
    <3> QED BY <1>1, <3>1 DEF AnswerOK, Replied
  <2>3. CASE c # d
    <3>1. callPhase'[c] = callPhase[c] /\ method'[c] = method[c] /\ (lock'[own] = c => lock[own] = c)
      BY <1>1, <1>2, <2>1, <2>3
    <3> QED BY <1>1, <1>2, <2>1, <3>1 DEF AnswerOK, Replied, Settled
  <2> QED BY <2>2, <2>3
<1>5. ASSUME NEW d \in RpcCalls, Rpc!RequestRaises(d) \/ Rpc!ReadRaises(d) \/ Rpc!Interrupted(d)
      PROVE  AnswerOK(c)'
  <2>1. /\ callPhase' = [callPhase EXCEPT ![d] = "raised"] /\ (lock'[own] = c => lock[own] = c)
        /\ UNCHANGED <<serving, replies, answer, method, replaced, stored, written>>
    <3>1. /\ callPhase' = [callPhase EXCEPT ![d] = "raised"]
          /\ \/ lock' = lock
             \/ lock' = [lock EXCEPT ![Owner[d]] = IF @ = d THEN Rpc!Nobody ELSE @]
          /\ UNCHANGED <<serving, replies, answer, method, replaced, stored, written>>
      BY <1>5 DEF Rpc!RequestRaises, Rpc!ReadRaises, Rpc!Interrupted, Rpc!Step, Rpc!Release
    <3> QED BY <1>1, <1>2, <1>3, <3>1
  <2> QED BY <1>1, <1>2, <2>1 DEF AnswerOK, Replied, Settled
<1>6. ASSUME NEW d \in RpcCalls, Rpc!Read(d) PROVE AnswerOK(c)'
  <2>1. /\ callPhase[d] = "reading" /\ callPhase' = [callPhase EXCEPT ![d] = "answered"]
        /\ replies[Owner[d]] # <<>>
        /\ answer' = [answer EXCEPT ![d] = Head(replies[Owner[d]])]
        /\ replies' = [replies EXCEPT ![Owner[d]] = Tail(@)]
        /\ lock' = [lock EXCEPT ![Owner[d]] = IF @ = d THEN Rpc!Nobody ELSE @]
        /\ UNCHANGED <<serving, method, replaced, stored, written>>
    BY <1>6 DEF Rpc!Read, Rpc!Step, Rpc!Release
  <2>2. CASE c = d
    <3>1. lock[own] = c /\ Head(replies[own]).to = c
      BY <1>1, <1>2, <2>1, <2>2 DEF OneAtATime
    <3>2. answer'[c].to = c /\ callPhase'[c] = "answered" /\ serving[own].stage = "none"
      BY <1>1, <1>2, <2>1, <2>2, <3>1 DEF OneAtATime
    <3>3. Replied(c)
      BY <1>1, <2>1, <2>2, <3>1 DEF Replied
    <3> QED BY <1>1, <1>2, <2>1, <3>2, <3>3 DEF AnswerOK, Settled
  <2>3. CASE c # d
    <3>1. callPhase'[c] = callPhase[c] /\ answer'[c] = answer[c]
      BY <2>1, <2>3, <1>2
    <3>2. lock'[own] = c => lock[own] = c
      BY <2>1, <1>2, <1>3
    <3>3. replies'[own] # <<>> /\ lock[own] = c => replies[own] # <<>>
      <4>1. CASE own = Owner[d]
        BY <2>1, <4>1
      <4>2. CASE own # Owner[d]
        BY <2>1, <4>2
      <4> QED BY <4>1, <4>2
    <3> QED BY <1>1, <1>2, <2>1, <3>1, <3>2, <3>3 DEF AnswerOK, Replied, Settled
  <2> QED BY <2>2, <2>3
<1>7. ASSUME NEW q \in Procs, Rpc!ReadLine(q) PROVE AnswerOK(c)'
  <2>1. /\ serving'[own] = serving[own] \/ serving'[own].stage = "read"
        /\ UNCHANGED <<callPhase, lock, replies, answer, method, replaced, stored, written>>
    BY <1>1, <1>2, <1>7 DEF Rpc!ReadLine
  <2> QED BY <1>1, <1>2, <2>1 DEF AnswerOK, Replied, Settled
<1>8. ASSUME NEW q \in Procs, Rpc!LoopDies(q) \/ Rpc!ProcessEnds(q) PROVE AnswerOK(c)'
  <2>1. /\ replies'[own] = replies[own] \/ replies'[own] = <<>>
        /\ UNCHANGED <<serving, callPhase, lock, answer, method, replaced, stored, written>>
    BY <1>1, <1>2, <1>8 DEF Rpc!LoopDies, Rpc!ProcessEnds
  <2> QED BY <1>1, <1>2, <2>1 DEF AnswerOK, Replied, Settled
<1>9. ASSUME NEW q \in Procs, Rpc!Execute(q) PROVE AnswerOK(c)'
  <2> DEFINE d == serving[q].call
  <2>1. /\ d \in RpcCalls /\ Owner[d] = q /\ callPhase[d] # "idle"
        /\ serving[q].stage = "read" /\ serving' = [serving EXCEPT ![q].stage = "executed"]
        /\ written' = IF method[d] = "state_set" THEN d ELSE Rpc!Missing
        /\ replaced' = replaced \cup ({b \in RpcCalls : callPhase[b] # "idle"} \ {d})
        /\ UNCHANGED <<stored, callPhase, lock, replies, answer, method>>
    BY <1>2, <1>9 DEF Rpc!Execute, Rpc!At
  <2>2. callPhase[c] = "answered" => answer[c].to = c
    BY <1>2 DEF AnswerOK
  <2> HIDE DEF d
  <2>3. CASE c = d
    <3>1. lock[own] = c /\ replies[own] = <<>> /\ callPhase[c] = "reading"
      BY <1>1, <1>2, <2>1, <2>3 DEF OneAtATime, d
    <3> QED BY <1>1, <2>1, <2>3, <3>1 DEF AnswerOK, Replied
  <2>4. CASE c # d /\ callPhase[c] = "idle"
    <3>1. ~Replied(c)
      BY <1>1, <1>2, <1>3, <2>4 DEF OneAtATime, Replied
    <3>2. ~(serving'[own].stage = "executed" /\ serving'[own].call = c)
      <4>1. own # q => serving'[own] = serving[own]
        BY <1>2, <2>1, <1>1
      <4>2. own = q => serving'[own].call = d
        BY <1>2, <2>1 DEF d
      <4> QED BY <1>1, <1>2, <2>4, <4>1, <4>2
    <3>3. ~Replied(c)'
      BY <2>1, <3>1 DEF Replied
    <3> QED BY <1>1, <2>1, <2>4, <3>2, <3>3 DEF AnswerOK
  <2>5. CASE c # d /\ callPhase[c] # "idle"
    BY <2>1, <2>2, <2>5 DEF AnswerOK
  <2> QED BY <2>3, <2>4, <2>5
<1>10. ASSUME NEW q \in Procs, Rpc!Commit(q) PROVE AnswerOK(c)'
  <2>1. /\ serving[q].stage = "executed" /\ stored' = written
        /\ UNCHANGED <<written, callPhase, lock, answer, method, replaced>>
        /\ Rpc!Send(q, "ok")
    BY <1>10 DEF Rpc!Commit, Rpc!At
  <2>2. /\ serving'[own] = serving[own] \/ serving'[own] = Rpc!NotServing
        /\ own # q => replies'[own] = replies[own]
    BY <1>1, <1>2, <2>1 DEF Rpc!Send
  <2>3. ASSUME Replied(c)', method[c] = "state_set", c \notin replaced PROVE written = c
    <3>1. CASE own # q
      BY <1>1, <1>2, <2>1, <2>2, <2>3, <3>1 DEF AnswerOK, Replied, Settled
    <3>2. CASE own = q
      <4>1. serving[own].call = c
        BY <1>1, <1>2, <2>1, <2>3, <3>2 DEF OneAtATime, Replied
      <4> QED BY <1>1, <1>2, <2>1, <2>3, <3>2, <4>1 DEF AnswerOK
    <3> QED BY <3>1, <3>2
  <2> QED BY <1>1, <1>2, <2>1, <2>2, <2>3 DEF AnswerOK, Settled, Rpc!NotServing
<1>11. ASSUME NEW q \in Procs, Rpc!StateGet(q) \/ Rpc!Other(q) PROVE AnswerOK(c)'
  <2>1. /\ serving[q].stage = "read" /\ method[serving[q].call] # "state_set"
        /\ UNCHANGED <<stored, written, callPhase, lock, answer, method, replaced>>
        /\ \E value : Rpc!Send(q, value)
    BY <1>11 DEF Rpc!StateGet, Rpc!Other, Rpc!At
  <2>2. /\ serving'[own] = serving[own] \/ serving'[own] = Rpc!NotServing
        /\ own # q => replies'[own] = replies[own]
    BY <1>1, <1>2, <2>1 DEF Rpc!Send
  <2>3. ASSUME Replied(c)', method[c] = "state_set" PROVE Replied(c)
    <3>1. CASE own # q
      BY <1>1, <2>1, <2>2, <2>3, <3>1 DEF Replied
    <3>2. CASE own = q
      <4>1. serving[own].call = c
        BY <1>1, <1>2, <2>1, <2>3, <3>2 DEF OneAtATime, Replied
      <4> QED BY <2>1, <2>3, <3>2, <4>1
    <3> QED BY <3>1, <3>2
  <2> QED BY <1>1, <1>2, <2>1, <2>2, <2>3 DEF AnswerOK, Settled, Rpc!NotServing
<1>12. ASSUME Rpc!Crash PROVE AnswerOK(c)'
  <2>1. /\ serving'[own] = Rpc!NotServing /\ replies'[own] = <<>> /\ written' = stored
        /\ UNCHANGED <<stored, callPhase, answer, method, replaced>>
    BY <1>1, <1>12 DEF Rpc!Crash
  <2> QED BY <1>1, <1>2, <2>1 DEF AnswerOK, Replied, Settled, Rpc!NotServing
<1>13. ASSUME UNCHANGED Rpc!vars PROVE AnswerOK(c)'
  BY <1>2, <1>13 DEF Rpc!vars, AnswerOK, Replied, Settled
<1>14. ASSUME NEW q \in Procs, Rpc!SendRaises(q) PROVE AnswerOK(c)'
  <2>1. /\ serving'[own] = serving[own] \/ serving'[own] = Rpc!NotServing
        /\ UNCHANGED <<callPhase, lock, replies, answer, method, replaced, stored, written>>
    BY <1>1, <1>2, <1>14 DEF Rpc!SendRaises
  <2> QED BY <1>1, <1>2, <2>1 DEF AnswerOK, Replied, Settled, Rpc!NotServing
<1> QED
  BY <1>4, <1>5, <1>6, <1>7, <1>8, <1>9, <1>10, <1>11, <1>12, <1>13, <1>14 DEF Rpc!Next

LEMMA RpcInvIsInductive ==
  ASSUME Rpc!ConstantsAssumption, RpcInv, [Rpc!Next]_Rpc!vars PROVE RpcInv'
BY RpcTypeStep, BrokenStep, OneAtATimeStep, AnswerStep DEF RpcInv

\* _Client.call and ToolSocket: a call returns the server's answer to it, unless a call of
\* its process was interrupted; a state_set that was answered is stored until it is replaced.
THEOREM AnswersAreTrueAlways == Rpc!Spec => []AnswersAreTrue
<1>1. Rpc!Init => RpcInv
  BY RpcInit, PartsAssumption
<1>2. RpcInv /\ [Rpc!Next]_Rpc!vars => RpcInv'
  BY RpcInvIsInductive, PartsAssumption
<1>3. RpcInv => AnswersAreTrue
  BY DEF RpcInv, AnswerOK, Settled, AnswersAreTrue, Rpc!AnswersAreTrue
<1> QED BY <1>1, <1>2, <1>3, PTL DEF Rpc!Spec

-----------------------------------------------------------------------------
(* Devices and pairing: where a call is tells what is in the tables.       *)

\* What holds of the two tables, committed or not: a device row was inserted by
\* the call that its code names, and only paired devices have an endpoint.
Coherent(ids, table) ==
  \A d \in Pairings :
    /\ table[d].state # "absent" => ids[with[d]] = d
    /\ table[d].state # "paired" => table[d].endpoint = NoEndpoint

\* Where a pairing call is tells which of its statements are in the tables.
PairingProgress ==
  \A d \in Pairings :
    /\ pairing[d] \in {"idle", "checked", "consumed", "refused"} =>
         device[d].state = "absent" /\ savedDevice[d].state = "absent"
    /\ pairing[d] = "consumed" => code[with[d]] = d
    /\ pairing[d] \in {"inserted", "committed", "done", "raised"} => device[d].state # "absent"
    /\ pairing[d] \in {"committed", "done", "raised"} => savedDevice[d].state # "absent"

RevokeProgress ==
  \A k \in Revokes :
    /\ revoke[k] \in {"updated", "committed", "done"} => device[victim[k]].state = "revoked"
    /\ revoke[k] \in {"committed", "done"} => savedDevice[victim[k]].state = "revoked"

\* A call that is still to register its channel knows by the history of it whether
\* its device was revoked meanwhile.
OvertakenIsSeen ==
  \A d \in Pairings :
    pairing[d] \in {"inserted", "committed"} /\ device[d].state = "revoked" => d \in overtaken

GoneIsDead == \A w \in Wakes : wake[w] = "gone" => used[w] \in dead

-----------------------------------------------------------------------------
(* Types.                                                                  *)

LEMMA Somebody == AnyDevice \in Pairings /\ AnyCode \in Codes
BY ConstantsAssumption DEF AnyDevice, AnyCode

\* What an UPDATE of the endpoint alone leaves alone.
LEMMA EndpointSet ==
  ASSUME NEW table \in [Pairings -> Device], NEW d \in Pairings,
         NEW x \in Endpoints \cup {NoEndpoint}
  PROVE  /\ WithEndpoint(table, d, x) \in [Pairings -> Device]
         /\ WithEndpoint(table, d, x)[d].endpoint = x
         /\ \A e \in Pairings :
              /\ WithEndpoint(table, d, x)[e].state = table[e].state
              /\ e # d => WithEndpoint(table, d, x)[e] = table[e]
BY DEF Device, WithEndpoint

LEMMA DeviceTypeInit == Init => TypeOK
BY Somebody, ConstantsAssumption
DEF Init, TypeOK, Device, States, PairingPhases, RevokePhases, RequestPhases, WakePhases

LEMMA DeviceTypePairing ==
  ASSUME TypeOK, NEW d \in Pairings, PairingStep(d)
  PROVE  TypeOK'
<1> USE DEF TypeOK, Device, States, PairingPhases, tables, saved, revokers, pushers, wakers
<1>1. ASSUME NEW c \in Codes, CheckCode(d, c) PROVE TypeOK'
  BY <1>1 DEF CheckCode
<1>2. CASE Consume(d)
  BY <1>2 DEF Consume
<1>3. CASE ConsumeMissed(d)
  BY <1>3 DEF ConsumeMissed
<1>4. CASE InsertDevice(d)
  BY <1>4 DEF InsertDevice
<1>5. CASE CommitPairing(d)
  BY <1>5 DEF CommitPairing, Commit
<1>6. CASE RegisterChannel(d) \/ RegisterRaises(d)
  BY <1>6 DEF RegisterChannel, RegisterRaises
<1> QED BY <1>1, <1>2, <1>3, <1>4, <1>5, <1>6 DEF PairingStep

LEMMA DeviceTypeRevoke ==
  ASSUME TypeOK, NEW k \in Revokes, RevokeStep(k)
  PROVE  TypeOK'
<1> USE DEF TypeOK, Device, States, RevokePhases, tables, saved, pairers, pushers, wakers
<1>1. ASSUME NEW d \in Pairings, RevokeUpdate(k, d) PROVE TypeOK'
  BY <1>1 DEF RevokeUpdate
<1>2. CASE RevokeCommit(k)
  BY <1>2 DEF RevokeCommit, Commit
<1>3. CASE UnregisterChannel(k)
  BY <1>3 DEF UnregisterChannel
<1> QED BY <1>1, <1>2, <1>3 DEF RevokeStep

LEMMA DeviceTypePush ==
  ASSUME TypeOK, PushStep
  PROVE  TypeOK'
<1> USE DEF TypeOK, Device, RequestPhases, WakePhases, tables, saved, pairers, revokers, pushers,
            wakers
<1>1. ASSUME NEW r \in Requests, NEW d \in Pairings, NEW x \in Endpoints \cup {NoEndpoint},
             Authorise(r, d, x)
      PROVE  TypeOK'
  BY <1>1 DEF Authorise
<1>2. ASSUME NEW r \in Requests, StoreEndpoint(r) PROVE TypeOK'
  <2>1. caller[r] \in Pairings /\ wanted[r] \in Endpoints \cup {NoEndpoint}
    OBVIOUS
  <2>2. device' \in [Pairings -> Device]
    <3>1. CASE device[caller[r]].state = "paired" \/ wanted[r] = NoEndpoint
      <4>1. device' = WithEndpoint(device, caller[r], wanted[r])
        BY <1>2, <3>1 DEF StoreEndpoint
      <4> QED BY <2>1, <4>1, EndpointSet
    <3>2. CASE ~(device[caller[r]].state = "paired" \/ wanted[r] = NoEndpoint)
      BY <1>2, <3>2 DEF StoreEndpoint
    <3> QED BY <3>1, <3>2
  <2>3. request' \in [Requests -> RequestPhases]
    BY <1>2 DEF StoreEndpoint
  <2> QED BY <1>2, <2>2, <2>3 DEF StoreEndpoint
<1>3. ASSUME NEW r \in Requests, CommitEndpoint(r) PROVE TypeOK'
  BY <1>3 DEF CommitEndpoint, Commit
<1>4. ASSUME NEW w \in Wakes, NEW d \in Pairings, ReadEndpoint(w, d) PROVE TypeOK'
  BY <1>4 DEF ReadEndpoint
<1>5. ASSUME NEW w \in Wakes, PostWake(w) PROVE TypeOK'
  BY <1>5 DEF PostWake
<1>6. ASSUME NEW w \in Wakes, ClearEndpoint(w) PROVE TypeOK'
  BY <1>6, EndpointSet DEF ClearEndpoint
<1>7. ASSUME NEW w \in Wakes, CommitClear(w) PROVE TypeOK'
  BY <1>7 DEF CommitClear, Commit
<1>8. ASSUME NEW x \in Endpoints, Drop(x) PROVE TypeOK'
  BY <1>8 DEF Drop
<1> QED BY <1>1, <1>2, <1>3, <1>4, <1>5, <1>6, <1>7, <1>8 DEF PushStep

LEMMA DeviceTypeNext == TypeOK /\ [Next]_vars => TypeOK'
<1> SUFFICES ASSUME TypeOK, [Next]_vars
             PROVE  TypeOK'
  OBVIOUS
<1>1. ASSUME NEW c \in Codes, IssueCode(c) \/ CodeExpires(c) PROVE TypeOK'
  BY <1>1 DEF TypeOK, IssueCode, CodeExpires, tables, saved, pairers, revokers, pushers, wakers
<1>2. ASSUME NEW d \in Pairings, PairingStep(d) PROVE TypeOK'
  BY <1>2, DeviceTypePairing
<1>3. ASSUME NEW k \in Revokes, RevokeStep(k) PROVE TypeOK'
  BY <1>3, DeviceTypeRevoke
<1>4. CASE PushStep
  BY <1>4, DeviceTypePush
<1>5. CASE OtherCommit
  BY <1>5 DEF TypeOK, OtherCommit, Commit, tables, pairers, revokers, pushers, wakers
<1>6. CASE Restart
  BY <1>6, ConstantsAssumption
  DEF TypeOK, Restart, Installed, saved, PairingPhases, RevokePhases, RequestPhases, WakePhases
<1>7. CASE UNCHANGED vars
  BY <1>7 DEF TypeOK, vars, tables, saved, pairers, revokers, pushers, wakers
<1> QED BY <1>1, <1>2, <1>3, <1>4, <1>5, <1>6, <1>7 DEF Next

-----------------------------------------------------------------------------
(* The two tables and the calls that write them.                           *)

LEMMA DeviceTablesInit == Init => Coherent(code, device) /\ Coherent(savedCode, savedDevice)
                             /\ PairingProgress /\ RevokeProgress
BY DEF Init, Coherent, PairingProgress, RevokeProgress

DeviceProgress == PairingProgress /\ RevokeProgress /\ Coherent(code, device)
              /\ Coherent(savedCode, savedDevice)

\* A commit saves what is coherent already, and the calls have it behind them.
LEMMA CommitSaves ==
  ASSUME TypeOK, DeviceProgress, Commit, UNCHANGED <<tables, with, victim>>
  PROVE  /\ Coherent(code, device)' /\ Coherent(savedCode, savedDevice)'
         /\ \A d \in Pairings : savedDevice'[d].state = device[d].state
BY DEF DeviceProgress, Coherent, Commit, tables

\* A new endpoint of a paired device, or none, changes no state of a device.
LEMMA EndpointKeeps ==
  ASSUME TypeOK, DeviceProgress, NEW d \in Pairings, NEW x \in Endpoints \cup {NoEndpoint},
         device[d].state = "paired" \/ x = NoEndpoint,
         device' = WithEndpoint(device, d, x),
         UNCHANGED <<code, saved, pairers, revokers>>
  PROVE  DeviceProgress'
<1>1. device \in [Pairings -> Device]
  BY DEF TypeOK
<1>2. \A e \in Pairings : device'[e].state = device[e].state /\ (e # d => device'[e] = device[e])
  BY <1>1, EndpointSet
<1>3. device'[d].endpoint = x
  BY <1>1, EndpointSet
<1>4. Coherent(code, device)'
  BY <1>2, <1>3 DEF DeviceProgress, Coherent, pairers
<1>5. Coherent(savedCode, savedDevice)'
  BY DEF DeviceProgress, Coherent, saved, pairers
<1>6. PairingProgress'
  BY <1>2 DEF DeviceProgress, PairingProgress, saved, pairers
<1>7. RevokeProgress'
  BY <1>2 DEF TypeOK, DeviceProgress, RevokeProgress, saved, revokers
<1> QED BY <1>4, <1>5, <1>6, <1>7 DEF DeviceProgress

LEMMA ProgressPairing ==
  ASSUME TypeOK, DeviceProgress, NEW p \in Pairings, PairingStep(p)
  PROVE  DeviceProgress'
<1> USE DEF TypeOK, DeviceProgress, Coherent, PairingProgress, RevokeProgress, tables, saved, revokers
<1>1. ASSUME NEW c \in Codes, CheckCode(p, c) PROVE DeviceProgress'
  BY <1>1 DEF CheckCode
<1>2. CASE Consume(p)
  BY <1>2, ConstantsAssumption DEF Consume
<1>3. CASE ConsumeMissed(p)
  BY <1>3 DEF ConsumeMissed
<1>4. CASE InsertDevice(p)
  BY <1>4 DEF InsertDevice
<1>5. CASE CommitPairing(p)
  BY <1>5, CommitSaves DEF CommitPairing
<1>6. CASE RegisterChannel(p) \/ RegisterRaises(p)
  BY <1>6 DEF RegisterChannel, RegisterRaises
<1> QED BY <1>1, <1>2, <1>3, <1>4, <1>5, <1>6 DEF PairingStep

LEMMA ProgressRevoke ==
  ASSUME TypeOK, DeviceProgress, NEW k \in Revokes, RevokeStep(k)
  PROVE  DeviceProgress'
<1> USE DEF TypeOK, DeviceProgress, Coherent, PairingProgress, RevokeProgress, tables, saved, pairers
<1>1. ASSUME NEW d \in Pairings, RevokeUpdate(k, d) PROVE DeviceProgress'
  BY <1>1 DEF RevokeUpdate
<1>2. CASE RevokeCommit(k)
  BY <1>2, CommitSaves DEF RevokeCommit
<1>3. CASE UnregisterChannel(k)
  BY <1>3 DEF UnregisterChannel
<1> QED BY <1>1, <1>2, <1>3 DEF RevokeStep

\* Steps that leave the tables and the calls that pair and revoke alone.
LEMMA ProgressKept ==
  ASSUME DeviceProgress, UNCHANGED <<tables, saved, pairers, revokers>>
  PROVE  DeviceProgress'
BY DEF DeviceProgress, Coherent, PairingProgress, RevokeProgress, tables, saved, pairers, revokers

\* A commit made by a call that neither pairs nor revokes.
LEMMA ProgressCommit ==
  ASSUME TypeOK, DeviceProgress, Commit, UNCHANGED <<tables, pairers, revokers>>
  PROVE  DeviceProgress'
<1>1. Coherent(code, device)' /\ Coherent(savedCode, savedDevice)'
  BY CommitSaves DEF pairers, revokers
<1>2. PairingProgress'
  BY CommitSaves DEF DeviceProgress, PairingProgress, pairers, revokers, tables
<1>3. RevokeProgress'
  BY CommitSaves DEF TypeOK, DeviceProgress, RevokeProgress, pairers, revokers, tables
<1> QED BY <1>1, <1>2, <1>3 DEF DeviceProgress

LEMMA ProgressPush ==
  ASSUME TypeOK, DeviceProgress, PushStep
  PROVE  DeviceProgress'
<1>1. ASSUME NEW r \in Requests, NEW d \in Pairings, NEW x \in Endpoints \cup {NoEndpoint},
             Authorise(r, d, x)
      PROVE  DeviceProgress'
  BY <1>1, ProgressKept DEF Authorise
<1>2. ASSUME NEW r \in Requests, StoreEndpoint(r) PROVE DeviceProgress'
  <2>1. caller[r] \in Pairings /\ wanted[r] \in Endpoints \cup {NoEndpoint}
    BY DEF TypeOK
  <2>2. CASE device[caller[r]].state = "paired" \/ wanted[r] = NoEndpoint
    <3>1. device' = WithEndpoint(device, caller[r], wanted[r])
      BY <1>2, <2>2 DEF StoreEndpoint
    <3>2. UNCHANGED <<code, saved, pairers, revokers>>
      BY <1>2 DEF StoreEndpoint
    <3> QED BY <2>1, <2>2, <3>1, <3>2, EndpointKeeps
  <2>3. CASE ~(device[caller[r]].state = "paired" \/ wanted[r] = NoEndpoint)
    BY <1>2, <2>3, ProgressKept DEF StoreEndpoint, tables
  <2> QED BY <2>2, <2>3
<1>3. ASSUME NEW r \in Requests, CommitEndpoint(r) PROVE DeviceProgress'
  BY <1>3, ProgressCommit DEF CommitEndpoint
<1>4. ASSUME NEW w \in Wakes, NEW d \in Pairings, ReadEndpoint(w, d) PROVE DeviceProgress'
  BY <1>4, ProgressKept DEF ReadEndpoint
<1>5. ASSUME NEW w \in Wakes, PostWake(w) PROVE DeviceProgress'
  BY <1>5, ProgressKept DEF PostWake
<1>6. ASSUME NEW w \in Wakes, ClearEndpoint(w) PROVE DeviceProgress'
  <2>1. target[w] \in Pairings
    BY DEF TypeOK
  <2>2. device' = WithEndpoint(device, target[w], NoEndpoint)
          /\ UNCHANGED <<code, saved, pairers, revokers>>
    BY <1>6 DEF ClearEndpoint
  <2> QED BY <2>1, <2>2, EndpointKeeps
<1>7. ASSUME NEW w \in Wakes, CommitClear(w) PROVE DeviceProgress'
  BY <1>7, ProgressCommit DEF CommitClear
<1>8. ASSUME NEW x \in Endpoints, Drop(x) PROVE DeviceProgress'
  BY <1>8, ProgressKept DEF Drop
<1> QED BY <1>1, <1>2, <1>3, <1>4, <1>5, <1>6, <1>7, <1>8 DEF PushStep

LEMMA ProgressNext ==
  ASSUME TypeOK, DeviceProgress, [Next]_vars
  PROVE  DeviceProgress'
<1>1. ASSUME NEW c \in Codes, IssueCode(c) PROVE DeviceProgress'
  BY <1>1, ConstantsAssumption
  DEF IssueCode, TypeOK, DeviceProgress, Coherent, PairingProgress, RevokeProgress, pairers, revokers
<1>2. ASSUME NEW c \in Codes, CodeExpires(c) PROVE DeviceProgress'
  BY <1>2, ProgressKept DEF CodeExpires
<1>3. ASSUME NEW d \in Pairings, PairingStep(d) PROVE DeviceProgress'
  BY <1>3, ProgressPairing
<1>4. ASSUME NEW k \in Revokes, RevokeStep(k) PROVE DeviceProgress'
  BY <1>4, ProgressRevoke
<1>5. CASE PushStep
  BY <1>5, ProgressPush
<1>6. CASE OtherCommit
  BY <1>6, ProgressCommit DEF OtherCommit
<1>7. CASE Restart
  BY <1>7 DEF Restart, TypeOK, DeviceProgress, Coherent, PairingProgress, RevokeProgress, saved
<1>8. CASE UNCHANGED vars
  BY <1>8, ProgressKept DEF vars
<1> QED BY <1>1, <1>2, <1>3, <1>4, <1>5, <1>6, <1>7, <1>8 DEF Next

-----------------------------------------------------------------------------
(* The theorems.                                                           *)

LEMMA DeviceInvariant == Spec => [](TypeOK /\ DeviceProgress)
<1>1. Init => TypeOK /\ DeviceProgress
  BY DeviceTypeInit, DeviceTablesInit DEF DeviceProgress
<1>2. TypeOK /\ DeviceProgress /\ [Next]_vars => (TypeOK /\ DeviceProgress)'
  BY DeviceTypeNext, ProgressNext
<1> QED BY <1>1, <1>2, PTL DEF Spec

\* The type invariant of devices.py's tables, registry and coroutines.
THEOREM DevicesTyped == Spec => []TypeOK
BY DeviceInvariant, PTL

\* "Exactly one wins": two devices never owe their rows to one code, even if the
\* process dies between any two statements of consume_pairing_code.
THEOREM CodesPairOnce == Spec => []CodePairsOnce
<1>1. TypeOK /\ DeviceProgress => CodePairsOnce
  BY DEF DeviceProgress, Coherent, CodePairsOnce
<1> QED BY <1>1, DeviceInvariant, PTL

\* The device that holds its token is in the table, and the revoked one is out, after
\* any crash.
THEOREM DeviceAnswersAreDurable == Spec => []AnsweredIsDurable
<1>1. TypeOK /\ DeviceProgress => AnsweredIsDurable
  BY DEF DeviceProgress, PairingProgress, RevokeProgress, AnsweredIsDurable
<1> QED BY <1>1, DeviceInvariant, PTL

\* No push endpoint outlives the revocation of its device.
THEOREM RevokedIsSilent == Spec => []RevokedHasNoEndpoint
<1>1. TypeOK /\ DeviceProgress => RevokedHasNoEndpoint
  BY DEF DeviceProgress, Coherent, RevokedHasNoEndpoint
<1> QED BY <1>1, DeviceInvariant, PTL

-----------------------------------------------------------------------------
(* The registry of channels.                                               *)

Registry == OvertakenIsSeen /\ PairedIsReachable /\ RevokedIsUnreachable

\* Steps that change no device's state, no channel, and neither kind of call.
LEMMA RegistryKept ==
  ASSUME Registry, UNCHANGED <<pairers, revokers, channels, overtaken, up>>,
         \A d \in Pairings : device'[d].state = device[d].state,
         channels \subseteq Pairings
  PROVE  Registry'
BY DEF Registry, OvertakenIsSeen, PairedIsReachable, RevokedIsUnreachable, pairers, revokers

LEMMA RegistryPairing ==
  ASSUME TypeOK, DeviceProgress, Registry, NEW p \in Pairings, PairingStep(p)
  PROVE  Registry'
<1> USE DEF TypeOK, Registry, OvertakenIsSeen, PairedIsReachable, RevokedIsUnreachable, tables,
            revokers
<1>1. ASSUME NEW c \in Codes, CheckCode(p, c) PROVE Registry'
  BY <1>1 DEF CheckCode
<1>2. CASE Consume(p)
  BY <1>2 DEF Consume
<1>3. CASE ConsumeMissed(p)
  BY <1>3 DEF ConsumeMissed
<1>4. CASE InsertDevice(p)
  BY <1>4 DEF InsertDevice
<1>5. CASE CommitPairing(p)
  BY <1>5 DEF CommitPairing
<1>6. CASE RegisterChannel(p) \/ RegisterRaises(p)
  BY <1>6 DEF RegisterChannel, RegisterRaises
<1> QED BY <1>1, <1>2, <1>3, <1>4, <1>5, <1>6 DEF PairingStep

LEMMA RegistryRevoke ==
  ASSUME TypeOK, DeviceProgress, Registry, NEW k \in Revokes, RevokeStep(k)
  PROVE  Registry'
<1> USE DEF TypeOK, Registry, OvertakenIsSeen, PairedIsReachable, RevokedIsUnreachable, tables,
            pairers
<1>1. ASSUME NEW d \in Pairings, RevokeUpdate(k, d) PROVE Registry'
  BY <1>1 DEF RevokeUpdate
<1>2. CASE RevokeCommit(k)
  BY <1>2 DEF RevokeCommit
<1>3. CASE UnregisterChannel(k)
  BY <1>3 DEF UnregisterChannel, DeviceProgress, RevokeProgress
<1> QED BY <1>1, <1>2, <1>3 DEF RevokeStep

LEMMA RegistryPush ==
  ASSUME TypeOK, Registry, PushStep
  PROVE  Registry'
<1>1. channels \subseteq Pairings /\ device \in [Pairings -> Device]
  BY DEF TypeOK
<1>2. UNCHANGED <<pairers, revokers, channels, overtaken, up>>
  BY DEF PushStep, Authorise, StoreEndpoint, CommitEndpoint, ReadEndpoint, PostWake,
         ClearEndpoint, CommitClear, Drop
<1>3. ASSUME NEW r \in Requests, StoreEndpoint(r)
      PROVE  \A d \in Pairings : device'[d].state = device[d].state
  <2>1. caller[r] \in Pairings /\ wanted[r] \in Endpoints \cup {NoEndpoint}
    BY DEF TypeOK
  <2>2. device' = WithEndpoint(device, caller[r], wanted[r]) \/ device' = device
    BY <1>3 DEF StoreEndpoint
  <2> QED BY <1>1, <2>1, <2>2, EndpointSet
<1>4. ASSUME NEW w \in Wakes, ClearEndpoint(w)
      PROVE  \A d \in Pairings : device'[d].state = device[d].state
  <2>1. target[w] \in Pairings
    BY DEF TypeOK
  <2>2. device' = WithEndpoint(device, target[w], NoEndpoint)
    BY <1>4 DEF ClearEndpoint
  <2> QED BY <1>1, <2>1, <2>2, EndpointSet
<1>5. \A d \in Pairings : device'[d].state = device[d].state
  BY <1>3, <1>4 DEF PushStep, Authorise, CommitEndpoint, ReadEndpoint, PostWake, CommitClear,
     Drop, tables
<1> QED BY <1>1, <1>2, <1>5, RegistryKept

LEMMA RegistryNext ==
  ASSUME TypeOK, DeviceProgress, Registry, [Next]_vars
  PROVE  Registry'
<1>1. ASSUME NEW c \in Codes, IssueCode(c) \/ CodeExpires(c) PROVE Registry'
  BY <1>1, RegistryKept DEF IssueCode, CodeExpires, TypeOK, tables
<1>2. ASSUME NEW d \in Pairings, PairingStep(d) PROVE Registry'
  BY <1>2, RegistryPairing
<1>3. ASSUME NEW k \in Revokes, RevokeStep(k) PROVE Registry'
  BY <1>3, RegistryRevoke
<1>4. CASE PushStep
  BY <1>4, RegistryPush
<1>5. CASE OtherCommit
  BY <1>5, RegistryKept DEF OtherCommit, TypeOK, tables
<1>6. CASE Restart
  BY <1>6 DEF Restart, Installed, TypeOK, Registry, OvertakenIsSeen, PairedIsReachable,
     RevokedIsUnreachable
<1>7. CASE UNCHANGED vars
  BY <1>7, RegistryKept DEF vars, TypeOK, tables
<1> QED BY <1>1, <1>2, <1>3, <1>4, <1>5, <1>6, <1>7 DEF Next

LEMMA RegistryInvariant == Spec => []Registry
<1>1. Init => Registry
  BY DEF Init, Registry, OvertakenIsSeen, PairedIsReachable, RevokedIsUnreachable
<1>2. TypeOK /\ DeviceProgress /\ Registry /\ [Next]_vars => Registry'
  BY RegistryNext
<1> QED BY <1>1, <1>2, DeviceInvariant, PTL DEF Spec

\* The output router can reach every paired device, before and after a restart.
THEOREM PairedHasChannel == Spec => []PairedIsReachable
BY RegistryInvariant, PTL DEF Registry

\* A channel of a revoked device is about to go, or its revocation overtook the
\* pairing call; the latter is the one way in which a stale channel stays.
THEOREM RevokedLosesChannel == Spec => []RevokedIsUnreachable
BY RegistryInvariant, PTL DEF Registry

-----------------------------------------------------------------------------
(* The wake push.                                                          *)

LEMMA GoneInvariant == Spec => []GoneIsDead
<1>1. Init => GoneIsDead
  BY DEF Init, GoneIsDead
<1>2. TypeOK /\ GoneIsDead /\ [Next]_vars => GoneIsDead'
  <2> SUFFICES ASSUME TypeOK, GoneIsDead, [Next]_vars
               PROVE  GoneIsDead'
    OBVIOUS
  <2> USE DEF TypeOK, GoneIsDead, wakers
  <2>1. ASSUME NEW w \in Wakes, NEW d \in Pairings, ReadEndpoint(w, d) PROVE GoneIsDead'
    BY <2>1 DEF ReadEndpoint
  <2>2. ASSUME NEW w \in Wakes, PostWake(w) PROVE GoneIsDead'
    BY <2>2 DEF PostWake
  <2>3. ASSUME NEW w \in Wakes, ClearEndpoint(w) \/ CommitClear(w) PROVE GoneIsDead'
    BY <2>3 DEF ClearEndpoint, CommitClear
  <2>4. ASSUME NEW x \in Endpoints, Drop(x) PROVE GoneIsDead'
    BY <2>4 DEF Drop
  <2>5. ASSUME NEW r \in Requests, \/ \E d \in Pairings, x \in Endpoints \cup {NoEndpoint} : Authorise(r, d, x)
                                   \/ StoreEndpoint(r) \/ CommitEndpoint(r)
        PROVE  GoneIsDead'
    BY <2>5 DEF Authorise, StoreEndpoint, CommitEndpoint
  <2>6. ASSUME NEW c \in Codes, IssueCode(c) \/ CodeExpires(c) PROVE GoneIsDead'
    BY <2>6 DEF IssueCode, CodeExpires
  <2>7. ASSUME NEW d \in Pairings, PairingStep(d) PROVE GoneIsDead'
    BY <2>7 DEF PairingStep, CheckCode, Consume, ConsumeMissed, InsertDevice, CommitPairing,
       RegisterChannel, RegisterRaises
  <2>8. ASSUME NEW k \in Revokes, RevokeStep(k) PROVE GoneIsDead'
    BY <2>8 DEF RevokeStep, RevokeUpdate, RevokeCommit, UnregisterChannel
  <2>9. CASE OtherCommit
    BY <2>9 DEF OtherCommit
  <2>10. CASE Restart
    BY <2>10 DEF Restart
  <2>11. CASE UNCHANGED vars
    BY <2>11 DEF vars
  <2> QED BY <2>1, <2>2, <2>3, <2>4, <2>5, <2>6, <2>7, <2>8, <2>9, <2>10, <2>11
          DEF Next, PushStep
<1> QED BY <1>1, <1>2, DeviceInvariant, PTL DEF Spec

\* An endpoint is lost to a request of its device or to a 410 only: no time-out and
\* no other answer of the distributor unsubscribes a device.
THEOREM TransientFailuresAreHarmless == Spec => TransientFailureKeepsEndpoint
<1> DEFINE Cleared(d) ==
      /\ device[d].endpoint # NoEndpoint
      /\ device'[d].endpoint = NoEndpoint /\ device'[d].state = "paired"
      /\ crashes' = crashes
    Excused(d) ==
      \/ \E r \in Requests : caller[r] = d /\ wanted[r] = NoEndpoint /\ request[r] = "authorised"
      \/ \E w \in Wakes : target[w] = d /\ used[w] \in dead
<1>1. ASSUME TypeOK, DeviceProgress, GoneIsDead, [Next]_vars, NEW d \in Pairings, Cleared(d)
      PROVE  Excused(d)
  <2>1. device \in [Pairings -> Device] /\ crashes \in Nat
    BY <1>1, ConstantsAssumption DEF TypeOK
  <2>2. device' # device /\ device'[d] # device[d]
    BY <1>1
  <2>3. ~Restart
    BY <1>1, <2>1 DEF Restart
  <2>4. ASSUME NEW p \in Pairings, PairingStep(p) PROVE FALSE
    <3>1. InsertDevice(p)
      BY <2>2, <2>4 DEF PairingStep, CheckCode, Consume, ConsumeMissed, CommitPairing,
         RegisterChannel, RegisterRaises, tables
    <3>2. p = d
      BY <2>1, <2>2, <3>1 DEF InsertDevice
    <3> QED BY <1>1, <3>1, <3>2 DEF InsertDevice, DeviceProgress, PairingProgress, Coherent
  <2>5. ASSUME NEW k \in Revokes, RevokeStep(k) PROVE FALSE
    <3>1. PICK e \in Pairings : RevokeUpdate(k, e)
      BY <2>2, <2>5 DEF RevokeStep, RevokeCommit, UnregisterChannel, tables
    <3> QED BY <1>1, <2>1, <2>2, <3>1 DEF RevokeUpdate
  <2>6. ASSUME NEW r \in Requests, StoreEndpoint(r) PROVE Excused(d)
    <3>1. caller[r] \in Pairings /\ wanted[r] \in Endpoints \cup {NoEndpoint}
      BY <1>1 DEF TypeOK
    <3>2. device' = WithEndpoint(device, caller[r], wanted[r]) /\ request[r] = "authorised"
      BY <2>2, <2>6 DEF StoreEndpoint
    <3>3. caller[r] = d /\ wanted[r] = NoEndpoint
      BY <1>1, <2>1, <2>2, <3>1, <3>2, EndpointSet
    <3> QED BY <3>2, <3>3
  <2>7. ASSUME NEW w \in Wakes, ClearEndpoint(w) PROVE Excused(d)
    <3>1. target[w] \in Pairings
      BY <1>1 DEF TypeOK
    <3>2. device' = WithEndpoint(device, target[w], NoEndpoint) /\ wake[w] = "gone"
      BY <2>7 DEF ClearEndpoint
    <3>3. target[w] = d
      BY <2>1, <2>2, <3>1, <3>2, EndpointSet
    <3> QED BY <1>1, <3>2, <3>3 DEF GoneIsDead
  <2> QED BY <1>1, <2>2, <2>3, <2>4, <2>5, <2>6, <2>7
      DEF Next, PushStep, IssueCode, CodeExpires, Authorise, CommitEndpoint, ReadEndpoint,
          PostWake, CommitClear, Drop, OtherCommit, vars, tables
<1>2. TypeOK /\ DeviceProgress /\ GoneIsDead /\ [Next]_vars
        => [\A d \in Pairings : Cleared(d) => Excused(d)]_vars
  BY <1>1
<1> QED BY <1>2, DeviceInvariant, GoneInvariant, PTL DEF Spec, TransientFailureKeepsEndpoint

\* Channels and endpoints follow the pairing, for any devices, calls and crashes.
THEOREM ReachIsCurrent == Spec => []ReachFollowsPairing
BY PairedHasChannel, RevokedLosesChannel, RevokedIsSilent, PTL DEF ReachFollowsPairing
=============================================================================
