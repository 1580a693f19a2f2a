-------------------------- MODULE InvocationsProofs --------------------------
(***************************************************************************)
(* The safety properties of Invocations, for any calls, nested to any      *)
(* depth, any tools and any number of crashes.                             *)
(***************************************************************************)
EXTENDS Invocations, TLAPS

\* The phases in which the row of a call is "running".
Live == {"spawning", "queued", "inserted", "started", "running", "closing", "closed", "informed"}

\* The phases in which nothing of the row waits for a commit.
Clean == {"queued", "invalid", "started", "running", "closing", "closed", "informed",
          "auditing", "raised", "done", "lost"}

\* The phases before the tool's process has ended.
Early == {"idle", "missing", "spawning", "queued", "valid", "invalid", "refused", "inserted",
          "started", "running"}

\* Where a call is tells what its row says.
RowFollowsPhase(c) ==
  /\ phase[c] \in {"idle", "valid"} => row[c] = "absent"
  /\ phase[c] = "invalid" => row[c] = IF c \in Spawned THEN "running" ELSE "absent"
  /\ phase[c] \in Live => row[c] = "running"
  /\ phase[c] \in {"missing", "refused"} => row[c] = "error"
  /\ phase[c] \in {"settled", "auditing", "rescued"} => row[c] \in Ended
  /\ phase[c] = "raised" => row[c] \in Ended \/ result[c] \in {"none", "unusable"}
  /\ phase[c] = "raised" => row[c] # "absent"
  /\ phase[c] = "done" /\ row[c] = "running"
       => answer[c] = "raised" /\ result[c] \in {"none", "unusable"}

\* A commit of a row is a move of its life.
OneMoveAhead(c) == savedRow[c] = row[c] \/ <<savedRow[c], row[c]>> \in Lifecycle!Moves

\* The answer and what is on disk.
AnswerHolds(c) ==
  /\ answer[c] = "id" => savedRow[c] # "absent"
  /\ answer[c] \in Ended => phase[c] = "done" /\ row[c] = answer[c] /\ savedRow[c] = answer[c]

CallInv(c) ==
  /\ RowFollowsPhase(c)
  /\ OneMoveAhead(c)
  /\ AnswerHolds(c)
  /\ phase[c] \in Clean => savedRow[c] = row[c]
  /\ phase[c] \in Early => result[c] = "none"
  /\ phase[c] \in {"missing", "spawning", "queued"} => c \in Spawned

Inv == \A c \in Calls : CallInv(c)

\* A step of c leaves the other calls alone, a commit apart.
Only(c) ==
  \A x \in Calls \ {c} :
    /\ row'[x] = row[x] /\ phase'[x] = phase[x] /\ result'[x] = result[x]
    /\ answer'[x] = answer[x]
    /\ savedRow'[x] \in {savedRow[x], row[x]}

-----------------------------------------------------------------------------
(* Types.                                                                  *)

LEMMA TypeInit == Init => TypeOK
BY ConstantsAssumption DEF Init, TypeOK, Lives, Phases, Results

LEMMA TypeRegister ==
  ASSUME TypeOK, NEW t \in Tools, RegisterStep(t)
  PROVE  TypeOK'
<1> USE DEF TypeOK, table, runs
<1>1. CASE InsertTool(t)
  BY <1>1 DEF InsertTool
<1>2. CASE InsertManifest(t)
  BY <1>2 DEF InsertManifest
<1>3. CASE CommitTool(t)
  BY <1>3 DEF CommitTool, Commit
<1>4. CASE WriteCode(t)
  BY <1>4 DEF WriteCode
<1> QED BY <1>1, <1>2, <1>3, <1>4 DEF RegisterStep

\* The arrivals and the ways to a row.
LEMMA TypeStart ==
  ASSUME TypeOK, NEW c \in Calls, Arrival(c) \/ Load(c) \/ SpawnStep(c)
  PROVE  TypeOK'
<1> USE DEF TypeOK, catalogue, table, Goto, Return, Write, Lives, Phases, Ended
<1>1. CASE SpawnMissing(c)
  BY <1>1 DEF SpawnMissing
<1>2. CASE SpawnInsert(c)
  BY <1>2 DEF SpawnInsert
<1>3. CASE LoadMissing(c)
  BY <1>3 DEF LoadMissing
<1>4. CASE EmitBegin(c)
  BY <1>4 DEF EmitBegin
<1>5. CASE Load(c)
  <2>1. PICK p \in {"invalid", "started", "valid"} : phase' = [phase EXCEPT ![c] = p]
    BY <1>5 DEF Load
  <2>2. p \in Phases
    OBVIOUS
  <2>3. phase' \in [Calls -> Phases]
    <3> HIDE DEF Phases
    <3> QED BY <2>1, <2>2
  <2> QED BY <1>5, <2>3 DEF Load
<1>6. CASE CommitMissing(c)
  BY <1>6 DEF CommitMissing, Commit
<1>7. CASE SpawnCommit(c)
  BY <1>7 DEF SpawnCommit, Commit
<1> QED BY <1>1, <1>2, <1>3, <1>4, <1>5, <1>6, <1>7 DEF Arrival, SpawnStep

LEMMA TypeRun ==
  ASSUME TypeOK, NEW c \in Calls, RunStep(c)
  PROVE  TypeOK'
<1> USE DEF TypeOK, catalogue, table, Goto, Write, Lives, Phases, Results
<1>1. CASE RecordInvalid(c)
  BY <1>1 DEF RecordInvalid
<1>2. CASE CommitInvalid(c)
  BY <1>2 DEF CommitInvalid, Commit
<1>3. CASE InsertRow(c)
  BY <1>3 DEF InsertRow
<1>4. CASE CommitRow(c)
  BY <1>4 DEF CommitRow, Commit
<1>5. CASE NoCode(c)
  BY <1>5 DEF NoCode
<1>6. CASE Launch(c)
  BY <1>6 DEF Launch
<1>10. CASE LaunchFails(c)
  BY <1>10 DEF LaunchFails
<1>7. CASE EmitEnd(c)
  BY <1>7 DEF EmitEnd
<1>8. CASE Exit(c)
  <2>1. PICK r \in Results : result' = [result EXCEPT ![c] = r]
    BY <1>8 DEF Exit
  <2>2. phase' = [phase EXCEPT ![c] = "closing"] /\ "closing" \in Phases
    BY <1>8 DEF Exit
  <2>3. phase' \in [Calls -> Phases] /\ result' \in [Calls -> Results]
    <3> HIDE DEF Phases, Results
    <3> QED BY <2>1, <2>2
  <2> QED BY <1>8, <2>3 DEF Exit
<1>9. CASE Close(c)
  BY <1>9 DEF Close
<1> QED BY <1>1, <1>2, <1>3, <1>4, <1>5, <1>6, <1>7, <1>8, <1>9, <1>10 DEF RunStep

LEMMA TypeEnd ==
  ASSUME TypeOK, Inv, NEW c \in Calls, EndStep(c)
  PROVE  TypeOK'
<1> USE DEF TypeOK, catalogue, table, Goto, Return, Write, Lives, Phases, Ended
<1>1. CASE Announce(c)
  BY <1>1 DEF Announce
<1>2. CASE Unusable(c)
  BY <1>2 DEF Unusable
<1>9. CASE AuditFails(c)
  BY <1>9 DEF AuditFails
<1>3. CASE Settle(c)
  BY <1>3 DEF Settle
<1>4. CASE CommitSettle(c)
  BY <1>4 DEF CommitSettle, Commit
<1>5. CASE Audit(c)
  <2>1. row[c] \in Ended
    BY <1>5 DEF Audit, Inv, CallInv, RowFollowsPhase
  <2> QED BY <1>5, <2>1 DEF Audit, Commit
<1>6. CASE Raise(c)
  BY <1>6 DEF Raise
<1>7. CASE Rescue(c)
  BY <1>7 DEF Rescue
<1>8. CASE CommitRescue(c)
  BY <1>8 DEF CommitRescue, Commit
<1> QED BY <1>1, <1>2, <1>3, <1>4, <1>5, <1>6, <1>7, <1>8, <1>9 DEF EndStep

LEMMA TypeNext == TypeOK /\ Inv /\ [Next]_vars => TypeOK'
<1> SUFFICES ASSUME TypeOK, Inv, [Next]_vars
             PROVE  TypeOK'
  OBVIOUS
<1>1. CASE OtherCommit
  BY <1>1 DEF OtherCommit, Commit, TypeOK, runs
<1>2. CASE Restart
  <2>1. crashes' \in 0..MaxCrashes
    <3>1. crashes \in 0..MaxCrashes /\ MaxCrashes \in Nat
      BY ConstantsAssumption DEF TypeOK
    <3> QED BY <1>2, <3>1 DEF Restart
  <2>2. register' \in [Tools -> {"idle", "row", "manifest", "committed", "done", "lost"}]
    BY <1>2 DEF Restart, TypeOK
  <2>3. phase' \in [Calls -> Phases]
    BY <1>2 DEF Restart, TypeOK, Phases
  <2> QED BY <1>2, <2>1, <2>2, <2>3 DEF Restart, TypeOK
<1>3. CASE UNCHANGED vars
  BY <1>3 DEF vars, catalogue, table, runs, TypeOK
<1> QED BY <1>1, <1>2, <1>3, TypeRegister, TypeStart, TypeRun, TypeEnd DEF Next

-----------------------------------------------------------------------------
(* A call and its row.                                                     *)

LEMMA InvInit == Init => Inv
BY DEF Init, Inv, CallInv, RowFollowsPhase, OneMoveAhead, AnswerHolds, Live, Ended

\* Calls that a step leaves alone keep their invariant.
LEMMA Bystander ==
  ASSUME NEW x \in Calls, CallInv(x),
         row'[x] = row[x], phase'[x] = phase[x], result'[x] = result[x],
         answer'[x] = answer[x], savedRow'[x] \in {savedRow[x], row[x]}
  PROVE  CallInv(x)'
BY DEF CallInv, RowFollowsPhase, OneMoveAhead, AnswerHolds, Live, Clean, Early, Ended,
       Lifecycle!Moves

LEMMA StepOfOne ==
  ASSUME NEW c \in Calls, Inv, CallInv(c)', Only(c)
  PROVE  Inv'
BY Bystander DEF Inv, Only

LEMMA LoadGoes ==
  ASSUME NEW c \in Calls, Load(c)
  PROVE  \/ phase' = [phase EXCEPT ![c] = "invalid"]
         \/ phase' = [phase EXCEPT ![c] = "started"] /\ c \in Spawned
         \/ phase' = [phase EXCEPT ![c] = "valid"] /\ c \notin Spawned
BY DEF Load, Goto

LEMMA OnlyStart ==
  ASSUME TypeOK, NEW c \in Calls, Arrival(c) \/ Load(c) \/ SpawnStep(c)
  PROVE  Only(c)
<1> USE DEF TypeOK, Only, catalogue, table, Goto, Return, Write
<1>1. CASE SpawnMissing(c)
  BY <1>1 DEF SpawnMissing
<1>2. CASE SpawnInsert(c)
  BY <1>2 DEF SpawnInsert
<1>3. CASE LoadMissing(c)
  BY <1>3 DEF LoadMissing
<1>4. CASE EmitBegin(c)
  BY <1>4 DEF EmitBegin
<1>5. CASE Load(c)
  BY <1>5 DEF Load
<1>6. CASE CommitMissing(c)
  BY <1>6 DEF CommitMissing, Commit
<1>7. CASE SpawnCommit(c)
  BY <1>7 DEF SpawnCommit, Commit
<1> QED BY <1>1, <1>2, <1>3, <1>4, <1>5, <1>6, <1>7 DEF Arrival, SpawnStep

LEMMA InvStart ==
  ASSUME TypeOK, Inv, NEW c \in Calls, Arrival(c) \/ Load(c) \/ SpawnStep(c)
  PROVE  Inv'
<1>o. Only(c)
  BY OnlyStart
<1> USE DEF TypeOK, catalogue, table, Goto, Return, Write, CallInv, RowFollowsPhase, OneMoveAhead,
            AnswerHolds, Live, Clean, Early, Ended, Lives, Lifecycle!Moves
<1>0. CallInv(c)
  BY DEF Inv
<1>1. CASE SpawnMissing(c)
  <2>1. CallInv(c)'
    BY <1>0, <1>1 DEF SpawnMissing
  <2> QED BY <2>1, <1>o, StepOfOne
<1>2. CASE SpawnInsert(c)
  <2>1. CallInv(c)'
    BY <1>0, <1>2 DEF SpawnInsert
  <2> QED BY <2>1, <1>o, StepOfOne
<1>3. CASE LoadMissing(c)
  <2>a. phase[c] = "idle" /\ phase'[c] = "done" /\ answer'[c] = "no_row"
    <3>1. phase[c] = "idle"
      BY <1>3 DEF LoadMissing, Called
    <3>2. phase' = [phase EXCEPT ![c] = "done"] /\ answer' = [answer EXCEPT ![c] = "no_row"]
      BY <1>3 DEF LoadMissing
    <3> QED BY <3>1, <3>2
  <2>b. c \notin Spawned
    BY <1>3, ConstantsAssumption DEF LoadMissing, Called
  <2>0. row' = row /\ savedRow' = savedRow /\ result' = result
    BY <1>3 DEF LoadMissing
  <2>1. CallInv(c)'
    BY <1>0, <2>a, <2>b, <2>0
  <2> QED BY <2>1, <1>o, StepOfOne
<1>4. CASE EmitBegin(c)
  <2>1. CallInv(c)'
    BY <1>0, <1>4 DEF EmitBegin
  <2> QED BY <2>1, <1>o, StepOfOne
<1>5. CASE Load(c)
  <2>1. \/ phase[c] = "queued" /\ c \in Spawned
        \/ phase[c] = "idle" /\ c \notin Spawned
    BY <1>0, <1>5, ConstantsAssumption DEF Load, Called
  <2>2. \/ phase' = [phase EXCEPT ![c] = "invalid"]
        \/ phase' = [phase EXCEPT ![c] = "started"] /\ c \in Spawned
        \/ phase' = [phase EXCEPT ![c] = "valid"] /\ c \notin Spawned
    BY <1>5, LoadGoes
  <2>3. /\ row' = row /\ savedRow' = savedRow /\ result' = result /\ answer' = answer
    BY <1>5 DEF Load
  <2>4. CallInv(c)'
    <3>1. CASE phase' = [phase EXCEPT ![c] = "invalid"]
      BY <1>0, <2>1, <2>3, <3>1
    <3>2. CASE phase' = [phase EXCEPT ![c] = "started"] /\ c \in Spawned
      BY <1>0, <2>1, <2>3, <3>2
    <3>3. CASE phase' = [phase EXCEPT ![c] = "valid"] /\ c \notin Spawned
      BY <1>0, <2>1, <2>3, <3>3
    <3> QED BY <2>2, <3>1, <3>2, <3>3
  <2> QED BY <2>2, <2>3, <2>4, StepOfOne DEF Only
<1>6. CASE CommitMissing(c)
  <2>1. CallInv(c)'
    BY <1>0, <1>6 DEF CommitMissing, Commit
  <2> QED BY <2>1, <1>o, StepOfOne
<1>7. CASE SpawnCommit(c)
  <2>1. CallInv(c)'
    BY <1>0, <1>7 DEF SpawnCommit, Commit
  <2> QED BY <2>1, <1>o, StepOfOne
<1> QED BY <1>1, <1>2, <1>3, <1>4, <1>5, <1>6, <1>7 DEF Arrival, SpawnStep

LEMMA OnlyRun ==
  ASSUME TypeOK, NEW c \in Calls, RunStep(c)
  PROVE  Only(c)
<1> USE DEF TypeOK, Only, catalogue, table, Goto, Return, Write
<1>1. CASE RecordInvalid(c)
  BY <1>1 DEF RecordInvalid
<1>2. CASE CommitInvalid(c)
  BY <1>2 DEF CommitInvalid, Commit
<1>3. CASE InsertRow(c)
  BY <1>3 DEF InsertRow
<1>4. CASE CommitRow(c)
  BY <1>4 DEF CommitRow, Commit
<1>5. CASE NoCode(c)
  BY <1>5 DEF NoCode
<1>6. CASE Launch(c)
  BY <1>6 DEF Launch
<1>7. CASE LaunchFails(c)
  BY <1>7 DEF LaunchFails
<1>8. CASE EmitEnd(c)
  BY <1>8 DEF EmitEnd
<1>9. CASE Exit(c)
  BY <1>9 DEF Exit
<1>10. CASE Close(c)
  BY <1>10 DEF Close
<1> QED BY <1>1, <1>2, <1>3, <1>4, <1>5, <1>6, <1>7, <1>8, <1>9, <1>10 DEF RunStep

LEMMA InvRun ==
  ASSUME TypeOK, Inv, NEW c \in Calls, RunStep(c)
  PROVE  Inv'
<1>o. Only(c)
  BY OnlyRun
<1> USE DEF TypeOK, catalogue, table, Goto, Write, CallInv, RowFollowsPhase, OneMoveAhead,
            AnswerHolds, Live, Clean, Early, Ended, Lives, Lifecycle!Moves
<1>0. CallInv(c)
  BY DEF Inv
<1>1. CASE RecordInvalid(c)
  <2>1. CallInv(c)'
    BY <1>0, <1>1 DEF RecordInvalid
  <2> QED BY <2>1, <1>o, StepOfOne
<1>2. CASE CommitInvalid(c)
  <2>1. CallInv(c)'
    BY <1>0, <1>2 DEF CommitInvalid, Commit
  <2> QED BY <2>1, <1>o, StepOfOne
<1>3. CASE InsertRow(c)
  <2>1. CallInv(c)'
    BY <1>0, <1>3 DEF InsertRow
  <2> QED BY <2>1, <1>o, StepOfOne
<1>4. CASE CommitRow(c)
  <2>1. CallInv(c)'
    BY <1>0, <1>4 DEF CommitRow, Commit
  <2> QED BY <2>1, <1>o, StepOfOne
<1>5. CASE NoCode(c)
  <2>1. CallInv(c)'
    BY <1>0, <1>5 DEF NoCode
  <2> QED BY <2>1, <1>o, StepOfOne
<1>6. CASE Launch(c)
  <2>1. CallInv(c)'
    BY <1>0, <1>6 DEF Launch
  <2> QED BY <2>1, <1>o, StepOfOne
<1>7. CASE LaunchFails(c)
  <2>1. CallInv(c)'
    BY <1>0, <1>7 DEF LaunchFails
  <2> QED BY <2>1, <1>o, StepOfOne
<1>8. CASE EmitEnd(c)
  <2>1. CallInv(c)'
    BY <1>0, <1>8 DEF EmitEnd
  <2> QED BY <2>1, <1>o, StepOfOne
<1>9. CASE Exit(c)
  <2>1. CallInv(c)'
    BY <1>0, <1>9 DEF Exit
  <2> QED BY <2>1, <1>o, StepOfOne
<1>10. CASE Close(c)
  <2>1. CallInv(c)'
    BY <1>0, <1>10 DEF Close
  <2> QED BY <2>1, <1>o, StepOfOne
<1> QED BY <1>1, <1>2, <1>3, <1>4, <1>5, <1>6, <1>7, <1>8, <1>9, <1>10 DEF RunStep

LEMMA OnlyEnd ==
  ASSUME TypeOK, NEW c \in Calls, EndStep(c)
  PROVE  Only(c)
<1> USE DEF TypeOK, Only, catalogue, table, Goto, Return, Write
<1>1. CASE Announce(c)
  BY <1>1 DEF Announce
<1>2. CASE Unusable(c)
  BY <1>2 DEF Unusable
<1>3. CASE Settle(c)
  BY <1>3 DEF Settle
<1>4. CASE CommitSettle(c)
  BY <1>4 DEF CommitSettle, Commit
<1>5. CASE Audit(c)
  BY <1>5 DEF Audit, Commit
<1>6. CASE AuditFails(c)
  BY <1>6 DEF AuditFails
<1>7. CASE Raise(c)
  BY <1>7 DEF Raise
<1>8. CASE Rescue(c)
  BY <1>8 DEF Rescue
<1>9. CASE CommitRescue(c)
  BY <1>9 DEF CommitRescue, Commit
<1> QED BY <1>1, <1>2, <1>3, <1>4, <1>5, <1>6, <1>7, <1>8, <1>9 DEF EndStep

LEMMA InvEnd ==
  ASSUME TypeOK, Inv, NEW c \in Calls, EndStep(c)
  PROVE  Inv'
<1>o. Only(c)
  BY OnlyEnd
<1> USE DEF TypeOK, catalogue, table, Goto, Return, Write, CallInv, RowFollowsPhase, OneMoveAhead,
            AnswerHolds, Live, Clean, Early, Ended, Lives, Lifecycle!Moves
<1>0. CallInv(c)
  BY DEF Inv
<1>1. CASE Announce(c)
  <2>1. CallInv(c)'
    BY <1>0, <1>1 DEF Announce
  <2> QED BY <2>1, <1>o, StepOfOne
<1>2. CASE Unusable(c)
  <2>1. CallInv(c)'
    BY <1>0, <1>2 DEF Unusable
  <2> QED BY <2>1, <1>o, StepOfOne
<1>3. CASE Settle(c)
  <2>1. CallInv(c)'
    BY <1>0, <1>3 DEF Settle
  <2> QED BY <2>1, <1>o, StepOfOne
<1>4. CASE CommitSettle(c)
  <2>1. CallInv(c)'
    BY <1>0, <1>4 DEF CommitSettle, Commit
  <2> QED BY <2>1, <1>o, StepOfOne
<1>5. CASE Audit(c)
  <2>1. CallInv(c)'
    BY <1>0, <1>5 DEF Audit, Commit
  <2> QED BY <2>1, <1>o, StepOfOne
<1>6. CASE AuditFails(c)
  <2>1. CallInv(c)'
    BY <1>0, <1>6 DEF AuditFails
  <2> QED BY <2>1, <1>o, StepOfOne
<1>7. CASE Raise(c)
  <2>1. CallInv(c)'
    BY <1>0, <1>7 DEF Raise
  <2> QED BY <2>1, <1>o, StepOfOne
<1>8. CASE Rescue(c)
  <2>1. CallInv(c)'
    BY <1>0, <1>8 DEF Rescue
  <2> QED BY <2>1, <1>o, StepOfOne
<1>9. CASE CommitRescue(c)
  <2>1. CallInv(c)'
    BY <1>0, <1>9 DEF CommitRescue, Commit
  <2> QED BY <2>1, <1>o, StepOfOne
<1> QED BY <1>1, <1>2, <1>3, <1>4, <1>5, <1>6, <1>7, <1>8, <1>9 DEF EndStep

LEMMA InvNext == TypeOK /\ Inv /\ [Next]_vars => Inv'
<1> SUFFICES ASSUME TypeOK, Inv, [Next]_vars
             PROVE  Inv'
  OBVIOUS
<1>1. ASSUME NEW t \in Tools, RegisterStep(t) PROVE Inv'
  BY <1>1, Bystander
  DEF Inv, RegisterStep, InsertTool, InsertManifest, CommitTool, WriteCode, Commit, table, runs,
      TypeOK
<1>2. CASE OtherCommit
  BY <1>2, Bystander DEF Inv, OtherCommit, Commit, runs
<1>3. CASE Restart
  <2> SUFFICES ASSUME NEW c \in Calls PROVE CallInv(c)'
    BY DEF Inv
  <2>1. CallInv(c)
    BY DEF Inv
  <2>2. /\ row'[c] = savedRow[c] /\ savedRow' = savedRow /\ result' = result /\ answer' = answer
        /\ phase'[c] = IF AtWork(c) THEN "lost" ELSE phase[c]
    BY <1>3 DEF Restart, TypeOK
  <2>3. answer[c] \in Ended => phase'[c] = "done"
    BY <2>1, <2>2 DEF CallInv, AnswerHolds, AtWork
  <2> QED
    BY <2>1, <2>2, <2>3
    DEF CallInv, RowFollowsPhase, OneMoveAhead, AnswerHolds, AtWork, Live, Clean, Early, Ended,
        Lifecycle!Moves
<1>4. CASE UNCHANGED vars
  BY <1>4, Bystander DEF Inv, vars, table, runs
<1> QED BY <1>1, <1>2, <1>3, <1>4, InvStart, InvRun, InvEnd DEF Next

\* The type invariant, with what the phase of a run says about its row.
THEOREM InvocationsTyped == Spec => [](TypeOK /\ Inv)
BY TypeInit, TypeNext, InvInit, InvNext, PTL DEF Spec

\* A row is left "running" only by a crash, or by a call whose caller got an exception.
THEOREM OrphansAreExplained == Spec => []OrphanHasACause
<1>1. TypeOK /\ Inv => OrphanHasACause
  <2> SUFFICES ASSUME TypeOK, Inv, NEW c \in Calls, row[c] = "running", ~ AtWork(c)
               PROVE  \/ phase[c] = "lost"
                      \/ answer[c] = "raised" /\ result[c] \in {"none", "unusable"}
    BY DEF OrphanHasACause
  <2> QED BY DEF Inv, CallInv, RowFollowsPhase, AtWork
<1> QED BY <1>1, InvocationsTyped, PTL

\* An id that was given out is found after any crash, and so is a result.
THEOREM AnswersHold == Spec => []AnswerIsDurable
<1>1. Inv => AnswerIsDurable
  BY DEF Inv, CallInv, AnswerHolds, AnswerIsDurable
<1> QED BY <1>1, InvocationsTyped, PTL

-----------------------------------------------------------------------------
(* Invocations implements InvocationLifecycle: only commits publish moves,  *)
(* and each publishes at most one of every row.                             *)

LEMMA SavedOnlyByCommit ==
  ASSUME [Next]_vars
  PROVE  savedRow' = savedRow \/ savedRow' = row
<1> USE DEF catalogue, table, runs
<1>1. ASSUME NEW t \in Tools, RegisterStep(t) PROVE savedRow' = savedRow \/ savedRow' = row
  BY <1>1 DEF RegisterStep, InsertTool, InsertManifest, CommitTool, WriteCode, Commit
<1>2. ASSUME NEW c \in Calls, Arrival(c) \/ Load(c) \/ SpawnStep(c)
      PROVE  savedRow' = savedRow \/ savedRow' = row
  BY <1>2
  DEF Arrival, SpawnMissing, SpawnInsert, LoadMissing, EmitBegin, Load, SpawnStep, CommitMissing,
      SpawnCommit, Commit
<1>3. ASSUME NEW c \in Calls, RunStep(c) PROVE savedRow' = savedRow \/ savedRow' = row
  BY <1>3
  DEF RunStep, RecordInvalid, CommitInvalid, InsertRow, CommitRow, NoCode, Launch, LaunchFails,
      EmitEnd, Exit, Close, Commit
<1>4. ASSUME NEW c \in Calls, EndStep(c) PROVE savedRow' = savedRow \/ savedRow' = row
  BY <1>4
  DEF EndStep, Announce, Unusable, Settle, CommitSettle, Audit, AuditFails, Raise, Rescue,
      CommitRescue, Commit
<1>5. CASE OtherCommit \/ Restart \/ UNCHANGED vars
  BY <1>5 DEF OtherCommit, Restart, Commit, vars
<1> QED BY <1>1, <1>2, <1>3, <1>4, <1>5 DEF Next

\* Whoever polls a run sees it end at most once, and as it ended.
THEOREM RunsFollowLifecycle == Spec => FollowsLifecycle
<1>1. Init => Lifecycle!Init
  BY DEF Init, Lifecycle!Init
<1>2. TypeOK /\ Inv /\ [Next]_vars => [Lifecycle!Next]_savedRow
  <2> SUFFICES ASSUME TypeOK, Inv, [Next]_vars
               PROVE  savedRow' = savedRow \/ Lifecycle!Next
    OBVIOUS
  <2>1. CASE savedRow' = row
    BY <2>1 DEF Inv, CallInv, OneMoveAhead, TypeOK, Lives, Lifecycle!Next, Lifecycle!Lives
  <2> QED BY <2>1, SavedOnlyByCommit
<1> QED BY <1>1, <1>2, InvocationsTyped, PTL DEF Spec, FollowsLifecycle, Lifecycle!Spec

-----------------------------------------------------------------------------
(* The call tree.                                                          *)

\* A step of c starts it or goes on with it, and ends its listening only if it has no
\* nested call at work.
TreeStep(c) ==
  /\ \A x \in Calls \ {c} : phase'[x] = phase[x]
  /\ AtWork(c)' /\ ~ AtWork(c) /\ c \in Nested => Listening(Parent[c])
  /\ Listening(c) /\ ~ Listening(c)' => \A n \in Nested : Parent[n] = c => ~ AtWork(n)

LEMMA TreeCall ==
  ASSUME TypeOK, NEW c \in Calls,
         Arrival(c) \/ Load(c) \/ SpawnStep(c) \/ RunStep(c) \/ EndStep(c)
  PROVE  TreeStep(c)
<1> USE DEF TreeStep, AtWork, Listening
<1>0. phase \in [Calls -> Phases]
  BY DEF TypeOK
<1>1. CASE SpawnMissing(c) \/ SpawnInsert(c)
  BY <1>0, <1>1, ConstantsAssumption DEF SpawnMissing, SpawnInsert, Goto
<1>2. CASE LoadMissing(c)
  BY <1>0, <1>2 DEF LoadMissing, Called, Return, Goto
<1>3. CASE EmitBegin(c) \/ EmitEnd(c)
  BY <1>3 DEF EmitBegin, EmitEnd
<1>4. CASE Load(c)
  <2>1. \E to \in {"started", "valid", "invalid"} : phase' = [phase EXCEPT ![c] = to]
    BY <1>4, LoadGoes
  <2>2. \/ phase[c] = "queued"
        \/ phase[c] = "idle" /\ (c \in Nested => Listening(Parent[c]))
    BY <1>4, ConstantsAssumption DEF Load, Called
  <2> QED BY <1>0, <2>1, <2>2
<1>5. CASE SpawnStep(c)
  BY <1>0, <1>5 DEF SpawnStep, CommitMissing, SpawnCommit, Return, Goto
<1>6. CASE RunStep(c)
  <2>1. CASE Close(c)
    BY <1>0, <2>1 DEF Close, Goto
  <2>2. CASE Exit(c)
    BY <1>0, <2>2 DEF Exit, Goto
  <2>3. CASE RecordInvalid(c) \/ CommitInvalid(c) \/ InsertRow(c) \/ CommitRow(c)
    BY <1>0, <2>3 DEF RecordInvalid, CommitInvalid, InsertRow, CommitRow, Goto
  <2>4. CASE NoCode(c) \/ Launch(c) \/ LaunchFails(c)
    BY <1>0, <2>4 DEF NoCode, Launch, LaunchFails, Goto
  <2> QED BY <1>3, <1>6, <2>1, <2>2, <2>3, <2>4 DEF RunStep
<1>7. CASE EndStep(c)
  <2>1. CASE Announce(c) \/ Unusable(c) \/ Settle(c) \/ CommitSettle(c)
    BY <1>0, <2>1 DEF Announce, Unusable, Settle, CommitSettle, Goto
  <2>2. CASE Audit(c) \/ AuditFails(c) \/ Raise(c)
    BY <1>0, <2>2 DEF Audit, AuditFails, Raise, Return, Goto
  <2>3. CASE Rescue(c) \/ CommitRescue(c)
    BY <1>0, <2>3 DEF Rescue, CommitRescue, Goto
  <2> QED BY <1>7, <2>1, <2>2, <2>3 DEF EndStep
<1> QED BY <1>1, <1>2, <1>3, <1>4, <1>5, <1>6, <1>7 DEF Arrival

LEMMA TreeNext == TypeOK /\ ChildEndsFirst /\ [Next]_vars => ChildEndsFirst'
<1> SUFFICES ASSUME TypeOK, ChildEndsFirst, [Next]_vars
             PROVE  ChildEndsFirst'
  OBVIOUS
<1>1. ASSUME NEW c \in Calls, TreeStep(c) PROVE ChildEndsFirst'
  <2> SUFFICES ASSUME NEW n \in Nested, AtWork(n)' PROVE Listening(Parent[n])'
    BY DEF ChildEndsFirst
  <2>1. n \in Calls /\ Parent[n] \in Calls
    BY ConstantsAssumption DEF Calls
  <2>2. Listening(Parent[n])
    BY <1>1, <2>1 DEF TreeStep, ChildEndsFirst, AtWork
  <2>3. CASE Parent[n] # c
    BY <1>1, <2>1, <2>2, <2>3 DEF TreeStep, Listening
  <2>4. CASE Parent[n] = c
    <3>1. n # c => AtWork(n)
      BY <1>1, <2>1 DEF TreeStep, AtWork
    <3>2. n = c => AtWork(n)
      BY <2>2, <2>4 DEF Listening, AtWork
    <3> QED BY <1>1, <2>2, <2>4, <3>1, <3>2 DEF TreeStep
  <2> QED BY <2>3, <2>4
<1>2. ASSUME NEW t \in Tools, RegisterStep(t) PROVE ChildEndsFirst'
  BY <1>2
  DEF RegisterStep, InsertTool, InsertManifest, CommitTool, WriteCode, runs, ChildEndsFirst,
      AtWork, Listening
<1>3. CASE OtherCommit \/ UNCHANGED vars
  BY <1>3 DEF OtherCommit, vars, runs, ChildEndsFirst, AtWork, Listening
<1>4. CASE Restart
  <2>1. \A c \in Calls : ~ AtWork(c)'
    BY <1>4 DEF Restart, AtWork
  <2> QED BY <2>1 DEF ChildEndsFirst, Calls
<1> QED BY <1>1, <1>2, <1>3, <1>4, TreeCall DEF Next

\* A run that is over has no nested call at work.
THEOREM ChildrenEndFirst == Spec => []ChildEndsFirst
<1>1. Init => ChildEndsFirst
  BY DEF Init, ChildEndsFirst, AtWork, Calls
<1> QED BY <1>1, TreeNext, InvocationsTyped, PTL DEF Spec

-----------------------------------------------------------------------------
(* Outputs and announcements.                                              *)

\* The phases behind the announcement.
Behind == {"informed", "settled", "auditing", "raised", "rescued", "done", "lost"}

\* An output is on its way only while the socket is open, and the kernel speaks when it
\* is closed.
EmitInv(c) ==
  /\ emit[c] = "sending" => phase[c] \in {"running", "closing", "lost"}
  /\ c \in announced => phase[c] \in Behind /\ emit[c] \in {"no", "late"}

Emits == \A c \in Calls : EmitInv(c)

\* A step of c does not speak for others.
Mute(c) ==
  \A x \in Calls \ {c} :
    phase'[x] = phase[x] /\ emit'[x] = emit[x] /\ (x \in announced' <=> x \in announced)

LEMMA EmitCall ==
  ASSUME TypeOK, NEW c \in Calls, EmitInv(c),
         Arrival(c) \/ Load(c) \/ SpawnStep(c) \/ RunStep(c) \/ EndStep(c)
  PROVE  EmitInv(c)' /\ Mute(c)
<1> USE DEF EmitInv, Mute, Behind, AtWork, Listening
<1>0. /\ phase \in [Calls -> Phases]
      /\ emit \in [Calls -> {"no", "sending", "counted", "late"}]
  BY DEF TypeOK
<1>1. CASE SpawnMissing(c) \/ SpawnInsert(c)
  BY <1>0, <1>1 DEF SpawnMissing, SpawnInsert, Goto
<1>2. CASE LoadMissing(c)
  BY <1>0, <1>2 DEF LoadMissing, Called, Return, Goto
<1>3. CASE EmitBegin(c)
  BY <1>0, <1>3 DEF EmitBegin
<1>4. CASE Load(c)
  <2>1. \E to \in {"started", "valid", "invalid"} : phase' = [phase EXCEPT ![c] = to]
    BY <1>4, LoadGoes
  <2>2. phase[c] \in {"idle", "queued"} /\ emit' = emit /\ announced' = announced
    BY <1>4 DEF Load, Called
  <2> QED BY <1>0, <2>1, <2>2
<1>5. CASE SpawnStep(c)
  BY <1>0, <1>5 DEF SpawnStep, CommitMissing, SpawnCommit, Return, Goto
<1>6. CASE RunStep(c)
  <2>1. CASE Close(c)
    BY <1>0, <2>1 DEF Close, Goto
  <2>2. CASE Exit(c)
    BY <1>0, <2>2 DEF Exit, Goto
  <2>3. CASE RecordInvalid(c) \/ CommitInvalid(c) \/ InsertRow(c) \/ CommitRow(c)
    BY <1>0, <2>3 DEF RecordInvalid, CommitInvalid, InsertRow, CommitRow, Goto
  <2>4. CASE NoCode(c) \/ Launch(c) \/ LaunchFails(c)
    BY <1>0, <2>4 DEF NoCode, Launch, LaunchFails, Goto
  <2>5. CASE EmitEnd(c)
    BY <1>0, <2>5 DEF EmitEnd
  <2> QED BY <1>6, <2>1, <2>2, <2>3, <2>4, <2>5 DEF RunStep
<1>7. CASE EndStep(c)
  <2>1. CASE Announce(c)
    BY <1>0, <2>1 DEF Announce, Goto
  <2>2. CASE Unusable(c) \/ Settle(c) \/ CommitSettle(c)
    BY <1>0, <2>2 DEF Unusable, Settle, CommitSettle, Goto
  <2>3. CASE Audit(c) \/ AuditFails(c) \/ Raise(c)
    BY <1>0, <2>3 DEF Audit, AuditFails, Raise, Return, Goto
  <2>4. CASE Rescue(c) \/ CommitRescue(c)
    BY <1>0, <2>4 DEF Rescue, CommitRescue, Goto
  <2> QED BY <1>7, <2>1, <2>2, <2>3, <2>4 DEF EndStep
<1> QED BY <1>1, <1>2, <1>3, <1>4, <1>5, <1>6, <1>7 DEF Arrival

LEMMA EmitNext == TypeOK /\ Emits /\ [Next]_vars => Emits'
<1> SUFFICES ASSUME TypeOK, Emits, [Next]_vars
             PROVE  Emits'
  OBVIOUS
<1>1. ASSUME NEW c \in Calls,
             Arrival(c) \/ Load(c) \/ SpawnStep(c) \/ RunStep(c) \/ EndStep(c)
      PROVE  Emits'
  <2>1. EmitInv(c)' /\ Mute(c)
    BY <1>1, EmitCall DEF Emits
  <2> QED BY <2>1 DEF Emits, EmitInv, Mute
<1>2. ASSUME NEW t \in Tools, RegisterStep(t) PROVE Emits'
  BY <1>2
  DEF RegisterStep, InsertTool, InsertManifest, CommitTool, WriteCode, runs, Emits, EmitInv
<1>3. CASE OtherCommit \/ UNCHANGED vars
  BY <1>3 DEF OtherCommit, vars, runs, Emits, EmitInv
<1>4. CASE Restart
  BY <1>4 DEF Restart, AtWork, Emits, EmitInv, Behind
<1> QED BY <1>1, <1>2, <1>3, <1>4 DEF Next

\* The user is told twice only of a tool that left an output on its way.
THEOREM ToldOnce == Spec => []ToldTwiceOnlyIfLate
<1>1. Init => Emits
  BY DEF Init, Emits, EmitInv
<1>2. TypeOK /\ Emits => ToldTwiceOnlyIfLate
  BY DEF TypeOK, Emits, EmitInv, ToldTwiceOnlyIfLate
<1> QED BY <1>1, <1>2, EmitNext, InvocationsTyped, PTL DEF Spec
=============================================================================
