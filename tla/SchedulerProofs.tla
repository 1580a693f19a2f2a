--------------------------- MODULE SchedulerProofs ---------------------------
(***************************************************************************)
(* The safety invariants of Scheduler, for any number of schedules,        *)
(* when_specs, edits and outages.  None of them is inductive: each is part *)
(* of SchedulerInv, which adds what the phases of a fire imply about the   *)
(* two copies of the table.                                                *)
(***************************************************************************)
EXTENDS Scheduler, TLAPS

\* Phases in which the reserving UPDATE was executed and the terminal one not.
Holding == {"reserving", "reserved", "running", "finishing"}

\* A fire exists only in a process that is up or stopping.
FiresNeedProcess ==
  \A s \in Schedules : mode \in {"down", "starting"} => phase[s] = "idle"

\* A stopped process has lost what it had not committed.
DownIsDisk == mode = "down" => rows = disk

\* The row of a fire in progress, or of an interrupted run, exists.
FiredRowKnown ==
  \A s \in Schedules :
    /\ phase[s] # "idle" \/ ran[s] = "started" => rows[s].known
    /\ phase[s] \in {"reserved", "running", "finishing"} \/ ran[s] = "started"
         => disk[s].known

\* The marker is in the table from the reserving UPDATE to the terminal one.
MarkerHeld == \A s \in Schedules : phase[s] \in Holding => rows[s].started

\* From Reconcile on, a marker without a fire is found on cancelled rows only.
MarkerNeedsFire ==
  \A s \in Schedules :
    mode \in {"starting", "up"} /\ rows[s].started /\ ~rows[s].cancelled
      => phase[s] \in Holding

\* What PromisedFireSurvives says of the disk, said of the connection's view.
OwedInRows ==
  \A s \in Schedules :
    ran[s] = "started" =>
      /\ phase[s] \notin {"finishing", "finalizing"}
      /\ rows[s].started \/ rows[s].due \/ rows[s].cancelled

CancelWasAsked == \A s \in Schedules : edit[s] = "cancel" => s \in asked

SchedulerInv ==
  /\ TypeOK
  /\ FiresNeedProcess
  /\ DownIsDisk
  /\ FiredRowKnown
  /\ MarkerHeld
  /\ WriteAheadReservation
  /\ MarkerNeedsFire
  /\ OwedInRows
  /\ PromisedFireSurvives
  /\ CancelWasAsked

-----------------------------------------------------------------------------
(* Typing.                                                                 *)

LEMMA BlankTyped == Blank \in Row /\ AnyWhen \in Whens
<1>1. AnyWhen \in Whens
  BY ConstantsAssumption DEF AnyWhen, Whens
<1>2. QED
  BY <1>1 DEF Blank, Row

\* Each statement keeps a row a row, and what it does to the fields the
\* invariants speak of.
LEMMA RowWhen == \A r \in Row : r.when \in Whens
BY DEF Row

LEMMA InsertedRow ==
  ASSUME NEW w \in Whens
  PROVE  /\ Inserted(w) \in Row
         /\ Inserted(w).known
         /\ ~Inserted(w).started
BY DEF Inserted, Row

LEMMA RescheduledRow ==
  ASSUME NEW r \in Row, NEW w \in Whens
  PROVE  /\ Rescheduled(r, w) \in Row
         /\ Rescheduled(r, w).known = r.known
         /\ Rescheduled(r, w).started = r.started
         /\ Rescheduled(r, w).cancelled = r.cancelled
BY DEF Rescheduled, Row

LEMMA CancelledRow ==
  ASSUME NEW r \in Row
  PROVE  /\ Cancelled(r) \in Row
         /\ Cancelled(r).known = r.known
         /\ Cancelled(r).started = r.started
         /\ Cancelled(r).cancelled
BY DEF Cancelled, Row

LEMMA RipeRow ==
  ASSUME NEW r \in Row
  PROVE  /\ Ripe(r) \in Row
         /\ Ripe(r).known = r.known
         /\ Ripe(r).started = r.started
         /\ Ripe(r).cancelled = r.cancelled
         /\ Ripe(r).due
BY DEF Ripe, Row

LEMMA ReservedRow ==
  ASSUME NEW r \in Row, NEW w \in Whens
  PROVE  /\ Reserved(r, w) \in Row
         /\ Reserved(r, w).known = r.known
         /\ Reserved(r, w).started
         /\ Reserved(r, w).cancelled = r.cancelled
<1>1. ReservedUntil(w) \in Whens \cup {InOneHour}
  BY DEF ReservedUntil
<1>2. QED
  BY <1>1 DEF Reserved, Row

LEMMA EndedRow ==
  ASSUME NEW r \in Row, NEW w \in Whens
  PROVE  /\ Ended(r, w) \in Row
         /\ Ended(r, w).known = r.known
         /\ ~Ended(r, w).started
BY DEF Ended, Row

LEMMA ReclaimedRow ==
  ASSUME NEW r \in Row
  PROVE  /\ Reclaimed(r) \in Row
         /\ Reclaimed(r).known = r.known
         /\ Reclaimed(r).started => Reclaimed(r).cancelled
         /\ r.started \/ r.due \/ r.cancelled
              => Reclaimed(r).due \/ Reclaimed(r).cancelled
BY DEF Reclaimed, Row

Typed == TypeOK /\ CancelWasAsked

LEMMA TypedInit == Init => Typed
BY BlankTyped, ConstantsAssumption DEF Init, Typed, TypeOK, CancelWasAsked, Phases, Edits, history, fireVars

LEMMA TypedNext == Typed /\ [Next]_vars => Typed'
<1> SUFFICES ASSUME Typed, [Next]_vars
             PROVE  Typed'
  OBVIOUS
<1> USE DEF Typed, TypeOK, CancelWasAsked, Phases, Edits, history, fireVars
<1>1. ASSUME NEW s \in Schedules, NEW w \in Whens, Create(s, w)
      PROVE  Typed'
  BY <1>1, InsertedRow, ConstantsAssumption DEF Create
<1>2. ASSUME NEW s \in Schedules, NEW w \in Whens, Reschedule(s, w)
      PROVE  Typed'
  BY <1>2, RescheduledRow, ConstantsAssumption DEF Reschedule
<1>3. ASSUME NEW s \in Schedules, Cancel(s)
      PROVE  Typed'
  BY <1>3, CancelledRow, ConstantsAssumption DEF Cancel
<1>4. ASSUME NEW s \in Schedules, CommitEdit(s)
      PROVE  Typed'
  BY <1>4 DEF CommitEdit
<1>5. ASSUME NEW s \in Schedules, TimePasses(s)
      PROVE  Typed'
  BY <1>5, RipeRow DEF TimePasses
<1>6. ASSUME NEW s \in Schedules, Reserve(s)
      PROVE  Typed'
  BY <1>6, ReservedRow DEF Reserve
<1>7. ASSUME NEW s \in Schedules, CommitReservation(s)
      PROVE  Typed'
  BY <1>7 DEF CommitReservation
<1>8. ASSUME NEW s \in Schedules, StartTool(s) \/ AuditFails(s) \/ ToolReturns(s)
      PROVE  Typed'
  BY <1>8 DEF StartTool, AuditFails, ToolReturns
<1>9. ASSUME NEW s \in Schedules, Finalize(s)
      PROVE  Typed'
  BY <1>9, EndedRow DEF Finalize
<1>10. ASSUME NEW s \in Schedules, CommitFinal(s)
      PROVE  Typed'
  BY <1>10, BlankTyped DEF CommitFinal
<1>11. ASSUME NEW s \in Schedules, FireCancelled(s)
      PROVE  Typed'
  BY <1>11, BlankTyped DEF FireCancelled
<1>12. CASE OtherCommit
  BY <1>12 DEF OtherCommit
<1>13. CASE Tick
  BY <1>13, RowWhen DEF Tick
<1>14. CASE Stop
  BY <1>14, ConstantsAssumption DEF Stop
<1>15. CASE Shutdown
  BY <1>15 DEF Shutdown
<1>16. CASE Crash
  BY <1>16, BlankTyped, ConstantsAssumption DEF Crash
<1>17. CASE Reconcile
  BY <1>17, ReclaimedRow DEF Reconcile
<1>18. CASE StartLoop
  BY <1>18 DEF StartLoop
<1>19. CASE UNCHANGED vars
  BY <1>19 DEF vars
<1>20. QED
  BY <1>1, <1>2, <1>3, <1>4, <1>5, <1>6, <1>7, <1>8, <1>9, <1>10, <1>11, <1>12,
     <1>13, <1>14, <1>15, <1>16, <1>17, <1>18, <1>19
  DEF Next, Edit, FireStep

\* Every variable keeps its type, and a cancel is acknowledged only if the user
\* asked for it.
THEOREM SchedulerTyped == Spec => []TypeOK
<1>1. Spec => []Typed
  BY TypedInit, TypedNext, PTL DEF Spec
<1>2. Typed => TypeOK
  BY DEF Typed
<1>3. QED
  BY <1>1, <1>2, PTL

-----------------------------------------------------------------------------
(* The two copies of the table and the fires.                              *)

LEMMA InvInit == Init => SchedulerInv
BY TypedInit, BlankTyped
DEF Init, Typed, SchedulerInv, FiresNeedProcess, DownIsDisk, FiredRowKnown, MarkerHeld,
    WriteAheadReservation, MarkerNeedsFire, OwedInRows, PromisedFireSurvives, Holding, Blank

LEMMA InvNext == SchedulerInv /\ [Next]_vars => SchedulerInv'
<1> SUFFICES ASSUME SchedulerInv, [Next]_vars
             PROVE  SchedulerInv'
  OBVIOUS
<1>0. TypeOK' /\ CancelWasAsked'
  BY TypedNext DEF SchedulerInv, Typed
<1> USE DEF SchedulerInv, FiresNeedProcess, DownIsDisk, FiredRowKnown, MarkerHeld,
            WriteAheadReservation, MarkerNeedsFire, OwedInRows, PromisedFireSurvives, Holding,
            history, fireVars, TypeOK, CancelWasAsked, Serving, Running
<1>1. ASSUME NEW s \in Schedules, NEW w \in Whens, Create(s, w)
      PROVE  SchedulerInv'
  BY <1>0, <1>1, InsertedRow DEF Create
<1>2. ASSUME NEW s \in Schedules, NEW w \in Whens, Reschedule(s, w)
      PROVE  SchedulerInv'
  <2>1. \A t \in Schedules :
          /\ rows[t] \in Row
          /\ rows'[t] = rows[t] \/ rows'[t] = Rescheduled(rows[t], w)
          /\ t # s => rows'[t] = rows[t] /\ ran'[t] = ran[t]
    BY <1>2 DEF Reschedule
  <2>2. mode = "up" /\ UNCHANGED <<mode, phase, disk>>
    BY <1>2 DEF Reschedule
  <2>3. ran'[s] = "started" => ran[s] = "started" /\ phase[s] \in Holding
    BY <1>2 DEF Reschedule, Phases
  <2>4. \A r \in Row : /\ Rescheduled(r, w).known = r.known
                       /\ Rescheduled(r, w).started = r.started
                       /\ Rescheduled(r, w).cancelled = r.cancelled
    BY RescheduledRow
  <2>5. OwedInRows'
    <3>1. ASSUME ran'[s] = "started"
          PROVE  phase'[s] \notin {"finishing", "finalizing"} /\ rows'[s].started
      <4>1. phase[s] \in Holding /\ ran[s] = "started"
        BY <2>3, <3>1
      <4>2. rows[s].started
        BY <4>1
      <4>3. QED
        BY <2>1, <2>2, <2>4, <4>1, <4>2
    <3>2. QED
      BY <2>1, <2>2, <3>1
  <2>6. FiredRowKnown'
    <3>1. \A t \in Schedules : ran'[t] = "started" => ran[t] = "started"
      BY <2>1, <2>3
    <3>2. \A t \in Schedules : rows'[t].known = rows[t].known
      BY <2>1, <2>4
    <3>3. QED
      BY <2>2, <3>1, <3>2
  <2>7. MarkerHeld' /\ MarkerNeedsFire'
    BY <2>1, <2>2, <2>4
  <2>8. QED
    BY <1>0, <2>1, <2>2, <2>3, <2>5, <2>6, <2>7
<1>3. ASSUME NEW s \in Schedules, Cancel(s)
      PROVE  SchedulerInv'
  BY <1>0, <1>3, CancelledRow DEF Cancel
<1>4. ASSUME NEW s \in Schedules, CommitEdit(s)
      PROVE  SchedulerInv'
  BY <1>0, <1>4 DEF CommitEdit
<1>5. ASSUME NEW s \in Schedules, TimePasses(s)
      PROVE  SchedulerInv'
  <2>1. \A t \in Schedules :
          /\ rows[t] \in Row
          /\ rows'[t] = rows[t] \/ rows'[t] = Ripe(rows[t])
          /\ disk[t] \in Row
          /\ disk'[t] = disk[t] \/ disk'[t] = Ripe(disk[t])
    BY <1>5 DEF TimePasses
  <2>2. DownIsDisk'
    BY <1>5 DEF TimePasses
  <2>3. UNCHANGED <<mode, phase, ran>>
    BY <1>5 DEF TimePasses
  <2>4. QED
    BY <1>0, <2>1, <2>2, <2>3, RipeRow
<1>6. ASSUME NEW s \in Schedules, Reserve(s)
      PROVE  SchedulerInv'
  BY <1>0, <1>6, ReservedRow DEF Reserve
<1>7. ASSUME NEW s \in Schedules, CommitReservation(s)
      PROVE  SchedulerInv'
  BY <1>0, <1>7 DEF CommitReservation
<1>8. ASSUME NEW s \in Schedules, StartTool(s) \/ AuditFails(s) \/ ToolReturns(s)
      PROVE  SchedulerInv'
  BY <1>0, <1>8 DEF StartTool, AuditFails, ToolReturns
<1>9. ASSUME NEW s \in Schedules, Finalize(s)
      PROVE  SchedulerInv'
  BY <1>0, <1>9, EndedRow DEF Finalize
<1>10. ASSUME NEW s \in Schedules, CommitFinal(s)
      PROVE  SchedulerInv'
  BY <1>0, <1>10 DEF CommitFinal
<1>11. ASSUME NEW s \in Schedules, FireCancelled(s)
      PROVE  SchedulerInv'
  BY <1>0, <1>11 DEF FireCancelled
<1>12. CASE OtherCommit
  BY <1>0, <1>12 DEF OtherCommit
<1>13. CASE Tick
  BY <1>0, <1>13 DEF Tick, Selectable
<1>14. CASE Stop
  BY <1>0, <1>14 DEF Stop
<1>15. CASE Shutdown
  BY <1>0, <1>15 DEF Shutdown
<1>16. CASE Crash
  BY <1>0, <1>16 DEF Crash
<1>17. CASE Reconcile
  BY <1>0, <1>17, ReclaimedRow DEF Reconcile
<1>18. CASE StartLoop
  BY <1>0, <1>18 DEF StartLoop
<1>19. CASE UNCHANGED vars
  BY <1>0, <1>19 DEF vars
<1>20. QED
  BY <1>1, <1>2, <1>3, <1>4, <1>5, <1>6, <1>7, <1>8, <1>9, <1>10, <1>11, <1>12,
     <1>13, <1>14, <1>15, <1>16, <1>17, <1>18, <1>19
  DEF Next, Edit, FireStep

LEMMA SchedulerInvariant == Spec => []SchedulerInv
BY InvInit, InvNext, PTL DEF Spec

\* No crash finds a tool started and the table unaware of it.
THEOREM ReservationIsWriteAhead == Spec => []WriteAheadReservation
<1>1. SchedulerInv => WriteAheadReservation
  BY DEF SchedulerInv
<1>2. QED
  BY <1>1, SchedulerInvariant, PTL

\* Whatever the crashes, shutdowns and commits by other coroutines, a run that a
\* crash cut short is owed by the committed table until it happens again.
THEOREM FireSurvivesCrashes == Spec => []PromisedFireSurvives
<1>1. SchedulerInv => PromisedFireSurvives
  BY DEF SchedulerInv
<1>2. QED
  BY <1>1, SchedulerInvariant, PTL

\* No live row stays reserved with nobody to release it while the process serves.
THEOREM ReservationsAreReleased == Spec => []NoStuckReservation
<1>1. SchedulerInv => NoStuckReservation
  BY DEF SchedulerInv, MarkerNeedsFire, NoStuckReservation, Holding
<1>2. QED
  BY <1>1, SchedulerInvariant, PTL

-----------------------------------------------------------------------------
(* Cancelling is final.                                                    *)

\* A cancel holds in the connection's view from its UPDATE on, and in both copies
\* once it is acknowledged.  No handler is at work while the process goes down.
CancelHolds ==
  \A s \in Schedules :
    /\ edit[s] # "none" => mode = "up"
    /\ edit[s] = "cancel" => rows[s].known /\ rows[s].cancelled
    /\ s \in withdrawn => /\ rows[s].known /\ rows[s].cancelled
                          /\ disk[s].known /\ disk[s].cancelled

LEMMA EndedKeepsCancel ==
  ASSUME NEW r \in Row, NEW w \in Whens, r.cancelled
  PROVE  Ended(r, w).cancelled
BY DEF Ended, Row

LEMMA ReclaimedKeepsCancel ==
  ASSUME NEW r \in Row, r.cancelled
  PROVE  Reclaimed(r).cancelled
BY DEF Reclaimed, Row

LEMMA CancelInit == Init => CancelHolds
BY DEF Init, CancelHolds

LEMMA CancelNext == Typed /\ CancelHolds /\ [Next]_vars => CancelHolds'
<1> SUFFICES ASSUME Typed, CancelHolds, [Next]_vars
             PROVE  CancelHolds'
  OBVIOUS
<1> USE DEF Typed, TypeOK, CancelHolds, Serving, Running, history, fireVars
<1>1. ASSUME NEW s \in Schedules, NEW w \in Whens, Create(s, w)
      PROVE  CancelHolds'
  BY <1>1, InsertedRow DEF Create
<1>2. ASSUME NEW s \in Schedules, NEW w \in Whens, Reschedule(s, w)
      PROVE  CancelHolds'
  <2>1. \A t \in Schedules :
          /\ rows[t] \in Row
          /\ rows'[t] = rows[t] \/ rows'[t] = Rescheduled(rows[t], w)
          /\ edit'[t] = edit[t] \/ edit'[t] = "reschedule"
    BY <1>2 DEF Reschedule
  <2>2. mode = "up" /\ UNCHANGED <<mode, disk, withdrawn>>
    BY <1>2 DEF Reschedule
  <2>3. \A r \in Row : /\ Rescheduled(r, w).known = r.known
                       /\ Rescheduled(r, w).cancelled = r.cancelled
    BY RescheduledRow
  <2>4. QED
    BY <2>1, <2>2, <2>3
<1>3. ASSUME NEW s \in Schedules, Cancel(s)
      PROVE  CancelHolds'
  BY <1>3, CancelledRow DEF Cancel
<1>4. ASSUME NEW s \in Schedules, CommitEdit(s)
      PROVE  CancelHolds'
  BY <1>4 DEF CommitEdit
<1>5. ASSUME NEW s \in Schedules, TimePasses(s)
      PROVE  CancelHolds'
  <2>1. \A t \in Schedules :
          /\ rows[t] \in Row
          /\ rows'[t] = rows[t] \/ rows'[t] = Ripe(rows[t])
          /\ disk[t] \in Row
          /\ disk'[t] = disk[t] \/ disk'[t] = Ripe(disk[t])
    BY <1>5 DEF TimePasses
  <2>2. UNCHANGED <<mode, edit, withdrawn>>
    BY <1>5 DEF TimePasses
  <2>3. QED
    BY <2>1, <2>2, RipeRow
<1>6. ASSUME NEW s \in Schedules, Reserve(s)
      PROVE  CancelHolds'
  BY <1>6, ReservedRow DEF Reserve
<1>7. ASSUME NEW s \in Schedules, CommitReservation(s)
      PROVE  CancelHolds'
  BY <1>7 DEF CommitReservation
<1>8. ASSUME NEW s \in Schedules, StartTool(s) \/ AuditFails(s) \/ ToolReturns(s)
      PROVE  CancelHolds'
  BY <1>8 DEF StartTool, AuditFails, ToolReturns
<1>9. ASSUME NEW s \in Schedules, Finalize(s)
      PROVE  CancelHolds'
  BY <1>9, EndedRow, EndedKeepsCancel DEF Finalize
<1>10. ASSUME NEW s \in Schedules, CommitFinal(s)
      PROVE  CancelHolds'
  BY <1>10 DEF CommitFinal
<1>11. ASSUME NEW s \in Schedules, FireCancelled(s)
      PROVE  CancelHolds'
  BY <1>11 DEF FireCancelled
<1>12. CASE OtherCommit
  BY <1>12 DEF OtherCommit
<1>13. CASE Tick
  BY <1>13 DEF Tick
<1>14. CASE Stop
  BY <1>14 DEF Stop
<1>15. CASE Shutdown
  BY <1>15 DEF Shutdown
<1>16. CASE Crash
  BY <1>16 DEF Crash
<1>17. CASE Reconcile
  BY <1>17, ReclaimedRow, ReclaimedKeepsCancel DEF Reconcile
<1>18. CASE StartLoop
  BY <1>18 DEF StartLoop
<1>19. CASE UNCHANGED vars
  BY <1>19 DEF vars
<1>20. QED
  BY <1>1, <1>2, <1>3, <1>4, <1>5, <1>6, <1>7, <1>8, <1>9, <1>10, <1>11, <1>12,
     <1>13, <1>14, <1>15, <1>16, <1>17, <1>18, <1>19
  DEF Next, Edit, FireStep

\* A schedule whose cancel was acknowledged is selected by no tick, now or after
\* any number of restarts: only Tick selects, and only rows not cancelled.
THEOREM CancelIsFinal == Spec => CancelledNeverSelected
<1> DEFINE Withdrawal == \A s \in Schedules :
      phase[s] = "idle" /\ phase'[s] = "selected" => s \notin withdrawn
<1>1. Typed /\ CancelHolds /\ [Next]_vars => [Withdrawal]_vars
  <2> SUFFICES ASSUME Typed, CancelHolds, Next, NEW s \in Schedules,
                      phase[s] = "idle", phase'[s] = "selected"
               PROVE  s \notin withdrawn
    OBVIOUS
  <2>1. Tick
    BY DEF Typed, TypeOK, Phases, Next, Edit, FireStep, Create, Reschedule, Cancel, CommitEdit,
           TimePasses, Reserve, CommitReservation, StartTool, AuditFails, ToolReturns,
           Finalize, CommitFinal, FireCancelled, OtherCommit, Stop, Shutdown, Crash,
           Reconcile, StartLoop, fireVars, history
  <2>2. ~rows[s].cancelled
    BY <2>1 DEF Tick, Selectable
  <2>3. QED
    BY <2>2 DEF CancelHolds
<1>2. Init => Typed /\ CancelHolds
  BY TypedInit, CancelInit
<1>3. Typed /\ CancelHolds /\ [Next]_vars => (Typed /\ CancelHolds)'
  BY TypedNext, CancelNext
<1>4. QED
  BY <1>1, <1>2, <1>3, PTL DEF Spec, CancelledNeverSelected, WithdrawnStaysOut

-----------------------------------------------------------------------------
(* A one-shot that is done stays done.                                     *)

\* cancelled_at that no user asked for is the mark of a finished one-shot: it is
\* never taken back, and no fire of the row is before its terminal UPDATE.
DoneHolds ==
  \A s \in Schedules \ asked :
    /\ disk[s].cancelled => disk[s].known /\ rows[s].cancelled
    /\ rows[s].cancelled => rows[s].known /\ phase[s] \in {"idle", "finalizing"}

LEMMA InsertedIsLive ==
  ASSUME NEW w \in Whens
  PROVE  ~Inserted(w).cancelled
BY DEF Inserted

LEMMA ReclaimedCancel ==
  ASSUME NEW r \in Row
  PROVE  Reclaimed(r).cancelled <=> r.cancelled
BY DEF Reclaimed, Row

LEMMA DoneInit == Init => DoneHolds
<1>1. ~Blank.cancelled
  BY DEF Blank
<1>2. ASSUME Init, NEW s \in Schedules
      PROVE  ~disk[s].cancelled /\ ~rows[s].cancelled
  <2>1. disk[s] = Blank /\ rows[s] = Blank
    BY <1>2 DEF Init
  <2>2. QED
    BY <1>1, <2>1
<1>3. QED
  BY <1>2 DEF DoneHolds

LEMMA DoneNext == Typed /\ DoneHolds /\ FiredRowKnown /\ [Next]_vars => DoneHolds'
<1> SUFFICES ASSUME Typed, DoneHolds, FiredRowKnown, [Next]_vars
             PROVE  DoneHolds'
  OBVIOUS
<1> USE DEF Typed, TypeOK, DoneHolds, Serving, Running, history, fireVars
<1>1. ASSUME NEW s \in Schedules, NEW w \in Whens, Create(s, w)
      PROVE  DoneHolds'
  BY <1>1, InsertedRow, InsertedIsLive DEF Create
<1>2. ASSUME NEW s \in Schedules, NEW w \in Whens, Reschedule(s, w)
      PROVE  DoneHolds'
  <2>1. \A t \in Schedules :
          /\ rows[t] \in Row
          /\ rows'[t] = rows[t] \/ rows'[t] = Rescheduled(rows[t], w)
    BY <1>2 DEF Reschedule
  <2>2. UNCHANGED <<disk, phase, asked>>
    BY <1>2 DEF Reschedule
  <2>3. \A r \in Row : /\ Rescheduled(r, w).known = r.known
                       /\ Rescheduled(r, w).cancelled = r.cancelled
    BY RescheduledRow
  <2>4. QED
    BY <2>1, <2>2, <2>3
<1>3. ASSUME NEW s \in Schedules, Cancel(s)
      PROVE  DoneHolds'
  BY <1>3 DEF Cancel
<1>4. ASSUME NEW s \in Schedules, CommitEdit(s)
      PROVE  DoneHolds'
  BY <1>4 DEF CommitEdit
<1>5. ASSUME NEW s \in Schedules, TimePasses(s)
      PROVE  DoneHolds'
  <2>1. \A t \in Schedules :
          /\ rows[t] \in Row
          /\ rows'[t] = rows[t] \/ rows'[t] = Ripe(rows[t])
          /\ disk[t] \in Row
          /\ disk'[t] = disk[t] \/ disk'[t] = Ripe(disk[t])
    BY <1>5 DEF TimePasses
  <2>2. UNCHANGED <<phase, asked>>
    BY <1>5 DEF TimePasses
  <2>3. QED
    BY <2>1, <2>2, RipeRow
<1>6. ASSUME NEW s \in Schedules, Reserve(s)
      PROVE  DoneHolds'
  BY <1>6, ReservedRow DEF Reserve
<1>7. ASSUME NEW s \in Schedules, CommitReservation(s)
      PROVE  DoneHolds'
  BY <1>7 DEF CommitReservation
<1>8. ASSUME NEW s \in Schedules, StartTool(s) \/ AuditFails(s) \/ ToolReturns(s)
      PROVE  DoneHolds'
  BY <1>8 DEF StartTool, AuditFails, ToolReturns
<1>9. ASSUME NEW s \in Schedules, Finalize(s)
      PROVE  DoneHolds'
  BY <1>9, EndedRow DEF Finalize, FiredRowKnown
<1>10. ASSUME NEW s \in Schedules, CommitFinal(s)
      PROVE  DoneHolds'
  BY <1>10 DEF CommitFinal
<1>11. ASSUME NEW s \in Schedules, FireCancelled(s)
      PROVE  DoneHolds'
  BY <1>11 DEF FireCancelled
<1>12. CASE OtherCommit
  BY <1>12 DEF OtherCommit
<1>13. CASE Tick
  BY <1>13 DEF Tick, Selectable
<1>14. CASE Stop
  BY <1>14 DEF Stop
<1>15. CASE Shutdown
  BY <1>15 DEF Shutdown
<1>16. CASE Crash
  BY <1>16 DEF Crash
<1>17. CASE Reconcile
  BY <1>17, ReclaimedRow, ReclaimedCancel DEF Reconcile
<1>18. CASE StartLoop
  BY <1>18 DEF StartLoop
<1>19. CASE UNCHANGED vars
  BY <1>19 DEF vars
<1>20. QED
  BY <1>1, <1>2, <1>3, <1>4, <1>5, <1>6, <1>7, <1>8, <1>9, <1>10, <1>11, <1>12,
     <1>13, <1>14, <1>15, <1>16, <1>17, <1>18, <1>19
  DEF Next, Edit, FireStep

\* The tool of a one-shot whose terminal state was committed never starts again.
THEOREM OneShotFiresOnce == Spec => DoneOneShotNeverRefires
<1> DEFINE NoRefire == \A s \in Schedules :
      disk[s].cancelled /\ s \notin asked => ~(phase[s] = "reserved" /\ phase'[s] = "running")
<1> DEFINE Inv == SchedulerInv /\ DoneHolds
<1>1. Inv /\ [Next]_vars => [NoRefire]_vars
  BY DEF DoneHolds
<1>2. Init => Inv
  BY InvInit, DoneInit
<1>3. Inv /\ [Next]_vars => Inv'
  BY InvNext, DoneNext DEF SchedulerInv, Typed
<1>4. QED
  BY <1>1, <1>2, <1>3, PTL DEF Spec, DoneOneShotNeverRefires, DoneStaysOut

\* The three invariants of the reservation together.
THEOREM ReservationsHold == Spec => []ReservationHolds
BY ReservationIsWriteAhead, FireSurvivesCrashes, ReservationsAreReleased, PTL DEF ReservationHolds

\* A cancelled schedule and a finished one-shot never fire again, in any behaviour.
THEOREM OverIsOver == Spec => OverNeverFires
BY CancelIsFinal, OneShotFiresOnce, PTL
DEF CancelledNeverSelected, DoneOneShotNeverRefires, OverNeverFires
=============================================================================
