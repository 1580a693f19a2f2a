------------------------------ MODULE Scheduler ------------------------------
(***************************************************************************)
(* The background scheduler of lifeman (scheduler.py) together with the    *)
(* schedule routes that edit the same rows (routes/schedules.py).          *)
(*                                                                         *)
(* Everything runs in one asyncio process on ONE sqlite connection         *)
(* (db.get_db).  A statement and the commit that follows it are two        *)
(* awaits, and the transaction belongs to the connection, not to the       *)
(* coroutine.  Hence two copies of the table:                              *)
(*   rows - what the connection reads, uncommitted statements included;    *)
(*   disk - what a crash leaves behind.                                    *)
(* Any coroutine's commit copies all of rows to disk.                      *)
(*                                                                         *)
(* Time is abstract: a row carries the when_spec its fires_at was computed *)
(* from ("at") and whether that instant has passed ("due").                *)
(***************************************************************************)
EXTENDS Naturals

CONSTANTS
  Schedules,    \* identifiers of schedule rows
  OneShot,      \* when_specs for which _compute_next_fire returns None
  Recurring,    \* when_specs with a next occurrence
  MaxEdits,     \* bound on the edits (create, reschedule, cancel) of a behaviour
  MaxOutages    \* bound on crashes and clean shutdowns

ASSUME ConstantsAssumption ==
  /\ OneShot \cap Recurring = {}
  /\ OneShot \cup Recurring # {}
  /\ MaxEdits \in Nat
  /\ MaxOutages \in Nat

Whens == OneShot \cup Recurring

\* fires_at of a running one-shot: now + 1h, derived from no when_spec.
InOneHour == "in one hour"
ASSUME InOneHourIsNoWhen == InOneHour \notin Whens

Row == [known: BOOLEAN, when: Whens, at: Whens \cup {InOneHour},
        due: BOOLEAN, started: BOOLEAN, cancelled: BOOLEAN]

Phases == {"idle", "selected", "reserving", "reserved", "running",
           "finishing", "finalizing"}

VARIABLES
  rows,       \* the schedules table as the connection sees it
  disk,       \* the committed table
  mode,       \* "down", "starting", "up" or "stopping"
  phase,      \* where the fire of each schedule is suspended
  snapshot,   \* the when_spec of the row as the tick read it
  cancelling, \* fires that the cancellation of the loop task has yet to reach
  edit,       \* the route handler between its UPDATE and its commit
  \* what happened, for the properties
  ran,        \* the latest fire: its tool "started" (and its end was not seen), was
              \* "aborted" (by a shutdown), the fire was "refused" (before its tool
              \* started), or "none" (nothing is owed)
  moved,      \* schedules that were rescheduled while live, and not selected since
  asked,      \* schedules the user asked to cancel
  withdrawn,  \* those whose cancel was acknowledged
  edits, outages

vars == <<rows, disk, mode, phase, snapshot, cancelling, edit,
          ran, moved, asked, withdrawn, edits, outages>>

fireVars == <<phase, snapshot, cancelling>>
history  == <<ran, moved, asked, withdrawn, edits, outages>>

Edits == {"none", "create", "reschedule", "cancel"}

AnyWhen == CHOOSE w \in Whens : TRUE

\* No such row yet.
Blank == [known |-> FALSE, when |-> AnyWhen, at |-> AnyWhen,
          due |-> FALSE, started |-> FALSE, cancelled |-> FALSE]

-----------------------------------------------------------------------------
(* What each statement makes of a row r.                                   *)

\* INSERT of create_schedule.
Inserted(w) == [known |-> TRUE, when |-> w, at |-> w,
                due |-> FALSE, started |-> FALSE, cancelled |-> FALSE]

\* The UPDATE of reschedule looks at neither cancelled_at nor last_started_at.
Rescheduled(r, w) == [r EXCEPT !.when = w, !.at = w, !.due = FALSE]

Cancelled(r) == [r EXCEPT !.cancelled = TRUE]

\* The instant fires_at is reached.
Ripe(r) == [r EXCEPT !.due = TRUE]

\* _compute_next_fire: the fires_at to reserve while the tool runs.
ReservedUntil(w) == IF w \in Recurring THEN w ELSE InOneHour

\* The reserving UPDATE of _fire, from the when_spec w that the tick read.
Reserved(r, w) == [r EXCEPT !.at = ReservedUntil(w), !.due = FALSE, !.started = TRUE]

\* The terminal UPDATE of _fire.  A recurring row gets the next_fire computed at
\* the reservation, whatever the row holds by now; a one-shot is done.
Ended(r, w) ==
  IF w \in Recurring
  THEN [r EXCEPT !.at = w, !.due = r.due /\ r.at = w, !.started = FALSE]
  ELSE [r EXCEPT !.cancelled = TRUE, !.started = FALSE]

\* Slip: the marker is cleared and fires_at left in the future.
ReclaimedNotDue(r) ==
  IF r.started /\ ~r.cancelled THEN [r EXCEPT !.started = FALSE] ELSE r

\* _reconcile_crashed_fires: a fire that never completed is due now.
Reclaimed(r) ==
  IF r.started /\ ~r.cancelled
  THEN [r EXCEPT !.due = TRUE, !.started = FALSE]
  ELSE r

-----------------------------------------------------------------------------
Init ==
  /\ rows = [s \in Schedules |-> Blank]
  /\ disk = rows
  /\ mode = "down"
  /\ phase = [s \in Schedules |-> "idle"]
  /\ snapshot = [s \in Schedules |-> AnyWhen]
  /\ cancelling = {}
  /\ edit = [s \in Schedules |-> "none"]
  /\ ran = [s \in Schedules |-> "none"]
  /\ moved = {}
  /\ asked = {}
  /\ withdrawn = {}
  /\ edits = 0
  /\ outages = 0

Serving == mode = "up"
Running == mode \in {"up", "stopping"}

-----------------------------------------------------------------------------
(* The schedule routes.  Each is one statement, then a commit.             *)

\* create_schedule: INSERT.
Create(s, w) ==
  /\ Serving /\ edit[s] = "none" /\ edits < MaxEdits
  /\ ~rows[s].known
  /\ rows' = [rows EXCEPT ![s] = Inserted(w)]
  /\ edit' = [edit EXCEPT ![s] = "create"]
  /\ edits' = edits + 1
  /\ UNCHANGED <<disk, mode, fireVars, ran, moved, asked, withdrawn, outages>>

\* reschedule.
Reschedule(s, w) ==
  /\ Serving /\ edit[s] = "none" /\ edits < MaxEdits
  /\ rows[s].known
  /\ rows' = [rows EXCEPT ![s] = Rescheduled(rows[s], w)]
  /\ edit' = [edit EXCEPT ![s] = "reschedule"]
  /\ edits' = edits + 1
  /\ ran' = [ran EXCEPT ![s] = IF phase[s] \in {"idle", "selected"} THEN "none" ELSE @]
  /\ moved' = IF rows[s].cancelled THEN moved ELSE moved \cup {s}
  /\ UNCHANGED <<disk, mode, fireVars, asked, withdrawn, outages>>

\* cancel_schedule.
Cancel(s) ==
  /\ Serving /\ edit[s] = "none" /\ edits < MaxEdits
  /\ rows[s].known
  /\ rows' = [rows EXCEPT ![s] = Cancelled(rows[s])]
  /\ edit' = [edit EXCEPT ![s] = "cancel"]
  /\ edits' = edits + 1
  /\ asked' = asked \cup {s}
  /\ UNCHANGED <<disk, mode, fireVars, ran, moved, withdrawn, outages>>

\* The handler's own commit, after which it answers the client.
CommitEdit(s) ==
  /\ Running /\ edit[s] # "none"
  /\ disk' = rows
  /\ edit' = [edit EXCEPT ![s] = "none"]
  /\ withdrawn' = IF edit[s] = "cancel" THEN withdrawn \cup {s} ELSE withdrawn
  /\ UNCHANGED <<rows, mode, fireVars, ran, moved, asked, edits, outages>>

\* Some other coroutine commits on the shared connection.
OtherCommit ==
  /\ Running /\ rows # disk
  /\ disk' = rows
  /\ UNCHANGED <<rows, mode, fireVars, edit, history>>

\* The same fires_at comes due in both copies of the table.
TimePasses(s) ==
  /\ rows[s].known /\ ~rows[s].due /\ ~rows[s].cancelled
  /\ rows' = [rows EXCEPT ![s] = Ripe(rows[s])]
  /\ disk' = IF disk[s].known /\ disk[s].at = rows[s].at
             THEN [disk EXCEPT ![s] = Ripe(disk[s])]
             ELSE disk
  /\ UNCHANGED <<mode, fireVars, edit, history>>

-----------------------------------------------------------------------------
(* The loop: a tick selects the due rows and awaits all of their fires.    *)

\* Slip: the SELECT forgets cancelled_at IS NULL.
SelectableThoughCancelled(s) == rows[s].known /\ rows[s].due

Selectable(s) == rows[s].known /\ rows[s].due /\ ~rows[s].cancelled

\* _tick: SELECT, then gather.  The loop awaits the gather before it sleeps, so a
\* tick starts only when no fire of the last one is left, and _in_flight is empty.
\* A tick that selects nothing changes nothing.
Tick ==
  LET chosen == {s \in Schedules : Selectable(s)}
  IN  /\ mode = "up" /\ \A s \in Schedules : phase[s] = "idle"
      /\ chosen # {}
      /\ phase' = [s \in Schedules |-> IF s \in chosen THEN "selected" ELSE "idle"]
      /\ snapshot' = [s \in Schedules |-> IF s \in chosen THEN rows[s].when ELSE snapshot[s]]
      /\ moved' = moved \ chosen
      /\ UNCHANGED <<rows, disk, mode, cancelling, edit, ran, asked, withdrawn,
                     edits, outages>>

\* _fire: the reserving UPDATE, issued for the row that was read by the tick.
Reserve(s) ==
  /\ Running /\ phase[s] = "selected"
  /\ rows' = [rows EXCEPT ![s] = Reserved(rows[s], snapshot[s])]
  /\ phase' = [phase EXCEPT ![s] = "reserving"]
  /\ UNCHANGED <<disk, mode, snapshot, cancelling, edit, history>>

\* The commit of the reservation.
CommitReservation(s) ==
  /\ Running /\ phase[s] = "reserving" /\ s \notin cancelling
  /\ disk' = rows
  /\ phase' = [phase EXCEPT ![s] = "reserved"]
  /\ UNCHANGED <<rows, mode, snapshot, cancelling, edit, history>>

\* audit.log and bus.publish went well: _execute_tool starts the tool.
StartTool(s) ==
  /\ Running /\ phase[s] = "reserved" /\ s \notin cancelling
  /\ phase' = [phase EXCEPT ![s] = "running"]
  /\ ran' = [ran EXCEPT ![s] = "started"]
  /\ UNCHANGED <<rows, disk, mode, snapshot, cancelling, edit,
                 moved, asked, withdrawn, edits, outages>>

\* audit.log or bus.publish raises: straight to the finally block.
AuditFails(s) ==
  /\ Running /\ phase[s] = "reserved" /\ s \notin cancelling
  /\ phase' = [phase EXCEPT ![s] = "finishing"]
  /\ ran' = [ran EXCEPT ![s] = "refused"]
  /\ UNCHANGED <<rows, disk, mode, snapshot, cancelling, edit,
                 moved, asked, withdrawn, edits, outages>>

\* _execute_tool returns a result, or raises and the error is the result.
ToolReturns(s) ==
  /\ Running /\ phase[s] = "running" /\ s \notin cancelling
  /\ phase' = [phase EXCEPT ![s] = "finishing"]
  /\ ran' = [ran EXCEPT ![s] = "none"]
  /\ UNCHANGED <<rows, disk, mode, snapshot, cancelling, edit,
                 moved, asked, withdrawn, edits, outages>>

\* The finally block: the terminal UPDATE.
Finalize(s) ==
  /\ Running /\ phase[s] = "finishing"
  /\ rows' = [rows EXCEPT ![s] = Ended(rows[s], snapshot[s])]
  /\ phase' = [phase EXCEPT ![s] = "finalizing"]
  /\ UNCHANGED <<disk, mode, snapshot, cancelling, edit, history>>

\* Slip: the id is never discarded from _in_flight.
CommitFinalUnreleased(s) ==
  /\ Running /\ phase[s] = "finalizing" /\ s \notin cancelling
  /\ disk' = rows
  /\ UNCHANGED <<rows, mode, fireVars, edit, history>>

\* Its commit; _fire_and_release then drops the id from _in_flight.
CommitFinal(s) ==
  /\ Running /\ phase[s] = "finalizing" /\ s \notin cancelling
  /\ disk' = rows
  /\ phase' = [phase EXCEPT ![s] = "idle"]
  /\ snapshot' = [snapshot EXCEPT ![s] = AnyWhen]
  /\ UNCHANGED <<rows, mode, cancelling, edit, history>>

-----------------------------------------------------------------------------
(* Shutdown, crash and start.                                              *)

\* stop: cancel the loop task; the gather passes it on to every fire.
Stop ==
  /\ mode = "up" /\ outages < MaxOutages
  /\ \A s \in Schedules : edit[s] = "none"
  /\ mode' = "stopping"
  /\ cancelling' = {s \in Schedules : phase[s] # "idle"}
  /\ outages' = outages + 1
  /\ UNCHANGED <<rows, disk, phase, snapshot, edit, ran, moved, asked, withdrawn,
                 edits>>

\* CancelledError in a fire.  Before the try block and inside the finally block the
\* fire just ends: a commit that was already issued happens, another does not.
\* Inside the try block the finally block runs.
FireCancelled(s) ==
  /\ mode = "stopping" /\ s \in cancelling
  /\ cancelling' = cancelling \ {s}
  /\ \/ /\ phase[s] \in {"selected", "reserving", "finalizing"}
        /\ phase' = [phase EXCEPT ![s] = "idle"]
        /\ snapshot' = [snapshot EXCEPT ![s] = AnyWhen]
        /\ \/ disk' = disk
           \/ phase[s] \in {"reserving", "finalizing"} /\ disk' = rows
        /\ UNCHANGED ran
     \/ /\ phase[s] \in {"reserved", "running"}
        /\ phase' = [phase EXCEPT ![s] = "finishing"]
        /\ ran' = [ran EXCEPT ![s] = IF phase[s] = "running" THEN "aborted" ELSE "refused"]
        /\ UNCHANGED <<disk, snapshot>>
  /\ UNCHANGED <<rows, mode, edit, moved, asked, withdrawn, edits, outages>>

\* The loop task has ended and close_db drops what was not committed.
Shutdown ==
  /\ mode = "stopping" /\ \A s \in Schedules : phase[s] = "idle"
  /\ mode' = "down"
  /\ rows' = disk
  /\ UNCHANGED <<disk, fireVars, edit, history>>

\* The process dies.
Crash ==
  /\ mode # "down" /\ outages < MaxOutages
  /\ mode' = "down"
  /\ rows' = disk
  /\ phase' = [s \in Schedules |-> "idle"]
  /\ snapshot' = [s \in Schedules |-> AnyWhen]
  /\ cancelling' = {}
  /\ edit' = [s \in Schedules |-> "none"]
  /\ outages' = outages + 1
  /\ moved' = {s \in moved : edit[s] # "reschedule"}
  /\ UNCHANGED <<disk, ran, asked, withdrawn, edits>>

\* _reconcile_crashed_fires: the UPDATE.
Reconcile ==
  /\ mode = "down"
  /\ mode' = "starting"
  /\ rows' = [s \in Schedules |-> Reclaimed(rows[s])]
  /\ UNCHANGED <<disk, fireVars, edit, history>>

\* Its commit, and the creation of the loop task.
StartLoop ==
  /\ mode = "starting"
  /\ disk' = rows
  /\ mode' = "up"
  /\ UNCHANGED <<rows, fireVars, edit, history>>

-----------------------------------------------------------------------------
Edit(s) ==
  \/ \E w \in Whens : Create(s, w) \/ Reschedule(s, w)
  \/ Cancel(s)
  \/ CommitEdit(s)

FireStep(s) ==
  \/ Reserve(s) \/ CommitReservation(s)
  \/ StartTool(s) \/ AuditFails(s) \/ ToolReturns(s)
  \/ Finalize(s) \/ CommitFinal(s)
  \/ FireCancelled(s)

Next ==
  \/ \E s \in Schedules : Edit(s) \/ TimePasses(s) \/ FireStep(s)
  \/ OtherCommit
  \/ Tick
  \/ Stop \/ Shutdown \/ Crash \/ Reconcile \/ StartLoop

\* A started coroutine is resumed, a tool is killed at its timeout, the clock
\* advances and a stopped process is started again; nothing obliges the user to
\* edit, the process to stop, or another coroutine to commit.  An announcement may
\* fail, but not every time (strong fairness of StartTool).
Fairness ==
  /\ \A s \in Schedules :
       WF_vars(FireStep(s)) /\ WF_vars(TimePasses(s)) /\ WF_vars(CommitEdit(s))
       /\ SF_vars(StartTool(s))
  /\ WF_vars(Tick)
  /\ WF_vars(Shutdown) /\ WF_vars(Reconcile) /\ WF_vars(StartLoop)

Spec == Init /\ [][Next]_vars
FairSpec == Spec /\ Fairness

-----------------------------------------------------------------------------
(* Properties                                                              *)

TypeOK ==
  /\ rows \in [Schedules -> Row]
  /\ disk \in [Schedules -> Row]
  /\ mode \in {"down", "starting", "up", "stopping"}
  /\ phase \in [Schedules -> Phases]
  /\ snapshot \in [Schedules -> Whens]
  /\ cancelling \subseteq Schedules
  /\ edit \in [Schedules -> Edits]
  /\ ran \in [Schedules -> {"none", "started", "aborted", "refused"}]
  /\ moved \subseteq Schedules
  /\ asked \subseteq Schedules
  /\ withdrawn \subseteq asked
  /\ edits \in 0..MaxEdits
  /\ outages \in 0..MaxOutages

\* While a fire is in progress its tool runs under a committed reservation: no
\* crash can find the tool started and the table unaware of it (scheduler._fire
\* commits last_started_at before _execute_tool).
WriteAheadReservation ==
  \A s \in Schedules : phase[s] \in {"reserved", "running", "finishing"} => disk[s].started

\* A tool run that a crash cut short is still owed: the committed row carries
\* the marker that start-up looks for, or is already due again, or the schedule
\* is cancelled (_reconcile_crashed_fires).
PromisedFireSurvives ==
  \A s \in Schedules :
    ran[s] = "started" => disk[s].started \/ disk[s].due \/ disk[s].cancelled

\* A serving process holds no reservation without a fire behind it: no row "sits
\* reserved forever until the next restart" (comment in scheduler._fire).
NoStuckReservation ==
  \A s \in Schedules :
    /\ mode = "up"
    /\ rows[s].started /\ ~rows[s].cancelled
    => phase[s] \in {"reserving", "reserved", "running", "finishing"}

\* A cancel that was acknowledged is final: no later tick selects the row, not
\* after the fire that was in flight ends, and not after a crash and recovery.
WithdrawnStaysOut ==
  \A s \in Schedules : phase[s] = "idle" /\ phase'[s] = "selected" => s \notin withdrawn
CancelledNeverSelected == [][WithdrawnStaysOut]_vars

\* Once the terminal state of a one-shot is committed its tool never starts
\* again, whatever crashes and restarts follow (terminal UPDATE of scheduler._fire).
DoneStaysOut ==
  \A s \in Schedules :
    disk[s].cancelled /\ s \notin asked => ~(phase[s] = "reserved" /\ phase'[s] = "running")
DoneOneShotNeverRefires == [][DoneStaysOut]_vars

\* The tool of a schedule that waits for its time is started; nothing but the user takes
\* that away, by a cancel or by a new when_spec (the row of a creation that
\* no commit followed is gone with the process).  For a one-shot there is one exception: its only
\* fire is refused before its tool starts, and the row is marked done.
Waiting(s, whens) ==
  rows[s].known /\ ~rows[s].cancelled /\ phase[s] = "idle" /\ rows[s].when \in whens

StartedOrTakenBack(s, whens) ==
  phase[s] = "running" \/ s \in asked \/ ~rows[s].known \/ rows[s].when \notin whens

LiveScheduleFires ==
  \A s \in Schedules :
    /\ Waiting(s, Recurring) ~> StartedOrTakenBack(s, Recurring)
    /\ Waiting(s, OneShot) ~> \/ StartedOrTakenBack(s, OneShot)
                              \/ rows[s].cancelled /\ ran[s] = "refused"

\* docs/concepts/scheduling.md:104: the reschedule route changes the fire time.  When no
\* fire is in progress, a live schedule that was rescheduled and not selected since has the
\* time it was given, and is live.
RescheduleStands ==
  \A s \in moved :
    phase[s] = "idle" /\ edit[s] = "none" =>
      rows[s].at = rows[s].when /\ (rows[s].cancelled => s \in asked)

\* A fire that a tick owes is neither lost nor stuck: its tool runs under a committed
\* reservation, a crash leaves it owed, and a serving process releases what it reserved.
ReservationHolds == WriteAheadReservation /\ PromisedFireSurvives /\ NoStuckReservation

\* What is over stays over: neither a schedule whose cancel was acknowledged nor a
\* one-shot that is done fires again, whatever edits, fires and outages come between.
OverNeverFires == [][WithdrawnStaysOut /\ DoneStaysOut]_vars
=============================================================================
