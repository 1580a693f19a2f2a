------------------------------- MODULE Outputs -------------------------------
(***************************************************************************)
(* Output delivery: emit_output and cancel_output (outputs/api.py), which  *)
(* contend for the rows of output_deliveries, the channels they call       *)
(* (outputs/channels/devices.py), and a device that reconciles through     *)
(* GET /outputs/pending (routes/outputs.py).                               *)
(*                                                                         *)
(* A statement and the commit that follows it are one step.  All           *)
(* coroutines read the same connection, so the commit shows them nothing   *)
(* new, and every call of a channel comes after a commit: a crash between  *)
(* the two is a crash before the statement.                                *)
(***************************************************************************)
EXTENDS Naturals, Sequences, FiniteSets

CONSTANTS
  Events,      \* calls of emit_output
  Channels,    \* channel names
  Device,      \* the channel of the device that polls
  Decisions,   \* what the router may dispatch to: sequences of channels
  Recallable,  \* channels that stay registered and whose cancel takes the event back
  Cancels,     \* calls of cancel_output
  PageSize,    \* the limit of GET /outputs/pending
  MaxCrashes   \* bound on the crashes of a behaviour

ASSUME ConstantsAssumption ==
  /\ Device \in Channels
  /\ Recallable \subseteq Channels
  /\ Decisions \subseteq Seq(Channels)
  /\ \A d \in Decisions : \A i, j \in 1..Len(d) : i # j => d[i] # d[j]
  /\ IsFiniteSet(Events) /\ Events # {}
  /\ PageSize \in Nat \ {0}
  /\ MaxCrashes \in Nat

Deliveries == Events \X Channels

Lives == {"absent", "in_flight", "delivered", "failed", "cancel_pending", "cancelled"}

EmitPhases   == {"idle", "recorded", "dispatching", "inserted", "presented", "broken",
                 "missed", "recalled", "done", "lost"}
CancelPhases == {"idle", "claimed", "flipping", "hooking", "done", "lost"}

VARIABLES
  emit,    \* where each emit_output is
  todo,    \* the channels it has still to dispatch to, the current one first
  row,     \* output_deliveries.status
  at,      \* output_deliveries.delivered_at of the device's rows
  mark,    \* the delivered_at that the device channel stamped on the wire
  clock,   \* the last time stamp given to a row of the device
  shown,   \* deliveries that the channel presents to the user
  told,    \* how often the channel's cancel was called for each delivery
  cancel,  \* where each cancel_output is
  event,   \* the event it recalls
  left,    \* the channels of the delivered rows it has yet to flip
  current, \* the channel whose row it flipped
  cursor,  \* the device's ?since=
  got,     \* the events that the device was handed
  \* what happened, for the properties
  called,  \* the channels whose rows were in flight or delivered when a cancel began
  late,    \* events settled with a time stamp that the cursor had passed
  crashes

vars == <<emit, todo, row, at, mark, clock, shown, told, cancel, event, left, current,
          cursor, got, called, late, crashes>>

emitter   == <<emit, todo, mark>>
table     == <<row, at>>
channel   == <<shown, told>>
canceller == <<cancel, event, left, current>>
device    == <<cursor, got>>
history   == <<called, late, crashes>>

Init ==
  /\ emit = [e \in Events |-> "idle"]
  /\ todo = [e \in Events |-> <<>>]
  /\ row = [d \in Deliveries |-> "absent"]
  /\ at = [e \in Events |-> 0]
  /\ mark = [e \in Events |-> 0]
  /\ clock = 0
  /\ shown = {}
  /\ told = [d \in Deliveries |-> 0]
  /\ cancel = [k \in Cancels |-> "idle"]
  /\ event = [k \in Cancels |-> CHOOSE e \in Events : TRUE]
  /\ left = [k \in Cancels |-> {}]
  /\ current = [k \in Cancels |-> Device]
  /\ cursor = 0
  /\ got = {}
  /\ called = [k \in Cancels |-> {}]
  /\ late = {}
  /\ crashes = 0

\* The delivery that emit_output is at.
Here(e) == <<e, Head(todo[e])>>

\* A new time stamp, if it is one that the device sees.
Stamp(c) == clock' = IF c = Device THEN clock + 1 ELSE clock

-----------------------------------------------------------------------------
(* emit_output.                                                            *)

\* The INSERT into output_events.
Record(e) ==
  /\ emit[e] = "idle"
  /\ emit' = [emit EXCEPT ![e] = "recorded"]
  /\ UNCHANGED <<todo, mark, table, clock, channel, canceller, device, history>>

\* _decide_route and its audit row: the event is expired, or goes to some channels.
Decide(e) ==
  /\ emit[e] = "recorded"
  /\ \/ emit' = [emit EXCEPT ![e] = "done"] /\ UNCHANGED todo
     \/ /\ emit' = [emit EXCEPT ![e] = "dispatching"]
        /\ \E d \in Decisions : todo' = [todo EXCEPT ![e] = d]
  /\ UNCHANGED <<mark, table, clock, channel, canceller, device, history>>

\* resolve_channel returns None: the channel is dropped.
SkipUnresolved(e) ==
  /\ emit[e] = "dispatching" /\ todo[e] # <<>>
  /\ todo' = [todo EXCEPT ![e] = Tail(@)]
  /\ UNCHANGED <<emit, mark, table, clock, channel, canceller, device, history>>

\* Slip: the row is inserted as delivered.
InsertDelivered(e) ==
  /\ emit[e] = "dispatching" /\ todo[e] # <<>>
  /\ row' = [row EXCEPT ![Here(e)] = "delivered"]
  /\ Stamp(Head(todo[e]))
  /\ at' = IF Head(todo[e]) = Device THEN [at EXCEPT ![e] = clock'] ELSE at
  /\ emit' = [emit EXCEPT ![e] = "inserted"]
  /\ UNCHANGED <<todo, mark, channel, canceller, device, history>>

\* The INSERT of the row, in_flight, before the channel is called.
InsertRow(e) ==
  /\ emit[e] = "dispatching" /\ todo[e] # <<>>
  /\ row' = [row EXCEPT ![Here(e)] = "in_flight"]
  /\ Stamp(Head(todo[e]))
  /\ at' = IF Head(todo[e]) = Device THEN [at EXCEPT ![e] = clock'] ELSE at
  /\ emit' = [emit EXCEPT ![e] = "inserted"]
  /\ UNCHANGED <<todo, mark, channel, canceller, device, history>>

\* deliver: the channel stamps and publishes the event; it has not returned yet.
Present(e) ==
  /\ emit[e] = "inserted"
  /\ shown' = shown \cup {Here(e)}
  /\ Stamp(Head(todo[e]))
  /\ mark' = IF Head(todo[e]) = Device THEN [mark EXCEPT ![e] = clock'] ELSE mark
  /\ emit' = [emit EXCEPT ![e] = "presented"]
  /\ UNCHANGED <<todo, table, told, canceller, device, history>>

\* deliver raises or reports a failure, maybe after the event was published.
DeliverFails(e) ==
  /\ emit[e] \in {"inserted", "presented"}
  /\ emit' = [emit EXCEPT ![e] = "broken"]
  /\ UNCHANGED <<todo, mark, table, clock, channel, canceller, device, history>>

\* Slip: the UPDATE lacks "AND status = 'in_flight'".
SettleAnyRow(e) ==
  /\ emit[e] = "presented"
  /\ row' = [row EXCEPT ![Here(e)] = "delivered"]
  /\ at' = IF Head(todo[e]) = Device THEN [at EXCEPT ![e] = mark[e]] ELSE at
  /\ late' = IF Head(todo[e]) = Device /\ mark[e] <= cursor THEN late \cup {e} ELSE late
  /\ todo' = [todo EXCEPT ![e] = Tail(@)]
  /\ emit' = [emit EXCEPT ![e] = "dispatching"]
  /\ UNCHANGED <<mark, clock, channel, canceller, device, called, crashes>>

\* The UPDATE ... WHERE status = 'in_flight' after a delivery.
Settle(e) ==
  /\ emit[e] = "presented" /\ row[Here(e)] = "in_flight"
  /\ row' = [row EXCEPT ![Here(e)] = "delivered"]
  /\ at' = IF Head(todo[e]) = Device THEN [at EXCEPT ![e] = mark[e]] ELSE at
  /\ late' = IF Head(todo[e]) = Device /\ mark[e] <= cursor THEN late \cup {e} ELSE late
  /\ todo' = [todo EXCEPT ![e] = Tail(@)]
  /\ emit' = [emit EXCEPT ![e] = "dispatching"]
  /\ UNCHANGED <<mark, clock, channel, canceller, device, called, crashes>>

\* Its rowcount is 0: a cancel claimed the row.
SettleMissed(e) ==
  /\ emit[e] = "presented" /\ row[Here(e)] # "in_flight"
  /\ emit' = [emit EXCEPT ![e] = "missed"]
  /\ UNCHANGED <<todo, mark, table, clock, channel, canceller, device, history>>

\* The same UPDATE after a failed delivery; a row that was claimed stays as it is.
SettleFailed(e) ==
  /\ emit[e] = "broken"
  /\ row' = IF row[Here(e)] = "in_flight" THEN [row EXCEPT ![Here(e)] = "failed"] ELSE row
  /\ todo' = [todo EXCEPT ![e] = Tail(@)]
  /\ emit' = [emit EXCEPT ![e] = "dispatching"]
  /\ UNCHANGED <<mark, at, clock, channel, canceller, device, history>>

\* channel.cancel of delivery d.
Recall(d) ==
  /\ told' = [told EXCEPT ![d] = @ + 1]
  /\ shown' = IF d[2] \in Recallable THEN shown \ {d} ELSE shown

\* Slip: the row is marked and the channel not told.
RecallOwnSkipped(e) ==
  /\ emit[e] = "missed"
  /\ emit' = [emit EXCEPT ![e] = "recalled"]
  /\ UNCHANGED <<todo, mark, table, clock, channel, canceller, device, history>>

\* The post-deliver cancel.
RecallOwn(e) ==
  /\ emit[e] = "missed"
  /\ Recall(Here(e))
  /\ emit' = [emit EXCEPT ![e] = "recalled"]
  /\ UNCHANGED <<todo, mark, table, clock, canceller, device, history>>

\* Its UPDATE.  delivered_at keeps the time of the INSERT.
MarkCancelled(e) ==
  /\ emit[e] = "recalled"
  /\ row' = [row EXCEPT ![Here(e)] = "cancelled"]
  /\ late' = IF Head(todo[e]) = Device /\ at[e] <= cursor THEN late \cup {e} ELSE late
  /\ todo' = [todo EXCEPT ![e] = Tail(@)]
  /\ emit' = [emit EXCEPT ![e] = "dispatching"]
  /\ UNCHANGED <<mark, at, clock, channel, canceller, device, called, crashes>>

FinishEmit(e) ==
  /\ emit[e] = "dispatching" /\ todo[e] = <<>>
  /\ emit' = [emit EXCEPT ![e] = "done"]
  /\ UNCHANGED <<todo, mark, table, clock, channel, canceller, device, history>>

-----------------------------------------------------------------------------
(* cancel_output.                                                          *)

\* Claim every row in flight.
Claim(k, e) ==
  /\ cancel[k] = "idle" /\ emit[e] # "idle"
  /\ row' = [d \in Deliveries |->
               IF d[1] = e /\ row[d] = "in_flight" THEN "cancel_pending" ELSE row[d]]
  /\ called' = [called EXCEPT ![k] =
                 {c \in Channels : row[<<e, c>>] \in {"in_flight", "delivered"}}]
  /\ event' = [event EXCEPT ![k] = e]
  /\ cancel' = [cancel EXCEPT ![k] = "claimed"]
  /\ UNCHANGED <<emitter, at, clock, channel, left, current, device, late, crashes>>

\* SELECT the delivered rows.
ReadDelivered(k) ==
  /\ cancel[k] = "claimed"
  /\ left' = [left EXCEPT ![k] = {c \in Channels : row[<<event[k], c>>] = "delivered"}]
  /\ cancel' = [cancel EXCEPT ![k] = "flipping"]
  /\ UNCHANGED <<emitter, table, clock, channel, event, current, device, history>>

\* UPDATE ... WHERE status = 'delivered' of one of them; rowcount 0 means that
\* someone else cancelled it.
Flip(k) ==
  /\ cancel[k] = "flipping"
  /\ \E c \in left[k] :
       /\ left' = [left EXCEPT ![k] = @ \ {c}]
       /\ IF row[<<event[k], c>>] = "delivered"
          THEN /\ row' = [row EXCEPT ![<<event[k], c>>] = "cancelled"]
               /\ current' = [current EXCEPT ![k] = c]
               /\ cancel' = [cancel EXCEPT ![k] = "hooking"]
          ELSE UNCHANGED <<row, current, cancel>>
  /\ UNCHANGED <<emitter, at, clock, channel, event, device, history>>

\* channel.cancel of the row just flipped, unless resolve_channel returns None.
Hook(k) ==
  /\ cancel[k] = "hooking"
  /\ \/ Recall(<<event[k], current[k]>>)
     \/ current[k] \notin Recallable /\ UNCHANGED channel
  /\ cancel' = [cancel EXCEPT ![k] = "flipping"]
  /\ UNCHANGED <<emitter, table, clock, event, left, current, device, history>>

\* output_events.cancelled_at, audit, answer.
FinishCancel(k) ==
  /\ cancel[k] = "flipping" /\ left[k] = {}
  /\ cancel' = [cancel EXCEPT ![k] = "done"]
  /\ UNCHANGED <<emitter, table, clock, channel, event, left, current, device, history>>

-----------------------------------------------------------------------------
(* The device and the process.                                             *)

\* Rows with delivered = 1 after the cursor.
Pending(since) ==
  {e \in Events : row[<<e, Device>>] \in {"delivered", "cancelled"} /\ at[e] > since}

\* Slip: the page is not in the order of delivered_at.
AnyPage(since) ==
  IF Cardinality(Pending(since)) <= PageSize THEN Pending(since)
  ELSE {CHOOSE e \in Pending(since) : \A f \in Pending(since) : at[f] <= at[e]}

\* ORDER BY delivered_at LIMIT PageSize.
Page(since) ==
  {e \in Pending(since) :
     Cardinality({f \in Pending(since) : at[f] < at[e]}) < PageSize}

\* GET /outputs/pending?since=cursor.
Poll ==
  /\ Page(cursor) # {}
  /\ got' = got \cup Page(cursor)
  /\ \E e \in Page(cursor) :
       /\ \A f \in Page(cursor) : at[f] <= at[e]
       /\ cursor' = at[e]
  /\ UNCHANGED <<emitter, table, clock, channel, canceller, history>>

\* The process dies and starts again.  No row is reconciled.
Crash ==
  /\ crashes < MaxCrashes
  /\ crashes' = crashes + 1
  /\ emit' = [e \in Events |-> IF emit[e] \in {"idle", "done"} THEN emit[e] ELSE "lost"]
  /\ cancel' = [k \in Cancels |-> IF cancel[k] \in {"idle", "done"} THEN cancel[k] ELSE "lost"]
  /\ UNCHANGED <<todo, mark, table, clock, channel, event, left, current, device, called, late>>

-----------------------------------------------------------------------------
EmitStep(e) ==
  \/ Record(e) \/ Decide(e) \/ SkipUnresolved(e) \/ InsertRow(e) \/ Present(e)
  \/ DeliverFails(e) \/ Settle(e) \/ SettleMissed(e) \/ SettleFailed(e)
  \/ RecallOwn(e) \/ MarkCancelled(e) \/ FinishEmit(e)

CancelStep(k) == ReadDelivered(k) \/ Flip(k) \/ Hook(k) \/ FinishCancel(k)

Next ==
  \/ \E e \in Events : EmitStep(e)
  \/ \E k \in Cancels : (\E e \in Events : Claim(k, e)) \/ CancelStep(k)
  \/ Poll
  \/ Crash

\* Coroutines go on; nobody need cancel or poll.
Fairness ==
  /\ \A e \in Events : WF_vars(EmitStep(e))
  /\ \A k \in Cancels : WF_vars(CancelStep(k))

Spec == Init /\ [][Next]_vars
FairSpec == Spec /\ Fairness

-----------------------------------------------------------------------------
(* Properties                                                              *)

TypeOK ==
  /\ emit \in [Events -> EmitPhases]
  /\ todo \in [Events -> Seq(Channels)]
  /\ row \in [Deliveries -> Lives]
  /\ at \in [Events -> Nat]
  /\ mark \in [Events -> Nat]
  /\ clock \in Nat
  /\ shown \subseteq Deliveries
  /\ told \in [Deliveries -> Nat]
  /\ cancel \in [Cancels -> CancelPhases]
  /\ event \in [Cancels -> Events]
  /\ left \in [Cancels -> SUBSET Channels]
  /\ current \in [Cancels -> Channels]
  /\ cursor \in Nat
  /\ got \subseteq Events
  /\ called \in [Cancels -> SUBSET Channels]
  /\ late \subseteq Events
  /\ crashes \in 0..MaxCrashes

Lifecycle == INSTANCE DeliveryLifecycle WITH life <- row

\* The rows move as docs/concepts/outputs.md draws it, for emit_output and any
\* number of concurrent cancel_output.
FollowsLifecycle == Lifecycle!Spec

\* A channel is told at most once to recall a delivery: the emitter or one of the
\* cancels, never two of them ("so we don't double-cancel", cancel_output).
RecalledOnce == \A d \in Deliveries : told[d] <= 1

\* A row that says cancelled is not presented any more, once whoever moved it had
\* the time to tell the channel, unless a crash came in between.
CancelledIsNotShown ==
  \A d \in Deliveries :
    /\ row[d] = "cancelled" /\ d[2] \in Recallable
    /\ \A k \in Cancels : event[k] = d[1] /\ current[k] = d[2] => cancel[k] \notin {"hooking", "lost"}
    => d \notin shown

\* What a cancel could see it recalls: when it has answered, no delivery that was
\* in flight or delivered as it began is or becomes a delivered one.
CancelSeesAll ==
  \A k \in Cancels : cancel[k] = "done" =>
    \A c \in called[k] : row[<<event[k], c>>] \in {"cancel_pending", "cancelled"}

\* The cursor passes no delivered row of the device without handing it out, except
\* rows that were settled behind the cursor.
PollMissesOnlyLate ==
  \A e \in Events :
    row[<<e, Device>>] \in {"delivered", "cancelled"} /\ at[e] <= cursor
      => e \in got \cup late

\* docs/concepts/outputs.md: from cancel_pending a row goes on to cancelled or to
\* failed.  emit_output leaves it when the delivery failed.
ClaimedRowSettles ==
  \A d \in Deliveries : row[d] = "cancel_pending" ~> row[d] \in {"cancelled", "failed"}
=============================================================================
