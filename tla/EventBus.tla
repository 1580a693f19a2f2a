------------------------------ MODULE EventBus ------------------------------
(***************************************************************************)
(* The SSE bus (sse.py), the /events stream on top of it (routes/ui.py)    *)
(* and the page that listens to it (templates/base.html).                  *)
(*                                                                         *)
(* publish and the head of subscribe take a lock that nobody holds across  *)
(* an await: each is one step.  The generator of subscribe is suspended at *)
(* a yield until the client took the message, and publish goes on          *)
(* meanwhile.                                                              *)
(*                                                                         *)
(* An event is its sequence number, its place in the log of this process.  *)
(***************************************************************************)
EXTENDS Integers, Sequences, FiniteSets

CONSTANTS
  Clients,     \* the listeners: each is the audience of one connection
  Kinds,       \* kinds of events that are published, among KnownKinds
  Capacity,    \* _REPLAY_CAPACITY
  Depth,       \* _QUEUE_DEPTH
  MaxSeq,      \* bound on the events of one process
  MaxRestarts  \* bound on the restarts of the process

\* The base template reloads on a "reload" event, takes the cursor of a "toast", and
\* has no listener for a "quiet" one.
KnownKinds == {"reload", "toast", "quiet"}

ASSUME ConstantsAssumption ==
  /\ Kinds \subseteq KnownKinds
  /\ Capacity \in Nat \ {0} /\ Depth \in Nat \ {0}
  /\ MaxSeq \in Nat /\ MaxRestarts \in Nat

VARIABLES
  log,       \* the events published by this process; _replay is the end of it
  phase,     \* what is on the way to each client, "wait" for queue.get(), "leaving" for
             \* a page that is about to reload
  backlog,   \* the replay that subscribe has yet to yield, the message on the way first
  start,     \* sync_seq
  queue,     \* the subscriber's queue
  hand,      \* the message that queue.get() returned
  dropped,   \* the events that sub.dropped counts
  counted,   \* those in the count of the sse.dropped on its way
  \* the page
  since,     \* since_seq in its URL, 0 for none
  cursor,    \* sessionStorage, 0 for nothing
  synced,    \* sseReplayDone
  reload,    \* the event that made it call location.reload(), 0 for none
  \* what happened, for the properties
  last,      \* the last event received on this connection
  got,       \* events received
  told,      \* events counted in an sse.dropped that was received
  forgotten, \* events dropped and never counted
  passed,    \* events that were no more in the ring when the client connected
  skipped,   \* events that a cursor of an earlier process hid
  reloads,   \* the events that made the client reload
  foreign,   \* clients whose cursor is of an earlier process
  foreignUrl,\* clients whose page's since_seq is
  restarts,
  masters    \* the clients with the audience "master", tabs with a page of the UI; the
             \* others are devices, which keep a cursor likewise and have no page

stream  == <<phase, backlog, start, queue, hand, dropped, counted>>
page    == <<since, cursor, synced, reload>>
history == <<last, got, told, forgotten, passed, skipped, reloads, foreign, foreignUrl>>
vars    == <<log, stream, page, history, restarts, masters>>

None(x) == [c \in Clients |-> x]

Init ==
  /\ log = <<>>
  /\ phase = None("closed") /\ backlog = None(<<>>) /\ start = None(0)
  /\ queue = None(<<>>) /\ hand = None(0) /\ dropped = None({}) /\ counted = None({})
  /\ since = None(0) /\ cursor = None(0) /\ synced = None(FALSE) /\ reload = None(0)
  /\ last = None(0) /\ got = None({}) /\ told = None({}) /\ forgotten = None({})
  /\ passed = None({}) /\ skipped = None({}) /\ reloads = None({})
  /\ foreign = {} /\ foreignUrl = {}
  /\ restarts = 0
  /\ masters \in SUBSET Clients

\* _matches.  A broadcast is for all clients.
Matches(c, msg) == c \in masters \/ c \in msg.to

Mine(c) == {s \in 1..Len(log) : Matches(c, log[s])}

\* What _replay, a deque of bounded length, still holds.
InRing(s) == s > Len(log) - Capacity

-----------------------------------------------------------------------------
(* The bus.                                                                *)

\* put_nowait for every subscriber that matches; a full queue drops the event.
Enqueue(n, msg) ==
  LET Reached(c) == phase[c] # "closed" /\ Matches(c, msg)
  IN /\ queue' = [c \in Clients |-> IF Reached(c) /\ Len(queue[c]) < Depth
                                    THEN Append(queue[c], n) ELSE queue[c]]
     /\ dropped' = [c \in Clients |-> IF Reached(c) /\ Len(queue[c]) >= Depth
                                      THEN dropped[c] \cup {n} ELSE dropped[c]]

\* Slip: subscribe walks the ring itself and not a copy of it.
PublishIntoReplay(kind, to) ==
  LET msg == [kind |-> kind, to |-> to]
  IN /\ Len(log) < MaxSeq
     /\ log' = Append(log, msg)
     /\ Enqueue(Len(log) + 1, msg)
     /\ backlog' = [c \in Clients |-> IF phase[c] = "replay" /\ Matches(c, msg)
                                      THEN Append(backlog[c], Len(log) + 1) ELSE backlog[c]]
     /\ UNCHANGED <<phase, start, hand, counted, page, history, restarts, masters>>

\* publish.
Publish(kind, to) ==
  LET msg == [kind |-> kind, to |-> to]
  IN /\ Len(log) < MaxSeq
     /\ log' = Append(log, msg)
     /\ Enqueue(Len(log) + 1, msg)
     /\ UNCHANGED <<phase, backlog, start, hand, counted, page, history, restarts, masters>>

\* A set of places in the log, oldest first.
Events(places) ==
  CHOOSE q \in [1..Cardinality(places) -> places] : \A i, j \in DOMAIN q : i < j => q[i] < q[j]

\* The replay of subscribe.
Replay(c, from) ==
  Events({s \in DOMAIN log : s > from /\ InRing(s) /\ Matches(c, log[s])})

\* subscribe, up to its first yield.
Subscribe(c, from) ==
  /\ backlog' = [backlog EXCEPT ![c] = Replay(c, from)]
  /\ start' = [start EXCEPT ![c] = Len(log)]
  /\ queue' = [queue EXCEPT ![c] = <<>>]
  /\ dropped' = [dropped EXCEPT ![c] = {}]
  /\ phase' = [phase EXCEPT ![c] = IF Replay(c, from) = <<>> THEN "sync" ELSE "replay"]
  /\ last' = [last EXCEPT ![c] = 0]
  /\ passed' = [passed EXCEPT ![c] = @ \cup {s \in Mine(c) : ~ InRing(s)}]
  /\ UNCHANGED <<log, hand, counted, got, told, forgotten, reloads, restarts, masters>>

\* Slip: the counter is looked at before the wait, as an empty queue has no drops.
PullUntold(c) ==
  /\ phase[c] = "wait" /\ queue[c] # <<>>
  /\ hand' = [hand EXCEPT ![c] = Head(queue[c])]
  /\ queue' = [queue EXCEPT ![c] = Tail(@)]
  /\ phase' = [phase EXCEPT ![c] = "message"]
  /\ dropped' = [dropped EXCEPT ![c] = {}]
  /\ UNCHANGED <<log, backlog, start, counted, page, history, restarts, masters>>

\* queue.get() returns; a drop is told before the message.
Pull(c) ==
  /\ phase[c] = "wait" /\ queue[c] # <<>>
  /\ hand' = [hand EXCEPT ![c] = Head(queue[c])]
  /\ queue' = [queue EXCEPT ![c] = Tail(@)]
  /\ phase' = [phase EXCEPT ![c] = IF dropped[c] # {} THEN "notice" ELSE "message"]
  /\ counted' = [counted EXCEPT ![c] = dropped[c]]
  /\ UNCHANGED <<log, backlog, start, dropped, page, history, restarts, masters>>

-----------------------------------------------------------------------------
(* The page.                                                               *)

\* A page loads: it takes the cursor of the tab into its URL.
LoadPage(c) ==
  /\ phase[c] = "closed"
  /\ Subscribe(c, cursor[c])
  /\ since' = [since EXCEPT ![c] = cursor[c]]
  /\ synced' = [synced EXCEPT ![c] = FALSE]
  /\ reload' = [reload EXCEPT ![c] = 0]
  /\ foreignUrl' = IF c \in foreign THEN foreignUrl \cup {c} ELSE foreignUrl \ {c}
  /\ skipped' = IF c \in foreign
                THEN [skipped EXCEPT ![c] = @ \cup {s \in Mine(c) : s <= cursor[c]}] ELSE skipped
  /\ UNCHANGED <<cursor, foreign>>

\* The EventSource of the page reconnects by itself, to the same URL.
Reconnect(c) ==
  /\ phase[c] = "closed" /\ reload[c] = 0
  /\ Subscribe(c, since[c])
  /\ skipped' = IF c \in foreignUrl
                THEN [skipped EXCEPT ![c] = @ \cup {s \in Mine(c) : s <= since[c]}] ELSE skipped
  /\ UNCHANGED <<page, foreign, foreignUrl>>

\* Slip: the listener returns before it stores the cursor when it reloads.
HandleUnstored(c, n, then) ==
  /\ got' = [got EXCEPT ![c] = @ \cup {n}]
  /\ last' = [last EXCEPT ![c] = n]
  /\ IF log[n].kind = "reload" /\ synced[c] /\ c \in masters
     THEN /\ reload' = [reload EXCEPT ![c] = n]
          /\ reloads' = [reloads EXCEPT ![c] = @ \cup {n}]
          /\ phase' = [phase EXCEPT ![c] = "leaving"]
          /\ UNCHANGED <<cursor, foreign>>
     ELSE /\ cursor' = IF log[n].kind = "quiet" THEN cursor ELSE [cursor EXCEPT ![c] = n]
          /\ foreign' = IF log[n].kind = "quiet" THEN foreign ELSE foreign \ {c}
          /\ phase' = [phase EXCEPT ![c] = then]
          /\ UNCHANGED <<reload, reloads>>

\* The listener of event n: the cursor, and the reload unless a replay goes on.
Handle(c, n, then) ==
  /\ got' = [got EXCEPT ![c] = @ \cup {n}]
  /\ last' = [last EXCEPT ![c] = n]
  /\ cursor' = IF log[n].kind = "quiet" THEN cursor ELSE [cursor EXCEPT ![c] = n]
  /\ foreign' = IF log[n].kind = "quiet" THEN foreign ELSE foreign \ {c}
  /\ IF log[n].kind = "reload" /\ synced[c] /\ c \in masters
     THEN /\ reload' = [reload EXCEPT ![c] = n]
          /\ reloads' = [reloads EXCEPT ![c] = @ \cup {n}]
          /\ phase' = [phase EXCEPT ![c] = "leaving"]
     ELSE phase' = [phase EXCEPT ![c] = then] /\ UNCHANGED <<reload, reloads>>

ReceiveReplay(c) ==
  /\ phase[c] = "replay"
  /\ Handle(c, Head(backlog[c]), IF Len(backlog[c]) = 1 THEN "sync" ELSE "replay")
  /\ backlog' = [backlog EXCEPT ![c] = Tail(@)]
  /\ UNCHANGED <<log, start, queue, hand, dropped, counted, since, synced, told, forgotten,
                 passed, skipped, foreignUrl, restarts, masters>>

\* sse.sync: its sequence number is stored unless it is 0.
ReceiveSync(c) ==
  /\ phase[c] = "sync"
  /\ cursor' = IF start[c] > 0 THEN [cursor EXCEPT ![c] = start[c]] ELSE cursor
  /\ foreign' = IF start[c] > 0 THEN foreign \ {c} ELSE foreign
  /\ synced' = [synced EXCEPT ![c] = TRUE]
  /\ phase' = [phase EXCEPT ![c] = "wait"]
  /\ start' = [start EXCEPT ![c] = 0]
  /\ UNCHANGED <<log, backlog, queue, hand, dropped, counted, since, reload, last, got,
                 told, forgotten, passed, skipped, reloads, foreignUrl, restarts, masters>>

\* sse.dropped; the generator goes on and resets the counter.
ReceiveNotice(c) ==
  /\ phase[c] = "notice"
  /\ told' = [told EXCEPT ![c] = @ \cup counted[c]]
  /\ forgotten' = [forgotten EXCEPT ![c] = @ \cup (dropped[c] \ counted[c])]
  /\ dropped' = [dropped EXCEPT ![c] = {}]
  /\ counted' = [counted EXCEPT ![c] = {}]
  /\ phase' = [phase EXCEPT ![c] = "message"]
  /\ UNCHANGED <<log, backlog, start, queue, hand, page, last, got, passed, skipped,
                 reloads, foreign, foreignUrl, restarts, masters>>

ReceiveMessage(c) ==
  /\ phase[c] = "message"
  /\ Handle(c, hand[c], "wait")
  /\ hand' = [hand EXCEPT ![c] = 0]
  /\ UNCHANGED <<log, backlog, start, queue, dropped, counted, since, synced, told,
                 forgotten, passed, skipped, foreignUrl, restarts, masters>>

\* The connection breaks, or the user leaves the page: the generator is closed and its
\* subscriber removed.
Disconnect(c) ==
  /\ phase[c] # "closed"
  /\ phase' = [phase EXCEPT ![c] = "closed"]
  /\ backlog' = [backlog EXCEPT ![c] = <<>>] /\ queue' = [queue EXCEPT ![c] = <<>>]
  /\ start' = [start EXCEPT ![c] = 0] /\ hand' = [hand EXCEPT ![c] = 0]
  /\ dropped' = [dropped EXCEPT ![c] = {}] /\ counted' = [counted EXCEPT ![c] = {}]
  /\ last' = [last EXCEPT ![c] = 0]
  /\ UNCHANGED <<log, page, got, told, forgotten, passed, skipped, reloads, foreign, foreignUrl,
                 restarts, masters>>

\* The process restarts: numbers begin again, the pages keep theirs.
Restart ==
  /\ restarts < MaxRestarts
  /\ restarts' = restarts + 1
  /\ log' = <<>>
  /\ phase' = None("closed") /\ backlog' = None(<<>>) /\ start' = None(0)
  /\ queue' = None(<<>>) /\ hand' = None(0) /\ dropped' = None({}) /\ counted' = None({})
  /\ last' = None(0)
  /\ foreign' = {c \in Clients : cursor[c] > 0}
  /\ foreignUrl' = {c \in Clients : since[c] > 0}
  /\ got' = None({}) /\ told' = None({}) /\ forgotten' = None({})
  /\ passed' = None({}) /\ skipped' = None({}) /\ reloads' = None({})
  /\ UNCHANGED <<page, masters>>

-----------------------------------------------------------------------------
\* All, one device, or one that does not listen.
Audiences == {Clients, {}} \cup {{c} : c \in Clients}

Next ==
  \/ \E kind \in Kinds, to \in Audiences : Publish(kind, to)
  \/ \E c \in Clients :
       \/ LoadPage(c) \/ Reconnect(c) \/ Disconnect(c)
       \/ Pull(c)
       \/ ReceiveReplay(c) \/ ReceiveSync(c) \/ ReceiveNotice(c) \/ ReceiveMessage(c)
  \/ Restart

Spec == Init /\ [][Next]_vars

-----------------------------------------------------------------------------
(* Properties                                                              *)

\* What is on the way to a client, in the order in which it will get it.
OnTheWay(c) ==
  IF phase[c] \in {"notice", "message"} THEN <<hand[c]>> \o queue[c]
  ELSE IF phase[c] = "replay" THEN backlog[c] \o queue[c]
  ELSE queue[c]

\* A connection yields every event at most once and in the order of publication,
\* across the boundary between the replay and the live events.
InOrder ==
  \A c \in Clients : phase[c] # "closed" =>
    LET way == <<last[c]>> \o OnTheWay(c)
    IN \A i \in 1..(Len(way) - 1) : way[i] < way[i + 1]

\* A client gets no event of another audience, and behind a cursor of this process there
\* is nothing that it does not know of:
\* it was received, its loss was announced, or the ring no longer had it when the
\* client connected.  Two more causes contradict what the bus says of itself: a drop
\* while an sse.dropped is on its way is reset with those it counts ("forgotten",
\* against the header of sse.py), and a cursor of an earlier process hides events
\* ("skipped").
LossHasACause ==
  /\ \A c \in Clients : got[c] \subseteq Mine(c)
  /\ \A c \in Clients \ foreign : \A s \in Mine(c) :
       s <= cursor[c] => s \in got[c] \cup told[c] \cup passed[c] \cup forgotten[c] \cup skipped[c]

\* One event makes a tab reload at most once ("replay, reload, resubscribe, replay",
\* docs/concepts/sse.md), however often the connection breaks.
NoReloadLoop ==
  [][\A c \in Clients : reload'[c] # reload[c] /\ reload'[c] # 0 => reload'[c] \notin reloads[c]]_vars

=============================================================================
