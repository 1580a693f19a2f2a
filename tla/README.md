# LifeMan in TLA+

Specifications of the parts of `lifeman` (`src/src/lifeman`, a personal-automation
kernel: one FastAPI process that schedules tools, asks for permissions, delivers
outputs to devices and streams events to a web page) in which concurrency, crashes
and ordering decide whether the program is right. Every module is translated from the
source; `PROJECT.json` ("map") names the lines that each definition stands for.

All paths below are relative to `src/src/lifeman` unless they start with `docs/`.

## 1. The system

One asyncio process hosts everything. Three facts about it shape every module:

* **Coroutines interleave at `await`s.** Code between two awaits is one step; every
  `await db.execute`, `await db.commit`, `await channel.deliver` is a place where any
  other coroutine can run.
* **One sqlite connection is shared by all coroutines** (`db.get_db`). A statement is
  visible to everybody at once; the transaction it is part of belongs to the
  connection, so *any* coroutine's commit saves everybody's half-done statements, and a
  crash throws away what nobody committed. The modules therefore keep each table
  twice: what the connection reads and what a crash leaves (`rows`/`disk` in
  `Scheduler`, `status`/`saved` in `Permissions`, `device`/`savedDevice` in `Devices`),
  and have an action `OtherCommit`.
* **Some state is in memory only**: wait slots, the event bus, the registry of device
  channels, running fires. A restart loses it and start-up code must rebuild it.

### Inventory

| component (files) | state | operations | how it interacts | what is hard | what makes it correct |
|---|---|---|---|---|---|
| Scheduler (`scheduler.py`, `routes/schedules.py`) | `schedules` rows, the loop task, fires at work | tick, fire, start-up reconcile, stop; create, reschedule, cancel | runs tools (`_execute_tool`), audits, publishes | crash inside a fire; user edits during a fire; failures before the tool | no promised fire lost, no row stuck, cancels final |
| Permissions (`permissions_runtime.py`, `routes/permissions.py`) | request and grant rows, `_waiters` slots, clean-up timers | request, wait, resolve, notify, revoke, expire | called by the tool socket, the secret store, the chat | wake-ups, time-outs, double resolution, durability | answers are the user's, nobody sleeps through an answer |
| Secrets (`secrets/`) | secret rows, access log, master key | put, delete, read for the user, read for a tool | waits on Permissions | the row is read before a wait of minutes; a put against a put; another key after a restart | every disclosure had a reason and is logged; an acknowledged put is stored |
| Outputs (`outputs/api.py`, `outputs/channels/devices.py`, `routes/outputs.py`) | event and delivery rows, the devices' screens and cursors | emit, cancel, poll | routing decides the channels; the bus carries them | emit against cancel, crash between channel and row | life cycle of a delivery, recalled once, nothing missed |
| Output routing (`outputs/router.py`, `registry.py`, `tool_backed.py`) | rules, proposals, channel registry | seed, decide, LLM fallback, propose / accept / dismiss | called by emit | a table read while it is seeded, check-then-act on proposals | urgent events are seen, quiet hours kept, a promotion applied and made once |
| Event bus (`sse.py`, `routes/ui.py`, `templates/base.html`) | replay ring, subscriber queues, drop counters; the tab's cursor | publish, subscribe, pull, disconnect; the page's handlers | everybody publishes | slow readers, replay against live, reconnects, restarts | order, audience, an accounted loss, no reload loop |
| Devices (`devices.py`, `routes/auth.py`, `routes/devices.py`, `push.py`) | codes, device rows, channel registry, push endpoints | issue, pair, revoke, set endpoint, wake | registers output channels | races for a code, revoke against everything | one device per code, registry follows the table |
| Tool registry and invocations (`routes/tools.py`) | tool, manifest and invocation rows, background tasks | register, deprecate, invoke, spawn, finalise | used by scheduler, chat, socket | rows left `running` | every invocation ends in a terminal row |
| Tool socket (`tool_socket.py`, `tool_runtime/`) | a socket per invocation, the client's lock, `tool_state` | the calls a tool may make, gated by capabilities | Permissions, Outputs, tools | interrupted calls, threads that share a socket | an answer is to the call that returns it |
| Routing engine (`routing/`) and its domains inputs, memory, observations | event, audit and dispatch rows, registries | record, decide, persist, dispatch | handlers, router tools, LLM | partial failure of a dispatch, a tool deprecated between look-up and run | the trail of an event agrees with what was done |
| Input subscriptions (`input_subscriptions.py`) | subscription rows, poll loop | poll, record, emit | Inputs | recorded before it is emitted; overlapping polls | what is passed over was emitted; events follow the source |
| Chat (`routes/chat.py`, `chat_tools.py`) | sessions, messages | turns, tool calls | LLM, tools, Permissions | concurrent turns of a session, a client that leaves, a crash inside an append | counter and history agree with the messages; a reply that was announced is durable; every turn ends |
| Build terminal (`build_terminal.py`, `routes/chat.py`) | the conversation's id on the session row, ptys, agent processes | connect, bridge, hang up, archive | an external CLI | several tabs at once, spawn failures | one conversation, nothing left behind |
| Database and backup (`db.py`, `backup.py`) | the file, its write-ahead log, the shared connection, backups | open, write, commit; back up, prune, restore | everybody writes through it | file operations under open connections, a crash between any two | a restore can be undone, listed backups are whole |
| Build chat files, ambient loop, Ollama supervisor, sandbox, app shell | see `PROJECT.json` | | | | |

`PROJECT.json` "components" gives the status of each one, "hazards" the places at which
it can go wrong, with the properties that watch them.

## 2. The modules

| module | models | extends / used by |
|---|---|---|
| `Scheduler` | the scheduler and the schedule routes | `MCScheduler`, `SchedulerProofs` |
| `Permissions` | requests, waits, resolutions, grants | `MCPermissions`, `PermissionsProofs` |
| `DeliveryLifecycle` | the abstract life of a delivery row, as `docs/concepts/outputs.md` draws it | implemented by `Outputs` |
| `Outputs` | emit, cancel, the device channel and its poll | `MCOutputs`, `OutputsProofs` |
| `OutputRouter` | the rule table, its seeding, the decision, the LLM's pick, proposals and their review | `MCOutputRouter`, `OutputRouterProofs` |
| `EventBus` | the bus, its stream, and the page that listens | `MCEventBus`, `EventBusProofs` |
| `Devices` | pairing, revocation, push endpoints, the channel registry | `MCServices`, `ServicesProofs` |
| `InvocationLifecycle` | the abstract life of an invocation row | implemented by `Invocations` |
| `Invocations` | registration of tools, `_execute_tool`, background runs, nested calls | `MCInvocations`, `InvocationsProofs` |
| `ChatTurns` | chat sessions, their messages, the turns of the model | `MCChat`, `ChatTurnsProofs` |
| `RoutingEngine` | `run_event` for inputs, memory and observations | `MCServices`, `ServicesProofs` |
| `InputSubscriptions` | the poll loop, forced polls, edits of a subscription | `MCIntake`, `MCServices`, `ServicesProofs` |
| `Secrets` | put, delete and reads of one secret | `MCServices`, `ServicesProofs` |
| `Storage` | the database file, its connections, backups and restores | `MCServices`, `ServicesProofs` |
| `BuildTerminal` | the terminals of one build session | `MCServices`, `ServicesProofs` |
| `ToolRpc` | the tool's client, the socket and the server's loop | `MCServices`, `ServicesProofs` |

`MCServices` puts the seven parts that are small and independent of one another into one
run: it extends `Devices`, instantiates the other six over variables of their own, and
its variable `part`, chosen initially, says of which part a behaviour is. The state spaces add up instead of
multiplying; nothing is lost, since these parts share no state in the code either.

Each component module has the constants and their assumptions, the state, one action
per statement group between awaits, `Next`, `Spec`, and its properties at the end. Above some actions
stands a second version marked `Slip`: the form the code would have after a plausible
mistake (a dropped guard, a swapped order). No specification uses them; substituted for
the action, each breaks the property it is listed with in `PROJECT.json` ("mutants").

### Scheduler

`rows` / `disk` are the table; a row keeps the `when_spec` and which instant `fires_at`
stands for (`at`) and whether it has passed (`due`) instead of times. `Tick` is the
SELECT of `_tick`; a fire then goes `selected → reserving` (UPDATE of `last_started_at`
and of `fires_at`) `→ reserved` (commit) `→ running → finishing →
finalizing` (the terminal UPDATE, not committed) `→ idle`. `AuditFails` is an exception before the tool:
the reservation is released, and `ran` says that the fire was refused. `moved` are the schedules that were
rescheduled and not selected since. `Stop` cancels the loop task, and `FireCancelled` the fires
it awaits, each where it is suspended; `Crash` loses everything but `disk`; `Reconcile`
is `_reconcile_crashed_fires` at the next start. Route handlers (`Create`, `Reschedule`,
`Cancel`, `CommitEdit`) run at any time between.

### Permissions

A request is one call to `create_permission_request` with what follows it; four
constants say by which caller (`Gated`: tool socket; `SecretReads`: secret store;
`Direct`: the route; `Llm`: chat tools; `Recorded`: nobody waits). `Covers` says which
grant covers which request. The caller goes through `find_matching_grant`, INSERT, commit (`CommitRequest`, which answers a request that a grant covers), the
announcement, which may fail (`AnnounceFails`), and then `AnswerPending`, or the look for a slot (`EnterAwait`), the look at the row
(`CheckRow`), the wait, time-out, the re-read. `slot` is the `_waiters` entry, `box` the
future it holds, `linked` says that the entry is still the caller's. A resolver reads,
updates, inserts the grant, commits, audits (which may fail) and notifies; a notification
starts a 30 s timer that frees the slot.

### Outputs and DeliveryLifecycle

An event is routed to a sequence of channels (`Decisions`, chosen by the router,
not modelled). For each, `emit_output` inserts a row `in_flight`, calls the channel
(`Present` or `DeliverFails`), and updates the row `WHERE status = 'in_flight'`: zero
rows means that a cancel has claimed it (`SettleMissed`), and the emitter recalls what it
presented. `cancel_output` claims the rows in flight, reads the delivered ones, flips
each and calls the channel's hook if the flip succeeded. `shown` is what the user sees,
`told` counts the recalls of a delivery, `at`/`mark`/`clock` stand for `delivered_at`.
`Poll` is the device's page of rows behind its `cursor`.

`DeliveryLifecycle` is the diagram: `absent → in_flight → delivered | failed |
cancel_pending`, `cancel_pending → cancelled`, `delivered → cancelled`, each step moving one row except
for a claim, which takes all rows in flight of one output. `Outputs` implements it under
`life <- row` (property `FollowsLifecycle`).

### OutputRouter

The rule table is read in the order of positions: the ladder of defaults (10 to 90), the
promoted rules (100), the overrides (200, 210). The defaults are inserted one by one, so
that what a seeder has inserted is a prefix; `seeded[e]` is its length and two seeders
leave two prefixes. An emission goes `Begin`, possibly `Expire`, `LoadRules`, on an empty table
`StartSeeding`, `SeedRule` … `SeedCommit`, `Reload`; a rule matches, or the LLM is asked
(`NoPick`, `Pick`), which leaves a proposal (`FindProposal`, `CountHit` or
`InsertProposal`, `CommitProposal`) or fails to (`RecordFails`); `Filter` applies the overrides, the
availability of channels and the fallback to the digest. A review is an acceptance (`AcceptRead`,
`AcceptInsert`, `AcceptMark`, `AcceptCommit`) or a dismissal; `SetQuiet`, `RevokeDevice`,
`OtherCommit` and `Crash` come at any time.

### EventBus

An event is its place in the `log` of the process; `_replay` is the end of the log. A
client is one listener, a tab with a page or (not in `masters`) a device; its stream is
suspended in `replay`, `sync`, `wait`, `notice` or `message`. `dropped` and `counted`
are the sets that the counter counts, so that a lost count shows. `Handle` is the page's
listener for an event, with the cursor in `sessionStorage`, `sseReplayDone` and the
reload; `Reconnect` is what `EventSource` does by itself.

### Devices

A pairing call mints its own device: the call stands for the device. `CheckCode`,
`Consume` (UPDATE … WHERE consumed_at IS NULL), `InsertDevice`, `CommitPairing`,
`RegisterChannel` are the awaits of a pairing; `RevokeUpdate`, `RevokeCommit`,
`UnregisterChannel` those of a revocation. A request is authorised in one step and stores its endpoint in a
later one. A pairing whose capabilities cannot be read (`Unreadable`) is answered with an error
after its commit (`RegisterRaises`). `Restart` is a crash followed by `install_device_channels`, which stops at
such a device: then the lifespan function raises and the process serves nothing (`up`).

### Invocations and InvocationLifecycle

A call of `_execute_tool` is awaited (`Awaited`), run in the background by
`_spawn_invocation` (`Spawned`), or made by a tool through the socket of its own run
(`Nested`, `Parent`). It goes `valid → inserted → started → running → closing → closed →
informed → settled → auditing → done`: the row, the sandbox, the tool's process, the closing
of the socket (`ToolSocket.__aexit__` waits for the handlers of its connections), the
announcement, the terminal UPDATE, the audit. `invalid`/`refused` are those of arguments that fail
the schema; `raised` is an exception on its way to the caller, or to `_runner`, which ends
the row (`Rescue`). `result` is what `run_tool` returned as far as the code tells results
apart, `answer` what the caller was told. The number of a tool's own outputs is read when its
process ends, so `EmitEnd` distinguishes an output that was counted from a late one.

`InvocationLifecycle` is `absent → running → ok | error`, or `absent → error` for a run that is
refused; one commit may publish moves of several rows. `Invocations` implements it under
`life <- savedRow` (property `FollowsLifecycle`).

### ChatTurns

A turn is a POST or an input event dispatched to the `llm` handler; the latter finds or
inserts a session for itself (`FindSession`, `InsertSession`). `Ask` appends the
user's message, `Iterate` reads the history and calls the model, `Reply` appends the answer,
`CallTool` the result of each call; `After` says how the turn goes on (a reply that finishes for
tool calls and names none is followed by another call of the model); `Finish`, `GiveUp` (the iterations are used up) and
`ModelFails` tell the consumer `done`. An append is three awaits (`Insert`, `Count`, `Commit`)
and `write[t]` says which is next. `Disconnect` is a client that leaves its stream: the
generator is closed at whatever it awaits. `AskFails` and `StoreFails` are a statement that raises, in the route or
handler and in the generator. `crossed`, `cut` and `torn` record the sessions
on which two turns overlapped, a turn was cut off between its calls and their results, or an
append between its INSERT and its commit.

### RoutingEngine

`Record` and `RecordMemory` insert the event, `FindRouter` looks for a router tool, `DecideBuiltin`,
`RouterAnswers` and `RouterRaises` make the decision, `Audit` stores it; then for each handler
`HandlerMissing`, `HandlerAnswers` or `HandlerErrs`, and `RecordDispatch` (or `RecordRaises`, when
what the handler answered cannot be stored). `Deprecate` withdraws
a tool at any time, also between the look-up and its run. One variable says in which domain each
event is, since the framework is one; the built-in decisions are those of the three domains.

### InputSubscriptions

`Tick` reads the due rows, and the polls of all run together (`ReadRow`, `PollErrs`, `NotModified`, `Fetched`, or `PollRaises` of an
exception that `_poll_json` does not catch; `RecordPoll`, `Emit`, `EmitReturns`) before the loop sleeps again; `ForcePoll` is the route, which polls
the same row beside the loop. A source's content is a number that grows. `SetEnabled` and
`Delete` are the edits, `Crash` and the restart lose the poll in progress. `crossed`, `forgot` and `dropped` name the
causes by which order, novelty or an event can be lost.

### Secrets

One secret. `PutReads`, `PutUpdates` or `PutInserts`, `PutAnswers`; `Delete`; a read goes
`Load`, then `AllowedByList`, or `LookForGrant` and `PromptGranted` / `PromptDenied` (minutes
later), then `Disclose` (decrypt the row that was read *before* the wait, log, and only then answer) or
`CannotDecrypt` (which leaves no row in the log), and
`ReadAnswers` or `Refuse`. `Restart` may find another master key.

### Storage

A database's content is the set of writes committed in it, partly in `live`, partly in
`wal`; `aside` is the `.pre-restore` file and `on[k]` the file that a connection's handle
has come to mean after renames. `WriterOpens`, `Insert`, `Commit` are a writer of the shared
connection `db`; a backup is `VacuumRaises` or `Vacuum` (it copies what its connection reads, the file put aside included),
`WritePart`, `Publish`, `Prune`; a restore
is `Restore`, `CloseFile`, `Closed`, `DropAside`, `RenameAside`, `DropSidecars`, `WriteBegins`, `WriteEnds` and
`Reopen`; an error before the rename is `RestoreRaises`, one between the rename and the `try` `SidecarRaises`, one
inside it, in the middle of the write too, `PutBack`. Left out: a rename in `PutBack` that fails itself, and a write that
fails midway where there was no database to put aside. `Crash` and `CrashTorn` (in the middle of a file's write) can come
between any two.

### BuildTerminal

A tab's WebSocket goes `Accept`, `Look` at the session's `external_id` (or `Mint` one), `Spawn` or
`SpawnFails`, `Converse`, and ends by `AgentExits`, `HangUp`, with the reaping of the
process (`Reaped`) or its kill after the grace (`Kill`, `KilledReaped`). The CLI is external:
it can resume a conversation in which something was said.

### ToolRpc

On the tool's side `Request` (under the client's lock), `Read`, and the failures `RequestRaises`, `ReadRaises` and
`Interrupted`; on the server's, for each connection, `ReadLine` or `LoopDies`, then `Execute` and
`Commit` of a `state_set` or `state_delete`, `StateGet`, or `Other`, whose result may be no JSON
(`SendRaises`: the call was carried out, and the connection ends without an answer). `ProcessEnds` is the end of the sandbox.

## 3. Checks

`tlc -config <cfg> <module>`; twelve runs: eight that pass and four that each show one disagreement
between the code and what its docs or comments say.

| run | configuration | shows |
|---|---|---|
| `scheduler` | `Scheduler.cfg` | a one-shot and a recurring schedule, 2 edits, 2 outages: `ReservationHolds`, `OverNeverFires`, `LiveScheduleFires` |
| `scheduler_moved` | `SchedulerMoved.cfg` | **violated**: `RescheduleStands` |
| `permissions` | `Permissions.cfg` | a waiting and a recorded request, 2 resolvers, 1 crash: `SlotsServe`, `AnswerWasChosen`, `AcknowledgedIsDurable`, `TimeoutHidesNoDecision` |
| `permissions_double_resolve` | `PermissionsResolve.cfg` | **violated**: `StatusIsFinal` |
| `outputs` | `Outputs.cfg` | one event on two channels or two on one each, pages of one, 2 cancels, 1 crash: `CancelledIsNotShown`, `CancelSeesAll`, `PollMissesOnlyLate`, `FollowsLifecycle` |
| `outputs_claim_stuck` | `OutputsClaim.cfg` | **violated**: `ClaimedRowSettles` |
| `output_router` | `OutputRouter.cfg` | two emissions that may both seed, two reviews, 1 crash: `UrgentIsSeen`, `TwiceHasACause`, `QuietIsKept`, `PromotionIsKept` |
| `event_bus` | `EventBus.cfg` | one listener, ring of 2, queue of 1, 4 events, 1 restart: `InOrder`, `LossHasACause`, `NoReloadLoop` |
| `invocations` | `Invocations.cfg` | a background run that calls another tool and notifies, an awaited run, 2 tools being registered, 1 crash: `OrphanHasACause`, `ChildEndsFirst`, `ToldTwiceOnlyIfLate`, `FollowsLifecycle`, `SpawnedRunEnds` |
| `chat` | `Chat.cfg` | a post and an input event, up to 2 model calls in a turn, 1 failure of the store or crash, under fairness: `CountIsRight`, `DoneIsDurable`, `HistoryIsComplete`, `ThinkingEnds` |
| `services` | `Services.cfg` | Devices: `CodePairsOnce`, `ReachFollowsPairing`, `TransientFailureKeepsEndpoint`. RoutingEngine: `TrailMatches`. InputSubscriptions: `SeenIsEmitted`, `EmitsInOrder`. Storage: `RestoreIsReversible`, `ListedIsWhole`. Secrets: `DisclosureIsAccounted`, `PutIsStored`. BuildTerminal: `ConversationIsResumed`, `TabCleansUp`. ToolRpc: `AnswersAreTrue` |
| `poll_repeat` | `IntakeRepeat.cfg` | **violated**: `EmitsOnlyChanges` |

`ReservationHolds`, `OverNeverFires`, `SlotsServe` and `ReachFollowsPairing` are
conjunctions of named parts that say one thing together: the reservation is written ahead, survives
and is released; a cancelled and a finished schedule stay out; a slot is neither lost nor leaked; the registry has
a paired device and has no revoked one.

`CHECK_DEADLOCK FALSE` everywhere: the environments (edits, resolvers, cancels, crashes)
are bounded, so a behaviour ends when they have acted; that a component does not
stop of itself is what the liveness properties say.

`LiveScheduleFires` says that the tool of a schedule that waits for its time is started, and names two
exceptions: the user took it back (a cancel, another `when_spec`, a creation that a crash undid), and, of a
one-shot only, its fire was refused before its tool and the row was marked done all the same.

### The disagreements

1. **A reschedule during a fire is lost** (`scheduler.py:187,196`, run `scheduler_moved`): the terminal UPDATE writes what was
   computed from the row as the tick read it. A reschedule between the tick and the reservation goes the same way.
   The route has answered ok, and `docs/concepts/scheduling.md:104` has it change the fire time.
2. **A request can be resolved twice** (`routes/permissions.py:117-128`, run `permissions_double_resolve`): the status is
   checked before the UPDATE and not in it. The second answer overwrites the first, which
   the caller may have acted on already.
3. **A claimed delivery that fails stays `cancel_pending`** (`outputs/api.py:204`, run `outputs_claim_stuck`):
   the branch that finishes it asks for `result.delivered`.
4. **A poll that errs, or is answered 304, forgets the hash** (`input_subscriptions.py:332`, run `poll_repeat`):
   the next 200 emits content that did not change, against the module's docstring (13-15).

Seen while modelling, and left without a run of their own, because a weaker property that
holds says how far each goes or because the text alone shows them:

* A fire that is repeated after a crash draws another id (`scheduler.py:146`), by which no tool can recognise the
  repetition; `docs/concepts/scheduling.md:78-79` promises the same one.
* A one-shot whose fire is refused before its tool, because the audit or the bus raises, is marked as one that has
  fired (`scheduler.py:196`, against `docs/concepts/scheduling.md:18-19`). `LiveScheduleFires` excepts this case alone.
* A request is `granted_always` without a grant when another coroutine's commit saves the UPDATE and the
  process dies before the INSERT (`routes/permissions.py:130`, against `docs/concepts/permissions.md:53`).
  `AcknowledgedIsDurable`: an answered resolution has its grant.
* A read of a secret that cannot be decrypted is not logged (`secrets/store.py:210`, against `docs/pages/secrets.md:8-9`);
  `DisclosureIsAccounted` is about values that are handed out.
* A polling device misses a delivery whose `delivered_at` was taken before, and whose row was settled after, a faster
  one that moved the cursor (`outputs/channels/devices.py:109`, `outputs/api.py:188`, against `routes/outputs.py:221`).
  `PollMissesOnlyLate`: no other.
* The seed router reads `channels` from a payload in which `routing/tool_backed.py:53-57` sends `handlers`
  (`outputs/seed_tools/router_seed.py:161`): installed, it sends everything to the digest or to nothing, though its README calls
  it a drop-in replacement.
* Two acceptances of one proposal that both read it before either marks it make two rules of it
  (`routes/outputs.py:172`). `TwiceHasACause`: nothing else does, but a crash.
* The user is told twice of a tool whose output is on its way as its process ends (`routes/tools.py:643`, against 650-651).
  `ToldTwiceOnlyIfLate`: of no other.
* A pairing that answers an error has paired when the channel's `int()` refuses the latency (`devices.py:190`,
  `outputs/channels/devices.py:75`, against `devices.py:141`), and no later start succeeds. `RegisterRaises` is an action;
  the properties of `Devices` hold with it.
* A restore whose removal of the sidecars raises (`backup.py:199-204`, outside the `try` that puts the database back,
  against `backup.py:209`) leaves the database aside. `SidecarRaises` is an action; `RestoreIsReversible` holds: the data is in the file put aside.
* Of two first tabs each mints an id, and the conversation of the one that is overwritten is never resumed
  (`build_terminal.py:83`; the docstring, 24-27, has the second tab's spawn fail). It is the one cause that `ConversationIsResumed` names.
* A page that reconnects reloads on replayed events (`templates/base.html:549`, against
  `docs/concepts/sse.md:22-24`). `NoReloadLoop`: once per event.
* `LossHasACause` names, besides a full queue, drops while an `sse.dropped` is on its way
  (`sse.py:150-151`, against `sse.py:3-5`) and a cursor of an earlier process.
* `OrphanHasACause` names, besides the crash of which `docs/concepts/activities.md:53-56`
  speaks, a tool that prints JSON that is no object (`routes/tools.py:657,684`: `result.get`
  raises and an awaited row stays `running`).
* Restores that overlap can leave the shared connection on the `.pre-restore` file
  (`backup.py:173-174`), and two callers of `get_db` at once can leak a connection
  (`db.py:585`) that keeps the log from being folded in, so that a restore deletes committed writes
  with the sidecars. `RestoreIsReversible` excepts these two (`overlap`, `spare`).
* A comment says that accepted proposals beat the defaults (`routes/outputs.py:178-181`); their
  position, 100, is behind the ladder's, and the first match wins.
* `llm.stream_chat` returns at the `finish_reason` (`llm.py:87-91`), before a usage chunk behind it.
* The docstring of `inputs/router.py` says that an unrecognised surface is discarded; the code
  sends it to `llm`.
* A pty is not closed when the spawn raises (`build_terminal.py`; `TabCleansUp` excepts
  it), and the id is stored before the first spawn, so that a spawn that fails is followed by a
  `--resume` of a conversation that never was. `docs/pages/build_chat.md:53,58`
  speaks of a stream-json protocol and of a file refreshed each turn; the code refreshes it on connecting.
* `docs/concepts/activities.md:18-19` says that deprecated tools are refused; no code looks at
  `deprecated_at` before a run.

### Bounds

* `Scheduler`: two schedules, because fires of one tick end together; a one-shot and a
  recurring `when_spec`; two edits, the creation included (both
  schedules are created, or one is, and rescheduled or cancelled at any point of its fires); two
  outages (a crash during the recovery from a crash, a crash after a clean stop).
* `Permissions`: two resolvers (a race needs two), one waiting and one recorded request,
  one crash; the scopes of the two requests cover each other, so that either grant can answer the other.
* `Outputs`: two cancels and an emitter are the three that can move one row; two emissions
  can settle in the other order than that of their stamps; a page of one row is the
  smallest. The constraint `MCOneAtATime` leaves out a second event beside one that
  goes to two channels (with it there are over 10 M states).
* `OutputRouter`: two emissions and two reviews make every pair that races; a seeder may be
  interleaved after 1, 9 (the ladder) and 11 rules, the prefixes that decide differently; two
  proposals, so that one can repeat the other; a kind that no rule of the ladder matches,
  and an urgent private one, which the rules and filters treat most differently. Emissions and reviews are symmetric.
* `EventBus`: a queue of one is full after one event; a ring of two can hold an event
  that was missed and lose one; four events fill and overflow both around a connection.
  One client: clients do not influence one another (each has a queue of its own).
* `Invocations`: one call of each kind; the nested call and the awaited one run the same
  tool, which a crash may un-register. One crash: a lost call does not come back, so a second
  crash only ends others earlier.
* `ChatTurns`: a post and an input, which may use the session that the post uses or one of
  its own; two model calls and one tool call per reply, so that a turn can end by its reply, be asked again, and
  run out; one failure of the store or of the process (`MaxFaults`), since each ends a turn. The constraint `TwoCalls` leaves out
  states in which turns at work have made more than two model calls together (both past their first, or one past its second beside
  one past its first): one turn can make two, or each of two turns one. Without it there are 5 M states.
  The three safety properties are proved without it; `ThinkingEnds` is checked within it only.
* `MCServices`: two pairings for one code, a revocation, two requests and two endpoints (one
  replaces another, and the wake push that read the first comes late); one event in each of three domains
  with a tool that may be its router or its handler; one subscription polled by the loop and by force, and
  content that changes once; a writer, a backup and two restores over three connections,
  retention of one; one of the two pairings has capabilities that cannot be read; two puts (one overtakes the other), a delete, a read of each kind and two keys; three tabs (two
  that mint and one that finds); two processes of a tool, one with two calls that share
  its socket. One crash each.
* The violations use the bounds of the passing run of their module or smaller ones; `poll_repeat` and `scheduler_moved`
  are without a crash, so that the counterexample has no other cause.

The proofs below hold without these bounds.

### Fairness

* `Scheduler`: weak fairness of each step of a fire, of the tick, of recovery and of
  the commit of an edit: the event loop runs what is ready, a tool returns (the sandbox kills it after its
  time-out), and the clock advances. Strong fairness of `StartTool`: the announcement of a fire
  may fail (`AuditFails`), but not every time. None for crashes, stops and edits. A process that is down is
  started again (`Reconcile`, `StartLoop`): whether it is started is the service manager's
  promise, without which nothing is ever scheduled. For `LiveScheduleFires`.
* `Permissions`: weak fairness of each caller (its waits have a time-out), of resolve calls that have begun
  and of the clean-up timers; none for the user, who may never answer.
* `Invocations`: weak fairness of each started call: the event loop runs what is ready, a
  tool ends within its time-out, a channel's `emit_output` returns. None for registration,
  new calls, notifications and crashes. For `SpawnedRunEnds`.
* `ChatTurns`: weak fairness of the steps of turns, as a whole: the event loop runs what is ready, tools
  have time-outs, a model's stream ends or raises. None for posts, clients that leave, archives,
  failures and crashes. For `ThinkingEnds`.
* `Outputs` (`outputs_claim_stuck` only): weak fairness of each emission and of each cancel
  that has begun: channels return. For `ClaimedRowSettles`, which is violated under it.

No fairness is assumed elsewhere.

## 4. Proofs

`tlapm <module>`; eight modules. Every property that a passing run checks is a theorem, the three
liveness properties apart: the run shows it on a small instance, the theorem for every value of
the constants that satisfies the module's `ConstantsAssumption`, and those assumptions are as weak as typing
requires. TLC evaluates them in every run: as an `ASSUME` of the module, or, for the modules that
`MCServices` instantiates, as the conjuncts of its `PartsAssumption`. The theorems about these modules
are in `ServicesProofs`, which extends `MCServices`: `Files!Spec => []RestoreIsReversible` is about
`Storage` over the variables and constants of the instance, whatever the values of the latter.

Each proof has the same shape. Hardly any of the properties is inductive as it stands; the strengthening says what
the place at which a coroutine is suspended tells about the rows, about what a crash would leave of them, and
about the history variables. It was checked by TLC on the run's instance before it was proved. One
lemma per action then shows that the step keeps the parts that it can disturb, and for the parts
of the *other* coroutines that it leaves them alone or changes them in the one way that they
allow (`Bystander`, `TablesStep`, `Stays`, `Grown`, `Same`).

* **`SchedulerProofs`**. None of the invariants is inductive by itself. `SchedulerInv` adds
  what the phase of a fire says about the two copies of the row: from the reserving UPDATE to
  the terminal one the marker is in the table (`MarkerHeld`), from the commit on it
  is on disk; a marker without a fire is on cancelled rows only (`MarkerNeedsFire`); an
  interrupted run is owed by the row (`OwedInRows`). Proved: `SchedulerTyped`; `ReservationsHold`, from
  `ReservationIsWriteAhead`, `FireSurvivesCrashes` and `ReservationsAreReleased`; and `OverIsOver`, from
  `CancelIsFinal` and `OneShotFiresOnce`.
* **`PermissionsProofs`**. `BoxReachable` (the box of a waiting caller is in the table or
  filled, or the caller will see the resolved row before it waits) and `TimerFollowsBox` (a timer that could
  free the slot of a waiter follows a notification that filled its box) are the heart of
  `NoLostWakeup`, which with `NoLeakedSlot` is `WaitersAreServed`. Also `PermissionsTyped`,
  `AnswersAreDurable`, `AnswersAreChosen`, and `TimeoutsHideNothing`, an action property.
* **`OutputsProofs`**. `Emission` ties the phase of an emission to its rows; with it
  `DeliveriesFollowLifecycle` is the refinement theorem, one case per action. `RecallInv`,
  `ShownInv` and `SeenInv` are the strengthenings for `RecallsAreSingle`, `CancelledIsRecalled`
  and `CancelsAreComplete`; `PollsMissOnlyLate` counts the
  rows between the cursor and a row that a page left out: they are fewer than `PageSize`.
* **`InvocationsProofs`**. `CallInv` says for each phase what the row is (`RowFollowsPhase`), that
  the saved row is at most one move behind (`OneMoveAhead`), and in which phases it is level
  with it; a step of one call leaves the others alone but for a commit (`Bystander`). From it
  `OrphansAreExplained`, `AnswersHold` and the refinement `RunsFollowLifecycle`.
  `ChildEndsFirst` is inductive by itself once each step is seen to be a `TreeStep`, which
  makes `ChildrenEndFirst` hold for call trees of any depth; `EmitInv` gives `ToldOnce`.
* **`ChatTurnsProofs`**. `TurnFollowsPhase` gives `TurnsTyped`; `DoneOK` follows a reply from its
  INSERT to the commit before `done` (`TablesStep`: other turns only append) and gives `DoneIsKept`.
  `CountOK` says where each half-done append is; a lemma on the cardinality of the turns between their two statements
  (`Counting`) gives `CountsAreRight`. `HistoryOK` says, of a session that is not crossed or
  cut, that at most one turn is active, that its history lacks exactly the results the turn has still to
  dispatch, and that what is saved is complete when it is not dispatching: hence `HistoriesAreComplete`.
* **`ServicesProofs`**, by part:
  * *Devices*. `Coherent`, of both copies of the tables, says that a device row was
    inserted by the call its code names and that only paired devices have an endpoint; with
    `PairingProgress` and `RevokeProgress` it is inductive and yields `CodesPairOnce`,
    `DeviceAnswersAreDurable` and `RevokedIsSilent`. `Registry` on top of it yields
    `PairedHasChannel` and `RevokedLosesChannel`; together they are `ReachIsCurrent`.
    `TransientFailuresAreHarmless` is an action property.
  * *Secrets*. The three properties are about a value that travels for minutes: `ReadOK` says, for
    each phase of a read, what is known of the copy it holds and of the log; `PutOK` which
    value a put has left in the row and who may have replaced it. With `SecretsTyped`
    (`ReadFollowsPhase`, `PutFollowsPhase`, `AnswerFollowsPhase`) they yield `DisclosuresAreAccounted` and
    `PutsAreStored`, for any number of puts, deletes and reads.
  * *InputSubscriptions*. `HashesAreSeen` is the inductive form of `SeenIsEmitted`:
    a hash on the row came from a poll that will emit it, has, or died between the two
    (`RecordedIsEmitted`). `OrderInv` relates what a poll read (`PollOK`) and the row (`SubOK`) to the content
    emitted last; `EventsAreInOrder` follows for each step of it. Also `SubscriptionsTyped`.
  * *RoutingEngine* (`TrailsMatch`). `TrailOK` says, for each phase of an event, which of its audit row,
    dispatch rows and effects exist: the dispatch rows are a prefix of the decision, as long as the handlers that
    were taken off `todo`, and an effect has no row yet only while its dispatch is being recorded or died there.
  * *Storage* (`RestoresAreReversible`, `ListedAreWhole`). Of what a restore closed the database with, it is
    known at each of its steps in which file it is: in the database and its log, in the file put aside, or in both.
    The connections that are open meanwhile are what makes it hard: what a handle writes to follows the renames, and
    the log is folded in by the last handle only. `overlap` and `spare` name the two cases that
    are excepted, and the invariant holds without either.
  * *BuildTerminal* (`ConversationsAreResumed`, `TabsCleanUp`). A tab's phase tells which process and pty are
    its own; a conversation that has begun is the row's or was minted by a tab that found none.
  * *ToolRpc* (`AnswersAreTrueAlways`). Who holds the client's lock is the one whose request or reply is on
    the connection; the reply is the answer to that request, and a stored state is what it says, or was replaced.
* **`EventBusProofs`**. `StreamOK` describes what a suspended `subscribe` generator holds (the rest of the replay, the live
  queue, the item it is about to yield) as a run of places in the log, each part before the next; this
  is `EventsAreInOrder`. `AccountOK` sends every event of the listener's audience between its first
  cursor and the end of the log to one of: handled, held, counted as dropped, out of the ring, lost with a
  process; its cases are those of `LossHasACause` (`LossesHaveACause`). `CursorOK` and `ReloadOK` tie the page's stored cursor to
  what it reloaded for, hence `ReloadsOnce`. `Events` enumerates a set of places in order; that the enumeration exists is
  proved by well-founded induction on the set (`NumbersByInduction`).
* **`OutputRouterProofs`**. The first half is about the operators: which rules `RulesFound` has for a given
  prefix of the defaults, what the first match and the last override are, and what filter and fallback
  leave (`RulesShape`, `BaseChannels`, `OverriddenChannels`, `FinalChannels`). `RouterInv`: `EmissionOK` says what an emission has
  loaded in each phase (a part of the defaults at least, since rows are promoted only after a
  seeding), which gives `UrgentIsSeenAlways` and `QuietIsKeptAlways`; `AckedOK` says that an acknowledged promotion is in both copies
  of the table, for `PromotionIsKeptAlways`; `OnceOK`, of a proposal that no two accepts had at once and no
  crash caught, and `TopicOK`, of a topic that no two emissions looked up at once, give
  `DuplicatesHaveACause`. A step but a crash only adds to the tables (`TablesMove`, `Grown`), which is most of
  every case.

Model-checked only: the liveness properties (`LiveScheduleFires`, `SpawnedRunEnds`, `ThinkingEnds`), since
TLAPS has no `ENABLED`; that the properties of the violated runs fail, of which a
counterexample is all there is to show.

## 5. Not modelled

* Contents, formatting, the HTML pages, the HTTP layer, authentication headers.
* Time: instants are due or not, time-outs may fire at any moment. The arithmetic of
  `_compute_next_fire` and the matching of grant scopes are constants or choices here; both are
  pure.
* Output rate limits: the code is there (`outputs/router.py:426`), but no channel of the
  repository sets one. The console channel, an external tool.
* The ambient loop (it sleeps, asks the model, and acts through components that are
  modelled), the Ollama supervisor and the sandbox's command lines (process handling of the operating system).
* Updating and forgetting memories (single statements), renaming a chat and its usage
  figures, creating a subscription while the loop runs and editing its URL, listing routes.
* `update_context`: it replaces the arguments and the context of a schedule (`routes/schedules.py:132-134`), which a fire
  reads with its row and hands to the tool; no guard looks at them.
* `report_response`, `touch_last_seen`, `has_targeted_subscriber`.
* Schema creation and migrations; errors of sqlite itself (a full disk, a locked file).
* The components marked `not_modelled` or `partly` in `PROJECT.json`, with the reasons given there.

## 6. Plan

Done: every component with state of its own that coroutines, crashes or messages can put out
of order, and a proof of every safety and action property that the passing runs check.

Next:

1. Composition: `Scheduler` with `Invocations` through `_execute_tool`, `OutputRouter` with
   `Outputs` in place of the constant `Decisions`, `ToolRpc` with `Permissions`.
2. `ScopeMatching`, `WhenSpec`: pure operators against reference definitions.
3. `Lifespan`: start-up and shutdown order of the services (`main.py`, `ollama_supervisor.py`, `ambient.py`).
4. Abstract specifications that more components can be shown to implement: a permission
   request (`pending` to decided), a subscription's stream of events, a rule proposal.
