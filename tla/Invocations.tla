----------------------------- MODULE Invocations -----------------------------
(***************************************************************************)
(* Tool runs (routes/tools.py): the row of an invocation, the coroutine    *)
(* that executes it, the socket through which the tool calls back          *)
(* (tool_socket.py), and the registration of tools.                        *)
(*                                                                         *)
(* The callers of _execute_tool either wait for it (a route, the chat, the *)
(* scheduler), or have _spawn_invocation run it in the background, or are  *)
(* tools: the connection handler of the parent's socket waits for it.      *)
(*                                                                         *)
(* row and tool are what the shared connection reads; savedRow and         *)
(* savedTool what a crash leaves.  Whether a tool may invoke another is    *)
(* left to Permissions.                                                    *)
(***************************************************************************)
EXTENDS Naturals

CONSTANTS
  Awaited,     \* calls whose caller awaits _execute_tool
  Spawned,     \* calls of _spawn_invocation
  Nested,      \* calls a tool makes through its socket
  Parent,      \* the call that makes a nested one
  Notifying,   \* calls whose tool may notify the user
  Tools,
  Target,      \* the tool that each call names
  MaxCrashes   \* bound on the crashes of a behaviour

Calls == Awaited \cup Spawned \cup Nested

ASSUME ConstantsAssumption ==
  /\ Awaited \cap Spawned = {} /\ Nested \cap (Awaited \cup Spawned) = {}
  /\ Parent \in [Nested -> Calls]
  /\ Target \in [Calls -> Tools]
  /\ Notifying \subseteq Calls
  /\ MaxCrashes \in Nat

Lives == {"absent", "running", "ok", "error"}
Ended == {"ok", "error"}

Phases == {"idle", "missing", "spawning", "queued", "valid", "invalid", "refused", "inserted",
           "started", "running", "closing", "closed", "informed", "settled", "auditing",
           "raised", "rescued", "done", "lost"}

\* A result is the object the tool printed, one with an "error" (a time-out and an exit
\* code among them), or output that _execute_tool trips over: no object, or no text.
Results == {"none", "object", "error", "unusable"}

VARIABLES
  tool,        \* tools and tool_manifests: "none", "row" or "manifest"
  savedTool,
  files,       \* tools whose run.py is on disk
  register,    \* where the registration of each tool is
  row,         \* invocations
  savedRow,
  phase,       \* where each coroutine is
  result,
  emit,        \* an output of the tool's own: "no", "sending", "counted" or "late"
  announced,   \* calls whose completion was announced to the user
  answer,      \* what the caller was told: its result, or "id", "no_row", "raised"
  crashes

catalogue == <<tool, savedTool, files, register>>
table     == <<row, savedRow>>
runs      == <<phase, result, emit, announced, answer>>
vars      == <<catalogue, table, runs, crashes>>

Init ==
  /\ tool = [t \in Tools |-> "none"] /\ savedTool = tool
  /\ files = {} /\ register = [t \in Tools |-> "idle"]
  /\ row = [c \in Calls |-> "absent"] /\ savedRow = row
  /\ phase = [c \in Calls |-> "idle"] /\ result = [c \in Calls |-> "none"]
  /\ emit = [c \in Calls |-> "no"] /\ announced = {}
  /\ answer = [c \in Calls |-> "none"]
  /\ crashes = 0

\* A commit on the shared connection.
Commit == savedRow' = row /\ savedTool' = tool

AtWork(c) == phase[c] \notin {"idle", "done", "lost"}

\* The connection handler of a parent takes requests until the end of its input, which
\* the tool may reach after its time-out.
Listening(c) == phase[c] \in {"running", "closing"}

Goto(c, next) == phase' = [phase EXCEPT ![c] = next]
Return(c, what) == Goto(c, "done") /\ answer' = [answer EXCEPT ![c] = what]
Write(c, status) == row' = [row EXCEPT ![c] = status]

-----------------------------------------------------------------------------
(* register_tool: two INSERTs, the commit, the files.                      *)

InsertTool(t) ==
  /\ register[t] = "idle"
  /\ tool' = [tool EXCEPT ![t] = "row"]
  /\ register' = [register EXCEPT ![t] = "row"]
  /\ UNCHANGED <<savedTool, files, table, runs, crashes>>

InsertManifest(t) ==
  /\ register[t] = "row"
  /\ tool' = [tool EXCEPT ![t] = "manifest"]
  /\ register' = [register EXCEPT ![t] = "manifest"]
  /\ UNCHANGED <<savedTool, files, table, runs, crashes>>

CommitTool(t) ==
  /\ register[t] = "manifest"
  /\ Commit
  /\ register' = [register EXCEPT ![t] = "committed"]
  /\ UNCHANGED <<tool, files, row, runs, crashes>>

WriteCode(t) ==
  /\ register[t] = "committed"
  /\ files' = files \cup {t}
  /\ register' = [register EXCEPT ![t] = "done"]
  /\ UNCHANGED <<tool, savedTool, table, runs, crashes>>

-----------------------------------------------------------------------------
(* _spawn_invocation.                                                      *)

\* An unknown tool: a finished row at once.
SpawnMissing(c) ==
  /\ c \in Spawned /\ phase[c] = "idle" /\ tool[Target[c]] = "none"
  /\ Write(c, "error") /\ Goto(c, "missing")
  /\ UNCHANGED <<catalogue, savedRow, result, emit, announced, answer, crashes>>

CommitMissing(c) ==
  /\ phase[c] = "missing"
  /\ Commit
  /\ Return(c, "id")
  /\ UNCHANGED <<tool, files, register, row, result, emit, announced, crashes>>

SpawnInsert(c) ==
  /\ c \in Spawned /\ phase[c] = "idle" /\ tool[Target[c]] # "none"
  /\ Write(c, "running") /\ Goto(c, "spawning")
  /\ UNCHANGED <<catalogue, savedRow, result, emit, announced, answer, crashes>>

\* The task is created, and the id returned.
SpawnCommit(c) ==
  /\ phase[c] = "spawning"
  /\ Commit
  /\ Goto(c, "queued")
  /\ answer' = [answer EXCEPT ![c] = "id"]
  /\ UNCHANGED <<tool, files, register, row, result, emit, announced, crashes>>

-----------------------------------------------------------------------------
(* _execute_tool.                                                          *)

\* A call comes in.
Called(c) ==
  /\ phase[c] = "idle"
  /\ c \in Awaited \/ (c \in Nested /\ Listening(Parent[c]))

\* No row is left of a call to an unknown tool.  (A spawned call saw the tool, and a
\* tool that was seen stays until a crash.)
LoadMissing(c) ==
  /\ Called(c) /\ tool[Target[c]] = "none"
  /\ Return(c, "no_row")
  /\ UNCHANGED <<catalogue, table, result, emit, announced, crashes>>

\* _load_tool_and_manifest and _validate_args.  A tool without a manifest has no schema.
\* The row of a spawned call is there already.
Load(c) ==
  /\ Called(c) \/ phase[c] = "queued"
  /\ tool[Target[c]] # "none"
  /\ \/ Goto(c, IF c \in Spawned THEN "started" ELSE "valid")
     \/ tool[Target[c]] = "manifest" /\ Goto(c, "invalid")
  /\ UNCHANGED <<catalogue, table, result, emit, announced, answer, crashes>>

\* _record_validation_failure: INSERT or UPDATE.
RecordInvalid(c) ==
  /\ phase[c] = "invalid"
  /\ Write(c, "error") /\ Goto(c, "refused")
  /\ UNCHANGED <<catalogue, savedRow, result, emit, announced, answer, crashes>>

CommitInvalid(c) ==
  /\ phase[c] = "refused"
  /\ Commit
  /\ Goto(c, "auditing")
  /\ UNCHANGED <<tool, files, register, row, result, emit, announced, answer, crashes>>

\* _start_invocation_row.
InsertRow(c) ==
  /\ phase[c] = "valid"
  /\ Write(c, "running") /\ Goto(c, "inserted")
  /\ UNCHANGED <<catalogue, savedRow, result, emit, announced, answer, crashes>>

CommitRow(c) ==
  /\ phase[c] = "inserted"
  /\ Commit
  /\ Goto(c, "started")
  /\ UNCHANGED <<tool, files, register, row, result, emit, announced, answer, crashes>>

-----------------------------------------------------------------------------
(* _run_in_sandbox.                                                        *)

NoCode(c) ==
  /\ phase[c] = "started" /\ Target[c] \notin files
  /\ result' = [result EXCEPT ![c] = "error"]
  /\ Goto(c, "closed")
  /\ UNCHANGED <<catalogue, table, emit, announced, answer, crashes>>

\* The socket is open and the process runs.
Launch(c) ==
  /\ phase[c] = "started" /\ Target[c] \in files
  /\ Goto(c, "running")
  /\ UNCHANGED <<catalogue, table, result, emit, announced, answer, crashes>>

\* The process cannot be created.
LaunchFails(c) ==
  /\ phase[c] = "started" /\ Target[c] \in files
  /\ Goto(c, "raised")
  /\ UNCHANGED <<catalogue, table, result, emit, announced, answer, crashes>>

\* The tool notifies the user.
EmitBegin(c) ==
  /\ c \in Notifying /\ Listening(c) /\ emit[c] = "no"
  /\ emit' = [emit EXCEPT ![c] = "sending"]
  /\ UNCHANGED <<catalogue, table, phase, result, announced, answer, crashes>>

\* emit_output has returned and the socket counts it.  The count is read as the process
\* ends, before the socket is closed, and an output that comes back later is not in it.
EmitEnd(c) ==
  /\ AtWork(c) /\ emit[c] = "sending"
  /\ emit' = [emit EXCEPT ![c] = IF phase[c] = "running" THEN "counted" ELSE "late"]
  /\ UNCHANGED <<catalogue, table, phase, result, announced, answer, crashes>>

\* The process ends, of itself or killed after its time-out.
Exit(c) ==
  /\ phase[c] = "running"
  /\ \E r \in Results \ {"none"} : result' = [result EXCEPT ![c] = r]
  /\ Goto(c, "closing")
  /\ UNCHANGED <<catalogue, table, emit, announced, answer, crashes>>

\* Slip: the socket is closed and its handlers are not waited for.
CloseAtOnce(c) ==
  /\ phase[c] = "closing"
  /\ Goto(c, "closed")
  /\ UNCHANGED <<catalogue, table, result, emit, announced, answer, crashes>>

\* ToolSocket.__aexit__: wait_closed returns when no connection handler is left.
Close(c) ==
  /\ phase[c] = "closing"
  /\ emit[c] # "sending" /\ \A n \in Nested : Parent[n] = c => ~ AtWork(n)
  /\ Goto(c, "closed")
  /\ UNCHANGED <<catalogue, table, result, emit, announced, answer, crashes>>

-----------------------------------------------------------------------------
(* The end of a run.                                                       *)

\* Slip: the tool's own outputs are not looked at.
AnnounceAlways(c) ==
  /\ phase[c] = "closed" /\ result[c] # "unusable"
  /\ \/ UNCHANGED announced
     \/ c \notin Nested /\ result[c] = "object" /\ announced' = announced \cup {c}
  /\ Goto(c, "informed")
  /\ UNCHANGED <<catalogue, table, result, emit, answer, crashes>>

\* _maybe_auto_emit_completion.  What emit_output raises is swallowed.
Announce(c) ==
  /\ phase[c] = "closed" /\ result[c] # "unusable"
  /\ \/ UNCHANGED announced
     \/ /\ c \notin Nested /\ result[c] = "object" /\ emit[c] # "counted"
        /\ announced' = announced \cup {c}
  /\ Goto(c, "informed")
  /\ UNCHANGED <<catalogue, table, result, emit, answer, crashes>>

\* result.get, or stdout.decode, raises: nothing has been written.
Unusable(c) ==
  /\ phase[c] = "closed" /\ result[c] = "unusable"
  /\ Goto(c, "raised")
  /\ UNCHANGED <<catalogue, table, result, emit, announced, answer, crashes>>

\* _finalize_invocation.
Settle(c) ==
  /\ phase[c] = "informed"
  /\ Write(c, IF result[c] = "object" THEN "ok" ELSE "error")
  /\ Goto(c, "settled")
  /\ UNCHANGED <<catalogue, savedRow, result, emit, announced, answer, crashes>>

CommitSettle(c) ==
  /\ phase[c] = "settled"
  /\ Commit
  /\ Goto(c, "auditing")
  /\ UNCHANGED <<tool, files, register, row, result, emit, announced, answer, crashes>>

\* audit.log, with a commit of its own, then the event, then the answer.
Audit(c) ==
  /\ phase[c] = "auditing"
  /\ Commit
  /\ Return(c, IF c \in Spawned THEN "id" ELSE row[c])
  /\ UNCHANGED <<tool, files, register, row, result, emit, announced, crashes>>

AuditFails(c) ==
  /\ phase[c] = "auditing"
  /\ Goto(c, "raised")
  /\ UNCHANGED <<catalogue, table, result, emit, announced, answer, crashes>>

\* The exception reaches the caller.
Raise(c) ==
  /\ phase[c] = "raised" /\ c \notin Spawned
  /\ Return(c, "raised")
  /\ UNCHANGED <<catalogue, table, result, emit, announced, crashes>>

\* Slip: the background task only logs the exception.
RescueNothing(c) ==
  /\ phase[c] = "raised" /\ c \in Spawned
  /\ Goto(c, "done")
  /\ UNCHANGED <<catalogue, table, result, emit, announced, answer, crashes>>

\* Slip: its UPDATE lacks "AND finished_at IS NULL".
RescueAny(c) ==
  /\ phase[c] = "raised" /\ c \in Spawned
  /\ Write(c, "error")
  /\ Goto(c, "rescued")
  /\ UNCHANGED <<catalogue, savedRow, result, emit, announced, answer, crashes>>

\* _runner: the row of a spawned call that raised, if it is not finished.
Rescue(c) ==
  /\ phase[c] = "raised" /\ c \in Spawned
  /\ Write(c, IF row[c] = "running" THEN "error" ELSE row[c])
  /\ Goto(c, "rescued")
  /\ UNCHANGED <<catalogue, savedRow, result, emit, announced, answer, crashes>>

CommitRescue(c) ==
  /\ phase[c] = "rescued"
  /\ Commit
  /\ Goto(c, "done")
  /\ UNCHANGED <<tool, files, register, row, result, emit, announced, answer, crashes>>

-----------------------------------------------------------------------------
OtherCommit ==
  /\ <<row, tool>> # <<savedRow, savedTool>>
  /\ Commit
  /\ UNCHANGED <<tool, files, register, row, runs, crashes>>

\* The process dies, its tools with it (--die-with-parent), and is started again.
Restart ==
  /\ crashes < MaxCrashes
  /\ crashes' = crashes + 1
  /\ row' = savedRow /\ tool' = savedTool
  /\ register' = [t \in Tools |-> IF register[t] \in {"idle", "done"} THEN register[t] ELSE "lost"]
  /\ phase' = [c \in Calls |-> IF AtWork(c) THEN "lost" ELSE phase[c]]
  /\ UNCHANGED <<savedRow, savedTool, files, result, emit, announced, answer>>

RegisterStep(t) == InsertTool(t) \/ InsertManifest(t) \/ CommitTool(t) \/ WriteCode(t)

SpawnStep(c) == CommitMissing(c) \/ SpawnCommit(c)

RunStep(c) ==
  \/ RecordInvalid(c) \/ CommitInvalid(c) \/ InsertRow(c) \/ CommitRow(c)
  \/ NoCode(c) \/ Launch(c) \/ LaunchFails(c) \/ EmitEnd(c) \/ Exit(c) \/ Close(c)

EndStep(c) ==
  \/ Announce(c) \/ Unusable(c) \/ Settle(c) \/ CommitSettle(c) \/ Audit(c) \/ AuditFails(c)
  \/ Raise(c) \/ Rescue(c) \/ CommitRescue(c)

\* What the environment may do or not.
Arrival(c) == SpawnMissing(c) \/ SpawnInsert(c) \/ LoadMissing(c) \/ EmitBegin(c)

Next ==
  \/ \E t \in Tools : RegisterStep(t)
  \/ \E c \in Calls : Arrival(c) \/ Load(c) \/ SpawnStep(c) \/ RunStep(c) \/ EndStep(c)
  \/ OtherCommit
  \/ Restart

\* The event loop resumes what is ready, and a tool ends within its time-out.
Fairness ==
  \A c \in Calls :
    WF_vars(phase[c] = "queued" /\ Load(c)) /\ WF_vars(SpawnStep(c) \/ RunStep(c) \/ EndStep(c))

Spec == Init /\ [][Next]_vars
FairSpec == Spec /\ Fairness

-----------------------------------------------------------------------------
(* Properties                                                              *)

TypeOK ==
  /\ tool \in [Tools -> {"none", "row", "manifest"}]
  /\ savedTool \in [Tools -> {"none", "row", "manifest"}]
  /\ files \subseteq Tools
  /\ register \in [Tools -> {"idle", "row", "manifest", "committed", "done", "lost"}]
  /\ row \in [Calls -> Lives] /\ savedRow \in [Calls -> Lives]
  /\ phase \in [Calls -> Phases]
  /\ result \in [Calls -> Results]
  /\ emit \in [Calls -> {"no", "sending", "counted", "late"}]
  /\ announced \subseteq Calls
  /\ answer \in [Calls -> {"none", "id", "no_row", "raised"} \cup Ended]
  /\ crashes \in 0..MaxCrashes

Lifecycle == INSTANCE InvocationLifecycle WITH life <- savedRow

\* A poller sees a run end once and as it ended, whatever fails after the end was
\* written ("AND finished_at IS NULL", _spawn_invocation).
FollowsLifecycle == Lifecycle!Spec

\* A "running" row with nobody at work on it is of a run that a crash cut short ("rows can
\* stay running forever", docs/concepts/activities.md), or of a call whose caller got an
\* exception in place of a result: no process, or output that is no object.  The second
\* is not documented and needs no crash.
OrphanHasACause ==
  \A c \in Calls :
    row[c] = "running" /\ ~ AtWork(c)
      => \/ phase[c] = "lost"
         \/ answer[c] = "raised" /\ result[c] \in {"none", "unusable"}

\* A caller finds the row of the id it was given, with the result it was given, and
\* no crash changes either ("a fast get_invocation call right after this returns sees
\* the row", _spawn_invocation).
AnswerIsDurable ==
  \A c \in Calls :
    /\ answer[c] = "id" => savedRow[c] # "absent"
    /\ answer[c] \in Ended => savedRow[c] = answer[c]

\* The call tree unwinds from its leaves: a run that is over, or about to be, has no
\* nested call at work, a killed tool's included.
ChildEndsFirst == \A n \in Nested : AtWork(n) => Listening(Parent[n])

\* The user is told twice, by the tool and by the kernel, only of a tool that ended with
\* an output of its own still on the way ("invocations that didn't surface anything
\* themselves", _maybe_auto_emit_completion): the runtime library waits for the answer.
ToldTwiceOnlyIfLate == \A c \in announced : emit[c] \in {"no", "late"}

\* Who polls the id of a background run sees it end, unless the process dies.
SpawnedRunEnds ==
  \A c \in Spawned : answer[c] = "id" ~> row[c] \in Ended \/ phase[c] = "lost"
=============================================================================
