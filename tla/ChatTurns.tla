------------------------------ MODULE ChatTurns ------------------------------
(***************************************************************************)
(* Live chat: the model turns of routes/chat.py (stream_chat_turns) that a *)
(* POST starts and streams to its client, and those that the input handler *)
(* llm starts in the background (inputs/handlers.py), over the sessions    *)
(* and messages that they share.                                           *)
(*                                                                         *)
(* A turn appends a message in three awaited steps: the INSERT, whose seq  *)
(* is computed inside it, the UPDATE of the session's counter, and the     *)
(* commit.  The connection is one for the whole process: any commit makes  *)
(* everybody's half-done appends durable, and a crash takes back what was  *)
(* not committed.                                                          *)
(***************************************************************************)
EXTENDS Naturals, Sequences, FiniteSets

CONSTANTS
  Chats,         \* ids that POST /sessions draws for live_chat sessions
  Posts,         \* calls of POST /sessions/{id}/messages
  Inputs,        \* input events that are dispatched to the handler llm
  MaxIterations, \* max_iterations: model calls in a turn
  MaxCalls,      \* bound on the tool calls in one reply
  MaxFaults      \* bound on the crashes and failures of the store in a behaviour

ASSUME ConstantsAssumption ==
  /\ Posts \cap Inputs = {} /\ Chats \cap Inputs = {}
  /\ IsFiniteSet(Posts \cup Inputs)
  /\ MaxIterations \in Nat \ {0} /\ MaxCalls \in Nat /\ MaxFaults \in Nat

Turns     == Posts \cup Inputs
Sessions  == Chats \cup Inputs \* an input may create a session, under an id of its own
NoSession == "no_session"
ASSUME NoSessionAssumption == NoSession \notin Sessions

Message    == [role : {"user", "assistant", "tool"}, turn : Turns, calls : 0..MaxCalls]
SessionRow == [state : {"none", "open", "archived"}, messages : Seq(Message), count : Nat]

\* A turn that has begun and not ended.
Active == {"creating", "opening", "iterating", "streaming", "calling", "again", "finishing"}
Phases == Active \cup {"idle", "over", "lost"}

VARIABLES
  db,     \* what the connection shows: [session, messages, count] of every session
  saved,  \* what of it is committed
  phase,  \* where each turn is
  at,     \* its session
  write,  \* its append: "no", or the step that comes next
  round,  \* model calls that it has made
  calls,  \* tool calls of the last reply that it has still to dispatch
  told,   \* the last of "error" and "done" that its consumer was sent
  \* what happened, for the properties
  crossed, \* sessions two of whose turns have overlapped
  cut,     \* sessions with a turn that was cut off between its calls and their results
  torn,    \* sessions with an append that was cut off half-way
  faults

tables   == <<db, saved>>
progress == <<at, round, calls>>
seen     == <<crossed, cut, torn>>
vars     == <<tables, phase, write, progress, told, seen, faults>>

NoSessionRow == [state |-> "none", messages |-> <<>>, count |-> 0]

Init ==
  /\ db = [s \in Sessions |-> NoSessionRow]
  /\ saved = db
  /\ phase = [t \in Turns |-> "idle"]
  /\ at = [t \in Turns |-> NoSession]
  /\ write = [t \in Turns |-> "no"]
  /\ round = [t \in Turns |-> 0]
  /\ calls = [t \in Turns |-> 0]
  /\ told = [t \in Turns |-> "nothing"]
  /\ crossed = {} /\ cut = {} /\ torn = {}
  /\ faults = 0

Open == {s \in Sessions : db[s].state = "open"}

Move(t, from, to) == phase[t] = from /\ phase' = [phase EXCEPT ![t] = to]

-----------------------------------------------------------------------------
(* Sessions.                                                               *)

\* POST /sessions.
CreateSession(s) ==
  /\ s \in Chats
  /\ db[s].state = "none"
  /\ db' = [db EXCEPT ![s].state = "open"]
  /\ saved' = db'
  /\ UNCHANGED <<phase, write, progress, told, seen, faults>>

\* DELETE /sessions/{id}.
ArchiveSession(s) ==
  /\ db[s].state = "open"
  /\ db' = [db EXCEPT ![s].state = "archived"]
  /\ saved' = db'
  /\ UNCHANGED <<phase, write, progress, told, seen, faults>>

-----------------------------------------------------------------------------
(* _append_message.                                                        *)

\* The INSERT, which ends whatever the turn was waiting for before it.
Insert(t, role, n) ==
  /\ write[t] = "no"
  /\ write' = [write EXCEPT ![t] = "count"]
  /\ db' = [db EXCEPT ![at[t]].messages =
              Append(@, [role |-> role, turn |-> t, calls |-> n])]

\* Slip: the results of tools are not counted.
CountReply(t) ==
  /\ write[t] = "count"
  /\ write' = [write EXCEPT ![t] = "commit"]
  /\ db' = [db EXCEPT ![at[t]].count =
              IF phase[t] = "iterating" /\ round[t] > 0 THEN @ ELSE @ + 1]
  /\ UNCHANGED <<saved, phase, progress, told, seen, faults>>

Count(t) ==
  /\ write[t] = "count"
  /\ write' = [write EXCEPT ![t] = "commit"]
  /\ db' = [db EXCEPT ![at[t]].count = @ + 1]
  /\ UNCHANGED <<saved, phase, progress, told, seen, faults>>

\* Slip: the commit is left to whoever commits next.
CommitLater(t) ==
  /\ write[t] = "commit"
  /\ write' = [write EXCEPT ![t] = "no"]
  /\ UNCHANGED <<tables, phase, progress, told, seen, faults>>

Commit(t) ==
  /\ write[t] = "commit"
  /\ write' = [write EXCEPT ![t] = "no"]
  /\ saved' = db
  /\ UNCHANGED <<db, phase, progress, told, seen, faults>>

\* Any other coroutine commits: an audit entry, record_usage, a tool that is dispatched.
OtherCommit ==
  /\ saved # db /\ saved' = db
  /\ UNCHANGED <<db, phase, write, progress, told, seen, faults>>

-----------------------------------------------------------------------------
(* The start of a turn.                                                    *)

Overlaps(t, s) == \E u \in Turns \ {t} : at[u] = s /\ phase[u] \in Active

Address(t, s) ==
  /\ at' = [at EXCEPT ![t] = s]
  /\ crossed' = IF Overlaps(t, s) THEN crossed \cup {s} ELSE crossed

\* send_message: the session is read and neither unknown nor archived.
SendMessage(t, s) ==
  /\ t \in Posts /\ s \in Open
  /\ Move(t, "idle", "opening")
  /\ Address(t, s)
  /\ UNCHANGED <<tables, write, round, calls, told, cut, torn, faults>>

\* _llm_handle finds the live chat that was used last, whichever it is, or none.
FindSession(t) ==
  /\ t \in Inputs
  /\ \/ /\ Move(t, "idle", "opening")
        /\ \E s \in Open : Address(t, s)
     \/ /\ Open = {}
        /\ Move(t, "idle", "creating")
        /\ UNCHANGED <<at, crossed>>
  /\ UNCHANGED <<tables, write, round, calls, told, cut, torn, faults>>

\* It inserts a session; the commit is that of the message.
InsertSession(t) ==
  /\ Move(t, "creating", "opening")
  /\ db' = [db EXCEPT ![t].state = "open"]
  /\ Address(t, t)
  /\ UNCHANGED <<saved, write, round, calls, told, cut, torn, faults>>

\* The user's message, in a session that may have been archived since.  The turn follows.
Ask(t) ==
  /\ Move(t, "opening", "iterating")
  /\ Insert(t, "user", 0)
  /\ UNCHANGED <<saved, progress, told, seen, faults>>

-----------------------------------------------------------------------------
(* stream_chat_turns.                                                      *)

Awaiting(t) == write[t] = "no"

\* The local variables of a turn that ends.
Forget(t) ==
  /\ write' = [write EXCEPT ![t] = "no"]
  /\ round' = [round EXCEPT ![t] = 0] /\ calls' = [calls EXCEPT ![t] = 0]

\* _load_history_for_llm, at the first iteration or the next.
Iterate(t) ==
  /\ Awaiting(t) /\ round[t] < MaxIterations
  /\ phase[t] \in {"iterating", "again"}
  /\ phase' = [phase EXCEPT ![t] = "streaming"]
  /\ round' = [round EXCEPT ![t] = @ + 1]
  /\ UNCHANGED <<tables, write, at, calls, told, seen, faults>>

\* Slip: calls are dispatched only if the model says that it finished for them.
AfterItSays(n) == IF n = 0 THEN {"finishing", "again"} ELSE {"finishing", "calling"}

\* Where the turn goes on after a reply with n calls.  A model may finish for tool_calls and
\* name none: it is asked again.
After(n) == IF n = 0 THEN {"finishing", "again"} ELSE {"calling"}

\* The model's reply is complete; it is appended, with the tool calls in it.
Reply(t) ==
  \E n \in 0..MaxCalls : \E p \in After(n) :
    /\ Move(t, "streaming", p)
    /\ Insert(t, "assistant", n)
    /\ calls' = [calls EXCEPT ![t] = n]
    /\ UNCHANGED <<saved, at, round, told, seen, faults>>

\* Slip: the result of a tool that failed is not appended.
CallToolFails(t) ==
  /\ Awaiting(t)
  /\ Move(t, "calling", IF calls[t] = 1 THEN "iterating" ELSE "calling")
  /\ calls' = [calls EXCEPT ![t] = @ - 1]
  /\ Insert(t, "tool", 0) \/ UNCHANGED <<db, write>>
  /\ UNCHANGED <<saved, at, round, told, seen, faults>>

\* dispatch_tool, which never raises, and its result is appended.
CallTool(t) ==
  /\ Move(t, "calling", IF calls[t] = 1 THEN "iterating" ELSE "calling")
  /\ calls' = [calls EXCEPT ![t] = @ - 1]
  /\ Insert(t, "tool", 0)
  /\ UNCHANGED <<saved, at, round, told, seen, faults>>

Tell(t, event) == told' = [told EXCEPT ![t] = event]

\* A reply without calls ends the turn.
Finish(t) ==
  /\ Awaiting(t)
  /\ Move(t, "finishing", "over")
  /\ Tell(t, "done")
  /\ Forget(t)
  /\ UNCHANGED <<tables, at, seen, faults>>

\* The iteration cap: an error and done.
GiveUp(t) ==
  /\ Awaiting(t) /\ round[t] = MaxIterations
  /\ phase[t] \in {"iterating", "again"}
  /\ phase' = [phase EXCEPT ![t] = "over"]
  /\ Tell(t, "error_done")
  /\ Forget(t)
  /\ UNCHANGED <<tables, at, seen, faults>>

\* Slip: the error is told and nothing after it.
ModelFailsQuietly(t) ==
  /\ Move(t, "streaming", "over")
  /\ Tell(t, "error")
  /\ Forget(t)
  /\ UNCHANGED <<tables, at, seen, faults>>

\* The model's server fails before or in its reply: an error and done, and nothing is kept.
ModelFails(t) ==
  /\ Move(t, "streaming", "over")
  /\ Tell(t, "error_done")
  /\ Forget(t)
  /\ UNCHANGED <<tables, at, seen, faults>>

\* The results of the turn's last reply are not all in its session.
CallsOpen(t) ==
  \/ phase[t] = "calling"
  \/ phase[t] = "iterating" /\ round[t] > 0 /\ ~Awaiting(t)

Fault == faults < MaxFaults /\ faults' = faults + 1

\* A turn stops where it is; what it has appended stays.
Abandon(t, outcome) ==
  /\ phase' = [phase EXCEPT ![t] = outcome]
  /\ Forget(t)
  /\ cut' = IF CallsOpen(t) THEN cut \cup {at[t]} ELSE cut
  /\ torn' = IF write[t] \in {"count", "commit"} THEN torn \cup {at[t]} ELSE torn
  /\ UNCHANGED <<tables, at, crossed>>

\* The route or the handler is still storing what the user said.
Asking(t) ==
  \/ phase[t] \in {"creating", "opening"}
  \/ phase[t] = "iterating" /\ round[t] = 0 /\ ~Awaiting(t)

\* The client of a POST leaves, and its generator is cancelled wherever it awaits, or stops
\* before its next iteration.  The route itself, which appends the user's message, goes on.
Disconnect(t) ==
  /\ t \in Posts /\ phase[t] \in Active /\ ~Asking(t)
  /\ Abandon(t, "lost")
  /\ UNCHANGED <<told, faults>>

\* A statement of the route or of the handler raises: its caller gets the error, and no turn begins.
AskFails(t) ==
  /\ Fault /\ Asking(t)
  /\ Abandon(t, "lost")
  /\ UNCHANGED told

\* A statement of the generator raises, any but the record of its usage: an error and done.
StoreFails(t) ==
  /\ Fault
  /\ phase[t] \in Active /\ ~Asking(t)
  /\ phase[t] = "finishing" => ~Awaiting(t)
  /\ Abandon(t, "over")
  /\ Tell(t, "error_done")

\* The death of the process while a turn is at work, and its next start: no turn is taken up again.
Crash ==
  /\ Fault
  /\ \E t \in Turns : phase[t] \in Active
  /\ db' = saved
  /\ phase' = [t \in Turns |-> IF phase[t] \in Active THEN "lost" ELSE phase[t]]
  /\ write' = [t \in Turns |-> "no"]
  /\ round' = [t \in Turns |-> 0] /\ calls' = [t \in Turns |-> 0]
  /\ cut' = cut \cup {at[t] : t \in {u \in Turns : CallsOpen(u)}}
  /\ torn' = torn \cup {at[t] : t \in {u \in Turns : write[u] \in {"count", "commit"}}}
  /\ UNCHANGED <<saved, at, told, crossed>>

TurnStep(t) ==
  \/ Count(t) \/ Commit(t) \/ InsertSession(t) \/ Ask(t)
  \/ Iterate(t) \/ Reply(t) \/ CallTool(t) \/ Finish(t) \/ GiveUp(t)
  \/ ModelFails(t) \/ AskFails(t) \/ StoreFails(t)

Next ==
  \/ \E s \in Sessions : CreateSession(s) \/ ArchiveSession(s)
  \/ \E t \in Turns : TurnStep(t) \/ FindSession(t) \/ Disconnect(t)
  \/ \E t \in Turns, s \in Sessions : SendMessage(t, s)
  \/ OtherCommit \/ Crash

\* The event loop runs what is ready, tools have time-outs, and a model's stream ends.
Fairness == WF_vars(\E t \in Turns : TurnStep(t))

Spec == Init /\ [][Next]_vars /\ Fairness

-----------------------------------------------------------------------------
(* Properties.                                                             *)

TypeOK ==
  /\ db \in [Sessions -> SessionRow] /\ saved \in [Sessions -> SessionRow]
  /\ phase \in [Turns -> Phases]
  /\ at \in [Turns -> Sessions \cup {NoSession}]
  /\ write \in [Turns -> {"no", "count", "commit"}]
  /\ round \in [Turns -> 0..MaxIterations]
  /\ calls \in [Turns -> 0..MaxCalls]
  /\ told \in [Turns -> {"nothing", "error", "done", "error_done"}]

\* A model takes a history only if every reply with calls is followed by their results.
Complete(history) ==
  \A i \in DOMAIN history :
    LET n == history[i].calls
    IN  /\ Len(history) >= i + n
        /\ \A j \in i + 1..i + n :
             history[j].role = "tool" /\ history[j].turn = history[i].turn

\* What a turn sends to the model is such a history, after any sequence of turns, errors and
\* restarts, unless two turns of the session have overlapped, or one was cut off between its
\* calls and their results.
HistoryIsComplete ==
  [][\A t \in Turns : Iterate(t) /\ at[t] \notin crossed \cup cut =>
       Complete(db[at[t]].messages)]_vars

\* message_count is the number of the session's messages, the ones being appended apart,
\* unless an append was cut off between its INSERT and its commit.
CountIsRight ==
  \A s \in Sessions \ torn :
    Len(db[s].messages) =
      db[s].count + Cardinality({t \in Turns : at[t] = s /\ write[t] = "count"})

\* A consumer that was told done, and of no error, finds the reply after any crash.
DoneIsDurable ==
  \A t \in Turns : told[t] = "done" =>
    \E i \in DOMAIN saved[at[t]].messages :
      LET m == saved[at[t]].messages[i]
      IN  m.turn = t /\ m.role = "assistant" /\ m.calls = 0

\* stream_chat_turns "always finishes with a done event so consumers can flip out of thinking
\* state": every turn that is begun tells it, whatever the model, a tool or the store does, unless
\* its consumer left, the question was not stored (its caller is told that), or the process died.
ThinkingEnds ==
  (\E t \in Turns : phase[t] \in Active) ~>
    \A t \in Turns : phase[t] \in {"idle", "lost"} \/ told[t] \in {"done", "error_done"}
=============================================================================
