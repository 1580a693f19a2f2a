------------------------------- MODULE ToolRpc -------------------------------
(***************************************************************************)
(* The tool API: the client that a sandboxed tool imports                  *)
(* (tool_runtime/lifeman_tool.py), the line-delimited JSON on its socket,  *)
(* and the server's end of it (tool_socket.py).  A tool may have several   *)
(* threads, which share one connection under a lock; a connection serves   *)
(* one request at a time.  Each call here is made by a thread of its own.  *)
(*                                                                         *)
(* Of the methods, the tool's own key-value state is modelled, for one key *)
(* of one tool; it is shared by all the processes of that tool.  The other *)
(* methods answer something: what they do is in the modules of their own.  *)
(***************************************************************************)
EXTENDS Naturals, Sequences

CONSTANTS
  Procs,      \* processes of one tool, each with its socket
  Calls,      \* calls of the API
  Owner,      \* the process that each call is of
  MaxCrashes  \* bound on the crashes of a behaviour

\* unread is a line that the server's loop does not survive: over the limit of the
\* stream, or JSON that is no object.
Methods == {"state_set", "state_get", "state_delete", "other", "unread"}

Nobody  == "nobody"
Missing == "missing"

\* Every call is of one process, and "nobody" is none.
ConstantsAssumption == Owner \in [Calls -> Procs] /\ Nobody \notin Calls

VARIABLES
  stored,  \* tool_state: the call that set it, or Missing
  written, \* that of the open transaction
  sent,    \* the requests on each socket that the server has not read
  serving, \* the request that each connection is at, and how far
  replies, \* the answers that the tool has not read
  socket,  \* each connection: open, broken (closed by the server), gone with its process
  lock,    \* the holder of each client's lock
  phase,   \* where each call is
  method,  \* what it calls
  answer,  \* [to, value], of the call that the server answered
  \* what happened, for the properties
  replaced,    \* the calls whose value was replaced or deleted since they began
  interrupted, \* the processes one of whose calls was interrupted
  crashes

server  == <<stored, written, serving>>
wire    == <<sent, replies, socket>>
client  == <<lock, phase, method, answer>>
history == <<replaced, interrupted>>
vars    == <<server, wire, client, history, crashes>>

NoAnswer   == [to |-> Nobody, value |-> Missing]
NotServing == [call |-> Nobody, stage |-> "none"]

Init ==
  /\ stored = Missing /\ written = Missing
  /\ sent = [p \in Procs |-> <<>>] /\ replies = [p \in Procs |-> <<>>]
  /\ serving = [p \in Procs |-> NotServing]
  /\ socket = [p \in Procs |-> "open"]
  /\ lock = [p \in Procs |-> Nobody]
  /\ phase = [c \in Calls |-> "idle"]
  /\ method = [c \in Calls |-> "other"]
  /\ answer = [c \in Calls |-> NoAnswer]
  /\ replaced = {} /\ interrupted = {}
  /\ crashes = 0

Step(c, from, to) == phase[c] = from /\ phase' = [phase EXCEPT ![c] = to]

-----------------------------------------------------------------------------
(* _Client.call.                                                           *)

\* Slip: the lock covers the writing alone.
RequestUnlocked(c) ==
  /\ socket[Owner[c]] = "open"
  /\ Step(c, "idle", "reading")
  /\ \E m \in Methods : method' = [method EXCEPT ![c] = m]
  /\ sent' = [sent EXCEPT ![Owner[c]] = Append(@, c)]
  /\ UNCHANGED <<server, replies, socket, lock, answer, history, crashes>>

\* The lock is taken and the request written.
Request(c) ==
  /\ lock[Owner[c]] = Nobody /\ socket[Owner[c]] = "open"
  /\ Step(c, "idle", "reading")
  /\ lock' = [lock EXCEPT ![Owner[c]] = c]
  /\ \E m \in Methods : method' = [method EXCEPT ![c] = m]
  /\ sent' = [sent EXCEPT ![Owner[c]] = Append(@, c)]
  /\ UNCHANGED <<server, replies, socket, answer, history, crashes>>

\* The server has closed the connection: the write raises.
RequestRaises(c) ==
  /\ lock[Owner[c]] = Nobody /\ socket[Owner[c]] = "broken"
  /\ Step(c, "idle", "raised")
  /\ UNCHANGED <<server, wire, lock, method, answer, history, crashes>>

Release(c) ==
  lock' = [lock EXCEPT ![Owner[c]] = IF @ = c THEN Nobody ELSE @]

\* readline: the next line, whosever it is.
Read(c) ==
  /\ replies[Owner[c]] # <<>>
  /\ Step(c, "reading", "answered")
  /\ answer' = [answer EXCEPT ![c] = Head(replies[Owner[c]])]
  /\ replies' = [replies EXCEPT ![Owner[c]] = Tail(@)]
  /\ Release(c)
  /\ UNCHANGED <<server, sent, socket, method, history, crashes>>

\* "lifeman socket closed without responding".
ReadRaises(c) ==
  /\ replies[Owner[c]] = <<>> /\ socket[Owner[c]] = "broken"
  /\ Step(c, "reading", "raised")
  /\ Release(c)
  /\ UNCHANGED <<server, wire, method, answer, history, crashes>>

\* A signal handler of the tool raises while it waits; the lock is released all the same.
Interrupted(c) ==
  /\ socket[Owner[c]] = "open"
  /\ Step(c, "reading", "raised")
  /\ Release(c)
  /\ interrupted' = interrupted \cup {Owner[c]}
  /\ UNCHANGED <<server, wire, method, answer, replaced, crashes>>

-----------------------------------------------------------------------------
(* ToolSocket._handle and _dispatch.                                       *)

\* readline, json.loads.
ReadLine(p) ==
  /\ sent[p] # <<>> /\ serving[p].stage = "none" /\ socket[p] = "open"
  /\ method[Head(sent[p])] # "unread"
  /\ serving' = [serving EXCEPT ![p] = [call |-> Head(sent[p]), stage |-> "read"]]
  /\ sent' = [sent EXCEPT ![p] = Tail(@)]
  /\ UNCHANGED <<stored, written, replies, socket, client, history, crashes>>

\* The exception leaves the loop, and the connection is closed.
LoopDies(p) ==
  /\ sent[p] # <<>> /\ serving[p].stage = "none" /\ socket[p] = "open"
  /\ method[Head(sent[p])] = "unread"
  /\ socket' = [socket EXCEPT ![p] = "broken"]
  /\ sent' = [sent EXCEPT ![p] = <<>>]
  /\ UNCHANGED <<server, replies, client, history, crashes>>

At(p, stage, methods) == serving[p].stage = stage /\ method[serving[p].call] \in methods

\* The answer is written; one to a process that has gone is lost.
Send(p, value) ==
  /\ replies' = IF socket[p] = "open"
                THEN [replies EXCEPT ![p] = Append(@, [to |-> serving[p].call, value |-> value])]
                ELSE replies
  /\ serving' = [serving EXCEPT ![p] = NotServing]

\* state_set, state_delete: the statement.
Execute(p) ==
  /\ At(p, "read", {"state_set", "state_delete"})
  /\ serving' = [serving EXCEPT ![p].stage = "executed"]
  /\ LET c == serving[p].call
     IN  /\ written' = IF method[c] = "state_set" THEN c ELSE Missing
         /\ replaced' = replaced \cup ({d \in Calls : phase[d] # "idle"} \ {c})
  /\ UNCHANGED <<stored, wire, client, interrupted, crashes>>

\* The commit, of everybody's statements, and the answer.
Commit(p) ==
  /\ At(p, "executed", {"state_set", "state_delete"})
  /\ stored' = written
  /\ Send(p, "ok")
  /\ UNCHANGED <<written, sent, socket, client, history, crashes>>

\* state_get sees what the shared connection has not committed as well.
StateGet(p) ==
  /\ At(p, "read", {"state_get"})
  /\ Send(p, written)
  /\ UNCHANGED <<stored, written, sent, socket, client, history, crashes>>

\* Any other method: its result, or the error that the loop makes of an exception.
Other(p) ==
  /\ At(p, "read", {"other"})
  /\ Send(p, "result")
  /\ UNCHANGED <<stored, written, sent, socket, client, history, crashes>>

\* _send: what the method returned is no JSON.  The method was carried out, and the
\* exception leaves the loop; the answers to state_* always are JSON.
SendRaises(p) ==
  /\ At(p, "read", {"other"})
  /\ serving' = [serving EXCEPT ![p] = NotServing]
  /\ socket' = [socket EXCEPT ![p] = IF @ = "gone" THEN "gone" ELSE "broken"]
  /\ sent' = [sent EXCEPT ![p] = <<>>]
  /\ UNCHANGED <<stored, written, replies, client, history, crashes>>

-----------------------------------------------------------------------------

\* A process ends, or is killed; a request that is being served goes on.
ProcessEnds(p) ==
  /\ socket[p] # "gone" /\ socket' = [socket EXCEPT ![p] = "gone"]
  /\ sent' = [sent EXCEPT ![p] = <<>>] /\ replies' = [replies EXCEPT ![p] = <<>>]
  /\ UNCHANGED <<server, client, history, crashes>>

\* The server dies, and the sandboxes with it.
Crash ==
  /\ crashes < MaxCrashes /\ crashes' = crashes + 1
  /\ written' = stored
  /\ serving' = [p \in Procs |-> NotServing]
  /\ socket' = [p \in Procs |-> "gone"]
  /\ sent' = [p \in Procs |-> <<>>] /\ replies' = [p \in Procs |-> <<>>]
  /\ UNCHANGED <<stored, client, history>>

Next ==
  \/ \E c \in Calls :
       Request(c) \/ RequestRaises(c) \/ Read(c) \/ ReadRaises(c) \/ Interrupted(c)
  \/ \E p \in Procs :
       \/ ReadLine(p) \/ LoopDies(p) \/ Execute(p) \/ Commit(p) \/ StateGet(p) \/ Other(p)
       \/ SendRaises(p) \/ ProcessEnds(p)
  \/ Crash

Spec == Init /\ [][Next]_vars

-----------------------------------------------------------------------------
(* Properties.                                                             *)

\* The answer that a call returns is the server's to that call, unless a call of the same
\* process was interrupted and left its answer on the socket for the next; and a value
\* whose state_set was answered is stored, through crashes, until it is replaced.
AnswersAreTrue ==
  \A c \in Calls : phase[c] = "answered" /\ Owner[c] \notin interrupted =>
    /\ answer[c].to = c
    /\ method[c] = "state_set" /\ c \notin replaced => stored = c
=============================================================================
