---------------------------- MODULE BuildTerminal ----------------------------
(***************************************************************************)
(* The terminals of one build-chat session (build_terminal.py and its      *)
(* route in routes/chat.py): each tab's WebSocket has a claude process of  *)
(* its own on a pty, and the id on the session's row carries the           *)
(* conversation from one to the next.  The claude CLI is external: what it *)
(* keeps of a conversation is there once something was said in it.         *)
(***************************************************************************)
EXTENDS Naturals

CONSTANTS
  Tabs,      \* connections of the terminal's WebSocket, each with the id it would mint
  NoId,      \* NULL, in sessions.external_id
  MaxCrashes \* bound on the crashes of a behaviour

TabPhases == {"idle", "starting", "identified", "ready", "bridging", "hungup", "killing",
              "over", "lost"}
AgentStates == {"none", "running", "exited", "orphan"}

\* NULL is no id.
ConstantsAssumption == NoId \notin Tabs

VARIABLES
  externalId,    \* sessions.external_id
  archived,      \* sessions.archived_at is set
  tab,           \* where each tab's handler is
  id,            \* the conversation it goes for
  first,         \* it minted that id: --session-id, else --resume
  agent,         \* its claude process
  ptys,          \* the tabs whose pty is open in this process
  conversations, \* the ids that claude can resume
  \* what happened, for the properties
  minted,        \* the tabs that found no id on the row
  began,         \* the conversations there were when each tab read the row
  spawnFailed,   \* the tabs whose process could not be started
  crashes

handlers == <<tab, id, first>>
outside  == <<agent, ptys, conversations>>
history  == <<minted, began, spawnFailed>>
vars     == <<externalId, archived, handlers, outside, history, crashes>>

Init ==
  /\ externalId = NoId /\ archived = FALSE
  /\ tab = [t \in Tabs |-> "idle"]
  /\ id = [t \in Tabs |-> NoId] /\ first = [t \in Tabs |-> FALSE]
  /\ agent = [t \in Tabs |-> "none"]
  /\ ptys = {} /\ conversations = {}
  /\ minted = {} /\ began = [t \in Tabs |-> {}] /\ spawnFailed = {}
  /\ crashes = 0

Move(t, from, to) == tab[t] = from /\ tab' = [tab EXCEPT ![t] = to]

-----------------------------------------------------------------------------
(* The handler, up to the process.                                         *)

\* The route: the session exists, is not archived, and the socket is accepted.
Accept(t) ==
  /\ ~archived
  /\ Move(t, "idle", "starting")
  /\ UNCHANGED <<externalId, archived, id, first, outside, history, crashes>>

\* The banner cannot be sent, or there is no claude CLI.
StartFails(t) ==
  /\ Move(t, "starting", "over")
  /\ UNCHANGED <<externalId, archived, id, first, outside, history, crashes>>

Identified(t, conversation, isFirst) ==
  /\ id' = [id EXCEPT ![t] = conversation]
  /\ first' = [first EXCEPT ![t] = isFirst]
  /\ began' = [began EXCEPT ![t] = conversations]

\* Slip: an id is minted for every connection.
LookMints(t) ==
  /\ Move(t, "starting", "identified")
  /\ Identified(t, t, TRUE)
  /\ UNCHANGED <<externalId, archived, outside, minted, spawnFailed, crashes>>

\* _ensure_external_id reads the row.
Look(t) ==
  /\ Move(t, "starting", IF externalId = NoId THEN "identified" ELSE "ready")
  /\ IF externalId = NoId THEN Identified(t, t, TRUE) ELSE Identified(t, externalId, FALSE)
  /\ minted' = IF externalId = NoId THEN minted \cup {t} ELSE minted
  /\ UNCHANGED <<externalId, archived, outside, spawnFailed, crashes>>

\* It found none: the UPDATE, over what another tab has written meanwhile.
Mint(t) ==
  /\ Move(t, "identified", "ready")
  /\ externalId' = t
  /\ UNCHANGED <<archived, id, first, outside, history, crashes>>

\* The browser has gone when argv is sent; the id stays on the row.
SendFails(t) ==
  /\ Move(t, "ready", "over")
  /\ UNCHANGED <<externalId, archived, id, first, outside, history, crashes>>

\* openpty and create_subprocess_exec.
Spawn(t) ==
  /\ Move(t, "ready", "bridging")
  /\ agent' = [agent EXCEPT ![t] = "running"]
  /\ ptys' = ptys \cup {t}
  /\ UNCHANGED <<externalId, archived, id, first, conversations, history, crashes>>

\* The process cannot be started: the exception passes, and nobody closes the pty.
SpawnFails(t) ==
  /\ Move(t, "ready", "over")
  /\ ptys' = ptys \cup {t}
  /\ spawnFailed' = spawnFailed \cup {t}
  /\ UNCHANGED <<externalId, archived, id, first, agent, conversations, minted, began, crashes>>

-----------------------------------------------------------------------------
(* The claude process.                                                     *)

Exits(t) == agent' = [agent EXCEPT ![t] = "exited"]

\* Something is said: the conversation can be resumed from now on.
Converse(t) ==
  /\ agent[t] = "running"
  /\ first[t] \/ id[t] \in conversations
  /\ conversations' = conversations \cup {id[t]}
  /\ UNCHANGED <<externalId, archived, handlers, agent, ptys, history, crashes>>

\* It exits: told to by the user, or with an error, as when there is nothing to resume.
AgentExits(t) ==
  /\ agent[t] \in {"running", "orphan"}
  /\ Exits(t)
  /\ UNCHANGED <<externalId, archived, handlers, ptys, conversations, history, crashes>>

-----------------------------------------------------------------------------
(* The end of run_terminal_session.                                        *)

\* The browser disconnects, or the pty reports its end: the pty is closed, and a process
\* that has not been reaped is sent SIGHUP.
HangUp(t) ==
  /\ Move(t, "bridging", IF agent[t] = "exited" THEN "over" ELSE "hungup")
  /\ ptys' = ptys \ {t}
  /\ UNCHANGED <<externalId, archived, id, first, agent, conversations, history, crashes>>

\* It exits within two seconds.
Reaped(t) ==
  /\ agent[t] = "exited"
  /\ Move(t, "hungup", "over")
  /\ UNCHANGED <<externalId, archived, id, first, outside, history, crashes>>

\* Slip: the handler gives up a process that ignores the signal.
GiveUp(t) ==
  /\ Move(t, "hungup", "over")
  /\ UNCHANGED <<externalId, archived, id, first, outside, history, crashes>>

\* It does not: SIGKILL.
Kill(t) ==
  /\ Move(t, "hungup", "killing")
  /\ Exits(t)
  /\ UNCHANGED <<externalId, archived, id, first, ptys, conversations, history, crashes>>

\* proc.wait.
KilledReaped(t) ==
  /\ Move(t, "killing", "over")
  /\ UNCHANGED <<externalId, archived, id, first, outside, history, crashes>>

-----------------------------------------------------------------------------

\* DELETE /sessions/{id}; the tabs that are open stay open.
Archive ==
  /\ ~archived /\ archived' = TRUE
  /\ UNCHANGED <<externalId, handlers, outside, history, crashes>>

\* The server dies: its ptys close, and a process may ignore that.
Crash ==
  /\ crashes < MaxCrashes /\ crashes' = crashes + 1
  /\ tab' = [t \in Tabs |-> IF tab[t] \in {"idle", "over"} THEN tab[t] ELSE "lost"]
  /\ agent' = [t \in Tabs |-> IF agent[t] = "running" THEN "orphan" ELSE agent[t]]
  /\ ptys' = {}
  /\ UNCHANGED <<externalId, archived, id, first, conversations, history>>

Next ==
  \/ \E t \in Tabs :
       \/ Accept(t) \/ StartFails(t) \/ Look(t) \/ Mint(t) \/ SendFails(t) \/ Spawn(t)
       \/ SpawnFails(t) \/ Converse(t) \/ AgentExits(t) \/ HangUp(t) \/ Reaped(t)
       \/ Kill(t) \/ KilledReaped(t)
  \/ Archive \/ Crash

Spec == Init /\ [][Next]_vars

-----------------------------------------------------------------------------
(* Properties.                                                             *)

\* "--resume carries continuity across reconnects": a tab that reads the row when there is
\* a conversation goes on with one, unless two tabs found the row without an id.
ConversationIsResumed ==
  \A t \in Tabs : began[t] # {} => id[t] \in began[t] \/ \E u, v \in minted : u # v

\* A tab that is over leaves no claude process behind, nor a pty, except the pty of a
\* process that could not be started.
TabCleansUp ==
  \A t \in Tabs : tab[t] = "over" =>
    agent[t] \notin {"running", "orphan"} /\ (t \in ptys => t \in spawnFailed)
=============================================================================
