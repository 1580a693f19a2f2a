------------------------------ MODULE MCServices ------------------------------
(***************************************************************************)
(* The parts of the system that are small and independent of one another,  *)
(* in one run: Devices, and the instances below.  A behaviour is one of    *)
(* one part, and the others stay as they are initially.                    *)
(***************************************************************************)
EXTENDS Devices, Sequences, FiniteSets, TLC

CONSTANTS
  Events, Kinds, ToolNames, Decisions,                    \* RoutingEngine
  Subs, MaxContent,                                       \* InputSubscriptions
  Writers, Backups, Restores, Retain, MaxSecond, MaxConns, \* Storage
  Puts, Deletes, ToolReads, UserReads, Key, OtherKey,     \* Secrets
  Tabs, NoId,                                             \* BuildTerminal
  Procs, RpcCalls, Owner,                                 \* ToolRpc
  t1, rpc1, rpc2, rpc3, procA, procB

MCKinds ==
  [domain : {"input"}, trait : {"invoke", "noise", "plain"}]
    \cup [domain : {"memory"}, trait : {"short", "plain"}]
    \cup [domain : {"observation"}, trait : {"debug", "info", "plain"}]
MCDecisions == {<<>>, <<t1>>, <<t1, "archive">>, <<"discard", t1>>}
MCOwner     == rpc1 :> procA @@ rpc2 :> procA @@ rpc3 :> procB

VARIABLES
  part, \* the part that this behaviour is of
  installed, eventPhase, kind, decision, todo, result, audits, rows, effects,
  content, sub, gone, poll, read, polled, emitted, events, forgot, crossed, dropped,
  live, wal, aside, backups, db, on, pending, filePhase, held, src, copied, closedWith, spare,
  overlap, failed,
  row, grant, logged, key, secretPhase, copy, disclosed, basis, deleted, old,
  externalId, archived, tab, id, first, agent, ptys, conversations, minted, began, spawnFailed,
  stored, written, sent, serving, replies, socket, lock, callPhase, method, answer, replaced,
  interrupted

Engine   == INSTANCE RoutingEngine WITH phase <- eventPhase
Intake   == INSTANCE InputSubscriptions WITH answer <- polled, sent <- events
Files    == INSTANCE Storage WITH phase <- filePhase, saved <- closedWith
Vault    == INSTANCE Secrets WITH phase <- secretPhase, answer <- disclosed
Terminal == INSTANCE BuildTerminal
Rpc      == INSTANCE ToolRpc WITH Calls <- RpcCalls, phase <- callPhase

\* What the theorems of ServicesProofs assume.
ASSUME PartsAssumption ==
  /\ Engine!ConstantsAssumption /\ Intake!ConstantsAssumption /\ Files!ConstantsAssumption
  /\ Vault!ConstantsAssumption /\ Terminal!ConstantsAssumption /\ Rpc!ConstantsAssumption

devices  == <<code, device, savedCode, savedDevice, expired, channels, pairing, with, revoke,
              victim, request, caller, wanted, wake, target, used, dead, overtaken, up>>
engine   == <<installed, eventPhase, kind, decision, todo, result, audits, rows, effects>>
intake   == <<content, sub, gone, poll, read, polled, emitted, events, forgot, crossed, dropped>>
files    == <<live, wal, aside, backups, db, on, pending, filePhase, held, src, copied,
              closedWith, spare, overlap, failed>>
vault    == <<row, grant, logged, key, secretPhase, copy, disclosed, basis, deleted, old>>
terminal == <<externalId, archived, tab, id, first, agent, ptys, conversations, minted, began,
              spawnFailed>>
rpc      == <<stored, written, sent, serving, replies, socket, lock, callPhase, method, answer,
              replaced, interrupted>>
all      == <<devices, engine, intake, files, vault, terminal, rpc, part, crashes>>

ServicesInit ==
  /\ part \in {"devices", "engine", "intake", "files", "vault", "terminal", "rpc"}
  /\ Init
  /\ Engine!Init /\ Intake!Init /\ Files!Init /\ Vault!Init /\ Terminal!Init /\ Rpc!Init

ServicesNext ==
  \/ /\ part = "devices" /\ Next
     /\ UNCHANGED <<part, engine, intake, files, vault, terminal, rpc>>
  \/ /\ part = "engine" /\ Engine!Next
     /\ UNCHANGED <<part, devices, intake, files, vault, terminal, rpc>>
  \/ /\ part = "intake" /\ Intake!Next
     /\ UNCHANGED <<part, devices, engine, files, vault, terminal, rpc>>
  \/ /\ part = "files" /\ Files!Next
     /\ UNCHANGED <<part, devices, engine, intake, vault, terminal, rpc>>
  \/ /\ part = "vault" /\ Vault!Next
     /\ UNCHANGED <<part, devices, engine, intake, files, terminal, rpc>>
  \/ /\ part = "terminal" /\ Terminal!Next
     /\ UNCHANGED <<part, devices, engine, intake, files, vault, rpc>>
  \/ /\ part = "rpc" /\ Rpc!Next
     /\ UNCHANGED <<part, devices, engine, intake, files, vault, terminal>>

Services == ServicesInit /\ [][ServicesNext]_all

-----------------------------------------------------------------------------
(* Properties, stated in the modules they are of.                          *)

\* The tables of a routing domain agree with one another, and with what was done.
TrailMatches == Engine!TrailMatches

\* The events of a subscription follow its source.
EmitsInOrder == [][Intake!InOrderStep]_all

\* What the polls to come pass over has been emitted.
SeenIsEmitted == Intake!SeenIsEmitted

\* No restore loses what was committed before it.
RestoreIsReversible == Files!RestoreIsReversible

\* The backups that are listed are whole.
ListedIsWhole == Files!ListedIsWhole

\* A secret's value goes out with a reason and a row in the log.
DisclosureIsAccounted == Vault!DisclosureIsAccounted

\* A put that was answered is in the table.
PutIsStored == Vault!PutIsStored

\* Every tab of a build session goes on with the one conversation.
ConversationIsResumed == Terminal!ConversationIsResumed

\* A tab that is over leaves no process behind.
TabCleansUp == Terminal!TabCleansUp

\* A tool's call returns the answer to it.
AnswersAreTrue == Rpc!AnswersAreTrue
=============================================================================
