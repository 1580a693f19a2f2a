--------------------------- MODULE ChatTurnsProofs ---------------------------
(***************************************************************************)
(* The safety properties of ChatTurns, for any sessions, posts, inputs,    *)
(* model calls, tool calls and number of crashes and of failures.          *)
(***************************************************************************)
EXTENDS ChatTurns, FiniteSetTheorems, TLAPS

Roles == {"user", "assistant", "tool"}

\* Where a turn is tells whether it has a session, an append under way, and told its consumer.
TurnFollowsPhase ==
  \A t \in Turns :
    /\ phase[t] \in {"idle", "creating"} => at[t] = NoSession
    /\ phase[t] = "creating" => t \in Inputs
    /\ phase[t] \in (Active \ {"creating"}) \cup {"over"} => at[t] \in Sessions
    /\ phase[t] \in {"idle", "creating", "opening"} => round[t] = 0
    /\ phase[t] = "calling" => calls[t] > 0
    /\ phase[t] \in {"streaming", "calling", "again", "finishing"} => round[t] > 0
    /\ write[t] # "no" => phase[t] \in {"iterating", "calling", "again", "finishing"}
    /\ told[t] # "nothing" => phase[t] = "over"

TurnInv == TypeOK /\ TurnFollowsPhase

LEMMA Limits ==
  /\ MaxCalls \in Nat /\ 0 \in 0..MaxCalls /\ 0..MaxCalls \subseteq Nat
  /\ MaxIterations \in Nat /\ 0 \in 0..MaxIterations
BY ConstantsAssumption

LEMMA InputIsSession == \A t \in Inputs : t \in Turns /\ t \in Sessions
BY DEF Turns, Sessions

-----------------------------------------------------------------------------
(* What the steps do to the tables.                                        *)

\* The INSERT of _append_message.
LEMMA InsertEffect ==
  ASSUME TypeOK, NEW t \in Turns, at[t] \in Sessions, NEW role \in Roles, NEW n \in 0..MaxCalls,
         Insert(t, role, n)
  PROVE  /\ db' \in [Sessions -> SessionRow]
         /\ \A s \in Sessions \ {at[t]} : db'[s] = db[s]
         /\ db'[at[t]].messages = Append(db[at[t]].messages, [role |-> role, turn |-> t, calls |-> n])
         /\ db'[at[t]].count = db[at[t]].count
         /\ write[t] = "no" /\ write' = [write EXCEPT ![t] = "count"]
<1>1. [role |-> role, turn |-> t, calls |-> n] \in Message
  BY DEF Message, Roles
<1>2. db[at[t]].messages \in Seq(Message)
  BY DEF TypeOK, SessionRow
<1>3. Append(db[at[t]].messages, [role |-> role, turn |-> t, calls |-> n]) \in Seq(Message)
  BY <1>1, <1>2
<1>4. db' \in [Sessions -> SessionRow]
  <2>1. \A x \in Seq(Message) : [db EXCEPT ![at[t]].messages = x] \in [Sessions -> SessionRow]
    BY DEF TypeOK, SessionRow
  <2> QED BY <1>3, <2>1 DEF Insert
<1>5. /\ \A s \in Sessions \ {at[t]} : db'[s] = db[s]
      /\ db'[at[t]].messages = Append(db[at[t]].messages, [role |-> role, turn |-> t, calls |-> n])
      /\ db'[at[t]].count = db[at[t]].count
  BY DEF Insert, TypeOK, SessionRow
<1> QED BY <1>4, <1>5 DEF Insert

\* The UPDATE of message_count.
LEMMA CountEffect ==
  ASSUME TypeOK, NEW t \in Turns, at[t] \in Sessions, Count(t)
  PROVE  /\ db' \in [Sessions -> SessionRow]
         /\ \A s \in Sessions \ {at[t]} : db'[s] = db[s]
         /\ db'[at[t]].messages = db[at[t]].messages
         /\ db'[at[t]].count = db[at[t]].count + 1
<1>1. db[at[t]] \in SessionRow /\ db[at[t]].count + 1 \in Nat
  BY DEF TypeOK, SessionRow
<1> QED BY <1>1 DEF Count, TypeOK, SessionRow

\* What changes the state of a session leaves its messages alone.
LEMMA StateEffect ==
  ASSUME NEW old \in [Sessions -> SessionRow], NEW s \in Sessions,
         NEW state \in {"none", "open", "archived"}
  PROVE  /\ [old EXCEPT ![s].state = state] \in [Sessions -> SessionRow]
         /\ \A r \in Sessions : /\ [old EXCEPT ![s].state = state][r].messages = old[r].messages
                              /\ [old EXCEPT ![s].state = state][r].count = old[r].count
BY DEF SessionRow

-----------------------------------------------------------------------------
(* Types, and where the turns are.                                         *)

LEMMA TurnInit == Init => TurnInv
<1> SUFFICES ASSUME Init PROVE TurnInv
  OBVIOUS
<1> USE Limits, NoSessionAssumption DEF Init
<1>1. NoSessionRow \in SessionRow
  BY DEF NoSessionRow, SessionRow
<1>2. db \in [Sessions -> SessionRow] /\ saved \in [Sessions -> SessionRow]
  BY <1>1
<1>3. TypeOK
  BY <1>2 DEF TypeOK, Phases
<1>4. TurnFollowsPhase
  BY DEF TurnFollowsPhase, Active
<1> QED BY <1>3, <1>4 DEF TurnInv

LEMMA TurnStepOK ==
  ASSUME TurnInv, [Next]_vars
  PROVE  TurnInv'
<1> USE Limits, InputIsSession
<1>0. TypeOK /\ TurnFollowsPhase /\ NoSession \notin Sessions
  BY NoSessionAssumption DEF TurnInv
<1> DEFINE Same == UNCHANGED <<phase, write, at, round, calls, told>>
<1>1. ASSUME Same, db' \in [Sessions -> SessionRow], saved' \in [Sessions -> SessionRow]
      PROVE  TurnInv'
  BY <1>0, <1>1 DEF TurnInv, TypeOK, TurnFollowsPhase
<1>2. ASSUME NEW s \in Sessions, CreateSession(s) \/ ArchiveSession(s) PROVE TurnInv'
  <2>1. db' \in [Sessions -> SessionRow]
    <3>1. \A state \in {"none", "open", "archived"} :
            [db EXCEPT ![s].state = state] \in [Sessions -> SessionRow]
      BY <1>0, StateEffect DEF TypeOK
    <3> QED BY <1>2, <3>1 DEF CreateSession, ArchiveSession
  <2> QED BY <1>1, <1>2, <2>1 DEF CreateSession, ArchiveSession, progress
<1>3. ASSUME NEW t \in Turns, Count(t) PROVE TurnInv'
  <2>1. at[t] \in Sessions
    BY <1>0, <1>3 DEF Count, TurnFollowsPhase, Active
  <2>2. db' \in [Sessions -> SessionRow]
    BY <1>0, <1>3, <2>1, CountEffect
  <2> QED BY <1>0, <1>3, <2>2 DEF Count, TurnInv, TypeOK, TurnFollowsPhase, progress, seen
<1>4. ASSUME NEW t \in Turns, Commit(t) PROVE TurnInv'
  BY <1>0, <1>4 DEF Commit, TurnInv, TypeOK, TurnFollowsPhase, progress, seen
<1>5. CASE OtherCommit
  BY <1>0, <1>1, <1>5 DEF OtherCommit, TypeOK, progress, seen
<1>6. ASSUME NEW t \in Turns, NEW s \in Sessions, SendMessage(t, s) PROVE TurnInv'
  BY <1>0, <1>6
  DEF SendMessage, Move, Address, TurnInv, TypeOK, TurnFollowsPhase, tables, Phases, Active
<1>7. ASSUME NEW t \in Turns, FindSession(t) PROVE TurnInv'
  <2>1. CASE \E s \in Sessions : Move(t, "idle", "opening") /\ Address(t, s)
    BY <1>0, <1>7, <2>1
    DEF FindSession, Move, Address, TurnInv, TypeOK, TurnFollowsPhase, tables, Phases, Active
  <2>2. CASE Move(t, "idle", "creating") /\ UNCHANGED at
    BY <1>0, <1>7, <2>2
    DEF FindSession, Move, TurnInv, TypeOK, TurnFollowsPhase, tables, Phases, Active
  <2> QED BY <1>7, <2>1, <2>2 DEF FindSession, Open
<1>8. ASSUME NEW t \in Turns, InsertSession(t) PROVE TurnInv'
  <2>1. t \in Sessions
    BY <1>0, <1>8 DEF InsertSession, Move, TurnFollowsPhase
  <2>2. db' \in [Sessions -> SessionRow]
    <3>1. [db EXCEPT ![t].state = "open"] \in [Sessions -> SessionRow]
      BY <1>0, <2>1, StateEffect DEF TypeOK
    <3> QED BY <1>8, <3>1 DEF InsertSession
  <2> QED
    BY <1>0, <1>8, <2>1, <2>2
    DEF InsertSession, Move, Address, TurnInv, TypeOK, TurnFollowsPhase, Phases, Active
<1>9. ASSUME NEW t \in Turns, Ask(t) PROVE TurnInv'
  <2>1. at[t] \in Sessions
    BY <1>0, <1>9 DEF Ask, Move, TurnFollowsPhase, Active
  <2>2. db' \in [Sessions -> SessionRow] /\ write' = [write EXCEPT ![t] = "count"]
    BY <1>0, <1>9, <2>1, InsertEffect DEF Ask, Roles
  <2> QED
    BY <1>0, <1>9, <2>1, <2>2
    DEF Ask, Move, TurnInv, TypeOK, TurnFollowsPhase, Phases, Active, progress, seen
<1>10. ASSUME NEW t \in Turns, Iterate(t) PROVE TurnInv'
  <2>1. round[t] + 1 \in 0..MaxIterations
    BY <1>0, <1>10 DEF Iterate, TypeOK
  <2> QED
    BY <1>0, <1>10, <2>1
    DEF Iterate, Awaiting, TurnInv, TypeOK, TurnFollowsPhase, Phases, Active, tables, seen
<1>11. ASSUME NEW t \in Turns, Reply(t) PROVE TurnInv'
  <2>1. PICK n \in 0..MaxCalls, p \in {"finishing", "again", "calling"} :
          /\ p = "calling" <=> n # 0
          /\ Move(t, "streaming", p)
          /\ Insert(t, "assistant", n)
          /\ calls' = [calls EXCEPT ![t] = n]
          /\ UNCHANGED <<saved, at, round, told, seen, faults>>
    BY <1>11 DEF Reply, After
  <2>2. at[t] \in Sessions
    BY <1>0, <2>1 DEF Move, TurnFollowsPhase, Active
  <2>3. db' \in [Sessions -> SessionRow] /\ write' = [write EXCEPT ![t] = "count"]
    BY <1>0, <2>1, <2>2, InsertEffect DEF Roles
  <2>4. n = 0 \/ n > 0
    OBVIOUS
  <2> QED
    BY <1>0, <2>1, <2>2, <2>3, <2>4
    DEF Move, TurnInv, TypeOK, TurnFollowsPhase, Phases, Active, seen
<1>12. ASSUME NEW t \in Turns, CallTool(t) PROVE TurnInv'
  <2>1. at[t] \in Sessions /\ calls[t] \in 0..MaxCalls /\ calls[t] > 0
    BY <1>0, <1>12 DEF CallTool, Move, TypeOK, TurnFollowsPhase, Active
  <2>2. calls[t] - 1 \in 0..MaxCalls /\ (calls[t] # 1 => calls[t] - 1 > 0)
    BY <2>1
  <2>3. db' \in [Sessions -> SessionRow] /\ write' = [write EXCEPT ![t] = "count"]
    BY <1>0, <1>12, <2>1, InsertEffect DEF CallTool, Roles
  <2> QED
    BY <1>0, <1>12, <2>1, <2>2, <2>3
    DEF CallTool, Move, TurnInv, TypeOK, TurnFollowsPhase, Phases, Active, seen
<1>13. ASSUME NEW t \in Turns, Finish(t) \/ GiveUp(t) \/ ModelFails(t) PROVE TurnInv'
  BY <1>0, <1>13
  DEF Finish, GiveUp, ModelFails, Move, Tell, Forget, TurnInv, TypeOK, TurnFollowsPhase, Phases,
      Active, tables, seen
<1>14. ASSUME NEW t \in Turns, Disconnect(t) \/ AskFails(t) \/ StoreFails(t) PROVE TurnInv'
  BY <1>0, <1>14
  DEF Disconnect, AskFails, StoreFails, Abandon, Asking, Tell, Forget, TurnInv, TypeOK,
      TurnFollowsPhase, Phases, Active, tables
<1>15. CASE Crash
  BY <1>0, <1>15 DEF Crash, TurnInv, TypeOK, TurnFollowsPhase, Phases, Active
<1>16. CASE UNCHANGED vars
  BY <1>0, <1>1, <1>16 DEF vars, tables, progress, TypeOK
<1> QED
  BY <1>2, <1>3, <1>4, <1>5, <1>6, <1>7, <1>8, <1>9, <1>10, <1>11, <1>12, <1>13, <1>14, <1>15, <1>16
  DEF Next, TurnStep

\* The states of ChatTurns are of their types.
THEOREM TurnsTyped == Spec => []TypeOK
<1>1. TurnInv => TypeOK
  BY DEF TurnInv
<1> QED BY <1>1, TurnInit, TurnStepOK, PTL DEF Spec

LEMMA AppendTo ==
  ASSUME NEW h \in Seq(Message), NEW m \in Message
  PROVE  /\ Append(h, m) \in Seq(Message) /\ Len(Append(h, m)) = Len(h) + 1
         /\ \A i \in 1..Len(h) : Append(h, m)[i] = h[i]
         /\ Append(h, m)[Len(h) + 1] = m
OBVIOUS

LEMMA Histories ==
  ASSUME TypeOK
  PROVE  \A s \in Sessions : /\ db[s].messages \in Seq(Message) /\ saved[s].messages \in Seq(Message)
                            /\ db[s].count \in Nat /\ saved[s].count \in Nat
BY DEF TypeOK, SessionRow

\* Unless the process dies, the messages of a session grow by at most one, and what is
\* committed is what it was or all of it.
LEMMA TablesStep ==
  ASSUME TurnInv, [Next]_vars, ~Crash, NEW s \in Sessions
  PROVE  /\ \/ db'[s].messages = db[s].messages
            \/ \E m \in Message : db'[s].messages = Append(db[s].messages, m)
         /\ \/ saved'[s].messages = saved[s].messages
            \/ saved'[s].messages = db'[s].messages
<1> USE Limits, InputIsSession
<1>0. TypeOK /\ TurnFollowsPhase
  BY DEF TurnInv
<1> DEFINE Grows == \/ db'[s].messages = db[s].messages
                    \/ \E m \in Message : db'[s].messages = Append(db[s].messages, m)
<1>1. ASSUME NEW r \in Sessions, CreateSession(r) \/ ArchiveSession(r)
      PROVE  Grows /\ saved' = db'
  <2>1. PICK state \in {"none", "open", "archived"} :
          db' = [db EXCEPT ![r].state = state] /\ saved' = db'
    BY <1>1 DEF CreateSession, ArchiveSession
  <2>2. db \in [Sessions -> SessionRow]
    BY <1>0 DEF TypeOK
  <2>3. db'[s].messages = db[s].messages
    BY <2>1, <2>2, StateEffect
  <2> QED BY <2>1, <2>3
<1>2. ASSUME NEW t \in Turns, Count(t) PROVE Grows /\ saved' = saved
  <2>1. at[t] \in Sessions
    BY <1>0, <1>2 DEF Count, TurnFollowsPhase, Active
  <2> QED BY <1>0, <1>2, <2>1, CountEffect DEF Count
<1>3. ASSUME NEW t \in Turns, Commit(t) PROVE Grows /\ saved' = db'
  BY <1>3 DEF Commit
<1>4. CASE OtherCommit
  BY <1>4 DEF OtherCommit
<1>5. ASSUME NEW t \in Turns,
             \/ Iterate(t) \/ Finish(t) \/ GiveUp(t) \/ ModelFails(t) \/ FindSession(t)
             \/ Disconnect(t) \/ AskFails(t) \/ StoreFails(t)
             \/ \E r \in Sessions : SendMessage(t, r)
      PROVE  Grows /\ saved' = saved
  BY <1>5
  DEF Iterate, Finish, GiveUp, ModelFails, FindSession, Disconnect, AskFails, StoreFails, Abandon,
      SendMessage, tables
<1>6. ASSUME NEW t \in Turns, InsertSession(t) PROVE Grows /\ saved' = saved
  <2>1. t \in Sessions
    BY <1>0, <1>6 DEF InsertSession, Move, TurnFollowsPhase
  <2> QED BY <1>0, <1>6, <2>1, StateEffect DEF InsertSession, TypeOK
<1>7. ASSUME NEW t \in Turns, NEW role \in Roles, NEW n \in 0..MaxCalls, at[t] \in Sessions,
             Insert(t, role, n)
      PROVE  Grows
  <2>1. [role |-> role, turn |-> t, calls |-> n] \in Message
    BY DEF Message, Roles
  <2>2. CASE s = at[t]
    <3>1. db'[s].messages = Append(db[s].messages, [role |-> role, turn |-> t, calls |-> n])
      BY <1>0, <1>7, <2>2, InsertEffect
    <3> QED BY <2>1, <3>1
  <2>3. CASE s # at[t]
    BY <1>0, <1>7, <2>3, InsertEffect
  <2> QED BY <2>2, <2>3
<1>8. ASSUME NEW t \in Turns, Ask(t) PROVE Grows /\ saved' = saved
  <2>1. at[t] \in Sessions
    BY <1>0, <1>8 DEF Ask, Move, TurnFollowsPhase, Active
  <2> QED BY <1>7, <1>8, <2>1 DEF Ask, Roles
<1>9. ASSUME NEW t \in Turns, Reply(t) PROVE Grows /\ saved' = saved
  <2>1. at[t] \in Sessions
    BY <1>0, <1>9 DEF Reply, Move, TurnFollowsPhase, Active
  <2> QED BY <1>7, <1>9, <2>1 DEF Reply, Roles
<1>10. ASSUME NEW t \in Turns, CallTool(t) PROVE Grows /\ saved' = saved
  <2>1. at[t] \in Sessions
    BY <1>0, <1>10 DEF CallTool, Move, TurnFollowsPhase, Active
  <2> QED BY <1>7, <1>10, <2>1 DEF CallTool, Roles
<1>11. CASE UNCHANGED vars
  BY <1>11 DEF vars, tables
<1> QED
  BY <1>1, <1>2, <1>3, <1>4, <1>5, <1>6, <1>8, <1>9, <1>10, <1>11 DEF Next, TurnStep

-----------------------------------------------------------------------------
(* A reply that was told is kept.                                          *)

HasReply(h, t) == \E i \in DOMAIN h : h[i].turn = t /\ h[i].role = "assistant" /\ h[i].calls = 0

LEMMA ReplyStays ==
  ASSUME NEW h \in Seq(Message), NEW m \in Message, NEW t, HasReply(h, t)
  PROVE  HasReply(Append(h, m), t)
BY AppendTo DEF HasReply

LEMMA ReplyComes ==
  ASSUME NEW h \in Seq(Message), NEW t \in Turns
  PROVE  HasReply(Append(h, [role |-> "assistant", turn |-> t, calls |-> 0]), t)
<1> DEFINE m == [role |-> "assistant", turn |-> t, calls |-> 0]
<1>1. m \in Message /\ Len(h) + 1 \in DOMAIN Append(h, m)
  BY Limits DEF Message
<1> QED BY <1>1, AppendTo DEF HasReply

DoneOK(t) ==
  /\ phase[t] = "finishing" =>
       /\ HasReply(db[at[t]].messages, t)
       /\ write[t] = "no" => HasReply(saved[at[t]].messages, t)
  /\ told[t] = "done" => HasReply(db[at[t]].messages, t) /\ HasReply(saved[at[t]].messages, t)

\* How a turn comes to finish, and to be done.
Finishing(u) ==
  \/ phase[u] = "finishing" /\ (write[u] # "no" /\ write'[u] = "no" => saved' = db')
  \/ /\ write'[u] = "count" /\ at'[u] = at[u] /\ at[u] \in Sessions
     /\ HasReply(db'[at[u]].messages, u)

TurnMoves(u) ==
  /\ phase[u] \in {"finishing", "over"} => at'[u] = at[u]
  /\ phase'[u] = "finishing" => Finishing(u)
  /\ told'[u] = "done" => told[u] = "done" \/ (phase[u] = "finishing" /\ write[u] = "no")

LEMMA MovesOfTurn ==
  ASSUME TurnInv, [Next]_vars, NEW u \in Turns
  PROVE  TurnMoves(u)
<1> USE Limits
<1>0. TypeOK /\ TurnFollowsPhase
  BY DEF TurnInv
<1>1. ASSUME phase'[u] = phase[u], at'[u] = at[u], told'[u] = told[u], write'[u] = write[u]
      PROVE  TurnMoves(u)
  BY <1>1 DEF TurnMoves, Finishing
<1>2. ASSUME NEW s \in Sessions, CreateSession(s) \/ ArchiveSession(s) PROVE TurnMoves(u)
  BY <1>1, <1>2 DEF CreateSession, ArchiveSession, progress
<1>3. ASSUME NEW t \in Turns, Count(t) \/ Commit(t) PROVE TurnMoves(u)
  BY <1>0, <1>3 DEF Count, Commit, progress, TurnMoves, Finishing, TypeOK
<1>4. CASE OtherCommit
  BY <1>1, <1>4 DEF OtherCommit, progress
<1>5. ASSUME NEW t \in Turns, t # u, TurnStep(t) \/ FindSession(t) \/ Disconnect(t)
                                   \/ \E s \in Sessions : SendMessage(t, s)
      PROVE  TurnMoves(u)
  <2>1. phase'[u] = phase[u] /\ at'[u] = at[u] /\ told'[u] = told[u] /\ write'[u] = write[u]
    BY <1>0, <1>5
    DEF TurnStep, Count, Commit, InsertSession, Ask, Iterate, Reply, CallTool, Finish, GiveUp,
        ModelFails, FindSession, Disconnect, AskFails, StoreFails, Abandon, SendMessage, Move,
        Address, Insert, Tell, Forget, progress, TypeOK
  <2> QED BY <1>1, <2>1
<1>6. ASSUME FindSession(u) \/ (\E s \in Sessions : SendMessage(u, s)) \/ InsertSession(u)
      PROVE  TurnMoves(u)
  BY <1>0, <1>6 DEF FindSession, SendMessage, InsertSession, Move, Address, TypeOK, TurnMoves
<1>7. ASSUME Ask(u) \/ Iterate(u) \/ CallTool(u) \/ Disconnect(u) \/ AskFails(u)
      PROVE  TurnMoves(u)
  BY <1>0, <1>7
  DEF Ask, Iterate, CallTool, Disconnect, AskFails, Abandon, Move, Insert, Forget, progress,
      TypeOK, TurnMoves, Active
<1>8. ASSUME Finish(u) \/ GiveUp(u) \/ ModelFails(u) \/ StoreFails(u) PROVE TurnMoves(u)
  BY <1>0, <1>8
  DEF Finish, GiveUp, ModelFails, StoreFails, Abandon, Move, Tell, Awaiting, TypeOK, TurnMoves
<1>9. ASSUME Reply(u) PROVE TurnMoves(u)
  <2>1. PICK n \in 0..MaxCalls, p \in {"finishing", "again", "calling"} :
          /\ p = "calling" <=> n # 0
          /\ Move(u, "streaming", p)
          /\ Insert(u, "assistant", n)
          /\ UNCHANGED <<saved, at, round, told, seen, faults>>
    BY <1>9 DEF Reply, After
  <2>2. at[u] \in Sessions
    BY <1>0, <2>1 DEF Move, TurnFollowsPhase, Active
  <2>3. /\ db'[at[u]].messages =
             Append(db[at[u]].messages, [role |-> "assistant", turn |-> u, calls |-> n])
        /\ write'[u] = "count"
    BY <1>0, <2>1, <2>2, InsertEffect DEF Roles, TypeOK
  <2>4. n = 0 => HasReply(db'[at[u]].messages, u)
    BY <1>0, <2>2, <2>3, Histories, ReplyComes
  <2> QED BY <1>0, <2>1, <2>2, <2>3, <2>4 DEF Move, TypeOK, TurnMoves, Finishing
<1>10. CASE Crash
  BY <1>0, <1>10 DEF Crash, TurnMoves, TypeOK, Active
<1>11. CASE UNCHANGED vars
  BY <1>1, <1>11 DEF vars, progress
<1> QED
  BY <1>2, <1>3, <1>4, <1>5, <1>6, <1>7, <1>8, <1>9, <1>10, <1>11 DEF Next, TurnStep

LEMMA DoneStep ==
  ASSUME TurnInv, \A t \in Turns : DoneOK(t), [Next]_vars
  PROVE  \A t \in Turns : DoneOK(t)'
<1> SUFFICES ASSUME NEW t \in Turns PROVE DoneOK(t)'
  OBVIOUS
<1>0. TypeOK /\ TurnFollowsPhase /\ DoneOK(t) /\ TurnMoves(t)
  BY MovesOfTurn DEF TurnInv
<1>1. CASE Crash
  BY <1>0, <1>1 DEF Crash, DoneOK, TypeOK, Active, TurnMoves, TurnFollowsPhase
<1>2. CASE ~Crash
  <2>1. ASSUME at[t] \in Sessions, HasReply(db[at[t]].messages, t)
        PROVE  /\ HasReply(db'[at[t]].messages, t)
               /\ HasReply(saved[at[t]].messages, t) => HasReply(saved'[at[t]].messages, t)
    BY <1>0, <1>2, <2>1, TablesStep, Histories, ReplyStays
  <2>2. phase[t] \in {"finishing", "over"} => at[t] \in Sessions
    BY <1>0 DEF TurnFollowsPhase, Active
  <2>3. told[t] = "done" => phase[t] = "over"
    BY <1>0 DEF TurnFollowsPhase
  <2>4. CASE told'[t] = "done"
    <3>1. at'[t] = at[t] /\ HasReply(db'[at[t]].messages, t) /\ HasReply(saved'[at[t]].messages, t)
      BY <1>0, <2>1, <2>2, <2>3, <2>4 DEF TurnMoves, DoneOK
    <3> QED BY <3>1 DEF DoneOK
  <2>5. CASE told'[t] # "done" /\ phase'[t] = "finishing"
    <3>1. CASE phase[t] = "finishing" /\ (write[t] # "no" /\ write'[t] = "no" => saved' = db')
      BY <1>0, <2>1, <2>2, <2>5, <3>1 DEF TurnMoves, DoneOK
    <3>2. CASE write'[t] = "count" /\ at'[t] = at[t] /\ HasReply(db'[at[t]].messages, t)
      BY <2>5, <3>2 DEF DoneOK
    <3> QED BY <1>0, <2>5, <3>1, <3>2 DEF TurnMoves, Finishing
  <2> QED BY <2>4, <2>5 DEF DoneOK
<1> QED BY <1>1, <1>2

\* A consumer that was told done, and of no error, finds the reply after any crash.
THEOREM DoneIsKept == Spec => []DoneIsDurable
<1>1. Init => TurnInv /\ \A t \in Turns : DoneOK(t)
  BY TurnInit DEF Init, DoneOK
<1>2. TurnInv /\ (\A t \in Turns : DoneOK(t)) /\ [Next]_vars
        => (TurnInv /\ \A t \in Turns : DoneOK(t))'
  BY TurnStepOK, DoneStep
<1>3. (\A t \in Turns : DoneOK(t)) => DoneIsDurable
  BY DEF DoneOK, HasReply, DoneIsDurable
<1> QED BY <1>1, <1>2, <1>3, PTL DEF Spec

-----------------------------------------------------------------------------
(* The count.                                                              *)

Counting(s) == {t \in Turns : at[t] = s /\ write[t] = "count"}

\* The count of a session is short by the appends that have not counted their message; and
\* if none is under way, what is committed of it is all of it.
CountOK(s) ==
  s \notin torn =>
    /\ Len(db[s].messages) = db[s].count + Cardinality(Counting(s))
    /\ (\A t \in Turns : at[t] = s => write[t] = "no") =>
         saved[s].messages = db[s].messages /\ saved[s].count = db[s].count

LEMMA CountingFinite ==
  \A s : IsFiniteSet(Counting(s)) /\ Cardinality(Counting(s)) \in Nat
<1>1. IsFiniteSet(Turns)
  BY ConstantsAssumption DEF Turns
<1>2. \A s : Counting(s) \subseteq Turns
  BY DEF Counting
<1> QED BY <1>1, <1>2, FS_Subset, FS_CardinalityType

\* A step after which the same appends are under way.
LEMMA CountSame ==
  ASSUME NEW s \in Sessions, CountOK(s), torn \subseteq torn',
         \A t \in Turns : (at'[t] = s /\ write'[t] # "no") <=> (at[t] = s /\ write[t] # "no"),
         \A t \in Turns : at[t] = s /\ write[t] # "no" => write'[t] = write[t],
         db'[s].messages = db[s].messages, db'[s].count = db[s].count,
         \/ saved'[s].messages = saved[s].messages /\ saved'[s].count = saved[s].count
         \/ saved'[s].messages = db'[s].messages /\ saved'[s].count = db'[s].count
  PROVE  CountOK(s)'
<1>1. ASSUME NEW t \in Turns
      PROVE  (at'[t] = s /\ write'[t] = "count") <=> (at[t] = s /\ write[t] = "count")
  OBVIOUS
<1>2. Counting(s)' = Counting(s)
  BY <1>1 DEF Counting
<1>3. (\A t \in Turns : at'[t] = s => write'[t] = "no") <=> (\A t \in Turns : at[t] = s => write[t] = "no")
  OBVIOUS
<1> QED BY <1>2, <1>3 DEF CountOK

LEMMA CountInsert ==
  ASSUME TypeOK, NEW s \in Sessions, CountOK(s), NEW t \in Turns, at[t] \in Sessions,
         NEW role \in Roles, NEW n \in 0..MaxCalls, Insert(t, role, n),
         UNCHANGED <<at, saved, torn>>
  PROVE  CountOK(s)'
<1> DEFINE m == [role |-> role, turn |-> t, calls |-> n]
<1>1. /\ \A r \in Sessions \ {at[t]} : db'[r] = db[r]
      /\ db'[at[t]].messages = Append(db[at[t]].messages, m)
      /\ db'[at[t]].count = db[at[t]].count
      /\ write[t] = "no" /\ write' = [write EXCEPT ![t] = "count"]
  BY InsertEffect
<1>2. /\ write'[t] = "count"
      /\ \A u \in Turns \ {t} : write'[u] = write[u]
  BY <1>1 DEF TypeOK
<1>3. CASE s # at[t]
  BY <1>1, <1>2, <1>3, CountSame
<1>4. CASE s = at[t]
  <2>1. Counting(s)' = Counting(s) \cup {t} /\ t \notin Counting(s)
    BY <1>1, <1>2, <1>4 DEF Counting
  <2>2. Cardinality(Counting(s)') = Cardinality(Counting(s)) + 1
    BY <2>1, CountingFinite, FS_AddElement
  <2>3. Len(db'[s].messages) = Len(db[s].messages) + 1
    <3>1. m \in Message /\ db[s].messages \in Seq(Message)
      BY Histories DEF Message, Roles
    <3> QED BY <1>1, <1>4, <3>1, AppendTo
  <2>4. /\ db[s].count \in Nat /\ Cardinality(Counting(s)) \in Nat
        /\ db'[s].count = db[s].count
    BY <1>1, <1>4, Histories, CountingFinite
  <2>5. ~ \A u \in Turns : at'[u] = s => write'[u] = "no"
    BY <1>2, <1>4
  <2>6. s \notin torn => Len(db'[s].messages) = db'[s].count + Cardinality(Counting(s)')
    <3>1. s \notin torn => Len(db[s].messages) = db[s].count + Cardinality(Counting(s))
      BY DEF CountOK
    <3> QED BY <2>2, <2>3, <2>4, <3>1
  <2> QED BY <2>5, <2>6 DEF CountOK
<1> QED BY <1>3, <1>4

LEMMA CountStep ==
  ASSUME TurnInv, NEW s \in Sessions, CountOK(s), [Next]_vars
  PROVE  CountOK(s)'
<1> USE Limits
<1>0. TypeOK /\ TurnFollowsPhase
  BY DEF TurnInv
<1>1. ASSUME NEW r \in Sessions, CreateSession(r) \/ ArchiveSession(r) PROVE CountOK(s)'
  <2>1. PICK state \in {"none", "open", "archived"} :
          db' = [db EXCEPT ![r].state = state] /\ saved' = db'
    BY <1>1 DEF CreateSession, ArchiveSession
  <2>2. db \in [Sessions -> SessionRow]
    BY <1>0 DEF TypeOK
  <2>3. db'[s].messages = db[s].messages /\ db'[s].count = db[s].count
    BY <2>1, <2>2, StateEffect
  <2> QED BY <1>1, <2>1, <2>3, CountSame DEF CreateSession, ArchiveSession, progress, seen
<1>2. ASSUME NEW t \in Turns, Count(t) PROVE CountOK(s)'
  <2>1. at[t] \in Sessions
    BY <1>0, <1>2 DEF Count, TurnFollowsPhase, Active
  <2>2. /\ \A r \in Sessions \ {at[t]} : db'[r] = db[r]
        /\ db'[at[t]].messages = db[at[t]].messages
        /\ db'[at[t]].count = db[at[t]].count + 1
        /\ UNCHANGED <<saved, at, torn>>
        /\ write[t] = "count" /\ write'[t] = "commit"
        /\ \A u \in Turns \ {t} : write'[u] = write[u]
    BY <1>0, <1>2, <2>1, CountEffect DEF Count, TypeOK, progress, seen
  <2>3. CASE s # at[t]
    BY <2>2, <2>3, CountSame
  <2>4. CASE s = at[t]
    <3>1. Counting(s)' = Counting(s) \ {t} /\ t \in Counting(s)
      BY <2>2, <2>4 DEF Counting
    <3>2. Cardinality(Counting(s)') = Cardinality(Counting(s)) - 1
      BY <3>1, CountingFinite, FS_RemoveElement
    <3>3. db[s].count \in Nat /\ Cardinality(Counting(s)) \in Nat
      BY <1>0, Histories, CountingFinite
    <3>4. ~ \A u \in Turns : at'[u] = s => write'[u] = "no"
      BY <2>2, <2>4
    <3>5. s \notin torn => Len(db'[s].messages) = db'[s].count + Cardinality(Counting(s)')
      BY <2>2, <2>4, <3>2, <3>3 DEF CountOK
    <3> QED BY <2>2, <3>4, <3>5 DEF CountOK
  <2> QED BY <2>3, <2>4
<1>3. ASSUME NEW t \in Turns, Commit(t) PROVE CountOK(s)'
  <2>1. /\ write[t] = "commit" /\ write'[t] = "no" /\ saved' = db /\ UNCHANGED <<db, at, torn>>
        /\ \A u \in Turns \ {t} : write'[u] = write[u]
    BY <1>0, <1>3 DEF Commit, TypeOK, progress, seen
  <2>2. Counting(s)' = Counting(s)
    BY <2>1 DEF Counting
  <2> QED BY <2>1, <2>2 DEF CountOK
<1>4. CASE OtherCommit
  BY <1>4, CountSame DEF OtherCommit, progress, seen
<1>5. ASSUME NEW t \in Turns, UNCHANGED <<tables, write, torn>>, write[t] = "no",
             \A u \in Turns \ {t} : at'[u] = at[u]
      PROVE  CountOK(s)'
  BY <1>5, CountSame DEF tables
<1>6. ASSUME NEW t \in Turns, FindSession(t) \/ \E r \in Sessions : SendMessage(t, r)
      PROVE  CountOK(s)'
  <2>1. write[t] = "no"
    BY <1>0, <1>6 DEF FindSession, SendMessage, Move, TurnFollowsPhase
  <2>2. /\ UNCHANGED <<tables, write, torn>>
        /\ \A u \in Turns \ {t} : at'[u] = at[u]
    BY <1>0, <1>6 DEF FindSession, SendMessage, Address, TypeOK
  <2> QED BY <1>5, <2>1, <2>2
<1>7. ASSUME NEW t \in Turns, InsertSession(t) PROVE CountOK(s)'
  <2>1. t \in Sessions /\ write[t] = "no"
    BY <1>0, <1>7, InputIsSession DEF InsertSession, Move, TurnFollowsPhase
  <2>2. db'[s].messages = db[s].messages /\ db'[s].count = db[s].count
    BY <1>0, <1>7, <2>1, StateEffect DEF InsertSession, TypeOK
  <2>3. /\ UNCHANGED <<saved, write, torn>>
        /\ \A u \in Turns \ {t} : at'[u] = at[u]
    BY <1>0, <1>7 DEF InsertSession, Address, TypeOK
  <2> QED BY <2>1, <2>2, <2>3, CountSame
<1>8. ASSUME NEW t \in Turns, Iterate(t) PROVE CountOK(s)'
  BY <1>5, <1>8 DEF Iterate, Awaiting, seen
<1>9. ASSUME NEW t \in Turns, Finish(t) \/ GiveUp(t) \/ ModelFails(t) PROVE CountOK(s)'
  <2>1. write[t] = "no"
    BY <1>0, <1>9 DEF Finish, GiveUp, ModelFails, Awaiting, Move, TurnFollowsPhase
  <2>2. UNCHANGED <<tables, at, torn>> /\ write' = write
    BY <1>0, <1>9, <2>1 DEF Finish, GiveUp, ModelFails, Forget, seen, TypeOK
  <2> QED BY <1>5, <2>1, <2>2
<1>10. ASSUME NEW t \in Turns, Ask(t) PROVE CountOK(s)'
  <2>1. at[t] \in Sessions
    BY <1>0, <1>10 DEF Ask, Move, TurnFollowsPhase, Active
  <2> QED BY <1>0, <1>10, <2>1, CountInsert DEF Ask, Roles, progress, seen
<1>11. ASSUME NEW t \in Turns, Reply(t) PROVE CountOK(s)'
  <2>1. at[t] \in Sessions
    BY <1>0, <1>11 DEF Reply, Move, TurnFollowsPhase, Active
  <2> QED BY <1>0, <1>11, <2>1, CountInsert DEF Reply, Roles, seen
<1>12. ASSUME NEW t \in Turns, CallTool(t) PROVE CountOK(s)'
  <2>1. at[t] \in Sessions
    BY <1>0, <1>12 DEF CallTool, Move, TurnFollowsPhase, Active
  <2> QED BY <1>0, <1>12, <2>1, CountInsert DEF CallTool, Roles, seen
<1>13. ASSUME NEW t \in Turns, Disconnect(t) \/ AskFails(t) \/ StoreFails(t)
       PROVE  CountOK(s)'
  <2>1. /\ UNCHANGED <<db, saved, at>> /\ torn \subseteq torn' /\ write'[t] = "no"
        /\ \A u \in Turns \ {t} : write'[u] = write[u]
        /\ write[t] = "no" \/ at[t] \in torn'
    BY <1>0, <1>13 DEF Disconnect, AskFails, StoreFails, Abandon, Forget, tables, TypeOK
  <2>2. CASE s = at[t] /\ write[t] # "no"
    BY <2>1, <2>2 DEF CountOK
  <2>3. CASE s # at[t] \/ write[t] = "no"
    BY <2>1, <2>3, CountSame
  <2> QED BY <2>2, <2>3
<1>14. CASE Crash
  <2>1. /\ db' = saved /\ UNCHANGED <<saved, at>> /\ torn \subseteq torn'
        /\ \A u \in Turns : write'[u] = "no" /\ (write[u] # "no" => at[u] \in torn')
    BY <1>0, <1>14 DEF Crash, TypeOK
  <2>2. CASE \E u \in Turns : at[u] = s /\ write[u] # "no"
    BY <2>1, <2>2 DEF CountOK
  <2>3. CASE \A u \in Turns : at[u] = s => write[u] = "no"
    <3>1. Counting(s) = {} /\ Counting(s)' = {}
      BY <2>1, <2>3 DEF Counting
    <3> QED BY <2>1, <2>3, <3>1 DEF CountOK
  <2> QED BY <2>2, <2>3
<1>15. CASE UNCHANGED vars
  BY <1>15, CountSame DEF vars, tables, progress, seen
<1> QED
  BY <1>1, <1>2, <1>3, <1>4, <1>6, <1>7, <1>8, <1>9, <1>10, <1>11, <1>12, <1>13, <1>14, <1>15
  DEF Next, TurnStep

\* _append_message: message_count is the number of the messages, those being appended and the
\* appends that were cut off apart.
THEOREM CountsAreRight == Spec => []CountIsRight
<1>1. Init => TurnInv /\ \A s \in Sessions : CountOK(s)
  <2> SUFFICES ASSUME Init, NEW s \in Sessions PROVE CountOK(s)
    BY TurnInit
  <2>1. Counting(s) = {}
    BY DEF Init, Counting
  <2>2. Cardinality(Counting(s)) = 0
    BY <2>1, FS_EmptySet
  <2>3. db[s] = NoSessionRow /\ saved[s] = NoSessionRow
    BY DEF Init
  <2> QED BY <2>2, <2>3 DEF CountOK, NoSessionRow
<1>2. TurnInv /\ (\A s \in Sessions : CountOK(s)) /\ [Next]_vars
        => (TurnInv /\ \A s \in Sessions : CountOK(s))'
  BY TurnStepOK, CountStep
<1>3. (\A s \in Sessions : CountOK(s)) => CountIsRight
  BY DEF CountOK, Counting, CountIsRight
<1> QED BY <1>1, <1>2, <1>3, PTL DEF Spec

-----------------------------------------------------------------------------
(* What is sent to the model.                                              *)

\* A history whose last reply, turn t's, still lacks k results.
Owing(h, k, t) ==
  \A i \in DOMAIN h :
    /\ i + h[i].calls <= Len(h) + k
    /\ i + h[i].calls > Len(h) => h[i].turn = t
    /\ \A j \in i + 1..i + h[i].calls :
         j <= Len(h) => h[j].role = "tool" /\ h[j].turn = h[i].turn

LEMMA Messages ==
  ASSUME NEW h \in Seq(Message)
  PROVE  /\ Len(h) \in Nat /\ DOMAIN h = 1..Len(h)
         /\ \A i \in DOMAIN h : i \in Nat /\ h[i] \in Message /\ h[i].calls \in Nat
<1>1. \A m \in Message : m.calls \in Nat
  BY Limits DEF Message
<1> QED BY <1>1

LEMMA OwingNothing ==
  ASSUME NEW h \in Seq(Message), NEW t
  PROVE  Owing(h, 0, t) <=> Complete(h)
BY Messages DEF Owing, Complete

\* A message without calls.
LEMMA OwingMessage ==
  ASSUME NEW h \in Seq(Message), NEW m \in Message, m.calls = 0, Complete(h)
  PROVE  Complete(Append(h, m))
<1>1. /\ Len(Append(h, m)) = Len(h) + 1 /\ Append(h, m)[Len(h) + 1] = m
      /\ \A i \in 1..Len(h) : Append(h, m)[i] = h[i]
      /\ Append(h, m) \in Seq(Message)
  BY AppendTo
<1> SUFFICES ASSUME NEW i \in 1..Len(h) + 1
             PROVE  /\ Len(h) + 1 >= i + Append(h, m)[i].calls
                    /\ \A j \in i + 1..i + Append(h, m)[i].calls :
                         /\ Append(h, m)[j].role = "tool"
                         /\ Append(h, m)[j].turn = Append(h, m)[i].turn
  BY <1>1, Messages DEF Complete
<1>2. CASE i = Len(h) + 1
  BY <1>1, <1>2, Messages
<1>3. CASE i \in 1..Len(h)
  BY <1>1, <1>3, Messages DEF Complete
<1> QED BY <1>2, <1>3, Messages

\* A reply with n calls.
LEMMA OwingReply ==
  ASSUME NEW h \in Seq(Message), NEW m \in Message, Complete(h)
  PROVE  Owing(Append(h, m), m.calls, m.turn)
<1>1. /\ Len(Append(h, m)) = Len(h) + 1 /\ Append(h, m)[Len(h) + 1] = m
      /\ \A i \in 1..Len(h) : Append(h, m)[i] = h[i]
      /\ Append(h, m) \in Seq(Message)
  BY AppendTo
<1>2. m.calls \in Nat
  BY Limits DEF Message
<1> SUFFICES ASSUME NEW i \in 1..Len(h) + 1
             PROVE  /\ i + Append(h, m)[i].calls <= Len(h) + 1 + m.calls
                    /\ i + Append(h, m)[i].calls > Len(h) + 1 => Append(h, m)[i].turn = m.turn
                    /\ \A j \in i + 1..i + Append(h, m)[i].calls :
                         j <= Len(h) + 1 =>
                           /\ Append(h, m)[j].role = "tool"
                           /\ Append(h, m)[j].turn = Append(h, m)[i].turn
  BY <1>1, Messages DEF Owing
<1>3. CASE i = Len(h) + 1
  BY <1>1, <1>2, <1>3, Messages
<1>4. CASE i \in 1..Len(h)
  BY <1>1, <1>2, <1>4, Messages DEF Complete
<1> QED BY <1>3, <1>4, Messages

\* One of the results.
LEMMA OwingResult ==
  ASSUME NEW h \in Seq(Message), NEW m \in Message, NEW k \in Nat, k > 0, Owing(h, k, m.turn),
         m.calls = 0, m.role = "tool"
  PROVE  Owing(Append(h, m), k - 1, m.turn)
<1>1. /\ Len(Append(h, m)) = Len(h) + 1 /\ Append(h, m)[Len(h) + 1] = m
      /\ \A i \in 1..Len(h) : Append(h, m)[i] = h[i]
      /\ Append(h, m) \in Seq(Message)
  BY AppendTo
<1> SUFFICES ASSUME NEW i \in 1..Len(h) + 1
             PROVE  /\ i + Append(h, m)[i].calls <= Len(h) + 1 + (k - 1)
                    /\ i + Append(h, m)[i].calls > Len(h) + 1 => Append(h, m)[i].turn = m.turn
                    /\ \A j \in i + 1..i + Append(h, m)[i].calls :
                         j <= Len(h) + 1 =>
                           /\ Append(h, m)[j].role = "tool"
                           /\ Append(h, m)[j].turn = Append(h, m)[i].turn
  BY <1>1, Messages DEF Owing
<1>3. CASE i = Len(h) + 1
  BY <1>1, <1>3, Messages
<1>4. CASE i \in 1..Len(h)
  <2>1. /\ i + h[i].calls <= Len(h) + k
        /\ i + h[i].calls > Len(h) => h[i].turn = m.turn
        /\ \A j \in i + 1..i + h[i].calls :
             j <= Len(h) => h[j].role = "tool" /\ h[j].turn = h[i].turn
    BY <1>4, Messages DEF Owing
  <2>2. h[i].calls \in Nat /\ Len(h) \in Nat /\ i \in Nat
    BY <1>4, Messages
  <2>3. ASSUME NEW j \in i + 1..i + h[i].calls, j <= Len(h) + 1
        PROVE  Append(h, m)[j].role = "tool" /\ Append(h, m)[j].turn = h[i].turn
    <3>1. CASE j = Len(h) + 1
      BY <1>1, <2>1, <2>2, <2>3, <3>1
    <3>2. CASE j <= Len(h)
      BY <1>1, <2>1, <2>2, <2>3, <3>2
    <3> QED BY <2>2, <2>3, <3>1, <3>2
  <2>4. Append(h, m)[i] = h[i]
    BY <1>1, <1>4
  <2> QED BY <2>1, <2>2, <2>3, <2>4
<1> QED BY <1>3, <1>4, Messages

-----------------------------------------------------------------------------
(* A history is complete between the turns.                                *)

ActiveAt(t, s) == at[t] = s /\ phase[t] \in Active
Owed(t)        == IF phase[t] = "calling" THEN calls[t] ELSE 0

\* Unless turns of the session have overlapped or one was cut off between its calls and their
\* results, at most one turn is active, the history lacks what that turn has still to
\* dispatch, and what is committed is complete when the turn is not dispatching.
HistoryOK(s) ==
  s \notin crossed \cup cut =>
    /\ \A t, u \in Turns : ActiveAt(t, s) /\ ActiveAt(u, s) => t = u
    /\ (\A t \in Turns : ~ActiveAt(t, s)) =>
         Complete(db[s].messages) /\ Complete(saved[s].messages)
    /\ \A t \in Turns : ActiveAt(t, s) =>
         /\ Owing(db[s].messages, Owed(t), t)
         /\ ~CallsOpen(t) => Complete(saved[s].messages)

\* A step that neither appends a message nor begins or ends a turn of the session.
LEMMA HistoryQuiet ==
  ASSUME TypeOK, NEW s \in Sessions, HistoryOK(s), crossed \subseteq crossed', cut \subseteq cut',
         db'[s].messages = db[s].messages,
         saved'[s].messages = saved[s].messages \/ saved'[s].messages = db'[s].messages,
         \A t \in Turns :
           /\ (ActiveAt(t, s)' <=> ActiveAt(t, s))
           /\ ActiveAt(t, s) =>
                /\ Owed(t)' = Owed(t)
                /\ CallsOpen(t) => CallsOpen(t)' \/ saved'[s].messages = db'[s].messages
  PROVE  HistoryOK(s)'
<1> SUFFICES ASSUME s \notin crossed' \cup cut'
             PROVE  /\ \A t, u \in Turns : ActiveAt(t, s)' /\ ActiveAt(u, s)' => t = u
                    /\ (\A t \in Turns : ~ActiveAt(t, s)') =>
                         Complete(db'[s].messages) /\ Complete(saved'[s].messages)
                    /\ \A t \in Turns : ActiveAt(t, s)' =>
                         /\ Owing(db'[s].messages, Owed(t)', t)
                         /\ ~CallsOpen(t)' => Complete(saved'[s].messages)
  BY DEF HistoryOK
<1>1. s \notin crossed \cup cut /\ db[s].messages \in Seq(Message)
  BY Histories
<1>2. \A t, u \in Turns : ActiveAt(t, s)' /\ ActiveAt(u, s)' => t = u
  BY <1>1 DEF HistoryOK
<1>3. (\A t \in Turns : ~ActiveAt(t, s)') =>
        Complete(db'[s].messages) /\ Complete(saved'[s].messages)
  BY <1>1 DEF HistoryOK
<1>4. ASSUME NEW t \in Turns, ActiveAt(t, s)'
      PROVE  /\ Owing(db'[s].messages, Owed(t)', t)
             /\ ~CallsOpen(t)' => Complete(saved'[s].messages)
  <2>1. ActiveAt(t, s) /\ Owing(db[s].messages, Owed(t), t) /\ Owed(t)' = Owed(t)
    BY <1>1, <1>4 DEF HistoryOK
  <2>2. ~CallsOpen(t)' => Owed(t)' = 0
    BY DEF CallsOpen, Owed
  <2>3. ~CallsOpen(t)' => Complete(db'[s].messages)
    BY <1>1, <2>1, <2>2, OwingNothing
  <2>4. ~CallsOpen(t)' /\ ~CallsOpen(t) => Complete(saved'[s].messages)
    BY <1>1, <1>4, <2>1, <2>3 DEF HistoryOK
  <2>5. ~CallsOpen(t)' /\ CallsOpen(t) => Complete(saved'[s].messages)
    BY <1>4, <2>1, <2>3
  <2> QED BY <2>1, <2>4, <2>5
<1> QED BY <1>2, <1>3, <1>4

\* A turn addresses a session.
LEMMA HistoryBegin ==
  ASSUME TypeOK, NEW s \in Sessions, HistoryOK(s), NEW t \in Turns, NEW r \in Sessions,
         ~ActiveAt(t, s), Address(t, r), phase' = [phase EXCEPT ![t] = "opening"],
         UNCHANGED <<saved, write, round, calls, cut>>, db'[s].messages = db[s].messages
  PROVE  HistoryOK(s)'
<1>1. /\ at'[t] = r /\ phase'[t] = "opening"
      /\ \A u \in Turns \ {t} : at'[u] = at[u] /\ phase'[u] = phase[u]
      /\ crossed \subseteq crossed'
  BY DEF Address, TypeOK
<1>2. \A u \in Turns \ {t} : /\ (ActiveAt(u, s)' <=> ActiveAt(u, s))
                            /\ Owed(u)' = Owed(u) /\ (CallsOpen(u)' <=> CallsOpen(u))
  BY <1>1 DEF ActiveAt, Owed, CallsOpen, Awaiting
<1>3. CASE r # s
  <2>1. ~ActiveAt(t, s)'
    BY <1>1, <1>3 DEF ActiveAt
  <2> QED BY <1>1, <1>2, <2>1, HistoryQuiet
<1>4. CASE r = s /\ s \notin crossed' \cup cut'
  <2>1. \A u \in Turns \ {t} : ~ActiveAt(u, s)
    BY <1>4 DEF Address, Overlaps, ActiveAt
  <2>2. s \notin crossed \cup cut
    BY <1>1, <1>4
  <2>3. Complete(db[s].messages) /\ Complete(saved[s].messages)
    BY <2>1, <2>2 DEF HistoryOK
  <2>4. Owed(t)' = 0
    BY <1>1 DEF Owed
  <2>5. Owing(db'[s].messages, Owed(t)', t)
    BY <2>3, <2>4, OwingNothing, Histories
  <2> QED BY <1>2, <1>1, <2>1, <2>3, <2>5 DEF HistoryOK, ActiveAt, Active
<1> QED BY <1>3, <1>4 DEF HistoryOK

\* A turn that is not between its calls and their results ends.
LEMMA HistoryEnd ==
  ASSUME TypeOK, NEW s \in Sessions, HistoryOK(s), NEW t \in Turns, phase[t] \in Active,
         NEW p \in Phases \ Active, phase' = [phase EXCEPT ![t] = p],
         UNCHANGED <<db, saved, at, crossed>>, cut \subseteq cut',
         CallsOpen(t) => at[t] \in cut',
         \A u \in Turns \ {t} : UNCHANGED <<write[u], round[u], calls[u]>>
  PROVE  HistoryOK(s)'
<1>1. phase'[t] \notin Active /\ \A u \in Turns \ {t} : phase'[u] = phase[u]
  BY DEF TypeOK
<1>2. \A u \in Turns \ {t} : /\ (ActiveAt(u, s)' <=> ActiveAt(u, s))
                            /\ Owed(u)' = Owed(u) /\ (CallsOpen(u)' <=> CallsOpen(u))
  BY <1>1 DEF ActiveAt, Owed, CallsOpen, Awaiting
<1>3. ~ActiveAt(t, s)'
  BY <1>1 DEF ActiveAt
<1>4. CASE at[t] # s
  <2>1. ~ActiveAt(t, s)
    BY <1>4 DEF ActiveAt
  <2> QED BY <1>2, <1>3, <2>1, HistoryQuiet
<1>5. CASE at[t] = s /\ s \notin crossed' \cup cut'
  <2>1. s \notin crossed \cup cut /\ ActiveAt(t, s) /\ ~CallsOpen(t)
    BY <1>5 DEF ActiveAt
  <2>2. Owed(t) = 0
    BY <2>1 DEF Owed, CallsOpen
  <2>3. Complete(db[s].messages) /\ Complete(saved[s].messages)
    BY <2>1, <2>2, OwingNothing, Histories DEF HistoryOK
  <2>4. \A u \in Turns : ~ActiveAt(u, s)'
    BY <1>2, <1>3, <2>1 DEF HistoryOK
  <2> QED BY <2>3, <2>4 DEF HistoryOK
<1> QED BY <1>4, <1>5 DEF HistoryOK

\* A turn appends a message to its session.
LEMMA HistoryInsert ==
  ASSUME TypeOK, NEW s \in Sessions, HistoryOK(s), NEW t \in Turns, at[t] \in Sessions,
         phase[t] \in Active, NEW p \in Active, phase' = [phase EXCEPT ![t] = p],
         NEW role \in Roles, NEW n \in 0..MaxCalls, Insert(t, role, n),
         UNCHANGED <<saved, at, round, seen>>,
         \A u \in Turns \ {t} : calls'[u] = calls[u],
         CallsOpen(t) => CallsOpen(t)',
         Owing(db[at[t]].messages, Owed(t), t) => Owing(db'[at[t]].messages, Owed(t)', t)
  PROVE  HistoryOK(s)'
<1>1. /\ \A r \in Sessions \ {at[t]} : db'[r] = db[r]
      /\ write' = [write EXCEPT ![t] = "count"]
  BY InsertEffect
<1>2. /\ phase'[t] = p
      /\ \A u \in Turns \ {t} : phase'[u] = phase[u] /\ write'[u] = write[u]
  BY <1>1 DEF TypeOK
<1>3. \A u \in Turns : (ActiveAt(u, s)' <=> ActiveAt(u, s))
  BY <1>2 DEF ActiveAt
<1>4. \A u \in Turns \ {t} : Owed(u)' = Owed(u) /\ (CallsOpen(u)' <=> CallsOpen(u))
  BY <1>2 DEF Owed, CallsOpen, Awaiting
<1>5. CASE s # at[t]
  <2>1. ~ActiveAt(t, s)
    BY <1>5 DEF ActiveAt
  <2> QED BY <1>1, <1>3, <1>4, <1>5, <2>1, HistoryQuiet DEF seen
<1>6. CASE s = at[t] /\ s \notin crossed \cup cut
  <2>1. ActiveAt(t, s) /\ ActiveAt(t, s)'
    BY <1>3, <1>6 DEF ActiveAt
  <2>2. \A u \in Turns : ActiveAt(u, s)' => u = t
    BY <1>3, <1>6, <2>1 DEF HistoryOK
  <2>3. Owing(db'[s].messages, Owed(t)', t)
    BY <1>6, <2>1 DEF HistoryOK
  <2>4. ~CallsOpen(t)' => Complete(saved'[s].messages)
    BY <1>6, <2>1 DEF HistoryOK
  <2> QED BY <1>6, <2>1, <2>2, <2>3, <2>4 DEF HistoryOK, seen
<1> QED BY <1>5, <1>6 DEF HistoryOK, seen

LEMMA HistoryStep ==
  ASSUME TurnInv, NEW s \in Sessions, HistoryOK(s), [Next]_vars
  PROVE  HistoryOK(s)'
<1> USE Limits
<1>0. TypeOK /\ TurnFollowsPhase /\ NoSession \notin Sessions
  BY NoSessionAssumption DEF TurnInv
<1>a. ASSUME UNCHANGED <<phase, write, at, round, calls, crossed, cut>>,
             db'[s].messages = db[s].messages,
             saved'[s].messages = saved[s].messages \/ saved'[s].messages = db'[s].messages
      PROVE  HistoryOK(s)'
  <2>1. \A t \in Turns : /\ (ActiveAt(t, s)' <=> ActiveAt(t, s))
                         /\ Owed(t)' = Owed(t) /\ (CallsOpen(t)' <=> CallsOpen(t))
    BY <1>a DEF ActiveAt, Owed, CallsOpen, Awaiting
  <2> QED BY <1>0, <1>a, <2>1, HistoryQuiet
<1>1. ASSUME NEW r \in Sessions, CreateSession(r) \/ ArchiveSession(r) PROVE HistoryOK(s)'
  <2>1. PICK state \in {"none", "open", "archived"} :
          db' = [db EXCEPT ![r].state = state] /\ saved' = db'
    BY <1>1 DEF CreateSession, ArchiveSession
  <2>2. db'[s].messages = db[s].messages
    BY <1>0, <2>1, StateEffect DEF TypeOK
  <2> QED BY <1>a, <1>1, <2>1, <2>2 DEF CreateSession, ArchiveSession, progress, seen
<1>2. ASSUME NEW t \in Turns, Count(t) PROVE HistoryOK(s)'
  <2>1. at[t] \in Sessions
    BY <1>0, <1>2 DEF Count, TurnFollowsPhase, Active
  <2>2. db'[s].messages = db[s].messages
    BY <1>0, <1>2, <2>1, CountEffect
  <2>3. \A u \in Turns : /\ (ActiveAt(u, s)' <=> ActiveAt(u, s))
                         /\ Owed(u)' = Owed(u) /\ (CallsOpen(u)' <=> CallsOpen(u))
    BY <1>0, <1>2 DEF Count, ActiveAt, Owed, CallsOpen, Awaiting, progress, TypeOK
  <2> QED BY <1>0, <1>2, <2>2, <2>3, HistoryQuiet DEF Count, seen
<1>3. ASSUME NEW t \in Turns, Commit(t) PROVE HistoryOK(s)'
  <2>1. /\ UNCHANGED <<db, phase, at, calls, crossed, cut>> /\ saved' = db'
    BY <1>3 DEF Commit, progress, seen
  <2>2. \A u \in Turns : (ActiveAt(u, s)' <=> ActiveAt(u, s)) /\ Owed(u)' = Owed(u)
    BY <2>1 DEF ActiveAt, Owed
  <2> QED BY <1>0, <2>1, <2>2, HistoryQuiet
<1>4. CASE OtherCommit
  BY <1>a, <1>4 DEF OtherCommit, progress, seen
<1>5. ASSUME NEW t \in Turns, NEW r \in Sessions, SendMessage(t, r) PROVE HistoryOK(s)'
  <2>1. ~ActiveAt(t, s)
    BY <1>0, <1>5 DEF SendMessage, Move, ActiveAt, Active
  <2> QED BY <1>0, <1>5, <2>1, HistoryBegin DEF SendMessage, Move, tables
<1>6. ASSUME NEW t \in Turns, FindSession(t) PROVE HistoryOK(s)'
  <2>0. ~ActiveAt(t, s) /\ UNCHANGED <<tables, write, round, calls, cut>>
    BY <1>0, <1>6 DEF FindSession, Move, ActiveAt, Active
  <2>1. ASSUME NEW r \in Sessions, Move(t, "idle", "opening"), Address(t, r)
        PROVE  HistoryOK(s)'
    BY <1>0, <2>0, <2>1, HistoryBegin DEF Move, tables
  <2>2. CASE Move(t, "idle", "creating") /\ UNCHANGED <<at, crossed>>
    <3>1. \A u \in Turns : (ActiveAt(u, s)' <=> ActiveAt(u, s))
      BY <1>0, <2>2 DEF Move, ActiveAt, TypeOK, TurnFollowsPhase
    <3>2. \A u \in Turns : Owed(u)' = Owed(u) /\ (CallsOpen(u)' <=> CallsOpen(u))
      BY <1>0, <2>0, <2>2 DEF Move, Owed, CallsOpen, Awaiting, TypeOK
    <3> QED BY <1>0, <2>0, <2>2, <3>1, <3>2, HistoryQuiet DEF tables
  <2> QED BY <1>6, <2>1, <2>2 DEF FindSession, Open
<1>7. ASSUME NEW t \in Turns, InsertSession(t) PROVE HistoryOK(s)'
  <2>1. t \in Sessions /\ ~ActiveAt(t, s)
    BY <1>0, <1>7, InputIsSession DEF InsertSession, Move, TurnFollowsPhase, ActiveAt
  <2>2. db'[s].messages = db[s].messages
    BY <1>0, <1>7, <2>1, StateEffect DEF InsertSession, TypeOK
  <2> QED BY <1>0, <1>7, <2>1, <2>2, HistoryBegin DEF InsertSession, Move
<1>8. ASSUME NEW t \in Turns, Ask(t) PROVE HistoryOK(s)'
  <2>1. /\ at[t] \in Sessions /\ phase[t] = "opening" /\ phase' = [phase EXCEPT ![t] = "iterating"]
        /\ Insert(t, "user", 0) /\ UNCHANGED <<saved, at, round, calls, seen>>
    BY <1>0, <1>8 DEF Ask, Move, TurnFollowsPhase, Active, progress
  <2>2. phase'[t] = "iterating"
    BY <1>0, <2>1 DEF TypeOK
  <2>3. ~CallsOpen(t) /\ Owed(t) = 0 /\ Owed(t)' = 0
    BY <2>1, <2>2 DEF CallsOpen, Owed
  <2>4. ASSUME Owing(db[at[t]].messages, 0, t) PROVE Owing(db'[at[t]].messages, 0, t)
    <3> DEFINE m == [role |-> "user", turn |-> t, calls |-> 0]
    <3>1. m \in Message /\ m.calls = 0 /\ db[at[t]].messages \in Seq(Message)
      BY <1>0, <2>1, Histories DEF Message
    <3>2. db'[at[t]].messages = Append(db[at[t]].messages, m)
      BY <1>0, <2>1, InsertEffect DEF Roles
    <3> HIDE DEF m
    <3>3. Complete(Append(db[at[t]].messages, m))
      BY <2>4, <3>1, OwingNothing, OwingMessage
    <3>4. Append(db[at[t]].messages, m) \in Seq(Message)
      BY <3>1, AppendTo
    <3>5. Owing(Append(db[at[t]].messages, m), 0, t)
      BY <3>3, <3>4, OwingNothing
    <3> QED BY <3>2, <3>5
  <2>5. Owing(db[at[t]].messages, Owed(t), t) => Owing(db'[at[t]].messages, Owed(t)', t)
    BY <2>3, <2>4
  <2>6. /\ "iterating" \in Active /\ phase[t] \in Active /\ "user" \in Roles
        /\ \A u \in Turns \ {t} : calls'[u] = calls[u]
    BY <2>1 DEF Active, Roles
  <2> QED BY <1>0, <2>1, <2>3, <2>5, <2>6, HistoryInsert
<1>9. ASSUME NEW t \in Turns, Iterate(t) PROVE HistoryOK(s)'
  <2>1. /\ UNCHANGED <<tables, write, at, calls, crossed, cut>>
        /\ phase[t] \in {"iterating", "again"} /\ Awaiting(t) /\ phase'[t] = "streaming"
        /\ \A u \in Turns \ {t} : phase'[u] = phase[u] /\ round'[u] = round[u]
    BY <1>0, <1>9 DEF Iterate, TypeOK, seen
  <2>2. \A u \in Turns : (ActiveAt(u, s)' <=> ActiveAt(u, s)) /\ Owed(u)' = Owed(u)
    BY <2>1 DEF ActiveAt, Active, Owed
  <2>3. \A u \in Turns : CallsOpen(u) => CallsOpen(u)'
    BY <2>1 DEF CallsOpen, Awaiting
  <2> QED BY <1>0, <2>1, <2>2, <2>3, HistoryQuiet DEF tables
<1>10. ASSUME NEW t \in Turns, Reply(t) PROVE HistoryOK(s)'
  <2>1. PICK n \in 0..MaxCalls, p \in {"finishing", "again", "calling"} :
          /\ p = "calling" <=> n # 0
          /\ Move(t, "streaming", p)
          /\ Insert(t, "assistant", n)
          /\ calls' = [calls EXCEPT ![t] = n]
          /\ UNCHANGED <<saved, at, round, told, seen, faults>>
    BY <1>10 DEF Reply, After
  <2>2. /\ phase[t] = "streaming" /\ phase' = [phase EXCEPT ![t] = p] /\ phase'[t] = p
    BY <1>0, <2>1 DEF Move, TypeOK
  <2>3. at[t] \in Sessions
    BY <1>0, <2>2 DEF TurnFollowsPhase, Active
  <2>4. calls'[t] = n /\ \A u \in Turns \ {t} : calls'[u] = calls[u]
    BY <1>0, <2>1 DEF TypeOK
  <2>5. ~CallsOpen(t) /\ Owed(t) = 0 /\ Owed(t)' = n
    BY <2>1, <2>2, <2>4 DEF CallsOpen, Owed
  <2>6. ASSUME Owing(db[at[t]].messages, 0, t) PROVE Owing(db'[at[t]].messages, n, t)
    <3> DEFINE m == [role |-> "assistant", turn |-> t, calls |-> n]
    <3>1. m \in Message /\ m.calls = n /\ m.turn = t /\ db[at[t]].messages \in Seq(Message)
      BY <1>0, <2>3, Histories DEF Message
    <3>2. db'[at[t]].messages = Append(db[at[t]].messages, m)
      BY <1>0, <2>1, <2>3, InsertEffect DEF Roles
    <3> HIDE DEF m
    <3> QED BY <2>6, <3>1, <3>2, OwingNothing, OwingReply
  <2> QED BY <1>0, <2>1, <2>2, <2>3, <2>4, <2>5, <2>6, HistoryInsert DEF Roles, Active
<1>11. ASSUME NEW t \in Turns, CallTool(t) PROVE HistoryOK(s)'
  <2>1. /\ Insert(t, "tool", 0) /\ calls' = [calls EXCEPT ![t] = @ - 1]
        /\ phase[t] = "calling" /\ UNCHANGED <<saved, at, round, seen>>
    BY <1>11 DEF CallTool, Move
  <2>2. PICK p \in {"iterating", "calling"} :
          /\ p = IF calls[t] = 1 THEN "iterating" ELSE "calling"
          /\ phase' = [phase EXCEPT ![t] = p] /\ phase'[t] = p
    BY <1>0, <1>11 DEF CallTool, Move, TypeOK
  <2>3. at[t] \in Sessions /\ calls[t] \in Nat /\ calls[t] > 0
    BY <1>0, <2>1 DEF TurnFollowsPhase, Active, TypeOK
  <2>4. calls'[t] = calls[t] - 1 /\ \A u \in Turns \ {t} : calls'[u] = calls[u]
    BY <1>0, <2>1 DEF TypeOK
  <2>5. Owed(t) = calls[t] /\ Owed(t)' = calls[t] - 1
    BY <2>1, <2>2, <2>3, <2>4 DEF Owed
  <2>6. ASSUME Owing(db[at[t]].messages, calls[t], t)
        PROVE  Owing(db'[at[t]].messages, calls[t] - 1, t)
    <3> DEFINE m == [role |-> "tool", turn |-> t, calls |-> 0]
    <3>1. /\ m \in Message /\ m.calls = 0 /\ m.turn = t /\ m.role = "tool"
          /\ db[at[t]].messages \in Seq(Message)
      BY <1>0, <2>3, Histories DEF Message
    <3>2. db'[at[t]].messages = Append(db[at[t]].messages, m)
      BY <1>0, <2>1, <2>3, InsertEffect DEF Roles
    <3> HIDE DEF m
    <3> QED BY <2>3, <2>6, <3>1, <3>2, OwingResult
  <2>7. CallsOpen(t)'
    <3>1. write'[t] = "count"
      BY <1>0, <2>1 DEF Insert, TypeOK
    <3>2. round[t] > 0
      BY <1>0, <2>1 DEF TurnFollowsPhase
    <3> QED BY <2>1, <2>2, <3>1, <3>2 DEF CallsOpen, Awaiting
  <2> QED BY <1>0, <2>1, <2>2, <2>3, <2>4, <2>5, <2>6, <2>7, HistoryInsert DEF Roles, Active
<1>12. ASSUME NEW t \in Turns, Finish(t) \/ GiveUp(t) \/ ModelFails(t) PROVE HistoryOK(s)'
  <2>1. phase[t] \in Active /\ ~CallsOpen(t) /\ "over" \in Phases \ Active
    BY <1>12 DEF Finish, GiveUp, ModelFails, Move, Active, Phases, CallsOpen
  <2>2. /\ phase' = [phase EXCEPT ![t] = "over"] /\ UNCHANGED <<db, saved, at, crossed, cut>>
        /\ \A u \in Turns \ {t} : UNCHANGED <<write[u], round[u], calls[u]>>
    BY <1>0, <1>12 DEF Finish, GiveUp, ModelFails, Move, Forget, TypeOK, tables, seen
  <2> QED BY <1>0, <2>1, <2>2, HistoryEnd
<1>13. ASSUME NEW t \in Turns, Disconnect(t) \/ AskFails(t) \/ StoreFails(t)
       PROVE  HistoryOK(s)'
  <2>1. PICK p \in {"lost", "over"} : phase' = [phase EXCEPT ![t] = p]
    BY <1>13 DEF Disconnect, AskFails, StoreFails, Abandon
  <2>3. phase[t] \in Active /\ p \in Phases \ Active
    BY <1>13 DEF Disconnect, AskFails, StoreFails, Asking, Active, Phases
  <2>2. /\ UNCHANGED <<db, saved, at, crossed>>
        /\ \A u \in Turns \ {t} : UNCHANGED <<write[u], round[u], calls[u]>>
        /\ cut \subseteq cut' /\ (CallsOpen(t) => at[t] \in cut')
    BY <1>0, <1>13 DEF Disconnect, AskFails, StoreFails, Abandon, Forget, TypeOK, tables
  <2> QED BY <1>0, <2>1, <2>2, <2>3, HistoryEnd
<1>14. CASE Crash
  <2>1. /\ db' = saved /\ UNCHANGED <<saved, at, crossed>> /\ cut \subseteq cut'
        /\ \A u \in Turns : phase'[u] \notin Active /\ (CallsOpen(u) => at[u] \in cut')
    BY <1>0, <1>14 DEF Crash, TypeOK, Active
  <2>2. s \notin crossed' \cup cut' => Complete(saved[s].messages)
    <3>1. CASE \E u \in Turns : ActiveAt(u, s)
      BY <2>1, <3>1 DEF HistoryOK, ActiveAt
    <3>2. CASE \A u \in Turns : ~ActiveAt(u, s)
      BY <2>1, <3>2 DEF HistoryOK
    <3> QED BY <3>1, <3>2
  <2>3. \A u \in Turns : ~ActiveAt(u, s)'
    BY <2>1 DEF ActiveAt
  <2> QED BY <2>1, <2>2, <2>3 DEF HistoryOK
<1>15. CASE UNCHANGED vars
  BY <1>a, <1>15 DEF vars, tables, progress, seen
<1> QED
  BY <1>1, <1>2, <1>3, <1>4, <1>5, <1>6, <1>7, <1>8, <1>9, <1>10, <1>11, <1>12, <1>13, <1>14, <1>15
  DEF Next, TurnStep

\* What a turn sends to the model has the results of every call in it, unless turns of the
\* session have overlapped or one was cut off between its calls and their results.
THEOREM HistoriesAreComplete == Spec => HistoryIsComplete
<1> DEFINE HInv == TurnInv /\ \A s \in Sessions : HistoryOK(s)
           Sends == \A t \in Turns : Iterate(t) /\ at[t] \notin crossed \cup cut =>
                      Complete(db[at[t]].messages)
<1>1. Init => HInv
  <2> SUFFICES ASSUME Init, NEW s \in Sessions PROVE HistoryOK(s)
    BY TurnInit
  <2>1. db[s].messages = <<>> /\ saved[s].messages = <<>>
    BY DEF Init, NoSessionRow
  <2>2. \A t \in Turns : ~ActiveAt(t, s)
    BY DEF Init, ActiveAt, Active
  <2> QED BY <2>1, <2>2 DEF HistoryOK, Complete
<1>2. HInv /\ [Next]_vars => HInv'
  BY TurnStepOK, HistoryStep
<1>3. HInv => Sends
  <2> SUFFICES ASSUME HInv, NEW t \in Turns, Iterate(t), at[t] \notin crossed \cup cut
               PROVE  Complete(db[at[t]].messages)
    OBVIOUS
  <2>1. phase[t] \in {"iterating", "again"}
    BY DEF Iterate
  <2>2. at[t] \in Sessions /\ ActiveAt(t, at[t]) /\ Owed(t) = 0
    BY <2>1 DEF TurnInv, TurnFollowsPhase, Active, ActiveAt, Owed
  <2>3. HistoryOK(at[t]) /\ TypeOK
    BY <2>2 DEF TurnInv
  <2>4. Owing(db[at[t]].messages, 0, t)
    BY <2>2, <2>3 DEF HistoryOK
  <2> QED BY <2>2, <2>3, <2>4, OwingNothing, Histories
<1>4. HInv /\ [Next]_vars => [Sends]_vars
  BY <1>3
<1> HIDE DEF HInv, Sends
<1>5. Spec => [][Sends]_vars
  BY <1>1, <1>2, <1>4, PTL DEF Spec
<1> QED BY <1>5 DEF HistoryIsComplete, Sends

=============================================================================
