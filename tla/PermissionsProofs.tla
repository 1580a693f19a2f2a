-------------------------- MODULE PermissionsProofs --------------------------
(***************************************************************************)
(* The safety invariants of Permissions, for any requests, resolve calls,  *)
(* grant relations and number of crashes.                                  *)
(***************************************************************************)
EXTENDS Permissions, TLAPS

\* Phases of a caller that is inside await_permission with a slot of its own.
Inside == {"entering", "waiting", "expired"}

\* The box cannot be missed: it is in the table, or filled already, or the caller
\* will see that its request is resolved before it waits.
BoxReachable ==
  \A p \in Requests :
    /\ phase[p] \in {"waiting", "expired"} => p \in linked \/ box[p] # "unset"
    /\ phase[p] = "entering" /\ status[p] = "pending" => p \in linked

\* A clean-up that could pop the slot of a waiting caller follows a notification
\* that filled the caller's box.
TimerFollowsBox ==
  \A p \in Requests, r \in timers :
    target[r] = p /\ phase[p] \in {"waiting", "expired"} => box[p] # "unset"

\* Nothing is recorded of a request that was not inserted.
FreshIsUnknown ==
  \A p \in Requests :
    phase[p] \in {"start", "matched", "unmatched"} => status[p] = "none" /\ saved[p] = "none"

\* A resolve call that got past its check works on a request that exists, and
\* that it has resolved from its UPDATE on.
ResolverProgress ==
  \A r \in Resolvers :
    /\ resolver[r] = "checked" => status[target[r]] # "none"
    /\ resolver[r] \in {"updated", "inserted", "committed", "done", "failed"}
         => status[target[r]] \in Final
    /\ resolver[r] \in {"committed", "done", "failed"} => saved[target[r]] \in Final

\* The grant of allow_always exists from its INSERT on, for good from its commit on.
GrantProgress ==
  \A r \in Resolvers :
    /\ resolver[r] \in {"idle", "checked", "updated"} => grant[r] = "none" /\ savedGrant[r] = "none"
    /\ resolver[r] = "inserted" => grant[r] # "none"
    /\ resolver[r] \in {"committed", "done", "failed"} /\ action[r] = "allow_always"
         => grant[r] # "none" /\ savedGrant[r] # "none"

\* Timers and answers belong to calls that notified.
NotifiedIsDone == timers \cup acked \subseteq {r \in Resolvers : resolver[r] = "done"}

RevokedStays ==
  /\ \A g \in revoking : grant[g] = "revoked"
  /\ \A g \in retired : grant[g] = "revoked" /\ savedGrant[g] = "revoked"

PermissionsInv ==
  /\ TypeOK
  /\ BoxReachable
  /\ TimerFollowsBox
  /\ FreshIsUnknown
  /\ ResolverProgress
  /\ GrantProgress
  /\ NotifiedIsDone
  /\ RevokedStays
  /\ SlotsReclaimed
  /\ NoMissedWakeup

-----------------------------------------------------------------------------
LEMMA StatusOfFinal == \A a \in Actions : StatusOf(a) \in Final
BY DEF StatusOf, Actions, Final

LEMMA AnyRequestIsRequest == AnyRequest \in Requests
BY ConstantsAssumption DEF AnyRequest

LEMMA TypeInit == Init => TypeOK
BY AnyRequestIsRequest, ConstantsAssumption
DEF Init, TypeOK, Statuses, Grants, CallerPhases, ResolverPhases, Actions

LEMMA TypeNext == TypeOK /\ [Next]_vars => TypeOK'
<1> SUFFICES ASSUME TypeOK, [Next]_vars
             PROVE  TypeOK'
  OBVIOUS
<1> USE DEF TypeOK, Statuses, Grants, CallerPhases, ResolverPhases, tables, callers, waiters,
            route, history, Commit
<1>1. ASSUME NEW p \in Requests, PassByGrant(p) \/ Check(p)
      PROVE  TypeOK'
  BY <1>1 DEF PassByGrant, Check
<1>2. ASSUME NEW p \in Requests, InsertRequest(p)
      PROVE  TypeOK'
  BY <1>2 DEF InsertRequest, Final
<1>3. ASSUME NEW p \in Requests, CommitRequest(p)
      PROVE  TypeOK'
  BY <1>3 DEF CommitRequest, Final
<1>4. ASSUME NEW p \in Requests, AnnounceFails(p) \/ AnswerPending(p) \/ TimesOut(p)
      PROVE  TypeOK'
  BY <1>4 DEF AnnounceFails, AnswerPending, TimesOut
<1>5. ASSUME NEW p \in Requests, EnterAwait(p)
      PROVE  TypeOK'
  BY <1>5 DEF EnterAwait, Final
<1>6. ASSUME NEW p \in Requests, CheckRow(p)
      PROVE  TypeOK'
  BY <1>6 DEF CheckRow
<1>7. ASSUME NEW p \in Requests, LeaveWait(p)
      PROVE  TypeOK'
  BY <1>7 DEF LeaveWait
<1>8. ASSUME NEW p \in Requests, RereadRow(p)
      PROVE  TypeOK'
  BY <1>8 DEF RereadRow
<1>9. ASSUME NEW r \in Resolvers, NEW p \in Requests, NEW a \in Actions, ResolveRead(r, p, a)
      PROVE  TypeOK'
  BY <1>9 DEF ResolveRead
<1>10. ASSUME NEW r \in Resolvers, ResolveUpdate(r)
       PROVE  TypeOK'
  BY <1>10, StatusOfFinal DEF ResolveUpdate
<1>11. ASSUME NEW r \in Resolvers, ResolveInsert(r) \/ ResolveCommit(r) \/ ResolveFails(r)
       PROVE  TypeOK'
  BY <1>11 DEF ResolveInsert, ResolveCommit, ResolveFails
<1>12. ASSUME NEW r \in Resolvers, Notify(r)
       PROVE  TypeOK'
  BY <1>12, StatusOfFinal DEF Notify
<1>13. ASSUME NEW r \in Resolvers, TimerFires(r)
       PROVE  TypeOK'
  BY <1>13 DEF TimerFires
<1>14. ASSUME NEW g \in Resolvers, Revoke(g) \/ RevokeCommit(g) \/ Expire(g)
       PROVE  TypeOK'
  BY <1>14 DEF Revoke, RevokeCommit, Expire
<1>15. CASE OtherCommit
  BY <1>15 DEF OtherCommit
<1>16. CASE Crash
  BY <1>16, ConstantsAssumption DEF Crash
<1>17. CASE UNCHANGED vars
  BY <1>17 DEF vars
<1>18. QED
  BY <1>1, <1>2, <1>3, <1>4, <1>5, <1>6, <1>7, <1>8, <1>9, <1>10, <1>11, <1>12, <1>13,
     <1>14, <1>15, <1>16, <1>17
  DEF Next, CallerStep, ResolverStep

\* Every variable keeps its type.
THEOREM PermissionsTyped == Spec => []TypeOK
BY TypeInit, TypeNext, PTL DEF Spec

-----------------------------------------------------------------------------
LEMMA InvInit == Init => PermissionsInv
BY TypeInit
DEF Init, PermissionsInv, BoxReachable, TimerFollowsBox, FreshIsUnknown, ResolverProgress,
    GrantProgress, NotifiedIsDone, RevokedStays, SlotsReclaimed, NoMissedWakeup

LEMMA InvNext == PermissionsInv /\ [Next]_vars => PermissionsInv'
<1> SUFFICES ASSUME PermissionsInv, [Next]_vars
             PROVE  PermissionsInv'
  OBVIOUS
<1>0. TypeOK'
  BY TypeNext DEF PermissionsInv
<1> USE DEF PermissionsInv, TypeOK, BoxReachable, TimerFollowsBox, FreshIsUnknown,
            ResolverProgress, GrantProgress, NotifiedIsDone, RevokedStays, SlotsReclaimed,
            NoMissedWakeup, tables, callers, waiters, route, history, Commit, Final
<1>1. ASSUME NEW p \in Requests, PassByGrant(p) \/ Check(p)
      PROVE  PermissionsInv'
  BY <1>0, <1>1 DEF PassByGrant, Check
<1>2. ASSUME NEW p \in Requests, InsertRequest(p)
      PROVE  PermissionsInv'
  BY <1>0, <1>2 DEF InsertRequest
<1>3. ASSUME NEW p \in Requests, CommitRequest(p)
      PROVE  PermissionsInv'
  BY <1>0, <1>3 DEF CommitRequest
<1>4. ASSUME NEW p \in Requests, AnnounceFails(p) \/ AnswerPending(p) \/ TimesOut(p)
      PROVE  PermissionsInv'
  BY <1>0, <1>4 DEF AnnounceFails, AnswerPending, TimesOut
<1>5. ASSUME NEW p \in Requests, EnterAwait(p)
      PROVE  PermissionsInv'
  BY <1>0, <1>5 DEF EnterAwait
<1>6. ASSUME NEW p \in Requests, CheckRow(p)
      PROVE  PermissionsInv'
  <2>1. CASE status[p] = "pending"
    <3>1. \A r \in timers : target[r] # p
      BY <2>1
    <3>2. p \in linked
      BY <1>6, <2>1 DEF CheckRow
    <3>3. QED
      BY <1>0, <1>6, <2>1, <3>1, <3>2 DEF CheckRow
  <2>2. CASE status[p] # "pending"
    BY <1>0, <1>6, <2>2 DEF CheckRow
  <2>3. QED
    BY <2>1, <2>2
<1>7. ASSUME NEW p \in Requests, LeaveWait(p)
      PROVE  PermissionsInv'
  BY <1>0, <1>7 DEF LeaveWait
<1>8. ASSUME NEW p \in Requests, RereadRow(p)
      PROVE  PermissionsInv'
  BY <1>0, <1>8 DEF RereadRow
<1>9. ASSUME NEW r \in Resolvers, NEW p \in Requests, NEW a \in Actions, ResolveRead(r, p, a)
      PROVE  PermissionsInv'
  BY <1>0, <1>9 DEF ResolveRead
<1>10. ASSUME NEW r \in Resolvers, ResolveUpdate(r)
       PROVE  PermissionsInv'
  BY <1>0, <1>10, StatusOfFinal DEF ResolveUpdate
<1>11. ASSUME NEW r \in Resolvers, ResolveInsert(r)
       PROVE  PermissionsInv'
  BY <1>0, <1>11 DEF ResolveInsert
<1>12. ASSUME NEW r \in Resolvers, ResolveCommit(r) \/ ResolveFails(r)
       PROVE  PermissionsInv'
  BY <1>0, <1>12 DEF ResolveCommit, ResolveFails
<1>13. ASSUME NEW r \in Resolvers, Notify(r)
       PROVE  PermissionsInv'
  BY <1>0, <1>13, StatusOfFinal DEF Notify
<1>14. ASSUME NEW r \in Resolvers, TimerFires(r)
       PROVE  PermissionsInv'
  BY <1>0, <1>14 DEF TimerFires
<1>15. ASSUME NEW g \in Resolvers, Revoke(g)
       PROVE  PermissionsInv'
  BY <1>0, <1>15 DEF Revoke
<1>16. ASSUME NEW g \in Resolvers, RevokeCommit(g) \/ Expire(g)
       PROVE  PermissionsInv'
  BY <1>0, <1>16 DEF RevokeCommit, Expire
<1>17. CASE OtherCommit
  BY <1>0, <1>17 DEF OtherCommit
<1>18. CASE Crash
  BY <1>0, <1>18 DEF Crash
<1>19. CASE UNCHANGED vars
  BY <1>0, <1>19 DEF vars
<1>20. QED
  BY <1>1, <1>2, <1>3, <1>4, <1>5, <1>6, <1>7, <1>8, <1>9, <1>10, <1>11, <1>12, <1>13,
     <1>14, <1>15, <1>16, <1>17, <1>18, <1>19
  DEF Next, CallerStep, ResolverStep

LEMMA PermissionsInvariant == Spec => []PermissionsInv
BY InvInit, InvNext, PTL DEF Spec

\* Whichever of await_permission, notify_resolved and its clean-up comes first, no
\* caller sleeps through the resolution of its request.
THEOREM NoLostWakeup == Spec => []NoMissedWakeup
<1>1. PermissionsInv => NoMissedWakeup
  BY DEF PermissionsInv
<1>2. QED
  BY <1>1, PermissionsInvariant, PTL

\* No slot stays in _waiters without a caller or a timer that will remove it.
THEOREM NoLeakedSlot == Spec => []SlotsReclaimed
<1>1. PermissionsInv => SlotsReclaimed
  BY DEF PermissionsInv
<1>2. QED
  BY <1>1, PermissionsInvariant, PTL

\* What resolve and revoke answered is in the committed tables, whatever crashes.
THEOREM AnswersAreDurable == Spec => []AcknowledgedIsDurable
<1>1. PermissionsInv => AcknowledgedIsDurable
  BY DEF PermissionsInv, TypeOK, ResolverProgress, GrantProgress, NotifiedIsDone, RevokedStays,
         AcknowledgedIsDurable
<1>2. QED
  BY <1>1, PermissionsInvariant, PTL

-----------------------------------------------------------------------------
(* Answers come from the user.                                             *)

\* Status s of request p is what the user chose for p.
Backed(p, s) == s \in Final => \E a \in chosen[p] : s = StatusOf(a)

AllBacked ==
  /\ \A p \in Awaiting :
       /\ phase[p] \notin {"matched", "insertingMatched"}
       /\ Backed(p, status[p]) /\ Backed(p, saved[p])
       /\ Backed(p, slot[p]) /\ Backed(p, box[p]) /\ Backed(p, answer[p])
  /\ \A r \in Resolvers :
       resolver[r] \in {"updated", "inserted", "committed"} => action[r] \in chosen[target[r]]

LEMMA BackedInit == Init => AllBacked
BY DEF Init, AllBacked, Backed, Final, Awaiting, Requests

LEMMA BackedNext == TypeOK /\ AllBacked /\ [Next]_vars => AllBacked'
<1> SUFFICES ASSUME TypeOK, AllBacked, [Next]_vars
             PROVE  AllBacked'
  OBVIOUS
<1>0. Awaiting \subseteq Requests
  BY DEF Awaiting, Requests
<1> USE <1>0 DEF TypeOK, AllBacked, Backed, tables, callers, waiters, route, history, Commit, Final
<1>1. ASSUME NEW p \in Requests, PassByGrant(p)
      PROVE  AllBacked'
  BY <1>1 DEF PassByGrant
<1>2. ASSUME NEW p \in Requests, Check(p)
      PROVE  AllBacked'
  BY <1>2, ConstantsAssumption DEF Check
<1>3. ASSUME NEW p \in Requests, InsertRequest(p)
      PROVE  AllBacked'
  BY <1>3 DEF InsertRequest
<1>4. ASSUME NEW p \in Requests, CommitRequest(p)
      PROVE  AllBacked'
  BY <1>4 DEF CommitRequest
<1>5. ASSUME NEW p \in Requests, AnnounceFails(p) \/ AnswerPending(p) \/ TimesOut(p)
      PROVE  AllBacked'
  BY <1>5 DEF AnnounceFails, AnswerPending, TimesOut
<1>6. ASSUME NEW p \in Requests, EnterAwait(p)
      PROVE  AllBacked'
  BY <1>6 DEF EnterAwait
<1>7. ASSUME NEW p \in Requests, CheckRow(p)
      PROVE  AllBacked'
  BY <1>7 DEF CheckRow
<1>8. ASSUME NEW p \in Requests, LeaveWait(p)
      PROVE  AllBacked'
  BY <1>8 DEF LeaveWait
<1>9. ASSUME NEW p \in Requests, RereadRow(p)
      PROVE  AllBacked'
  BY <1>9 DEF RereadRow
<1>10. ASSUME NEW r \in Resolvers, NEW p \in Requests, NEW a \in Actions, ResolveRead(r, p, a)
       PROVE  AllBacked'
  BY <1>10 DEF ResolveRead
<1>11. ASSUME NEW r \in Resolvers, ResolveUpdate(r)
       PROVE  AllBacked'
  BY <1>11 DEF ResolveUpdate
<1>12. ASSUME NEW r \in Resolvers, ResolveInsert(r) \/ ResolveCommit(r) \/ ResolveFails(r)
       PROVE  AllBacked'
  BY <1>12 DEF ResolveInsert, ResolveCommit, ResolveFails
<1>13. ASSUME NEW r \in Resolvers, Notify(r)
       PROVE  AllBacked'
  BY <1>13 DEF Notify
<1>14. ASSUME NEW r \in Resolvers, TimerFires(r)
       PROVE  AllBacked'
  BY <1>14 DEF TimerFires
<1>15. ASSUME NEW g \in Resolvers, Revoke(g) \/ RevokeCommit(g) \/ Expire(g)
       PROVE  AllBacked'
  BY <1>15 DEF Revoke, RevokeCommit, Expire
<1>16. CASE OtherCommit
  BY <1>16 DEF OtherCommit
<1>17. CASE Crash
  BY <1>17 DEF Crash
<1>18. CASE UNCHANGED vars
  BY <1>18 DEF vars
<1>19. QED
  BY <1>1, <1>2, <1>3, <1>4, <1>5, <1>6, <1>7, <1>8, <1>9, <1>10, <1>11, <1>12, <1>13,
     <1>14, <1>15, <1>16, <1>17, <1>18
  DEF Next, CallerStep, ResolverStep

\* No caller proceeds, or is refused, on a choice that the user did not make for
\* its request: not even one that raced a second resolution or a restart.
THEOREM AnswersAreChosen == Spec => []AnswerWasChosen
<1>1. TypeOK /\ AllBacked => AnswerWasChosen
  BY DEF TypeOK, AllBacked, Backed, AnswerWasChosen, StatusOf, Final, Actions, Awaiting, Requests
<1>2. Spec => [](TypeOK /\ AllBacked)
  BY TypeInit, TypeNext, BackedInit, BackedNext, PTL DEF Spec
<1>3. QED
  BY <1>1, <1>2, PTL

\* Every wait is woken and every slot is freed, for any callers and resolvers.
THEOREM WaitersAreServed == Spec => []SlotsServe
BY NoLostWakeup, NoLeakedSlot, PTL DEF SlotsServe

\* Only the look at the row answers "pending": a box holds a decision (await_permission), and
\* who finds the row decided before it waits returns the decision.
LEMMA PendingIsRead ==
  ASSUME TypeOK, [Next]_vars, NEW p \in Awaiting, answer[p] = "none", answer'[p] = "pending"
  PROVE  status[p] = "pending"
<1>1. /\ answer \in [Requests -> Statuses \cup {"standing"}] /\ box \in [Requests -> {"unset"} \cup Final]
      /\ p \in Requests /\ p \notin Recorded \cup Llm
  BY ConstantsAssumption DEF TypeOK, Awaiting, Requests
<1>2. ASSUME NEW q \in Requests, CallerStep(q) PROVE status[p] = "pending"
  <2>1. answer' = answer \/ \E x : answer' = [answer EXCEPT ![q] = x]
    BY <1>2 DEF CallerStep, PassByGrant, Check, InsertRequest, CommitRequest, AnnounceFails, AnswerPending, EnterAwait,
                CheckRow, TimesOut, LeaveWait, RereadRow
  <2>2. q = p /\ answer' # answer
    BY <1>1, <1>2, <2>1
  <2>3. CASE PassByGrant(p)
    BY <1>1, <2>3 DEF PassByGrant
  <2>4. CASE CommitRequest(p) \/ AnswerPending(p)
    BY <1>1, <2>2, <2>4 DEF CommitRequest, AnswerPending
  <2>5. CASE CheckRow(p)
    BY <1>1, <2>2, <2>5 DEF CheckRow
  <2>6. CASE LeaveWait(p)
    <3>1. answer'[p] = box[p] /\ box[p] \in Final
      BY <1>1, <2>2, <2>6 DEF LeaveWait
    <3> QED BY <1>2, <3>1 DEF Final
  <2>7. CASE RereadRow(p)
    BY <1>1, <2>7 DEF RereadRow
  <2> QED
    BY <1>2, <2>2, <2>3, <2>4, <2>5, <2>6, <2>7
    DEF CallerStep, Check, InsertRequest, AnnounceFails, EnterAwait, TimesOut, callers
<1>3. answer' # answer
  OBVIOUS
<1>4. ASSUME NEW r \in Resolvers,
             \/ \E q \in Requests, a \in Actions : ResolveRead(r, q, a)
             \/ ResolverStep(r) \/ TimerFires(r) \/ Revoke(r) \/ RevokeCommit(r) \/ Expire(r)
      PROVE  answer' = answer
  BY <1>4 DEF ResolveRead, ResolverStep, ResolveUpdate, ResolveInsert, ResolveCommit, Notify,
              ResolveFails, TimerFires, Revoke, RevokeCommit, Expire, callers
<1>5. OtherCommit \/ Crash \/ UNCHANGED vars => answer' = answer
  BY DEF OtherCommit, Crash, vars, callers
<1> QED BY <1>2, <1>3, <1>4, <1>5 DEF Next

\* A caller reports "pending" only of a request that is pending as it does, whenever its wait
\* times out and whichever notifications were lost.
THEOREM TimeoutsHideNothing == Spec => TimeoutHidesNoDecision
<1> DEFINE Honest == \A p \in Awaiting :
             answer[p] = "none" /\ answer'[p] = "pending" => status[p] = "pending"
<1>1. TypeOK /\ [Next]_vars => [Honest]_vars
  BY PendingIsRead
<1> HIDE DEF Honest
<1>2. Spec => [][Honest]_vars
  BY <1>1, PermissionsTyped, PTL DEF Spec
<1> QED BY <1>2 DEF Honest, TimeoutHidesNoDecision
=============================================================================
