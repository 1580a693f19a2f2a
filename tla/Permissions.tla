----------------------------- MODULE Permissions -----------------------------
(***************************************************************************)
(* Permission requests: the callers that open one and await its            *)
(* resolution (permissions_runtime.py, tool_socket.py, secrets/store.py),  *)
(* the resolve and revoke routes (routes/permissions.py), and the          *)
(* in-memory _waiters table between them.                                  *)
(*                                                                         *)
(* As everywhere in this program the sqlite connection is shared: status   *)
(* and grant are what its coroutines read, saved what a crash leaves, and  *)
(* any coroutine's commit saves everything.  A caller's slot in            *)
(* _waiters and the (event, status_box) pair that it awaits are two things:*)
(* a slot that is popped leaves the caller with its pair, and the next     *)
(* notify_resolved makes a new slot.  The event is set exactly when the    *)
(* box is filled, so the box stands for both.                              *)
(***************************************************************************)
EXTENDS Naturals

CONSTANTS
  Gated,        \* requests of gates: find_matching_grant, else ask and await
  SecretReads,  \* requests of get_secret_for_tool: its own grant query, else await
  Direct,       \* requests of the socket method request_permission: ask and await
  Recorded,     \* requests of POST /permissions/request: check, record, answer
  Llm,          \* requests of the LLM's tool: record, answer "pending"
  Resolvers,    \* calls of the resolve route
  Same,         \* <<p, q>>: p and q have one grantee and one capability
  Covers,       \* <<p, q>>: and a grant with p's scope covers q (scope_matches)
  Expiring,     \* requests whose scope has an expiry
  MaxCrashes    \* bound on the crashes of a behaviour

Requests == Gated \cup SecretReads \cup Direct \cup Recorded \cup Llm
Awaiting == Gated \cup SecretReads \cup Direct

ASSUME ConstantsAssumption ==
  /\ Covers \subseteq Same
  /\ Same \subseteq Requests \X Requests
  /\ Expiring \subseteq Requests
  /\ Awaiting \cap (Recorded \cup Llm) = {}
  /\ Requests # {}
  /\ MaxCrashes \in Nat

Actions  == {"allow_once", "allow_always", "deny"}
Final    == {"granted_once", "granted_always", "denied"}
Statuses == {"none", "pending"} \cup Final

\* Slip: two actions are confused.
StatusOfSwapped(a) ==
  CASE a = "allow_once"   -> "granted_once"
    [] a = "allow_always" -> "denied"
    [] a = "deny"         -> "granted_always"

\* resolve_permission: the status an action turns into.
StatusOf(a) ==
  CASE a = "allow_once"   -> "granted_once"
    [] a = "allow_always" -> "granted_always"
    [] a = "deny"         -> "denied"

Grants   == {"none", "live", "revoked"}

CallerPhases   == {"start", "matched", "unmatched", "insertingMatched", "inserting", "created",
                   "entering", "waiting", "expired", "rereading", "done", "lost"}
ResolverPhases == {"idle", "checked", "updated", "inserted", "committed",
                   "done", "failed", "lost"}

VARIABLES
  status,   \* permission_requests: the status of each, "none" before it is inserted
  grant,    \* permissions: the grant that each resolve call inserted
  saved,    \* the statuses that are committed
  savedGrant, \* the grants that are committed
  expired,  \* grants whose expires_at has passed
  phase,    \* where each caller is
  answer,   \* what it came back with: a status, "standing" or "none"
  slot,     \* _waiters: "absent", or the content of the status_box
  box,      \* the status_box that the caller of each request awaits
  linked,   \* requests whose slot holds the caller's own box
  timers,   \* notifications whose call_later has not fired
  resolver, \* where each call of the resolve route is
  target,   \* the request it resolves
  action,   \* and how
  revoking, \* grants whose revocation is not yet committed
  \* what happened, for the properties
  chosen,   \* the actions the user took on each request
  acked,    \* calls of the resolve route that were answered
  retired,  \* grants whose revocation was answered
  crashes

vars == <<status, grant, saved, savedGrant, expired, phase, answer, slot, box, linked, timers, resolver,
          target, action, revoking, chosen, acked, retired, crashes>>

tables  == <<status, grant, saved, savedGrant, expired>>
callers == <<phase, answer, box>>
waiters == <<slot, linked, timers>>
route   == <<resolver, target, action, revoking>>
history == <<chosen, acked, retired, crashes>>

AnyRequest == CHOOSE p \in Requests : TRUE

Init ==
  /\ status = [p \in Requests |-> "none"]
  /\ grant = [g \in Resolvers |-> "none"]
  /\ saved = status
  /\ savedGrant = grant
  /\ expired = {}
  /\ phase = [p \in Requests |-> "start"]
  /\ answer = [p \in Requests |-> "none"]
  /\ slot = [p \in Requests |-> "absent"]
  /\ box = [p \in Requests |-> "unset"]
  /\ linked = {}
  /\ timers = {}
  /\ resolver = [r \in Resolvers |-> "idle"]
  /\ target = [r \in Resolvers |-> AnyRequest]
  /\ action = [r \in Resolvers |-> "deny"]
  /\ revoking = {}
  /\ chosen = [p \in Requests |-> {}]
  /\ acked = {}
  /\ retired = {}
  /\ crashes = 0

\* A commit on the shared connection.
Commit == saved' = status /\ savedGrant' = grant

-----------------------------------------------------------------------------
(* Callers.                                                                *)

\* find_matching_grant; get_secret_for_tool asks for grantee and capability only.
MatchingGrants(p) ==
  {g \in Resolvers :
     /\ grant[g] = "live"
     /\ IF p \in SecretReads
        THEN <<target[g], p>> \in Same
        ELSE <<target[g], p>> \in Covers /\ g \notin expired}

\* A covering grant lets a gate or a secret read pass without a request.
PassByGrant(p) ==
  /\ phase[p] = "start" /\ p \in Gated \cup SecretReads
  /\ MatchingGrants(p) # {}
  /\ phase' = [phase EXCEPT ![p] = "done"]
  /\ answer' = [answer EXCEPT ![p] = "standing"]
  /\ UNCHANGED <<tables, box, waiters, route, history>>

\* The check found none, or there is no check; POST /permissions/request records
\* the request either way.
Check(p) ==
  /\ phase[p] = "start"
  /\ p \in Gated \cup SecretReads => MatchingGrants(p) = {}
  /\ phase' = [phase EXCEPT ![p] = IF p \in Recorded /\ MatchingGrants(p) # {}
                                  THEN "matched" ELSE "unmatched"]
  /\ UNCHANGED <<tables, answer, box, waiters, route, history>>

\* create_permission_request and request_permission: INSERT.
InsertRequest(p) ==
  /\ phase[p] \in {"matched", "unmatched"}
  /\ status' = [status EXCEPT ![p] = IF phase[p] = "matched" THEN "granted_always" ELSE "pending"]
  /\ phase' = [phase EXCEPT ![p] = IF @ = "matched" THEN "insertingMatched" ELSE "inserting"]
  /\ UNCHANGED <<grant, saved, savedGrant, expired, answer, box, waiters, route, history>>

\* Its commit.  A request that a grant covers is answered at once.
CommitRequest(p) ==
  /\ phase[p] \in {"insertingMatched", "inserting"}
  /\ Commit
  /\ IF phase[p] = "inserting"
     THEN phase' = [phase EXCEPT ![p] = "created"] /\ UNCHANGED answer
     ELSE /\ phase' = [phase EXCEPT ![p] = "done"]
          /\ answer' = [answer EXCEPT ![p] = "granted_always"]
  /\ UNCHANGED <<status, grant, expired, box, waiters, route, history>>

\* bus.publish or audit.log raises: the caller fails, the request stays pending.
AnnounceFails(p) ==
  /\ phase[p] = "created"
  /\ phase' = [phase EXCEPT ![p] = "done"]
  /\ UNCHANGED <<tables, answer, box, waiters, route, history>>

\* Who does not await is answered "pending", whatever has become of the request by now.
AnswerPending(p) ==
  /\ phase[p] = "created" /\ p \notin Awaiting
  /\ phase' = [phase EXCEPT ![p] = "done"]
  /\ answer' = [answer EXCEPT ![p] = "pending"]
  /\ UNCHANGED <<tables, box, waiters, route, history>>

\* await_permission: _slot, which a notification may have made already.
EnterAwait(p) ==
  /\ phase[p] = "created" /\ p \in Awaiting
  /\ phase' = [phase EXCEPT ![p] = "entering"]
  /\ slot' = [slot EXCEPT ![p] = IF @ = "absent" THEN "unset" ELSE @]
  /\ box' = [box EXCEPT ![p] = slot'[p]]
  /\ linked' = linked \cup {p}
  /\ UNCHANGED <<tables, answer, timers, route, history>>

\* Slip: no race-defence, the caller waits whatever the row says.
CheckRowSkipped(p) ==
  /\ phase[p] = "entering"
  /\ phase' = [phase EXCEPT ![p] = "waiting"]
  /\ UNCHANGED <<tables, answer, box, waiters, route, history>>

\* Its look at the row before the wait.
CheckRow(p) ==
  /\ phase[p] = "entering"
  /\ IF status[p] = "pending"
     THEN phase' = [phase EXCEPT ![p] = "waiting"] /\ UNCHANGED <<answer, slot, linked>>
     ELSE /\ phase' = [phase EXCEPT ![p] = "done"]
          /\ answer' = [answer EXCEPT ![p] = status[p]]
          /\ slot' = [slot EXCEPT ![p] = "absent"]
          /\ linked' = linked \ {p}
  /\ UNCHANGED <<tables, box, timers, route, history>>

\* wait_for gives up.  Until the caller resumes a notification can still fill its box.
TimesOut(p) ==
  /\ phase[p] = "waiting" /\ box[p] = "unset"
  /\ phase' = [phase EXCEPT ![p] = "expired"]
  /\ UNCHANGED <<tables, answer, box, waiters, route, history>>

\* Slip: a caller that timed out does not look at the row again.
LeaveWaitPending(p) ==
  /\ phase[p] = "expired" \/ (phase[p] = "waiting" /\ box[p] # "unset")
  /\ slot' = [slot EXCEPT ![p] = "absent"]
  /\ linked' = linked \ {p}
  /\ phase' = [phase EXCEPT ![p] = "done"]
  /\ answer' = [answer EXCEPT ![p] = IF box[p] = "unset" THEN "pending" ELSE box[p]]
  /\ UNCHANGED <<tables, box, timers, route, history>>

\* The wait is over: pop the slot and return the content of the box, if any.
LeaveWait(p) ==
  /\ phase[p] = "expired" \/ (phase[p] = "waiting" /\ box[p] # "unset")
  /\ slot' = [slot EXCEPT ![p] = "absent"]
  /\ linked' = linked \ {p}
  /\ IF box[p] = "unset"
     THEN phase' = [phase EXCEPT ![p] = "rereading"] /\ UNCHANGED answer
     ELSE /\ phase' = [phase EXCEPT ![p] = "done"]
          /\ answer' = [answer EXCEPT ![p] = box[p]]
  /\ UNCHANGED <<tables, box, timers, route, history>>

\* The fallback: return what the row says now.
RereadRow(p) ==
  /\ phase[p] = "rereading"
  /\ phase' = [phase EXCEPT ![p] = "done"]
  /\ answer' = [answer EXCEPT ![p] = status[p]]
  /\ UNCHANGED <<tables, box, waiters, route, history>>

-----------------------------------------------------------------------------
(* resolve_permission.                                                     *)

\* The SELECT, which lets pass pending requests only.
ResolveRead(r, p, a) ==
  /\ resolver[r] = "idle"
  /\ status[p] = "pending"
  /\ resolver' = [resolver EXCEPT ![r] = "checked"]
  /\ target' = [target EXCEPT ![r] = p]
  /\ action' = [action EXCEPT ![r] = a]
  /\ UNCHANGED <<tables, callers, waiters, revoking, history>>

\* The UPDATE, which does not look at the status again.
ResolveUpdate(r) ==
  /\ resolver[r] = "checked"
  /\ status' = [status EXCEPT ![target[r]] = StatusOf(action[r])]
  /\ resolver' = [resolver EXCEPT ![r] = "updated"]
  /\ chosen' = [chosen EXCEPT ![target[r]] = @ \cup {action[r]}]
  /\ UNCHANGED <<grant, saved, savedGrant, expired, callers, waiters, target, action, revoking,
                 acked, retired, crashes>>

\* allow_always: the INSERT of the grant.
ResolveInsert(r) ==
  /\ resolver[r] = "updated" /\ action[r] = "allow_always"
  /\ grant' = [grant EXCEPT ![r] = "live"]
  /\ resolver' = [resolver EXCEPT ![r] = "inserted"]
  /\ UNCHANGED <<status, saved, savedGrant, expired, callers, waiters, target, action, revoking, history>>

\* Slip: the commit is left out.
ResolveUncommitted(r) ==
  /\ resolver[r] = IF action[r] = "allow_always" THEN "inserted" ELSE "updated"
  /\ resolver' = [resolver EXCEPT ![r] = "committed"]
  /\ UNCHANGED <<tables, callers, waiters, target, action, revoking, history>>

ResolveCommit(r) ==
  /\ resolver[r] = IF action[r] = "allow_always" THEN "inserted" ELSE "updated"
  /\ Commit
  /\ resolver' = [resolver EXCEPT ![r] = "committed"]
  /\ UNCHANGED <<status, grant, expired, callers, waiters, target, action, revoking, history>>

\* notify_resolved, in the slot there is or a new one; then the answer.
Notify(r) ==
  LET p == target[r]
  IN  /\ resolver[r] = "committed"
      /\ resolver' = [resolver EXCEPT ![r] = "done"]
      /\ slot' = [slot EXCEPT ![p] = StatusOf(action[r])]
      /\ box' = IF p \in linked THEN [box EXCEPT ![p] = StatusOf(action[r])] ELSE box
      /\ timers' = timers \cup {r}
      /\ acked' = acked \cup {r}
      /\ UNCHANGED <<tables, phase, answer, linked, target, action, revoking,
                     chosen, retired, crashes>>

\* audit.log or bus.publish raises: no notification, an error for an answer.
ResolveFails(r) ==
  /\ resolver[r] = "committed"
  /\ resolver' = [resolver EXCEPT ![r] = "failed"]
  /\ UNCHANGED <<tables, callers, waiters, target, action, revoking, history>>

\* The call_later of notify_resolved pops whatever slot the request has by then.
TimerFires(r) ==
  /\ r \in timers
  /\ timers' = timers \ {r}
  /\ slot' = [slot EXCEPT ![target[r]] = "absent"]
  /\ linked' = linked \ {target[r]}
  /\ UNCHANGED <<tables, callers, route, history>>

-----------------------------------------------------------------------------
(* Grants, commits and crashes.                                            *)

\* revoke_permission: UPDATE.
Revoke(g) ==
  /\ grant[g] = "live" /\ g \notin revoking
  /\ grant' = [grant EXCEPT ![g] = "revoked"]
  /\ revoking' = revoking \cup {g}
  /\ UNCHANGED <<status, saved, savedGrant, expired, callers, waiters, resolver, target, action, history>>

\* Its commit, then the answer.
RevokeCommit(g) ==
  /\ g \in revoking
  /\ Commit
  /\ revoking' = revoking \ {g}
  /\ retired' = retired \cup {g}
  /\ UNCHANGED <<status, grant, expired, callers, waiters, resolver, target, action,
                 chosen, acked, crashes>>

\* expires_at, copied from the request's scope, passes.
Expire(g) ==
  /\ grant[g] = "live" /\ target[g] \in Expiring /\ g \notin expired
  /\ expired' = expired \cup {g}
  /\ UNCHANGED <<status, grant, saved, savedGrant, callers, waiters, route, history>>

\* Some other coroutine commits on the shared connection.
OtherCommit ==
  /\ <<status, grant>> # <<saved, savedGrant>>
  /\ Commit
  /\ UNCHANGED <<status, grant, expired, callers, waiters, route, history>>

\* The process dies, with the callers and handlers that were at work, and starts
\* again.  Nothing is reconciled: a request left pending can still be resolved.
Crash ==
  /\ crashes < MaxCrashes
  /\ crashes' = crashes + 1
  /\ status' = saved
  /\ grant' = savedGrant
  /\ phase' = [p \in Requests |-> IF phase[p] \in {"start", "done"} THEN phase[p] ELSE "lost"]
  /\ resolver' = [r \in Resolvers |->
                    IF resolver[r] \in {"idle", "done", "failed"} THEN resolver[r] ELSE "lost"]
  /\ slot' = [p \in Requests |-> "absent"]
  /\ linked' = {}
  /\ timers' = {}
  /\ revoking' = {}
  /\ UNCHANGED <<saved, savedGrant, expired, answer, box, target, action, chosen, acked, retired>>

-----------------------------------------------------------------------------
CallerStep(p) ==
  \/ PassByGrant(p) \/ Check(p) \/ InsertRequest(p) \/ CommitRequest(p)
  \/ AnnounceFails(p) \/ AnswerPending(p) \/ EnterAwait(p) \/ CheckRow(p)
  \/ TimesOut(p) \/ LeaveWait(p) \/ RereadRow(p)

ResolverStep(r) ==
  \/ ResolveUpdate(r) \/ ResolveInsert(r) \/ ResolveCommit(r)
  \/ Notify(r) \/ ResolveFails(r)

Next ==
  \/ \E p \in Requests : CallerStep(p)
  \/ \E r \in Resolvers :
       \/ \E p \in Requests, a \in Actions : ResolveRead(r, p, a)
       \/ ResolverStep(r) \/ TimerFires(r)
       \/ Revoke(r) \/ RevokeCommit(r) \/ Expire(r)
  \/ OtherCommit
  \/ Crash

\* A coroutine that can go on does, and timers fire.  The user need not resolve.
Fairness ==
  /\ \A p \in Requests : WF_vars(CallerStep(p))
  /\ \A r \in Resolvers : WF_vars(ResolverStep(r)) /\ WF_vars(TimerFires(r))

Spec == Init /\ [][Next]_vars
FairSpec == Spec /\ Fairness

-----------------------------------------------------------------------------
(* Properties                                                              *)

TypeOK ==
  /\ status \in [Requests -> Statuses]
  /\ grant \in [Resolvers -> Grants]
  /\ saved \in [Requests -> Statuses]
  /\ savedGrant \in [Resolvers -> Grants]
  /\ expired \subseteq Resolvers
  /\ phase \in [Requests -> CallerPhases]
  /\ answer \in [Requests -> Statuses \cup {"standing"}]
  /\ slot \in [Requests -> {"absent", "unset"} \cup Final]
  /\ box \in [Requests -> {"unset"} \cup Final]
  /\ linked \subseteq Requests
  /\ timers \subseteq Resolvers
  /\ resolver \in [Resolvers -> ResolverPhases]
  /\ target \in [Resolvers -> Requests]
  /\ action \in [Resolvers -> Actions]
  /\ revoking \subseteq Resolvers
  /\ chosen \in [Requests -> SUBSET Actions]
  /\ acked \subseteq Resolvers
  /\ retired \subseteq Resolvers
  /\ crashes \in 0..MaxCrashes

\* No lost wake-up: a caller that waits on a resolved request has its box filled,
\* once no resolver of that request is on its way to notify_resolved.  Whichever of
\* _slot, the look at the row, the UPDATE, the notification and the 30-second
\* clean-up comes first (await_permission, notify_resolved).
NoMissedWakeup ==
  \A p \in Requests :
    /\ phase[p] = "waiting" /\ status[p] # "pending"
    /\ \A r \in Resolvers :
         target[r] = p => resolver[r] \notin {"updated", "inserted", "committed", "failed"}
    => box[p] # "unset"

\* _waiters does not accumulate: each slot is that of a caller at work or has its
\* clean-up scheduled (comment in notify_resolved).
SlotsReclaimed ==
  \A p \in Requests :
    slot[p] # "absent" =>
      \/ phase[p] \in {"entering", "waiting", "expired"}
      \/ \E r \in timers : target[r] = p

\* A caller proceeds only on what the user chose for that very request, through
\* any interleaving of resolvers, time-outs and restarts.
AnswerWasChosen ==
  \A p \in Awaiting :
    /\ answer[p] = "granted_once" => "allow_once" \in chosen[p]
    /\ answer[p] = "granted_always" => "allow_always" \in chosen[p]
    /\ answer[p] = "denied" => "deny" \in chosen[p]

\* What a route answered survives every crash: the request is resolved, allow_always
\* has left a grant, and a revoked grant never comes back.
AcknowledgedIsDurable ==
  /\ \A r \in acked :
       /\ saved[target[r]] \in Final
       /\ action[r] = "allow_always" => savedGrant[r] # "none"
  /\ \A g \in retired : grant[g] = "revoked" /\ savedGrant[g] = "revoked"

\* A caller reports "pending" only of a request that is pending as it does: a
\* time-out never hides a decision, even one whose notification was lost.
TimeoutHidesNoDecision ==
  [][\A p \in Awaiting :
       answer[p] = "none" /\ answer'[p] = "pending" => status[p] = "pending"]_vars

\* docs/concepts/permissions.md: the status "starts pending; transitions to one of
\* granted_once, granted_always, denied", and the route refuses a second resolution.
\* Two calls can both read "pending" before either updates.
StatusIsFinal ==
  [][\A p \in Requests :
       status[p] \in Final /\ status'[p] \in Final => status'[p] = status[p]]_vars

\* _waiters serves every caller and keeps nothing else: whoever waits on a request that
\* is decided has been woken, and no slot is left without a caller or a clean-up.
SlotsServe == NoMissedWakeup /\ SlotsReclaimed
=============================================================================
