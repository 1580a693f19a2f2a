------------------------------- MODULE Devices -------------------------------
(***************************************************************************)
(* Paired devices (devices.py, routes/auth.py, routes/devices.py): the     *)
(* pairing codes, the device rows, the in-memory registry of their output  *)
(* channels (outputs/channels/devices.py) and their push endpoints         *)
(* (push.py).                                                              *)
(*                                                                         *)
(* The registry follows the table without a transaction around the two: a  *)
(* handler commits, and when it is resumed it edits the registry.  The     *)
(* connection is shared, so a row is visible before its commit, and any    *)
(* coroutine's commit saves everything.  device and code are what the      *)
(* connection reads; savedDevice and savedCode are what a crash leaves.    *)
(*                                                                         *)
(* A pairing call mints its own device id: the call stands for the device. *)
(***************************************************************************)
EXTENDS Naturals

CONSTANTS
  Codes,      \* pairing codes
  Pairings,   \* calls of POST /auth/pair, and the devices they mint
  Unreadable, \* those whose capabilities have a latency that int() cannot read
  Revokes,    \* calls of DELETE /auth/devices/{id}
  Requests,   \* calls of POST and DELETE /devices/push-token
  Wakes,      \* coroutines in _maybe_send_wake_push
  Endpoints,  \* push endpoints
  NoEndpoint, \* the NULL of push_endpoint; as a request, DELETE
  MaxCrashes  \* bound on the crashes of a behaviour

ASSUME ConstantsAssumption ==
  /\ Codes # {} /\ Pairings # {} /\ Unreadable \subseteq Pairings
  /\ NoEndpoint \notin Endpoints
  /\ {"none", "open"} \cap Pairings = {}
  /\ MaxCrashes \in Nat

States == {"absent", "paired", "revoked"}
Device == [state: States, endpoint: Endpoints \cup {NoEndpoint}]

PairingPhases == {"idle", "checked", "consumed", "inserted", "committed", "done", "refused",
                  "raised", "lost"}
RevokePhases  == {"idle", "updated", "committed", "done", "lost"}
RequestPhases == {"idle", "authorised", "updated", "done", "refused", "lost"}
WakePhases    == {"idle", "posting", "gone", "clearing"}

VARIABLES
  code,        \* pairing_codes: "none", "open", or the call that consumed it
  device,      \* device_tokens
  savedCode, savedDevice,
  expired,     \* codes past their expires_at
  channels,    \* registry: the devices with an output channel
  up,          \* the lifespan function has come to its end
  pairing,     \* where each pairing call is
  with,        \* the code it was made with
  revoke,      \* where each revoke call is
  victim,      \* its device
  request,     \* where each push-token call is
  caller,      \* the device that makes it
  wanted,      \* the endpoint it registers
  wake,        \* where each wake push is
  target,      \* its device
  used,        \* the endpoint that it read
  dead,        \* endpoints for which the distributor answers 410
  \* what happened, for the properties
  overtaken,   \* devices revoked while their pairing call was at work
  crashes

tables   == <<code, device>>
saved    == <<savedCode, savedDevice>>
pairers  == <<pairing, with>>
revokers == <<revoke, victim>>
pushers  == <<request, caller, wanted>>
wakers   == <<wake, target, used>>
vars     == <<tables, saved, expired, channels, up, pairers, revokers, pushers, wakers, dead,
              overtaken, crashes>>

AnyDevice == CHOOSE d \in Pairings : TRUE
AnyCode   == CHOOSE c \in Codes : TRUE

Init ==
  /\ code = [c \in Codes |-> "none"]
  /\ device = [d \in Pairings |-> [state |-> "absent", endpoint |-> NoEndpoint]]
  /\ savedCode = code /\ savedDevice = device
  /\ expired = {}
  /\ channels = {}
  /\ up = TRUE
  /\ pairing = [d \in Pairings |-> "idle"]
  /\ with = [d \in Pairings |-> AnyCode]
  /\ revoke = [k \in Revokes |-> "idle"] /\ victim = [k \in Revokes |-> AnyDevice]
  /\ request = [r \in Requests |-> "idle"] /\ caller = [r \in Requests |-> AnyDevice]
  /\ wanted = [r \in Requests |-> NoEndpoint]
  /\ wake = [w \in Wakes |-> "idle"] /\ target = [w \in Wakes |-> AnyDevice]
  /\ used = [w \in Wakes |-> NoEndpoint]
  /\ dead = {}
  /\ overtaken = {}
  /\ crashes = 0

\* A commit on the shared connection.
Commit == savedCode' = code /\ savedDevice' = device

-----------------------------------------------------------------------------
(* Pairing.  A call that is refused changes nothing.                       *)

\* issue_pairing_code: nobody knows the code before it returns.
IssueCode(c) ==
  /\ code[c] = "none"
  /\ code' = [code EXCEPT ![c] = "open"]
  /\ savedCode' = code' /\ savedDevice' = device
  /\ UNCHANGED <<device, expired, channels, pairers, revokers, pushers, wakers, dead,
                 overtaken, up, crashes>>

CodeExpires(c) ==
  /\ code[c] # "none" /\ c \notin expired
  /\ expired' = expired \cup {c}
  /\ UNCHANGED <<tables, saved, channels, pairers, revokers, pushers, wakers, dead,
                 overtaken, up, crashes>>

\* consume_pairing_code: the SELECT and its three tests.
CheckCode(d, c) ==
  /\ pairing[d] = "idle"
  /\ code[c] = "open" /\ c \notin expired
  /\ pairing' = [pairing EXCEPT ![d] = "checked"]
  /\ with' = [with EXCEPT ![d] = c]
  /\ UNCHANGED <<tables, saved, expired, channels, revokers, pushers, wakers, dead,
                 overtaken, up, crashes>>

\* Slip: the UPDATE lacks "AND consumed_at IS NULL".
ConsumeAgain(d) ==
  /\ pairing[d] = "checked"
  /\ code' = [code EXCEPT ![with[d]] = d]
  /\ pairing' = [pairing EXCEPT ![d] = "consumed"]
  /\ UNCHANGED <<device, saved, expired, channels, with, revokers, pushers, wakers, dead,
                 overtaken, up, crashes>>

\* UPDATE ... WHERE consumed_at IS NULL.
Consume(d) ==
  /\ pairing[d] = "checked" /\ code[with[d]] = "open"
  /\ code' = [code EXCEPT ![with[d]] = d]
  /\ pairing' = [pairing EXCEPT ![d] = "consumed"]
  /\ UNCHANGED <<device, saved, expired, channels, with, revokers, pushers, wakers, dead,
                 overtaken, up, crashes>>

\* Its rowcount is 0: another call took the code.
ConsumeMissed(d) ==
  /\ pairing[d] = "checked" /\ code[with[d]] # "open"
  /\ pairing' = [pairing EXCEPT ![d] = "refused"]
  /\ UNCHANGED <<tables, saved, expired, channels, with, revokers, pushers, wakers, dead,
                 overtaken, up, crashes>>

InsertDevice(d) ==
  /\ pairing[d] = "consumed"
  /\ device' = [device EXCEPT ![d] = [state |-> "paired", endpoint |-> NoEndpoint]]
  /\ pairing' = [pairing EXCEPT ![d] = "inserted"]
  /\ UNCHANGED <<code, saved, expired, channels, with, revokers, pushers, wakers, dead,
                 overtaken, up, crashes>>

CommitPairing(d) ==
  /\ pairing[d] = "inserted"
  /\ Commit
  /\ pairing' = [pairing EXCEPT ![d] = "committed"]
  /\ UNCHANGED <<tables, expired, channels, with, revokers, pushers, wakers, dead,
                 overtaken, up, crashes>>

\* Slip: the channel appears with the next restart only.
AnswerUnregistered(d) ==
  /\ pairing[d] = "committed"
  /\ pairing' = [pairing EXCEPT ![d] = "done"]
  /\ UNCHANGED <<tables, saved, expired, channels, with, revokers, pushers, wakers, dead,
                 overtaken, up, crashes>>

\* register_device_channel, and the answer with the token.
RegisterChannel(d) ==
  /\ pairing[d] = "committed" /\ d \notin Unreadable
  /\ channels' = channels \cup {d}
  /\ pairing' = [pairing EXCEPT ![d] = "done"]
  /\ UNCHANGED <<tables, saved, expired, with, revokers, pushers, wakers, dead,
                 overtaken, up, crashes>>

\* _capabilities_from_dict raises: the caller gets an error, and its code is spent.
RegisterRaises(d) ==
  /\ pairing[d] = "committed" /\ d \in Unreadable
  /\ pairing' = [pairing EXCEPT ![d] = "raised"]
  /\ UNCHANGED <<tables, saved, expired, channels, with, revokers, pushers, wakers, dead,
                 overtaken, up, crashes>>

-----------------------------------------------------------------------------
(* Revocation, by the user, who sees the row in the list of devices, or by *)
(* the device.  A call that finds no such row just commits.                *)

RevokeUpdate(k, d) ==
  /\ revoke[k] = "idle" /\ device[d].state = "paired"
  /\ device' = [device EXCEPT ![d] = [state |-> "revoked", endpoint |-> NoEndpoint]]
  /\ revoke' = [revoke EXCEPT ![k] = "updated"]
  /\ victim' = [victim EXCEPT ![k] = d]
  /\ overtaken' = IF pairing[d] \in {"inserted", "committed"} THEN overtaken \cup {d} ELSE overtaken
  /\ UNCHANGED <<code, saved, expired, channels, pairers, pushers, wakers, dead, up, crashes>>

RevokeCommit(k) ==
  /\ revoke[k] = "updated"
  /\ Commit
  /\ revoke' = [revoke EXCEPT ![k] = "committed"]
  /\ UNCHANGED <<tables, expired, channels, pairers, victim, pushers, wakers, dead,
                 overtaken, up, crashes>>

\* unregister_device_channel, and the answer.
UnregisterChannel(k) ==
  /\ revoke[k] = "committed"
  /\ channels' = channels \ {victim[k]}
  /\ revoke' = [revoke EXCEPT ![k] = "done"]
  /\ UNCHANGED <<tables, saved, expired, pairers, victim, pushers, wakers, dead,
                 overtaken, up, crashes>>

-----------------------------------------------------------------------------
(* Push endpoints.                                                         *)

\* require_auth lets a device in whose row is there and not revoked.
Authorise(r, d, x) ==
  /\ request[r] = "idle" /\ pairing[d] = "done"
  /\ device[d].state = "paired"
  /\ request' = [request EXCEPT ![r] = "authorised"]
  /\ caller' = [caller EXCEPT ![r] = d]
  /\ wanted' = [wanted EXCEPT ![r] = x]
  /\ UNCHANGED <<tables, saved, expired, channels, pairers, revokers, wakers, dead,
                 overtaken, up, crashes>>

\* The column of one row is set.
WithEndpoint(table, d, x) == [table EXCEPT ![d].endpoint = x]

\* set_device_push_endpoint: the UPDATE looks at revoked_at again.  The one of
\* clear_device_push_endpoint does not.
StoreEndpoint(r) ==
  /\ request[r] = "authorised"
  /\ IF device[caller[r]].state = "paired" \/ wanted[r] = NoEndpoint
     THEN /\ device' = WithEndpoint(device, caller[r], wanted[r])
          /\ request' = [request EXCEPT ![r] = "updated"]
     ELSE /\ request' = [request EXCEPT ![r] = "refused"]
          /\ UNCHANGED device
  /\ UNCHANGED <<code, saved, expired, channels, pairers, revokers, caller, wanted, wakers, dead,
                 overtaken, up, crashes>>

CommitEndpoint(r) ==
  /\ request[r] = "updated"
  /\ Commit
  /\ request' = [request EXCEPT ![r] = "done"]
  /\ UNCHANGED <<tables, expired, channels, pairers, revokers, caller, wanted, wakers, dead,
                 overtaken, up, crashes>>

\* _maybe_send_wake_push, when a delivery finds no subscriber: get_device_push_endpoint.
ReadEndpoint(w, d) ==
  /\ wake[w] = "idle"
  /\ device[d].state = "paired" /\ device[d].endpoint # NoEndpoint
  /\ wake' = [wake EXCEPT ![w] = "posting"]
  /\ target' = [target EXCEPT ![w] = d]
  /\ used' = [used EXCEPT ![w] = device[d].endpoint]
  /\ UNCHANGED <<tables, saved, expired, channels, pairers, revokers, pushers, dead,
                 overtaken, up, crashes>>

\* Slip: any failure counts as gone.
PostWakeGone(w) ==
  /\ wake[w] = "posting"
  /\ \E result \in {"idle", "gone"} : wake' = [wake EXCEPT ![w] = result]
  /\ UNCHANGED <<tables, saved, expired, channels, pairers, revokers, pushers, target, used, dead,
                 overtaken, up, crashes>>

\* send_wake_push: "gone" for a 410; "ok" and "error" ask for nothing.
PostWake(w) ==
  /\ wake[w] = "posting"
  /\ \/ wake' = [wake EXCEPT ![w] = "idle"]
     \/ used[w] \in dead /\ wake' = [wake EXCEPT ![w] = "gone"]
  /\ UNCHANGED <<tables, saved, expired, channels, pairers, revokers, pushers, target, used, dead,
                 overtaken, up, crashes>>

\* clear_device_push_endpoint, whatever the row holds by now.
ClearEndpoint(w) ==
  /\ wake[w] = "gone"
  /\ device' = WithEndpoint(device, target[w], NoEndpoint)
  /\ wake' = [wake EXCEPT ![w] = "clearing"]
  /\ UNCHANGED <<code, saved, expired, channels, pairers, revokers, pushers, target, used, dead,
                 overtaken, up, crashes>>

CommitClear(w) ==
  /\ wake[w] = "clearing"
  /\ Commit
  /\ wake' = [wake EXCEPT ![w] = "idle"]
  /\ UNCHANGED <<tables, expired, channels, pairers, revokers, pushers, target, used, dead,
                 overtaken, up, crashes>>

\* The distributor drops a subscription.
Drop(x) ==
  /\ x \notin dead
  /\ dead' = dead \cup {x}
  /\ UNCHANGED <<tables, saved, expired, channels, pairers, revokers, pushers, wakers,
                 overtaken, up, crashes>>

-----------------------------------------------------------------------------
(* The process.                                                            *)

OtherCommit ==
  /\ tables # saved
  /\ Commit
  /\ UNCHANGED <<tables, expired, channels, pairers, revokers, pushers, wakers, dead,
                 overtaken, up, crashes>>

\* install_device_channels.
Installed(rows) == {d \in Pairings : rows[d].state = "paired"}

\* The process dies and starts again; it serves nobody before the lifespan function
\* has installed the channels, and nobody at all when that raises.
Restart ==
  LET Cut(at, kept) == [i \in DOMAIN at |-> IF at[i] \in kept THEN at[i] ELSE "lost"]
  IN  /\ crashes < MaxCrashes
      /\ crashes' = crashes + 1
      /\ code' = savedCode /\ device' = savedDevice
      /\ up' = (Installed(savedDevice) \cap Unreadable = {})
      /\ channels' = IF up' THEN Installed(savedDevice) ELSE {}
      /\ pairing' = Cut(pairing, {"idle", "done", "refused", "raised"})
      /\ revoke' = Cut(revoke, {"idle", "done"})
      /\ request' = Cut(request, {"idle", "done", "refused"})
      /\ wake' = [w \in Wakes |-> "idle"]
      /\ overtaken' = {}
      /\ UNCHANGED <<saved, expired, with, victim, caller, wanted, target, used, dead>>

-----------------------------------------------------------------------------
PairingStep(d) ==
  \/ \E c \in Codes : CheckCode(d, c)
  \/ Consume(d) \/ ConsumeMissed(d) \/ InsertDevice(d) \/ CommitPairing(d)
  \/ RegisterChannel(d) \/ RegisterRaises(d)

RevokeStep(k) ==
  \/ \E d \in Pairings : RevokeUpdate(k, d)
  \/ RevokeCommit(k) \/ UnregisterChannel(k)

PushStep ==
  \/ \E r \in Requests :
       \/ \E d \in Pairings, x \in Endpoints \cup {NoEndpoint} : Authorise(r, d, x)
       \/ StoreEndpoint(r) \/ CommitEndpoint(r)
  \/ \E w \in Wakes :
       \/ \E d \in Pairings : ReadEndpoint(w, d)
       \/ PostWake(w) \/ ClearEndpoint(w) \/ CommitClear(w)
  \/ \E x \in Endpoints : Drop(x)

Next ==
  /\ up
  /\ \/ \E c \in Codes : IssueCode(c) \/ CodeExpires(c)
     \/ \E d \in Pairings : PairingStep(d)
     \/ \E k \in Revokes : RevokeStep(k)
     \/ PushStep
     \/ OtherCommit
     \/ Restart

Spec == Init /\ [][Next]_vars

-----------------------------------------------------------------------------
(* Properties                                                              *)

TypeOK ==
  /\ code \in [Codes -> {"none", "open"} \cup Pairings]
  /\ savedCode \in [Codes -> {"none", "open"} \cup Pairings]
  /\ device \in [Pairings -> Device] /\ savedDevice \in [Pairings -> Device]
  /\ expired \subseteq Codes
  /\ channels \subseteq Pairings /\ up \in BOOLEAN
  /\ pairing \in [Pairings -> PairingPhases] /\ with \in [Pairings -> Codes]
  /\ revoke \in [Revokes -> RevokePhases] /\ victim \in [Revokes -> Pairings]
  /\ request \in [Requests -> RequestPhases] /\ caller \in [Requests -> Pairings]
  /\ wanted \in [Requests -> Endpoints \cup {NoEndpoint}]
  /\ wake \in [Wakes -> WakePhases] /\ target \in [Wakes -> Pairings]
  /\ used \in [Wakes -> Endpoints \cup {NoEndpoint}]
  /\ dead \subseteq Endpoints
  /\ overtaken \subseteq Pairings
  /\ crashes \in 0..MaxCrashes

\* A code pairs one device, whatever calls race for it and wherever the process dies
\* between the UPDATE, the INSERT and the commit ("exactly one wins",
\* consume_pairing_code).
CodePairsOnce ==
  \A d, e \in Pairings :
    /\ d # e
    /\ device[d].state # "absent" /\ device[e].state # "absent"
    => with[d] # with[e]

\* What a route answered holds after any crash: a device that has its token exists,
\* and a revoked device never gets in again.
AnsweredIsDurable ==
  /\ \A d \in Pairings : pairing[d] = "done" => savedDevice[d].state # "absent"
  /\ \A k \in Revokes : revoke[k] = "done" =>
       device[victim[k]].state = "revoked" /\ savedDevice[victim[k]].state = "revoked"

\* The router can reach every device that holds a token, before and after a restart
\* that came to serve.
PairedIsReachable ==
  \A d \in Pairings :
    up /\ pairing[d] = "done" /\ device[d].state = "paired" => d \in channels

\* "The router stops dispatching to a device that can no longer authenticate"
\* (outputs/channels/devices.py): a channel of a revoked device is about to be
\* unregistered, or the revocation overtook the pairing call, which registers the
\* channel afterwards; no restart brings one back.
RevokedIsUnreachable ==
  \A d \in channels : device[d].state = "revoked" =>
    \/ d \in overtaken
    \/ \E k \in Revokes : victim[k] = d /\ revoke[k] \in {"updated", "committed"}

\* A revoked device has no endpoint to wake, though a call that was authorised before
\* the revocation may store one after it.
RevokedHasNoEndpoint ==
  \A d \in Pairings :
    /\ device[d].state = "revoked" => device[d].endpoint = NoEndpoint
    /\ savedDevice[d].state = "revoked" => savedDevice[d].endpoint = NoEndpoint

\* An endpoint of a paired device goes away because the device says so, or because
\* a distributor answered 410, never on a transient failure (send_wake_push).
TransientFailureKeepsEndpoint ==
  [][\A d \in Pairings :
       /\ device[d].endpoint # NoEndpoint
       /\ device'[d].endpoint = NoEndpoint /\ device'[d].state = "paired"
       /\ crashes' = crashes
       => \/ \E r \in Requests : caller[r] = d /\ wanted[r] = NoEndpoint /\ request[r] = "authorised"
          \/ \E w \in Wakes : target[w] = d /\ used[w] \in dead]_vars

\* What can be reached follows the pairing: every paired device has its channel, a
\* revoked one loses channel and endpoint, whichever calls overtake one another.
ReachFollowsPairing == PairedIsReachable /\ RevokedIsUnreachable /\ RevokedHasNoEndpoint
=============================================================================
