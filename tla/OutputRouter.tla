----------------------------- MODULE OutputRouter -----------------------------
(***************************************************************************)
(* Output routing: route (outputs/router.py), which every emission awaits, *)
(* the seeding of its rule table, the rule proposals that it records when  *)
(* the LLM picks the channels, and their review (routes/outputs.py).       *)
(*                                                                         *)
(* The table is read in the order of the positions: the ladder (10 to 90), *)
(* then the promoted rules (100), then the overrides (200, 210).  The      *)
(* defaults are inserted in that order, so a seeder's rows are a prefix:   *)
(* seeded[e] is its length.  Rows of two seeders repeat each other.        *)
(***************************************************************************)
EXTENDS Naturals, Sequences

CONSTANTS
  Emissions,    \* calls of emit_output
  Kinds,        \* the events emitted: [category, urgency, private, actions]
  Picks,        \* sets of channels that the LLM may answer
  Reviews,      \* calls of POST /rule-proposals/{id}/accept or DELETE /rule-proposals/{id}
  Stops,        \* lengths of a seeder's prefix at which another coroutine may run
  MaxProposals, \* bound on the rows of output_rule_proposals
  MaxCrashes    \* bound on the crashes of a behaviour

Builtins == {"web_toast", "web_persistent", "digest"}
Device   == "device"
Channels == Builtins \cup {Device}

ASSUME ConstantsAssumption ==
  /\ Picks \subseteq SUBSET Channels
  /\ Stops \subseteq 1..11 /\ {1, 11} \subseteq Stops
  /\ MaxProposals \in Nat /\ MaxCrashes \in Nat

Rule(category, urgency, channels) ==
  [category |-> category, urgency |-> urgency, state |-> "any", channels |-> channels,
   exempt |-> {}]

\* Rules that replace the channels, in a state of the user, of all but exempt urgencies.
Override(state, channels, exempt) ==
  [category |-> "any", urgency |-> "any", state |-> state, channels |-> channels,
   exempt |-> exempt]

\* DEFAULT_RULES at positions 10 to 90.
Ladder == <<
  Rule("any", "urgent", {"all_available"}),
  Rule("intervention", "persistent", {"web_persistent", "web_toast"}),
  Rule("permission_request", "any", {"web_toast"}),
  Rule("completion", "any", {"web_toast"}),
  Rule("reminder", "any", {"web_persistent"}),
  Rule("alert", "any", {"web_toast", "web_persistent"}),
  Rule("status", "any", {"digest"}),
  Rule("progress", "any", {"web_toast"}),
  Rule("query", "any", {"web_toast"}) >>

\* Slip: the override of do_not_disturb exempts nothing.
OverrideAll == << Override("do_not_disturb", {"digest"}, {}),
                  Override("asleep", {"digest"}, {"urgent"}) >>

\* At 200 and 210.  No provider of user_state.py ever reports "asleep".
Overrides == << Override("do_not_disturb", {"digest"}, {"urgent"}),
                Override("asleep", {"digest"}, {"urgent"}) >>

Defaults == Len(Ladder) + Len(Overrides)

Topic(k) == <<k.category, k.urgency>>

VARIABLES
  seeded,      \* default rules that each emission has inserted
  promoted,    \* promoted rules: the proposals they were promoted from
  proposals,   \* output_rule_proposals
  saved,       \* what a crash leaves of the three tables
  registry,    \* the channels installed
  dnd,         \* the user setting do_not_disturb
  phase,       \* where each emission is
  event,       \* what it emits
  quiet,       \* the do_not_disturb it read
  found,       \* how many default and promoted rules it loaded
  base,        \* the channels chosen so far
  row,         \* the proposal it found, or 0
  dispatched,  \* the decision
  review,      \* where each review is
  subject,     \* the proposal that it accepts or dismisses
  \* what happened, for the properties
  since,       \* emissions throughout which do_not_disturb was on
  acked,       \* topics of the proposals whose acceptance was acknowledged
  overlapped,  \* proposals that two accepts had read, or a crash caught between
  twins,       \* kinds for which two emissions looked for a proposal at once
  crashes

tables   == <<seeded, promoted, proposals>>
world    == <<registry, dnd>>
routing  == <<phase, event, quiet, found, base, row, dispatched>>
reviews  == <<review, subject>>
history  == <<since, acked, overlapped, twins, crashes>>
vars     == <<tables, saved, world, routing, reviews, history>>

AnyKind == CHOOSE k \in Kinds : TRUE

Init ==
  /\ seeded = [e \in Emissions |-> 0]
  /\ promoted = <<>> /\ proposals = <<>>
  /\ saved = [seeded |-> seeded, promoted |-> <<>>, proposals |-> <<>>]
  /\ registry = Channels
  /\ dnd \in BOOLEAN
  /\ phase = [e \in Emissions |-> "idle"]
  /\ event = [e \in Emissions |-> AnyKind]
  /\ quiet = [e \in Emissions |-> FALSE]
  /\ found = [e \in Emissions |-> <<0, 0>>]
  /\ base = [e \in Emissions |-> {}]
  /\ row = [e \in Emissions |-> 0]
  /\ dispatched = [e \in Emissions |-> {}]
  /\ review = [r \in Reviews |-> "idle"]
  /\ subject = [r \in Reviews |-> 0]
  /\ since = {} /\ acked = {} /\ overlapped = {} /\ twins = {}
  /\ crashes = 0

\* A commit on the shared connection.
Commit == saved' = [seeded |-> seeded, promoted |-> promoted, proposals |-> proposals]

\* The local variables of coroutines that end.
Forget(E) ==
  /\ quiet' = [e \in Emissions |-> e \notin E /\ quiet[e]]
  /\ found' = [e \in Emissions |-> IF e \in E THEN <<0, 0>> ELSE found[e]]
  /\ base' = [e \in Emissions |-> IF e \in E THEN {} ELSE base[e]]
  /\ row' = [e \in Emissions |-> IF e \in E THEN 0 ELSE row[e]]
  /\ since' = since \ E

Move(e, from, to) == phase[e] = from /\ phase' = [phase EXCEPT ![e] = to]

-----------------------------------------------------------------------------
(* The rule table.                                                         *)

\* The longest prefix of the defaults in the table.
InTable(s) == CHOOSE n \in {s[e] : e \in Emissions} : \A e \in Emissions : s[e] <= n

Prefix(s, n) == SubSeq(s, 1, IF n < Len(s) THEN n ELSE Len(s))

PromotedRule(p) == Rule(proposals[p].topic[1], proposals[p].topic[2], proposals[p].channels)

\* load_rules: the rows in the order of their positions.
RulesFound(n, m) ==
  Prefix(Ladder, n) \o [i \in 1..m |-> PromotedRule(promoted[i])]
  \o Prefix(Overrides, IF n < Len(Ladder) THEN 0 ELSE n - Len(Ladder))

\* _match_rule; do_not_disturb is the one flag of a rule that a provider reports.
Matches(rule, k, inDnd) ==
  /\ rule.category \in {"any", k.category}
  /\ rule.urgency \in {"any", k.urgency}
  /\ rule.state = "any" \/ (rule.state = "do_not_disturb" /\ inDnd)

IsOverride(rule) == rule.state # "any"

Named(channels) == IF channels = {"all_available"} THEN registry ELSE channels

\* The first rule that matches and is no override.
Base(rules, k, inDnd) ==
  LET hits == {i \in DOMAIN rules : Matches(rules[i], k, inDnd) /\ ~IsOverride(rules[i])}
  IN  IF hits = {} THEN {}
      ELSE Named(rules[CHOOSE i \in hits : \A j \in hits : i <= j].channels)

\* Slip: an override applies only to an event that no other rule matched.
OverriddenUnmatched(rules, k, inDnd, chosen) ==
  IF inDnd /\ chosen = {"digest"} THEN {"digest"} ELSE chosen

\* The last override that matches and does not exempt the urgency, if there is one.
Overridden(rules, k, inDnd, chosen) ==
  LET hits == {i \in DOMAIN rules : /\ Matches(rules[i], k, inDnd) /\ IsOverride(rules[i])
                                    /\ k.urgency \notin rules[i].exempt}
  IN  IF hits = {} THEN chosen
      ELSE Named(rules[CHOOSE i \in hits : \A j \in hits : j <= i].channels)

\* can_deliver of a registered channel.  None of them has a rate limit.
CanDeliver(c, k) == CASE c = "digest" -> ~k.actions
                      [] c = Device   -> ~k.private
                      [] OTHER        -> TRUE

\* Filter, and fall back, given the channels that the router sees.
Final(chosen, k, available) ==
  LET able == {c \in chosen \cap available : CanDeliver(c, k)}
  IN  IF able # {} THEN able
      ELSE IF k.urgency = "urgent" /\ "web_toast" \in available THEN {"web_toast"}
      ELSE {"digest"} \cap available

-----------------------------------------------------------------------------
(* route, for one emission.                                                *)

\* _decide_route reads the state of the user before anything else.
Begin(e, k) ==
  /\ Move(e, "idle", "loading")
  /\ event' = [event EXCEPT ![e] = k]
  /\ quiet' = [quiet EXCEPT ![e] = dnd]
  /\ since' = IF dnd THEN since \cup {e} ELSE since
  /\ UNCHANGED <<tables, saved, world, found, base, row, dispatched, reviews, acked, overlapped, twins, crashes>>

\* is_expired.
Expire(e) ==
  /\ Move(e, "loading", "expired")
  /\ UNCHANGED <<tables, saved, world, event, quiet, found, base, row, dispatched, reviews,
                 history>>

\* The rules are read: the channels of the first that matches, or none.
Loaded(e) ==
  LET n == InTable(seeded)  m == Len(promoted)
      chosen == Base(RulesFound(n, m), event[e], quiet[e])
  IN  /\ found' = [found EXCEPT ![e] = <<n, m>>]
      /\ base' = [base EXCEPT ![e] = chosen]
      /\ phase' = [phase EXCEPT ![e] = IF chosen = {} THEN "asking" ELSE "filtering"]

LoadRules(e) ==
  /\ phase[e] = "loading"
  /\ InTable(seeded) > 0 \/ promoted # <<>>
  /\ Loaded(e)
  /\ UNCHANGED <<tables, saved, world, event, quiet, row, dispatched, reviews, since,
                 acked, overlapped, twins, crashes>>

\* The table is empty.
StartSeeding(e) ==
  /\ InTable(seeded) = 0 /\ promoted = <<>>
  /\ Move(e, "loading", "seeding")
  /\ UNCHANGED <<tables, saved, world, event, quiet, found, base, row, dispatched, reviews,
                 history>>

\* seed_default_rules: the INSERTs up to the next one at which another coroutine runs.
SeedRule(e) ==
  /\ phase[e] = "seeding"
  /\ \E n \in Stops : /\ n > seeded[e] /\ \A i \in Stops : i > seeded[e] => n <= i
                     /\ seeded' = [seeded EXCEPT ![e] = n]
  /\ UNCHANGED <<promoted, proposals, saved, world, routing, reviews, history>>

SeedCommit(e) ==
  /\ seeded[e] = Defaults
  /\ Move(e, "seeding", "reloading")
  /\ Commit
  /\ UNCHANGED <<tables, world, event, quiet, found, base, row, dispatched, reviews, since,
                 acked, overlapped, twins, crashes>>

Reload(e) ==
  /\ phase[e] = "reloading"
  /\ Loaded(e)
  /\ UNCHANGED <<tables, saved, world, event, quiet, row, dispatched, reviews, since,
                 acked, overlapped, twins, crashes>>

\* _llm_pick_channels: switched off, unreachable or unusable (None).
NoPick(e) ==
  /\ Move(e, "asking", "filtering")
  /\ base' = [base EXCEPT ![e] = {"digest"}]
  /\ UNCHANGED <<tables, saved, world, event, quiet, found, row, dispatched, reviews, history>>

\* It answers channels that were installed when it was asked; none means the digest.
Pick(e, p) ==
  /\ Move(e, "asking", "recording")
  /\ p \subseteq registry
  /\ base' = [base EXCEPT ![e] = IF p = {} THEN {"digest"} ELSE p]
  /\ UNCHANGED <<tables, saved, world, event, quiet, found, row, dispatched, reviews, history>>

\* The proposals pending for a topic and channels.
Pending(topic, channels) ==
  {p \in DOMAIN proposals : /\ proposals[p].topic = topic /\ proposals[p].channels = channels
                            /\ ~proposals[p].accepted /\ ~proposals[p].dismissed}

Looking(e) == {f \in Emissions \ {e} : /\ phase[f] = "writing" /\ row[f] = 0
                                       /\ Topic(event[f]) = Topic(event[e])}

\* _record_rule_proposal: the SELECT.
FindProposal(e) ==
  LET rows == Pending(Topic(event[e]), base[e])
  IN  /\ Move(e, "recording", "writing")
      /\ row' = [row EXCEPT ![e] =
                   IF rows = {} THEN 0 ELSE CHOOSE p \in rows : \A q \in rows : p <= q]
      /\ twins' = IF Looking(e) = {} THEN twins ELSE twins \cup {Topic(event[e])}
      /\ UNCHANGED <<tables, saved, world, event, quiet, found, base, dispatched, reviews,
                     since, acked, overlapped, crashes>>

CountHit(e) ==
  /\ Move(e, "writing", "committing") /\ row[e] # 0
  /\ proposals' = [proposals EXCEPT ![row[e]].hits = @ + 1]
  /\ UNCHANGED <<seeded, promoted, saved, world, event, quiet, found, base, row, dispatched,
                 reviews, history>>

InsertProposal(e) ==
  /\ Move(e, "writing", "committing") /\ row[e] = 0
  /\ Len(proposals) < MaxProposals
  /\ proposals' = Append(proposals, [topic |-> Topic(event[e]), channels |-> base[e],
                                     hits |-> 1, accepted |-> FALSE, dismissed |-> FALSE])
  /\ UNCHANGED <<seeded, promoted, saved, world, event, quiet, found, base, row, dispatched,
                 reviews, history>>

CommitProposal(e) ==
  /\ Move(e, "committing", "filtering")
  /\ Commit
  /\ UNCHANGED <<tables, world, event, quiet, found, base, row, dispatched, reviews, history>>

\* Whatever it raises is swallowed; a statement executed before stays, uncommitted.
RecordFails(e) ==
  /\ phase[e] \in {"recording", "writing", "committing"}
  /\ phase' = [phase EXCEPT ![e] = "filtering"]
  /\ UNCHANGED <<tables, saved, world, event, quiet, found, base, row, dispatched, reviews,
                 history>>

\* The overrides of the rules loaded, the filter and the fallback.
Filter(e) ==
  LET rules == RulesFound(found[e][1], found[e][2])
  IN  /\ Move(e, "filtering", "decided")
      /\ dispatched' = [dispatched EXCEPT ![e] =
           Final(Overridden(rules, event[e], quiet[e], base[e]), event[e], registry)]
      /\ Forget({e})
      /\ UNCHANGED <<tables, saved, world, event, reviews, acked, overlapped, twins,
                     crashes>>

-----------------------------------------------------------------------------
(* Reviews of proposals.                                                   *)

MoveReview(r, from, to) == review[r] = from /\ review' = [review EXCEPT ![r] = to]

\* Accepts between their SELECT and their COMMIT.
Accepting(p) == {r \in Reviews : subject[r] = p /\ review[r] \in {"read", "inserted", "marked"}}

\* Slip: an accepted proposal is not refused.
AcceptAgain(r, p) ==
  /\ MoveReview(r, "idle", "read")
  /\ subject' = [subject EXCEPT ![r] = p]
  /\ overlapped' = IF Accepting(p) = {} THEN overlapped ELSE overlapped \cup {p}
  /\ UNCHANGED <<tables, saved, world, routing, since, acked, twins, crashes>>

\* One that was dismissed is not refused, only one that was accepted.
AcceptRead(r, p) ==
  /\ MoveReview(r, "idle", IF proposals[p].accepted THEN "refused" ELSE "read")
  /\ subject' = [subject EXCEPT ![r] = p]
  /\ overlapped' = IF Accepting(p) = {} THEN overlapped ELSE overlapped \cup {p}
  /\ UNCHANGED <<tables, saved, world, routing, since, acked, twins,
                 crashes>>

AcceptInsert(r) ==
  /\ MoveReview(r, "read", "inserted")
  /\ promoted' = Append(promoted, subject[r])
  /\ UNCHANGED <<seeded, proposals, saved, world, routing, subject, history>>

AcceptMark(r) ==
  /\ MoveReview(r, "inserted", "marked")
  /\ proposals' = [proposals EXCEPT ![subject[r]].accepted = TRUE]
  /\ UNCHANGED <<seeded, promoted, saved, world, routing, subject, history>>

\* Slip: the answer is sent before the commit.
AcceptUnsaved(r) ==
  /\ MoveReview(r, "marked", "ok")
  /\ acked' = acked \cup {proposals[subject[r]].topic}
  /\ UNCHANGED <<tables, saved, world, routing, subject, since,
                 overlapped, twins, crashes>>

AcceptCommit(r) ==
  /\ MoveReview(r, "marked", "ok")
  /\ Commit
  /\ acked' = acked \cup {proposals[subject[r]].topic}
  /\ UNCHANGED <<tables, world, routing, subject, since,
                 overlapped, twins, crashes>>

\* The row exists: rows are never deleted.  It may be one that was accepted.
DismissMark(r, p) ==
  /\ MoveReview(r, "idle", "dismissed")
  /\ subject' = [subject EXCEPT ![r] = p]
  /\ proposals' = [proposals EXCEPT ![p].dismissed = TRUE]
  /\ UNCHANGED <<seeded, promoted, saved, world, routing, history>>

DismissCommit(r) ==
  /\ MoveReview(r, "dismissed", "ok")
  /\ Commit
  /\ UNCHANGED <<tables, world, routing, subject, history>>

-----------------------------------------------------------------------------
(* The rest of the system.                                                 *)

\* The user sets do_not_disturb.
SetQuiet ==
  /\ dnd' = ~dnd
  /\ since' = {}
  /\ UNCHANGED <<tables, saved, registry, routing, reviews, acked, overlapped,
                 twins, crashes>>

\* The device is revoked.
RevokeDevice ==
  /\ registry' = registry \ {Device} /\ Device \in registry
  /\ UNCHANGED <<tables, saved, dnd, routing, reviews, history>>

OtherCommit ==
  /\ Commit
  /\ saved' # saved
  /\ UNCHANGED <<tables, world, routing, reviews, history>>

Crash ==
  /\ crashes < MaxCrashes
  /\ crashes' = crashes + 1
  /\ seeded' = saved.seeded /\ promoted' = saved.promoted /\ proposals' = saved.proposals
  /\ phase' = [e \in Emissions |-> IF phase[e] \in {"idle", "decided", "expired"}
                                   THEN phase[e] ELSE "lost"]
  /\ review' = [r \in Reviews |-> IF review[r] \in {"idle", "ok", "refused"}
                                  THEN review[r] ELSE "lost"]
  /\ overlapped' = overlapped \cup {subject[r] : r \in {q \in Reviews : review[q] \in {"inserted", "marked"}}}
  /\ Forget(Emissions)
  /\ UNCHANGED <<saved, world, event, dispatched, subject, acked, twins>>

RouteStep(e) ==
  \/ \E k \in Kinds : Begin(e, k)
  \/ Expire(e) \/ LoadRules(e) \/ StartSeeding(e) \/ SeedRule(e) \/ SeedCommit(e) \/ Reload(e)
  \/ NoPick(e) \/ (\E p \in Picks : Pick(e, p))
  \/ FindProposal(e) \/ CountHit(e) \/ InsertProposal(e) \/ CommitProposal(e) \/ RecordFails(e)
  \/ Filter(e)

ReviewStep(r) ==
  \/ \E p \in DOMAIN proposals : AcceptRead(r, p) \/ DismissMark(r, p)
  \/ AcceptInsert(r) \/ AcceptMark(r) \/ AcceptCommit(r) \/ DismissCommit(r)

Next ==
  \/ \E e \in Emissions : RouteStep(e)
  \/ \E r \in Reviews : ReviewStep(r)
  \/ SetQuiet \/ RevokeDevice \/ OtherCommit \/ Crash

Spec == Init /\ [][Next]_vars

-----------------------------------------------------------------------------
(* Properties.                                                             *)

\* Every decision names a channel, and that on an urgent event one besides the digest,
\* whatever part of the table was loaded, whatever was promoted and whatever the filters
\* drop.
UrgentIsSeen ==
  \A e \in Emissions : phase[e] = "decided" =>
    /\ dispatched[e] # {}
    /\ event[e].urgency = "urgent" => dispatched[e] \ {"digest"} # {}

\* While do_not_disturb is on from the start of an emission to its decision, an event that
\* is not urgent reaches the digest alone, unless the rules were read in the middle of a
\* seeding, or of one that a crash cut short.
QuietIsKept ==
  [][\A e \in Emissions :
       /\ phase[e] = "filtering" /\ phase'[e] = "decided"
       /\ e \in since /\ event[e].urgency # "urgent" /\ found[e][1] > Len(Ladder)
       => dispatched'[e] = {"digest"}]_vars

\* After an acceptance was acknowledged, no event of its topic is left to the LLM.
PromotionIsKept ==
  [][\A e \in Emissions : phase[e] \in {"loading", "reloading"} /\ phase'[e] = "asking"
       => Topic(event[e]) \notin acked]_vars

\* A proposal is promoted to one rule, and a topic and channels have one pending proposal,
\* unless two accepts, or two searches, overlapped or a crash came between.
TwiceHasACause ==
  /\ \A i, j \in DOMAIN promoted :
       i # j /\ promoted[i] = promoted[j] => promoted[i] \in overlapped
  /\ \A p \in DOMAIN proposals : \A q \in Pending(proposals[p].topic, proposals[p].channels) :
       p < q /\ ~proposals[p].accepted /\ ~proposals[p].dismissed => proposals[p].topic \in twins
=============================================================================
