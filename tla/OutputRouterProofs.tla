-------------------------- MODULE OutputRouterProofs --------------------------
(***************************************************************************)
(* The properties of OutputRouter, for any emissions, kinds of events,     *)
(* answers of the LLM, reviews, lengths of the prefixes at which a seeder  *)
(* can be interrupted, proposals and crashes.                              *)
(***************************************************************************)
EXTENDS OutputRouter, SequenceTheorems, WellFoundedInduction, TLAPS

\* A row of output_rule_proposals, and the phases of an emission and of a review.
Proposals    == [topic : {Topic(k) : k \in Kinds}, channels : SUBSET Channels, hits : Nat,
                 accepted : BOOLEAN, dismissed : BOOLEAN]
RoutePhases  == {"idle", "loading", "expired", "seeding", "reloading", "asking", "recording",
                 "writing", "committing", "filtering", "decided", "lost"}
ReviewPhases == {"idle", "read", "refused", "inserted", "marked", "dismissed", "ok", "lost"}

\* What holds of the three tables, committed or not: a promoted rule was a proposal, and there is
\* a proposal only when the defaults are there, or some of them.
TablesOK(rows, rules, asked) ==
  /\ rows \in [Emissions -> 0..11]
  /\ asked \in Seq(Proposals) /\ rules \in Seq(Nat)
  /\ \A i \in 1..Len(rules) : rules[i] \in 1..Len(asked)
  /\ \A p \in 1..Len(asked) : asked[p].channels # {}
  /\ asked # <<>> => \E e \in Emissions : rows[e] > 0

TablesTyped ==
  TablesOK(seeded, promoted, proposals) /\ TablesOK(saved.seeded, saved.promoted, saved.proposals)

RouteTyped ==
  /\ registry \subseteq Channels /\ Builtins \subseteq registry /\ dnd \in BOOLEAN
  /\ phase \in [Emissions -> RoutePhases]
  /\ event \in [Emissions -> Kinds \cup {AnyKind}]
  /\ quiet \in [Emissions -> BOOLEAN] /\ found \in [Emissions -> (0..11) \X Nat]
  /\ base \in [Emissions -> SUBSET Channels] /\ row \in [Emissions -> Nat]
  /\ dispatched \in [Emissions -> SUBSET Channels]
  /\ since \subseteq Emissions

ReviewTyped == review \in [Reviews -> ReviewPhases] /\ subject \in [Reviews -> Nat]

RouterTypeOK == TablesTyped /\ RouteTyped /\ ReviewTyped

\* Where an emission is tells what it loaded: a part of the defaults at least, and for an urgent
\* event the channels of the first of them.
EmissionOK(e) ==
  /\ IF phase[e] = "idle" THEN e \notin since ELSE event[e] \in Kinds
  /\ phase[e] = "reloading" => seeded[e] = 11
  /\ phase[e] \in {"asking", "recording", "writing", "committing", "filtering"} =>
       found[e][1] > 0 /\ \E f \in Emissions : seeded[f] > 0
  /\ phase[e] \in {"asking", "recording", "writing", "committing"} => event[e].urgency # "urgent"
  /\ phase[e] \in {"recording", "writing"} => base[e] # {}
  /\ phase[e] = "writing" => row[e] = 0 \/ row[e] \in 1..Len(proposals)
  /\ phase[e] = "filtering" /\ event[e].urgency = "urgent" => Builtins \subseteq base[e]
  /\ phase[e] = "decided" =>
       dispatched[e] # {} /\ (event[e].urgency = "urgent" => dispatched[e] \ {"digest"} # {})
  /\ e \in since => quiet[e]

\* A review is of a proposal, and from its INSERT on the proposal has a rule.
ReviewOK(r) ==
  /\ review[r] \in {"read", "inserted", "marked", "dismissed"} => subject[r] \in 1..Len(proposals)
  /\ review[r] \in {"inserted", "marked"} => \E i \in 1..Len(promoted) : promoted[i] = subject[r]

\* An acknowledged acceptance is in the table, and in what a crash leaves of it.
AckedOK ==
  \A t \in acked :
    /\ \E i \in 1..Len(promoted) : proposals[promoted[i]].topic = t
    /\ \E i \in 1..Len(saved.promoted) : saved.proposals[saved.promoted[i]].topic = t

\* A proposal that no two accepts had, and no crash caught: it is promoted once, by the accept
\* that is about to mark it or that did.
OnceOK(p) ==
  /\ \A r, q \in Reviews :
       subject[r] = p /\ subject[q] = p /\ review[r] \in {"read", "inserted", "marked"}
         /\ review[q] \in {"read", "inserted", "marked"} => r = q
  /\ \A i, j \in 1..Len(promoted) : promoted[i] = p /\ promoted[j] = p => i = j
  /\ \A i, j \in 1..Len(saved.promoted) : saved.promoted[i] = p /\ saved.promoted[j] = p => i = j
  /\ \A i \in 1..Len(promoted) : promoted[i] = p =>
       \/ proposals[p].accepted
       \/ \E r \in Reviews : subject[r] = p /\ review[r] = "inserted"
  /\ \A i \in 1..Len(saved.promoted) : saved.promoted[i] = p =>
       \/ saved.proposals[p].accepted
       \/ \E r \in Reviews : subject[r] = p /\ review[r] \in {"inserted", "marked"}
  /\ \A r \in Reviews : subject[r] = p /\ review[r] = "read" =>
       \A i \in 1..Len(promoted) : promoted[i] # p

Open(asked, p) == ~asked[p].accepted /\ ~asked[p].dismissed

\* One pending proposal for a topic and channels.
Single(asked, t) ==
  \A p, q \in 1..Len(asked) :
    /\ Open(asked, p) /\ Open(asked, q) /\ asked[p].topic = t /\ asked[q].topic = t
    /\ asked[p].channels = asked[q].channels
    => p = q

\* A topic for which no two emissions looked at once: an emission that is about to insert a
\* proposal is the only one, and there is none for its channels.
TopicOK(t) ==
  /\ Single(proposals, t) /\ Single(saved.proposals, t)
  /\ \A e \in Emissions : phase[e] = "writing" /\ row[e] = 0 /\ Topic(event[e]) = t =>
       Looking(e) = {} /\ Pending(t, base[e]) = {}

RouterInv ==
  /\ RouterTypeOK /\ AckedOK
  /\ \A e \in Emissions : EmissionOK(e)
  /\ \A r \in Reviews : ReviewOK(r)
  /\ \A p \in Nat : p \notin overlapped => OnceOK(p)
  /\ \A t : t \notin twins => TopicOK(t)

-----------------------------------------------------------------------------
(* Least and greatest numbers.                                             *)

LEMMA LeastNumber ==
  ASSUME NEW S \in SUBSET Nat, S # {}
  PROVE  \E i \in S : \A j \in S : i <= j
<1> DEFINE Less == OpToRel(<, Nat)
<1>1. IsWellFoundedOn(Less, Nat)
  BY NatLessThanWellFounded
<1>2. \A x, y \in Nat : x < y => <<x, y>> \in Less
  BY DEF OpToRel
<1> HIDE DEF Less
<1>3. PICK i \in S : \A j \in S : <<j, i>> \notin Less
  BY <1>1, WFMin
<1>4. ASSUME NEW j \in S PROVE i <= j
  <2>1. i \in Nat /\ j \in Nat /\ ~ j < i
    BY <1>2, <1>3
  <2> QED BY <2>1
<1> QED BY <1>4

LEMMA GreatestNumber ==
  ASSUME NEW n \in Nat, NEW S \in SUBSET (0..n), S # {}
  PROVE  \E i \in S : \A j \in S : j <= i
<1> DEFINE Rest == {n - j : j \in S}
<1>1. Rest \in SUBSET Nat /\ Rest # {}
  <2>1. \A j \in 0..n : n - j \in Nat
    OBVIOUS
  <2>2. \A j \in S : n - j \in Nat
    BY <2>1
  <2> QED BY <2>2
<1>2. PICK k \in Rest : \A j \in Rest : k <= j
  <2> HIDE DEF Rest
  <2> QED BY <1>1, LeastNumber
<1>3. PICK i \in S : k = n - i
  BY <1>2
<1>4. ASSUME NEW j \in S PROVE j <= i
  <2>1. k <= n - j
    BY <1>2
  <2> QED BY <1>3, <2>1
<1> QED BY <1>4

\* The table has as many of the defaults as the seeder that got furthest inserted.
LEMMA TheTable ==
  ASSUME NEW s \in [Emissions -> 0..11], NEW e \in Emissions
  PROVE  /\ InTable(s) \in 0..11 /\ \A f \in Emissions : s[f] <= InTable(s)
         /\ InTable(s) > 0 <=> \E f \in Emissions : s[f] > 0
<1> DEFINE R == {s[f] : f \in Emissions}
<1>1. R \in SUBSET (0..11) /\ R # {}
  OBVIOUS
<1>2. \E n \in R : \A f \in Emissions : s[f] <= n
  <2>1. \E n \in R : \A j \in R : j <= n
    <3> HIDE DEF R
    <3> QED BY <1>1, GreatestNumber
  <2> QED BY <2>1
<1>3. InTable(s) \in R /\ \A f \in Emissions : s[f] <= InTable(s)
  BY <1>2 DEF InTable
<1>4. InTable(s) \in 0..11
  BY <1>1, <1>3
<1>5. InTable(s) > 0 => \E f \in Emissions : s[f] > 0
  BY <1>3
<1>6. (\E f \in Emissions : s[f] > 0) => InTable(s) > 0
  BY <1>3, <1>4
<1> QED BY <1>3, <1>4, <1>5, <1>6

-----------------------------------------------------------------------------
(* The rules.                                                              *)

LEMMA FunctionIsSeq ==
  ASSUME NEW n \in Nat, NEW S, NEW q \in [1..n -> S]
  PROVE  q \in Seq(S)
OBVIOUS

LEMMA PrefixOfSeq ==
  ASSUME NEW S, NEW s \in Seq(S), NEW n \in Nat
  PROVE  /\ Prefix(s, n) \in Seq(S)
         /\ Len(Prefix(s, n)) = IF n < Len(s) THEN n ELSE Len(s)
         /\ \A i \in 1..Len(Prefix(s, n)) : Prefix(s, n)[i] = s[i]
<1> DEFINE m == IF n < Len(s) THEN n ELSE Len(s)
<1>1. m \in Nat /\ m <= Len(s) /\ Len(s) \in Nat
  BY LenProperties
<1>2. Prefix(s, n) = SubSeq(s, 1, m)
  BY DEF Prefix
<1> HIDE DEF m
<1>3. \A i \in 1..m : s[i] \in S
  BY <1>1, ElementOfSeq
<1>4. SubSeq(s, 1, m) \in Seq(S) /\ Len(SubSeq(s, 1, m)) = m
  /\ \A i \in 1..m : SubSeq(s, 1, m)[i] = s[i]
  BY <1>1, <1>3, SubSeqProperties
<1> QED BY <1>2, <1>4 DEF m

Promotions(m) == [i \in 1..m |-> PromotedRule(promoted[i])]

\* The rules that a prefix of the defaults and m promoted proposals may have between them.
RuleSet(m) == {Ladder[i] : i \in 1..9} \cup {Overrides[i] : i \in 1..2}
                \cup {PromotedRule(promoted[i]) : i \in 1..m}

LEMMA TheDefaults == Len(Ladder) = 9 /\ Len(Overrides) = 2 /\ Defaults = 11
BY DEF Ladder, Overrides, Defaults

\* RulesFound: of which rules the table consists, with the first of the ladder when there is one
\* default rule, the override for do_not_disturb when there are ten, and the promoted ones.
LEMMA RulesShape ==
  ASSUME NEW n \in Nat, NEW m \in Nat
  PROVE  LET rules == RulesFound(n, m) IN
         /\ rules \in Seq(RuleSet(m)) /\ DOMAIN rules = 1..Len(rules) /\ Len(rules) \in Nat
         /\ \A i \in 1..Len(rules) : rules[i] \in RuleSet(m)
         /\ n > 0 => 1 \in 1..Len(rules) /\ rules[1] = Ladder[1]
         /\ n > 9 => \E i \in 1..Len(rules) : rules[i] = Overrides[1]
         /\ \A j \in 1..m : \E i \in 1..Len(rules) : rules[i] = PromotedRule(promoted[j])
<1> DEFINE S == RuleSet(m)
           a == Prefix(Ladder, n)
           b == Promotions(m)
           c == Prefix(Overrides, IF n < Len(Ladder) THEN 0 ELSE n - Len(Ladder))
<1>1. Ladder \in Seq(S) /\ Overrides \in Seq(S)
  <2> DEFINE A == {Ladder[i] : i \in 1..9}
             B == {Overrides[i] : i \in 1..2}
  <2>1. Ladder \in [1..9 -> A] /\ Overrides \in [1..2 -> B]
    BY DEF Ladder, Overrides
  <2>2. A \subseteq S /\ B \subseteq S
    BY DEF RuleSet
  <2> HIDE DEF A, B, S
  <2>3. Ladder \in [1..9 -> S] /\ Overrides \in [1..2 -> S]
    BY <2>1, <2>2
  <2> QED BY <2>3, FunctionIsSeq
<1>2. b \in Seq(S) /\ Len(b) = m /\ \A i \in 1..m : b[i] = PromotedRule(promoted[i])
  BY DEF Promotions, RuleSet
<1> HIDE DEF S, b
<1>3. /\ a \in Seq(S) /\ Len(a) = (IF n < 9 THEN n ELSE 9)
      /\ \A i \in 1..Len(a) : a[i] = Ladder[i]
  BY <1>1, TheDefaults, PrefixOfSeq
<1>4. /\ c \in Seq(S) /\ (n > 9 => Len(c) > 0)
      /\ \A i \in 1..Len(c) : c[i] = Overrides[i]
  <2> DEFINE k == IF n < Len(Ladder) THEN 0 ELSE n - Len(Ladder)
  <2>1. k \in Nat /\ (n > 9 => k > 0)
    BY TheDefaults
  <2> HIDE DEF k
  <2>2. /\ Prefix(Overrides, k) \in Seq(S)
        /\ Len(Prefix(Overrides, k)) = IF k < 2 THEN k ELSE 2
        /\ \A i \in 1..Len(Prefix(Overrides, k)) : Prefix(Overrides, k)[i] = Overrides[i]
    BY <1>1, <2>1, TheDefaults, PrefixOfSeq
  <2> QED BY <2>1, <2>2 DEF k
<1>5. RulesFound(n, m) = (a \o b) \o c
  BY DEF RulesFound, Promotions, b
<1> HIDE DEF a, c
<1> DEFINE ab == a \o b
           rules == ab \o c
<1>6. Len(a) \in Nat /\ Len(c) \in Nat
  BY <1>3, <1>4, LenProperties
<1>7. /\ ab \in Seq(S) /\ Len(ab) = Len(a) + m
      /\ \A i \in 1..(Len(a) + m) : ab[i] = IF i <= Len(a) THEN a[i] ELSE b[i - Len(a)]
  BY <1>2, <1>3, ConcatProperties
<1> HIDE DEF ab
<1>8. /\ rules \in Seq(S) /\ Len(rules) = Len(ab) + Len(c)
      /\ \A i \in 1..(Len(ab) + Len(c)) : rules[i] = IF i <= Len(ab) THEN ab[i] ELSE c[i - Len(ab)]
  BY <1>4, <1>7, ConcatProperties
<1> HIDE DEF rules
<1>9. DOMAIN rules = 1..Len(rules) /\ Len(rules) \in Nat /\ \A i \in 1..Len(rules) : rules[i] \in S
  BY <1>8, LenProperties, ElementOfSeq
<1>10. n > 0 => 1 \in 1..Len(rules) /\ rules[1] = Ladder[1]
  <2> SUFFICES ASSUME n > 0 PROVE 1 \in 1..Len(rules) /\ rules[1] = Ladder[1]
    OBVIOUS
  <2>1. Len(a) >= 1 /\ a[1] = Ladder[1]
    BY <1>3
  <2>2. ab[1] = a[1] /\ Len(ab) >= 1 /\ Len(ab) \in Nat
    BY <1>6, <1>7, <2>1
  <2> QED BY <1>6, <1>8, <2>1, <2>2
<1>11. n > 9 => \E i \in 1..Len(rules) : rules[i] = Overrides[1]
  <2> SUFFICES ASSUME n > 9 PROVE \E i \in 1..Len(rules) : rules[i] = Overrides[1]
    OBVIOUS
  <2>1. Len(c) > 0 /\ c[1] = Overrides[1] /\ Len(ab) \in Nat
    BY <1>4, <1>6, <1>7
  <2>2. Len(ab) + 1 \in 1..(Len(ab) + Len(c)) /\ ~ Len(ab) + 1 <= Len(ab) /\ (Len(ab) + 1) - Len(ab) = 1
    BY <1>6, <2>1
  <2> QED BY <1>8, <2>1, <2>2
<1>12. ASSUME NEW j \in 1..m PROVE \E i \in 1..Len(rules) : rules[i] = PromotedRule(promoted[j])
  <2>1. Len(a) + j \in 1..(Len(a) + m) /\ ~ Len(a) + j <= Len(a) /\ (Len(a) + j) - Len(a) = j
    BY <1>6
  <2>2. ab[Len(a) + j] = PromotedRule(promoted[j])
    BY <1>2, <1>7, <2>1
  <2>3. Len(a) + j \in 1..(Len(ab) + Len(c)) /\ Len(a) + j <= Len(ab)
    BY <1>6, <1>7
  <2> QED BY <1>8, <2>2, <2>3
<1> QED BY <1>5, <1>8, <1>9, <1>10, <1>11, <1>12 DEF rules, ab, S

\* A rule names installed channels or some of the four, and never none.
GoodChannels(channels) == channels = {"all_available"} \/ (channels \in SUBSET Channels /\ channels # {})

LEMMA TheRules ==
  /\ \A i \in 1..9 : Ladder[i].state = "any" /\ GoodChannels(Ladder[i].channels)
  /\ Ladder[1] = Rule("any", "urgent", {"all_available"})
  /\ Overrides[1] = Override("do_not_disturb", {"digest"}, {"urgent"})
  /\ \A i \in 1..2 : /\ Overrides[i].state # "any" /\ Overrides[i].channels = {"digest"}
                     /\ Overrides[i].exempt = {"urgent"} /\ GoodChannels(Overrides[i].channels)
<1>1. \A i \in 1..9 : Ladder[i].state = "any"
  <2>1. \A i \in 1..9 : i = 1 \/ i = 2 \/ i = 3 \/ i = 4 \/ i = 5 \/ i = 6 \/ i = 7 \/ i = 8 \/ i = 9
    OBVIOUS
  <2>2. /\ Ladder[1].state = "any" /\ Ladder[2].state = "any" /\ Ladder[3].state = "any"
        /\ Ladder[4].state = "any" /\ Ladder[5].state = "any" /\ Ladder[6].state = "any"
        /\ Ladder[7].state = "any" /\ Ladder[8].state = "any" /\ Ladder[9].state = "any"
    BY DEF Ladder, Rule
  <2> QED BY <2>1, <2>2
<1>2. \A i \in 1..9 : GoodChannels(Ladder[i].channels)
  <2>1. \A i \in 1..9 : i = 1 \/ i = 2 \/ i = 3 \/ i = 4 \/ i = 5 \/ i = 6 \/ i = 7 \/ i = 8 \/ i = 9
    OBVIOUS
  <2>2. /\ Ladder[1].channels = {"all_available"} /\ Ladder[2].channels = {"web_persistent", "web_toast"}
        /\ Ladder[3].channels = {"web_toast"} /\ Ladder[4].channels = {"web_toast"}
        /\ Ladder[5].channels = {"web_persistent"}
        /\ Ladder[6].channels = {"web_toast", "web_persistent"}
        /\ Ladder[7].channels = {"digest"} /\ Ladder[8].channels = {"web_toast"}
        /\ Ladder[9].channels = {"web_toast"}
    BY DEF Ladder, Rule
  <2>3. /\ GoodChannels(Ladder[1].channels) /\ GoodChannels(Ladder[2].channels)
        /\ GoodChannels(Ladder[3].channels) /\ GoodChannels(Ladder[4].channels)
        /\ GoodChannels(Ladder[5].channels) /\ GoodChannels(Ladder[6].channels)
        /\ GoodChannels(Ladder[7].channels) /\ GoodChannels(Ladder[8].channels)
        /\ GoodChannels(Ladder[9].channels)
    BY <2>2 DEF GoodChannels, Channels, Builtins
  <2> QED BY <2>1, <2>3
<1>3. Ladder[1] = Rule("any", "urgent", {"all_available"})
  BY DEF Ladder
<1>4. /\ Overrides[1] = Override("do_not_disturb", {"digest"}, {"urgent"})
      /\ Overrides[2] = Override("asleep", {"digest"}, {"urgent"})
  BY DEF Overrides
<1>5. \A i \in 1..2 : /\ Overrides[i].state # "any" /\ Overrides[i].channels = {"digest"}
                      /\ Overrides[i].exempt = {"urgent"}
  <2>1. \A i \in 1..2 : i = 1 \/ i = 2
    OBVIOUS
  <2> QED BY <1>4, <2>1 DEF Override
<1>6. GoodChannels({"digest"})
  BY DEF GoodChannels, Channels, Builtins
<1> QED BY <1>1, <1>2, <1>3, <1>4, <1>5, <1>6

LEMMA NamedChannels ==
  ASSUME NEW channels, GoodChannels(channels), registry \subseteq Channels, Builtins \subseteq registry
  PROVE  Named(channels) \in SUBSET Channels /\ Named(channels) # {}
<1>1. registry # {} /\ registry \in SUBSET Channels
  BY DEF Builtins
<1> QED BY <1>1 DEF Named, GoodChannels

\* What load_rules found, as the choice of the channels sees it.
Loadable(rules) ==
  /\ DOMAIN rules = 1..Len(rules) /\ Len(rules) \in Nat
  /\ \A i \in 1..Len(rules) :
       \/ rules[i].state = "any"
       \/ rules[i].channels = {"digest"} /\ rules[i].exempt = {"urgent"}

LEMMA RulesLoadable ==
  ASSUME NEW n \in Nat, NEW m \in Nat
  PROVE  Loadable(RulesFound(n, m))
<1>1. \A r \in RuleSet(m) : \/ r.state = "any"
                            \/ r.channels = {"digest"} /\ r.exempt = {"urgent"}
  <2>1. \A j \in 1..m : PromotedRule(promoted[j]).state = "any"
    BY DEF PromotedRule, Rule
  <2> QED BY <2>1, TheRules DEF RuleSet
<1> QED BY <1>1, RulesShape DEF Loadable

\* _match_rule: no channels only when no rule matches.
LEMMA BaseChannels ==
  ASSUME NEW rules, Loadable(rules), NEW k, NEW q,
         \A i \in 1..Len(rules) : GoodChannels(rules[i].channels),
         registry \subseteq Channels, Builtins \subseteq registry
  PROVE  /\ Base(rules, k, q) \in SUBSET Channels
         /\ \A i \in 1..Len(rules) :
              Matches(rules[i], k, q) /\ rules[i].state = "any" => Base(rules, k, q) # {}
         /\ 1 \in 1..Len(rules) /\ rules[1] = Ladder[1] /\ k.urgency = "urgent" =>
              Base(rules, k, q) = registry
<1> DEFINE hits == {i \in DOMAIN rules : Matches(rules[i], k, q) /\ ~IsOverride(rules[i])}
           first == CHOOSE i \in hits : \A j \in hits : i <= j
<1>1. hits \in SUBSET Nat /\ hits \subseteq 1..Len(rules)
  BY DEF Loadable
<1>2. Base(rules, k, q) = IF hits = {} THEN {} ELSE Named(rules[first].channels)
  BY DEF Base
<1>3. \A i \in 1..Len(rules) : Matches(rules[i], k, q) /\ rules[i].state = "any" => i \in hits
  BY DEF Loadable, IsOverride
<1>4. 1 \in 1..Len(rules) /\ rules[1] = Ladder[1] /\ k.urgency = "urgent" => 1 \in hits
  <2>1. rules[1] = Ladder[1] /\ k.urgency = "urgent" =>
          Matches(rules[1], k, q) /\ rules[1].state = "any"
    BY TheRules DEF Matches, Rule
  <2> QED BY <1>3, <2>1
<1> HIDE DEF hits
<1>5. hits # {} => first \in hits /\ \A j \in hits : first <= j
  <2>1. hits # {} => \E i \in hits : \A j \in hits : i <= j
    BY <1>1, LeastNumber
  <2> QED BY <2>1
<1> HIDE DEF first
<1>6. hits # {} => Named(rules[first].channels) \in SUBSET Channels /\ Named(rules[first].channels) # {}
  BY <1>1, <1>5, NamedChannels
<1>7. 1 \in hits => first = 1
  <2> SUFFICES ASSUME 1 \in hits PROVE first = 1
    OBVIOUS
  <2>1. first \in 1..Len(rules) /\ first <= 1 /\ Len(rules) \in Nat
    BY <1>1, <1>5 DEF Loadable
  <2> QED BY <2>1
<1>8. 1 \in hits /\ rules[1] = Ladder[1] => Base(rules, k, q) = registry
  <2>1. Ladder[1].channels = {"all_available"}
    BY TheRules DEF Rule
  <2> QED BY <1>2, <1>7, <2>1 DEF Named
<1> QED BY <1>2, <1>3, <1>4, <1>6, <1>8

\* The overrides, which exempt what is urgent, replace the channels by the digest.
LEMMA OverriddenChannels ==
  ASSUME NEW rules, Loadable(rules), NEW k, NEW q, NEW chosen
  PROVE  /\ Overridden(rules, k, q, chosen) \in {chosen, {"digest"}}
         /\ k.urgency = "urgent" => Overridden(rules, k, q, chosen) = chosen
         /\ \A i \in 1..Len(rules) :
              rules[i] = Overrides[1] /\ q /\ k.urgency # "urgent" =>
                Overridden(rules, k, q, chosen) = {"digest"}
<1> DEFINE hits == {i \in DOMAIN rules : /\ Matches(rules[i], k, q) /\ IsOverride(rules[i])
                                         /\ k.urgency \notin rules[i].exempt}
           last == CHOOSE i \in hits : \A j \in hits : j <= i
<1>1. hits \in SUBSET (0..Len(rules)) /\ hits \subseteq 1..Len(rules) /\ Len(rules) \in Nat
  BY DEF Loadable
<1>2. Overridden(rules, k, q, chosen) = IF hits = {} THEN chosen ELSE Named(rules[last].channels)
  BY DEF Overridden
<1>3. \A i \in hits : rules[i].channels = {"digest"} /\ k.urgency # "urgent"
  BY <1>1 DEF Loadable, IsOverride
<1>4. \A i \in 1..Len(rules) : rules[i] = Overrides[1] /\ q /\ k.urgency # "urgent" => i \in hits
  BY TheRules DEF Loadable, Matches, IsOverride, Override
<1> HIDE DEF hits
<1>5. hits # {} => last \in hits
  <2>1. hits # {} => \E i \in hits : \A j \in hits : j <= i
    BY <1>1, GreatestNumber
  <2> QED BY <2>1
<1> HIDE DEF last
<1>6. hits # {} => Named(rules[last].channels) = {"digest"} /\ k.urgency # "urgent"
  BY <1>3, <1>5 DEF Named
<1> QED BY <1>2, <1>4, <1>6

\* The filter and the fallback.
LEMMA FinalChannels ==
  ASSUME NEW chosen, NEW k, NEW available, Builtins \subseteq available, available \subseteq Channels
  PROVE  /\ Final(chosen, k, available) \in SUBSET Channels
         /\ Final(chosen, k, available) # {}
         /\ k.urgency = "urgent" /\ Builtins \subseteq chosen =>
              Final(chosen, k, available) \ {"digest"} # {}
         /\ k.urgency # "urgent" /\ chosen = {"digest"} =>
              Final(chosen, k, available) = {"digest"}
<1> DEFINE able == {c \in chosen \cap available : CanDeliver(c, k)}
<1>1. "web_toast" \in available /\ "digest" \in available
  BY DEF Builtins
<1>2. Final(chosen, k, available) =
        IF able # {} THEN able
        ELSE IF k.urgency = "urgent" /\ "web_toast" \in available THEN {"web_toast"}
        ELSE {"digest"} \cap available
  BY DEF Final
<1>3. Builtins \subseteq chosen => "web_toast" \in able
  <2>1. CanDeliver("web_toast", k)
    BY DEF CanDeliver, Device
  <2> QED BY <1>1, <2>1 DEF Builtins
<1>4. able \in SUBSET Channels /\ (chosen = {"digest"} => able = {} \/ able = {"digest"})
  OBVIOUS
<1> HIDE DEF able
<1>5. "web_toast" # "digest"
  OBVIOUS
<1> QED BY <1>1, <1>2, <1>3, <1>4, <1>5

-----------------------------------------------------------------------------
(* Types.                                                                  *)

LEMMA TablesProperties ==
  ASSUME NEW rows, NEW rules, NEW asked, TablesOK(rows, rules, asked)
  PROVE  /\ Len(asked) \in Nat /\ Len(rules) \in Nat
         /\ \A p \in 1..Len(asked) : asked[p] \in Proposals /\ asked[p].channels # {}
         /\ \A i \in 1..Len(rules) : rules[i] \in 1..Len(asked) /\ rules[i] \in Nat
         /\ rules # <<>> => asked # <<>>
         /\ Len(asked) > 0 => \E e \in Emissions : rows[e] > 0
<1>1. /\ asked \in Seq(Proposals) /\ rules \in Seq(Nat)
      /\ \A i \in 1..Len(rules) : rules[i] \in 1..Len(asked)
      /\ \A p \in 1..Len(asked) : asked[p].channels # {}
      /\ asked # <<>> => \E e \in Emissions : rows[e] > 0
  BY DEF TablesOK
<1>2. Len(asked) \in Nat /\ Len(rules) \in Nat /\ Len(<<>>) = 0
  BY <1>1, LenProperties, EmptySeq
<1>3. \A p \in 1..Len(asked) : asked[p] \in Proposals
  BY <1>1, ElementOfSeq
<1>4. rules # <<>> => Len(rules) \in Nat \ {0}
  BY <1>1, EmptySeq
<1>5. rules # <<>> => 1 \in 1..Len(rules)
  BY <1>4
<1>6. rules # <<>> => Len(asked) > 0
  <2> SUFFICES ASSUME rules # <<>> PROVE Len(asked) > 0
    OBVIOUS
  <2>1. rules[1] \in 1..Len(asked)
    BY <1>1, <1>5
  <2> QED BY <1>2, <2>1
<1>7. Len(asked) > 0 => asked # <<>>
  BY <1>2
<1>8. rules # <<>> => asked # <<>>
  BY <1>6, <1>7
<1>9. Len(asked) > 0 => \E e \in Emissions : rows[e] > 0
  BY <1>1, <1>7
<1>10. \A i \in 1..Len(rules) : rules[i] \in 1..Len(asked) /\ rules[i] \in Nat
  BY <1>1, <1>2
<1> QED BY <1>1, <1>2, <1>3, <1>8, <1>9, <1>10

\* What a row may become: its topic and channels stay, and it is not reopened.
Amends(new, old) ==
  /\ new \in Proposals /\ new.topic = old.topic /\ new.channels = old.channels
  /\ (old.accepted => new.accepted) /\ (old.dismissed => new.dismissed)

\* All that a step may do to the tables and to what is committed of them.
SeedsOne ==
  /\ \E e \in Emissions : \E n \in 1..11 :
       n > seeded[e] /\ seeded' = [seeded EXCEPT ![e] = n]
  /\ UNCHANGED <<promoted, proposals, saved>>
AmendsOne ==
  /\ \E p \in 1..Len(proposals) : \E q :
       Amends(q, proposals[p]) /\ proposals' = [proposals EXCEPT ![p] = q]
  /\ UNCHANGED <<seeded, promoted, saved>>
AddsOne ==
  /\ \E q \in Proposals : q.channels # {} /\ proposals' = Append(proposals, q)
  /\ \E e \in Emissions : seeded[e] > 0
  /\ UNCHANGED <<seeded, promoted, saved>>
PromotesOne ==
  /\ \E p \in 1..Len(proposals) : promoted' = Append(promoted, p)
  /\ UNCHANGED <<seeded, proposals, saved>>
CommitsAll ==
  /\ UNCHANGED <<seeded, promoted, proposals>>
  /\ saved'.seeded = seeded /\ saved'.promoted = promoted /\ saved'.proposals = proposals
Moves ==
  UNCHANGED <<seeded, promoted, proposals, saved>> \/ SeedsOne \/ AmendsOne \/ AddsOne
    \/ PromotesOne \/ CommitsAll

LEMMA CommitCommits == Commit /\ UNCHANGED tables => CommitsAll
BY DEF Commit, tables, CommitsAll

LEMMA AmendingIsTyped ==
  ASSUME NEW old \in Proposals, NEW h \in Nat
  PROVE  /\ Amends([old EXCEPT !.hits = h], old) /\ Amends([old EXCEPT !.accepted = TRUE], old)
         /\ Amends([old EXCEPT !.dismissed = TRUE], old)
BY DEF Amends, Proposals

LEMMA TablesMove ==
  ASSUME RouterInv, [Next]_vars
  PROVE  Moves \/ Crash
<1> USE DEF tables
<1>1. /\ \A p \in 1..Len(proposals) : proposals[p] \in Proposals
      /\ proposals \in Seq(Proposals) /\ Len(proposals) \in Nat
  BY TablesProperties DEF RouterInv, RouterTypeOK, TablesTyped, TablesOK
<1>2. ASSUME NEW e \in Emissions, RouteStep(e)
      PROVE  Moves
  <2>1. ASSUME NEW k \in Kinds, Begin(e, k) PROVE Moves
    BY <2>1 DEF Begin, Moves
  <2>2. CASE Expire(e) \/ LoadRules(e) \/ StartSeeding(e) \/ Reload(e)
    BY <2>2 DEF Expire, LoadRules, StartSeeding, Reload, Moves
  <2>3. CASE NoPick(e) \/ (\E p \in Picks : Pick(e, p)) \/ FindProposal(e) \/ RecordFails(e) \/ Filter(e)
    BY <2>3 DEF NoPick, Pick, FindProposal, RecordFails, Filter, Moves
  <2>4. CASE SeedCommit(e) \/ CommitProposal(e)
    BY <2>4, CommitCommits DEF SeedCommit, CommitProposal, Moves
  <2>5. CASE SeedRule(e)
    <3>1. PICK n \in Stops : n > seeded[e] /\ seeded' = [seeded EXCEPT ![e] = n]
      BY <2>5 DEF SeedRule
    <3>2. n \in 1..11
      BY ConstantsAssumption
    <3> QED BY <2>5, <3>1, <3>2 DEF SeedRule, SeedsOne, Moves
  <2>6. CASE CountHit(e)
    <3>1. row[e] \in 1..Len(proposals)
      BY <2>6 DEF RouterInv, EmissionOK, CountHit, Move
    <3> DEFINE old == proposals[row[e]]
               new == [old EXCEPT !.hits = old.hits + 1]
    <3>2. old \in Proposals
      BY <1>1, <3>1
    <3>3. proposals' = [proposals EXCEPT ![row[e]] = new]
      BY <2>6 DEF CountHit
    <3>4. Amends(new, old)
      <4> HIDE DEF old
      <4>1. old.hits \in Nat
        BY <3>2 DEF Proposals
      <4>2. old.hits + 1 \in Nat
        BY <4>1
      <4> QED BY <3>2, <4>2, AmendingIsTyped
    <3> HIDE DEF new
    <3> QED BY <2>6, <3>1, <3>3, <3>4 DEF CountHit, AmendsOne, Moves
  <2>7. CASE InsertProposal(e)
    <3> DEFINE q == [topic |-> Topic(event[e]), channels |-> base[e], hits |-> 1,
                     accepted |-> FALSE, dismissed |-> FALSE]
    <3>1. phase[e] = "writing" /\ proposals' = Append(proposals, q)
      BY <2>7 DEF InsertProposal, Move
    <3>2. event[e] \in Kinds /\ base[e] # {} /\ base[e] \in SUBSET Channels
          /\ \E f \in Emissions : seeded[f] > 0
      BY <3>1 DEF RouterInv, EmissionOK, RouterTypeOK, RouteTyped
    <3>3. q \in Proposals /\ q.channels # {}
      BY <3>2 DEF Proposals
    <3> HIDE DEF q
    <3> QED BY <2>7, <3>1, <3>2, <3>3 DEF InsertProposal, AddsOne, Moves
  <2> QED BY <1>2, <2>1, <2>2, <2>3, <2>4, <2>5, <2>6, <2>7 DEF RouteStep
<1>3. ASSUME NEW r \in Reviews, ReviewStep(r)
      PROVE  Moves
  <2>1. ASSUME NEW p \in DOMAIN proposals, AcceptRead(r, p)
        PROVE  Moves
    BY <2>1 DEF AcceptRead, Moves
  <2>2. ASSUME NEW p \in 1..Len(proposals), DismissMark(r, p) PROVE Moves
    <3> DEFINE new == [proposals[p] EXCEPT !.dismissed = TRUE]
    <3>1. proposals' = [proposals EXCEPT ![p] = new]
      BY <2>2 DEF DismissMark
    <3>2. Amends(new, proposals[p])
      BY <1>1, AmendingIsTyped
    <3> HIDE DEF new
    <3> QED BY <2>2, <3>1, <3>2 DEF DismissMark, AmendsOne, Moves
  <2>3. CASE AcceptInsert(r)
    BY <2>3 DEF AcceptInsert, MoveReview, RouterInv, ReviewOK, PromotesOne, Moves
  <2>4. CASE AcceptMark(r)
    <3> DEFINE p == subject[r]
               new == [proposals[p] EXCEPT !.accepted = TRUE]
    <3>1. proposals' = [proposals EXCEPT ![p] = new] /\ p \in 1..Len(proposals)
      BY <2>4 DEF AcceptMark, MoveReview, RouterInv, ReviewOK
    <3>2. Amends(new, proposals[p])
      BY <1>1, <3>1, AmendingIsTyped
    <3> HIDE DEF new
    <3> QED BY <2>4, <3>1, <3>2 DEF AcceptMark, AmendsOne, Moves
  <2>5. CASE AcceptCommit(r) \/ DismissCommit(r)
    BY <2>5, CommitCommits DEF AcceptCommit, DismissCommit, Moves
  <2>6. DOMAIN proposals = 1..Len(proposals)
    BY <1>1, LenProperties
  <2> QED BY <1>3, <2>1, <2>2, <2>3, <2>4, <2>5, <2>6 DEF ReviewStep
<1>4. CASE SetQuiet \/ RevokeDevice \/ UNCHANGED vars
  BY <1>4 DEF SetQuiet, RevokeDevice, vars, Moves
<1>5. CASE OtherCommit
  BY <1>5, CommitCommits DEF OtherCommit, Moves
<1> QED BY <1>2, <1>3, <1>4, <1>5 DEF Next

\* But for a crash the tables grow, and a row keeps what it is about.
Grown ==
  /\ \A e \in Emissions : seeded'[e] >= seeded[e]
  /\ Len(proposals) <= Len(proposals')
  /\ \A p \in 1..Len(proposals) : Amends(proposals'[p], proposals[p])
  /\ Len(promoted) <= Len(promoted') /\ \A i \in 1..Len(promoted) : promoted'[i] = promoted[i]

LEMMA TablesStep ==
  ASSUME TablesTyped, Moves
  PROVE  TablesTyped' /\ Grown
<1> USE DEF TablesTyped
<1>1. /\ TablesOK(seeded, promoted, proposals)
      /\ seeded \in [Emissions -> 0..11] /\ proposals \in Seq(Proposals) /\ promoted \in Seq(Nat)
      /\ Len(proposals) \in Nat /\ Len(promoted) \in Nat
      /\ \A p \in 1..Len(proposals) : proposals[p] \in Proposals
  BY TablesProperties DEF TablesOK
<1>2. /\ Len(proposals) <= Len(proposals) /\ Len(promoted) <= Len(promoted)
      /\ \A e \in Emissions : seeded[e] >= seeded[e] /\ seeded[e] \in Nat
      /\ \A q \in Proposals : Amends(q, q)
  <2>1. \A n \in 0..11 : n \in Nat /\ n >= n
    OBVIOUS
  <2>2. \A e \in Emissions : seeded[e] \in 0..11
    BY <1>1
  <2>3. \A n \in Nat : n <= n
    OBVIOUS
  <2>4. \A q \in Proposals : Amends(q, q)
    BY DEF Amends
  <2> QED BY <1>1, <2>1, <2>2, <2>3, <2>4
<1>3. CASE UNCHANGED <<seeded, promoted, proposals, saved>> \/ CommitsAll
  BY <1>1, <1>2, <1>3 DEF CommitsAll, Grown
<1>4. CASE SeedsOne
  <2>1. PICK e \in Emissions, n \in 1..11 : n > seeded[e] /\ seeded' = [seeded EXCEPT ![e] = n]
    BY <1>4 DEF SeedsOne
  <2>2. seeded' \in [Emissions -> 0..11] /\ \A f \in Emissions : seeded'[f] >= seeded[f]
    <3>1. seeded' \in [Emissions -> 0..11]
      <4>1. n \in 0..11
        OBVIOUS
      <4> QED BY <1>1, <2>1, <4>1
    <3>2. \A f \in Emissions : IF f = e THEN seeded'[f] = n ELSE seeded'[f] = seeded[f]
      BY <1>1, <2>1
    <3>3. seeded[e] \in Nat /\ n >= seeded[e]
      BY <1>2, <2>1
    <3> QED BY <1>2, <3>1, <3>2, <3>3
  <2>3. (\E f \in Emissions : seeded[f] > 0) => \E f \in Emissions : seeded'[f] > 0
    <3> SUFFICES ASSUME NEW f \in Emissions, seeded[f] > 0 PROVE seeded'[f] > 0
      OBVIOUS
    <3>1. seeded[f] \in 0..11 /\ seeded'[f] \in 0..11 /\ seeded'[f] >= seeded[f]
      BY <1>1, <2>2
    <3> QED BY <3>1
  <2> QED BY <1>1, <1>2, <1>4, <2>2, <2>3 DEF SeedsOne, TablesOK, Grown
<1>5. CASE AmendsOne
  <2>1. PICK p \in 1..Len(proposals) : \E q :
          Amends(q, proposals[p]) /\ proposals' = [proposals EXCEPT ![p] = q]
    BY <1>5 DEF AmendsOne
  <2>2. PICK q : Amends(q, proposals[p]) /\ proposals' = [proposals EXCEPT ![p] = q]
    BY <2>1
  <2>3. /\ proposals' \in Seq(Proposals) /\ Len(proposals') = Len(proposals)
        /\ \A i \in 1..Len(proposals) : proposals'[i] = IF i = p THEN q ELSE proposals[i]
    BY <1>1, <2>2, ExceptSeq DEF Amends
  <2>4. \A i \in 1..Len(proposals) : Amends(proposals'[i], proposals[i])
    BY <1>1, <1>2, <2>2, <2>3
  <2>5. \A i \in 1..Len(proposals) : proposals'[i].channels # {}
    BY <1>1, <2>4 DEF TablesOK, Amends
  <2>6. proposals # <<>>
    BY <1>1, EmptySeq
  <2> QED BY <1>1, <1>2, <1>5, <2>3, <2>4, <2>5, <2>6 DEF AmendsOne, TablesOK, Grown
<1>6. CASE AddsOne
  <2>1. PICK q \in Proposals : q.channels # {} /\ proposals' = Append(proposals, q)
    BY <1>6 DEF AddsOne
  <2>2. /\ proposals' \in Seq(Proposals) /\ Len(proposals') = Len(proposals) + 1
        /\ proposals'[Len(proposals) + 1] = q
        /\ \A i \in 1..Len(proposals) : proposals'[i] = proposals[i]
    BY <1>1, <2>1, AppendProperties
  <2>3. \A i \in 1..(Len(proposals) + 1) : i \in 1..Len(proposals) \/ i = Len(proposals) + 1
    BY <1>1
  <2>4. /\ \A i \in 1..Len(proposals') : proposals'[i].channels # {}
        /\ 1..Len(proposals) \subseteq 1..Len(proposals') /\ Len(proposals) <= Len(proposals')
    <3>1. \A i \in 1..Len(proposals) : proposals[i].channels # {}
      BY <1>1 DEF TablesOK
    <3>2. Len(proposals) <= Len(proposals) + 1 /\ 1..Len(proposals) \subseteq 1..(Len(proposals) + 1)
      BY <1>1
    <3> QED BY <2>1, <2>2, <2>3, <3>1, <3>2
  <2> QED BY <1>1, <1>2, <1>6, <2>2, <2>4 DEF AddsOne, TablesOK, Grown
<1>7. CASE PromotesOne
  <2>1. PICK p \in 1..Len(proposals) : promoted' = Append(promoted, p)
    BY <1>7 DEF PromotesOne
  <2>2. p \in Nat
    BY <1>1
  <2>3. /\ promoted' \in Seq(Nat) /\ Len(promoted') = Len(promoted) + 1
        /\ promoted'[Len(promoted) + 1] = p
        /\ \A i \in 1..Len(promoted) : promoted'[i] = promoted[i]
    BY <1>1, <2>1, <2>2, AppendProperties
  <2>4. /\ \A i \in 1..(Len(promoted) + 1) : i \in 1..Len(promoted) \/ i = Len(promoted) + 1
        /\ Len(promoted) <= Len(promoted) + 1
    <3>1. \A n \in Nat : /\ \A i \in 1..(n + 1) : i \in 1..n \/ i = n + 1
                         /\ n <= n + 1
      OBVIOUS
    <3> QED BY <1>1, <3>1
  <2> QED BY <1>1, <1>2, <1>7, <2>3, <2>4 DEF PromotesOne, TablesOK, Grown
<1> QED BY <1>3, <1>4, <1>5, <1>6, <1>7 DEF Moves

LEMMA CrashedTables ==
  ASSUME TablesTyped, Crash
  PROVE  TablesTyped'
BY DEF TablesTyped, Crash

-----------------------------------------------------------------------------
(* Emissions.                                                              *)

\* load_rules and _match_rule on a table that has some of the defaults: an urgent event gets the
\* channels installed, and an event is left to the LLM only when no promoted rule is of its topic.
LEMMA LoadedOK ==
  ASSUME TablesTyped, RouteTyped, NEW e \in Emissions, Loaded(e), \E f \in Emissions : seeded[f] > 0
  PROVE  \E n \in 1..11 : \E chosen \in SUBSET Channels :
           /\ found' = [found EXCEPT ![e] = <<n, Len(promoted)>>]
           /\ base' = [base EXCEPT ![e] = chosen]
           /\ phase' = [phase EXCEPT ![e] = IF chosen = {} THEN "asking" ELSE "filtering"]
           /\ event[e].urgency = "urgent" => chosen = registry /\ chosen # {}
           /\ chosen = {} => \A i \in 1..Len(promoted) : proposals[promoted[i]].topic # Topic(event[e])
<1> DEFINE n == InTable(seeded)
           m == Len(promoted)
           k == event[e]
           rules == RulesFound(n, m)
           chosen == Base(rules, k, quiet[e])
<1>1. seeded \in [Emissions -> 0..11] /\ TablesOK(seeded, promoted, proposals)
  BY DEF TablesTyped, TablesOK
<1>2. n \in 1..11 /\ n \in Nat /\ n > 0
  <2>1. n \in 0..11 /\ n > 0
    BY <1>1, TheTable
  <2> QED BY <2>1
<1>3. /\ m \in Nat
      /\ \A j \in 1..m : /\ promoted[j] \in 1..Len(proposals)
                         /\ proposals[promoted[j]] \in Proposals
                         /\ proposals[promoted[j]].channels # {}
  BY <1>1, TablesProperties
<1>4. /\ found' = [found EXCEPT ![e] = <<n, m>>] /\ base' = [base EXCEPT ![e] = chosen]
      /\ phase' = [phase EXCEPT ![e] = IF chosen = {} THEN "asking" ELSE "filtering"]
  BY DEF Loaded
<1>5. registry \subseteq Channels /\ Builtins \subseteq registry /\ registry # {}
  BY DEF RouteTyped, Builtins
<1>6. \A j \in 1..m : /\ PromotedRule(promoted[j]).state = "any"
                      /\ PromotedRule(promoted[j]).channels = proposals[promoted[j]].channels
                      /\ PromotedRule(promoted[j]).category = proposals[promoted[j]].topic[1]
                      /\ PromotedRule(promoted[j]).urgency = proposals[promoted[j]].topic[2]
  BY DEF PromotedRule, Rule
<1> HIDE DEF n, m
<1>7. \A r \in RuleSet(m) : GoodChannels(r.channels)
  <2>1. \A j \in 1..m : GoodChannels(PromotedRule(promoted[j]).channels)
    BY <1>3, <1>6 DEF GoodChannels, Proposals
  <2> QED BY <2>1, TheRules DEF RuleSet
<1>8. /\ Loadable(rules) /\ \A i \in 1..Len(rules) : GoodChannels(rules[i].channels)
      /\ 1 \in 1..Len(rules) /\ rules[1] = Ladder[1]
      /\ \A j \in 1..m : \E i \in 1..Len(rules) : rules[i] = PromotedRule(promoted[j])
  BY <1>2, <1>3, <1>7, RulesShape, RulesLoadable
<1> HIDE DEF rules, k
<1>9. /\ chosen \in SUBSET Channels
      /\ \A i \in 1..Len(rules) : Matches(rules[i], k, quiet[e]) /\ rules[i].state = "any" => chosen # {}
      /\ k.urgency = "urgent" => chosen = registry
  BY <1>5, <1>8, BaseChannels
<1> HIDE DEF chosen
<1>10. ASSUME NEW j \in 1..m, proposals[promoted[j]].topic = Topic(k) PROVE chosen # {}
  <2>1. PICK i \in 1..Len(rules) : rules[i] = PromotedRule(promoted[j])
    BY <1>8
  <2>2. Topic(k)[1] = k.category /\ Topic(k)[2] = k.urgency
    BY DEF Topic
  <2>3. /\ rules[i].category = k.category /\ rules[i].urgency = k.urgency /\ rules[i].state = "any"
    BY <1>6, <1>10, <2>1, <2>2
  <2>4. Matches(rules[i], k, quiet[e])
    BY <2>3 DEF Matches
  <2> QED BY <1>9, <2>3, <2>4
<1> QED BY <1>2, <1>4, <1>5, <1>9, <1>10 DEF m, k

\* LoadRules: there are defaults in the table, as there was a promotion only after a seeding.
LEMMA TableHasDefaults ==
  ASSUME TablesTyped, NEW e \in Emissions, InTable(seeded) > 0 \/ promoted # <<>>
  PROVE  \E f \in Emissions : seeded[f] > 0
<1>1. seeded \in [Emissions -> 0..11] /\ TablesOK(seeded, promoted, proposals)
  BY DEF TablesTyped, TablesOK
<1>2. promoted # <<>> => \E f \in Emissions : seeded[f] > 0
  BY <1>1, TablesProperties DEF TablesOK
<1>3. InTable(seeded) > 0 => \E f \in Emissions : seeded[f] > 0
  BY <1>1, TheTable
<1> QED BY <1>2, <1>3

\* _apply_overrides, the filter and the fallback.
LEMMA FilterOK ==
  ASSUME RouteTyped, NEW e \in Emissions, Filter(e), found[e][1] > 0
  PROVE  \E d \in SUBSET Channels :
           /\ dispatched' = [dispatched EXCEPT ![e] = d] /\ d # {}
           /\ event[e].urgency = "urgent" /\ Builtins \subseteq base[e] => d \ {"digest"} # {}
           /\ event[e].urgency # "urgent" /\ quiet[e] /\ found[e][1] > 9 => d = {"digest"}
<1> DEFINE n == found[e][1]
           m == found[e][2]
           rules == RulesFound(n, m)
           k == event[e]
           over == Overridden(rules, k, quiet[e], base[e])
           d == Final(over, k, registry)
<1>1. n \in 0..11 /\ n \in Nat /\ m \in Nat /\ n > 0
  <2>1. found[e] \in (0..11) \X Nat
    BY DEF RouteTyped
  <2>2. n \in 0..11 /\ m \in Nat
    BY <2>1
  <2> QED BY <2>2
<1>2. dispatched' = [dispatched EXCEPT ![e] = d]
  BY DEF Filter
<1> HIDE DEF n, m
<1>3. Loadable(rules) /\ (n > 9 => \E i \in 1..Len(rules) : rules[i] = Overrides[1])
  BY <1>1, RulesShape, RulesLoadable
<1> HIDE DEF rules, k
<1>4. /\ k.urgency = "urgent" => over = base[e]
      /\ \A i \in 1..Len(rules) :
           rules[i] = Overrides[1] /\ quiet[e] /\ k.urgency # "urgent" => over = {"digest"}
  BY <1>3, OverriddenChannels
<1> HIDE DEF over
<1>5. /\ d \in SUBSET Channels /\ d # {}
      /\ k.urgency = "urgent" /\ Builtins \subseteq over => d \ {"digest"} # {}
      /\ k.urgency # "urgent" /\ over = {"digest"} => d = {"digest"}
  BY FinalChannels DEF RouteTyped
<1> HIDE DEF d
<1> QED BY <1>2, <1>3, <1>4, <1>5 DEF n, k

LEMMA ForgetTyped ==
  ASSUME RouteTyped, NEW E \in SUBSET Emissions, Forget(E)
  PROVE  /\ quiet' \in [Emissions -> BOOLEAN] /\ found' \in [Emissions -> (0..11) \X Nat]
         /\ base' \in [Emissions -> SUBSET Channels] /\ row' \in [Emissions -> Nat]
         /\ since' \subseteq Emissions
         /\ \A f \in Emissions \ E : quiet'[f] = quiet[f] /\ found'[f] = found[f]
                                     /\ base'[f] = base[f] /\ row'[f] = row[f]
         /\ \A f \in since' : f \in since /\ f \notin E
<1>1. <<0, 0>> \in (0..11) \X Nat
  OBVIOUS
<1>2. found' \in [Emissions -> (0..11) \X Nat]
  BY <1>1 DEF Forget, RouteTyped
<1> QED BY <1>2 DEF Forget, RouteTyped

LEMMA RouteTypedStep ==
  ASSUME RouterInv, [Next]_vars
  PROVE  RouteTyped'
<1>1. RouteTyped /\ TablesTyped
  BY DEF RouterInv, RouterTypeOK
<1>2. ASSUME NEW e \in Emissions, NEW k \in Kinds, Begin(e, k) PROVE RouteTyped'
  BY <1>1, <1>2 DEF Begin, Move, RouteTyped, RoutePhases, world
<1>3. ASSUME NEW e \in Emissions, Expire(e) \/ StartSeeding(e) \/ SeedCommit(e) \/ CommitProposal(e)
                                  \/ RecordFails(e)
      PROVE  RouteTyped'
  <2>1. /\ \E x \in RoutePhases : phase' = [phase EXCEPT ![e] = x]
        /\ UNCHANGED <<world, event, quiet, found, base, row, dispatched, since>>
    BY <1>3 DEF Expire, StartSeeding, SeedCommit, CommitProposal, RecordFails, Move, RoutePhases, history
  <2> QED BY <1>1, <2>1 DEF RouteTyped, world
<1>4. ASSUME NEW e \in Emissions, Loaded(e), \E f \in Emissions : seeded[f] > 0,
             UNCHANGED <<world, event, quiet, row, dispatched, since>>
      PROVE  RouteTyped'
  <2>1. PICK n \in 1..11 : \E chosen \in SUBSET Channels :
           /\ found' = [found EXCEPT ![e] = <<n, Len(promoted)>>]
           /\ base' = [base EXCEPT ![e] = chosen]
           /\ phase' = [phase EXCEPT ![e] = IF chosen = {} THEN "asking" ELSE "filtering"]
    BY <1>1, <1>4, LoadedOK
  <2>2. Len(promoted) \in Nat
    BY <1>1, TablesProperties DEF TablesTyped
  <2>3. <<n, Len(promoted)>> \in (0..11) \X Nat
    BY <2>2
  <2>4. found' \in [Emissions -> (0..11) \X Nat]
    BY <1>1, <2>1, <2>3 DEF RouteTyped
  <2>5. phase' \in [Emissions -> RoutePhases] /\ base' \in [Emissions -> SUBSET Channels]
    BY <1>1, <2>1 DEF RouteTyped, RoutePhases
  <2> QED BY <1>1, <1>4, <2>4, <2>5 DEF RouteTyped, world
<1>5. ASSUME NEW e \in Emissions, LoadRules(e) PROVE RouteTyped'
  BY <1>1, <1>4, <1>5, TableHasDefaults DEF LoadRules
<1>6. ASSUME NEW e \in Emissions, Reload(e) PROVE RouteTyped'
  <2>1. seeded[e] = 11
    BY <1>6 DEF Reload, RouterInv, EmissionOK
  <2>2. seeded[e] > 0
    BY <2>1
  <2> QED BY <1>4, <1>6, <2>2 DEF Reload
<1>7. ASSUME NEW e \in Emissions, SeedRule(e) \/ CountHit(e) \/ InsertProposal(e) PROVE RouteTyped'
  <2>1. /\ phase' = phase \/ phase' = [phase EXCEPT ![e] = "committing"]
        /\ UNCHANGED <<world, event, quiet, found, base, row, dispatched, since>>
    BY <1>7 DEF SeedRule, CountHit, InsertProposal, Move, routing, history
  <2> QED BY <1>1, <2>1 DEF RouteTyped, world, RoutePhases
<1>8. ASSUME NEW e \in Emissions, NoPick(e) PROVE RouteTyped'
  <2>1. {"digest"} \in SUBSET Channels
    BY DEF Channels, Builtins
  <2> QED BY <1>1, <1>8, <2>1 DEF NoPick, Move, RouteTyped, RoutePhases, world, history
<1>9. ASSUME NEW e \in Emissions, NEW p \in Picks, Pick(e, p) PROVE RouteTyped'
  <2>1. {"digest"} \in SUBSET Channels /\ p \in SUBSET Channels
    BY ConstantsAssumption DEF Channels, Builtins
  <2> QED BY <1>1, <1>9, <2>1 DEF Pick, Move, RouteTyped, RoutePhases, world, history
<1>10. ASSUME NEW e \in Emissions, FindProposal(e) PROVE RouteTyped'
  <2> DEFINE rows == Pending(Topic(event[e]), base[e])
             x == IF rows = {} THEN 0 ELSE CHOOSE p \in rows : \A q \in rows : p <= q
  <2>1. rows \in SUBSET Nat
    <3>1. DOMAIN proposals \subseteq Nat
      BY <1>1, LenProperties DEF TablesTyped, TablesOK
    <3> QED BY <3>1 DEF Pending
  <2>2. x \in Nat
    <3> HIDE DEF rows
    <3>1. rows # {} => \E p \in rows : \A q \in rows : p <= q
      BY <2>1, LeastNumber
    <3> QED BY <2>1, <3>1
  <2>3. row' = [row EXCEPT ![e] = x]
    BY <1>10 DEF FindProposal
  <2> HIDE DEF x, rows
  <2>4. /\ phase' = [phase EXCEPT ![e] = "writing"]
        /\ UNCHANGED <<world, event, quiet, found, base, dispatched, since>>
    BY <1>10 DEF FindProposal, Move
  <2> QED BY <1>1, <2>2, <2>3, <2>4 DEF RouteTyped, RoutePhases, world
<1>11. ASSUME NEW e \in Emissions, Filter(e) PROVE RouteTyped'
  <2>1. found[e][1] > 0
    BY <1>11 DEF Filter, Move, RouterInv, EmissionOK
  <2>2. \E d \in SUBSET Channels : dispatched' = [dispatched EXCEPT ![e] = d]
    BY <1>1, <1>11, <2>1, FilterOK
  <2>3. Forget({e}) /\ phase' = [phase EXCEPT ![e] = "decided"] /\ UNCHANGED <<world, event>>
    BY <1>11 DEF Filter, Move
  <2>4. {e} \in SUBSET Emissions
    OBVIOUS
  <2> QED BY <1>1, <2>2, <2>3, <2>4, ForgetTyped DEF RouteTyped, RoutePhases, world
<1>12. ASSUME NEW r \in Reviews, ReviewStep(r) PROVE RouteTyped'
  <2>1. UNCHANGED <<world, routing, since>>
    BY <1>12 DEF ReviewStep, AcceptRead, DismissMark, AcceptInsert, AcceptMark, AcceptCommit,
                 DismissCommit, history
  <2> QED BY <1>1, <2>1 DEF RouteTyped, world, routing
<1>13. CASE SetQuiet
  BY <1>1, <1>13 DEF SetQuiet, RouteTyped, routing
<1>14. CASE RevokeDevice
  <2>1. registry' = registry \ {Device} /\ Device \notin Builtins
    BY <1>14 DEF RevokeDevice, Device, Builtins
  <2> QED BY <1>1, <1>14, <2>1 DEF RevokeDevice, RouteTyped, routing, history
<1>15. CASE OtherCommit \/ UNCHANGED vars
  BY <1>1, <1>15 DEF OtherCommit, vars, world, RouteTyped, routing, history
<1>16. CASE Crash
  <2>1. /\ phase' = [e \in Emissions |-> IF phase[e] \in {"idle", "decided", "expired"}
                                         THEN phase[e] ELSE "lost"]
        /\ Forget(Emissions) /\ UNCHANGED <<world, event, dispatched>>
    BY <1>16 DEF Crash
  <2>2. phase' \in [Emissions -> RoutePhases]
    BY <1>1, <2>1 DEF RouteTyped, RoutePhases
  <2>3. Emissions \in SUBSET Emissions
    OBVIOUS
  <2> QED BY <1>1, <2>1, <2>2, <2>3, ForgetTyped DEF RouteTyped, world
<1> QED
  BY <1>2, <1>3, <1>5, <1>6, <1>7, <1>8, <1>9, <1>10, <1>11, <1>12, <1>13, <1>14, <1>15, <1>16
  DEF Next, RouteStep

LEMMA ReviewTypedStep ==
  ASSUME RouterInv, [Next]_vars
  PROVE  ReviewTyped'
<1>1. ReviewTyped /\ DOMAIN proposals \subseteq Nat
  BY LenProperties DEF RouterInv, RouterTypeOK, TablesTyped, TablesOK
<1>2. ASSUME NEW r \in Reviews, ReviewStep(r) PROVE ReviewTyped'
  <2>1. /\ \E x \in ReviewPhases : review' = [review EXCEPT ![r] = x]
        /\ subject' = subject \/ \E p \in DOMAIN proposals : subject' = [subject EXCEPT ![r] = p]
    BY <1>2 DEF ReviewStep, AcceptRead, DismissMark, AcceptInsert, AcceptMark, AcceptCommit,
                DismissCommit, MoveReview, ReviewPhases
  <2> QED BY <1>1, <2>1 DEF ReviewTyped
<1>3. CASE Crash
  BY <1>1, <1>3 DEF Crash, ReviewTyped, ReviewPhases
<1>4. ASSUME NEW e \in Emissions, RouteStep(e) PROVE UNCHANGED <<review, subject>>
  BY <1>4 DEF RouteStep, Begin, Expire, LoadRules, StartSeeding, SeedRule, SeedCommit, Reload,
              NoPick, Pick, FindProposal, CountHit, InsertProposal, CommitProposal, RecordFails,
              Filter, reviews
<1>5. CASE SetQuiet \/ RevokeDevice \/ OtherCommit \/ UNCHANGED vars
  BY <1>1, <1>5 DEF SetQuiet, RevokeDevice, OtherCommit, vars, reviews, ReviewTyped
<1> QED BY <1>1, <1>2, <1>3, <1>4, <1>5 DEF Next, ReviewTyped

\* Nothing of emission f changes, but that do_not_disturb may be switched.
Stays(f) ==
  /\ phase'[f] = phase[f] /\ event'[f] = event[f] /\ found'[f] = found[f] /\ base'[f] = base[f]
  /\ row'[f] = row[f] /\ dispatched'[f] = dispatched[f] /\ quiet'[f] = quiet[f]
  /\ f \in since' => f \in since

LEMMA StaysOK ==
  ASSUME TablesTyped, TablesTyped', Grown, NEW f \in Emissions, EmissionOK(f), Stays(f)
  PROVE  EmissionOK(f)'
<1>1. /\ seeded \in [Emissions -> 0..11] /\ seeded' \in [Emissions -> 0..11]
      /\ Len(proposals) \in Nat /\ Len(proposals') \in Nat
  BY TablesProperties DEF TablesTyped, TablesOK
<1>2. seeded[f] = 11 => seeded'[f] = 11
  BY <1>1 DEF Grown
<1>3. (\E g \in Emissions : seeded[g] > 0) => \E g \in Emissions : seeded'[g] > 0
  <2> SUFFICES ASSUME NEW g \in Emissions, seeded[g] > 0 PROVE seeded'[g] > 0
    OBVIOUS
  <2>1. seeded[g] \in 0..11 /\ seeded'[g] \in 0..11 /\ seeded'[g] >= seeded[g]
    BY <1>1 DEF Grown
  <2> QED BY <2>1
<1>4. 1..Len(proposals) \subseteq 1..Len(proposals')
  BY <1>1 DEF Grown
<1> QED BY <1>2, <1>3, <1>4 DEF EmissionOK, Stays

\* A step of emission e is of no other.
LEMMA OtherEmissions ==
  ASSUME RouteTyped, NEW e \in Emissions, NEW f \in Emissions, f # e, RouteStep(e)
  PROVE  Stays(f)
<1>1. ASSUME NEW k \in Kinds, Begin(e, k) PROVE Stays(f)
  BY <1>1 DEF Begin, Move, RouteTyped, Stays
<1>2. CASE Expire(e) \/ StartSeeding(e) \/ SeedRule(e) \/ SeedCommit(e)
  BY <1>2 DEF Expire, StartSeeding, SeedRule, SeedCommit, Move, RouteTyped, Stays, routing, history
<1>3. CASE LoadRules(e) \/ Reload(e)
  <2>1. /\ \E x : phase' = [phase EXCEPT ![e] = x]
        /\ \E x : found' = [found EXCEPT ![e] = x]
        /\ \E x : base' = [base EXCEPT ![e] = x]
        /\ UNCHANGED <<event, quiet, row, dispatched, since>>
    BY <1>3 DEF LoadRules, Reload, Loaded
  <2> QED BY <2>1 DEF RouteTyped, Stays
<1>4. CASE NoPick(e) \/ \E p \in Picks : Pick(e, p)
  <2>1. /\ \E x : phase' = [phase EXCEPT ![e] = x]
        /\ \E x : base' = [base EXCEPT ![e] = x]
        /\ UNCHANGED <<event, quiet, found, row, dispatched, since>>
    BY <1>4 DEF NoPick, Pick, Move, history
  <2> QED BY <2>1 DEF RouteTyped, Stays
<1>5. CASE FindProposal(e)
  <2>1. /\ \E x : phase' = [phase EXCEPT ![e] = x]
        /\ \E x : row' = [row EXCEPT ![e] = x]
        /\ UNCHANGED <<event, quiet, found, base, dispatched, since>>
    BY <1>5 DEF FindProposal, Move
  <2> QED BY <2>1 DEF RouteTyped, Stays
<1>6. CASE CountHit(e) \/ InsertProposal(e) \/ CommitProposal(e) \/ RecordFails(e)
  BY <1>6 DEF CountHit, InsertProposal, CommitProposal, RecordFails, Move, RouteTyped, Stays, history
<1>7. CASE Filter(e)
  <2>1. /\ \E x : phase' = [phase EXCEPT ![e] = x]
        /\ \E x : dispatched' = [dispatched EXCEPT ![e] = x]
        /\ Forget({e}) /\ event' = event
    BY <1>7 DEF Filter, Move
  <2>2. {e} \in SUBSET Emissions /\ f \in Emissions \ {e}
    OBVIOUS
  <2>3. /\ quiet'[f] = quiet[f] /\ found'[f] = found[f] /\ base'[f] = base[f] /\ row'[f] = row[f]
        /\ f \in since' => f \in since
    BY <2>1, <2>2, ForgetTyped
  <2> QED BY <2>1, <2>3 DEF RouteTyped, Stays
<1> QED BY <1>1, <1>2, <1>3, <1>4, <1>5, <1>6, <1>7 DEF RouteStep

LEMMA EmissionStep ==
  ASSUME RouterInv, TablesTyped', Grown, NEW e \in Emissions, RouteStep(e)
  PROVE  EmissionOK(e)'
<1>1. /\ RouteTyped /\ TablesTyped /\ EmissionOK(e)
      /\ proposals \in Seq(Proposals) /\ seeded \in [Emissions -> 0..11]
  BY DEF RouterInv, RouterTypeOK, TablesTyped, TablesOK
<1>2. ASSUME NEW k \in Kinds, Begin(e, k) PROVE EmissionOK(e)'
  <2>1. /\ phase'[e] = "loading" /\ event'[e] = k /\ quiet'[e] = dnd
        /\ phase[e] = "idle" /\ (dnd \/ since' = since)
    BY <1>1, <1>2 DEF Begin, Move, RouteTyped
  <2>2. e \in since' => quiet'[e]
    BY <1>1, <2>1 DEF EmissionOK
  <2> QED BY <1>1, <2>1, <2>2 DEF EmissionOK
<1>3. CASE Expire(e) \/ StartSeeding(e)
  <2>1. /\ phase[e] = "loading" /\ phase'[e] \in {"expired", "seeding"}
        /\ UNCHANGED <<event, quiet, since>>
    BY <1>1, <1>3 DEF Expire, StartSeeding, Move, RouteTyped, history
  <2> QED BY <1>1, <2>1 DEF EmissionOK
<1>4. ASSUME Loaded(e), phase[e] \in {"loading", "reloading"}, \E f \in Emissions : seeded[f] > 0,
             UNCHANGED <<seeded, event, quiet, since>>
      PROVE  EmissionOK(e)'
  <2>1. PICK n \in 1..11 : \E chosen \in SUBSET Channels :
           /\ found' = [found EXCEPT ![e] = <<n, Len(promoted)>>]
           /\ base' = [base EXCEPT ![e] = chosen]
           /\ phase' = [phase EXCEPT ![e] = IF chosen = {} THEN "asking" ELSE "filtering"]
           /\ event[e].urgency = "urgent" => chosen = registry /\ chosen # {}
    BY <1>1, <1>4, LoadedOK
  <2>2. PICK chosen \in SUBSET Channels :
           /\ found' = [found EXCEPT ![e] = <<n, Len(promoted)>>]
           /\ base' = [base EXCEPT ![e] = chosen]
           /\ phase' = [phase EXCEPT ![e] = IF chosen = {} THEN "asking" ELSE "filtering"]
           /\ event[e].urgency = "urgent" => chosen = registry /\ chosen # {}
    BY <2>1
  <2>3. found'[e][1] = n /\ n > 0 /\ base'[e] = chosen
        /\ phase'[e] = IF chosen = {} THEN "asking" ELSE "filtering"
    BY <1>1, <2>2 DEF RouteTyped
  <2>4. phase'[e] \in {"asking", "filtering"} /\ (phase'[e] = "asking" => event[e].urgency # "urgent")
    BY <2>2, <2>3
  <2>5. event[e].urgency = "urgent" => Builtins \subseteq base'[e]
    BY <1>1, <2>2, <2>3 DEF RouteTyped
  <2> QED BY <1>1, <1>4, <2>3, <2>4, <2>5 DEF EmissionOK
<1>5. CASE LoadRules(e)
  <2>1. phase[e] = "loading" /\ \E f \in Emissions : seeded[f] > 0
    BY <1>1, <1>5, TableHasDefaults DEF LoadRules
  <2> QED BY <1>4, <1>5, <2>1 DEF LoadRules, tables
<1>6. CASE Reload(e)
  <2>1. phase[e] = "reloading" /\ seeded[e] = 11
    BY <1>1, <1>6 DEF Reload, EmissionOK
  <2>2. seeded[e] > 0
    BY <2>1
  <2> QED BY <1>4, <1>6, <2>1, <2>2 DEF Reload, tables
<1>7. CASE SeedRule(e)
  <2>1. phase[e] = "seeding" /\ UNCHANGED <<routing, since>>
    BY <1>7 DEF SeedRule, history
  <2> QED BY <1>1, <2>1 DEF EmissionOK, routing
<1>8. CASE SeedCommit(e)
  <2>1. phase'[e] = "reloading" /\ seeded'[e] = 11 /\ phase[e] = "seeding"
        /\ UNCHANGED <<event, quiet, since>>
    BY <1>1, <1>8, TheDefaults DEF SeedCommit, Move, RouteTyped, tables
  <2> QED BY <1>1, <2>1 DEF EmissionOK
<1>9. CASE NoPick(e) \/ \E p \in Picks : Pick(e, p)
  <2>1. /\ phase[e] = "asking" /\ UNCHANGED <<seeded, event, quiet, found, since>>
        /\ \E x \in {"filtering", "recording"} : phase' = [phase EXCEPT ![e] = x]
    BY <1>9 DEF NoPick, Pick, Move, history, tables
  <2>2. \E c : c # {} /\ base' = [base EXCEPT ![e] = c]
    <3>1. ASSUME NEW p \in Picks, Pick(e, p)
          PROVE  base' = [base EXCEPT ![e] = IF p = {} THEN {"digest"} ELSE p]
      BY <3>1 DEF Pick
    <3>2. NoPick(e) => base' = [base EXCEPT ![e] = {"digest"}]
      BY DEF NoPick
    <3>3. {"digest"} # {} /\ \A p : (IF p = {} THEN {"digest"} ELSE p) # {}
      OBVIOUS
    <3> QED BY <1>9, <3>1, <3>2, <3>3
  <2>3. phase'[e] \in {"filtering", "recording"} /\ base'[e] # {}
    BY <1>1, <2>1, <2>2 DEF RouteTyped
  <2> QED BY <1>1, <2>1, <2>3 DEF EmissionOK
<1>10. CASE FindProposal(e)
  <2> DEFINE rows == Pending(Topic(event[e]), base[e])
  <2>1. /\ phase[e] = "recording" /\ phase'[e] = "writing"
        /\ row'[e] = IF rows = {} THEN 0 ELSE CHOOSE p \in rows : \A q \in rows : p <= q
        /\ UNCHANGED <<seeded, proposals, event, quiet, found, base, since>>
    BY <1>1, <1>10 DEF FindProposal, Move, RouteTyped, tables
  <2>2. rows \subseteq 1..Len(proposals) /\ rows \in SUBSET Nat
    <3>1. DOMAIN proposals = 1..Len(proposals) /\ Len(proposals) \in Nat
      BY <1>1, LenProperties
    <3> QED BY <3>1 DEF Pending
  <2> HIDE DEF rows
  <2>3. row'[e] = 0 \/ row'[e] \in 1..Len(proposals')
    <3>1. rows # {} => \E p \in rows : \A q \in rows : p <= q
      BY <2>2, LeastNumber
    <3> QED BY <2>1, <2>2, <3>1
  <2> QED BY <1>1, <2>1, <2>3 DEF EmissionOK
<1>11. CASE CountHit(e) \/ InsertProposal(e) \/ CommitProposal(e) \/ RecordFails(e)
  <2>1. /\ phase[e] \in {"recording", "writing", "committing"}
        /\ phase'[e] \in {"committing", "filtering"}
        /\ UNCHANGED <<seeded, event, quiet, found, since>>
    BY <1>1, <1>11 DEF CountHit, InsertProposal, CommitProposal, RecordFails, Move, RouteTyped,
                       history, tables
  <2> QED BY <1>1, <2>1 DEF EmissionOK
<1>12. CASE Filter(e)
  <2>1. /\ phase[e] = "filtering" /\ phase'[e] = "decided" /\ event' = event /\ Forget({e})
        /\ found[e][1] > 0
        /\ event[e].urgency = "urgent" => Builtins \subseteq base[e]
    BY <1>1, <1>12 DEF Filter, Move, RouteTyped, EmissionOK
  <2>2. PICK d \in SUBSET Channels :
           /\ dispatched' = [dispatched EXCEPT ![e] = d] /\ d # {}
           /\ event[e].urgency = "urgent" /\ Builtins \subseteq base[e] => d \ {"digest"} # {}
    BY <1>1, <1>12, <2>1, FilterOK
  <2>3. e \notin since' /\ dispatched'[e] = d
    BY <1>1, <2>1, <2>2 DEF Forget, RouteTyped
  <2> QED BY <1>1, <2>1, <2>2, <2>3 DEF EmissionOK
<1> QED BY <1>2, <1>3, <1>5, <1>6, <1>7, <1>8, <1>9, <1>10, <1>11, <1>12 DEF RouteStep

LEMMA EmissionsStep ==
  ASSUME RouterInv, TablesTyped', Grown \/ Crash, [Next]_vars, NEW f \in Emissions
  PROVE  EmissionOK(f)'
<1>1. RouteTyped /\ TablesTyped /\ EmissionOK(f)
  BY DEF RouterInv, RouterTypeOK
<1>2. CASE Crash
  <2>1. /\ phase'[f] \in {"idle", "decided", "expired", "lost"}
        /\ phase'[f] \in {"idle", "decided", "expired"} => phase'[f] = phase[f]
        /\ phase'[f] = "lost" => phase[f] # "idle"
        /\ f \notin since' /\ UNCHANGED <<event, dispatched>>
    BY <1>2 DEF Crash, Forget
  <2> QED BY <1>1, <2>1 DEF EmissionOK
<1>3. ASSUME Grown, NEW e \in Emissions, RouteStep(e) PROVE EmissionOK(f)'
  BY <1>1, <1>3, EmissionStep, OtherEmissions, StaysOK
<1>4. ASSUME Grown, Stays(f) PROVE EmissionOK(f)'
  BY <1>1, <1>4, StaysOK
<1>5. ASSUME NEW r \in Reviews, ReviewStep(r) PROVE Stays(f)
  BY <1>5 DEF ReviewStep, AcceptRead, DismissMark, AcceptInsert, AcceptMark, AcceptCommit,
              DismissCommit, routing, history, Stays
<1>6. CASE SetQuiet \/ RevokeDevice \/ OtherCommit \/ UNCHANGED vars
  <2>1. Stays(f)
    BY <1>6 DEF SetQuiet, RevokeDevice, OtherCommit, vars, routing, history, Stays
  <2> QED BY <1>2, <1>4, <2>1
<1> QED BY <1>2, <1>3, <1>4, <1>5, <1>6 DEF Next

-----------------------------------------------------------------------------
(* Reviews and acknowledgements.                                           *)

LEMMA ReviewsStep ==
  ASSUME RouterInv, TablesTyped', Grown \/ Crash, [Next]_vars, NEW r \in Reviews
  PROVE  ReviewOK(r)'
<1>1. /\ ReviewTyped /\ ReviewOK(r) /\ DOMAIN proposals = 1..Len(proposals)
      /\ Len(proposals) \in Nat /\ Len(promoted) \in Nat /\ promoted \in Seq(Nat)
      /\ Len(proposals') \in Nat /\ Len(promoted') \in Nat
  BY LenProperties, TablesProperties DEF RouterInv, RouterTypeOK, TablesTyped, TablesOK
<1>2. CASE Crash
  <2>1. review'[r] \in {"idle", "ok", "refused", "lost"}
    BY <1>2 DEF Crash
  <2> QED BY <2>1 DEF ReviewOK
<1> SUFFICES ASSUME Grown PROVE ReviewOK(r)'
  BY <1>2
<1>3. /\ 1..Len(proposals) \subseteq 1..Len(proposals') /\ 1..Len(promoted) \subseteq 1..Len(promoted')
      /\ \A i \in 1..Len(promoted) : promoted'[i] = promoted[i]
  BY <1>1 DEF Grown
<1>4. ASSUME review'[r] = review[r], subject'[r] = subject[r] PROVE ReviewOK(r)'
  BY <1>1, <1>3, <1>4 DEF ReviewOK
<1>5. ASSUME NEW q \in Reviews, ReviewStep(q), q # r PROVE ReviewOK(r)'
  <2>1. /\ \E x : review' = [review EXCEPT ![q] = x]
        /\ subject' = subject \/ \E x : subject' = [subject EXCEPT ![q] = x]
    BY <1>5 DEF ReviewStep, AcceptRead, DismissMark, AcceptInsert, AcceptMark, AcceptCommit,
                DismissCommit, MoveReview
  <2>2. review'[r] = review[r] /\ subject'[r] = subject[r]
    BY <1>1, <1>5, <2>1 DEF ReviewTyped
  <2> QED BY <1>4, <2>2
<1>6. ASSUME ReviewStep(r) PROVE ReviewOK(r)'
  <2>1. ASSUME NEW p \in DOMAIN proposals, AcceptRead(r, p) \/ DismissMark(r, p) PROVE ReviewOK(r)'
    <3>1. subject' = [subject EXCEPT ![r] = p]
          /\ \E x \in {"read", "refused", "dismissed"} : review' = [review EXCEPT ![r] = x]
      BY <2>1 DEF AcceptRead, DismissMark, MoveReview
    <3>2. subject'[r] = p /\ review'[r] \in {"read", "refused", "dismissed"}
      BY <1>1, <3>1 DEF ReviewTyped
    <3> QED BY <1>1, <1>3, <3>2 DEF ReviewOK
  <2>2. CASE AcceptInsert(r)
    <3>1. /\ review[r] = "read" /\ review' = [review EXCEPT ![r] = "inserted"] /\ subject' = subject
          /\ promoted' = Append(promoted, subject[r]) /\ subject[r] \in Nat
      BY <1>1, <2>2 DEF AcceptInsert, MoveReview, ReviewTyped
    <3>2. Len(promoted') = Len(promoted) + 1 /\ promoted'[Len(promoted) + 1] = subject[r]
      BY <1>1, <3>1, AppendProperties
    <3>3. Len(promoted) + 1 \in 1..Len(promoted')
      BY <1>1, <3>2
    <3>4. review'[r] = "inserted"
      BY <1>1, <3>1 DEF ReviewTyped
    <3> QED BY <1>1, <1>3, <3>1, <3>2, <3>3, <3>4 DEF ReviewOK
  <2>3. CASE AcceptMark(r)
    <3>1. review[r] = "inserted" /\ review'[r] = "marked" /\ subject' = subject
      BY <1>1, <2>3 DEF AcceptMark, MoveReview, ReviewTyped
    <3> QED BY <1>1, <1>3, <3>1 DEF ReviewOK
  <2>4. CASE AcceptCommit(r) \/ DismissCommit(r)
    <3>1. review'[r] = "ok"
      BY <1>1, <2>4 DEF AcceptCommit, DismissCommit, MoveReview, ReviewTyped
    <3> QED BY <3>1 DEF ReviewOK
  <2> QED BY <1>6, <2>1, <2>2, <2>3, <2>4 DEF ReviewStep
<1>7. ASSUME NEW e \in Emissions, RouteStep(e) PROVE UNCHANGED <<review, subject>>
  BY <1>7 DEF RouteStep, Begin, Expire, LoadRules, StartSeeding, SeedRule, SeedCommit, Reload,
              NoPick, Pick, FindProposal, CountHit, InsertProposal, CommitProposal, RecordFails,
              Filter, reviews
<1>8. CASE SetQuiet \/ RevokeDevice \/ OtherCommit \/ UNCHANGED vars
  <2>1. UNCHANGED <<review, subject>>
    BY <1>8 DEF SetQuiet, RevokeDevice, OtherCommit, vars, reviews
  <2> QED BY <1>4, <2>1
<1> QED BY <1>2, <1>4, <1>5, <1>6, <1>7, <1>8 DEF Next

\* A rule promoted from a proposal of topic t.
Has(rules, asked, t) == \E i \in 1..Len(rules) : asked[rules[i]].topic = t

LEMMA AckedStep ==
  ASSUME RouterInv, (Grown /\ Moves) \/ Crash, [Next]_vars
  PROVE  AckedOK'
<1>1. /\ TablesOK(seeded, promoted, proposals) /\ AckedOK
      /\ Len(promoted) \in Nat
      /\ \A i \in 1..Len(promoted) : promoted[i] \in 1..Len(proposals)
  BY TablesProperties DEF RouterInv, RouterTypeOK, TablesTyped
<1> DEFINE Here(t) == Has(promoted, proposals, t)
           There(t) == Has(saved.promoted, saved.proposals, t)
<1>2. \A t \in acked : Here(t) /\ There(t)
  BY <1>1 DEF AckedOK, Has
<1>3. CASE Crash
  <2>1. /\ acked' = acked /\ saved' = saved
        /\ promoted' = saved.promoted /\ proposals' = saved.proposals
    BY <1>3 DEF Crash
  <2> QED BY <1>2, <2>1 DEF AckedOK, Has
<1> SUFFICES ASSUME Grown, Moves PROVE AckedOK'
  BY <1>3
<1>4. \A t : Here(t) => Here(t)'
  <2> SUFFICES ASSUME NEW i \in 1..Len(promoted)
               PROVE  /\ i \in 1..Len(promoted')
                      /\ proposals'[promoted'[i]].topic = proposals[promoted[i]].topic
    BY DEF Has
  <2>1. promoted[i] \in 1..Len(proposals) /\ promoted'[i] = promoted[i]
    BY <1>1 DEF Grown
  <2>2. Len(promoted) <= Len(promoted') /\ Len(promoted') \in Nat
    <3>1. Len(promoted') \in Nat
      BY TablesStep, TablesProperties DEF TablesTyped, RouterInv, RouterTypeOK
    <3> QED BY <3>1 DEF Grown
  <2> QED BY <1>1, <2>1, <2>2 DEF Grown, Amends
<1>5. ASSUME NEW t, Here(t), There(t) PROVE Here(t)' /\ There(t)'
  <2>1. saved' = saved \/ (saved'.promoted = promoted /\ saved'.proposals = proposals)
    BY DEF Moves, SeedsOne, AmendsOne, AddsOne, PromotesOne, CommitsAll
  <2> QED BY <1>4, <1>5, <2>1 DEF Has
<1>6. ASSUME acked' = acked PROVE AckedOK'
  <2>1. \A t \in acked : Here(t)' /\ There(t)'
    BY <1>2, <1>5
  <2> QED BY <1>6, <2>1 DEF AckedOK, Has
<1>7. ASSUME NEW r \in Reviews, AcceptCommit(r) PROVE AckedOK'
  <2> DEFINE t == proposals[subject[r]].topic
  <2>1. /\ review[r] = "marked" /\ acked' = acked \cup {t}
        /\ saved'.promoted = promoted /\ saved'.proposals = proposals
        /\ UNCHANGED <<promoted, proposals>>
    BY <1>7 DEF AcceptCommit, MoveReview, Commit, tables
  <2>2. Here(t)
    BY <2>1 DEF RouterInv, ReviewOK, Has
  <2> HIDE DEF t
  <2>3. \A s \in acked' : Here(s)
    BY <1>2, <2>1, <2>2
  <2> QED BY <2>1, <2>3 DEF AckedOK, Has
<1>8. ASSUME NEW e \in Emissions, RouteStep(e) PROVE acked' = acked
  BY <1>8 DEF RouteStep, Begin, Expire, LoadRules, StartSeeding, SeedRule, SeedCommit, Reload,
              NoPick, Pick, FindProposal, CountHit, InsertProposal, CommitProposal, RecordFails,
              Filter, history
<1>9. ASSUME NEW r \in Reviews, ReviewStep(r) PROVE AcceptCommit(r) \/ acked' = acked
  BY <1>9 DEF ReviewStep, AcceptRead, DismissMark, AcceptInsert, AcceptMark, DismissCommit, history
<1>10. CASE SetQuiet \/ RevokeDevice \/ OtherCommit \/ UNCHANGED vars
  <2>1. acked' = acked
    BY <1>10 DEF SetQuiet, RevokeDevice, OtherCommit, vars, history
  <2> QED BY <1>6, <2>1
<1> QED BY <1>3, <1>6, <1>7, <1>8, <1>9, <1>10 DEF Next

-----------------------------------------------------------------------------
(* One rule for a proposal.                                                *)

\* An accept of proposal p is between its SELECT and its commit.
Busy(r, p) == subject[r] = p /\ review[r] \in {"read", "inserted", "marked"}

\* Review r stays where it is, unless it has nothing to do with an acceptance of p.
Same(r, p) == (subject'[r] = subject[r] /\ review'[r] = review[r]) \/ (~Busy(r, p) /\ ~Busy(r, p)')

\* A step that promotes no proposal p, and moves no acceptance of it.
LEMMA OnceKept ==
  ASSUME TablesTyped, Grown, NEW p \in Nat, OnceOK(p), saved' = saved \/ CommitsAll,
         \A i \in 1..Len(promoted') : promoted'[i] = p => i \in 1..Len(promoted) /\ promoted[i] = p,
         \A r \in Reviews : Same(r, p)
  PROVE  OnceOK(p)'
<1>1. \A i \in 1..Len(promoted) : promoted[i] \in 1..Len(proposals)
  BY DEF TablesTyped, TablesOK
<1>2. \A i \in 1..Len(promoted) : promoted[i] = p /\ proposals[p].accepted => proposals'[p].accepted
  BY <1>1 DEF Grown, Amends
<1>3. \A r \in Reviews : Busy(r, p)' => /\ Busy(r, p) /\ review'[r] = review[r]
                                        /\ subject'[r] = subject[r]
  BY DEF Same, Busy
<1>4. \A r \in Reviews : Busy(r, p) => Busy(r, p)' /\ review'[r] = review[r]
  BY DEF Same, Busy
<1>5. ASSUME NEW r \in Reviews, NEW q \in Reviews, Busy(r, p)', Busy(q, p)' PROVE r = q
  BY <1>3, <1>5 DEF OnceOK, Busy
<1>6. ASSUME NEW i \in 1..Len(promoted'), NEW j \in 1..Len(promoted'), promoted'[i] = p, promoted'[j] = p
      PROVE  i = j
  BY <1>6 DEF OnceOK
<1>7. ASSUME NEW i \in 1..Len(promoted'), promoted'[i] = p
      PROVE  proposals'[p].accepted \/ \E r \in Reviews : subject'[r] = p /\ review'[r] = "inserted"
  <2>1. i \in 1..Len(promoted) /\ promoted[i] = p
    BY <1>7
  <2>2. CASE proposals[p].accepted
    BY <1>2, <2>1, <2>2
  <2>3. CASE \E r \in Reviews : subject[r] = p /\ review[r] = "inserted"
    <3>1. PICK r \in Reviews : subject[r] = p /\ review[r] = "inserted"
      BY <2>3
    <3>2. Busy(r, p)
      BY <3>1 DEF Busy
    <3>3. subject'[r] = p /\ review'[r] = "inserted"
      BY <1>4, <3>1, <3>2 DEF Busy
    <3> QED BY <3>3
  <2> QED BY <2>1, <2>2, <2>3 DEF OnceOK
<1>8. ASSUME NEW r \in Reviews, subject'[r] = p, review'[r] = "read", NEW i \in 1..Len(promoted')
      PROVE  promoted'[i] # p
  <2>1. Busy(r, p)'
    BY <1>8 DEF Busy
  <2>2. subject[r] = p /\ review[r] = "read"
    BY <1>3, <1>8, <2>1
  <2> QED BY <2>2 DEF OnceOK
<1>9. /\ \A i, j \in 1..Len(saved'.promoted) :
           saved'.promoted[i] = p /\ saved'.promoted[j] = p => i = j
      /\ \A i \in 1..Len(saved'.promoted) : saved'.promoted[i] = p =>
           \/ saved'.proposals[p].accepted
           \/ \E r \in Reviews : subject[r] = p /\ review[r] \in {"inserted", "marked"}
  BY DEF OnceOK, CommitsAll
<1>10. ASSUME NEW i \in 1..Len(saved'.promoted), saved'.promoted[i] = p
       PROVE  \/ saved'.proposals[p].accepted
              \/ \E r \in Reviews : subject'[r] = p /\ review'[r] \in {"inserted", "marked"}
  <2>1. CASE \E r \in Reviews : subject[r] = p /\ review[r] \in {"inserted", "marked"}
    <3>1. PICK r \in Reviews : subject[r] = p /\ review[r] \in {"inserted", "marked"}
      BY <2>1
    <3>2. Busy(r, p)
      BY <3>1 DEF Busy
    <3>3. subject'[r] = p /\ review'[r] \in {"inserted", "marked"}
      BY <1>4, <3>1, <3>2 DEF Busy
    <3> QED BY <3>3
  <2> QED BY <1>9, <1>10, <2>1
<1>11. \A r, q \in Reviews :
         subject'[r] = p /\ subject'[q] = p /\ review'[r] \in {"read", "inserted", "marked"}
           /\ review'[q] \in {"read", "inserted", "marked"} => r = q
  BY <1>5 DEF Busy
<1>12. \A r \in Reviews : subject'[r] = p /\ review'[r] = "read" =>
         \A i \in 1..Len(promoted') : promoted'[i] # p
  BY <1>8
<1>13. \A i, j \in 1..Len(promoted') : promoted'[i] = p /\ promoted'[j] = p => i = j
  BY <1>6
<1> QED BY <1>7, <1>9, <1>10, <1>11, <1>12, <1>13 DEF OnceOK

\* A commit: what is saved is what the table has.
LEMMA OnceSaved ==
  ASSUME NEW p \in Nat, OnceOK(p), CommitsAll,
         \A r \in Reviews : review[r] = "inserted" => review'[r] = "inserted",
         \A r \in Reviews : Busy(r, p)' => Busy(r, p) /\ review'[r] = review[r],
         subject' = subject
  PROVE  OnceOK(p)'
<1>1. /\ promoted' = promoted /\ proposals' = proposals
      /\ saved'.promoted = promoted /\ saved'.proposals = proposals
  BY DEF CommitsAll
<1>2. \A r, q \in Reviews :
        subject'[r] = p /\ subject'[q] = p /\ review'[r] \in {"read", "inserted", "marked"}
          /\ review'[q] \in {"read", "inserted", "marked"} => r = q
  BY DEF OnceOK, Busy
<1>3. \A i, j \in 1..Len(promoted) : promoted[i] = p /\ promoted[j] = p => i = j
  BY DEF OnceOK
<1>4. \A i \in 1..Len(promoted) : promoted[i] = p =>
        proposals[p].accepted \/ \E r \in Reviews : subject'[r] = p /\ review'[r] = "inserted"
  BY DEF OnceOK
<1>5. \A r \in Reviews : subject'[r] = p /\ review'[r] = "read" =>
        \A i \in 1..Len(promoted) : promoted[i] # p
  BY DEF OnceOK, Busy
<1> QED BY <1>1, <1>2, <1>3, <1>4, <1>5 DEF OnceOK

LEMMA OnceAccepted ==
  ASSUME RouterInv, NEW p \in Nat, OnceOK(p), p \notin overlapped',
         NEW r \in Reviews, NEW q \in DOMAIN proposals, AcceptRead(r, q)
  PROVE  OnceOK(p)'
<1>1. /\ review \in [Reviews -> ReviewPhases] /\ subject \in [Reviews -> Nat]
      /\ review[r] = "idle" /\ subject' = [subject EXCEPT ![r] = q]
      /\ review' = [review EXCEPT ![r] = IF proposals[q].accepted THEN "refused" ELSE "read"]
      /\ UNCHANGED <<seeded, promoted, proposals, saved>>
      /\ overlapped' = IF Accepting(q) = {} THEN overlapped ELSE overlapped \cup {q}
  BY DEF AcceptRead, MoveReview, RouterInv, RouterTypeOK, ReviewTyped, tables
<1>2. /\ \A s \in Reviews : s # r => review'[s] = review[s] /\ subject'[s] = subject[s]
      /\ subject'[r] = q /\ review'[r] = IF proposals[q].accepted THEN "refused" ELSE "read"
  BY <1>1
<1>3. ASSUME q # p \/ proposals[q].accepted PROVE OnceOK(p)'
  <2>1. \A s \in Reviews : Same(s, p)
    BY <1>1, <1>2, <1>3 DEF Same, Busy
  <2>2. Moves /\ TablesTyped
    BY <1>1 DEF Moves, RouterInv, RouterTypeOK
  <2> QED BY <1>1, <2>1, <2>2, TablesStep, OnceKept
<1>4. ASSUME q = p, ~proposals[p].accepted PROVE OnceOK(p)'
  <2>1. \A s \in Reviews : ~Busy(s, p)
    <3>1. Accepting(p) = {}
      BY <1>1, <1>4
    <3> QED BY <3>1 DEF Accepting, Busy
  <2>2. \A s \in Reviews : Busy(s, p)' => s = r
    BY <1>2, <2>1 DEF Busy
  <2>3. \A i \in 1..Len(promoted) : promoted[i] # p
    BY <1>4, <2>1 DEF OnceOK, Busy
  <2>4. \A i, j \in 1..Len(saved.promoted) : saved.promoted[i] = p /\ saved.promoted[j] = p => i = j
    BY DEF OnceOK
  <2>5. \A i \in 1..Len(saved.promoted) : saved.promoted[i] = p => saved.proposals[p].accepted
    BY <2>1 DEF OnceOK, Busy
  <2>6. \A s, u \in Reviews :
          subject'[s] = p /\ subject'[u] = p /\ review'[s] \in {"read", "inserted", "marked"}
            /\ review'[u] \in {"read", "inserted", "marked"} => s = u
    BY <2>2 DEF Busy
  <2> QED BY <1>1, <2>3, <2>4, <2>5, <2>6 DEF OnceOK
<1> QED BY <1>3, <1>4

LEMMA OnceInserted ==
  ASSUME RouterInv, NEW p \in Nat, OnceOK(p), NEW r \in Reviews, AcceptInsert(r)
  PROVE  OnceOK(p)'
<1>1. /\ review \in [Reviews -> ReviewPhases] /\ subject \in [Reviews -> Nat]
      /\ review[r] = "read" /\ review' = [review EXCEPT ![r] = "inserted"]
      /\ subject' = subject /\ promoted' = Append(promoted, subject[r])
      /\ UNCHANGED <<seeded, proposals, saved>>
      /\ TablesTyped /\ promoted \in Seq(Nat) /\ Len(promoted) \in Nat
  BY LenProperties
     DEF AcceptInsert, MoveReview, RouterInv, RouterTypeOK, ReviewTyped, TablesTyped, TablesOK
<1>2. /\ \A s \in Reviews : s # r => review'[s] = review[s]
      /\ review'[r] = "inserted"
  BY <1>1
<1>3. /\ Len(promoted') = Len(promoted) + 1 /\ promoted'[Len(promoted) + 1] = subject[r]
      /\ \A i \in 1..Len(promoted) : promoted'[i] = promoted[i]
  BY <1>1, AppendProperties
<1>4. \A i \in 1..Len(promoted') : i \in 1..Len(promoted) \/ i = Len(promoted) + 1
  <2>1. \A n \in Nat : \A i \in 1..(n + 1) : i \in 1..n \/ i = n + 1
    OBVIOUS
  <2> QED BY <1>1, <1>3, <2>1
<1>5. ASSUME subject[r] # p PROVE OnceOK(p)'
  <2>1. \A s \in Reviews : Same(s, p)
    BY <1>1, <1>2, <1>5 DEF Same, Busy
  <2>2. \A i \in 1..Len(promoted') : promoted'[i] = p => i \in 1..Len(promoted) /\ promoted[i] = p
    BY <1>3, <1>4, <1>5
  <2>3. subject[r] \in 1..Len(proposals)
    BY <1>1 DEF RouterInv, ReviewOK
  <2>4. Moves
    BY <1>1, <2>3 DEF Moves, PromotesOne
  <2> QED BY <1>1, <2>1, <2>2, <2>4, TablesStep, OnceKept
<1>6. ASSUME subject[r] = p PROVE OnceOK(p)'
  <2>1. \A i \in 1..Len(promoted) : promoted[i] # p
    BY <1>1, <1>6 DEF OnceOK
  <2>2. \A i, j \in 1..Len(promoted') : promoted'[i] = p /\ promoted'[j] = p => i = j
    BY <1>3, <1>4, <2>1
  <2>3. subject'[r] = p /\ review'[r] = "inserted"
    BY <1>1, <1>2, <1>6
  <2>4. \A s, u \in Reviews :
          subject'[s] = p /\ subject'[u] = p /\ review'[s] \in {"read", "inserted", "marked"}
            /\ review'[u] \in {"read", "inserted", "marked"} => s = u
    BY <1>1, <1>2, <1>6 DEF OnceOK
  <2>5. \A s \in Reviews : ~(subject'[s] = p /\ review'[s] = "read")
    BY <2>3, <2>4
  <2>6. \A i, j \in 1..Len(saved.promoted) : saved.promoted[i] = p /\ saved.promoted[j] = p => i = j
    BY DEF OnceOK
  <2>7. \A i \in 1..Len(saved.promoted) : saved.promoted[i] = p =>
          \/ saved.proposals[p].accepted
          \/ \E s \in Reviews : subject'[s] = p /\ review'[s] \in {"inserted", "marked"}
    BY <2>3 DEF OnceOK
  <2> QED BY <1>1, <2>2, <2>3, <2>4, <2>5, <2>6, <2>7 DEF OnceOK
<1> QED BY <1>5, <1>6

LEMMA OnceMarked ==
  ASSUME RouterInv, NEW p \in Nat, OnceOK(p), NEW r \in Reviews, AcceptMark(r)
  PROVE  OnceOK(p)'
<1>1. /\ review \in [Reviews -> ReviewPhases] /\ subject \in [Reviews -> Nat]
      /\ review[r] = "inserted" /\ review' = [review EXCEPT ![r] = "marked"]
      /\ subject' = subject /\ proposals' = [proposals EXCEPT ![subject[r]].accepted = TRUE]
      /\ UNCHANGED <<seeded, promoted, saved>> /\ TablesTyped
      /\ subject[r] \in 1..Len(proposals)
  BY DEF AcceptMark, MoveReview, RouterInv, RouterTypeOK, ReviewTyped, ReviewOK
<1>2. /\ \A s \in Reviews : s # r => review'[s] = review[s]
      /\ review'[r] = "marked"
  BY <1>1
<1>3. ASSUME subject[r] # p PROVE OnceOK(p)'
  <2>1. \A s \in Reviews : Same(s, p)
    BY <1>1, <1>2, <1>3 DEF Same, Busy
  <2>2. Grown
    <3>1. Moves \/ Crash
      BY TablesMove DEF Next, ReviewStep
    <3>2. ~Crash
      BY <1>1, <1>2 DEF Crash
    <3> QED BY <1>1, <3>1, <3>2, TablesStep
  <2> QED BY <1>1, <2>1, <2>2, OnceKept
<1>4. ASSUME subject[r] = p PROVE OnceOK(p)'
  <2>1. proposals'[p].accepted
    <3>1. proposals \in Seq(Proposals) /\ p \in DOMAIN proposals
      BY <1>1, <1>4, LenProperties DEF TablesTyped, TablesOK
    <3>2. proposals'[p] = [proposals[p] EXCEPT !.accepted = TRUE] /\ proposals[p] \in Proposals
      BY <1>1, <1>4, <3>1
    <3> QED BY <3>2 DEF Proposals
  <2>2. \A i, j \in 1..Len(promoted) : promoted[i] = p /\ promoted[j] = p => i = j
    BY DEF OnceOK
  <2>3. subject'[r] = p /\ review'[r] = "marked"
    BY <1>1, <1>2, <1>4
  <2>4. \A s, u \in Reviews :
          subject'[s] = p /\ subject'[u] = p /\ review'[s] \in {"read", "inserted", "marked"}
            /\ review'[u] \in {"read", "inserted", "marked"} => s = u
    BY <1>1, <1>2, <1>4 DEF OnceOK
  <2>5. \A s \in Reviews : ~(subject'[s] = p /\ review'[s] = "read")
    BY <2>3, <2>4
  <2>6. \A i, j \in 1..Len(saved.promoted) : saved.promoted[i] = p /\ saved.promoted[j] = p => i = j
    BY DEF OnceOK
  <2>7. \A i \in 1..Len(saved.promoted) : saved.promoted[i] = p =>
          \/ saved.proposals[p].accepted
          \/ \E s \in Reviews : subject'[s] = p /\ review'[s] \in {"inserted", "marked"}
    BY <2>3 DEF OnceOK
  <2> QED BY <1>1, <2>1, <2>2, <2>4, <2>5, <2>6, <2>7 DEF OnceOK
<1> QED BY <1>3, <1>4

LEMMA OnceDismissed ==
  ASSUME RouterInv, NEW p \in Nat, OnceOK(p), Grown,
         NEW r \in Reviews, NEW q \in DOMAIN proposals, DismissMark(r, q)
  PROVE  OnceOK(p)'
<1>1. /\ review \in [Reviews -> ReviewPhases] /\ subject \in [Reviews -> Nat]
      /\ review[r] = "idle" /\ review' = [review EXCEPT ![r] = "dismissed"]
      /\ subject' = [subject EXCEPT ![r] = q] /\ UNCHANGED <<promoted, saved>> /\ TablesTyped
  BY DEF DismissMark, MoveReview, RouterInv, RouterTypeOK, ReviewTyped
<1>2. \A s \in Reviews : Same(s, p)
  <2>1. \A s \in Reviews : s # r => review'[s] = review[s] /\ subject'[s] = subject[s]
    BY <1>1
  <2>2. review'[r] = "dismissed"
    BY <1>1
  <2> QED BY <1>1, <2>1, <2>2 DEF Same, Busy
<1> QED BY <1>1, <1>2, OnceKept

LEMMA OnceCommitted ==
  ASSUME RouterInv, NEW p \in Nat, OnceOK(p), NEW r \in Reviews, AcceptCommit(r) \/ DismissCommit(r)
  PROVE  OnceOK(p)'
<1>1. /\ review \in [Reviews -> ReviewPhases] /\ review[r] \in {"marked", "dismissed"}
      /\ review' = [review EXCEPT ![r] = "ok"] /\ subject' = subject
  BY DEF AcceptCommit, DismissCommit, MoveReview, RouterInv, RouterTypeOK, ReviewTyped
<1>2. CommitsAll
  BY CommitCommits DEF AcceptCommit, DismissCommit
<1>3. (\A s \in Reviews : s # r => review'[s] = review[s]) /\ review'[r] = "ok"
  BY <1>1
<1>4. \A s \in Reviews : review[s] = "inserted" => review'[s] = "inserted"
  BY <1>1, <1>3
<1>5. \A s \in Reviews : Busy(s, p)' => Busy(s, p) /\ review'[s] = review[s]
  BY <1>1, <1>3 DEF Busy
<1> QED BY <1>1, <1>2, <1>4, <1>5, OnceSaved

\* After a crash no accept is left, and those that it caught are known.
LEMMA OnceCrashed ==
  ASSUME RouterInv, NEW p \in Nat, OnceOK(p), p \notin overlapped', Crash
  PROVE  OnceOK(p)'
<1>1. /\ promoted' = saved.promoted /\ proposals' = saved.proposals /\ saved' = saved
      /\ \A r \in Reviews : review'[r] \in {"idle", "ok", "refused", "lost"}
      /\ overlapped' = overlapped \cup {subject[r] : r \in {q \in Reviews : review[q] \in {"inserted", "marked"}}}
  BY DEF Crash
<1>2. \A r \in Reviews : ~(subject[r] = p /\ review[r] \in {"inserted", "marked"})
  BY <1>1
<1>3. \A i, j \in 1..Len(saved.promoted) : saved.promoted[i] = p /\ saved.promoted[j] = p => i = j
  BY DEF OnceOK
<1>4. \A i \in 1..Len(saved.promoted) : saved.promoted[i] = p => saved.proposals[p].accepted
  BY <1>2 DEF OnceOK
<1> QED BY <1>1, <1>3, <1>4 DEF OnceOK

LEMMA OnceStep ==
  ASSUME RouterInv, (Grown /\ Moves) \/ Crash, [Next]_vars, NEW p \in Nat, p \notin overlapped'
  PROVE  OnceOK(p)'
<1>1. overlapped \subseteq overlapped'
  <2>1. ASSUME NEW e \in Emissions, RouteStep(e) PROVE overlapped' = overlapped
    BY <2>1 DEF RouteStep, Begin, Expire, LoadRules, StartSeeding, SeedRule, SeedCommit, Reload,
                NoPick, Pick, FindProposal, CountHit, InsertProposal, CommitProposal, RecordFails,
                Filter, history
  <2>2. ASSUME NEW r \in Reviews, ReviewStep(r) PROVE overlapped \subseteq overlapped'
    BY <2>2 DEF ReviewStep, AcceptRead, DismissMark, AcceptInsert, AcceptMark, AcceptCommit,
                DismissCommit, history
  <2>3. CASE SetQuiet \/ RevokeDevice \/ OtherCommit \/ Crash \/ UNCHANGED vars
    BY <2>3 DEF SetQuiet, RevokeDevice, OtherCommit, Crash, vars, history
  <2> QED BY <2>1, <2>2, <2>3 DEF Next
<1>2. OnceOK(p)
  BY <1>1 DEF RouterInv
<1>3. CASE Crash
  BY <1>2, <1>3, OnceCrashed
<1> SUFFICES ASSUME Grown, Moves PROVE OnceOK(p)'
  BY <1>3
<1>4. ASSUME promoted' = promoted, UNCHANGED <<review, subject>> PROVE OnceOK(p)'
  <2>1. \A r \in Reviews : Same(r, p)
    BY <1>4 DEF Same
  <2>2. CASE CommitsAll
    <3>1. \A r \in Reviews : Busy(r, p)' => Busy(r, p) /\ review'[r] = review[r]
      BY <1>4 DEF Busy
    <3> QED BY <1>2, <1>4, <2>2, <3>1, OnceSaved
  <2>3. CASE saved' = saved
    BY <1>2, <1>4, <2>1, <2>3, OnceKept DEF RouterInv, RouterTypeOK
  <2>4. CommitsAll \/ saved' = saved
    BY DEF Moves, SeedsOne, AmendsOne, AddsOne, PromotesOne
  <2> QED BY <2>2, <2>3, <2>4
<1>5. ASSUME NEW e \in Emissions, RouteStep(e) PROVE OnceOK(p)'
  <2>1. UNCHANGED <<promoted, review, subject>>
    BY <1>5 DEF RouteStep, Begin, Expire, LoadRules, StartSeeding, SeedRule, SeedCommit, Reload,
                NoPick, Pick, FindProposal, CountHit, InsertProposal, CommitProposal, RecordFails,
                Filter, reviews, tables
  <2> QED BY <1>4, <2>1
<1>6. ASSUME NEW r \in Reviews, ReviewStep(r) PROVE OnceOK(p)'
  BY <1>2, <1>6, OnceAccepted, OnceInserted, OnceMarked, OnceDismissed, OnceCommitted DEF ReviewStep
<1>7. CASE SetQuiet \/ RevokeDevice \/ OtherCommit \/ UNCHANGED vars
  <2>1. UNCHANGED <<promoted, review, subject>>
    BY <1>7 DEF SetQuiet, RevokeDevice, OtherCommit, vars, reviews, tables
  <2> QED BY <1>4, <2>1
<1> QED BY <1>3, <1>5, <1>6, <1>7 DEF Next

-----------------------------------------------------------------------------
(* One pending proposal for a topic and channels.                          *)

\* Emission e has found no proposal for its topic t, and has yet to insert one.
Inserting(e, t) == phase[e] = "writing" /\ row[e] = 0 /\ Topic(event[e]) = t

LEMMA SingleKept ==
  ASSUME TablesTyped, Grown, Len(proposals') = Len(proposals), NEW t, Single(proposals, t)
  PROVE  Single(proposals', t)
<1> SUFFICES ASSUME NEW p \in 1..Len(proposals'), NEW q \in 1..Len(proposals'),
                    Open(proposals', p), Open(proposals', q),
                    proposals'[p].topic = t, proposals'[q].topic = t,
                    proposals'[p].channels = proposals'[q].channels
             PROVE  p = q
  BY DEF Single
<1>1. /\ Amends(proposals'[p], proposals[p]) /\ Amends(proposals'[q], proposals[q])
      /\ proposals'[p] \in Proposals /\ proposals'[q] \in Proposals
      /\ proposals[p] \in Proposals /\ proposals[q] \in Proposals
  BY TablesProperties DEF Grown, Amends, TablesTyped
<1>2. Open(proposals, p) /\ Open(proposals, q)
  BY <1>1 DEF Open, Amends
<1> QED BY <1>1, <1>2 DEF Single, Amends

LEMMA TopicKept ==
  ASSUME TablesTyped, TablesTyped', Grown, NEW t, TopicOK(t), Len(proposals') = Len(proposals),
         saved' = saved \/ CommitsAll,
         \A e \in Emissions : Inserting(e, t)' => Inserting(e, t) /\ base'[e] = base[e]
  PROVE  TopicOK(t)'
<1>1. Single(proposals', t)
  BY SingleKept DEF TopicOK
<1>2. Single(saved'.proposals, t)
  BY DEF TopicOK, CommitsAll
<1>3. ASSUME NEW e \in Emissions, phase'[e] = "writing", row'[e] = 0, Topic(event'[e]) = t
      PROVE  Looking(e)' = {} /\ Pending(t, base[e])' = {}
  <2>1. Inserting(e, t) /\ base'[e] = base[e]
    BY <1>3 DEF Inserting
  <2>2. Looking(e) = {} /\ Pending(t, base[e]) = {}
    BY <2>1 DEF TopicOK, Inserting
  <2>3. Looking(e)' = {}
    <3> SUFFICES ASSUME NEW f \in Emissions \ {e}, phase'[f] = "writing", row'[f] = 0,
                        Topic(event'[f]) = t
                 PROVE  FALSE
      BY <1>3 DEF Looking
    <3>1. Inserting(f, t)
      BY DEF Inserting
    <3>2. f \in Looking(e)
      BY <2>1, <3>1 DEF Looking, Inserting
    <3> QED BY <2>2, <3>2
  <2>4. Pending(t, base[e])' = {}
    <3> SUFFICES ASSUME NEW p \in DOMAIN proposals', proposals'[p].topic = t,
                        proposals'[p].channels = base[e], Open(proposals', p)
                 PROVE  FALSE
      BY <2>1 DEF Pending, Open
    <3>1. p \in 1..Len(proposals) /\ DOMAIN proposals = 1..Len(proposals)
      BY LenProperties DEF TablesTyped, TablesOK
    <3>2. Amends(proposals'[p], proposals[p]) /\ proposals'[p] \in Proposals /\ proposals[p] \in Proposals
      BY <3>1, TablesProperties DEF Grown, Amends, TablesTyped
    <3>3. Open(proposals, p) /\ proposals[p].topic = t /\ proposals[p].channels = base[e]
      BY <3>2 DEF Open, Amends
    <3> QED BY <2>2, <3>1, <3>3 DEF Pending, Open
  <2> QED BY <2>3, <2>4
<1> QED BY <1>1, <1>2, <1>3 DEF TopicOK

LEMMA TopicSearched ==
  ASSUME RouterInv, NEW t, TopicOK(t), t \notin twins',
         NEW e \in Emissions, FindProposal(e), TablesTyped', Grown
  PROVE  TopicOK(t)'
<1> DEFINE rows == Pending(Topic(event[e]), base[e])
<1>1. /\ phase[e] = "recording" /\ phase' = [phase EXCEPT ![e] = "writing"]
      /\ row' = [row EXCEPT ![e] = IF rows = {} THEN 0 ELSE CHOOSE p \in rows : \A q \in rows : p <= q]
      /\ twins' = IF Looking(e) = {} THEN twins ELSE twins \cup {Topic(event[e])}
      /\ UNCHANGED <<seeded, promoted, proposals, saved, event, base>>
      /\ RouteTyped /\ TablesTyped /\ proposals \in Seq(Proposals)
  BY DEF FindProposal, Move, RouterInv, RouterTypeOK, TablesTyped, TablesOK, tables
<1>2. \A f \in Emissions : f # e => phase'[f] = phase[f] /\ row'[f] = row[f]
  BY <1>1 DEF RouteTyped
<1>3. ASSUME ~Inserting(e, t)' PROVE TopicOK(t)'
  <2>1. \A f \in Emissions : Inserting(f, t)' => Inserting(f, t) /\ base'[f] = base[f]
    BY <1>1, <1>2, <1>3 DEF Inserting
  <2> QED BY <1>1, <2>1, TopicKept
<1>4. ASSUME Inserting(e, t)' PROVE TopicOK(t)'
  <2>1. Topic(event[e]) = t /\ row'[e] = 0
    BY <1>1, <1>4 DEF Inserting
  <2>2. rows \subseteq 1..Len(proposals)
    BY <1>1, LenProperties DEF Pending
  <2>3. rows = {}
    <3> HIDE DEF rows
    <3> SUFFICES ASSUME rows # {} PROVE FALSE
      OBVIOUS
    <3>1. Len(proposals) \in Nat
      BY <1>1, LenProperties
    <3>2. rows \in SUBSET Nat
      BY <2>2, <3>1
    <3>3. \E p \in rows : \A q \in rows : p <= q
      BY <3>2, LeastNumber
    <3>4. row'[e] \in rows
      BY <1>1, <3>3 DEF RouteTyped
    <3>5. row'[e] \in 1..Len(proposals)
      BY <2>2, <3>4
    <3> QED BY <2>1, <3>1, <3>5
  <2>4. Looking(e) = {}
    BY <1>1, <2>1
  <2>5. ASSUME NEW f \in Emissions, f # e, phase'[f] = "writing", row'[f] = 0, Topic(event'[f]) = t
        PROVE  FALSE
    <3>1. f \in Looking(e)
      BY <1>1, <1>2, <2>1, <2>5 DEF Looking
    <3> QED BY <2>4, <3>1
  <2>6. Looking(e)' = {}
    BY <1>1, <2>1, <2>5 DEF Looking
  <2>7. Pending(t, base[e])' = {}
    BY <1>1, <2>1, <2>3 DEF Pending
  <2>8. Single(proposals', t) /\ Single(saved'.proposals, t)
    BY <1>1 DEF TopicOK
  <2> QED BY <2>5, <2>6, <2>7, <2>8 DEF TopicOK
<1> QED BY <1>3, <1>4

LEMMA TopicInserted ==
  ASSUME RouterInv, NEW t, TopicOK(t), NEW e \in Emissions, InsertProposal(e)
  PROVE  TopicOK(t)'
<1> DEFINE new == [topic |-> Topic(event[e]), channels |-> base[e], hits |-> 1,
                   accepted |-> FALSE, dismissed |-> FALSE]
           n == Len(proposals)
<1>1. /\ phase[e] = "writing" /\ phase' = [phase EXCEPT ![e] = "committing"] /\ row[e] = 0
      /\ proposals' = Append(proposals, new)
      /\ UNCHANGED <<saved, event, base, row>> /\ RouteTyped
      /\ proposals \in Seq(Proposals) /\ n \in Nat /\ DOMAIN proposals = 1..n
      /\ base[e] \in SUBSET Channels /\ event[e] \in Kinds
  BY LenProperties
     DEF InsertProposal, Move, RouterInv, RouterTypeOK, TablesTyped, TablesOK, RouteTyped, EmissionOK
<1>2. new \in Proposals
  BY <1>1 DEF Proposals
<1>3. new.topic = Topic(event[e]) /\ new.channels = base[e]
  OBVIOUS
<1> HIDE DEF new
<1>4. /\ proposals' \in Seq(Proposals) /\ Len(proposals') = n + 1 /\ proposals'[n + 1] = new
      /\ \A i \in 1..n : proposals'[i] = proposals[i]
      /\ DOMAIN proposals' = 1..(n + 1)
  BY <1>1, <1>2, AppendProperties, LenProperties
<1>5. \A i \in 1..(n + 1) : i \in 1..n \/ i = n + 1
  BY <1>1
<1> HIDE DEF n
<1>6. \A f \in Emissions : Inserting(f, t)' => Inserting(f, t) /\ f # e
  BY <1>1 DEF Inserting, RouteTyped
<1>7. ASSUME NEW p \in 1..n, Open(proposals, p), proposals[p].topic = t,
             proposals[p].channels = base[e], Topic(event[e]) = t
      PROVE  FALSE
  <2>1. Pending(t, base[e]) = {}
    BY <1>1, <1>7 DEF TopicOK
  <2>2. p \in Pending(t, base[e])
    BY <1>1, <1>7 DEF Pending, Open
  <2> QED BY <2>1, <2>2
<1>8. Single(proposals', t)
  <2> SUFFICES ASSUME NEW p \in 1..(n + 1), NEW q \in 1..(n + 1),
                      Open(proposals', p), Open(proposals', q),
                      proposals'[p].topic = t, proposals'[q].topic = t,
                      proposals'[p].channels = proposals'[q].channels
               PROVE  p = q
    BY <1>4 DEF Single
  <2>1. CASE p \in 1..n /\ q \in 1..n
    BY <1>4, <2>1 DEF TopicOK, Single, Open, n
  <2>2. CASE p \in 1..n /\ q = n + 1
    <3>1. /\ Open(proposals, p) /\ proposals[p].topic = t /\ proposals[p].channels = base[e]
          /\ Topic(event[e]) = t
      BY <1>3, <1>4, <2>2 DEF Open
    <3> QED BY <1>7, <2>2, <3>1
  <2>3. CASE q \in 1..n /\ p = n + 1
    <3>1. /\ Open(proposals, q) /\ proposals[q].topic = t /\ proposals[q].channels = base[e]
          /\ Topic(event[e]) = t
      BY <1>3, <1>4, <2>3 DEF Open
    <3> QED BY <1>7, <2>3, <3>1
  <2> QED BY <1>5, <2>1, <2>2, <2>3
<1>9. ASSUME NEW f \in Emissions, phase'[f] = "writing", row'[f] = 0, Topic(event'[f]) = t
      PROVE  Looking(f)' = {} /\ Pending(t, base[f])' = {}
  <2>1. Inserting(f, t) /\ f # e
    BY <1>6, <1>9 DEF Inserting
  <2>2. Looking(f) = {} /\ Pending(t, base[f]) = {}
    BY <2>1 DEF TopicOK, Inserting
  <2>3. Topic(event[e]) # t
    <3> SUFFICES ASSUME Topic(event[e]) = t PROVE FALSE
      OBVIOUS
    <3>1. e \in Looking(f)
      BY <1>1, <2>1 DEF Looking, Inserting
    <3> QED BY <2>2, <3>1
  <2>4. Looking(f)' = {}
    <3> SUFFICES ASSUME NEW g \in Emissions \ {f}, phase'[g] = "writing", row'[g] = 0,
                        Topic(event'[g]) = t
                 PROVE  FALSE
      BY <1>9 DEF Looking
    <3>1. Inserting(g, t)
      BY <1>6 DEF Inserting
    <3>2. g \in Looking(f)
      BY <2>1, <3>1 DEF Looking, Inserting
    <3> QED BY <2>2, <3>2
  <2>5. Pending(t, base[f])' = {}
    <3> SUFFICES ASSUME NEW p \in 1..(n + 1), proposals'[p].topic = t,
                        proposals'[p].channels = base[f], Open(proposals', p)
                 PROVE  FALSE
      BY <1>1, <1>4 DEF Pending, Open
    <3>1. p \in 1..n
      BY <1>3, <1>4, <1>5, <2>3
    <3>2. Open(proposals, p) /\ proposals[p].topic = t /\ proposals[p].channels = base[f]
      BY <1>4, <3>1 DEF Open
    <3> QED BY <1>1, <2>2, <3>1, <3>2 DEF Pending, Open
  <2> QED BY <2>4, <2>5
<1>10. Single(saved'.proposals, t)
  BY <1>1 DEF TopicOK
<1> QED BY <1>8, <1>9, <1>10 DEF TopicOK

LEMMA TopicStep ==
  ASSUME RouterInv, TablesTyped', (Grown /\ Moves) \/ Crash, [Next]_vars, NEW t, t \notin twins'
  PROVE  TopicOK(t)'
<1>1. twins \subseteq twins'
  <2>1. ASSUME NEW e \in Emissions, RouteStep(e) PROVE twins \subseteq twins'
    BY <2>1 DEF RouteStep, Begin, Expire, LoadRules, StartSeeding, SeedRule, SeedCommit, Reload,
                NoPick, Pick, FindProposal, CountHit, InsertProposal, CommitProposal, RecordFails,
                Filter, history
  <2>2. ASSUME NEW r \in Reviews, ReviewStep(r) PROVE twins' = twins
    BY <2>2 DEF ReviewStep, AcceptRead, DismissMark, AcceptInsert, AcceptMark, AcceptCommit,
                DismissCommit, history
  <2>3. CASE SetQuiet \/ RevokeDevice \/ OtherCommit \/ Crash \/ UNCHANGED vars
    BY <2>3 DEF SetQuiet, RevokeDevice, OtherCommit, Crash, vars, history
  <2> QED BY <2>1, <2>2, <2>3 DEF Next
<1>2. TopicOK(t) /\ TablesTyped /\ RouteTyped /\ proposals \in Seq(Proposals)
  BY <1>1 DEF RouterInv, RouterTypeOK, TablesTyped, TablesOK
<1>3. CASE Crash
  <2>1. /\ proposals' = saved.proposals /\ saved' = saved
        /\ \A e \in Emissions : phase'[e] # "writing"
    BY <1>3 DEF Crash
  <2> QED BY <1>2, <2>1 DEF TopicOK
<1> SUFFICES ASSUME Grown, Moves PROVE TopicOK(t)'
  BY <1>3
<1>4. CommitsAll \/ saved' = saved
  BY DEF Moves, SeedsOne, AmendsOne, AddsOne, PromotesOne
<1>5. Len(proposals') = Len(proposals) \/ AddsOne
  <2>1. CASE AmendsOne
    <3>1. PICK p \in 1..Len(proposals) : \E q :
            Amends(q, proposals[p]) /\ proposals' = [proposals EXCEPT ![p] = q]
      BY <2>1 DEF AmendsOne
    <3>2. PICK q : Amends(q, proposals[p]) /\ proposals' = [proposals EXCEPT ![p] = q]
      BY <3>1
    <3> QED BY <1>2, <3>2, ExceptSeq DEF Amends
  <2> QED BY <2>1 DEF Moves, SeedsOne, PromotesOne, CommitsAll
<1>6. ASSUME Len(proposals') = Len(proposals),
             \A e \in Emissions : phase'[e] = "writing" =>
               phase[e] = "writing" /\ row'[e] = row[e] /\ event'[e] = event[e] /\ base'[e] = base[e]
      PROVE  TopicOK(t)'
  <2>1. \A e \in Emissions : Inserting(e, t)' => Inserting(e, t) /\ base'[e] = base[e]
    BY <1>6 DEF Inserting
  <2> QED BY <1>2, <1>4, <1>6, <2>1, TopicKept
<1>7. ASSUME NEW e \in Emissions, RouteStep(e), ~FindProposal(e), ~InsertProposal(e)
      PROVE  TopicOK(t)'
  <2>1. phase'[e] # "writing"
    <3>1. ASSUME NEW k \in Kinds, Begin(e, k) PROVE phase'[e] = "loading"
      BY <1>2, <3>1 DEF Begin, Move, RouteTyped
    <3>2. ASSUME NEW p \in Picks, Pick(e, p) PROVE phase'[e] = "recording"
      BY <1>2, <3>2 DEF Pick, Move, RouteTyped
    <3>3. CASE Expire(e) \/ StartSeeding(e) \/ SeedCommit(e) \/ NoPick(e) \/ CountHit(e)
                 \/ CommitProposal(e) \/ RecordFails(e) \/ Filter(e)
      <4>1. \E x \in {"expired", "seeding", "reloading", "filtering", "committing", "decided"} :
              phase' = [phase EXCEPT ![e] = x]
        BY <3>3 DEF Expire, StartSeeding, SeedCommit, NoPick, CountHit, CommitProposal, RecordFails,
                    Filter, Move
      <4> QED BY <1>2, <4>1 DEF RouteTyped
    <3>4. CASE SeedRule(e)
      BY <3>4 DEF SeedRule, routing
    <3>5. CASE LoadRules(e) \/ Reload(e)
      <4>1. \E x \in {"asking", "filtering"} : phase' = [phase EXCEPT ![e] = x]
        BY <3>5 DEF LoadRules, Reload, Loaded
      <4> QED BY <1>2, <4>1 DEF RouteTyped
    <3> QED BY <1>7, <3>1, <3>2, <3>3, <3>4, <3>5 DEF RouteStep
  <2>2. \A f \in Emissions : f # e => Stays(f)
    BY <1>2, <1>7, OtherEmissions
  <2>3. ~AddsOne
    <3>1. proposals' = proposals \/ CountHit(e)
      BY <1>7 DEF RouteStep, Begin, Expire, LoadRules, StartSeeding, SeedRule, SeedCommit, Reload,
                  NoPick, Pick, CommitProposal, RecordFails, Filter, tables
    <3>2. CountHit(e) => Len(proposals') = Len(proposals)
      BY <1>2 DEF CountHit
    <3>3. AddsOne => Len(proposals') = Len(proposals) + 1
      BY <1>2, AppendProperties DEF AddsOne
    <3>4. Len(proposals) \in Nat
      BY <1>2, LenProperties
    <3> QED BY <3>1, <3>2, <3>3, <3>4
  <2> QED BY <1>5, <1>6, <2>1, <2>2, <2>3 DEF Stays
<1>8. ASSUME NEW e \in Emissions, RouteStep(e) PROVE TopicOK(t)'
  BY <1>2, <1>7, <1>8, TopicSearched, TopicInserted
<1>9. ASSUME UNCHANGED routing, ~AddsOne PROVE TopicOK(t)'
  BY <1>5, <1>6, <1>9 DEF routing
<1>10. AddsOne => proposals' # proposals /\ Len(proposals') = Len(proposals) + 1
  <2>1. AddsOne => Len(proposals') = Len(proposals) + 1
    BY <1>2, AppendProperties DEF AddsOne
  <2>2. Len(proposals) \in Nat
    BY <1>2, LenProperties
  <2> QED BY <2>1, <2>2
<1>11. ASSUME NEW r \in Reviews, ReviewStep(r) PROVE TopicOK(t)'
  <2>1. UNCHANGED routing
    BY <1>11 DEF ReviewStep, AcceptRead, DismissMark, AcceptInsert, AcceptMark, AcceptCommit,
                 DismissCommit
  <2>2. /\ proposals' = proposals \/ \E p, q : proposals' = [proposals EXCEPT ![p] = q]
    BY <1>11 DEF ReviewStep, AcceptRead, DismissMark, AcceptInsert, AcceptMark, AcceptCommit,
                 DismissCommit, tables
  <2>3. Len(proposals) \in Nat /\ Len(proposals') = Len(proposals)
    BY <1>2, <2>2, LenProperties
  <2> QED BY <1>9, <1>10, <2>1, <2>3
<1>12. CASE SetQuiet \/ RevokeDevice \/ OtherCommit \/ UNCHANGED vars
  <2>1. UNCHANGED <<routing, proposals>>
    BY <1>12 DEF SetQuiet, RevokeDevice, OtherCommit, vars, tables
  <2> QED BY <1>9, <1>10, <2>1
<1> QED BY <1>3, <1>8, <1>11, <1>12 DEF Next

-----------------------------------------------------------------------------
(* The theorems.                                                           *)

LEMMA RouterInit == Init => RouterInv
<1> SUFFICES ASSUME Init PROVE RouterInv
  OBVIOUS
<1> USE DEF Init
<1>1. /\ 0 \in 0..11 /\ 0 \in Nat /\ <<0, 0>> \in (0..11) \X Nat /\ Builtins \subseteq Channels
      /\ Len(<<>>) = 0 /\ \A i \in 1..0 : FALSE
  BY EmptySeq DEF Channels
<1>2. /\ TablesOK([e \in Emissions |-> 0], <<>>, <<>>)
      /\ seeded = [e \in Emissions |-> 0] /\ promoted = <<>> /\ proposals = <<>>
      /\ saved.seeded = [e \in Emissions |-> 0] /\ saved.promoted = <<>> /\ saved.proposals = <<>>
  BY <1>1, EmptySeq DEF TablesOK
<1>3. TablesTyped
  BY <1>2 DEF TablesTyped
<1>4. RouteTyped /\ ReviewTyped
  BY <1>1 DEF RouteTyped, ReviewTyped, RoutePhases, ReviewPhases
<1>5. AckedOK /\ (\A e \in Emissions : EmissionOK(e)) /\ \A r \in Reviews : ReviewOK(r)
  BY DEF AckedOK, EmissionOK, ReviewOK
<1>6. \A p \in Nat : OnceOK(p)
  BY <1>1, <1>2 DEF OnceOK
<1>7. \A t : TopicOK(t)
  BY <1>1, <1>2 DEF TopicOK, Single
<1> QED BY <1>3, <1>4, <1>5, <1>6, <1>7 DEF RouterInv, RouterTypeOK

LEMMA RouterStep == RouterInv /\ [Next]_vars => RouterInv'
<1> SUFFICES ASSUME RouterInv, [Next]_vars PROVE RouterInv'
  OBVIOUS
<1>1. (Grown /\ Moves) \/ Crash
  BY TablesMove, TablesStep DEF RouterInv, RouterTypeOK
<1>2. TablesTyped'
  BY TablesMove, TablesStep, CrashedTables DEF RouterInv, RouterTypeOK
<1>3. RouteTyped' /\ ReviewTyped' /\ AckedOK'
  BY <1>1, RouteTypedStep, ReviewTypedStep, AckedStep
<1>4. \A e \in Emissions : EmissionOK(e)'
  BY <1>1, <1>2, EmissionsStep
<1>5. \A r \in Reviews : ReviewOK(r)'
  BY <1>1, <1>2, ReviewsStep
<1>6. \A p \in Nat : p \notin overlapped' => OnceOK(p)'
  BY <1>1, OnceStep
<1>7. \A t : t \notin twins' => TopicOK(t)'
  BY <1>1, <1>2, TopicStep
<1> QED BY <1>2, <1>3, <1>4, <1>5, <1>6, <1>7 DEF RouterInv, RouterTypeOK

LEMMA RouterInvariant == Spec => []RouterInv
BY RouterInit, RouterStep, PTL DEF Spec

\* What is in the tables and in the local variables of emissions and reviews has its type, and
\* a promoted rule and a proposal are there only with a part of the default rules.
THEOREM RoutingIsTyped == Spec => []RouterTypeOK
<1>1. RouterInv => RouterTypeOK
  BY DEF RouterInv
<1> QED BY <1>1, RouterInvariant, PTL

\* Every decision names a channel, and on an urgent event one besides the digest, whatever part of
\* the table an emission loaded, whatever was promoted and whatever the filters drop (route).
THEOREM UrgentIsSeenAlways == Spec => []UrgentIsSeen
<1>1. RouterInv => UrgentIsSeen
  BY DEF RouterInv, EmissionOK, UrgentIsSeen
<1> QED BY <1>1, RouterInvariant, PTL

\* A proposal becomes one rule (accept_rule_proposal) and a topic and channels have one pending
\* proposal (_record_rule_proposal), unless two of them overlapped or a crash came between.
THEOREM DuplicatesHaveACause == Spec => []TwiceHasACause
<1>1. RouterInv => TwiceHasACause
  <2> SUFFICES ASSUME RouterInv PROVE TwiceHasACause
    OBVIOUS
  <2>1. /\ promoted \in Seq(Nat) /\ proposals \in Seq(Proposals)
        /\ DOMAIN promoted = 1..Len(promoted) /\ DOMAIN proposals = 1..Len(proposals)
    BY LenProperties DEF RouterInv, RouterTypeOK, TablesTyped, TablesOK
  <2>2. ASSUME NEW i \in DOMAIN promoted, NEW j \in DOMAIN promoted, i # j, promoted[i] = promoted[j]
        PROVE  promoted[i] \in overlapped
    <3>1. promoted[i] \in Nat
      BY <2>1, ElementOfSeq
    <3>2. ~OnceOK(promoted[i])
      BY <2>1, <2>2 DEF OnceOK
    <3> QED BY <3>1, <3>2 DEF RouterInv
  <2>3. ASSUME NEW p \in DOMAIN proposals, NEW q \in Pending(proposals[p].topic, proposals[p].channels),
               p < q, ~proposals[p].accepted, ~proposals[p].dismissed
        PROVE  proposals[p].topic \in twins
    <3>1. /\ q \in DOMAIN proposals /\ Open(proposals, q) /\ Open(proposals, p)
          /\ proposals[q].topic = proposals[p].topic /\ proposals[q].channels = proposals[p].channels
      BY <2>3 DEF Pending, Open
    <3>2. p # q
      <4>1. p \in Nat
        BY <2>1
      <4> QED BY <2>3, <4>1
    <3>3. ~TopicOK(proposals[p].topic)
      BY <2>1, <3>1, <3>2 DEF TopicOK, Single
    <3> QED BY <3>3 DEF RouterInv
  <2> QED BY <2>2, <2>3 DEF TwiceHasACause
<1> QED BY <1>1, RouterInvariant, PTL

\* Who moves an emission out of the filter, and who leaves it to the LLM.
LEMMA Movers ==
  ASSUME RouteTyped, [Next]_vars, NEW e \in Emissions
  PROVE  /\ phase[e] = "filtering" /\ phase'[e] = "decided" => Filter(e)
         /\ phase[e] \in {"loading", "reloading"} /\ phase'[e] = "asking" => LoadRules(e) \/ Reload(e)
<1>1. ASSUME NEW f \in Emissions, RouteStep(f), f # e PROVE phase'[e] = phase[e]
  BY <1>1, OtherEmissions DEF Stays
<1>2. ASSUME RouteStep(e) PROVE Filter(e) \/ phase'[e] # "decided" \/ phase[e] # "filtering"
  BY <1>2 DEF RouteStep, Begin, Expire, LoadRules, StartSeeding, SeedRule, SeedCommit, Reload,
              NoPick, Pick, FindProposal, CountHit, InsertProposal, CommitProposal, RecordFails,
              Move, routing
<1>3. ASSUME RouteStep(e), phase[e] \in {"loading", "reloading"}
      PROVE  LoadRules(e) \/ Reload(e) \/ phase'[e] # "asking"
  <2>1. CASE Expire(e) \/ StartSeeding(e)
    BY <2>1 DEF Expire, StartSeeding, Move, RouteTyped
  <2> QED
    BY <1>3, <2>1 DEF RouteStep, Begin, SeedRule, SeedCommit, NoPick, Pick, FindProposal, CountHit,
              InsertProposal, CommitProposal, RecordFails, Filter, Move, routing
<1>4. ASSUME NEW r \in Reviews, ReviewStep(r) PROVE phase' = phase
  BY <1>4 DEF ReviewStep, AcceptRead, DismissMark, AcceptInsert, AcceptMark, AcceptCommit,
              DismissCommit, routing
<1>5. CASE SetQuiet \/ RevokeDevice \/ OtherCommit \/ UNCHANGED vars
  BY <1>5 DEF SetQuiet, RevokeDevice, OtherCommit, vars, routing
<1>6. CASE Crash
  BY <1>6 DEF Crash
<1> QED BY <1>1, <1>2, <1>3, <1>4, <1>5, <1>6 DEF Next

\* While do_not_disturb is on from the start of an emission to its decision, an event that is not
\* urgent reaches the digest alone, when the override was in the table that it read
\* (_apply_overrides comes last, whatever channels the rules, a promotion or the LLM chose).
THEOREM QuietIsKeptAlways == Spec => QuietIsKept
<1> DEFINE Kept == \A e \in Emissions :
             /\ phase[e] = "filtering" /\ phase'[e] = "decided"
             /\ e \in since /\ event[e].urgency # "urgent" /\ found[e][1] > Len(Ladder)
             => dispatched'[e] = {"digest"}
<1>1. RouterInv /\ [Next]_vars => Kept
  <2> SUFFICES ASSUME RouterInv, [Next]_vars, NEW e \in Emissions,
                      phase[e] = "filtering", phase'[e] = "decided", e \in since,
                      event[e].urgency # "urgent", found[e][1] > Len(Ladder)
               PROVE  dispatched'[e] = {"digest"}
    OBVIOUS
  <2>1. RouteTyped /\ EmissionOK(e)
    BY DEF RouterInv, RouterTypeOK
  <2>2. Filter(e) /\ quiet[e] /\ found[e][1] > 0 /\ found[e][1] > 9
    BY <2>1, Movers, TheDefaults DEF EmissionOK
  <2>3. dispatched' = [dispatched EXCEPT ![e] = {"digest"}]
    BY <2>1, <2>2, FilterOK
  <2> QED BY <2>1, <2>3 DEF RouteTyped
<1>2. RouterInv /\ [Next]_vars => [Kept]_vars
  BY <1>1
<1> HIDE DEF Kept
<1>3. Spec => [][Kept]_vars
  BY <1>2, RouterInvariant, PTL DEF Spec
<1> QED BY <1>3 DEF Kept, QuietIsKept

\* After the acceptance of a proposal was acknowledged no event of its topic is left to the LLM,
\* through restarts too: the promoted rule was committed with it (accept_rule_proposal).
THEOREM PromotionIsKeptAlways == Spec => PromotionIsKept
<1> DEFINE Kept == \A e \in Emissions :
             phase[e] \in {"loading", "reloading"} /\ phase'[e] = "asking" => Topic(event[e]) \notin acked
<1>1. RouterInv /\ [Next]_vars => Kept
  <2> SUFFICES ASSUME RouterInv, [Next]_vars, NEW e \in Emissions,
                      phase[e] \in {"loading", "reloading"}, phase'[e] = "asking",
                      Topic(event[e]) \in acked
               PROVE  FALSE
    OBVIOUS
  <2>1. RouteTyped /\ TablesTyped /\ EmissionOK(e) /\ AckedOK
    BY DEF RouterInv, RouterTypeOK
  <2>2. Loaded(e) /\ \E f \in Emissions : seeded[f] > 0
    <3>1. CASE LoadRules(e)
      BY <2>1, <3>1, TableHasDefaults DEF LoadRules
    <3>2. CASE Reload(e)
      <4>1. Loaded(e) /\ seeded[e] = 11
        BY <2>1, <3>2 DEF Reload, EmissionOK
      <4>2. seeded[e] > 0
        BY <4>1
      <4> QED BY <4>1, <4>2
    <3> QED BY <2>1, <3>1, <3>2, Movers
  <2>3. PICK n \in 1..11 : \E chosen \in SUBSET Channels :
           /\ phase' = [phase EXCEPT ![e] = IF chosen = {} THEN "asking" ELSE "filtering"]
           /\ chosen = {} => \A i \in 1..Len(promoted) : proposals[promoted[i]].topic # Topic(event[e])
    BY <2>1, <2>2, LoadedOK
  <2>4. PICK chosen \in SUBSET Channels :
           /\ phase' = [phase EXCEPT ![e] = IF chosen = {} THEN "asking" ELSE "filtering"]
           /\ chosen = {} => \A i \in 1..Len(promoted) : proposals[promoted[i]].topic # Topic(event[e])
    BY <2>3
  <2>5. chosen = {}
    BY <2>1, <2>4 DEF RouteTyped
  <2> QED BY <2>1, <2>4, <2>5 DEF AckedOK
<1>2. RouterInv /\ [Next]_vars => [Kept]_vars
  BY <1>1
<1> HIDE DEF Kept
<1>3. Spec => [][Kept]_vars
  BY <1>2, RouterInvariant, PTL DEF Spec
<1> QED BY <1>3 DEF Kept, PromotionIsKept
=============================================================================
