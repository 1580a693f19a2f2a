---------------------------- MODULE EventBusProofs ----------------------------
(***************************************************************************)
(* The properties of EventBus, for any clients, lengths of the ring and of *)
(* the queues, events and restarts.                                        *)
(***************************************************************************)
EXTENDS EventBus, SequenceTheorems, FiniteSetTheorems, WellFoundedInduction, TLAPS

\* A message, and the values that a variable may have.
Messages == [kind : KnownKinds, to : SUBSET Clients]
Phases   == {"closed", "replay", "sync", "wait", "notice", "message", "leaving"}

BusTypeOK ==
  /\ log \in Seq(Messages)
  /\ phase \in [Clients -> Phases]
  /\ backlog \in [Clients -> Seq(Nat)] /\ queue \in [Clients -> Seq(Nat)]
  /\ start \in [Clients -> Nat] /\ hand \in [Clients -> Nat]
  /\ since \in [Clients -> Nat] /\ cursor \in [Clients -> Nat]
  /\ synced \in [Clients -> BOOLEAN] /\ reload \in [Clients -> Nat] /\ last \in [Clients -> Nat]
  /\ dropped \in [Clients -> SUBSET Nat] /\ counted \in [Clients -> SUBSET Nat]
  /\ got \in [Clients -> SUBSET Nat] /\ told \in [Clients -> SUBSET Nat]
  /\ forgotten \in [Clients -> SUBSET Nat] /\ passed \in [Clients -> SUBSET Nat]
  /\ skipped \in [Clients -> SUBSET Nat] /\ reloads \in [Clients -> SUBSET Nat]
  /\ foreign \subseteq Clients /\ foreignUrl \subseteq Clients /\ masters \subseteq Clients

Ascending(q) == \A i, j \in 1..Len(q) : i < j => q[i] < q[j]
Elements(q)  == {q[i] : i \in 1..Len(q)}

\* The events of a connection that it has yet to yield.
Ahead(c) ==
  Elements(backlog[c]) \cup Elements(queue[c])
    \cup (IF phase[c] \in {"notice", "message"} THEN {hand[c]} ELSE {})

\* The events whose fate the client may know of.
Known(c) == got[c] \cup told[c] \cup passed[c] \cup forgotten[c] \cup skipped[c]

\* What is ahead is the client's and ascends: the replay up to the number of the sse.sync, the
\* live events after it.
StreamOK(c) ==
  phase[c] # "closed" =>
    /\ Ascending(backlog[c]) /\ Ascending(queue[c])
    /\ Ahead(c) \subseteq Mine(c)
    /\ \A s \in Ahead(c) : last[c] < s
    /\ start[c] <= Len(log) /\ last[c] <= Len(log)
    /\ \A s \in Elements(backlog[c]) : s <= start[c]
    /\ phase[c] \in {"replay", "sync"} =>
         /\ last[c] <= start[c]
         /\ \A s \in Elements(queue[c]) \cup dropped[c] : start[c] < s
    /\ backlog[c] # <<>> => phase[c] \in {"replay", "leaving"}
    /\ phase[c] = "replay" => backlog[c] # <<>>
    /\ phase[c] \in {"notice", "message"} => \A s \in Elements(queue[c]) : hand[c] < s
    /\ phase[c] = "message" => \A s \in dropped[c] : hand[c] < s

\* Every event of the client is known to it, or ahead of it, or dropped and yet to be told.
AccountOK(c) ==
  /\ phase[c] # "closed" => \A s \in Mine(c) : s \in Known(c) \cup Ahead(c) \cup dropped[c]
  /\ counted[c] \subseteq dropped[c]
  /\ dropped[c] \subseteq 1..Len(log)
  /\ phase[c] = "closed" => counted[c] = {}

\* Behind a cursor of this process there is nothing that is not known, and behind the URL's.
CursorOK(c) ==
  /\ got[c] \subseteq Mine(c)
  /\ c \notin foreign => cursor[c] <= Len(log) /\ \A s \in Mine(c) : s <= cursor[c] => s \in Known(c)
  /\ c \notin foreignUrl => since[c] <= Len(log) /\ \A s \in Mine(c) : s <= since[c] => s \in Known(c)

\* A page that an event made reload has it behind its cursor, and behind its URL when it is
\* loaded again.
ReloadOK(c) ==
  /\ phase[c] \notin {"closed", "leaving"} => reload[c] = 0
  /\ reloads[c] # {} => c \notin foreign
  /\ reloads[c] # {} /\ reload[c] = 0 => c \notin foreignUrl
  /\ \A r \in reloads[c] : r <= cursor[c] /\ (reload[c] = 0 => r <= since[c])
  /\ c \notin foreignUrl /\ phase[c] # "closed" => \A s \in Ahead(c) : since[c] < s
  /\ c \notin foreignUrl /\ phase[c] \in {"replay", "sync"} => since[c] <= start[c]

ClientOK(c) == StreamOK(c) /\ AccountOK(c) /\ CursorOK(c) /\ ReloadOK(c)

BusInv == BusTypeOK /\ \A c \in Clients : ClientOK(c)

-----------------------------------------------------------------------------
(* Sequences of events.                                                    *)

\* Induction over the members of a set of numbers: the numbers are well-founded.
LEMMA NumbersByInduction ==
  ASSUME NEW S, 0 \in S, \A n \in S \cap Nat : n + 1 \in S
  PROVE  Nat \subseteq S
<1> DEFINE Left == Nat \ S
           Less == OpToRel(<, Nat)
<1>1. SUFFICES ASSUME Left # {} PROVE FALSE
  OBVIOUS
<1>2. IsWellFoundedOn(Less, Nat)
  BY NatLessThanWellFounded
<1>3. \A x, y \in Nat : x < y => <<x, y>> \in Less
  BY DEF OpToRel
<1> HIDE DEF Less
<1>4. PICK n \in Left : \A m \in Left : <<m, n>> \notin Less
  <2>1. Left \subseteq Nat
    OBVIOUS
  <2> HIDE DEF Left
  <2> QED BY <1>1, <1>2, <2>1, WFMin
<1>5. n # 0 /\ n - 1 \in Nat /\ n - 1 < n
  OBVIOUS
<1>6. n - 1 \in S
  BY <1>3, <1>4, <1>5
<1>7. (n - 1) + 1 \in S
  BY <1>5, <1>6
<1> QED BY <1>5, <1>7

\* A set of places that ends with n is enumerated as the places before it, and then n.
LEMMA EnumerationGrows ==
  ASSUME NEW k \in Nat, NEW P, NEW n \in Nat, NEW q \in [1..k -> P],
         P \subseteq Nat, \A s \in P : s < n, \A i, j \in 1..k : i < j => q[i] < q[j]
  PROVE  \E r \in [1..(k + 1) -> P \cup {n}] : \A i, j \in 1..(k + 1) : i < j => r[i] < r[j]
<1> DEFINE r == [i \in 1..(k + 1) |-> IF i = k + 1 THEN n ELSE q[i]]
<1>1. r \in [1..(k + 1) -> P \cup {n}]
  OBVIOUS
<1>2. ASSUME NEW i \in 1..(k + 1), NEW j \in 1..(k + 1), i < j PROVE r[i] < r[j]
  <2>1. i \in 1..k /\ i # k + 1
    BY <1>2
  <2>2. CASE j = k + 1
    BY <2>1, <2>2
  <2>3. CASE j # k + 1
    BY <1>2, <2>1, <2>3
  <2> QED BY <2>2, <2>3
<1> QED BY <1>1, <1>2

LEMMA EnumerationExists ==
  ASSUME NEW n \in Nat, NEW P \in SUBSET (1..n)
  PROVE  \E q \in [1..Cardinality(P) -> P] : \A i, j \in 1..Cardinality(P) : i < j => q[i] < q[j]
<1> DEFINE Enumerable(Q) ==
             \E q \in [1..Cardinality(Q) -> Q] :
               \A i, j \in 1..Cardinality(Q) : i < j => q[i] < q[j]
           S == {m \in Nat : \A Q \in SUBSET (1..m) : Enumerable(Q)}
<1>1. 0 \in S
  <2>1. SUBSET (1..0) = {{}}
    OBVIOUS
  <2>2. Enumerable({})
    <3>1. Cardinality({}) = 0
      BY FS_EmptySet
    <3>2. <<>> \in [1..0 -> {}]
      OBVIOUS
    <3> QED BY <3>1, <3>2
  <2> HIDE DEF Enumerable
  <2> QED BY <2>1, <2>2
<1>2. ASSUME NEW m \in S \cap Nat PROVE m + 1 \in S
  <2> SUFFICES ASSUME NEW Q \in SUBSET (1..(m + 1)) PROVE Enumerable(Q)
    OBVIOUS
  <2> DEFINE R == Q \ {m + 1}
  <2>1. R \in SUBSET (1..m) /\ m + 1 \in Nat /\ \A s \in R : s < m + 1
    OBVIOUS
  <2>2. Enumerable(R)
    <3> HIDE DEF Enumerable, R
    <3> QED BY <2>1
  <2>3. CASE m + 1 \notin Q
    <3>1. R = Q
      BY <2>3
    <3> HIDE DEF Enumerable, R
    <3> QED BY <2>2, <3>1
  <2>4. CASE m + 1 \in Q
    <3>1. Q = R \cup {m + 1} /\ m + 1 \notin R /\ R \subseteq Nat
      BY <2>4
    <3>2. IsFiniteSet(R)
      BY <2>1, <3>1, FS_BoundedSetOfNaturals
    <3>3. Cardinality(R) \in Nat
      BY <3>2, FS_CardinalityType
    <3>4. Cardinality(Q) = Cardinality(R) + 1
      <4> HIDE DEF R
      <4> QED BY <3>1, <3>2, FS_AddElement
    <3> HIDE DEF R
    <3>5. \E r \in [1..(Cardinality(R) + 1) -> R \cup {m + 1}] :
            \A i, j \in 1..(Cardinality(R) + 1) : i < j => r[i] < r[j]
      BY <2>1, <2>2, <3>1, <3>3, EnumerationGrows
    <3> QED BY <3>1, <3>4, <3>5
  <2> QED BY <2>3, <2>4
<1> HIDE DEF S, Enumerable
<1>3. n \in S
  BY <1>1, <1>2, NumbersByInduction
<1> QED BY <1>3 DEF S, Enumerable

\* Events: the places, all of them, in ascending order.
LEMMA EventsAscend ==
  ASSUME NEW n \in Nat, NEW P \in SUBSET (1..n)
  PROVE  Events(P) \in Seq(Nat) /\ Ascending(Events(P)) /\ Elements(Events(P)) = P
<1> DEFINE k == Cardinality(P)
           q == Events(P)
<1>1. IsFiniteSet(P)
  BY FS_BoundedSetOfNaturals
<1>2. k \in Nat
  BY <1>1, FS_CardinalityType
<1>3. q \in [1..k -> P] /\ \A i, j \in 1..k : i < j => q[i] < q[j]
  <2>1. \E r \in [1..k -> P] : \A i, j \in DOMAIN r : i < j => r[i] < r[j]
    <3>1. PICK r \in [1..k -> P] : \A i, j \in 1..k : i < j => r[i] < r[j]
      BY EnumerationExists
    <3> QED BY <3>1
  <2>2. q \in [1..k -> P] /\ \A i, j \in DOMAIN q : i < j => q[i] < q[j]
    BY <2>1 DEF Events
  <2> QED BY <2>2
<1> HIDE DEF q, k
<1>4. q \in Seq(Nat) /\ Len(q) = k
  <2>1. q \in [1..k -> Nat]
    <3>1. P \subseteq Nat
      OBVIOUS
    <3> QED BY <1>3, <3>1
  <2> QED BY <1>2, <2>1
<1>5. Elements(q) = P
  <2>1. q \in Injection(1..k, P)
    <3>1. \A i, j \in 1..k : q[i] = q[j] => i = j
      <4>1. \A i, j \in 1..k : i < j \/ j < i \/ i = j
        BY <1>2
      <4>2. \A i \in 1..k : q[i] \in Nat
        BY <1>2, <1>4
      <4> QED BY <1>3, <4>1, <4>2
    <3> QED BY <1>3, <3>1 DEF Injection, IsInjective
  <2>2. IsFiniteSet(1..k) /\ Cardinality(1..k) = Cardinality(P)
    BY <1>2, FS_Interval DEF k
  <2>3. q \in Surjection(1..k, P)
    BY <1>1, <2>1, <2>2, FS_Injection
  <2> QED BY <1>3, <1>4, <2>3 DEF Surjection, Elements
<1> QED BY <1>3, <1>4, <1>5 DEF Ascending, q

\* put_nowait.
LEMMA AppendAscends ==
  ASSUME NEW q \in Seq(Nat), NEW n \in Nat, Ascending(q), \A s \in Elements(q) : s < n
  PROVE  /\ Append(q, n) \in Seq(Nat) /\ Append(q, n) # <<>> /\ Ascending(Append(q, n))
         /\ Elements(Append(q, n)) = Elements(q) \cup {n}
<1>1. /\ Append(q, n) \in Seq(Nat) /\ Len(Append(q, n)) = Len(q) + 1
      /\ \A i \in 1..Len(q) : Append(q, n)[i] = q[i]
      /\ Append(q, n)[Len(q) + 1] = n /\ Len(q) \in Nat
  BY AppendProperties, LenProperties
<1> DEFINE r == Append(q, n)
<1> HIDE DEF r
<1>2. \A i \in 1..(Len(q) + 1) : i \in 1..Len(q) \/ i = Len(q) + 1
  BY <1>1
<1>3. 1..Len(q) \subseteq 1..(Len(q) + 1) /\ Len(q) + 1 \in 1..(Len(q) + 1)
  BY <1>1
<1>4. Elements(r) = Elements(q) \cup {n}
  BY <1>1, <1>2, <1>3 DEF r, Elements
<1>5. Ascending(r)
  <2>1. \A i \in 1..Len(q) : q[i] < n
    BY DEF Elements
  <2>2. \A i \in 1..Len(q) : ~ Len(q) + 1 < i
    BY <1>1
  <2>3. ~ Len(q) + 1 < Len(q) + 1
    BY <1>1
  <2> QED BY <1>1, <1>2, <2>1, <2>2, <2>3 DEF r, Ascending
<1>6. r # <<>>
  BY <1>1 DEF r
<1> QED BY <1>1, <1>4, <1>5, <1>6 DEF r

\* The head leaves, and is before all that stay.
LEMMA TailAscends ==
  ASSUME NEW q \in Seq(Nat), Ascending(q), q # <<>>
  PROVE  /\ Tail(q) \in Seq(Nat) /\ Ascending(Tail(q))
         /\ Head(q) \in Elements(q) /\ Elements(q) = {Head(q)} \cup Elements(Tail(q))
         /\ \A s \in Elements(Tail(q)) : Head(q) < s
         /\ Len(q) = 1 <=> Tail(q) = <<>>
<1>1. /\ Tail(q) \in Seq(Nat) /\ Len(Tail(q)) = Len(q) - 1 /\ Head(q) = q[1]
      /\ \A i \in 1..(Len(q) - 1) : Tail(q)[i] = q[i + 1]
      /\ Len(q) \in Nat \ {0}
  BY HeadTailProperties, LenProperties, EmptySeq
<1> DEFINE r == Tail(q)
<1> HIDE DEF r
<1>2. \A i \in 1..(Len(q) - 1) : i + 1 \in 1..Len(q) /\ 1 < i + 1
  BY <1>1
<1>3. \A i \in 1..Len(q) : i = 1 \/ (i - 1 \in 1..(Len(q) - 1) /\ (i - 1) + 1 = i)
  BY <1>1
<1>4. 1 \in 1..Len(q)
  BY <1>1
<1>5. Elements(q) = {Head(q)} \cup Elements(r)
  <2>1. \A i \in 1..(Len(q) - 1) : r[i] = q[i + 1]
    BY <1>1 DEF r
  <2>2. Elements(r) = {r[i] : i \in 1..(Len(q) - 1)}
    BY <1>1 DEF r, Elements
  <2>3. ASSUME NEW s \in Elements(q) PROVE s \in {Head(q)} \cup Elements(r)
    <3>1. PICK i \in 1..Len(q) : s = q[i]
      BY DEF Elements
    <3>2. CASE i = 1
      BY <1>1, <3>1, <3>2
    <3>3. CASE i - 1 \in 1..(Len(q) - 1) /\ (i - 1) + 1 = i
      BY <2>1, <2>2, <3>1, <3>3
    <3> QED BY <1>3, <3>2, <3>3
  <2>4. ASSUME NEW s \in {Head(q)} \cup Elements(r) PROVE s \in Elements(q)
    <3>1. CASE s = Head(q)
      BY <1>1, <1>4, <3>1 DEF Elements
    <3>2. CASE s \in Elements(r)
      <4>1. PICK j \in 1..(Len(q) - 1) : s = r[j]
        BY <2>2, <3>2
      <4>2. s = q[j + 1] /\ j + 1 \in 1..Len(q)
        BY <1>2, <2>1, <4>1
      <4> QED BY <4>2 DEF Elements
    <3> QED BY <3>1, <3>2
  <2> QED BY <2>3, <2>4
<1>6. Ascending(r)
  <2> SUFFICES ASSUME NEW i \in 1..(Len(q) - 1), NEW j \in 1..(Len(q) - 1), i < j
               PROVE  r[i] < r[j]
    BY <1>1 DEF r, Ascending
  <2>1. i + 1 < j + 1
    BY <1>1
  <2> QED BY <1>1, <1>2, <2>1 DEF r, Ascending
<1>7. \A s \in Elements(r) : Head(q) < s
  BY <1>1, <1>2, <1>4 DEF r, Elements, Ascending
<1>8. Len(q) = 1 <=> r = <<>>
  <2>1. r \in Seq(Nat) /\ Len(r) = Len(q) - 1
    BY <1>1 DEF r
  <2>2. r = <<>> <=> Len(r) = 0
    BY <2>1, EmptySeq
  <2> QED BY <1>1, <2>1, <2>2
<1> QED BY <1>1, <1>4, <1>5, <1>6, <1>7, <1>8 DEF r, Elements

-----------------------------------------------------------------------------
(* Types.                                                                  *)

LEMMA MineTyped ==
  ASSUME BusTypeOK
  PROVE  /\ Len(log) \in Nat /\ DOMAIN log = 1..Len(log)
         /\ \A c \in Clients : Mine(c) \subseteq 1..Len(log) /\ Mine(c) \subseteq Nat
         /\ 1..Len(log) \subseteq Nat
BY LenProperties DEF BusTypeOK, Mine

\* subscribe: the replay is what the ring has for the client behind the given number.
LEMMA Subscribed ==
  ASSUME BusTypeOK, NEW c \in Clients, NEW from \in Nat, Subscribe(c, from)
  PROVE  /\ backlog'[c] \in Seq(Nat) /\ Ascending(backlog'[c])
         /\ Elements(backlog'[c]) = {s \in Mine(c) : s > from /\ InRing(s)}
         /\ start'[c] = Len(log) /\ queue'[c] = <<>> /\ dropped'[c] = {} /\ last'[c] = 0
         /\ phase'[c] = IF backlog'[c] = <<>> THEN "sync" ELSE "replay"
         /\ passed'[c] = passed[c] \cup {s \in Mine(c) : ~ InRing(s)}
         /\ backlog' = [backlog EXCEPT ![c] = backlog'[c]]
<1> DEFINE P == {s \in DOMAIN log : s > from /\ InRing(s) /\ Matches(c, log[s])}
<1>1. P \in SUBSET (1..Len(log)) /\ P = {s \in Mine(c) : s > from /\ InRing(s)}
  BY MineTyped DEF Mine
<1>2. Replay(c, from) = Events(P)
  BY DEF Replay
<1> HIDE DEF P
<1>3. Events(P) \in Seq(Nat) /\ Ascending(Events(P)) /\ Elements(Events(P)) = P
  BY <1>1, MineTyped, EventsAscend
<1>4. backlog' = [backlog EXCEPT ![c] = Events(P)] /\ backlog'[c] = Events(P)
  BY <1>2 DEF Subscribe, BusTypeOK
<1> QED BY <1>1, <1>2, <1>3, <1>4 DEF Subscribe, BusTypeOK

LEMMA SubscribeTyped ==
  ASSUME BusTypeOK, NEW c \in Clients, NEW from \in Nat, Subscribe(c, from)
  PROVE  /\ log' \in Seq(Messages) /\ phase' \in [Clients -> Phases]
         /\ backlog' \in [Clients -> Seq(Nat)] /\ queue' \in [Clients -> Seq(Nat)]
         /\ start' \in [Clients -> Nat] /\ last' \in [Clients -> Nat]
         /\ dropped' \in [Clients -> SUBSET Nat] /\ passed' \in [Clients -> SUBSET Nat]
         /\ UNCHANGED <<hand, counted, got, told, forgotten, reloads, masters>>
<1>1. backlog' \in [Clients -> Seq(Nat)]
  BY Subscribed DEF BusTypeOK
<1>2. passed[c] \cup {s \in Mine(c) : ~ InRing(s)} \in SUBSET Nat
  BY MineTyped DEF BusTypeOK
<1>3. passed' \in [Clients -> SUBSET Nat]
  BY <1>2 DEF Subscribe, BusTypeOK
<1>4. queue' \in [Clients -> Seq(Nat)]
  BY EmptySeq DEF Subscribe, BusTypeOK
<1>5. phase' \in [Clients -> Phases]
  BY DEF Subscribe, BusTypeOK, Phases
<1> QED BY <1>1, <1>3, <1>4, <1>5, MineTyped DEF Subscribe, BusTypeOK

LEMMA HandleTyped ==
  ASSUME BusTypeOK, NEW c \in Clients, NEW n \in Nat, NEW then \in Phases, Handle(c, n, then)
  PROVE  /\ phase' \in [Clients -> Phases] /\ last' \in [Clients -> Nat]
         /\ got' \in [Clients -> SUBSET Nat] /\ cursor' \in [Clients -> Nat]
         /\ foreign' \subseteq Clients /\ reload' \in [Clients -> Nat]
         /\ reloads' \in [Clients -> SUBSET Nat]
<1>1. "leaving" \in Phases
  BY DEF Phases
<1>2. /\ phase \in [Clients -> Phases] /\ reload \in [Clients -> Nat]
      /\ cursor \in [Clients -> Nat] /\ last \in [Clients -> Nat] /\ foreign \subseteq Clients
      /\ reloads \in [Clients -> SUBSET Nat] /\ got \in [Clients -> SUBSET Nat]
  BY DEF BusTypeOK
<1>3. /\ phase' = [phase EXCEPT ![c] = "leaving"] \/ phase' = [phase EXCEPT ![c] = then]
      /\ reload' = [reload EXCEPT ![c] = n] \/ reload' = reload
      /\ reloads' = [reloads EXCEPT ![c] = @ \cup {n}] \/ reloads' = reloads
      /\ cursor' = [cursor EXCEPT ![c] = n] \/ cursor' = cursor
      /\ foreign' = foreign \ {c} \/ foreign' = foreign
      /\ got' = [got EXCEPT ![c] = @ \cup {n}] /\ last' = [last EXCEPT ![c] = n]
  BY DEF Handle
<1>4. phase' \in [Clients -> Phases]
  BY <1>1, <1>2, <1>3
<1>5. reload' \in [Clients -> Nat] /\ cursor' \in [Clients -> Nat] /\ last' \in [Clients -> Nat]
  BY <1>2, <1>3
<1>6. reloads[c] \cup {n} \in SUBSET Nat /\ got[c] \cup {n} \in SUBSET Nat
  BY <1>2
<1>7. reloads' \in [Clients -> SUBSET Nat] /\ got' \in [Clients -> SUBSET Nat]
  BY <1>2, <1>3, <1>6
<1> QED BY <1>2, <1>3, <1>4, <1>5, <1>7

LEMMA BusTypeStep ==
  ASSUME ConstantsAssumption, BusInv, [Next]_vars
  PROVE  BusTypeOK'
<1>0. BusTypeOK
  BY DEF BusInv
<1>1. ASSUME NEW kind \in Kinds, NEW to \in Audiences, Publish(kind, to) PROVE BusTypeOK'
  <2>1. [kind |-> kind, to |-> to] \in Messages
    BY DEF Messages, Audiences, ConstantsAssumption
  <2>2. log' \in Seq(Messages)
    BY <1>0, <1>1, <2>1, AppendProperties DEF Publish, BusTypeOK
  <2>3. Len(log) + 1 \in Nat
    BY <1>0, MineTyped
  <2>4. \A c \in Clients : Append(queue[c], Len(log) + 1) \in Seq(Nat)
    BY <1>0, <2>3, AppendProperties DEF BusTypeOK
  <2>5. queue' \in [Clients -> Seq(Nat)] /\ dropped' \in [Clients -> SUBSET Nat]
    BY <1>0, <1>1, <2>3, <2>4 DEF Publish, Enqueue, BusTypeOK
  <2> QED BY <1>0, <1>1, <2>2, <2>5 DEF Publish, BusTypeOK, page, history
<1>2. ASSUME NEW c \in Clients, LoadPage(c) PROVE BusTypeOK'
  <2>1. cursor[c] \in Nat /\ Subscribe(c, cursor[c])
    BY <1>0, <1>2 DEF LoadPage, BusTypeOK
  <2>2. skipped[c] \cup {s \in Mine(c) : s <= cursor[c]} \in SUBSET Nat
    BY <1>0, MineTyped DEF BusTypeOK
  <2>3. skipped' \in [Clients -> SUBSET Nat]
    BY <1>0, <1>2, <2>2 DEF LoadPage, BusTypeOK
  <2>4. /\ since' \in [Clients -> Nat] /\ synced' \in [Clients -> BOOLEAN]
        /\ reload' \in [Clients -> Nat] /\ foreignUrl' \subseteq Clients
        /\ UNCHANGED <<cursor, foreign>>
    BY <1>0, <1>2 DEF LoadPage, BusTypeOK
  <2> QED BY <1>0, <2>1, <2>3, <2>4, SubscribeTyped DEF BusTypeOK
<1>3. ASSUME NEW c \in Clients, Reconnect(c) PROVE BusTypeOK'
  <2>1. since[c] \in Nat /\ Subscribe(c, since[c])
    BY <1>0, <1>3 DEF Reconnect, BusTypeOK
  <2>2. skipped[c] \cup {s \in Mine(c) : s <= since[c]} \in SUBSET Nat
    BY <1>0, MineTyped DEF BusTypeOK
  <2>3. skipped' \in [Clients -> SUBSET Nat]
    BY <1>0, <1>3, <2>2 DEF Reconnect, BusTypeOK
  <2> QED BY <1>0, <1>3, <2>1, <2>3, SubscribeTyped DEF BusTypeOK, Reconnect, page
<1>4. ASSUME NEW c \in Clients, Disconnect(c) PROVE BusTypeOK'
  BY <1>0, <1>4, EmptySeq DEF Disconnect, BusTypeOK, Phases, page
<1>5. ASSUME NEW c \in Clients, Pull(c) PROVE BusTypeOK'
  <2>1. Head(queue[c]) \in Nat /\ Tail(queue[c]) \in Seq(Nat)
    BY <1>0, <1>5, HeadTailProperties DEF Pull, BusTypeOK
  <2>2. hand' \in [Clients -> Nat] /\ queue' \in [Clients -> Seq(Nat)]
    BY <1>0, <1>5, <2>1 DEF Pull, BusTypeOK
  <2> QED BY <1>0, <1>5, <2>2 DEF Pull, BusTypeOK, Phases, page, history
<1>6. ASSUME NEW c \in Clients, ReceiveReplay(c) PROVE BusTypeOK'
  <2>1. backlog[c] # <<>>
    BY <1>6 DEF BusInv, ClientOK, StreamOK, ReceiveReplay
  <2>2. Head(backlog[c]) \in Nat /\ Tail(backlog[c]) \in Seq(Nat)
    BY <1>0, <2>1, HeadTailProperties DEF BusTypeOK
  <2>3. \E then \in Phases : Handle(c, Head(backlog[c]), then)
    BY <1>6 DEF ReceiveReplay, Phases
  <2>4. backlog' \in [Clients -> Seq(Nat)]
    BY <1>0, <1>6, <2>2 DEF ReceiveReplay, BusTypeOK
  <2> QED BY <1>0, <1>6, <2>2, <2>3, <2>4, HandleTyped DEF ReceiveReplay, BusTypeOK
<1>7. ASSUME NEW c \in Clients, ReceiveSync(c) PROVE BusTypeOK'
  BY <1>0, <1>7 DEF ReceiveSync, BusTypeOK, Phases
<1>8. ASSUME NEW c \in Clients, ReceiveNotice(c) PROVE BusTypeOK'
  BY <1>0, <1>8 DEF ReceiveNotice, BusTypeOK, Phases, page
<1>9. ASSUME NEW c \in Clients, ReceiveMessage(c) PROVE BusTypeOK'
  <2>1. hand[c] \in Nat /\ "wait" \in Phases /\ Handle(c, hand[c], "wait")
    BY <1>0, <1>9 DEF ReceiveMessage, BusTypeOK, Phases
  <2> QED BY <1>0, <1>9, <2>1, HandleTyped DEF ReceiveMessage, BusTypeOK
<1>10. ASSUME Restart PROVE BusTypeOK'
  BY <1>0, <1>10, EmptySeq DEF Restart, None, BusTypeOK, Phases, page
<1>11. ASSUME UNCHANGED vars PROVE BusTypeOK'
  BY <1>0, <1>11 DEF vars, stream, page, history, BusTypeOK
<1> QED
  BY <1>1, <1>2, <1>3, <1>4, <1>5, <1>6, <1>7, <1>8, <1>9, <1>10, <1>11 DEF Next

-----------------------------------------------------------------------------
(* The other clients.                                                      *)

\* Nothing of client d changes.
Same(d) ==
  /\ phase'[d] = phase[d] /\ backlog'[d] = backlog[d] /\ start'[d] = start[d]
  /\ queue'[d] = queue[d] /\ hand'[d] = hand[d]
  /\ dropped'[d] = dropped[d] /\ counted'[d] = counted[d]
  /\ since'[d] = since[d] /\ cursor'[d] = cursor[d] /\ reload'[d] = reload[d]
  /\ last'[d] = last[d] /\ got'[d] = got[d] /\ told'[d] = told[d]
  /\ forgotten'[d] = forgotten[d] /\ passed'[d] = passed[d] /\ skipped'[d] = skipped[d]
  /\ reloads'[d] = reloads[d]
  /\ (d \in foreign') = (d \in foreign) /\ (d \in foreignUrl') = (d \in foreignUrl)

\* What is true of a client stays true while nothing of it changes, and no event is published.
LEMMA SameClient ==
  ASSUME NEW d \in Clients, ClientOK(d), Same(d), UNCHANGED <<log, masters>>
  PROVE  ClientOK(d)'
<1>1. Mine(d)' = Mine(d)
  BY DEF Mine, Matches
<1>2. Ahead(d)' = Ahead(d) /\ Known(d)' = Known(d)
  BY DEF Same, Ahead, Known, Elements
<1>3. StreamOK(d)'
  BY <1>1, <1>2 DEF Same, ClientOK, StreamOK, Ascending, Elements
<1>4. AccountOK(d)'
  BY <1>1, <1>2 DEF Same, ClientOK, AccountOK
<1>5. CursorOK(d)'
  BY <1>1, <1>2 DEF Same, ClientOK, CursorOK
<1>6. ReloadOK(d)'
  BY <1>1, <1>2 DEF Same, ClientOK, ReloadOK
<1> QED BY <1>3, <1>4, <1>5, <1>6 DEF ClientOK

\* A listener is of one client.
LEMMA HandleElsewhere ==
  ASSUME BusTypeOK, NEW c \in Clients, NEW d \in Clients, d # c, NEW n, NEW then,
         Handle(c, n, then)
  PROVE  /\ got'[d] = got[d] /\ last'[d] = last[d] /\ cursor'[d] = cursor[d]
         /\ (d \in foreign') = (d \in foreign) /\ reload'[d] = reload[d]
         /\ reloads'[d] = reloads[d] /\ phase'[d] = phase[d]
<1>1. /\ phase' = [phase EXCEPT ![c] = "leaving"] \/ phase' = [phase EXCEPT ![c] = then]
      /\ reload' = [reload EXCEPT ![c] = n] \/ reload' = reload
      /\ reloads' = [reloads EXCEPT ![c] = @ \cup {n}] \/ reloads' = reloads
      /\ cursor' = [cursor EXCEPT ![c] = n] \/ cursor' = cursor
      /\ foreign' = foreign \ {c} \/ foreign' = foreign
      /\ got' = [got EXCEPT ![c] = @ \cup {n}] /\ last' = [last EXCEPT ![c] = n]
  BY DEF Handle
<1>2. reload'[d] = reload[d] /\ reloads'[d] = reloads[d] /\ phase'[d] = phase[d]
  BY <1>1 DEF BusTypeOK
<1>3. got'[d] = got[d] /\ last'[d] = last[d] /\ cursor'[d] = cursor[d]
  BY <1>1 DEF BusTypeOK
<1> QED BY <1>1, <1>2, <1>3

\* A step of client c is of no other, and publishes nothing.
LEMMA OthersSame ==
  ASSUME BusTypeOK, NEW c \in Clients, NEW d \in Clients, d # c,
         \/ LoadPage(c) \/ Reconnect(c) \/ Disconnect(c) \/ Pull(c)
         \/ ReceiveReplay(c) \/ ReceiveSync(c) \/ ReceiveNotice(c) \/ ReceiveMessage(c)
  PROVE  Same(d) /\ UNCHANGED <<log, masters>>
<1>1. CASE LoadPage(c)
  BY <1>1 DEF LoadPage, Subscribe, BusTypeOK, Same
<1>2. CASE Reconnect(c)
  BY <1>2 DEF Reconnect, Subscribe, BusTypeOK, Same, page
<1>3. CASE Disconnect(c)
  BY <1>3 DEF Disconnect, BusTypeOK, Same, page
<1>4. CASE Pull(c)
  BY <1>4 DEF Pull, BusTypeOK, Same, page, history
<1>5. CASE ReceiveReplay(c)
  <2>1. PICK then : Handle(c, Head(backlog[c]), then)
    BY <1>5 DEF ReceiveReplay
  <2> QED BY <1>5, <2>1, HandleElsewhere DEF ReceiveReplay, BusTypeOK, Same
<1>6. CASE ReceiveSync(c)
  BY <1>6 DEF ReceiveSync, BusTypeOK, Same
<1>7. CASE ReceiveNotice(c)
  BY <1>7 DEF ReceiveNotice, BusTypeOK, Same, page
<1>8. CASE ReceiveMessage(c)
  <2>1. Handle(c, hand[c], "wait")
    BY <1>8 DEF ReceiveMessage
  <2> QED BY <1>8, <2>1, HandleElsewhere DEF ReceiveMessage, BusTypeOK, Same
<1> QED BY <1>1, <1>2, <1>3, <1>4, <1>5, <1>6, <1>7, <1>8

-----------------------------------------------------------------------------
(* The steps of one client.                                                *)

\* subscribe, when all up to the given number is known.
LEMMA SubscribeOK ==
  ASSUME BusTypeOK, NEW c \in Clients, NEW from \in Nat, Subscribe(c, from),
         phase[c] = "closed", ClientOK(c), skipped[c] \subseteq skipped'[c],
         \A s \in Mine(c) : s <= from => s \in Known(c)'
  PROVE  /\ StreamOK(c)' /\ AccountOK(c)' /\ Known(c) \subseteq Known(c)' /\ Mine(c)' = Mine(c)
         /\ \A s \in Ahead(c)' : from < s
         /\ start'[c] = Len(log) /\ phase'[c] \in {"replay", "sync"}
         /\ Len(log)' = Len(log)
<1> DEFINE b == backlog'[c]
<1>1. /\ b \in Seq(Nat) /\ Ascending(b)
      /\ Elements(b) = {s \in Mine(c) : s > from /\ InRing(s)}
      /\ start'[c] = Len(log) /\ queue'[c] = <<>> /\ dropped'[c] = {} /\ last'[c] = 0
      /\ phase'[c] = IF b = <<>> THEN "sync" ELSE "replay"
      /\ passed'[c] = passed[c] \cup {s \in Mine(c) : ~ InRing(s)}
  BY Subscribed
<1>2. /\ UNCHANGED <<log, masters>> /\ counted'[c] = counted[c] /\ got'[c] = got[c]
      /\ told'[c] = told[c] /\ forgotten'[c] = forgotten[c]
  BY DEF Subscribe
<1>3. Mine(c)' = Mine(c) /\ Len(log)' = Len(log)
  BY <1>2 DEF Mine, Matches
<1>4. Known(c) \subseteq Known(c)' /\ {s \in Mine(c) : ~ InRing(s)} \subseteq Known(c)'
  BY <1>1, <1>2 DEF Known
<1>5. Elements(<<>>) = {} /\ Ascending(<<>>)
  BY DEF Elements, Ascending
<1>6. Ahead(c)' = Elements(b)
  BY <1>1, <1>5 DEF Ahead, Elements
<1> HIDE DEF b
<1>7. counted[c] = {}
  BY DEF ClientOK, AccountOK
<1>8. AccountOK(c)'
  <2>1. ASSUME NEW s \in Mine(c) PROVE s \in Known(c)' \cup Ahead(c)'
    <3>1. s \in Nat
      BY MineTyped
    <3>2. s <= from \/ s > from
      BY <3>1
    <3> QED BY <1>1, <1>4, <1>6, <3>2
  <2> QED BY <1>1, <1>2, <1>3, <1>7, <2>1 DEF AccountOK
<1>9. StreamOK(c)'
  <2>1. \A s \in Elements(b) : s \in Mine(c) /\ 0 < s /\ s <= Len(log)
    BY <1>1, MineTyped
  <2>2. /\ phase'[c] # "closed" /\ ~ phase'[c] \in {"notice", "message"}
        /\ phase'[c] \in {"replay", "sync"}
        /\ b # <<>> => phase'[c] = "replay"
        /\ phase'[c] = "replay" => b # <<>>
    BY <1>1
  <2>3. Ascending(queue[c])' /\ Elements(queue[c])' = {}
    BY <1>1, <1>5 DEF Elements, Ascending
  <2>4. Ascending(backlog[c])' /\ Elements(backlog[c])' = Elements(b)
    BY <1>1 DEF b, Ascending, Elements
  <2>5. 0 <= Len(log) /\ Len(log) <= Len(log)
    BY MineTyped
  <2> QED BY <1>1, <1>2, <1>3, <1>6, <2>1, <2>2, <2>3, <2>4, <2>5 DEF StreamOK, b
<1> QED BY <1>1, <1>2, <1>3, <1>4, <1>6, <1>8, <1>9

LEMMA LoadPageOK ==
  ASSUME BusTypeOK, NEW c \in Clients, LoadPage(c), ClientOK(c)
  PROVE  ClientOK(c)'
<1> DEFINE from == cursor[c]
<1>1. /\ from \in Nat /\ Subscribe(c, from) /\ phase[c] = "closed"
      /\ since'[c] = from /\ reload'[c] = 0 /\ cursor'[c] = from
      /\ (c \in foreignUrl') = (c \in foreign) /\ foreign' = foreign
      /\ reloads'[c] = reloads[c] /\ got'[c] = got[c]
  BY DEF LoadPage, Subscribe, BusTypeOK
<1>2. /\ skipped[c] \subseteq skipped'[c]
      /\ c \in foreign => \A s \in Mine(c) : s <= from => s \in skipped'[c]
  BY DEF LoadPage, BusTypeOK
<1>3. c \notin foreign => from <= Len(log) /\ \A s \in Mine(c) : s <= from => s \in Known(c)
  BY DEF ClientOK, CursorOK
<1> HIDE DEF from
<1>5. Known(c) \subseteq Known(c)' /\ skipped'[c] \subseteq Known(c)'
  <2>1. /\ got'[c] = got[c] /\ told'[c] = told[c] /\ forgotten'[c] = forgotten[c]
        /\ passed[c] \subseteq passed'[c]
    BY <1>1, Subscribed DEF Subscribe
  <2> QED BY <1>2, <2>1 DEF Known
<1>6. \A s \in Mine(c) : s <= from => s \in Known(c)'
  BY <1>2, <1>3, <1>5
<1>7. /\ StreamOK(c)' /\ AccountOK(c)' /\ Mine(c)' = Mine(c)
      /\ \A s \in Ahead(c)' : from < s
      /\ start'[c] = Len(log) /\ phase'[c] \in {"replay", "sync"} /\ Len(log)' = Len(log)
  BY <1>1, <1>2, <1>6, SubscribeOK
<1>8. CursorOK(c)'
  BY <1>1, <1>3, <1>6, <1>7 DEF ClientOK, CursorOK
<1>9. ReloadOK(c)'
  BY <1>1, <1>3, <1>7 DEF ClientOK, ReloadOK, from
<1> QED BY <1>7, <1>8, <1>9 DEF ClientOK

LEMMA ReconnectOK ==
  ASSUME BusTypeOK, NEW c \in Clients, Reconnect(c), ClientOK(c)
  PROVE  ClientOK(c)'
<1> DEFINE from == since[c]
<1>1. /\ from \in Nat /\ Subscribe(c, from) /\ phase[c] = "closed" /\ reload[c] = 0
      /\ since'[c] = from /\ reload'[c] = reload[c] /\ cursor'[c] = cursor[c]
      /\ foreignUrl' = foreignUrl /\ foreign' = foreign
      /\ reloads'[c] = reloads[c] /\ got'[c] = got[c]
  BY DEF Reconnect, Subscribe, BusTypeOK, page
<1>2. /\ skipped[c] \subseteq skipped'[c]
      /\ c \in foreignUrl => \A s \in Mine(c) : s <= from => s \in skipped'[c]
  BY DEF Reconnect, BusTypeOK
<1>3. /\ c \notin foreignUrl => from <= Len(log) /\ \A s \in Mine(c) : s <= from => s \in Known(c)
      /\ c \notin foreign =>
           cursor[c] <= Len(log) /\ \A s \in Mine(c) : s <= cursor[c] => s \in Known(c)
  BY DEF ClientOK, CursorOK
<1> HIDE DEF from
<1>5. Known(c) \subseteq Known(c)' /\ skipped'[c] \subseteq Known(c)'
  <2>1. /\ got'[c] = got[c] /\ told'[c] = told[c] /\ forgotten'[c] = forgotten[c]
        /\ passed[c] \subseteq passed'[c]
    BY <1>1, Subscribed DEF Subscribe
  <2> QED BY <1>2, <2>1 DEF Known
<1>6. \A s \in Mine(c) : s <= from => s \in Known(c)'
  BY <1>2, <1>3, <1>5
<1>7. /\ StreamOK(c)' /\ AccountOK(c)' /\ Mine(c)' = Mine(c)
      /\ \A s \in Ahead(c)' : from < s
      /\ start'[c] = Len(log) /\ phase'[c] \in {"replay", "sync"} /\ Len(log)' = Len(log)
  BY <1>1, <1>2, <1>6, SubscribeOK
<1>8. CursorOK(c)'
  BY <1>1, <1>3, <1>5, <1>6, <1>7 DEF ClientOK, CursorOK
<1>9. ReloadOK(c)'
  BY <1>1, <1>3, <1>7 DEF ClientOK, ReloadOK, from
<1> QED BY <1>7, <1>8, <1>9 DEF ClientOK

LEMMA DisconnectOK ==
  ASSUME BusTypeOK, NEW c \in Clients, Disconnect(c), ClientOK(c)
  PROVE  ClientOK(c)'
<1>1. /\ phase'[c] = "closed" /\ dropped'[c] = {} /\ counted'[c] = {}
      /\ UNCHANGED <<log, masters, since, cursor, reload, got, reloads, foreign, foreignUrl>>
      /\ UNCHANGED <<told, passed, forgotten, skipped>>
  BY DEF Disconnect, BusTypeOK, page
<1>2. Mine(c)' = Mine(c) /\ Known(c)' = Known(c)
  BY <1>1 DEF Mine, Matches, Known
<1> QED BY <1>1, <1>2 DEF ClientOK, StreamOK, AccountOK, CursorOK, ReloadOK

\* The listener of the next event ahead, before which nothing was dropped: all up to the event is
\* known, and what an earlier page reloaded for is behind it.
LEMMA HandleOK ==
  ASSUME BusTypeOK, NEW c \in Clients, NEW n \in Nat, NEW then \in Phases, Handle(c, n, then),
         phase[c] \notin {"closed", "leaving"}, then \notin {"closed", "leaving"},
         then \in {"replay", "sync"} => phase[c] = "replay",
         ClientOK(c), n \in Mine(c), Ahead(c) = {n} \cup Ahead(c)',
         \A s \in Ahead(c)' \cup dropped[c] : n < s,
         UNCHANGED <<log, masters, start, dropped, counted, since, told, forgotten, passed,
                     skipped, foreignUrl>>
  PROVE  /\ AccountOK(c)' /\ CursorOK(c)' /\ ReloadOK(c)' /\ last'[c] = n
         /\ phase'[c] \in {then, "leaving"} /\ Mine(c)' = Mine(c)
         /\ reload[c] = 0 /\ \A r \in reloads[c] : r < n
<1>1. /\ got'[c] = got[c] \cup {n} /\ last'[c] = n
      /\ \/ cursor'[c] = n /\ c \notin foreign'
         \/ cursor'[c] = cursor[c] /\ (c \in foreign') = (c \in foreign)
      /\ \/ phase'[c] = then /\ reload'[c] = reload[c] /\ reloads'[c] = reloads[c]
         \/ /\ phase'[c] = "leaving" /\ reload'[c] = n /\ reloads'[c] = reloads[c] \cup {n}
            /\ cursor'[c] = n /\ c \notin foreign'
  <2>1. CASE log[n].kind = "quiet"
    BY <2>1 DEF Handle, BusTypeOK
  <2>2. CASE log[n].kind # "quiet" /\ log[n].kind = "reload" /\ synced[c] /\ c \in masters
    BY <2>2 DEF Handle, BusTypeOK
  <2>3. CASE log[n].kind # "quiet" /\ ~ (log[n].kind = "reload" /\ synced[c] /\ c \in masters)
    BY <2>3 DEF Handle, BusTypeOK
  <2> QED BY <2>1, <2>2, <2>3
<1>2. Mine(c)' = Mine(c) /\ Len(log)' = Len(log)
  BY DEF Mine, Matches
<1>3. Known(c)' = Known(c) \cup {n}
  BY <1>1 DEF Known
<1>4. n <= Len(log) /\ n > 0 /\ Mine(c) \subseteq Nat
  BY MineTyped
<1>5. AccountOK(c)'
  BY <1>1, <1>2, <1>3 DEF ClientOK, AccountOK
<1>6. \A s \in Mine(c) : s <= n => s \in Known(c)'
  <2> SUFFICES ASSUME NEW s \in Mine(c), s <= n, s \notin Known(c) \cup {n} PROVE FALSE
    BY <1>3
  <2>1. s \in Ahead(c)' \cup dropped[c]
    BY DEF ClientOK, AccountOK
  <2>2. n < s /\ s \in Nat
    BY <1>4, <2>1
  <2> QED BY <2>2
<1>7. CursorOK(c)'
  <2>1. got'[c] \subseteq Mine(c)'
    BY <1>1, <1>2 DEF ClientOK, CursorOK
  <2>2. c \notin foreign' =>
          cursor'[c] <= Len(log)' /\ \A s \in Mine(c)' : s <= cursor'[c] => s \in Known(c)'
    BY <1>1, <1>2, <1>3, <1>4, <1>6 DEF ClientOK, CursorOK
  <2>3. c \notin foreignUrl' =>
          since'[c] <= Len(log)' /\ \A s \in Mine(c)' : s <= since'[c] => s \in Known(c)'
    BY <1>2, <1>3 DEF ClientOK, CursorOK
  <2> QED BY <2>1, <2>2, <2>3 DEF CursorOK
<1>8. reload[c] = 0 /\ since[c] \in Nat /\ cursor[c] \in Nat /\ reloads[c] \subseteq Nat
  BY DEF ClientOK, ReloadOK, BusTypeOK
<1>9. \A r \in reloads[c] : r <= since[c] /\ since[c] < n
  BY <1>8 DEF ClientOK, ReloadOK
<1>10. \A r \in reloads[c] : r < n /\ r <= n
  BY <1>8, <1>9
<1>11. ReloadOK(c)'
  <2>1. phase'[c] \notin {"closed", "leaving"} => reload'[c] = 0
    BY <1>1, <1>8
  <2>2. reloads'[c] # {} => c \notin foreign'
    BY <1>1 DEF ClientOK, ReloadOK
  <2>3. reload'[c] = 0 => reloads'[c] = reloads[c]
    BY <1>1, <1>4
  <2>4. reloads'[c] # {} /\ reload'[c] = 0 => c \notin foreignUrl'
    BY <1>8, <2>3 DEF ClientOK, ReloadOK
  <2>5. \A r \in reloads'[c] : r <= cursor'[c] /\ (reload'[c] = 0 => r <= since'[c])
    BY <1>1, <1>8, <1>9, <1>10, <2>3 DEF ClientOK, ReloadOK
  <2>6. c \notin foreignUrl' => \A s \in Ahead(c)' : since'[c] < s
    BY DEF ClientOK, ReloadOK
  <2>7. c \notin foreignUrl' /\ phase'[c] \in {"replay", "sync"} => since'[c] <= start'[c]
    BY <1>1 DEF ClientOK, ReloadOK
  <2> QED BY <2>1, <2>2, <2>4, <2>5, <2>6, <2>7 DEF ReloadOK
<1> QED BY <1>1, <1>2, <1>5, <1>7, <1>8, <1>10, <1>11

\* What a listener needs to know of the event it is called with.
LEMMA ReceiveReplayOK ==
  ASSUME BusTypeOK, NEW c \in Clients, ReceiveReplay(c), ClientOK(c)
  PROVE  /\ ClientOK(c)'
         /\ reload[c] = 0 /\ \A r \in reloads[c] : r < Head(backlog[c])
         /\ Handle(c, Head(backlog[c]), IF Len(backlog[c]) = 1 THEN "sync" ELSE "replay")
<1> DEFINE n == Head(backlog[c])
           rest == Tail(backlog[c])
           then == IF Len(backlog[c]) = 1 THEN "sync" ELSE "replay"
<1>1. phase[c] = "replay" /\ backlog[c] # <<>> /\ backlog[c] \in Seq(Nat)
  BY DEF ReceiveReplay, ClientOK, StreamOK, BusTypeOK
<1>2. StreamOK(c) /\ phase[c] # "closed"
  BY <1>1 DEF ClientOK
<1>3. /\ rest \in Seq(Nat) /\ Ascending(rest) /\ n \in Elements(backlog[c])
      /\ Elements(backlog[c]) = {n} \cup Elements(rest)
      /\ \A s \in Elements(rest) : n < s
      /\ Len(backlog[c]) = 1 <=> rest = <<>>
  BY <1>1, <1>2, TailAscends DEF StreamOK
<1>4. /\ Handle(c, n, then) /\ backlog'[c] = rest
      /\ UNCHANGED <<log, masters, start, queue, hand, dropped, counted, since, told, forgotten,
                     passed, skipped, foreignUrl>>
  BY DEF ReceiveReplay, BusTypeOK
<1>5. /\ then \in Phases /\ then \in {"replay", "sync"} /\ (then = "sync" <=> rest = <<>>)
  BY <1>3 DEF Phases
<1> HIDE DEF n, rest, then
<1>6. phase'[c] \in {then, "leaving"}
  BY <1>4 DEF Handle, BusTypeOK
<1>7. Ahead(c) = Elements(backlog[c]) \cup Elements(queue[c])
  BY <1>1 DEF Ahead
<1>8. Ahead(c)' = Elements(rest) \cup Elements(queue[c])
  <2>1. phase'[c] \notin {"notice", "message"}
    BY <1>5, <1>6
  <2> QED BY <1>4, <2>1 DEF Ahead, Elements
<1>9. n \in Mine(c) /\ n \in Nat /\ n <= start[c] /\ start[c] \in Nat
  BY <1>2, <1>3, <1>7, MineTyped DEF StreamOK, BusTypeOK
<1>10. \A s \in Elements(queue[c]) \cup dropped[c] : start[c] < s /\ s \in Nat
  <2>1. Elements(queue[c]) \subseteq Mine(c)
    BY <1>2, <1>7 DEF StreamOK
  <2> QED BY <1>1, <1>2, <2>1, MineTyped DEF StreamOK, BusTypeOK
<1>11. \A s \in Ahead(c)' \cup dropped[c] : n < s
  <2>1. \A s \in Elements(queue[c]) \cup dropped[c] : n < s
    BY <1>9, <1>10
  <2> QED BY <1>3, <1>8, <2>1
<1>12. /\ AccountOK(c)' /\ CursorOK(c)' /\ ReloadOK(c)' /\ last'[c] = n /\ Mine(c)' = Mine(c)
       /\ reload[c] = 0 /\ \A r \in reloads[c] : r < n
  BY <1>1, <1>3, <1>4, <1>5, <1>7, <1>8, <1>9, <1>11, HandleOK
<1>13. StreamOK(c)'
  <2>1. Ascending(backlog[c])' /\ Ascending(queue[c])'
    BY <1>2, <1>1, <1>3, <1>4 DEF StreamOK, Ascending
  <2>2. Ahead(c)' \subseteq Mine(c)' /\ \A s \in Ahead(c)' : last'[c] < s
    BY <1>2, <1>3, <1>7, <1>8, <1>11, <1>12 DEF StreamOK
  <2>3. start'[c] <= Len(log)' /\ last'[c] <= start'[c] /\ last'[c] <= Len(log)'
    BY <1>2, <1>4, <1>9, <1>12, MineTyped DEF StreamOK
  <2>4. \A s \in Elements(backlog[c])' : s <= start'[c]
    BY <1>2, <1>3, <1>4 DEF StreamOK, Elements
  <2>5. \A s \in Elements(queue[c])' \cup dropped'[c] : start'[c] < s
    BY <1>4, <1>10 DEF Elements
  <2> QED BY <1>4, <1>5, <1>6, <2>1, <2>2, <2>3, <2>4, <2>5 DEF StreamOK
<1> QED BY <1>4, <1>12, <1>13 DEF ClientOK, n, then

LEMMA ReceiveMessageOK ==
  ASSUME BusTypeOK, NEW c \in Clients, ReceiveMessage(c), ClientOK(c)
  PROVE  /\ ClientOK(c)'
         /\ reload[c] = 0 /\ \A r \in reloads[c] : r < hand[c]
         /\ Handle(c, hand[c], "wait")
<1> DEFINE n == hand[c]
<1>1. phase[c] = "message" /\ backlog[c] = <<>> /\ queue[c] \in Seq(Nat) /\ StreamOK(c)
  BY DEF ReceiveMessage, ClientOK, StreamOK, BusTypeOK
<1>2. /\ Handle(c, n, "wait") /\ backlog'[c] = <<>> /\ "wait" \in Phases
      /\ UNCHANGED <<log, masters, start, queue, dropped, counted, since, told, forgotten,
                     passed, skipped, foreignUrl>>
  BY <1>1 DEF ReceiveMessage, BusTypeOK, Phases
<1>3. n \in Nat
  BY DEF BusTypeOK
<1> HIDE DEF n
<1>4. phase'[c] \in {"wait", "leaving"}
  BY <1>2 DEF Handle, BusTypeOK
<1>5. Elements(<<>>) = {} /\ Ascending(<<>>)
  BY DEF Elements, Ascending
<1>6. Ahead(c) = Elements(queue[c]) \cup {n}
  BY <1>1, <1>5 DEF Ahead, n
<1>7. Ahead(c)' = Elements(queue[c])
  BY <1>2, <1>4, <1>5 DEF Ahead, Elements
<1>8. n \in Mine(c) /\ \A s \in Ahead(c)' \cup dropped[c] : n < s
  BY <1>1, <1>6, <1>7 DEF StreamOK, n
<1>9. /\ AccountOK(c)' /\ CursorOK(c)' /\ ReloadOK(c)' /\ last'[c] = n /\ Mine(c)' = Mine(c)
      /\ reload[c] = 0 /\ \A r \in reloads[c] : r < n
  BY <1>1, <1>2, <1>3, <1>6, <1>7, <1>8, HandleOK
<1>10. StreamOK(c)'
  <2>1. Ascending(backlog[c])' /\ Ascending(queue[c])' /\ Elements(backlog[c])' = {}
    BY <1>1, <1>2, <1>5 DEF StreamOK, Ascending, Elements
  <2>2. Ahead(c)' \subseteq Mine(c)' /\ \A s \in Ahead(c)' : last'[c] < s
    BY <1>1, <1>6, <1>7, <1>8, <1>9 DEF StreamOK
  <2>3. start'[c] <= Len(log)' /\ last'[c] <= Len(log)'
    BY <1>1, <1>2, <1>8, <1>9, MineTyped DEF StreamOK
  <2> QED BY <1>2, <1>4, <2>1, <2>2, <2>3 DEF StreamOK
<1> QED BY <1>2, <1>9, <1>10 DEF ClientOK, n

LEMMA PullOK ==
  ASSUME BusTypeOK, NEW c \in Clients, Pull(c), ClientOK(c)
  PROVE  ClientOK(c)'
<1> DEFINE n == Head(queue[c])
           rest == Tail(queue[c])
<1>1. phase[c] = "wait" /\ backlog[c] = <<>> /\ queue[c] \in Seq(Nat) /\ queue[c] # <<>>
      /\ StreamOK(c)
  BY DEF Pull, ClientOK, StreamOK, BusTypeOK
<1>2. /\ rest \in Seq(Nat) /\ Ascending(rest)
      /\ Elements(queue[c]) = {n} \cup Elements(rest)
      /\ \A s \in Elements(rest) : n < s
  BY <1>1, TailAscends DEF StreamOK
<1>3. /\ hand'[c] = n /\ queue'[c] = rest /\ backlog'[c] = <<>> /\ counted'[c] = dropped[c]
      /\ phase'[c] = IF dropped[c] # {} THEN "notice" ELSE "message"
      /\ UNCHANGED <<log, masters, start, dropped, page, history>>
  BY <1>1 DEF Pull, BusTypeOK
<1> HIDE DEF n, rest
<1>4. phase'[c] \in {"notice", "message"} /\ (phase'[c] = "message" => dropped[c] = {})
  BY <1>3
<1>5. Elements(<<>>) = {} /\ Ascending(<<>>)
  BY DEF Elements, Ascending
<1>6. Ahead(c) = Elements(queue[c])
  BY <1>1, <1>5 DEF Ahead
<1>7. Ahead(c)' = {n} \cup Elements(rest)
  BY <1>3, <1>4, <1>5 DEF Ahead, Elements
<1>8. Mine(c)' = Mine(c) /\ Known(c)' = Known(c) /\ Ahead(c)' = Ahead(c)
  BY <1>2, <1>3, <1>6, <1>7 DEF Mine, Matches, Known, history
<1>9. StreamOK(c)'
  <2>1. Ascending(backlog[c])' /\ Ascending(queue[c])' /\ Elements(backlog[c])' = {}
    BY <1>2, <1>3, <1>5 DEF Ascending, Elements
  <2>2. Ahead(c)' \subseteq Mine(c)' /\ \A s \in Ahead(c)' : last'[c] < s
    BY <1>1, <1>3, <1>8 DEF StreamOK, history
  <2>3. start'[c] <= Len(log)' /\ last'[c] <= Len(log)'
    BY <1>1, <1>3 DEF StreamOK, history
  <2>4. \A s \in Elements(queue[c])' : hand'[c] < s
    BY <1>2, <1>3 DEF Elements
  <2> QED BY <1>3, <1>4, <2>1, <2>2, <2>3, <2>4 DEF StreamOK
<1>10. AccountOK(c)'
  BY <1>1, <1>3, <1>4, <1>8 DEF ClientOK, AccountOK
<1>11. CursorOK(c)'
  BY <1>3, <1>8 DEF ClientOK, CursorOK, page, history
<1>12. ReloadOK(c)'
  BY <1>1, <1>3, <1>4, <1>8 DEF ClientOK, ReloadOK, page, history
<1> QED BY <1>9, <1>10, <1>11, <1>12 DEF ClientOK

LEMMA ReceiveNoticeOK ==
  ASSUME BusTypeOK, NEW c \in Clients, ReceiveNotice(c), ClientOK(c)
  PROVE  ClientOK(c)'
<1>1. /\ phase[c] = "notice" /\ phase'[c] = "message" /\ StreamOK(c)
      /\ told'[c] = told[c] \cup counted[c]
      /\ forgotten'[c] = forgotten[c] \cup (dropped[c] \ counted[c])
      /\ dropped'[c] = {} /\ counted'[c] = {}
      /\ UNCHANGED <<log, masters, backlog, start, queue, hand, page, last, got, passed, skipped,
                     reloads, foreign, foreignUrl>>
  BY DEF ReceiveNotice, ClientOK, BusTypeOK
<1>2. Mine(c)' = Mine(c)
  BY <1>1 DEF Mine, Matches
<1>3. Ahead(c)' = Ahead(c)
  BY <1>1 DEF Ahead, Elements
<1>4. Known(c)' = Known(c) \cup dropped[c]
  BY <1>1 DEF Known, ClientOK, AccountOK
<1>5. StreamOK(c)'
  BY <1>1, <1>2, <1>3 DEF StreamOK, Ascending, Elements
<1>6. AccountOK(c)'
  BY <1>1, <1>2, <1>3, <1>4 DEF ClientOK, AccountOK
<1>7. CursorOK(c)'
  BY <1>1, <1>2, <1>4 DEF ClientOK, CursorOK, page
<1>8. ReloadOK(c)'
  BY <1>1, <1>3 DEF ClientOK, ReloadOK, page
<1> QED BY <1>5, <1>6, <1>7, <1>8 DEF ClientOK

\* All events up to the number of the sse.sync are known: those ahead came after it.
LEMMA ReceiveSyncOK ==
  ASSUME BusTypeOK, NEW c \in Clients, ReceiveSync(c), ClientOK(c)
  PROVE  ClientOK(c)'
<1>1. /\ phase[c] = "sync" /\ phase'[c] = "wait" /\ backlog[c] = <<>> /\ StreamOK(c)
      /\ start'[c] = 0 /\ reload[c] = 0
      /\ \/ start[c] > 0 /\ cursor'[c] = start[c] /\ c \notin foreign'
         \/ cursor'[c] = cursor[c] /\ (c \in foreign') = (c \in foreign) /\ start[c] = 0
      /\ UNCHANGED <<log, masters, backlog, queue, hand, dropped, counted, since, reload, last,
                     got, told, forgotten, passed, skipped, reloads, foreignUrl>>
  BY DEF ReceiveSync, ClientOK, StreamOK, ReloadOK, BusTypeOK
<1>2. Mine(c)' = Mine(c) /\ Known(c)' = Known(c) /\ Len(log)' = Len(log)
  BY <1>1 DEF Mine, Matches, Known
<1>3. Elements(<<>>) = {} /\ Ascending(<<>>)
  BY DEF Elements, Ascending
<1>4. Ahead(c)' = Ahead(c) /\ Ahead(c) = Elements(queue[c])
  BY <1>1, <1>3 DEF Ahead, Elements
<1>5. start[c] \in Nat /\ Mine(c) \subseteq Nat /\ Len(log) \in Nat
  BY MineTyped DEF BusTypeOK
<1>6. \A s \in Mine(c) : s <= start[c] => s \in Known(c)
  <2> SUFFICES ASSUME NEW s \in Mine(c), s <= start[c], s \notin Known(c) PROVE FALSE
    OBVIOUS
  <2>1. s \in Elements(queue[c]) \cup dropped[c]
    BY <1>1, <1>4 DEF ClientOK, AccountOK
  <2>2. start[c] < s
    BY <1>1, <2>1 DEF StreamOK
  <2> QED BY <1>5, <2>2
<1>7. StreamOK(c)'
  <2>1. Ascending(backlog[c])' /\ Ascending(queue[c])' /\ Elements(backlog[c])' = {}
    BY <1>1, <1>3 DEF StreamOK, Ascending, Elements
  <2>2. Ahead(c)' \subseteq Mine(c)' /\ \A s \in Ahead(c)' : last'[c] < s
    BY <1>1, <1>2, <1>4 DEF StreamOK
  <2>3. start'[c] <= Len(log)' /\ last'[c] <= Len(log)'
    BY <1>1, <1>2, <1>5 DEF StreamOK
  <2> QED BY <1>1, <2>1, <2>2, <2>3 DEF StreamOK
<1>8. AccountOK(c)'
  BY <1>1, <1>2, <1>4 DEF ClientOK, AccountOK
<1>9. CursorOK(c)'
  BY <1>1, <1>2, <1>6 DEF ClientOK, CursorOK, StreamOK
<1>10. ReloadOK(c)'
  <2>1. \A r \in reloads[c] : r <= cursor'[c]
    <3>1. ASSUME NEW r \in reloads[c], start[c] > 0 PROVE r <= start[c]
      <4>1. r <= since[c] /\ since[c] <= start[c]
        BY <1>1, <3>1 DEF ClientOK, ReloadOK
      <4>2. r \in Nat /\ since[c] \in Nat
        BY DEF BusTypeOK
      <4> QED BY <1>5, <4>1, <4>2
    <3> QED BY <1>1, <3>1 DEF ClientOK, ReloadOK
  <2> QED BY <1>1, <1>4, <2>1 DEF ClientOK, ReloadOK
<1> QED BY <1>7, <1>8, <1>9, <1>10 DEF ClientOK

-----------------------------------------------------------------------------
(* The steps of the bus.                                                   *)

\* publish leaves the client alone, or puts the event behind all that is ahead, or drops it.
LEMMA PublishOK ==
  ASSUME BusTypeOK, NEW kind \in Kinds, NEW to \in Audiences, Publish(kind, to),
         NEW d \in Clients, ClientOK(d)
  PROVE  ClientOK(d)'
<1> DEFINE msg == [kind |-> kind, to |-> to]
           n == Len(log) + 1
           reached == phase[d] # "closed" /\ Matches(d, msg)
<1>1. /\ Len(log) \in Nat /\ n \in Nat /\ n > Len(log) /\ Len(log)' = n
      /\ \A s \in 1..Len(log) : log'[s] = log[s]
      /\ log'[n] = msg /\ \A s : s \in 1..n <=> s \in 1..Len(log) \/ s = n
  <2>1. /\ Len(log) \in Nat /\ Len(Append(log, msg)) = n /\ Append(log, msg)[n] = msg
        /\ \A s \in 1..Len(log) : Append(log, msg)[s] = log[s]
    BY AppendProperties, LenProperties DEF BusTypeOK
  <2>2. log' = Append(log, msg)
    BY DEF Publish
  <2> HIDE DEF msg
  <2> QED BY <2>1, <2>2
<1>2. /\ queue'[d] = IF reached /\ Len(queue[d]) < Depth THEN Append(queue[d], n) ELSE queue[d]
      /\ dropped'[d] = IF reached /\ Len(queue[d]) >= Depth THEN dropped[d] \cup {n} ELSE dropped[d]
  BY DEF Publish, Enqueue
<1>3. UNCHANGED <<phase, backlog, start, hand, counted, page, history, masters>>
  BY DEF Publish
<1>4. Mine(d)' = Mine(d) \cup (IF Matches(d, msg) THEN {n} ELSE {})
  <2>1. \A m : Matches(d, m)' <=> Matches(d, m)
    BY <1>3 DEF Matches
  <2>2. Mine(d)' = {s \in 1..n : Matches(d, log'[s])}
    BY <1>1, <1>3 DEF Mine, Matches
  <2> HIDE DEF msg
  <2> QED BY <1>1, <2>2 DEF Mine
<1>5. Known(d)' = Known(d)
  BY <1>3 DEF Known, history
<1>6. Mine(d) \subseteq 1..Len(log) /\ Mine(d) \subseteq Nat /\ \A s \in Mine(d) : s < n
  BY <1>1, MineTyped
<1>7. /\ last[d] \in Nat /\ start[d] \in Nat /\ hand[d] \in Nat /\ since[d] \in Nat
      /\ cursor[d] \in Nat /\ dropped[d] \subseteq Nat /\ queue[d] \in Seq(Nat)
  BY DEF BusTypeOK
<1> HIDE DEF msg, n
<1>8. CursorOK(d)'
  <2>1. got'[d] \subseteq Mine(d)'
    BY <1>3, <1>4 DEF ClientOK, CursorOK, history
  <2>2. ASSUME d \notin foreign
        PROVE  cursor[d] <= n /\ \A s \in Mine(d)' : s <= cursor[d] => s \in Known(d)
    <3>1. cursor[d] < n
      BY <1>1, <1>7, <2>2 DEF ClientOK, CursorOK
    <3>2. ~ n <= cursor[d] /\ cursor[d] <= n
      BY <1>1, <1>7, <3>1
    <3> QED BY <1>4, <2>2, <3>2 DEF ClientOK, CursorOK
  <2>3. ASSUME d \notin foreignUrl
        PROVE  since[d] <= n /\ \A s \in Mine(d)' : s <= since[d] => s \in Known(d)
    <3>1. since[d] < n
      BY <1>1, <1>7, <2>3 DEF ClientOK, CursorOK
    <3>2. ~ n <= since[d] /\ since[d] <= n
      BY <1>1, <1>7, <3>1
    <3> QED BY <1>4, <2>3, <3>2 DEF ClientOK, CursorOK
  <2> QED BY <1>1, <1>3, <1>5, <2>1, <2>2, <2>3 DEF CursorOK, page, history
<1>9. CASE phase[d] = "closed"
  <2>1. queue'[d] = queue[d] /\ dropped'[d] = dropped[d] /\ phase'[d] = "closed"
    BY <1>2, <1>3, <1>9
  <2>2. dropped[d] \subseteq 1..n
    BY <1>1 DEF ClientOK, AccountOK
  <2>3. StreamOK(d)' /\ AccountOK(d)'
    BY <1>1, <1>3, <2>1, <2>2 DEF ClientOK, StreamOK, AccountOK
  <2>4. ReloadOK(d)'
    BY <1>3, <2>1 DEF ClientOK, ReloadOK, page, history
  <2> QED BY <1>8, <2>3, <2>4 DEF ClientOK
<1>10. CASE phase[d] # "closed"
  <2>1. StreamOK(d) /\ Ahead(d) \subseteq Mine(d)
    BY <1>10 DEF ClientOK, StreamOK
  <2>2. /\ last[d] < n /\ start[d] < n /\ start[d] <= n /\ last[d] <= n
        /\ \A s \in Ahead(d) : s < n
    BY <1>1, <1>6, <1>7, <1>10, <2>1 DEF StreamOK
  <2>3. Elements(queue[d]) \subseteq Ahead(d)
    BY DEF Ahead
  <2>4. \E x \in {{}, {n}} :
          /\ Ascending(queue'[d]) /\ Elements(queue'[d]) = Elements(queue[d]) \cup x
          /\ \/ x = {} /\ dropped'[d] = dropped[d] /\ ~ Matches(d, msg)
             \/ x = {n} /\ dropped'[d] = dropped[d] /\ Matches(d, msg)
             \/ x = {} /\ dropped'[d] = dropped[d] \cup {n} /\ Matches(d, msg)
    <3>1. CASE ~ Matches(d, msg)
      BY <1>2, <1>10, <2>1, <3>1 DEF StreamOK
    <3>2. CASE Matches(d, msg) /\ Len(queue[d]) < Depth
      <4>1. ~ Len(queue[d]) >= Depth
        BY <1>7, <3>2, LenProperties, ConstantsAssumption
      <4>2. /\ Ascending(Append(queue[d], n))
            /\ Elements(Append(queue[d], n)) = Elements(queue[d]) \cup {n}
        BY <1>1, <1>7, <1>10, <2>1, <2>2, <2>3, AppendAscends DEF StreamOK
      <4> QED BY <1>2, <1>10, <3>2, <4>1, <4>2
    <3>3. CASE Matches(d, msg) /\ ~ Len(queue[d]) < Depth
      <4>1. Len(queue[d]) >= Depth
        BY <1>7, <3>3, LenProperties, ConstantsAssumption
      <4> QED BY <1>2, <1>10, <2>1, <3>3, <4>1 DEF StreamOK
    <3> QED BY <3>1, <3>2, <3>3
  <2>5. PICK x \in {{}, {n}} :
          /\ Ascending(queue'[d]) /\ Elements(queue'[d]) = Elements(queue[d]) \cup x
          /\ dropped'[d] \subseteq dropped[d] \cup {n} /\ dropped[d] \subseteq dropped'[d]
          /\ Matches(d, msg) <=> (n \in x \/ n \in dropped'[d])
          /\ x # {} => Matches(d, msg)
    <3>1. n \notin dropped[d]
      <4>1. dropped[d] \subseteq 1..Len(log) /\ ~ n \in 1..Len(log)
        BY <1>1 DEF ClientOK, AccountOK
      <4> QED BY <4>1
    <3> QED BY <2>4, <3>1
  <2>6. Elements(queue[d])' = Elements(queue'[d])
    BY DEF Elements
  <2>7. Ahead(d)' = Ahead(d) \cup x
    BY <1>3, <2>5, <2>6 DEF Ahead, Elements
  <2>8. \A s \in x : s = n
    BY <2>5
  <2>9. StreamOK(d)'
    <3>1. Ascending(backlog[d])' /\ Ascending(queue[d])'
      BY <1>3, <1>10, <2>1, <2>5 DEF StreamOK, Ascending
    <3>2. Ahead(d)' \subseteq Mine(d)'
      BY <1>4, <2>1, <2>5, <2>7, <2>8
    <3>3. \A s \in Ahead(d)' : last[d] < s
      BY <1>10, <2>1, <2>2, <2>7, <2>8 DEF StreamOK
    <3>4. \A s \in Elements(backlog[d])' : s <= start[d]
      BY <1>3, <1>10, <2>1 DEF StreamOK, Elements
    <3>5. phase[d] \in {"replay", "sync"} =>
            /\ last[d] <= start[d]
            /\ \A s \in Elements(queue[d])' \cup dropped'[d] : start[d] < s
      BY <1>10, <2>1, <2>2, <2>5, <2>6, <2>8 DEF StreamOK
    <3>6. phase[d] \in {"notice", "message"} => hand[d] < n
      BY <2>2 DEF Ahead
    <3>7. phase[d] \in {"notice", "message"} => \A s \in Elements(queue[d])' : hand[d] < s
      BY <1>10, <2>1, <2>5, <2>6, <2>8, <3>6 DEF StreamOK
    <3>8. phase[d] = "message" => \A s \in dropped'[d] : hand[d] < s
      BY <1>10, <2>1, <2>5, <3>6 DEF StreamOK
    <3>9. /\ backlog[d] # <<>> => phase[d] \in {"replay", "leaving"}
          /\ phase[d] = "replay" => backlog[d] # <<>>
      BY <1>10, <2>1 DEF StreamOK
    <3> QED BY <1>1, <1>3, <2>2, <3>1, <3>2, <3>3, <3>4, <3>5, <3>7, <3>8, <3>9
            DEF StreamOK, history
  <2>10. AccountOK(d)'
    <3>1. \A s \in Mine(d)' : s \in Known(d) \cup Ahead(d)' \cup dropped'[d]
      BY <1>4, <1>10, <2>5, <2>7 DEF ClientOK, AccountOK
    <3>2. counted[d] \subseteq dropped'[d] /\ dropped'[d] \subseteq 1..n
      BY <1>1, <2>5 DEF ClientOK, AccountOK
    <3> QED BY <1>1, <1>3, <1>5, <1>10, <3>1, <3>2 DEF AccountOK
  <2>11. ReloadOK(d)'
    <3>1. d \notin foreignUrl => since[d] < n
      BY <1>1, <1>7 DEF ClientOK, CursorOK
    <3>2. d \notin foreignUrl => \A s \in Ahead(d)' : since[d] < s
      BY <1>10, <2>7, <2>8, <3>1 DEF ClientOK, ReloadOK
    <3> QED BY <1>3, <3>2 DEF ClientOK, ReloadOK, page, history
  <2> QED BY <1>8, <2>9, <2>10, <2>11 DEF ClientOK
<1> QED BY <1>9, <1>10

\* After a restart no client has anything of the log, which is empty.
LEMMA RestartOK ==
  ASSUME BusTypeOK, Restart, NEW d \in Clients, ClientOK(d)
  PROVE  ClientOK(d)'
<1>1. /\ log' = <<>> /\ phase'[d] = "closed" /\ dropped'[d] = {} /\ counted'[d] = {}
      /\ got'[d] = {} /\ reloads'[d] = {} /\ since'[d] = since[d] /\ cursor'[d] = cursor[d]
      /\ d \notin foreign' => ~ cursor[d] > 0
      /\ d \notin foreignUrl' => ~ since[d] > 0
  BY DEF Restart, None, page
<1>2. Len(log)' = 0 /\ Mine(d)' = {}
  <2>1. Len(log') = 0
    BY <1>1, EmptySeq
  <2> QED BY <2>1 DEF Mine
<1>3. cursor[d] \in Nat /\ since[d] \in Nat
  BY DEF BusTypeOK
<1>4. StreamOK(d)' /\ AccountOK(d)'
  BY <1>1, <1>2 DEF StreamOK, AccountOK
<1>5. CursorOK(d)'
  BY <1>1, <1>2, <1>3 DEF CursorOK
<1>6. ReloadOK(d)'
  BY <1>1 DEF ReloadOK
<1> QED BY <1>4, <1>5, <1>6 DEF ClientOK

-----------------------------------------------------------------------------
(* The theorems.                                                           *)

LEMMA BusInit ==
  ASSUME Init
  PROVE  BusInv
<1>1. BusTypeOK
  BY EmptySeq DEF Init, None, BusTypeOK, Phases
<1>2. ASSUME NEW c \in Clients PROVE ClientOK(c)
  <2>1. /\ log = <<>> /\ phase[c] = "closed" /\ dropped[c] = {} /\ counted[c] = {} /\ got[c] = {}
        /\ reloads[c] = {} /\ since[c] = 0 /\ cursor[c] = 0
    BY DEF Init, None
  <2>2. Len(log) = 0 /\ Mine(c) = {}
    BY <2>1, EmptySeq DEF Mine
  <2> QED BY <2>1, <2>2 DEF ClientOK, StreamOK, AccountOK, CursorOK, ReloadOK
<1> QED BY <1>1, <1>2 DEF BusInv

LEMMA BusInvIsInductive ==
  ASSUME ConstantsAssumption, BusInv, [Next]_vars
  PROVE  BusInv'
<1>1. BusTypeOK /\ \A d \in Clients : ClientOK(d)
  BY DEF BusInv
<1>2. SUFFICES ASSUME NEW d \in Clients PROVE ClientOK(d)'
  BY BusTypeStep DEF BusInv
<1>3. ASSUME NEW kind \in Kinds, NEW to \in Audiences, Publish(kind, to) PROVE ClientOK(d)'
  BY <1>1, <1>3, PublishOK
<1>4. ASSUME NEW c \in Clients,
             \/ LoadPage(c) \/ Reconnect(c) \/ Disconnect(c) \/ Pull(c)
             \/ ReceiveReplay(c) \/ ReceiveSync(c) \/ ReceiveNotice(c) \/ ReceiveMessage(c)
      PROVE  ClientOK(d)'
  <2>1. CASE d = c
    BY <1>1, <1>4, <2>1, LoadPageOK, ReconnectOK, DisconnectOK, PullOK, ReceiveReplayOK,
       ReceiveSyncOK, ReceiveNoticeOK, ReceiveMessageOK
  <2>2. CASE d # c
    BY <1>1, <1>4, <2>2, OthersSame, SameClient
  <2> QED BY <2>1, <2>2
<1>5. ASSUME Restart PROVE ClientOK(d)'
  BY <1>1, <1>5, RestartOK
<1>6. ASSUME UNCHANGED vars PROVE ClientOK(d)'
  <2>1. Same(d) /\ UNCHANGED <<log, masters>>
    BY <1>6 DEF vars, stream, page, history, Same
  <2> QED BY <1>1, <2>1, SameClient
<1> QED BY <1>3, <1>4, <1>5, <1>6 DEF Next

\* Two ascending sequences, the one before the other.
LEMMA ConcatAscends ==
  ASSUME NEW p \in Seq(Nat), NEW q \in Seq(Nat), Ascending(p), Ascending(q),
         \A s \in Elements(p) : \A t \in Elements(q) : s < t
  PROVE  /\ p \o q \in Seq(Nat) /\ Ascending(p \o q)
         /\ Elements(p \o q) \subseteq Elements(p) \cup Elements(q)
<1>1. /\ p \o q \in Seq(Nat) /\ Len(p \o q) = Len(p) + Len(q) /\ Len(p) \in Nat /\ Len(q) \in Nat
      /\ \A i \in 1..(Len(p) + Len(q)) :
           (p \o q)[i] = IF i <= Len(p) THEN p[i] ELSE q[i - Len(p)]
  BY ConcatProperties, LenProperties
<1> DEFINE r == p \o q
<1> HIDE DEF r
<1>2. \A i \in 1..(Len(p) + Len(q)) :
        \/ i \in 1..Len(p) /\ i <= Len(p)
        \/ i - Len(p) \in 1..Len(q) /\ ~ i <= Len(p)
  BY <1>1
<1>3. \A i \in 1..(Len(p) + Len(q)) :
        \/ i \in 1..Len(p) /\ r[i] = p[i] /\ r[i] \in Elements(p)
        \/ i - Len(p) \in 1..Len(q) /\ r[i] = q[i - Len(p)] /\ r[i] \in Elements(q) /\ ~ i <= Len(p)
  BY <1>1, <1>2 DEF r, Elements
<1>4. ASSUME NEW i \in 1..(Len(p) + Len(q)), NEW j \in 1..(Len(p) + Len(q)), i < j
      PROVE  r[i] < r[j]
  <2>1. CASE i \in 1..Len(p) /\ j \in 1..Len(p)
    BY <1>1, <1>3, <1>4, <2>1 DEF Ascending
  <2>2. CASE i \in 1..Len(p) /\ ~ j <= Len(p)
    BY <1>1, <1>3, <1>4, <2>2
  <2>3. CASE ~ i <= Len(p)
    <3>1. ~ j <= Len(p) /\ i - Len(p) < j - Len(p)
      BY <1>1, <1>4, <2>3
    <3>2. /\ i - Len(p) \in 1..Len(q) /\ r[i] = q[i - Len(p)]
          /\ j - Len(p) \in 1..Len(q) /\ r[j] = q[j - Len(p)]
      BY <1>1, <1>3, <2>3, <3>1
    <3> QED BY <3>1, <3>2 DEF Ascending
  <2> QED BY <1>1, <1>2, <2>1, <2>2, <2>3
<1>5. r \in Seq(Nat) /\ Len(r) = Len(p) + Len(q)
  BY <1>1 DEF r
<1>6. Ascending(r)
  BY <1>4, <1>5 DEF Ascending
<1>7. Elements(r) \subseteq Elements(p) \cup Elements(q)
  BY <1>3, <1>5 DEF Elements
<1> QED BY <1>5, <1>6, <1>7 DEF r

LEMMA OneAscends ==
  ASSUME NEW n \in Nat
  PROVE  /\ <<n>> \in Seq(Nat) /\ Ascending(<<n>>) /\ Elements(<<n>>) = {n}
BY DEF Ascending, Elements

\* What is on the way ascends, behind the last event received.
LEMMA InvIsInOrder ==
  ASSUME BusInv
  PROVE  InOrder
<1> SUFFICES ASSUME NEW c \in Clients, phase[c] # "closed"
             PROVE  LET way == <<last[c]>> \o OnTheWay(c)
                    IN \A i \in 1..(Len(way) - 1) : way[i] < way[i + 1]
  BY DEF InOrder
<1>1. BusTypeOK /\ StreamOK(c)
  BY DEF BusInv, ClientOK
<1>2. /\ hand[c] \in Nat /\ last[c] \in Nat /\ queue[c] \in Seq(Nat) /\ backlog[c] \in Seq(Nat)
      /\ Ascending(backlog[c]) /\ Ascending(queue[c])
      /\ \A s \in Ahead(c) : last[c] < s /\ s \in Nat
  BY <1>1, MineTyped DEF BusTypeOK, StreamOK
<1> DEFINE w == OnTheWay(c)
<1>3. w \in Seq(Nat) /\ Ascending(w) /\ Elements(w) \subseteq Ahead(c)
  <2>1. CASE phase[c] \in {"notice", "message"}
    <3>1. \A s \in Elements(<<hand[c]>>) : \A t \in Elements(queue[c]) : s < t
      BY <1>1, <1>2, <2>1, OneAscends DEF StreamOK
    <3>2. /\ <<hand[c]>> \o queue[c] \in Seq(Nat) /\ Ascending(<<hand[c]>> \o queue[c])
          /\ Elements(<<hand[c]>> \o queue[c]) \subseteq {hand[c]} \cup Elements(queue[c])
      BY <1>2, <3>1, OneAscends, ConcatAscends
    <3>3. w = <<hand[c]>> \o queue[c]
      BY <2>1 DEF OnTheWay
    <3> QED BY <2>1, <3>2, <3>3 DEF Ahead
  <2>2. CASE phase[c] = "replay"
    <3>1. ASSUME NEW s \in Elements(backlog[c]), NEW t \in Elements(queue[c]) PROVE s < t
      <4>1. s <= start[c] /\ start[c] < t
        BY <1>1, <2>2, <3>1 DEF StreamOK
      <4>2. s \in Nat /\ t \in Nat /\ start[c] \in Nat
        BY <1>1, <1>2 DEF BusTypeOK, Ahead
      <4> QED BY <4>1, <4>2
    <3>2. /\ backlog[c] \o queue[c] \in Seq(Nat) /\ Ascending(backlog[c] \o queue[c])
          /\ Elements(backlog[c] \o queue[c]) \subseteq Elements(backlog[c]) \cup Elements(queue[c])
      BY <1>2, <3>1, ConcatAscends
    <3>3. w = backlog[c] \o queue[c]
      BY <2>2 DEF OnTheWay
    <3> QED BY <3>2, <3>3 DEF Ahead
  <2>3. CASE phase[c] \notin {"notice", "message", "replay"}
    BY <1>2, <2>3 DEF OnTheWay, Ahead
  <2> QED BY <2>1, <2>2, <2>3
<1> HIDE DEF w
<1> DEFINE way == <<last[c]>> \o w
<1>4. way \in Seq(Nat) /\ Ascending(way)
  <2>1. \A s \in Elements(<<last[c]>>) : \A t \in Elements(w) : s < t
    BY <1>2, <1>3, OneAscends
  <2> QED BY <1>2, <1>3, <2>1, OneAscends, ConcatAscends
<1> HIDE DEF way
<1>5. ASSUME NEW i \in 1..(Len(way) - 1) PROVE way[i] < way[i + 1]
  <2>1. Len(way) \in Nat
    BY <1>4, LenProperties
  <2>2. i \in 1..Len(way) /\ i + 1 \in 1..Len(way) /\ i < i + 1
    BY <2>1
  <2> QED BY <1>4, <2>2 DEF Ascending
<1> QED BY <1>5 DEF way, w

\* A tab that an event makes reload was not made to reload by it before.
LEMMA ReloadStep ==
  ASSUME BusInv, [Next]_vars, NEW c \in Clients, reload'[c] # reload[c], reload'[c] # 0
  PROVE  reload'[c] \notin reloads[c]
<1>1. BusTypeOK /\ ClientOK(c) /\ reloads[c] \subseteq Nat
  BY DEF BusInv, BusTypeOK
<1>2. ASSUME NEW n \in Nat, NEW then, Handle(c, n, then), \A r \in reloads[c] : r < n
      PROVE  reload'[c] \notin reloads[c]
  <2>1. reload'[c] = n
    BY <1>1, <1>2 DEF Handle, BusTypeOK
  <2>2. ~ n < n
    BY <1>2
  <2> QED BY <1>2, <2>1, <2>2
<1>3. CASE ReceiveReplay(c)
  <2>1. backlog[c] # <<>> /\ backlog[c] \in Seq(Nat)
    BY <1>1, <1>3 DEF ReceiveReplay, ClientOK, StreamOK, BusTypeOK
  <2>2. Head(backlog[c]) \in Nat
    BY <2>1, HeadTailProperties
  <2> QED BY <1>1, <1>2, <1>3, <2>2, ReceiveReplayOK
<1>4. CASE ReceiveMessage(c)
  <2>1. hand[c] \in Nat
    BY <1>1 DEF BusTypeOK
  <2> QED BY <1>1, <1>2, <1>4, <2>1, ReceiveMessageOK
<1>5. ASSUME NEW d \in Clients, d # c,
             \/ LoadPage(d) \/ Reconnect(d) \/ Disconnect(d) \/ Pull(d)
             \/ ReceiveReplay(d) \/ ReceiveSync(d) \/ ReceiveNotice(d) \/ ReceiveMessage(d)
      PROVE  FALSE
  BY <1>1, <1>5, OthersSame DEF Same
<1>6. ASSUME NEW kind \in Kinds, NEW to \in Audiences, Publish(kind, to) PROVE FALSE
  BY <1>6 DEF Publish, page
<1>7. CASE LoadPage(c)
  BY <1>1, <1>7 DEF LoadPage, BusTypeOK
<1>8. CASE Reconnect(c) \/ Disconnect(c) \/ Pull(c) \/ ReceiveSync(c) \/ ReceiveNotice(c)
  BY <1>8 DEF Reconnect, Disconnect, Pull, ReceiveSync, ReceiveNotice, page
<1>9. CASE Restart
  BY <1>9 DEF Restart, page
<1>10. CASE UNCHANGED vars
  BY <1>10 DEF vars, page
<1> QED BY <1>3, <1>4, <1>5, <1>6, <1>7, <1>8, <1>9, <1>10 DEF Next

LEMMA BusInvAlways == Spec => []BusInv
<1>1. Init => BusInv
  BY BusInit
<1>2. BusInv /\ [Next]_vars => BusInv'
  BY ConstantsAssumption, BusInvIsInductive
<1> QED BY <1>1, <1>2, PTL DEF Spec

\* A connection yields every event at most once and in the order of publication (subscribe):
\* across the replay, the sse.sync and the live queue, whatever publish does meanwhile.
THEOREM EventsAreInOrder == Spec => []InOrder
<1>1. BusInv => InOrder
  BY InvIsInOrder
<1> QED BY <1>1, BusInvAlways, PTL

\* A client gets no event of another audience, and every event behind its cursor was received,
\* told as dropped, gone from the ring, or lost by one of the two named causes (publish, subscribe
\* and the page's listener).
THEOREM LossesHaveACause == Spec => []LossHasACause
<1>1. BusInv => LossHasACause
  <2> SUFFICES ASSUME BusInv PROVE LossHasACause
    OBVIOUS
  <2>1. ASSUME NEW c \in Clients
        PROVE  /\ got[c] \subseteq Mine(c)
               /\ c \notin foreign => \A s \in Mine(c) : s <= cursor[c] => s \in Known(c)
    BY DEF BusInv, ClientOK, CursorOK
  <2>2. \A c \in Clients : \A s : s \in Known(c) =>
          s \in got[c] \cup told[c] \cup passed[c] \cup forgotten[c] \cup skipped[c]
    BY DEF Known
  <2> QED BY <2>1, <2>2 DEF LossHasACause
<1> QED BY <1>1, BusInvAlways, PTL

\* One event makes a tab reload at most once (the listener for all events of base.html), however
\* often the connection breaks and the replay is repeated.
THEOREM ReloadsOnce == Spec => NoReloadLoop
<1>1. BusInv /\ [Next]_vars =>
        [\A c \in Clients : reload'[c] # reload[c] /\ reload'[c] # 0 => reload'[c] \notin reloads[c]]_vars
  BY ReloadStep
<1> QED BY <1>1, BusInvAlways, PTL DEF Spec, NoReloadLoop

\* The variables of the bus and of the page keep their types.
THEOREM BusTyped == Spec => []BusTypeOK
<1>1. BusInv => BusTypeOK
  BY DEF BusInv
<1> QED BY <1>1, BusInvAlways, PTL
=============================================================================
