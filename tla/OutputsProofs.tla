---------------------------- MODULE OutputsProofs ----------------------------
(***************************************************************************)
(* Proofs about Outputs, for any events, channels, routing decisions and   *)
(* cancels, any page size and any number of crashes.                       *)
(***************************************************************************)
EXTENDS Outputs, FiniteSetTheorems, TLAPS

Settled == {"delivered", "cancelled"}
Calling == {"inserted", "presented", "broken", "missed", "recalled"}

\* What an emit_output that is under way knows of its rows: those of the channels
\* to come are absent, and nobody but a cancel has moved the one it is at.
Emission(e) ==
  /\ emit[e] \in {"idle", "recorded"} => \A c \in Channels : row[<<e, c>>] = "absent"
  /\ emit[e] = "dispatching" =>
       \A i \in 1..Len(todo[e]) : row[<<e, todo[e][i]>>] = "absent"
  /\ emit[e] \in Calling =>
       todo[e] # <<>> /\ \A i \in 2..Len(todo[e]) : row[<<e, todo[e][i]>>] = "absent"
  /\ emit[e] \in {"inserted", "presented", "broken"} =>
       row[Here(e)] \in {"in_flight", "cancel_pending"}
  /\ emit[e] \in {"missed", "recalled"} => row[Here(e)] = "cancel_pending"
  /\ \A i, j \in 1..Len(todo[e]) : i # j => todo[e][i] # todo[e][j]

Emissions == \A e \in Events : Emission(e)

-----------------------------------------------------------------------------
(* Types.                                                                  *)

\* The current channel of an emit_output, and what is left after it.
LEMMA Current ==
  ASSUME NEW s \in Seq(Channels), s # <<>>
  PROVE  /\ Head(s) \in Channels /\ Head(s) = s[1]
         /\ Tail(s) \in Seq(Channels) /\ Len(s) \in Nat \ {0}
         /\ Len(Tail(s)) = Len(s) - 1
         /\ \A i \in 1..Len(Tail(s)) : Tail(s)[i] = s[i + 1]
  OBVIOUS

LEMMA TypeInit == Init => TypeOK
  BY ConstantsAssumption DEF Init, TypeOK, EmitPhases, CancelPhases, Lives, Deliveries

LEMMA RecallTyped ==
  ASSUME TypeOK, NEW d \in Deliveries, Recall(d)
  PROVE  told' \in [Deliveries -> Nat] /\ shown' \subseteq Deliveries
<1>1. told' \in [Deliveries -> Nat]
  BY DEF Recall, TypeOK
<1>2. shown' \subseteq Deliveries
  BY DEF Recall, TypeOK
<1> QED BY <1>1, <1>2

LEMMA TypeEmit ==
  ASSUME TypeOK, Emissions, NEW e \in Events, EmitStep(e)
  PROVE  TypeOK'
<1> USE DEF TypeOK, EmitPhases, Lives, Deliveries, Here, Stamp, emitter, table, channel,
            canceller, device, history
<1>a. emit[e] \in Calling => todo[e] # <<>>
  BY DEF Emissions, Emission
<1>b. todo[e] \in Seq(Channels)
  OBVIOUS
<1>c. todo[e] # <<>> => Here(e) \in Deliveries /\ Tail(todo[e]) \in Seq(Channels)
  BY <1>b, Current
<1>1. CASE Record(e)
  BY <1>1 DEF Record
<1>2. CASE Decide(e)
  <2>1. Decisions \subseteq Seq(Channels)
    BY ConstantsAssumption
  <2>2. emit' \in [Events -> EmitPhases]
    BY <1>2 DEF Decide
  <2>3. ASSUME NEW d \in Decisions, todo' = [todo EXCEPT ![e] = d]
        PROVE  todo' \in [Events -> Seq(Channels)]
    <3>1. d \in Seq(Channels)
      BY <2>1
    <3> QED BY <2>3, <3>1
  <2>4. todo' \in [Events -> Seq(Channels)]
    BY <1>2, <2>3 DEF Decide
  <2> QED BY <1>2, <2>2, <2>4 DEF Decide
<1>3. CASE SkipUnresolved(e)
  <2>1. todo' \in [Events -> Seq(Channels)]
    BY <1>3, <1>c DEF SkipUnresolved
  <2> QED BY <1>3, <2>1 DEF SkipUnresolved
<1>4. CASE InsertRow(e)
  <2>1. Here(e) \in Deliveries
    BY <1>4, <1>c DEF InsertRow
  <2>2. row' \in [Deliveries -> Lives]
    BY <1>4 DEF InsertRow
  <2>3. emit' \in [Events -> EmitPhases]
    BY <1>4 DEF InsertRow
  <2>4. clock' \in Nat /\ at' \in [Events -> Nat]
    BY <1>4 DEF InsertRow
  <2> QED BY <1>4, <2>2, <2>3, <2>4 DEF InsertRow
<1>5. CASE Present(e)
  BY <1>5, <1>a, <1>c DEF Present, Calling
<1>6. CASE DeliverFails(e)
  BY <1>6 DEF DeliverFails
<1>7. CASE Settle(e)
  <2>1. todo[e] # <<>>
    BY <1>7, <1>a DEF Settle, Calling
  <2>2. at' \in [Events -> Nat] /\ late' \subseteq Events
    BY <1>7 DEF Settle
  <2>3. row' \in [Deliveries -> Lives] /\ todo' \in [Events -> Seq(Channels)]
    BY <1>7, <2>1, <1>c DEF Settle
  <2> QED BY <1>7, <2>2, <2>3 DEF Settle
<1>12. CASE SettleMissed(e)
  BY <1>12 DEF SettleMissed
<1>8. CASE SettleFailed(e)
  BY <1>8, <1>a, <1>c DEF SettleFailed, Calling
<1>9. CASE RecallOwn(e)
  <2>1. Here(e) \in Deliveries
    BY <1>9, <1>a, <1>c DEF RecallOwn, Calling
  <2> QED BY <1>9, <2>1 DEF RecallOwn, Recall
<1>10. CASE MarkCancelled(e)
  <2>1. todo[e] # <<>>
    BY <1>10, <1>a DEF MarkCancelled, Calling
  <2> QED BY <1>10, <2>1, <1>c DEF MarkCancelled
<1>11. CASE FinishEmit(e)
  BY <1>11 DEF FinishEmit
<1> QED BY <1>1, <1>2, <1>3, <1>4, <1>5, <1>6, <1>7, <1>8, <1>9, <1>10, <1>11,
           <1>12 DEF EmitStep

LEMMA TypeCancel ==
  ASSUME TypeOK, NEW k \in Cancels,
         (\E e \in Events : Claim(k, e)) \/ CancelStep(k)
  PROVE  TypeOK'
<1> USE DEF TypeOK, CancelPhases, Lives, Deliveries, emitter, table, channel, canceller,
            device, history
<1>1. ASSUME NEW e \in Events, Claim(k, e) PROVE TypeOK'
  BY <1>1 DEF Claim
<1>2. CASE ReadDelivered(k)
  BY <1>2 DEF ReadDelivered
<1>3. CASE Flip(k)
  <2>1. PICK c \in left[k] :
          /\ left' = [left EXCEPT ![k] = @ \ {c}]
          /\ \/ /\ row' = [row EXCEPT ![<<event[k], c>>] = "cancelled"]
                /\ current' = [current EXCEPT ![k] = c]
                /\ cancel' = [cancel EXCEPT ![k] = "hooking"]
             \/ row' = row /\ current' = current /\ cancel' = cancel
    BY <1>3 DEF Flip
  <2>2. left' \in [Cancels -> SUBSET Channels] /\ c \in Channels
    BY <2>1
  <2>3. row' \in [Deliveries -> Lives]
    BY <2>1
  <2>4. current' \in [Cancels -> Channels]
    BY <2>1, <2>2
  <2>5. cancel' \in [Cancels -> CancelPhases]
    BY <2>1
  <2> QED BY <1>3, <2>2, <2>3, <2>4, <2>5 DEF Flip
<1>4. CASE Hook(k)
  <2>1. <<event[k], current[k]>> \in Deliveries
    OBVIOUS
  <2>2. told' \in [Deliveries -> Nat] /\ shown' \subseteq Deliveries
    BY <1>4, <2>1, RecallTyped DEF Hook
  <2> QED BY <1>4, <2>2 DEF Hook
<1>5. CASE FinishCancel(k)
  BY <1>5 DEF FinishCancel
<1> QED BY <1>1, <1>2, <1>3, <1>4, <1>5 DEF CancelStep

LEMMA TypePoll == ASSUME TypeOK, Poll PROVE TypeOK'
  BY DEF Poll, Page, Pending, TypeOK, emitter, table, channel, canceller, history

LEMMA TypeCrash == ASSUME TypeOK, Crash PROVE TypeOK'
  BY ConstantsAssumption DEF Crash, TypeOK, EmitPhases, CancelPhases, table, channel, device

LEMMA TypeStutter == ASSUME TypeOK, UNCHANGED vars PROVE TypeOK'
  BY DEF TypeOK, vars

-----------------------------------------------------------------------------
(* What emit_output knows of its rows.                                     *)

LEMMA EmissionInit == Init => Emissions
  BY DEF Init, Emissions, Emission, Calling, Deliveries

\* An emit_output moves itself and its own rows.
LEMMA EmitFrame ==
  ASSUME TypeOK, NEW e \in Events, EmitStep(e), NEW x \in Events, x # e
  PROVE  /\ emit'[x] = emit[x] /\ todo'[x] = todo[x]
         /\ \A c \in Channels : row'[<<x, c>>] = row[<<x, c>>]
<1> USE DEF TypeOK, Here, table
<1>0. \A y : <<x, y>> # <<e, Head(todo[e])>>
  OBVIOUS
<1>1. emit'[x] = emit[x] /\ todo'[x] = todo[x]
  BY DEF EmitStep, Record, Decide, SkipUnresolved, InsertRow, Present, DeliverFails, Settle,
         SettleMissed, SettleFailed, RecallOwn, MarkCancelled, FinishEmit
<1>2. ASSUME NEW c \in Channels PROVE row'[<<x, c>>] = row[<<x, c>>]
  <2>1. <<x, c>> \in Deliveries /\ <<x, c>> # Here(e)
    BY DEF Deliveries
  <2>2. \/ row' = row
        \/ \E s : row' = [row EXCEPT ![Here(e)] = s]
    BY DEF EmitStep, Record, Decide, SkipUnresolved, InsertRow, Present, DeliverFails, Settle,
           SettleMissed, SettleFailed, RecallOwn, MarkCancelled, FinishEmit
  <2> QED BY <2>1, <2>2
<1> QED BY <1>1, <1>2

LEMMA EmissionSame ==
  ASSUME TypeOK, NEW x \in Events, Emission(x),
         emit'[x] = emit[x], todo'[x] = todo[x],
         \A c \in Channels : row'[<<x, c>>] = row[<<x, c>>]
  PROVE  Emission(x)'
<1>1. todo[x] \in Seq(Channels)
  BY DEF TypeOK
<1>2. todo[x] # <<>> => Head(todo[x]) \in Channels
  BY <1>1
<1>3. \A i \in 1..Len(todo[x]) : todo[x][i] \in Channels
  BY <1>1
<1> QED BY <1>1, <1>2, <1>3 DEF Emission, Here, Calling

\* After the current channel is dealt with, the emission holds for the rest.
LEMMA EmissionNext ==
  ASSUME TypeOK, NEW e \in Events, Emission(e), todo[e] # <<>>,
         emit'[e] = "dispatching", todo'[e] = Tail(todo[e]),
         \A i \in 2..Len(todo[e]) : row[<<e, todo[e][i]>>] = "absent",
         \A d \in Deliveries : d # Here(e) => row'[d] = row[d]
  PROVE  Emission(e)'
<1> DEFINE s == todo[e]
<1>1. /\ Tail(s) \in Seq(Channels) /\ Len(s) \in Nat \ {0} /\ Len(Tail(s)) = Len(s) - 1
      /\ \A i \in 1..Len(Tail(s)) : Tail(s)[i] = s[i + 1]
      /\ Head(s) = s[1]
  BY Current DEF TypeOK
<1>2. \A i, j \in 1..Len(s) : i # j => s[i] # s[j]
  BY DEF Emission
<1>3. ASSUME NEW i \in 1..Len(Tail(s)) PROVE row'[<<e, Tail(s)[i]>>] = "absent"
  <2>1. i + 1 \in 2..Len(s) /\ i + 1 \in 1..Len(s) /\ 1 \in 1..Len(s)
    BY <1>1
  <2>2. s[i + 1] # Head(s) /\ s[i + 1] \in Channels
    BY <1>1, <1>2, <2>1 DEF TypeOK
  <2>3. <<e, s[i + 1]>> \in Deliveries /\ <<e, s[i + 1]>> # Here(e)
    BY <2>2 DEF Deliveries, Here
  <2> QED BY <1>1, <2>1, <2>3
<1>4. ASSUME NEW i \in 1..Len(Tail(s)), NEW j \in 1..Len(Tail(s)), i # j
      PROVE  Tail(s)[i] # Tail(s)[j]
  <2>1. i + 1 \in 1..Len(s) /\ Tail(s)[i] = s[i + 1]
    BY <1>1
  <2>2. j + 1 \in 1..Len(s) /\ Tail(s)[j] = s[j + 1]
    BY <1>1
  <2>3. i + 1 # j + 1
    BY <1>1, <1>4
  <2> QED BY <1>2, <2>1, <2>2, <2>3
<1> QED BY <1>3, <1>4 DEF Emission, Calling

\* An emission whose rows stay, and which stays at its channel.
LEMMA EmissionStays ==
  ASSUME TypeOK, NEW e \in Events, Emission(e), row' = row, todo' = todo,
         emit[e] \in {"inserted", "presented"},
         \/ emit'[e] \in {"presented", "broken"}
         \/ emit'[e] = "missed" /\ row[Here(e)] = "cancel_pending"
  PROVE  Emission(e)'
  BY DEF Emission, Calling, Here

LEMMA EmissionInsert ==
  ASSUME TypeOK, NEW e \in Events, Emission(e), InsertRow(e)
  PROVE  Emission(e)'
<1>1. /\ emit[e] = "dispatching" /\ todo[e] # <<>> /\ todo' = todo /\ emit'[e] = "inserted"
      /\ row' = [row EXCEPT ![Here(e)] = "in_flight"]
  BY DEF InsertRow, TypeOK
<1>2. /\ Head(todo[e]) \in Channels /\ Head(todo[e]) = todo[e][1] /\ Len(todo[e]) \in Nat \ {0}
      /\ Here(e) \in Deliveries /\ Here(e)' = Here(e)
  BY <1>1, Current DEF TypeOK, Here, Deliveries
<1>3. ASSUME NEW i \in 2..Len(todo[e]) PROVE row'[<<e, todo[e][i]>>] = "absent"
  <2>1. i \in 1..Len(todo[e]) /\ 1 \in 1..Len(todo[e]) /\ i # 1
    BY <1>2
  <2>2. todo[e][i] # Head(todo[e]) /\ todo[e][i] \in Channels
    BY <1>2, <2>1 DEF Emission, TypeOK
  <2>3. <<e, todo[e][i]>> \in Deliveries /\ <<e, todo[e][i]>> # Here(e)
    BY <2>2 DEF Here, Deliveries
  <2> QED BY <1>1, <2>1, <2>3 DEF Emission, TypeOK
<1>4. row'[Here(e)] = "in_flight"
  BY <1>1, <1>2 DEF TypeOK
<1> QED BY <1>1, <1>2, <1>3, <1>4 DEF Emission, Calling

LEMMA EmissionStep ==
  ASSUME TypeOK, NEW e \in Events, Emission(e), EmitStep(e)
  PROVE  Emission(e)'
<1> USE DEF TypeOK, Calling, emitter, table, channel
<1>1. CASE Record(e)
  BY <1>1 DEF Record, Emission
<1>2. CASE Decide(e)
  <2>1. CASE emit' = [emit EXCEPT ![e] = "done"] /\ UNCHANGED todo
    BY <1>2, <2>1 DEF Decide, Emission
  <2>2. ASSUME NEW d \in Decisions, todo' = [todo EXCEPT ![e] = d],
               emit' = [emit EXCEPT ![e] = "dispatching"]
        PROVE  Emission(e)'
    <3>1. d \in Seq(Channels) /\ \A i, j \in 1..Len(d) : i # j => d[i] # d[j]
      BY ConstantsAssumption
    <3>2. row' = row /\ \A c \in Channels : row[<<e, c>>] = "absent"
      BY <1>2 DEF Decide, Emission
    <3>3. todo'[e] = d /\ emit'[e] = "dispatching"
      BY <2>2
    <3>4. \A i \in 1..Len(d) : d[i] \in Channels
      BY <3>1
    <3> QED BY <3>1, <3>2, <3>3, <3>4 DEF Emission
  <2> QED BY <1>2, <2>1, <2>2 DEF Decide
<1>3. CASE SkipUnresolved(e)
  <2>1. /\ todo[e] # <<>> /\ todo'[e] = Tail(todo[e]) /\ emit'[e] = "dispatching" /\ row' = row
        /\ Len(todo[e]) \in Nat
    BY <1>3 DEF SkipUnresolved
  <2>2. \A i \in 2..Len(todo[e]) : row[<<e, todo[e][i]>>] = "absent"
    BY <1>3, <2>1 DEF SkipUnresolved, Emission
  <2> QED BY <2>1, <2>2, EmissionNext
<1>4. CASE InsertRow(e)
  BY <1>4, EmissionInsert
<1>5. CASE Present(e)
  BY <1>5, EmissionStays DEF Present
<1>6. CASE DeliverFails(e)
  BY <1>6, EmissionStays DEF DeliverFails
<1>7. CASE Settle(e)
  <2>1. /\ todo[e] # <<>> /\ todo'[e] = Tail(todo[e]) /\ emit'[e] = "dispatching"
        /\ \A i \in 2..Len(todo[e]) : row[<<e, todo[e][i]>>] = "absent"
    BY <1>7 DEF Settle, Emission
  <2>2. row' = [row EXCEPT ![Here(e)] = "delivered"]
    BY <1>7 DEF Settle
  <2> QED BY <2>1, <2>2, EmissionNext
<1>8. CASE SettleMissed(e)
  <2>1. row[Here(e)] = "cancel_pending" /\ emit[e] = "presented" /\ emit'[e] = "missed"
    BY <1>8 DEF SettleMissed, Emission
  <2> QED BY <1>8, <2>1, EmissionStays DEF SettleMissed
<1>9. CASE SettleFailed(e)
  <2>1. /\ todo[e] # <<>> /\ todo'[e] = Tail(todo[e]) /\ emit'[e] = "dispatching"
        /\ \A i \in 2..Len(todo[e]) : row[<<e, todo[e][i]>>] = "absent"
    BY <1>9 DEF SettleFailed, Emission
  <2>2. row' = [row EXCEPT ![Here(e)] = "failed"] \/ row' = row
    BY <1>9 DEF SettleFailed
  <2> QED BY <2>1, <2>2, EmissionNext
<1>10. CASE RecallOwn(e)
  BY <1>10 DEF RecallOwn, Emission, Here
<1>11. CASE MarkCancelled(e)
  <2>1. /\ todo[e] # <<>> /\ todo'[e] = Tail(todo[e]) /\ emit'[e] = "dispatching"
        /\ \A i \in 2..Len(todo[e]) : row[<<e, todo[e][i]>>] = "absent"
    BY <1>11 DEF MarkCancelled, Emission
  <2>2. row' = [row EXCEPT ![Here(e)] = "cancelled"]
    BY <1>11 DEF MarkCancelled
  <2> QED BY <2>1, <2>2, EmissionNext
<1>12. CASE FinishEmit(e)
  BY <1>12 DEF FinishEmit, Emission
<1> QED BY <1>1, <1>2, <1>3, <1>4, <1>5, <1>6, <1>7, <1>8, <1>9, <1>10, <1>11,
           <1>12 DEF EmitStep

\* What a cancel may do to a row.
CancelMove(d) ==
  \/ row'[d] = row[d]
  \/ row[d] = "in_flight" /\ row'[d] = "cancel_pending"
  \/ row[d] = "delivered" /\ row'[d] = "cancelled"

LEMMA EmissionCancel ==
  ASSUME TypeOK, NEW x \in Events, Emission(x), emit' = emit, todo' = todo,
         \A d \in Deliveries : CancelMove(d)
  PROVE  Emission(x)'
<1>1. \A c \in Channels : <<x, c>> \in Deliveries /\ CancelMove(<<x, c>>)
  BY DEF Deliveries
<1>2. \A i \in 1..Len(todo[x]) : todo[x][i] \in Channels
  BY DEF TypeOK
<1>3. todo[x] # <<>> => Head(todo[x]) \in Channels /\ Here(x) \in Deliveries
  BY Current DEF TypeOK, Here, Deliveries
<1>4. Len(todo[x]) \in Nat
  BY DEF TypeOK
<1>5. /\ emit[x] \in {"idle", "recorded"} => \A c \in Channels : row'[<<x, c>>] = "absent"
      /\ emit[x] = "dispatching" =>
           \A i \in 1..Len(todo[x]) : row'[<<x, todo[x][i]>>] = "absent"
      /\ emit[x] \in Calling => \A i \in 2..Len(todo[x]) : row'[<<x, todo[x][i]>>] = "absent"
  BY <1>1, <1>2, <1>4, SMTT(30) DEF Emission, CancelMove
<1>6. /\ emit[x] \in {"inserted", "presented", "broken"} =>
           row'[Here(x)] \in {"in_flight", "cancel_pending"}
      /\ emit[x] \in {"missed", "recalled"} => row'[Here(x)] = "cancel_pending"
  BY <1>3 DEF Emission, CancelMove, Calling
<1>7. Here(x)' = Here(x)
  BY DEF Here
<1> QED BY <1>5, <1>6, <1>7 DEF Emission

\* A cancel leaves the emissions as they are and moves rows its own way.
LEMMA CancelFrame ==
  ASSUME TypeOK, NEW k \in Cancels,
         (\E e \in Events : Claim(k, e)) \/ CancelStep(k)
  PROVE  /\ emit' = emit /\ todo' = todo
         /\ \A d \in Deliveries : CancelMove(d)
<1> USE DEF emitter, table, CancelMove
<1>1. ASSUME NEW e \in Events, Claim(k, e)
      PROVE  emit' = emit /\ todo' = todo /\ \A d \in Deliveries : CancelMove(d)
  BY <1>1 DEF Claim
<1>2. CASE ReadDelivered(k)
  BY <1>2 DEF ReadDelivered
<1>3. CASE Flip(k)
  BY <1>3 DEF Flip, TypeOK
<1>4. CASE Hook(k)
  BY <1>4 DEF Hook
<1>5. CASE FinishCancel(k)
  BY <1>5 DEF FinishCancel
<1> QED BY <1>1, <1>2, <1>3, <1>4, <1>5 DEF CancelStep

LEMMA EmissionsNext ==
  ASSUME TypeOK, Emissions, [Next]_vars
  PROVE  Emissions'
<1>1. ASSUME NEW e \in Events, EmitStep(e), NEW x \in Events PROVE Emission(x)'
  <2>1. CASE x = e
    BY <1>1, <2>1, EmissionStep DEF Emissions
  <2>2. CASE x # e
    BY <1>1, <2>2, EmitFrame, EmissionSame DEF Emissions
  <2> QED BY <2>1, <2>2
<1>2. ASSUME NEW k \in Cancels, (\E e \in Events : Claim(k, e)) \/ CancelStep(k),
             NEW x \in Events
      PROVE  Emission(x)'
  BY <1>2, CancelFrame, EmissionCancel DEF Emissions
<1>3. ASSUME Poll \/ UNCHANGED vars, NEW x \in Events PROVE Emission(x)'
  <2>1. emit' = emit /\ todo' = todo /\ row' = row
    BY <1>3 DEF Poll, vars, emitter, table
  <2> QED BY <2>1, EmissionSame DEF Emissions
<1>4. ASSUME Crash, NEW x \in Events PROVE Emission(x)'
  <2>1. /\ todo' = todo /\ row' = row
        /\ emit'[x] = IF emit[x] \in {"idle", "done"} THEN emit[x] ELSE "lost"
    BY <1>4 DEF Crash, table
  <2> QED BY <2>1 DEF Emissions, Emission, Calling
<1> QED BY <1>1, <1>2, <1>3, <1>4 DEF Next, Emissions

LEMMA TypeNext ==
  ASSUME TypeOK, Emissions, [Next]_vars
  PROVE  TypeOK'
BY TypeEmit, TypeCancel, TypePoll, TypeCrash, TypeStutter DEF Next

\* The types hold, and with them what the emitters know of their rows.
THEOREM OutputsTyped == Spec => [](TypeOK /\ Emissions)
<1>1. Init => TypeOK /\ Emissions
  BY TypeInit, EmissionInit
<1>2. TypeOK /\ Emissions /\ [Next]_vars => (TypeOK /\ Emissions)'
  BY TypeNext, EmissionsNext
<1> QED BY <1>1, <1>2, PTL DEF Spec

-----------------------------------------------------------------------------
(* The refinement.                                                         *)

LEMMA LifecycleInit == Init => Lifecycle!Init
  BY DEF Init, Lifecycle!Init

LEMMA LifecycleMove ==
  ASSUME TypeOK, NEW d \in Deliveries, NEW s \in Lives,
         <<row[d], s>> \in Lifecycle!Moves, row' = [row EXCEPT ![d] = s]
  PROVE  Lifecycle!Next
<1>1. s \in Lifecycle!Lives
  BY DEF Lives, Lifecycle!Lives
<1> QED BY <1>1 DEF Lifecycle!Next, Lifecycle!Move

LEMMA LifecycleEmit ==
  ASSUME TypeOK, Emissions, NEW e \in Events, EmitStep(e)
  PROVE  Lifecycle!Next \/ row' = row
<1> USE DEF Lives, Lifecycle!Moves, table
<1>a. todo[e] # <<>> => Here(e) \in Deliveries /\ Head(todo[e]) = todo[e][1]
                        /\ 1 \in 1..Len(todo[e])
  BY Current DEF TypeOK, Here, Deliveries
<1>b. emit[e] \in Calling => todo[e] # <<>>
  BY DEF Emissions, Emission
<1>1. CASE InsertRow(e)
  <2>1. row[Here(e)] = "absent"
    BY <1>1, <1>a DEF InsertRow, Emissions, Emission, Here
  <2> QED BY <1>1, <2>1, <1>a, LifecycleMove DEF InsertRow
<1>2. CASE Settle(e)
  <2>1. <<row[Here(e)], "delivered">> \in Lifecycle!Moves
    BY <1>2 DEF Settle
  <2> QED BY <1>2, <2>1, <1>a, <1>b, LifecycleMove DEF Settle, Calling
<1>3. CASE SettleFailed(e)
  <2>1. <<"in_flight", "failed">> \in Lifecycle!Moves
    OBVIOUS
  <2> QED BY <1>3, <2>1, <1>a, <1>b, LifecycleMove DEF SettleFailed, Calling
<1>4. CASE MarkCancelled(e)
  <2>1. row[Here(e)] = "cancel_pending"
    BY <1>4 DEF MarkCancelled, Emissions, Emission
  <2>2. <<row[Here(e)], "cancelled">> \in Lifecycle!Moves
    BY <2>1
  <2> QED BY <1>4, <2>2, <1>a, <1>b, LifecycleMove DEF MarkCancelled, Calling
<1>5. CASE ~ (InsertRow(e) \/ Settle(e) \/ SettleFailed(e) \/ MarkCancelled(e))
  BY <1>5 DEF EmitStep, Record, Decide, SkipUnresolved, Present, DeliverFails, SettleMissed,
              RecallOwn, FinishEmit
<1> QED BY <1>1, <1>2, <1>3, <1>4, <1>5

LEMMA LifecycleCancel ==
  ASSUME TypeOK, NEW k \in Cancels,
         (\E e \in Events : Claim(k, e)) \/ CancelStep(k)
  PROVE  Lifecycle!Next \/ row' = row
<1> USE DEF table
<1>1. ASSUME NEW e \in Events, Claim(k, e) PROVE Lifecycle!Next
  <2> DEFINE D == {d \in Deliveries : d[1] = e /\ row[d] = "in_flight"}
  <2>1. Lifecycle!Claim(D)
    BY <1>1 DEF Claim, Lifecycle!Claim
  <2>2. D \in SUBSET Deliveries
    OBVIOUS
  <2> HIDE DEF D
  <2> QED BY <2>1, <2>2 DEF Lifecycle!Next
<1>2. CASE Flip(k)
  <2>1. PICK c \in left[k] : TRUE /\
          \/ row' = row
          \/ row[<<event[k], c>>] = "delivered"
             /\ row' = [row EXCEPT ![<<event[k], c>>] = "cancelled"]
    BY <1>2 DEF Flip
  <2>2. <<event[k], c>> \in Deliveries
    BY <2>1 DEF TypeOK, Deliveries
  <2>3. <<"delivered", "cancelled">> \in Lifecycle!Moves /\ "cancelled" \in Lives
    BY DEF Lifecycle!Moves, Lives
  <2> QED BY <2>1, <2>2, <2>3, LifecycleMove
<1>3. CASE ReadDelivered(k) \/ Hook(k) \/ FinishCancel(k)
  BY <1>3 DEF ReadDelivered, Hook, FinishCancel
<1> QED BY <1>1, <1>2, <1>3 DEF CancelStep

\* emit_output and any number of concurrent cancel_output, with crashes, move the
\* rows of output_deliveries only along the arrows of docs/concepts/outputs.md.
THEOREM DeliveriesFollowLifecycle == Spec => FollowsLifecycle
<1>1. TypeOK /\ Emissions /\ [Next]_vars => [Lifecycle!Next]_row
  <2> SUFFICES ASSUME TypeOK, Emissions, [Next]_vars PROVE Lifecycle!Next \/ row' = row
    OBVIOUS
  <2>1. CASE Poll \/ Crash \/ UNCHANGED vars
    BY <2>1 DEF Poll, Crash, vars, table
  <2> QED BY <2>1, LifecycleEmit, LifecycleCancel DEF Next
<1> QED BY <1>1, LifecycleInit, OutputsTyped, PTL DEF Spec, FollowsLifecycle, Lifecycle!Spec

-----------------------------------------------------------------------------
(* Recalls.                                                                *)

\* The delivery whose row cancel k flipped last.
There(k) == <<event[k], current[k]>>

\* Whoever is entitled to tell the channel is the only one, and has not told it.
RecallInv ==
  /\ \A d \in Deliveries : told[d] <= 1
  /\ \A d \in Deliveries : row[d] \notin {"cancel_pending", "cancelled"} => told[d] = 0
  /\ \A e \in Events : emit[e] \in {"inserted", "presented", "missed"} => told[Here(e)] = 0
  /\ \A k \in Cancels : cancel[k] = "hooking" => row[There(k)] = "cancelled" /\ told[There(k)] = 0
  /\ \A k, l \in Cancels :
       cancel[k] = "hooking" /\ cancel[l] = "hooking" /\ k # l => There(k) # There(l)

LEMMA RecallInit == Init => RecallInv
  BY DEF Init, RecallInv, Deliveries

LEMMA RecallNext ==
  ASSUME TypeOK, Emissions, RecallInv, [Next]_vars
  PROVE  RecallInv'
<1> USE DEF emitter, table, channel, canceller
<1>a. \A k \in Cancels : There(k) \in Deliveries
  BY DEF TypeOK, There, Deliveries
<1>b. \A e \in Events : emit[e] \in Calling => Here(e) \in Deliveries
  BY Current DEF TypeOK, Emissions, Emission, Here, Deliveries
<1>c. \A e, x \in Events : e # x => Here(e) # Here(x)
  BY DEF Here
<1>1. ASSUME NEW e \in Events, Record(e) \/ Decide(e) \/ SkipUnresolved(e) \/ FinishEmit(e)
                               \/ Present(e) \/ DeliverFails(e)
      PROVE  RecallInv'
  <2>1. /\ row' = row /\ told' = told /\ cancel' = cancel /\ event' = event /\ current' = current
        /\ \A x \in Events : emit'[x] \in {"inserted", "presented", "missed"} =>
             emit[x] \in {"inserted", "presented", "missed"} /\ todo'[x] = todo[x]
    BY <1>1 DEF Record, Decide, SkipUnresolved, FinishEmit, Present, DeliverFails, TypeOK
  <2> QED BY <2>1 DEF RecallInv, Here, There
<1>2. ASSUME NEW e \in Events, InsertRow(e) PROVE RecallInv'
  <2>1. row[Here(e)] = "absent" /\ Here(e) \in Deliveries
    BY <1>2, Current DEF InsertRow, Emissions, Emission, TypeOK, Here, Deliveries
  <2>2. /\ row' = [row EXCEPT ![Here(e)] = "in_flight"] /\ told' = told /\ cancel' = cancel
        /\ event' = event /\ current' = current /\ todo' = todo
        /\ \A x \in Events : x # e => emit'[x] = emit[x]
    BY <1>2 DEF InsertRow, TypeOK
  <2> QED BY <2>1, <2>2, <1>a DEF RecallInv, Here, There, TypeOK
<1>3. ASSUME NEW e \in Events, Settle(e) \/ SettleFailed(e) \/ MarkCancelled(e)
      PROVE  RecallInv'
  <2>1. PICK s \in {"delivered", "failed", "cancelled"} :
          \/ row' = row
          \/ row' = [row EXCEPT ![Here(e)] = s] /\ row[Here(e)] = "in_flight"
          \/ row' = [row EXCEPT ![Here(e)] = s] /\ row[Here(e)] = "cancel_pending"
             /\ s = "cancelled"
    BY <1>3 DEF Settle, SettleFailed, MarkCancelled, Emissions, Emission
  <2>2. /\ told' = told /\ cancel' = cancel /\ event' = event /\ current' = current
        /\ \A x \in Events : x # e => emit'[x] = emit[x] /\ todo'[x] = todo[x]
        /\ emit'[e] = "dispatching" /\ emit[e] \in Calling
    BY <1>3 DEF Settle, SettleFailed, MarkCancelled, TypeOK, Calling
  <2>3. Here(e) \in Deliveries
    BY <2>2, <1>b
  <2>4. \A d \in Deliveries : \/ row'[d] = row[d]
                              \/ row[d] = "in_flight"
                              \/ row[d] = "cancel_pending" /\ row'[d] = "cancelled"
    BY <2>1, <2>3 DEF TypeOK
  <2> QED BY <2>2, <2>4, <1>a DEF RecallInv, Here, There
<1>4. ASSUME NEW e \in Events, SettleMissed(e) PROVE RecallInv'
  <2>1. /\ row' = row /\ told' = told /\ cancel' = cancel /\ event' = event /\ current' = current
        /\ emit[e] = "presented" /\ emit' = [emit EXCEPT ![e] = "missed"] /\ todo' = todo
    BY <1>4 DEF SettleMissed
  <2> QED BY <2>1 DEF RecallInv, Here, There, TypeOK
<1>5. ASSUME NEW e \in Events, RecallOwn(e) PROVE RecallInv'
  <2>1. /\ row' = row /\ cancel' = cancel /\ event' = event /\ current' = current
        /\ emit[e] = "missed" /\ emit' = [emit EXCEPT ![e] = "recalled"] /\ todo' = todo
        /\ told' = [told EXCEPT ![Here(e)] = @ + 1]
    BY <1>5 DEF RecallOwn, Recall
  <2>2. row[Here(e)] = "cancel_pending" /\ Here(e) \in Deliveries
    BY <2>1, <1>b DEF Emissions, Emission, Calling
  <2>3. \A d \in Deliveries : told'[d] = IF d = Here(e) THEN told[d] + 1 ELSE told[d]
    BY <2>1, <2>2 DEF TypeOK
  <2>4. told[Here(e)] = 0
    BY <2>1 DEF RecallInv
  <2>5. \A d \in Deliveries : told'[d] <= 1
    BY <2>3, <2>4 DEF RecallInv
  <2>6. ASSUME NEW x \in Events, emit'[x] \in {"inserted", "presented", "missed"}
        PROVE  told'[Here(x)] = 0 /\ Here(x)' = Here(x)
    <3>1. x # e /\ emit[x] = emit'[x] /\ emit[x] \in Calling
      BY <2>1, <2>6 DEF TypeOK, Calling
    <3> QED BY <3>1, <2>1, <2>3, <2>6, <1>b, <1>c DEF RecallInv, Here
  <2>7. \A k \in Cancels : There(k)' = There(k)
    BY <2>1 DEF There
  <2>8. \A k \in Cancels : cancel[k] = "hooking" => told'[There(k)] = 0
    BY <2>2, <2>3, <1>a DEF RecallInv
  <2>9. \A d \in Deliveries : row[d] \notin {"cancel_pending", "cancelled"} => told'[d] = 0
    BY <2>2, <2>3 DEF RecallInv
  <2> QED BY <2>1, <2>5, <2>6, <2>7, <2>8, <2>9 DEF RecallInv
<1>6. ASSUME NEW k \in Cancels, NEW e \in Events, Claim(k, e) PROVE RecallInv'
  <2>1. /\ emit' = emit /\ todo' = todo /\ told' = told /\ current' = current
        /\ \A l \in Cancels : l # k => event'[l] = event[l] /\ cancel'[l] = cancel[l]
        /\ cancel'[k] = "claimed"
    BY <1>6 DEF Claim, TypeOK
  <2>2. \A d \in Deliveries : \/ row'[d] = row[d]
                              \/ row[d] = "in_flight" /\ row'[d] = "cancel_pending"
    BY <1>6 DEF Claim
  <2> QED BY <2>1, <2>2, <1>a DEF RecallInv, Here, There
<1>7. ASSUME NEW k \in Cancels, ReadDelivered(k) \/ FinishCancel(k) PROVE RecallInv'
  <2>1. /\ emit' = emit /\ todo' = todo /\ told' = told /\ row' = row /\ event' = event
        /\ current' = current
        /\ \A l \in Cancels : cancel'[l] = "hooking" => cancel[l] = "hooking"
    BY <1>7 DEF ReadDelivered, FinishCancel, TypeOK
  <2> QED BY <2>1 DEF RecallInv, Here, There
<1>8. ASSUME NEW k \in Cancels, Flip(k) PROVE RecallInv'
  <2>1. /\ emit' = emit /\ todo' = todo /\ told' = told /\ event' = event
        /\ \A l \in Cancels : l # k => current'[l] = current[l] /\ cancel'[l] = cancel[l]
        /\ cancel[k] = "flipping"
    BY <1>8 DEF Flip, TypeOK
  <2>2. PICK c \in left[k] :
          \/ row' = row /\ current' = current /\ cancel' = cancel
          \/ /\ row[<<event[k], c>>] = "delivered"
             /\ row' = [row EXCEPT ![<<event[k], c>>] = "cancelled"]
             /\ current' = [current EXCEPT ![k] = c]
             /\ cancel' = [cancel EXCEPT ![k] = "hooking"]
    BY <1>8 DEF Flip
  <2>3. CASE row' = row /\ current' = current /\ cancel' = cancel
    BY <2>1, <2>3 DEF RecallInv, Here, There
  <2>4. CASE /\ row[<<event[k], c>>] = "delivered"
             /\ row' = [row EXCEPT ![<<event[k], c>>] = "cancelled"]
             /\ current' = [current EXCEPT ![k] = c]
             /\ cancel' = [cancel EXCEPT ![k] = "hooking"]
    <3>1. <<event[k], c>> \in Deliveries /\ There(k)' = <<event[k], c>>
      BY <2>1, <2>2, <2>4 DEF TypeOK, Deliveries, There
    <3>2. \A l \in Cancels : l # k => There(l)' = There(l)
      BY <2>1 DEF There
    <3>3. \A d \in Deliveries :
            row'[d] = IF d = <<event[k], c>> THEN "cancelled" ELSE row[d]
      BY <2>4, <3>1 DEF TypeOK
    <3>4. told[<<event[k], c>>] = 0
      BY <2>4, <3>1 DEF RecallInv
    <3> QED BY <2>1, <2>4, <3>1, <3>2, <3>3, <3>4, <1>a DEF RecallInv, Here
  <2> QED BY <2>2, <2>3, <2>4
<1>9. ASSUME NEW k \in Cancels, Hook(k) PROVE RecallInv'
  <2>1. /\ emit' = emit /\ todo' = todo /\ row' = row /\ event' = event /\ current' = current
        /\ cancel[k] = "hooking" /\ cancel' = [cancel EXCEPT ![k] = "flipping"]
        /\ \/ told' = [told EXCEPT ![There(k)] = @ + 1]
           \/ told' = told
    BY <1>9 DEF Hook, Recall, There
  <2>2. There(k) \in Deliveries /\ told[There(k)] = 0 /\ row[There(k)] = "cancelled"
    BY <2>1, <1>a DEF RecallInv
  <2>3. \A d \in Deliveries : \/ told'[d] = told[d]
                              \/ d = There(k) /\ told'[d] = 1
    BY <2>1, <2>2 DEF TypeOK
  <2>4. \A d \in Deliveries : told'[d] <= 1
    BY <2>2, <2>3 DEF RecallInv
  <2>5. ASSUME NEW e \in Events, emit[e] \in {"inserted", "presented", "missed"}
        PROVE  told'[Here(e)] = 0
    <3>1. emit[e] \in Calling
      BY <2>5 DEF Calling
    <3>2. row[Here(e)] \in {"in_flight", "cancel_pending"} /\ Here(e) \in Deliveries
      BY <2>5, <3>1, <1>b DEF Emissions, Emission
    <3> QED BY <2>2, <2>3, <2>5, <3>2 DEF RecallInv
  <2>6. \A l \in Cancels : There(l)' = There(l)
    BY <2>1 DEF There
  <2>7. \A l \in Cancels : cancel'[l] = "hooking" => l # k /\ cancel[l] = "hooking"
    BY <2>1 DEF TypeOK
  <2>8. \A l \in Cancels : cancel'[l] = "hooking" => told'[There(l)] = 0
    BY <2>1, <2>3, <2>7, <1>a DEF RecallInv
  <2>9. \A d \in Deliveries : row[d] \notin {"cancel_pending", "cancelled"} => told'[d] = 0
    BY <2>2, <2>3 DEF RecallInv
  <2> QED BY <2>1, <2>4, <2>5, <2>6, <2>7, <2>8, <2>9 DEF RecallInv, Here
<1>10. CASE Poll \/ Crash \/ UNCHANGED vars
  <2>1. /\ todo' = todo /\ told' = told /\ row' = row /\ event' = event /\ current' = current
        /\ \A l \in Cancels : cancel'[l] = "hooking" => cancel[l] = "hooking"
        /\ \A e \in Events : emit'[e] \in {"inserted", "presented", "missed"} => emit'[e] = emit[e]
    BY <1>10 DEF Poll, Crash, vars
  <2> QED BY <2>1 DEF RecallInv, Here, There
<1> QED BY <1>1, <1>2, <1>3, <1>4, <1>5, <1>6, <1>7, <1>8, <1>9,
           <1>10 DEF Next, EmitStep, CancelStep

\* However many cancels race the emitter and each other, a channel is told at most
\* once to recall a delivery.
THEOREM RecallsAreSingle == Spec => []RecalledOnce
<1>1. RecallInv => RecalledOnce
  BY DEF RecallInv, RecalledOnce
<1>2. TypeOK /\ Emissions /\ RecallInv /\ [Next]_vars => RecallInv'
  BY RecallNext
<1> QED BY <1>1, <1>2, RecallInit, OutputsTyped, PTL DEF Spec

-----------------------------------------------------------------------------
(* What is cancelled is not shown.                                         *)

\* A cancel that may still owe the channel of delivery d its call, or never make it.
Owes(k, d) == There(k) = d /\ cancel[k] \in {"hooking", "lost"}

ShownInv ==
  /\ \A d \in Deliveries :
       row[d] = "cancelled" /\ d[2] \in Recallable /\ (\A k \in Cancels : ~ Owes(k, d))
       => d \notin shown
  /\ \A e \in Events : emit[e] = "recalled" /\ Here(e)[2] \in Recallable => Here(e) \notin shown

LEMMA ShownInit == Init => ShownInv
  BY DEF Init, ShownInv

\* Nothing is cancelled, nothing appears and nobody comes to owe less.
LEMMA ShownKept ==
  ASSUME TypeOK, ShownInv, shown' \subseteq shown,
         \A d \in Deliveries : row'[d] = "cancelled" => row[d] = "cancelled",
         \A k \in Cancels, d \in Deliveries : Owes(k, d) => Owes(k, d)',
         \A e \in Events : emit'[e] = "recalled" => emit[e] = "recalled" /\ todo'[e] = todo[e]
  PROVE  ShownInv'
  BY DEF ShownInv, Here

LEMMA ShownNext ==
  ASSUME TypeOK, Emissions, ShownInv, [Next]_vars
  PROVE  ShownInv'
<1> USE DEF emitter, table, channel, canceller
<1>a. \A k \in Cancels : There(k) \in Deliveries
  BY DEF TypeOK, There, Deliveries
<1>b. \A e \in Events : emit[e] \in Calling => Here(e) \in Deliveries
  BY Current DEF TypeOK, Emissions, Emission, Here, Deliveries
<1>c. \A e, x \in Events : e # x => Here(e) # Here(x)
  BY DEF Here
<1>1. ASSUME NEW e \in Events, Record(e) \/ Decide(e) \/ SkipUnresolved(e) \/ FinishEmit(e)
                               \/ DeliverFails(e) \/ SettleMissed(e)
      PROVE  ShownInv'
  <2>1. /\ row' = row /\ shown' = shown /\ cancel' = cancel /\ event' = event
        /\ current' = current
        /\ \A x \in Events : emit'[x] = "recalled" => emit[x] = "recalled" /\ todo'[x] = todo[x]
    BY <1>1 DEF Record, Decide, SkipUnresolved, FinishEmit, DeliverFails, SettleMissed, TypeOK
  <2> QED BY <2>1, ShownKept DEF Owes, There
<1>2. ASSUME NEW e \in Events, InsertRow(e) \/ Settle(e) \/ SettleFailed(e)
      PROVE  ShownInv'
  <2>1. /\ shown' = shown /\ cancel' = cancel /\ event' = event /\ current' = current
        /\ \A x \in Events : emit'[x] = "recalled" => emit[x] = "recalled" /\ todo'[x] = todo[x]
    BY <1>2 DEF InsertRow, Settle, SettleFailed, TypeOK
  <2>2. PICK s \in {"in_flight", "delivered", "failed"} :
          row' = row \/ row' = [row EXCEPT ![Here(e)] = s]
    BY <1>2 DEF InsertRow, Settle, SettleFailed
  <2>3. \A d \in Deliveries : row'[d] = "cancelled" => row[d] = "cancelled"
    BY <2>2 DEF TypeOK
  <2> QED BY <2>1, <2>3, ShownKept DEF Owes, There
<1>3. ASSUME NEW e \in Events, Present(e) PROVE ShownInv'
  <2>1. /\ emit[e] = "inserted" /\ emit' = [emit EXCEPT ![e] = "presented"] /\ todo' = todo
        /\ row' = row /\ shown' = shown \cup {Here(e)}
        /\ cancel' = cancel /\ event' = event /\ current' = current
    BY <1>3 DEF Present
  <2>2. row[Here(e)] # "cancelled"
    BY <2>1 DEF Emissions, Emission
  <2>3. \A x \in Events : emit'[x] = "recalled" => x # e /\ emit[x] = "recalled"
    BY <2>1 DEF TypeOK
  <2> QED BY <2>1, <2>2, <2>3, <1>c DEF ShownInv, Owes, There, Here
<1>4. ASSUME NEW e \in Events, RecallOwn(e) PROVE ShownInv'
  <2>1. /\ emit[e] = "missed" /\ emit' = [emit EXCEPT ![e] = "recalled"] /\ todo' = todo
        /\ row' = row /\ shown' = IF Here(e)[2] \in Recallable THEN shown \ {Here(e)} ELSE shown
        /\ cancel' = cancel /\ event' = event /\ current' = current
    BY <1>4 DEF RecallOwn, Recall
  <2>2. /\ shown' \subseteq shown
        /\ Here(e)[2] \in Recallable => Here(e) \notin shown'
    BY <2>1
  <2>3. \A x \in Events : emit'[x] = "recalled" => x = e \/ emit[x] = "recalled"
    BY <2>1 DEF TypeOK
  <2>4. \A x \in Events : Here(x)' = Here(x)
    BY <2>1 DEF Here
  <2>5. \A k \in Cancels, d \in Deliveries : Owes(k, d) <=> Owes(k, d)'
    BY <2>1 DEF Owes, There
  <2> QED BY <2>1, <2>2, <2>3, <2>4, <2>5 DEF ShownInv
<1>5. ASSUME NEW e \in Events, MarkCancelled(e) PROVE ShownInv'
  <2>1. /\ emit[e] = "recalled" /\ emit' = [emit EXCEPT ![e] = "dispatching"]
        /\ todo' = [todo EXCEPT ![e] = Tail(@)]
        /\ row' = [row EXCEPT ![Here(e)] = "cancelled"] /\ shown' = shown
        /\ cancel' = cancel /\ event' = event /\ current' = current
    BY <1>5 DEF MarkCancelled
  <2>2. \A x \in Events : emit'[x] = "recalled" => emit[x] = "recalled" /\ todo'[x] = todo[x]
    BY <2>1 DEF TypeOK
  <2>3. \A d \in Deliveries : row'[d] = "cancelled" => d = Here(e) \/ row[d] = "cancelled"
    BY <2>1 DEF TypeOK
  <2>4. Here(e)[2] \in Recallable => Here(e) \notin shown
    BY <2>1 DEF ShownInv
  <2>5. \A k \in Cancels, d \in Deliveries : Owes(k, d) <=> Owes(k, d)'
    BY <2>1 DEF Owes, There
  <2>6. \A x \in Events : emit'[x] = "recalled" => Here(x)' = Here(x)
    BY <2>2 DEF Here
  <2>7. ASSUME NEW d \in Deliveries, row'[d] = "cancelled", d[2] \in Recallable,
               \A k \in Cancels : ~ Owes(k, d)'
        PROVE  d \notin shown'
    BY <2>1, <2>3, <2>4, <2>5, <2>7 DEF ShownInv
  <2> QED BY <2>1, <2>2, <2>6, <2>7 DEF ShownInv
<1>6. ASSUME NEW k \in Cancels, NEW e \in Events, Claim(k, e) PROVE ShownInv'
  <2>1. /\ emit' = emit /\ todo' = todo /\ shown' = shown /\ current' = current
        /\ event' = [event EXCEPT ![k] = e] /\ cancel' = [cancel EXCEPT ![k] = "claimed"]
        /\ cancel[k] = "idle"
    BY <1>6 DEF Claim
  <2>2. \A d \in Deliveries : row'[d] = "cancelled" => row[d] = "cancelled"
    BY <1>6 DEF Claim
  <2>3. \A l \in Cancels, d \in Deliveries : Owes(l, d) => Owes(l, d)'
    BY <2>1 DEF Owes, There, TypeOK
  <2> QED BY <2>1, <2>2, <2>3, ShownKept
<1>7. ASSUME NEW k \in Cancels, ReadDelivered(k) \/ FinishCancel(k) PROVE ShownInv'
  <2>1. /\ emit' = emit /\ todo' = todo /\ shown' = shown /\ row' = row /\ event' = event
        /\ current' = current
        /\ \A l \in Cancels : cancel[l] \in {"hooking", "lost"} => cancel'[l] = cancel[l]
    BY <1>7 DEF ReadDelivered, FinishCancel, TypeOK
  <2> QED BY <2>1, ShownKept DEF Owes, There
<1>8. ASSUME NEW k \in Cancels, Flip(k) PROVE ShownInv'
  <2>1. /\ emit' = emit /\ todo' = todo /\ shown' = shown /\ event' = event
        /\ cancel[k] = "flipping"
    BY <1>8 DEF Flip
  <2>2. PICK c \in left[k] :
          \/ row' = row /\ current' = current /\ cancel' = cancel
          \/ /\ row' = [row EXCEPT ![<<event[k], c>>] = "cancelled"]
             /\ current' = [current EXCEPT ![k] = c]
             /\ cancel' = [cancel EXCEPT ![k] = "hooking"]
    BY <1>8 DEF Flip
  <2>3. CASE row' = row /\ current' = current /\ cancel' = cancel
    BY <2>1, <2>3, ShownKept DEF Owes, There
  <2>4. CASE /\ row' = [row EXCEPT ![<<event[k], c>>] = "cancelled"]
             /\ current' = [current EXCEPT ![k] = c]
             /\ cancel' = [cancel EXCEPT ![k] = "hooking"]
    <3>1. There(k)' = <<event[k], c>> /\ Owes(k, <<event[k], c>>)'
      BY <2>1, <2>2, <2>4 DEF TypeOK, There, Owes
    <3>2. \A l \in Cancels, d \in Deliveries : Owes(l, d) => Owes(l, d)'
      BY <2>1, <2>4 DEF TypeOK, There, Owes
    <3>3. \A d \in Deliveries : row'[d] = "cancelled" => d = <<event[k], c>> \/ row[d] = "cancelled"
      BY <2>4 DEF TypeOK
    <3>4. \A x \in Events : Here(x)' = Here(x)
      BY <2>1 DEF Here
    <3> QED BY <2>1, <3>1, <3>2, <3>3, <3>4 DEF ShownInv
  <2> QED BY <2>2, <2>3, <2>4
<1>9. ASSUME NEW k \in Cancels, Hook(k) PROVE ShownInv'
  <2>1. /\ emit' = emit /\ todo' = todo /\ row' = row /\ event' = event /\ current' = current
        /\ cancel[k] = "hooking" /\ cancel' = [cancel EXCEPT ![k] = "flipping"]
        /\ There(k) = <<event[k], current[k]>> /\ There(k)[2] = current[k]
    BY <1>9 DEF Hook, There
  <2>2. /\ shown' \subseteq shown
        /\ There(k)[2] \in Recallable => There(k) \notin shown'
    BY <1>9, <2>1 DEF Hook, Recall
  <2>3. \A l \in Cancels, d \in Deliveries : Owes(l, d) => Owes(l, d)' \/ d = There(k)
    BY <2>1 DEF Owes, There, TypeOK
  <2>4. \A x \in Events : Here(x)' = Here(x)
    BY <2>1 DEF Here
  <2>5. ASSUME NEW d \in Deliveries, row'[d] = "cancelled", d[2] \in Recallable,
               \A l \in Cancels : ~ Owes(l, d)'
        PROVE  d \notin shown'
    BY <2>1, <2>2, <2>3, <2>5 DEF ShownInv
  <2>6. \A x \in Events : emit'[x] = "recalled" /\ Here(x)[2] \in Recallable => Here(x) \notin shown'
    BY <2>1, <2>2 DEF ShownInv
  <2> QED BY <2>4, <2>5, <2>6 DEF ShownInv
<1>10. CASE Poll \/ Crash \/ UNCHANGED vars
  <2>1. /\ todo' = todo /\ row' = row /\ event' = event /\ current' = current /\ shown' = shown
        /\ \A l \in Cancels : cancel[l] \in {"hooking", "lost"} => cancel'[l] \in {"hooking", "lost"}
        /\ \A e \in Events : emit'[e] = "recalled" => emit'[e] = emit[e]
    BY <1>10 DEF Poll, Crash, vars
  <2> QED BY <2>1, ShownKept DEF Owes, There
<1> QED BY <1>1, <1>2, <1>3, <1>4, <1>5, <1>6, <1>7, <1>8, <1>9,
           <1>10 DEF Next, EmitStep, CancelStep

\* A delivery whose row says cancelled is off the screen, unless the cancel that
\* flipped it has yet to call the channel or died before it did.
THEOREM CancelledIsRecalled == Spec => []CancelledIsNotShown
<1>1. ShownInv => CancelledIsNotShown
  <2> SUFFICES ASSUME ShownInv, NEW d \in Deliveries, row[d] = "cancelled", d[2] \in Recallable,
                      \A k \in Cancels : event[k] = d[1] /\ current[k] = d[2]
                                         => cancel[k] \notin {"hooking", "lost"}
               PROVE  d \notin shown
    BY DEF CancelledIsNotShown
  <2>1. \A k \in Cancels : ~ Owes(k, d)
    BY DEF Owes, There
  <2> QED BY <2>1 DEF ShownInv
<1>2. TypeOK /\ Emissions /\ ShownInv /\ [Next]_vars => ShownInv'
  BY ShownNext
<1> QED BY <1>1, <1>2, ShownInit, OutputsTyped, PTL DEF Spec

-----------------------------------------------------------------------------
(* What a cancel saw, it recalls.                                          *)

Claimed == {"delivered", "cancel_pending", "cancelled"}

\* The rows that cancel k saw are never in flight again, and those that are still
\* delivered are on its list.
Seen(k) ==
  cancel[k] \in {"claimed", "flipping", "hooking", "done"} =>
    /\ \A c \in called[k] : row[<<event[k], c>>] \in Claimed
    /\ cancel[k] # "claimed" =>
         \A c \in called[k] : row[<<event[k], c>>] = "delivered" => c \in left[k]
    /\ cancel[k] = "done" => left[k] = {}

SeenInv == \A k \in Cancels : Seen(k)

LEMMA SeenInit == Init => SeenInv
  BY DEF Init, SeenInv, Seen

\* A row that a cancel saw goes only to cancelled, whoever moves it.
SeenMove(d) ==
  row[d] \in Claimed => row'[d] \in Claimed /\ (row'[d] = "delivered" => row[d] = "delivered")

LEMMA SeenEmit ==
  ASSUME TypeOK, Emissions, NEW e \in Events, EmitStep(e)
  PROVE  /\ cancel' = cancel /\ event' = event /\ left' = left /\ called' = called
         /\ \A d \in Deliveries : SeenMove(d)
<1> USE DEF canceller, history, table, channel
<1>1. cancel' = cancel /\ event' = event /\ left' = left /\ called' = called
  BY DEF EmitStep, Record, Decide, SkipUnresolved, InsertRow, Present, DeliverFails, Settle,
         SettleMissed, SettleFailed, RecallOwn, MarkCancelled, FinishEmit
<1>2. ASSUME InsertRow(e), NEW d \in Deliveries PROVE SeenMove(d)
  <2>1. row[Here(e)] = "absent" /\ row' = [row EXCEPT ![Here(e)] = "in_flight"]
    BY <1>2, Current DEF InsertRow, Emissions, Emission, Here, TypeOK
  <2> QED BY <2>1 DEF SeenMove, Claimed, TypeOK
<1>3. ASSUME Settle(e) \/ SettleFailed(e), NEW d \in Deliveries PROVE SeenMove(d)
  <2>1. PICK s : \/ row' = row
                 \/ row' = [row EXCEPT ![Here(e)] = s] /\ row[Here(e)] = "in_flight"
    BY <1>3 DEF Settle, SettleFailed
  <2> QED BY <2>1 DEF SeenMove, Claimed, TypeOK
<1>4. ASSUME MarkCancelled(e), NEW d \in Deliveries PROVE SeenMove(d)
  BY <1>4 DEF MarkCancelled, SeenMove, Claimed, TypeOK
<1>5. ASSUME ~ (InsertRow(e) \/ Settle(e) \/ SettleFailed(e) \/ MarkCancelled(e)),
             NEW d \in Deliveries
      PROVE  SeenMove(d)
  <2>1. row' = row
    BY <1>5 DEF EmitStep, Record, Decide, SkipUnresolved, Present, DeliverFails, SettleMissed,
                RecallOwn, FinishEmit
  <2> QED BY <2>1 DEF SeenMove
<1> QED BY <1>1, <1>2, <1>3, <1>4, <1>5

LEMMA SeenOthers ==
  ASSUME TypeOK, SeenInv, NEW k \in Cancels,
         cancel'[k] = cancel[k], event'[k] = event[k], left'[k] = left[k],
         called'[k] = called[k], \A d \in Deliveries : SeenMove(d)
  PROVE  Seen(k)'
<1>1. \A c \in called[k] : SeenMove(<<event[k], c>>)
  BY DEF TypeOK, Deliveries
<1> QED BY <1>1 DEF SeenInv, Seen, SeenMove

LEMMA SeenCancel ==
  ASSUME TypeOK, SeenInv, NEW k \in Cancels,
         (\E e \in Events : Claim(k, e)) \/ CancelStep(k)
  PROVE  SeenInv'
<1> USE DEF emitter, table, channel, canceller, history
<1>1. \A d \in Deliveries : SeenMove(d)
  BY CancelFrame DEF CancelMove, SeenMove, Claimed
<1>2. ASSUME NEW l \in Cancels, l # k PROVE Seen(l)'
  <2>1. /\ cancel'[l] = cancel[l] /\ event'[l] = event[l] /\ left'[l] = left[l]
        /\ called'[l] = called[l]
    BY <1>2 DEF CancelStep, Claim, ReadDelivered, Flip, Hook, FinishCancel, TypeOK
  <2> QED BY <1>1, <2>1, SeenOthers
<1>3. ASSUME NEW e \in Events, Claim(k, e) PROVE Seen(k)'
  <2>1. /\ cancel'[k] = "claimed" /\ event'[k] = e
        /\ called'[k] = {c \in Channels : row[<<e, c>>] \in {"in_flight", "delivered"}}
    BY <1>3 DEF Claim, TypeOK
  <2>2. ASSUME NEW c \in called'[k] PROVE row'[<<e, c>>] \in Claimed
    <3>1. <<e, c>> \in Deliveries /\ row[<<e, c>>] \in {"in_flight", "delivered"}
      BY <2>1 DEF Deliveries
    <3>2. row'[<<e, c>>] =
            IF <<e, c>>[1] = e /\ row[<<e, c>>] = "in_flight" THEN "cancel_pending"
            ELSE row[<<e, c>>]
      BY <1>3, <3>1 DEF Claim
    <3> QED BY <3>1, <3>2 DEF Claimed
  <2> QED BY <2>1, <2>2 DEF Seen
<1>4. ASSUME ReadDelivered(k) PROVE Seen(k)'
  <2>1. /\ cancel[k] = "claimed" /\ cancel'[k] = "flipping" /\ event' = event /\ called' = called
        /\ row' = row /\ left'[k] = {c \in Channels : row[<<event[k], c>>] = "delivered"}
    BY <1>4 DEF ReadDelivered, TypeOK
  <2> QED BY <2>1 DEF SeenInv, Seen, TypeOK
<1>5. ASSUME Flip(k) PROVE Seen(k)'
  <2>1. PICK c \in left[k] :
          /\ left' = [left EXCEPT ![k] = @ \ {c}]
          /\ \/ row' = [row EXCEPT ![<<event[k], c>>] = "cancelled"]
             \/ row' = row /\ row[<<event[k], c>>] # "delivered"
          /\ cancel'[k] \in {"flipping", "hooking"}
    BY <1>5 DEF Flip, TypeOK
  <2>2. event' = event /\ called' = called /\ cancel[k] = "flipping"
    BY <1>5 DEF Flip
  <2>3. <<event[k], c>> \in Deliveries /\ \A b \in called[k] : <<event[k], b>> \in Deliveries
    BY <2>1 DEF TypeOK, Deliveries
  <2>4. row'[<<event[k], c>>] # "delivered"
    BY <2>1, <2>3 DEF TypeOK
  <2>5. left'[k] = left[k] \ {c}
    BY <2>1 DEF TypeOK
  <2>6. \A b \in called[k] : SeenMove(<<event[k], b>>)
    BY <1>1, <2>3
  <2> QED BY <2>1, <2>2, <2>4, <2>5, <2>6 DEF SeenInv, Seen, SeenMove
<1>6. ASSUME Hook(k) PROVE Seen(k)'
  <2>1. /\ cancel[k] = "hooking" /\ cancel'[k] = "flipping" /\ event' = event /\ called' = called
        /\ row' = row /\ left' = left
    BY <1>6 DEF Hook, TypeOK
  <2> QED BY <2>1 DEF SeenInv, Seen
<1>7. ASSUME FinishCancel(k) PROVE Seen(k)'
  <2>1. /\ cancel[k] = "flipping" /\ cancel'[k] = "done" /\ event' = event /\ called' = called
        /\ row' = row /\ left' = left /\ left[k] = {}
    BY <1>7 DEF FinishCancel, TypeOK
  <2> QED BY <2>1 DEF SeenInv, Seen
<1> QED BY <1>2, <1>3, <1>4, <1>5, <1>6, <1>7 DEF CancelStep, SeenInv

LEMMA SeenNext ==
  ASSUME TypeOK, Emissions, SeenInv, [Next]_vars
  PROVE  SeenInv'
<1>1. ASSUME NEW e \in Events, EmitStep(e), NEW k \in Cancels PROVE Seen(k)'
  BY <1>1, SeenEmit, SeenOthers
<1>2. ASSUME Poll \/ Crash \/ UNCHANGED vars, NEW k \in Cancels PROVE Seen(k)'
  <2>1. /\ row' = row /\ event' = event /\ left' = left /\ called' = called
        /\ cancel'[k] = cancel[k] \/ cancel'[k] = "lost"
    BY <1>2 DEF Poll, Crash, vars, table, canceller, history
  <2> QED BY <2>1 DEF SeenInv, Seen
<1> QED BY <1>1, <1>2, SeenCancel DEF Next, SeenInv

\* When a cancel has answered, nothing that was in flight or delivered as it began
\* is delivered or can become so.
THEOREM CancelsAreComplete == Spec => []CancelSeesAll
<1>1. SeenInv => CancelSeesAll
  BY DEF SeenInv, Seen, CancelSeesAll, Claimed
<1>2. TypeOK /\ Emissions /\ SeenInv /\ [Next]_vars => SeenInv'
  BY SeenNext
<1> QED BY <1>1, <1>2, SeenInit, OutputsTyped, PTL DEF Spec

-----------------------------------------------------------------------------
(* The device's cursor.                                                    *)

LEMMA PollInit == Init => PollMissesOnlyLate
  BY ConstantsAssumption DEF Init, PollMissesOnlyLate, Deliveries

\* A page holds everything up to the cursor that it yields: what comes before one of
\* its rows has fewer rows before it.
LEMMA PageIsPrefix ==
  ASSUME TypeOK, NEW m \in Page(cursor), NEW e \in Pending(cursor), at[e] <= at[m]
  PROVE  e \in Page(cursor)
<1> DEFINE Before(x) == {f \in Pending(cursor) : at[f] < at[x]}
<1>1. Pending(cursor) \subseteq Events /\ m \in Events /\ e \in Events
  BY DEF Page, Pending
<1>2. Before(e) \subseteq Before(m)
  BY <1>1 DEF TypeOK
<1>3. IsFiniteSet(Before(m))
  BY <1>1, ConstantsAssumption, FS_Subset
<1>4. Cardinality(Before(e)) <= Cardinality(Before(m))
  BY <1>2, <1>3, FS_Subset
<1>5. Cardinality(Before(m)) \in Nat /\ Cardinality(Before(e)) \in Nat
  <2>1. IsFiniteSet(Before(e))
    BY <1>2, <1>3, FS_Subset
  <2> HIDE DEF Before
  <2> QED BY <1>3, <2>1, FS_CardinalityType
<1>6. Cardinality(Before(m)) < PageSize
  BY DEF Page
<1>7. Cardinality(Before(e)) < PageSize
  BY <1>4, <1>5, <1>6, ConstantsAssumption
<1> QED BY <1>7 DEF Page

LEMMA PollNext ==
  ASSUME TypeOK, Emissions, PollMissesOnlyLate, [Next]_vars
  PROVE  PollMissesOnlyLate'
<1> DEFINE Row(x) == <<x, Device>>
<1>a. \A x \in Events : Row(x) \in Deliveries
  BY ConstantsAssumption DEF Deliveries
<1>b. \A x \in Events : cursor \in Nat /\ at[x] \in Nat /\ mark[x] \in Nat
  BY DEF TypeOK
<1>1. ASSUME Poll PROVE PollMissesOnlyLate'
  <2>1. PICK m \in Page(cursor) : cursor' = at[m]
    BY <1>1 DEF Poll
  <2>2. got' = got \cup Page(cursor) /\ late' = late /\ at' = at /\ row' = row
    BY <1>1 DEF Poll, table, history
  <2>3. ASSUME NEW e \in Events, row[Row(e)] \in {"delivered", "cancelled"}, at[e] <= at[m]
        PROVE  e \in got' \cup late'
    <3>1. CASE at[e] <= cursor
      BY <2>2, <2>3, <3>1 DEF PollMissesOnlyLate
    <3>2. CASE at[e] > cursor
      BY <2>2, <2>3, <3>2, PageIsPrefix DEF Pending
    <3> QED BY <3>1, <3>2, <1>b
  <2> QED BY <2>1, <2>2, <2>3 DEF PollMissesOnlyLate
<1>2. ASSUME NEW k \in Cancels, (\E e \in Events : Claim(k, e)) \/ CancelStep(k)
      PROVE  PollMissesOnlyLate'
  <2>1. at' = at /\ cursor' = cursor /\ got' = got /\ late' = late
    BY <1>2 DEF CancelStep, Claim, ReadDelivered, Flip, Hook, FinishCancel, table, device, history
  <2>2. \A d \in Deliveries : CancelMove(d)
    BY <1>2, CancelFrame
  <2> QED BY <2>1, <2>2, <1>a DEF PollMissesOnlyLate, CancelMove
<1>3. ASSUME Crash \/ UNCHANGED vars PROVE PollMissesOnlyLate'
  BY <1>3 DEF Crash, vars, table, device, PollMissesOnlyLate
<1>4. ASSUME NEW e \in Events, EmitStep(e) PROVE PollMissesOnlyLate'
  <2>1. cursor' = cursor /\ got' = got
    BY <1>4 DEF EmitStep, Record, Decide, SkipUnresolved, InsertRow, Present, DeliverFails,
                Settle, SettleMissed, SettleFailed, RecallOwn, MarkCancelled, FinishEmit, device
  <2>2. \A x \in Events : x # e => row'[Row(x)] = row[Row(x)]
    BY <1>4, EmitFrame, ConstantsAssumption
  <2>3. ASSUME NEW x \in Events, x # e,
               row'[Row(x)] \in {"delivered", "cancelled"}, at'[x] <= cursor'
        PROVE  x \in got' \cup late'
    <3>1. at'[x] = at[x] /\ late \subseteq late'
      BY <1>4, <2>3 DEF EmitStep, Record, Decide, SkipUnresolved, InsertRow, Present,
           DeliverFails, Settle, SettleMissed, SettleFailed, RecallOwn, MarkCancelled,
           FinishEmit, table, history, TypeOK
    <3> QED BY <2>1, <2>2, <2>3, <3>1 DEF PollMissesOnlyLate
  <2>4. ASSUME row'[Row(e)] \in {"delivered", "cancelled"}, at'[e] <= cursor'
        PROVE  e \in got' \cup late'
    <3> USE DEF TypeOK, Here
    <3>1. CASE InsertRow(e)
      <4>1. /\ row' = [row EXCEPT ![Here(e)] = "in_flight"]
            /\ Head(todo[e]) # Device => at' = at
            /\ late' = late
        BY <3>1 DEF InsertRow, history
      <4>2. CASE Head(todo[e]) = Device
        BY <4>1, <4>2, <1>a, <2>4
      <4>3. CASE Head(todo[e]) # Device
        <5>1. Row(e) # Here(e)
          BY <4>3
        <5>2. row'[Row(e)] = row[Row(e)]
          BY <4>1, <5>1, <1>a
        <5> QED BY <2>1, <2>4, <4>1, <4>3, <5>2 DEF PollMissesOnlyLate
      <4> QED BY <4>2, <4>3
    <3>2. CASE Settle(e)
      <4>1. /\ row' = [row EXCEPT ![Here(e)] = "delivered"]
            /\ Head(todo[e]) # Device => at' = at /\ late' = late
            /\ Head(todo[e]) = Device => at'[e] = mark[e] /\ (mark[e] <= cursor => e \in late')
        BY <3>2 DEF Settle
      <4>2. CASE Head(todo[e]) = Device
        BY <4>1, <4>2, <2>1, <2>4
      <4>3. CASE Head(todo[e]) # Device
        <5>1. Row(e) # Here(e)
          BY <4>3
        <5>2. row'[Row(e)] = row[Row(e)]
          BY <4>1, <5>1, <1>a
        <5> QED BY <2>1, <2>4, <4>1, <4>3, <5>2 DEF PollMissesOnlyLate
      <4> QED BY <4>2, <4>3
    <3>3. CASE SettleFailed(e)
      <4>1. /\ row' = [row EXCEPT ![Here(e)] = "failed"] \/ row' = row
            /\ at' = at /\ late' = late
        BY <3>3 DEF SettleFailed, history
      <4>2. row'[Row(e)] = row[Row(e)] \/ row'[Row(e)] = "failed"
        BY <4>1, <1>a
      <4> QED BY <2>1, <2>4, <4>1, <4>2 DEF PollMissesOnlyLate
    <3>4. CASE MarkCancelled(e)
      <4>1. /\ row' = [row EXCEPT ![Here(e)] = "cancelled"] /\ at' = at
            /\ late' = IF Head(todo[e]) = Device /\ at[e] <= cursor THEN late \cup {e} ELSE late
        BY <3>4 DEF MarkCancelled
      <4>2. CASE Head(todo[e]) = Device
        BY <4>1, <4>2, <2>1, <2>4
      <4>3. CASE Head(todo[e]) # Device
        <5>1. Row(e) # Here(e)
          BY <4>3
        <5>2. row'[Row(e)] = row[Row(e)]
          BY <4>1, <5>1, <1>a
        <5> QED BY <2>1, <2>4, <4>1, <4>3, <5>2 DEF PollMissesOnlyLate
      <4> QED BY <4>2, <4>3
    <3>5. CASE ~ (InsertRow(e) \/ Settle(e) \/ SettleFailed(e) \/ MarkCancelled(e))
      <4>1. row' = row /\ at' = at /\ late' = late
        BY <1>4, <3>5 DEF EmitStep, Record, Decide, SkipUnresolved, Present, DeliverFails,
                          SettleMissed, RecallOwn, FinishEmit, table, history
      <4> QED BY <2>1, <2>4, <4>1 DEF PollMissesOnlyLate
    <3> QED BY <3>1, <3>2, <3>3, <3>4, <3>5
  <2> QED BY <2>3, <2>4 DEF PollMissesOnlyLate
<1> QED BY <1>1, <1>2, <1>3, <1>4 DEF Next

\* The only deliveries that GET /outputs/pending passes over are those that were
\* settled with a time stamp behind the cursor.
THEOREM PollsMissOnlyLate == Spec => []PollMissesOnlyLate
<1>1. TypeOK /\ Emissions /\ PollMissesOnlyLate /\ [Next]_vars => PollMissesOnlyLate'
  BY PollNext
<1> QED BY <1>1, PollInit, OutputsTyped, PTL DEF Spec
=============================================================================
