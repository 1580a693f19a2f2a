---------------------------- MODULE RoutingEngine ----------------------------
(***************************************************************************)
(* The routing framework (routing/) as inputs, memory and observations use *)
(* it: ingest_input, record_memory and observe record their event and then *)
(* await Engine.run_event, which decides, persists the decision and        *)
(* dispatches to one handler after another.                                *)
(*                                                                         *)
(* Each INSERT here is committed before anything else is awaited on its    *)
(* behalf, so a statement and its commit are one step.  What a handler     *)
(* does is one step too: the chat turn that the llm handler starts is in   *)
(* ChatTurns, the tool that direct_invoke runs in Invocations.             *)
(***************************************************************************)
EXTENDS Naturals, Sequences

CONSTANTS
  Events,      \* calls of ingest_input, record_memory and observe
  Kinds,       \* the events they are called with: [domain, trait]
  ToolNames,   \* tools whose manifest declares them handlers of a domain
  Decisions,   \* what a router tool may dispatch to: sequences of handlers
  MaxCrashes   \* bound on the crashes of a behaviour

Domains == {"input", "memory", "observation"}

\* The handlers that each domain installs; discard is the framework's own.
InputHandlers       == {"llm", "direct_invoke"}
MemoryHandlers      == {"memory_store"}
ObservationHandlers == {"archive", "summarize"}

Builtins == [input       |-> InputHandlers \cup {"discard"},
             memory      |-> MemoryHandlers \cup {"discard"},
             observation |-> ObservationHandlers \cup {"discard"}]
Handlers == (UNION {Builtins[d] : d \in Domains}) \cup ToolNames

\* No decision yet, and that of an event which has expired.
Undecided == <<"undecided">>
Expired   == <<"expired">>

\* Events are of one of the domains, and decisions are sequences, of any names.
ConstantsAssumption ==
  /\ \A k \in Kinds : k.domain \in Domains
  /\ \A d \in Decisions : d \in Seq({d[i] : i \in DOMAIN d})
  /\ Undecided \notin Decisions

VARIABLES
  installed, \* tools that are registered and not deprecated; "router" is a router tool
  phase,     \* where each call is
  kind,      \* the event it was called with
  decision,  \* what it decided
  todo,      \* the handlers it has still to dispatch to, the current one first
  result,    \* the current handler's answer: ok or error
  audits,    \* *_routing_audit: the decision, or Undecided when there is no row
  rows,      \* *_dispatches: [handler, ok], in order
  effects,   \* the handlers that wrote something for the event, in order
  \* what happened, for the properties
  crashes

tables == <<audits, rows, effects>>
calls  == <<phase, kind, decision, todo, result>>
vars   == <<installed, calls, tables, crashes>>

Init ==
  /\ installed = ToolNames \cup {"router"}
  /\ phase = [e \in Events |-> "idle"]
  /\ kind = [e \in Events |-> CHOOSE k \in Kinds : TRUE]
  /\ decision = [e \in Events |-> Undecided]
  /\ todo = [e \in Events |-> <<>>]
  /\ result = [e \in Events |-> "none"]
  /\ audits = [e \in Events |-> Undecided]
  /\ rows = [e \in Events |-> <<>>]
  /\ effects = [e \in Events |-> <<>>]
  /\ crashes = 0

Move(e, from, to) == phase[e] = from /\ phase' = [phase EXCEPT ![e] = to]

-----------------------------------------------------------------------------
(* The built-in routers.  The handlers that they pick are always installed. *)

InputPick(trait) ==
  CASE trait = "invoke" -> "direct_invoke"
    [] trait = "noise"  -> "discard"
    [] OTHER            -> "llm"

MemoryPick(trait) == IF trait = "short" THEN "discard" ELSE "memory_store"

ObservationPick(trait) ==
  CASE trait = "debug" -> "discard"
    [] trait = "info"  -> "summarize"
    [] OTHER           -> "archive"

Pick(k) ==
  CASE k.domain = "input"       -> InputPick(k.trait)
    [] k.domain = "memory"      -> MemoryPick(k.trait)
    [] k.domain = "observation" -> ObservationPick(k.trait)

\* The engine's fallback_handler, for a router tool that errs.
Fallback(k) ==
  CASE k.domain = "input"       -> "llm"
    [] k.domain = "memory"      -> "memory_store"
    [] k.domain = "observation" -> "archive"

-----------------------------------------------------------------------------
(* run_event, for one event.                                               *)

\* The INSERT of the event.
Record(e, k) ==
  /\ Move(e, "idle", "recorded")
  /\ kind' = [kind EXCEPT ![e] = k]
  /\ UNCHANGED <<installed, decision, todo, result, tables, crashes>>

IngestInput(e, k)  == k.domain = "input" /\ Record(e, k)
RecordMemory(e, k) == k.domain = "memory" /\ Record(e, k)
Observe(e, k)      == k.domain = "observation" /\ Record(e, k)

\* decide: find_router_tool, the newest router that is not deprecated.
FindRouter(e) ==
  /\ Move(e, "recorded", IF "router" \in installed THEN "routing" ELSE "deciding")
  /\ UNCHANGED <<installed, kind, decision, todo, result, tables, crashes>>

Decided(e, d) == decision' = [decision EXCEPT ![e] = d]

\* builtin_route of the event's domain: it has expired, or one handler is picked.
DecideBuiltin(e) ==
  /\ Move(e, "deciding", "decided")
  /\ Decided(e, Expired) \/ Decided(e, <<Pick(kind[e])>>)
  /\ UNCHANGED <<installed, kind, todo, result, tables, crashes>>

\* route_via_tool: the tool's decision, or the fallback when its result is an error.
RouterAnswers(e) ==
  /\ Move(e, "routing", "decided")
  /\ \E d \in Decisions \cup {Expired, <<Fallback(kind[e])>>} : Decided(e, d)
  /\ UNCHANGED <<installed, kind, todo, result, tables, crashes>>

\* _execute_tool raises: nothing catches it, and the event keeps its row alone.
RouterRaises(e) ==
  /\ Move(e, "routing", "raised")
  /\ UNCHANGED <<installed, kind, decision, todo, result, tables, crashes>>

\* persist_audit.
Audit(e) ==
  /\ Move(e, "decided", "dispatching")
  /\ audits' = [audits EXCEPT ![e] = decision[e]]
  /\ todo' = [todo EXCEPT ![e] = IF decision[e] = Expired THEN <<>> ELSE decision[e]]
  /\ UNCHANGED <<installed, kind, decision, result, rows, effects, crashes>>

Write(e, handler, ok) ==
  rows' = [rows EXCEPT ![e] = Append(@, [handler |-> handler, ok |-> ok])]

\* resolve_handler: the domain's own handlers, then the tools that are installed now.
Resolved(e) == Head(todo[e]) \in Builtins[kind[e].domain] \cup (installed \ {"router"})

\* It finds nothing: a row says so, and the next handler is tried.
HandlerMissing(e) ==
  /\ phase[e] = "dispatching" /\ todo[e] # <<>>
  /\ ~Resolved(e)
  /\ Write(e, Head(todo[e]), FALSE)
  /\ todo' = [todo EXCEPT ![e] = Tail(@)]
  /\ UNCHANGED <<installed, phase, kind, decision, result, audits, effects, crashes>>

Invoking(e) ==
  /\ todo[e] # <<>> /\ Resolved(e)
  /\ Move(e, "dispatching", "invoked")

\* handler.invoke: it writes what it is for, and answers.
HandlerAnswers(e) ==
  /\ Invoking(e)
  /\ effects' = IF Head(todo[e]) = "discard" THEN effects
                ELSE [effects EXCEPT ![e] = Append(@, Head(todo[e]))]
  /\ result' = [result EXCEPT ![e] = "ok"]
  /\ UNCHANGED <<installed, kind, decision, todo, audits, rows, crashes>>

\* Its result holds an error, or it raises, which is caught; a tool may have acted before.
HandlerErrs(e) ==
  /\ Invoking(e)
  /\ \/ UNCHANGED effects
     \/ /\ Head(todo[e]) \in ToolNames \cup {"direct_invoke"}
        /\ effects' = [effects EXCEPT ![e] = Append(@, Head(todo[e]))]
  /\ result' = [result EXCEPT ![e] = "error"]
  /\ UNCHANGED <<installed, kind, decision, todo, audits, rows, crashes>>

\* Slip: an error ends the loop over the handlers.
RecordUnlessError(e) ==
  /\ Move(e, "invoked", IF result[e] = "ok" THEN "dispatching" ELSE "done")
  /\ Write(e, Head(todo[e]), result[e] = "ok")
  /\ todo' = [todo EXCEPT ![e] = Tail(@)]
  /\ UNCHANGED <<installed, kind, decision, result, audits, effects, crashes>>

RecordDispatch(e) ==
  /\ Move(e, "invoked", "dispatching")
  /\ Write(e, Head(todo[e]), result[e] = "ok")
  /\ todo' = [todo EXCEPT ![e] = Tail(@)]
  /\ UNCHANGED <<installed, kind, decision, result, audits, effects, crashes>>

\* The INSERT raises: a tool's delivery_id, id or error is no value that SQLite takes.
RecordRaises(e) ==
  /\ Move(e, "invoked", "unrecorded")
  /\ \/ Head(todo[e]) \in ToolNames
     \/ Head(todo[e]) = "direct_invoke" /\ result[e] = "error"
  /\ decision' = [decision EXCEPT ![e] = Undecided] /\ result' = [result EXCEPT ![e] = "none"]
  /\ todo' = [todo EXCEPT ![e] = <<>>]
  /\ UNCHANGED <<installed, kind, tables, crashes>>

\* dispatch_all returns, and the call with it.
Return(e) ==
  /\ todo[e] = <<>>
  /\ Move(e, "dispatching", "done")
  /\ decision' = [decision EXCEPT ![e] = Undecided] /\ result' = [result EXCEPT ![e] = "none"]
  /\ UNCHANGED <<installed, kind, todo, tables, crashes>>

EngineStep(e) ==
  \/ FindRouter(e) \/ DecideBuiltin(e) \/ RouterAnswers(e) \/ RouterRaises(e) \/ Audit(e)
  \/ HandlerMissing(e) \/ HandlerAnswers(e) \/ HandlerErrs(e)
  \/ RecordDispatch(e) \/ RecordRaises(e) \/ Return(e)

\* A tool is deprecated; a call that has looked it up does not notice.
Deprecate(t) ==
  /\ t \in installed
  /\ installed' = installed \ {t}
  /\ UNCHANGED <<calls, tables, crashes>>

\* What the death of the process does to the calls.  No start looks for their events.
Crash ==
  /\ crashes < MaxCrashes /\ crashes' = crashes + 1
  /\ phase' = [e \in Events |-> IF phase[e] \in {"idle", "done", "raised", "unrecorded"}
                                THEN phase[e] ELSE "lost"]
  /\ decision' = [e \in Events |-> Undecided]
  /\ todo' = [e \in Events |-> <<>>] /\ result' = [e \in Events |-> "none"]
  /\ UNCHANGED <<installed, kind, tables>>

Next ==
  \/ \E e \in Events : EngineStep(e)
  \/ \E e \in Events, k \in Kinds : IngestInput(e, k) \/ RecordMemory(e, k) \/ Observe(e, k)
  \/ \E t \in installed : Deprecate(t)
  \/ Crash

Spec == Init /\ [][Next]_vars

-----------------------------------------------------------------------------
(* Properties.                                                             *)

Dispatched(e) == [i \in DOMAIN rows[e] |-> rows[e][i].handler]

\* What the tables say of an event never goes beyond the decision in its audit row, step by
\* step: the dispatches are an initial part of it, every effect is of a handler that it
\* names, a handler with a row of success has had its effect, at most one effect awaits its
\* row, and a call that ended well has its audit row and one for every handler, whatever
\* errors it met.
TrailMatches ==
  \A e \in Events :
    LET decided == IF audits[e] \in {Undecided, Expired} THEN <<>> ELSE audits[e]
    IN  /\ Len(rows[e]) <= Len(decided)
        /\ Dispatched(e) = SubSeq(decided, 1, Len(rows[e]))
        /\ Len(effects[e]) <= Len(rows[e]) + 1
        /\ \A i \in DOMAIN effects[e] : \E j \in DOMAIN decided :
             decided[j] = effects[e][i]
        /\ \A i \in DOMAIN rows[e] : rows[e][i].ok /\ rows[e][i].handler # "discard" =>
             \E j \in DOMAIN effects[e] : effects[e][j] = rows[e][i].handler
        /\ phase[e] = "done" => audits[e] # Undecided /\ Len(rows[e]) = Len(decided)
=============================================================================
