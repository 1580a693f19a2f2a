-------------------------- MODULE InputSubscriptions --------------------------
(***************************************************************************)
(* Input subscriptions (input_subscriptions.py): the poll loop, a forced   *)
(* poll (routes/inputs.py), the edits of a subscription, and the remote    *)
(* source that they read.  A poll that finds new content awaits            *)
(* ingest_input, whose event is durable as soon as it has begun            *)
(* (RoutingEngine); the poll learns no more of it than that it ended.      *)
(*                                                                         *)
(* A source's content is a number that grows with every change, and an     *)
(* ETag, where an answer has one, names the content.                       *)
(***************************************************************************)
EXTENDS Naturals

CONSTANTS
  Subs,       \* json_poll subscriptions
  MaxContent, \* bound on the changes of a source
  MaxCrashes  \* bound on the crashes of a behaviour

ConstantsAssumption == MaxContent \in Nat \ {0}

Contents == 1..MaxContent
None     == 0

\* The coroutines in poll_once: the loop's and a forced poll's, of each subscription.
Polls == {"loop", "forced"} \X Subs
Of(p) == p[2]

PollPhases == {"idle", "due", "requesting", "answered", "emitting", "ingesting", "done"}

Row    == [enabled : BOOLEAN, etag : Contents \cup {None}, hash : Contents \cup {None}]
Answer == [payload : Contents \cup {None}, etag : Contents \cup {None},
           hash : Contents \cup {None}]

NoRow    == [enabled |-> TRUE, etag |-> None, hash |-> None]
NoAnswer == [payload |-> None, etag |-> None, hash |-> None]

VARIABLES
  content, \* what each source serves
  sub,     \* input_subscriptions
  gone,    \* the ids that were deleted
  poll,    \* where each poll is
  read,    \* the row it read
  answer,  \* its _PollResult; an error is one with nothing set
  \* what happened, for the properties
  emitted, \* the content of each subscription's last event
  sent,    \* the contents of all its events
  forgot,  \* subscriptions whose hash was cleared by an error or a 304 since
  crossed, \* those two of whose polls have overlapped
  dropped, \* the content that a crash took from a poll which had recorded it
  crashes

sources == <<content, sub, gone>>
polling == <<poll, read, answer>>
seen    == <<emitted, sent, forgot, crossed, dropped>>
vars    == <<sources, polling, seen, crashes>>

Init ==
  /\ content = [s \in Subs |-> 1]
  /\ sub = [s \in Subs |-> NoRow]
  /\ gone = {}
  /\ poll = [p \in Polls |-> "idle"]
  /\ read = [p \in Polls |-> NoRow]
  /\ answer = [p \in Polls |-> NoAnswer]
  /\ emitted = [s \in Subs |-> None] /\ sent = [s \in Subs |-> {}]
  /\ forgot = {} /\ crossed = {}
  /\ dropped = [s \in Subs |-> {}]
  /\ crashes = 0

Step(p, from, to) == poll[p] = from /\ poll' = [poll EXCEPT ![p] = to]

Busy(p) == poll[p] \notin {"idle", "due", "done"}

-----------------------------------------------------------------------------
(* The loop and its polls.                                                 *)

\* A tick: the subscriptions found due are polled together.  gather awaits them all.
Tick ==
  /\ \A s \in Subs : poll[<<"loop", s>>] = "idle"
  /\ \E due \in SUBSET {s \in Subs \ gone : sub[s].enabled} :
       /\ due # {}
       /\ poll' = [p \in Polls |-> IF p[1] = "loop" /\ Of(p) \in due THEN "due" ELSE poll[p]]
  /\ UNCHANGED <<sources, read, answer, seen, crashes>>

\* gather returns when its last poll ends, whatever they raised, and the loop sleeps.
Sleep ==
  /\ \A s \in Subs : poll[<<"loop", s>>] \in {"idle", "done"}
  /\ \E s \in Subs : poll[<<"loop", s>>] = "done"
  /\ poll' = [p \in Polls |-> IF p[1] = "loop" THEN "idle" ELSE poll[p]]
  /\ UNCHANGED <<sources, read, answer, seen, crashes>>

\* POST /subscriptions/{sid}/poll.
ForcePoll(s) ==
  /\ Step(<<"forced", s>>, "idle", "due")
  /\ s \notin gone
  /\ UNCHANGED <<sources, read, answer, seen, crashes>>

\* The local variables of a poll that ends.
Forget(p) == read' = [read EXCEPT ![p] = NoRow] /\ answer' = [answer EXCEPT ![p] = NoAnswer]

Ended(p) == IF p[1] = "loop" THEN "done" ELSE "idle"

\* poll_once reads the row: gone, disabled, or the one it works with from now on.
ReadRow(p) ==
  /\ poll[p] = "due"
  /\ IF Of(p) \in gone \/ ~sub[Of(p)].enabled
     THEN /\ poll' = [poll EXCEPT ![p] = Ended(p)]
          /\ UNCHANGED <<read, crossed>>
     ELSE /\ poll' = [poll EXCEPT ![p] = "requesting"]
          /\ read' = [read EXCEPT ![p] = sub[Of(p)]]
          /\ crossed' = IF \E q \in Polls \ {p} : Of(q) = Of(p) /\ Busy(q)
                        THEN crossed \cup {Of(p)} ELSE crossed
  /\ UNCHANGED <<sources, answer, emitted, sent, forgot, dropped, crashes>>

Answered(p, a) ==
  /\ Step(p, "requesting", "answered")
  /\ answer' = [answer EXCEPT ![p] = a]
  /\ UNCHANGED <<sources, read, seen, crashes>>

\* _poll_json: the request fails, or its status is an error.
PollErrs(p) == Answered(p, NoAnswer)

\* What is no httpx.HTTPError (an invalid URL or header) leaves poll_once: nothing is recorded.
PollRaises(p) ==
  /\ Step(p, "requesting", Ended(p))
  /\ Forget(p)
  /\ UNCHANGED <<sources, seen, crashes>>

\* 304: the ETag is kept; the result has no hash.
NotModified(p) ==
  /\ read[p].etag # None /\ read[p].etag = content[Of(p)]
  /\ Answered(p, [payload |-> None, etag |-> read[p].etag, hash |-> None])

\* Slip: the content is compared through its ETag.
FetchedByTag(p) ==
  \E etag \in {None, content[Of(p)]} :
    Answered(p, [payload |-> IF etag # None /\ etag = read[p].etag THEN None
                             ELSE content[Of(p)],
                 hash |-> content[Of(p)], etag |-> etag])

\* 200, with an ETag or not: unchanged when the hash is the one on the row.
Fetched(p) ==
  \E etag \in {None, content[Of(p)]} :
    IF content[Of(p)] = read[p].hash
    THEN Answered(p, [payload |-> None, hash |-> content[Of(p)],
                      etag |-> IF etag = None THEN read[p].etag ELSE etag])
    ELSE Answered(p, [payload |-> content[Of(p)], hash |-> content[Of(p)], etag |-> etag])

\* Slip: a subscription that was disabled during the request is recorded but not emitted.
RecordPollDisabled(p) ==
  LET emits == answer[p].payload # None /\ sub[Of(p)].enabled
  IN  /\ Step(p, "answered", IF emits THEN "emitting" ELSE Ended(p))
      /\ IF emits THEN UNCHANGED <<read, answer>> ELSE Forget(p)
      /\ sub' = IF Of(p) \in gone THEN sub
                ELSE [sub EXCEPT ![Of(p)].etag = answer[p].etag, ![Of(p)].hash = answer[p].hash]
      /\ forgot' = IF answer[p].hash = None THEN forgot \cup {Of(p)} ELSE forgot
      /\ UNCHANGED <<content, gone, emitted, sent, crossed, dropped, crashes>>

\* _record_poll: etag and hash are overwritten, with NULL too; a deleted row is not found.
RecordPoll(p) ==
  /\ Step(p, "answered", IF answer[p].payload = None THEN Ended(p) ELSE "emitting")
  /\ IF answer[p].payload = None THEN Forget(p) ELSE UNCHANGED <<read, answer>>
  /\ sub' = IF Of(p) \in gone THEN sub
            ELSE [sub EXCEPT ![Of(p)].etag = answer[p].etag, ![Of(p)].hash = answer[p].hash]
  /\ forgot' = IF answer[p].hash = None THEN forgot \cup {Of(p)} ELSE forgot
  /\ UNCHANGED <<content, gone, emitted, sent, crossed, dropped, crashes>>

\* _emit_input_event: ingest_input records the event, whatever became of the subscription.
Emit(p) ==
  /\ Step(p, "emitting", "ingesting")
  /\ emitted' = [emitted EXCEPT ![Of(p)] = answer[p].payload]
  /\ sent' = [sent EXCEPT ![Of(p)] = @ \cup {answer[p].payload}]
  /\ forgot' = forgot \ {Of(p)}
  /\ UNCHANGED <<sources, read, answer, crossed, dropped, crashes>>

\* ingest_input returns or raises.
EmitReturns(p) ==
  /\ Step(p, "ingesting", Ended(p))
  /\ Forget(p)
  /\ UNCHANGED <<sources, seen, crashes>>

-----------------------------------------------------------------------------
(* The rest of the system.                                                 *)

\* The remote content changes.
SourceChanges(s) ==
  /\ content[s] < MaxContent
  /\ content' = [content EXCEPT ![s] = @ + 1]
  /\ UNCHANGED <<sub, gone, polling, seen, crashes>>

\* PATCH: the subscription is disabled, or enabled again.
SetEnabled(s, on) ==
  /\ s \notin gone /\ sub[s].enabled # on
  /\ sub' = [sub EXCEPT ![s].enabled = on]
  /\ UNCHANGED <<content, gone, polling, seen, crashes>>

Delete(s) ==
  /\ s \notin gone
  /\ gone' = gone \cup {s}
  /\ UNCHANGED <<content, sub, polling, seen, crashes>>

Crash ==
  /\ crashes < MaxCrashes /\ crashes' = crashes + 1
  /\ poll' = [p \in Polls |-> "idle"]
  /\ read' = [p \in Polls |-> NoRow] /\ answer' = [p \in Polls |-> NoAnswer]
  /\ dropped' = [s \in Subs |-> dropped[s] \cup
                   {answer[p].payload : p \in {q \in Polls : Of(q) = s /\ poll[q] = "emitting"}}]
  /\ UNCHANGED <<sources, emitted, sent, forgot, crossed>>

PollStep(p) ==
  \/ ReadRow(p) \/ PollErrs(p) \/ PollRaises(p) \/ NotModified(p) \/ Fetched(p)
  \/ RecordPoll(p) \/ Emit(p) \/ EmitReturns(p)

Next ==
  \/ Tick \/ Sleep
  \/ \E s \in Subs : ForcePoll(s) \/ SourceChanges(s) \/ Delete(s)
  \/ \E s \in Subs, on \in BOOLEAN : SetEnabled(s, on)
  \/ \E p \in Polls : PollStep(p)
  \/ Crash

Spec == Init /\ [][Next]_vars

-----------------------------------------------------------------------------
(* Properties.                                                             *)

TypeOK ==
  /\ content \in [Subs -> Contents]
  /\ sub \in [Subs -> Row]
  /\ gone \subseteq Subs
  /\ poll \in [Polls -> PollPhases]
  /\ read \in [Polls -> Row] /\ answer \in [Polls -> Answer]
  /\ emitted \in [Subs -> Contents \cup {None}] /\ sent \in [Subs -> SUBSET (Contents \cup {None})]
  /\ forgot \subseteq Subs /\ crossed \subseteq Subs
  /\ dropped \in [Subs -> SUBSET (Contents \cup {None})]

Emits(s) == \E p \in Polls : Of(p) = s /\ poll[p] = "emitting" /\ poll'[p] = "ingesting"

\* The events of a subscription follow its source: each carries newer content than the one
\* before it, or the same when the hash was cleared in between, unless two polls of the
\* subscription overlapped.
InOrderStep ==
  \A s \in Subs : Emits(s) /\ s \notin crossed =>
    \/ emitted'[s] > emitted[s]
    \/ emitted'[s] = emitted[s] /\ s \in forgot
EmitsInOrder == [][InOrderStep]_vars

\* Content whose hash is on the row, so that the polls to come pass it over, has been
\* emitted, is about to be, or was taken by a crash in the gap between the two.
SeenIsEmitted ==
  \A s \in Subs \ gone : sub[s].hash # None =>
    \/ sub[s].hash \in sent[s] \cup dropped[s]
    \/ \E p \in Polls : Of(p) = s /\ poll[p] = "emitting" /\ answer[p].payload = sub[s].hash

\* input_subscriptions.py: a poll "emits an input_event only when the hash changes".
EmitsOnlyChanges ==
  [][\A s \in Subs : Emits(s) /\ s \notin crossed => emitted'[s] # emitted[s]]_vars
=============================================================================
