------------------------------ MODULE ChatRuns ------------------------------
(***************************************************************************)
(* Chat runs: chat.send with its two stores, the cache of finished runs    *)
(* and the registry of live ones, the task that serves a run, chat.abort,  *)
(* chat.inject, the transcript of a session, and the queue of system       *)
(* events that the next prompt carries.  Every lock section and every      *)
(* database call is one action.  A provider is configured, and cached      *)
(* results do not expire (Idempotency models the cache's limits); sessions *)
(* exist.  Texts, deltas, attachments, usage and workspace files are left  *)
(* out.                                                                    *)
(***************************************************************************)
EXTENDS Integers, Sequences, Functions

CONSTANTS Sends,      \* chat.send requests; one that starts a run names its task
          RunIds, RunOf,       \* the idempotency key of each
          Sessions, SessionOf, \* and its session
          Kind,       \* "chat", or a local command: "remember", which is kept, or "view"
          Notes,      \* messages chat.inject may be asked to add
          SysEvents,  \* system event lines
          MaxQueue,   \* MAX_SYSTEM_EVENTS_PER_SESSION
          NoSend, NoEvent

ASSUME ChatAssumption ==
  /\ RunOf \in [Sends -> RunIds] /\ SessionOf \in [Sends -> Sessions]
  /\ Kind \in [Sends -> {"chat", "remember", "view"}]
  /\ MaxQueue \in Nat \ {0} /\ Notes \cap Sends = {}
  /\ NoSend \notin Sends /\ NoEvent \notin SysEvents

VARIABLES
  pc,          \* where each request, and then its task, is
  answer,      \* what the request was told
  registry,    \* openclaw_chat_runs: the task registered for a run id
  cancel,      \* the tasks whose cancel channel holds a stop reason
  cached,      \* OPENCLAW_DEDUPE: how a run id ended, or "none" (chat_send_dedupe_key
               \* ignores the session)
  overtaken,   \* history: the requests that had missed their run in the cache when it
               \* was put there
  outcome,     \* how each task ended
  announced,   \* the tasks whose terminal event was broadcast
  transcript,  \* the stored messages of each session: turns, by task, and notes
  copy,        \* the session each task loaded
  noting,      \* the sessions chat.inject calls have loaded, with their notes
  queue, last, \* each session's queue of system events, and its last_text
  prompted     \* the system events each task's prompt carried

vars == <<pc, answer, registry, cancel, cached, overtaken, outcome, announced,
          transcript, copy, noting, queue, last, prompted>>

Messages == Sends \cup Notes

Init ==
  /\ pc = [s \in Sends |-> "new"] /\ answer = [s \in Sends |-> "none"]
  /\ registry = [r \in RunIds |-> NoSend] /\ cancel = {}
  /\ cached = [r \in RunIds |-> "none"] /\ overtaken = {}
  /\ outcome = [s \in Sends |-> "none"] /\ announced = {}
  /\ transcript = [x \in Sessions |-> {}] /\ copy = [s \in Sends |-> {}] /\ noting = {}
  /\ queue = [x \in Sessions |-> <<>>] /\ last = [x \in Sessions |-> NoEvent]
  /\ prompted = [s \in Sends |-> {}]

Goto(s, from, to) == pc[s] = from /\ pc' = [pc EXCEPT ![s] = to]
Reply(s, from, told) ==
  Goto(s, from, "done") /\ answer' = [answer EXCEPT ![s] = told]

-----------------------------------------------------------------------------
(* chat.send.                                                              *)

\* A finished run is answered from the cache.
Look(s) ==
  /\ IF cached[RunOf[s]] # "none" THEN Reply(s, "new", cached[RunOf[s]])
     ELSE Goto(s, "new", "missed") /\ UNCHANGED answer
  /\ UNCHANGED <<registry, cancel, cached, overtaken, outcome, announced,
                 transcript, copy, noting, queue, last, prompted>>

\* openclaw_has_chat_run.
LookForRun(s) ==
  /\ IF registry[RunOf[s]] # NoSend THEN Reply(s, "missed", "in_flight")
     ELSE Goto(s, "missed", "idle") /\ UNCHANGED answer
  /\ UNCHANGED <<registry, cancel, cached, overtaken, outcome, announced,
                 transcript, copy, noting, queue, last, prompted>>

\* Mutant: a live entry is overwritten.
RegisterAlways(s) ==
  /\ Goto(s, "idle", "queued") /\ answer' = [answer EXCEPT ![s] = "started"]
  /\ registry' = [registry EXCEPT ![RunOf[s]] = s]
  /\ UNCHANGED <<cancel, cached, overtaken, outcome, announced,
                 transcript, copy, noting, queue, last, prompted>>

\* openclaw_try_register_chat_run; the task of the run is spawned.
Register(s) ==
  /\ IF registry[RunOf[s]] # NoSend
     THEN Reply(s, "idle", "in_flight") /\ UNCHANGED registry
     ELSE /\ Goto(s, "idle", "queued") /\ answer' = [answer EXCEPT ![s] = "started"]
          /\ registry' = [registry EXCEPT ![RunOf[s]] = s]
  /\ UNCHANGED <<cancel, cached, overtaken, outcome, announced,
                 transcript, copy, noting, queue, last, prompted>>

-----------------------------------------------------------------------------
(* The task of a run.                                                      *)

End(s, from, how) ==
  Goto(s, from, "announce") /\ outcome' = [outcome EXCEPT ![s] = how]

\* Mutant: reading the cancel channel at the start marks its value as seen.
BeginMarksSeen(s) ==
  /\ IF Kind[s] # "chat" THEN End(s, "queued", "ok")
     ELSE Goto(s, "queued", "load") /\ UNCHANGED outcome
  /\ cancel' = cancel \ {s}
  /\ UNCHANGED <<answer, registry, cached, overtaken, announced,
                 transcript, copy, noting, queue, last, prompted>>

\* An abort that raced with the start is honoured; a local command is done
\* without the model.
Begin(s) ==
  /\ IF s \in cancel THEN End(s, "queued", "aborted")
     ELSE IF Kind[s] # "chat" THEN End(s, "queued", "ok")
     ELSE Goto(s, "queued", "load") /\ UNCHANGED outcome
  /\ UNCHANGED <<answer, registry, cancel, cached, overtaken, announced,
                 transcript, copy, noting, queue, last, prompted>>

\* Mutant: the user's message is stored when the session is loaded.
LoadAndStore(s) ==
  /\ Goto(s, "load", "peek")
  /\ copy' = [copy EXCEPT ![s] = transcript[SessionOf[s]]]
  /\ transcript' = [transcript EXCEPT ![SessionOf[s]] = @ \cup {s}]
  /\ UNCHANGED <<answer, registry, cancel, cached, overtaken, outcome, announced,
                 noting, queue, last, prompted>>

Load(s) ==
  /\ Goto(s, "load", "peek")
  /\ copy' = [copy EXCEPT ![s] = transcript[SessionOf[s]]]
  /\ UNCHANGED <<answer, registry, cancel, cached, overtaken, outcome, announced,
                 transcript, noting, queue, last, prompted>>

\* The queued system events go into the prompt and stay queued.
Peek(s) ==
  /\ Goto(s, "peek", "ask")
  /\ prompted' = [prompted EXCEPT ![s] = Range(queue[SessionOf[s]])]
  /\ UNCHANGED <<answer, registry, cancel, cached, overtaken, outcome, announced,
                 transcript, copy, noting, queue, last>>

\* The provider accepts the request, or fails; it may also never answer.
Provider(s) ==
  /\ \/ Goto(s, "ask", "stream") /\ UNCHANGED outcome
     \/ \E from \in {"ask", "stream"} : End(s, from, "error")
     \/ End(s, "stream", "ok")
  /\ UNCHANGED <<answer, registry, cancel, cached, overtaken, announced,
                 transcript, copy, noting, queue, last, prompted>>

\* The cancel branch of the select.
Cancelled(s) ==
  /\ s \in cancel /\ End(s, "stream", "aborted")
  /\ UNCHANGED <<answer, registry, cancel, cached, overtaken, announced,
                 transcript, copy, noting, queue, last, prompted>>

\* The terminal event.
Announce(s) ==
  /\ Goto(s, "announce", "cache") /\ announced' = announced \cup {s}
  /\ UNCHANGED <<answer, registry, cancel, cached, overtaken, outcome,
                 transcript, copy, noting, queue, last, prompted>>

AfterCache(s) ==
  IF outcome[s] = "ok" /\ Kind[s] = "remember" THEN "reload" ELSE "unregister"

\* The requests that have missed a run in the cache and not looked for it further on.
Missing(r) == {s \in Sends : pc[s] \in {"missed", "idle"} /\ RunOf[s] = r}

\* Mutant: every run is cached as a success.
CacheOk(s) ==
  /\ Goto(s, "cache", AfterCache(s))
  /\ cached' = [cached EXCEPT ![RunOf[s]] = "ok"]
  /\ overtaken' = overtaken \cup Missing(RunOf[s])
  /\ UNCHANGED <<answer, registry, cancel, outcome, announced,
                 transcript, copy, noting, queue, last, prompted>>

\* Mutant: an aborted run is not cached.
CacheUnlessAborted(s) ==
  /\ Goto(s, "cache", AfterCache(s))
  /\ cached' = IF outcome[s] = "aborted" THEN cached
               ELSE [cached EXCEPT ![RunOf[s]] = outcome[s]]
  /\ overtaken' = overtaken \cup Missing(RunOf[s])
  /\ UNCHANGED <<answer, registry, cancel, outcome, announced,
                 transcript, copy, noting, queue, last, prompted>>

\* openclaw_dedupe_put.
Cache(s) ==
  /\ Goto(s, "cache", AfterCache(s))
  /\ cached' = [cached EXCEPT ![RunOf[s]] = outcome[s]]
  /\ overtaken' = overtaken \cup Missing(RunOf[s])
  /\ UNCHANGED <<answer, registry, cancel, outcome, announced,
                 transcript, copy, noting, queue, last, prompted>>

\* store.update writes the session's row, then deletes its messages and inserts
\* those it was given one by one.  It may fail at any point, which is ignored.
Store(x, old, new) ==
  \/ UNCHANGED transcript
  \/ \E kept \in (SUBSET old) \cup {old \cup {new}} :
       transcript' = [transcript EXCEPT ![x] = kept]

\* A kept local command loads the session when it is done, and stores it.
Reload(s) ==
  /\ Goto(s, "reload", "restore")
  /\ copy' = [copy EXCEPT ![s] = transcript[SessionOf[s]]]
  /\ UNCHANGED <<answer, registry, cancel, cached, overtaken, outcome, announced,
                 transcript, noting, queue, last, prompted>>

Save(s, from, to) ==
  /\ Goto(s, from, to) /\ Store(SessionOf[s], copy[s], s)
  /\ UNCHANGED <<answer, registry, cancel, cached, overtaken, outcome, announced,
                 copy, noting, queue, last, prompted>>

\* openclaw_unregister_chat_run removes whatever the run id holds.
Unregister(s) ==
  /\ Goto(s, "unregister", IF outcome[s] = "ok" /\ Kind[s] = "chat" THEN "drain" ELSE "done")
  /\ registry' = [registry EXCEPT ![RunOf[s]] = NoSend]
  /\ UNCHANGED <<answer, cancel, cached, overtaken, outcome, announced,
                 transcript, copy, noting, queue, last, prompted>>

\* After a final response the whole queue is cleared, if the prompt had events.
Drain(s) ==
  /\ Goto(s, "drain", "save")
  /\ IF prompted[s] # {}
     THEN /\ queue' = [queue EXCEPT ![SessionOf[s]] = <<>>]
          /\ last' = [last EXCEPT ![SessionOf[s]] = NoEvent]
     ELSE UNCHANGED <<queue, last>>
  /\ UNCHANGED <<answer, registry, cancel, cached, overtaken, outcome, announced,
                 transcript, copy, noting, prompted>>

-----------------------------------------------------------------------------
(* The rest of the gateway.                                                *)

\* chat.abort, for a run or for a session, and the stop command.
Abort(x, runs) ==
  /\ cancel' = cancel \cup {registry[r] : r \in {q \in runs :
                  registry[q] # NoSend /\ SessionOf[registry[q]] = x}}
  /\ UNCHANGED <<pc, answer, registry, cached, overtaken, outcome, announced,
                 transcript, copy, noting, queue, last, prompted>>

\* chat.inject loads the session, and stores it with the note.
Inject(x, n) ==
  /\ \A m \in noting : m.note # n
  /\ n \notin UNION {transcript[y] : y \in Sessions}
  /\ noting' = noting \cup {[note |-> n, session |-> x, base |-> transcript[x], saved |-> FALSE]}
  /\ UNCHANGED <<pc, answer, registry, cancel, cached, overtaken, outcome, announced,
                 transcript, copy, queue, last, prompted>>

SaveNote(m) ==
  /\ ~m.saved
  /\ Store(m.session, m.base, m.note)
  /\ noting' = (noting \ {m}) \cup {[m EXCEPT !.saved = TRUE]}
  /\ UNCHANGED <<pc, answer, registry, cancel, cached, overtaken, outcome, announced,
                 copy, queue, last, prompted>>

\* The queue with one more event: the oldest go first.
Pushed(q, e) ==
  IF Len(q) < MaxQueue THEN Append(q, e) ELSE SubSeq(Append(q, e), 2, MaxQueue + 1)

\* OpenclawSystemEvents::enqueue skips a line equal to the last one.
Enqueue(x, e) ==
  /\ last[x] # e
  /\ queue' = [queue EXCEPT ![x] = Pushed(@, e)] /\ last' = [last EXCEPT ![x] = e]
  /\ UNCHANGED <<pc, answer, registry, cancel, cached, overtaken, outcome, announced,
                 transcript, copy, noting, prompted>>

Send(s) == Look(s) \/ LookForRun(s) \/ Register(s)
Task(s) == \/ Begin(s) \/ Load(s) \/ Peek(s) \/ Cancelled(s) \/ Announce(s) \/ Cache(s)
           \/ Reload(s) \/ Save(s, "restore", "unregister") \/ Unregister(s)
           \/ Drain(s) \/ Save(s, "save", "done")
Next == \/ \E s \in Sends : Send(s) \/ Task(s) \/ Provider(s)
        \/ \E x \in Sessions : \/ Abort(x, RunIds)
                               \/ \E r \in RunIds : Abort(x, {r})
                               \/ \E n \in Notes : Inject(x, n)
                               \/ \E e \in SysEvents : Enqueue(x, e)
        \/ \E m \in noting : SaveNote(m)

Spec == Init /\ [][Next]_vars

\* Tasks run on; nothing is assumed of the provider.
FairSpec == Spec /\ \A s \in Sends : WF_vars(Task(s))

-----------------------------------------------------------------------------
(* Properties.                                                             *)

Stages == {"new", "missed", "idle", "queued", "load", "peek", "ask", "stream", "announce",
           "cache", "reload", "restore", "unregister", "drain", "save", "done"}
Outcomes == {"ok", "error", "aborted"}

\* The stages in which a task holds its run id.
Live == {"queued", "load", "peek", "ask", "stream", "announce", "cache",
         "reload", "restore", "unregister"}

RunsTyped ==
  /\ pc \in [Sends -> Stages]
  /\ answer \in [Sends -> Outcomes \cup {"none", "in_flight", "started"}]
  /\ registry \in [RunIds -> Sends \cup {NoSend}] /\ cancel \subseteq Sends
  /\ cached \in [RunIds -> Outcomes \cup {"none"}] /\ overtaken \subseteq Sends
  /\ outcome \in [Sends -> Outcomes \cup {"none"}] /\ announced \subseteq Sends
TranscriptsTyped ==
  /\ transcript \in [Sessions -> SUBSET Messages] /\ copy \in [Sends -> SUBSET Messages]
  /\ noting \subseteq [note : Notes, session : Sessions, base : SUBSET Messages, saved : BOOLEAN]
EventsTyped ==
  /\ queue \in [Sessions -> Seq(SysEvents)] /\ last \in [Sessions -> SysEvents \cup {NoEvent}]
  /\ \A x \in Sessions : Len(queue[x]) <= MaxQueue
  /\ prompted \in [Sends -> SUBSET SysEvents]
TypeOK == RunsTyped /\ TranscriptsTyped /\ EventsTyped

\* A run id is served by one task at a time, which can be aborted as long as it
\* works, and an entry never outlives its task.
OneRunPerId ==
  /\ \A s \in Sends : pc[s] \in Live => registry[RunOf[s]] = s
  /\ \A r \in RunIds : registry[r] # NoSend => pc[registry[r]] \in Live /\ RunOf[registry[r]] = r

\* A request is run again under the same id only if it was overtaken: it missed the
\* run in the cache, the run was cached and unregistered, and it missed it in the
\* registry.  However runs end and requests interleave, nothing else starts an id twice.
RerunMeansOvertaken ==
  \A s, t \in Sends :
    s # t /\ RunOf[s] = RunOf[t] /\ answer[s] = "started" /\ answer[t] = "started" =>
      s \in overtaken \/ t \in overtaken

\* A retry is told how the run ended only after every client was, and told the
\* same.
AnswersMatchEvents ==
  \A s \in Sends : answer[s] \in Outcomes =>
    \E t \in announced : RunOf[t] = RunOf[s] /\ outcome[t] = answer[s]

\* A turn is in the transcript of its session only if its run succeeded and was
\* announced: no failed or aborted run leaves anything there.
Finished(turns, x) ==
  \A t \in turns \cap Sends : t \in announced /\ outcome[t] = "ok" /\ SessionOf[t] = x
TranscriptOnlyFinished == \A x \in Sessions : Finished(transcript[x], x)

\* "Clear system events only after we successfully produced a final response":
\* only the queue of a run that succeeded, whose prompt had events, gets shorter.
EventsClearedOnlyBySuccess ==
  [][\A x \in Sessions : Len(queue'[x]) < Len(queue[x]) =>
       \E s \in announced : /\ SessionOf[s] = x /\ outcome[s] = "ok"
                            /\ prompted[s] # {} /\ pc[s] # pc'[s]]_vars

\* An abort ends a run that waits for its task or for the provider's stream,
\* even if the provider never says anything again.
AbortedRunsEnd ==
  \A s \in Sends : s \in cancel /\ pc[s] \in {"queued", "stream"} ~> pc[s] = "done"

\* "human-readable lines that should be prefixed to the next prompt": no event is
\* cleared that no prompt carried.
ClearedEventsWerePrompted ==
  [][\A x \in Sessions : queue'[x] = <<>> =>
       \A e \in Range(queue[x]) : \E s \in Sends : SessionOf[s] = x /\ e \in prompted[s]]_vars

-----------------------------------------------------------------------------
(* The inductive invariant of the safety properties.                       *)

\* What a task has done by each stage.
Lifecycle ==
  \A s \in Sends :
    /\ s \in announced => pc[s] \in {"cache", "reload", "restore", "unregister",
                                     "drain", "save", "done"}
    /\ pc[s] = "announce" => outcome[s] \in Outcomes
    /\ pc[s] \in {"cache", "reload", "restore", "unregister", "drain", "save"} =>
         s \in announced /\ outcome[s] \in Outcomes
    /\ pc[s] \in {"reload", "restore", "unregister", "drain", "save"} =>
         cached[RunOf[s]] # "none"
    /\ pc[s] \in {"reload", "restore", "drain", "save"} => outcome[s] = "ok"

\* From the moment a run is started it is in the registry or in the cache.
RetryFindsRun ==
  \A s \in Sends : answer[s] = "started" =>
    registry[RunOf[s]] = s \/ cached[RunOf[s]] # "none"

\* What a request missed in the cache is not there, unless it was overtaken.
MissHolds ==
  \A s \in Sends : pc[s] \in {"missed", "idle"} /\ s \notin overtaken => cached[RunOf[s]] = "none"

\* What the cache says was broadcast.
CacheMatchesEvents ==
  \A r \in RunIds : cached[r] # "none" =>
    \E t \in announced : RunOf[t] = r /\ outcome[t] = cached[r]

\* What was loaded to be stored again is fit for its session.
CopiesFinished ==
  /\ \A s \in Sends : Finished(copy[s], SessionOf[s])
  /\ \A m \in noting : Finished(m.base, m.session)

IInv == /\ TypeOK /\ Lifecycle /\ OneRunPerId /\ RetryFindsRun /\ MissHolds
        /\ RerunMeansOvertaken
        /\ CacheMatchesEvents /\ AnswersMatchEvents
        /\ TranscriptOnlyFinished /\ CopiesFinished

=============================================================================
