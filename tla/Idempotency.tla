---------------------------- MODULE Idempotency ----------------------------
(***************************************************************************)
(* openclaw_idempotent_run and the two stores it uses: the dedupe cache of *)
(* finished results and the table of in-flight executions that concurrent  *)
(* duplicates of a request wait on.  Every lock section of the code is one *)
(* action; the code between two lock sections is where handlers of other   *)
(* requests interleave.                                                    *)
(*                                                                         *)
(* An in-flight entry (an Arc in the code) is created by exactly one       *)
(* request, its leader, so an entry is named by its leader; the result of  *)
(* an execution is named the same way.  Keys are the trimmed non-empty     *)
(* ones: an empty key bypasses both stores.                                *)
(***************************************************************************)
EXTENDS Integers, FiniteSets

CONSTANTS Requests,   \* handler tasks, one per request frame
          Keys,       \* idempotency keys
          KeyOf,      \* the key each request carries
          NoRequest,
          NoEntry,
          TTL,        \* OPENCLAW_IDEMPOTENCY_TTL_MS
          MaxKeys,    \* OPENCLAW_IDEMPOTENCY_MAX_KEYS
          MaxTime     \* bound on the clock

ASSUME IdempotencyAssumption ==
  /\ KeyOf \in [Requests -> Keys]
  /\ IsFiniteSet(Keys)
  /\ NoRequest \notin Requests
  /\ TTL \in Nat \ {0}
  /\ MaxKeys \in Nat \ {0}
  /\ MaxTime \in Nat
  /\ NoEntry \notin [ts : 0..MaxTime, by : Requests]

VARIABLES
  now,        \* now_ms()
  dedupe,     \* OPENCLAW_DEDUPE
  inflight,   \* OPENCLAW_INFLIGHT: the leader of the entry stored for a key
  published,  \* the entries whose result cell is Some
  pc,         \* where each handler is
  clock,      \* the handler's last reading of now_ms(), taken before it waits
              \* for the cache's lock; in the end the stamp of its cached result
  leader,     \* the entry a follower waits on
  answer,     \* the execution whose result the handler was given
  lookedAt,   \* history: when the handler consulted the dedupe cache
  savedAt     \* history: when the handler cached its own result, or -1

vars == <<now, dedupe, inflight, published, pc, clock, leader, answer, lookedAt, savedAt>>

Entry == [ts : 0..MaxTime, by : Requests]

Leading   == {"run", "put", "publish", "notify", "clear"}
Following == {"check", "subscribe", "parked", "stranded"}

TypeOK ==
  /\ now \in 0..MaxTime
  /\ dedupe \in [Keys -> Entry \cup {NoEntry}]
  /\ inflight \in [Keys -> Requests \cup {NoRequest}]
  /\ published \in SUBSET Requests
  /\ pc \in [Requests -> {"start", "look", "miss", "done", "dead"} \cup Leading \cup Following]
  /\ clock \in [Requests -> 0..MaxTime]
  /\ leader \in [Requests -> Requests \cup {NoRequest}]
  /\ answer \in [Requests -> Requests \cup {NoRequest}]
  /\ lookedAt \in [Requests -> 0..MaxTime]
  /\ savedAt \in [Requests -> -1..MaxTime]

Init ==
  /\ now = 0
  /\ dedupe = [k \in Keys |-> NoEntry]
  /\ inflight = [k \in Keys |-> NoRequest]
  /\ published = {}
  /\ pc = [r \in Requests |-> "start"]
  /\ clock = [r \in Requests |-> 0]
  /\ leader = [r \in Requests |-> NoRequest]
  /\ answer = [r \in Requests |-> NoRequest]
  /\ lookedAt = [r \in Requests |-> 0]
  /\ savedAt = [r \in Requests |-> -1]

Goto(r, label) == pc' = [pc EXCEPT ![r] = label]
AnswerWith(r, e) == answer' = [answer EXCEPT ![r] = e] /\ Goto(r, "done")

-----------------------------------------------------------------------------
(* The dedupe cache.                                                       *)

\* Judged by the clock t of the handler that looks, which may be behind the
\* entry's own stamp.
Fresh(e, t) == e # NoEntry /\ t - e.ts < TTL

\* openclaw_dedupe_get reads the clock, then waits for the lock ...
ReadClock(r) ==
  /\ pc[r] = "start"
  /\ clock' = [clock EXCEPT ![r] = now]
  /\ Goto(r, "look")
  /\ UNCHANGED <<now, dedupe, inflight, published, leader, answer, lookedAt, savedAt>>

\* ... and under it a fresh entry is the answer, a stale one is removed.
Lookup(r) ==
  /\ pc[r] = "look"
  /\ lookedAt' = [lookedAt EXCEPT ![r] = now]
  /\ \/ /\ Fresh(dedupe[KeyOf[r]], clock[r])
        /\ AnswerWith(r, dedupe[KeyOf[r]].by)
        /\ UNCHANGED dedupe
     \/ /\ ~Fresh(dedupe[KeyOf[r]], clock[r])
        /\ dedupe' = [dedupe EXCEPT ![KeyOf[r]] = NoEntry]
        /\ Goto(r, "miss")
        /\ UNCHANGED answer
  /\ UNCHANGED <<now, inflight, published, clock, leader, savedAt>>

Present(d) == {k \in Keys : d[k] # NoEntry}
Live(d, t) == {k \in Present(d) : d[k].ts >= t - TTL}

\* Mutant: trimming drops arbitrary live keys.
TrimmedInAnyOrder(d, t) ==
  IF Cardinality(Present(d)) <= MaxKeys THEN {Present(d)}
  ELSE {K \in SUBSET Live(d, t) : Cardinality(K) = MaxKeys}

\* The key sets an insertion at t may leave behind.  Keys with equal timestamps
\* are dropped in the arbitrary order of the hash map.
Survivors(d, t) ==
  IF Cardinality(Present(d)) <= MaxKeys THEN {Present(d)}
  ELSE IF Cardinality(Live(d, t)) <= MaxKeys THEN {Live(d, t)}
  ELSE {K \in SUBSET Live(d, t) :
          /\ Cardinality(K) = MaxKeys
          /\ \A k \in K, x \in Live(d, t) \ K : d[x].ts <= d[k].ts}

\* openclaw_dedupe_put, once it has the lock: insert with the stamp taken
\* before it waited, then trim to MaxKeys.  A result whose handler waited long
\* enough may be trimmed at once.
Put(r) ==
  /\ pc[r] = "put"
  /\ LET filled == [dedupe EXCEPT ![KeyOf[r]] = [ts |-> clock[r], by |-> r]]
     IN \E keep \in Survivors(filled, clock[r]) :
          dedupe' = [k \in Keys |-> IF k \in keep THEN filled[k] ELSE NoEntry]
  /\ savedAt' = [savedAt EXCEPT ![r] = now]
  /\ Goto(r, "publish")
  /\ UNCHANGED <<now, inflight, published, clock, leader, answer, lookedAt>>

-----------------------------------------------------------------------------
(* The in-flight table.                                                    *)

\* Mutant: the entry is inserted without looking for one, so every miss leads.
AlwaysLead(r) ==
  /\ pc[r] = "miss"
  /\ inflight' = [inflight EXCEPT ![KeyOf[r]] = r]
  /\ Goto(r, "run")
  /\ UNCHANGED <<now, dedupe, published, clock, leader, answer, lookedAt, savedAt>>

\* openclaw_inflight_get_or_insert.
Claim(r) ==
  /\ pc[r] = "miss"
  /\ \/ /\ inflight[KeyOf[r]] = NoRequest
        /\ inflight' = [inflight EXCEPT ![KeyOf[r]] = r]
        /\ Goto(r, "run")
        /\ UNCHANGED leader
     \/ /\ inflight[KeyOf[r]] # NoRequest
        /\ leader' = [leader EXCEPT ![r] = inflight[KeyOf[r]]]
        /\ Goto(r, "check")
        /\ UNCHANGED inflight
  /\ UNCHANGED <<now, dedupe, published, clock, answer, lookedAt, savedAt>>

\* Mutant: the result is published without being cached first.
PublishUncached(r) ==
  /\ pc[r] = "run"
  /\ Goto(r, "publish")
  /\ UNCHANGED <<now, dedupe, inflight, published, clock, leader, answer, lookedAt, savedAt>>

\* op().await returned; openclaw_dedupe_put reads the clock and waits.
OpReturns(r) ==
  /\ pc[r] = "run"
  /\ clock' = [clock EXCEPT ![r] = now]
  /\ Goto(r, "put")
  /\ UNCHANGED <<now, dedupe, inflight, published, leader, answer, lookedAt, savedAt>>

\* The operation panicked: its task is gone, and nothing removes the entry.
OpPanics(r) ==
  /\ pc[r] = "run"
  /\ Goto(r, "dead")
  /\ UNCHANGED <<now, dedupe, inflight, published, clock, leader, answer, lookedAt, savedAt>>

\* Mutant: the waiters are not notified.
PublishSilently(r) ==
  /\ pc[r] = "publish"
  /\ published' = published \cup {r}
  /\ Goto(r, "clear")
  /\ UNCHANGED <<now, dedupe, inflight, clock, leader, answer, lookedAt, savedAt>>

\* openclaw_inflight_finish, first lock section: the result cell is filled.
Publish(r) ==
  /\ pc[r] = "publish"
  /\ published' = published \cup {r}
  /\ Goto(r, "notify")
  /\ UNCHANGED <<now, dedupe, inflight, clock, leader, answer, lookedAt, savedAt>>

\* notify_waiters: wakes the followers subscribed now, stores no permit.
NotifyWaiters(r) ==
  /\ pc[r] = "notify"
  /\ pc' = [f \in Requests |->
              IF f = r THEN "clear"
              ELSE IF pc[f] = "parked" /\ leader[f] = r THEN "check" ELSE pc[f]]
  /\ UNCHANGED <<now, dedupe, inflight, published, clock, leader, answer, lookedAt, savedAt>>

\* openclaw_inflight_finish, second lock section; the leader returns.
Clear(r) ==
  /\ pc[r] = "clear"
  /\ inflight' = IF inflight[KeyOf[r]] = r
                 THEN [inflight EXCEPT ![KeyOf[r]] = NoRequest] ELSE inflight
  /\ AnswerWith(r, r)
  /\ UNCHANGED <<now, dedupe, published, clock, leader, lookedAt, savedAt>>

\* openclaw_inflight_wait: read the result cell ...
Check(r) ==
  /\ pc[r] = "check"
  /\ \/ leader[r] \in published /\ AnswerWith(r, leader[r])
     \/ leader[r] \notin published /\ Goto(r, "subscribe") /\ UNCHANGED answer
  /\ UNCHANGED <<now, dedupe, inflight, published, clock, leader, lookedAt, savedAt>>

\* ... and, the cell's lock released, start to wait for the next notification.
\* A follower that starts after its leader has notified is stranded: the entry
\* is notified once, and there is no timeout.
Subscribe(r) ==
  /\ pc[r] = "subscribe"
  /\ Goto(r, IF pc[leader[r]] \in {"clear", "done"} THEN "stranded" ELSE "parked")
  /\ UNCHANGED <<now, dedupe, inflight, published, clock, leader, answer, lookedAt, savedAt>>

Tick ==
  /\ now < MaxTime
  /\ now' = now + 1
  /\ UNCHANGED <<dedupe, inflight, published, pc, clock, leader, answer, lookedAt, savedAt>>

Step(r) == \/ ReadClock(r) \/ Lookup(r) \/ Claim(r) \/ OpReturns(r) \/ OpPanics(r) \/ Put(r)
           \/ Publish(r) \/ NotifyWaiters(r) \/ Clear(r) \/ Check(r) \/ Subscribe(r)

Next == Tick \/ \E r \in Requests : Step(r)

Spec == Init /\ [][Next]_vars

\* A spawned handler keeps being polled; the operation itself returns or panics.
FairSpec == Spec /\ \A r \in Requests : WF_vars(Step(r))

-----------------------------------------------------------------------------
(* Properties.                                                             *)

\* Two duplicates of a request never execute (or publish) the operation at
\* the same time: from Claim until Clear the leader owns the key's entry.
OneLeaderPerKey ==
  \A r, q \in Requests :
    /\ r # q /\ KeyOf[r] = KeyOf[q]
    /\ pc[r] \in Leading
    => pc[q] \notin Leading

\* Whatever store an answer came from, it is the result of an execution of
\* the request's own key that has been cached before it was handed out.
AnswersFromOwnKey ==
  \A r \in Requests :
    answer[r] # NoRequest => /\ KeyOf[answer[r]] = KeyOf[r]
                             /\ savedAt[answer[r]] # -1

\* Newer results of MaxKeys other keys push a result of k stamped t out of the
\* cache; fewer, or older ones, do not.
Crowded(k, t) ==
  \E K \in SUBSET (Keys \ {k}) :
    /\ Cardinality(K) = MaxKeys
    /\ \A x \in K : \E p \in Requests :
         KeyOf[p] = x /\ savedAt[p] # -1 /\ clock[p] >= t

\* The window of repetition.  A request executes the operation again although
\* another execution of the key was cached before it looked only when that
\* result's stamp was already older than the TTL, or MaxKeys other keys had
\* results with stamps as new: trimming never costs a key its result for the
\* sake of an older one, however long handlers wait for the cache's lock.
NoRerunWhileCached ==
  \A r, q \in Requests :
    /\ r # q /\ KeyOf[r] = KeyOf[q]
    /\ pc[r] \in Leading
    /\ savedAt[q] # -1 /\ savedAt[q] < lookedAt[r]
    => \/ lookedAt[r] - clock[q] >= TTL
       \/ Crowded(KeyOf[q], clock[q])

\* Trimming keeps the cache within its limit.
CacheBounded == Cardinality(Present(dedupe)) <= MaxKeys

\* Every request is answered, except the followers that subscribed after the
\* only notification and those whose leader's operation panicked.
Orphaned(r) == pc[r] = "parked" /\ pc[leader[r]] = "dead"
EveryRequestAnswered ==
  \A r \in Requests :
    pc[r] = "start" ~> pc[r] \in {"done", "dead", "stranded"} \/ Orphaned(r)

-----------------------------------------------------------------------------
(* The inductive invariant behind the safety properties.                   *)

\* The in-flight table and the leaders' program counters agree.
Ownership ==
  /\ \A r \in Requests : pc[r] \in Leading \cup {"dead"} => inflight[KeyOf[r]] = r
  /\ \A k \in Keys : inflight[k] # NoRequest =>
       KeyOf[inflight[k]] = k /\ pc[inflight[k]] \in Leading \cup {"dead"}

\* Nothing reaches a follower, the cache or a caller before it was saved.
Provenance ==
  /\ \A r \in Requests :
       /\ pc[r] \in Following => /\ leader[r] \in Requests
                                /\ KeyOf[leader[r]] = KeyOf[r]
       /\ pc[r] \in {"publish", "notify", "clear"} \/ r \in published => savedAt[r] # -1
       /\ savedAt[r] # -1 => pc[r] \in {"publish", "notify", "clear", "done"}
       /\ answer[r] # NoRequest => pc[r] = "done"
  /\ \A k \in Keys : dedupe[k] # NoEntry =>
       /\ KeyOf[dedupe[k].by] = k
       /\ savedAt[dedupe[k].by] # -1
       /\ dedupe[k].ts = clock[dedupe[k].by]
  /\ AnswersFromOwnKey

\* A leader reads the clock for its result after every earlier leader of the
\* key has cached its own.
StampsOrdered ==
  \A r, q \in Requests :
    KeyOf[r] = KeyOf[q] /\ pc[r] = "put" /\ savedAt[q] # -1 => clock[q] <= clock[r]

\* While a saved result is younger than the TTL the cache holds it or a later
\* one, unless newer results of other keys crowded it out.
CacheCovers ==
  \A q \in Requests : savedAt[q] # -1 =>
    \/ /\ dedupe[KeyOf[q]] # NoEntry
       /\ clock[q] <= dedupe[KeyOf[q]].ts
    \/ now - clock[q] >= TTL
    \/ Crowded(KeyOf[q], clock[q])

\* NoRerunWhileCached, from the cache miss on.
MissedOnlyExpired ==
  \A r, q \in Requests :
    /\ r # q /\ KeyOf[r] = KeyOf[q]
    /\ pc[r] \in Leading \cup {"miss"}
    /\ savedAt[q] # -1 /\ savedAt[q] < lookedAt[r]
    => \/ lookedAt[r] - clock[q] >= TTL
       \/ Crowded(KeyOf[q], clock[q])

TimesInPast ==
  \A r \in Requests : lookedAt[r] <= now /\ savedAt[r] <= now /\ clock[r] <= now

IInv == /\ TypeOK /\ Ownership /\ Provenance
        /\ TimesInPast /\ StampsOrdered /\ CacheCovers /\ MissedOnlyExpired /\ CacheBounded

-----------------------------------------------------------------------------
\* The mechanism implements the promise of IdempotentOp.  Between Put and
\* Clear the entry is still in the table but its execution is complete.
Executing == [k \in Keys |->
                IF inflight[k] # NoRequest /\ pc[inflight[k]] \in {"run", "put", "dead"}
                THEN inflight[k] ELSE NoRequest]
Executed == [k \in Keys |-> {r \in Requests : KeyOf[r] = k /\ savedAt[r] # -1}]

Abstract == INSTANCE IdempotentOp WITH running <- Executing, completed <- Executed
Refinement == Abstract!Spec
=============================================================================
