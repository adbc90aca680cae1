------------------------- MODULE CronServiceProofs -------------------------
(***************************************************************************)
(* The timer's promises about a job's runs: a one-shot job runs once, a    *)
(* slot runs once, a failing job backs off.  Proved for any jobs, patches, *)
(* schedules and backoffs, with failing writes, restarts and dropped       *)
(* requests at any step and a clock without bound.                         *)
(***************************************************************************)
EXTENDS CronService, WellFoundedInduction, TLAPS

-----------------------------------------------------------------------------
(* Arithmetic of the schedules.                                            *)

\* Max and Min of what the schedules take them of.
LEMMA MaxOfTwo ==
  ASSUME NEW a \in Int, NEW b \in Int
  PROVE  Max({a, b}) = IF a >= b THEN a ELSE b
<1> DEFINE m == IF a >= b THEN a ELSE b
<1>1. m \in {a, b} /\ \A y \in {a, b} : m >= y
  OBVIOUS
<1>2. \A x \in {a, b} : (\A y \in {a, b} : x >= y) => x = m
  OBVIOUS
<1> QED
  BY <1>1, <1>2 DEF Max

LEMMA MinOfTwo ==
  ASSUME NEW a \in Int, NEW b \in Int
  PROVE  Min({a, b}) = IF a <= b THEN a ELSE b
<1> DEFINE m == IF a <= b THEN a ELSE b
<1>1. m \in {a, b} /\ \A y \in {a, b} : m =< y
  OBVIOUS
<1>2. \A x \in {a, b} : (\A y \in {a, b} : x =< y) => x = m
  OBVIOUS
<1> QED
  BY <1>1, <1>2 DEF Min

LEMMA MinOfNats ==
  ASSUME NEW S \in SUBSET Nat, S # {}
  PROVE  Min(S) \in S /\ \A y \in S : Min(S) <= y
<1> DEFINE R == {p \in Nat \X Nat : p[1] < p[2]}
<1>1. IsWellFoundedOn(R, Nat)
  BY NatLessThanWellFounded DEF OpToRel
<1>2. \A x \in Nat, y \in Nat : y < x => <<y, x>> \in R
  OBVIOUS
<1> HIDE DEF R
<1>3. PICK x \in S : \A y \in S : ~(<<y, x>> \in R)
  BY <1>1, WFMin
<1>4. \A y \in S : ~(y < x)
  BY <1>2, <1>3
<1>5. \A y \in S : x =< y
  BY <1>4
<1> QED
  BY <1>5 DEF Min

\* A slot is not before the time it is computed for.
LEMMA SlotNotBefore ==
  ASSUME NEW s \in [kind : {"every"}, period : Nat \ {0}, anchor : Nat], NEW t \in Nat
  PROVE  EverySlot(s, t) \in Nat /\ EverySlot(s, t) >= t
<1> DEFINE p == s.period
           e == t - s.anchor
           q == (e + p - 1) \div p
<1>1. p \in Nat \ {0} /\ s.anchor \in Nat
  OBVIOUS
<1>2. CASE t < s.anchor
  BY <1>1, <1>2 DEF EverySlot
<1>3. CASE ~(t < s.anchor)
  <2>1. e \in Nat /\ e + p - 1 \in Nat
    BY <1>1, <1>3
  <2>2. q \in Nat /\ q * p >= e
    <3> HIDE DEF e, p
    <3> QED
      BY <1>1, <2>1
  <2>3. Max({1, q}) = IF 1 >= q THEN 1 ELSE q
    BY <2>2, MaxOfTwo
  <2>4. Max({1, q}) \in Nat /\ Max({1, q}) * p \in Nat /\ Max({1, q}) * p >= e
    <3>1. CASE q = 0
      BY <1>1, <2>2, <2>3, <3>1
    <3>2. CASE q # 0
      BY <1>1, <2>2, <2>3, <3>2
    <3> QED
      BY <3>1, <3>2
  <2>5. EverySlot(s, t) = s.anchor + Max({1, q}) * p
    BY <1>3 DEF EverySlot
  <2> QED
    BY <1>1, <2>4, <2>5
<1> QED
  BY <1>2, <1>3

\* An every job does not drift: its next slot lies on the grid of its anchor and
\* period, and it is the first one there that is not before the time asked for;
\* only the anchor itself is passed over once it is reached.
THEOREM EverySlotIsFirst ==
  ASSUME NEW s \in [kind : {"every"}, period : Nat \ {0}, anchor : Nat], NEW t \in Nat
  PROVE  /\ \E k \in Nat : EverySlot(s, t) = s.anchor + k * s.period
         /\ EverySlot(s, t) >= t
         /\ \A k \in Nat : s.anchor + k * s.period >= t /\ ~(k = 0 /\ t = s.anchor)
                           => EverySlot(s, t) <= s.anchor + k * s.period
<1> DEFINE p == s.period
           a == s.anchor
           e == t - a
           q == (e + p - 1) \div p
           n == IF 1 >= q THEN 1 ELSE q
<1>1. p \in Nat \ {0} /\ a \in Nat
  OBVIOUS
<1>2. EverySlot(s, t) \in Nat /\ EverySlot(s, t) >= t
  BY SlotNotBefore
<1>3. CASE t < a
  <2>1. EverySlot(s, t) = a
    BY <1>3 DEF EverySlot
  <2>2. a = a + 0 * p /\ \A k \in Nat : a <= a + k * p
    <3> HIDE DEF a, p
    <3>1. \A k \in Nat : k * p \in Nat
      BY <1>1
    <3> QED
      BY <1>1, <3>1
  <2> QED
    BY <1>2, <2>1, <2>2
<1>4. CASE ~(t < a)
  <2>1. e \in Nat /\ e + p - 1 \in Nat
    BY <1>1, <1>4
  <2>2. q \in Nat /\ q * p < e + p
    <3> HIDE DEF e, p
    <3> QED
      BY <1>1, <2>1
  <2>3. EverySlot(s, t) = a + n * p
    <3>1. Max({1, q}) = n
      BY <2>2, MaxOfTwo
    <3> QED
      BY <1>4, <3>1 DEF EverySlot
  <2>4. ASSUME NEW k \in Nat, a + k * p >= t, ~(k = 0 /\ t = a) PROVE a + n * p <= a + k * p
    <3>1. k * p \in Nat /\ k * p >= e
      <4>1. k * p \in Nat
        BY <1>1
      <4> QED
        BY <1>1, <2>4, <4>1
    <3>2. k # 0
      <4>1. CASE k = 0
        <5>1. k * p = 0
          BY <1>1, <4>1
        <5> QED
          BY <1>1, <1>4, <2>4, <4>1, <5>1
      <4> QED
        BY <4>1
    <3>3. q <= k
      <4> HIDE DEF q, e, p
      <4>1. q * p < (k + 1) * p
        BY <1>1, <2>1, <2>2, <3>1
      <4> QED
        BY <1>1, <2>2, <4>1
    <3>4. n \in Nat /\ n <= k
      BY <2>2, <3>2, <3>3
    <3>5. n * p <= k * p /\ n * p \in Nat
      <4> HIDE DEF n, p
      <4> QED
        BY <1>1, <3>4
    <3> QED
      BY <1>1, <3>1, <3>5
  <2>5. n \in Nat
    BY <2>2
  <2> HIDE DEF n
  <2> QED
    BY <1>2, <2>3, <2>4, <2>5
<1> QED
  BY <1>3, <1>4

-----------------------------------------------------------------------------
(* What the functions on jobs return.                                      *)

LEMMA NextRunIsTime ==
  ASSUME NEW job \in Job, NEW t \in Nat
  PROVE  NextRun(job, t) \in Times
<1> DEFINE s == job.schedule
           matches == {m \in s.minutes : m > t}
<1>1. s \in Schedule
  BY DEF Job
<1>2. CASE s \in [kind : {"at"}, at : Nat]
  <2>1. s.kind = "at" /\ s.at \in Nat
    BY <1>2
  <2> QED
    BY <2>1 DEF NextRun, Times
<1>3. CASE s \in [kind : {"every"}, period : Nat \ {0}, anchor : Nat]
  <2>1. s.kind = "every" /\ EverySlot(s, t) \in Nat
    BY <1>3, SlotNotBefore
  <2> QED
    BY <2>1 DEF NextRun, Times
<1>4. CASE s \in [kind : {"cron"}, minutes : SUBSET Nat]
  <2>1. s.kind = "cron" /\ matches \in SUBSET Nat
    BY <1>4
  <2>2. matches # {} => Min(matches) \in Nat
    BY <2>1, MinOfNats
  <2> QED
    BY <2>1, <2>2 DEF NextRun, Times
<1> QED
  BY <1>1, <1>2, <1>3, <1>4 DEF Schedule, ScheduleFrom

\* A recurring job's next run is not before the time it is computed for, and
\* later than it for a cron expression.
LEMMA NextRunAhead ==
  ASSUME NEW job \in Job, NEW t \in Nat, ~OneShot(job)
  PROVE  /\ NextRun(job, t) # NoTime => NextRun(job, t) >= t
         /\ job.enabled /\ job.schedule.kind = "every" => NextRun(job, t) # NoTime
         /\ NextRun(job, t) # NoTime /\ job.schedule.kind # "every" => NextRun(job, t) > t
<1> DEFINE s == job.schedule
           matches == {m \in s.minutes : m > t}
<1>1. s \in Schedule /\ s.kind # "at"
  BY DEF Job, OneShot
<1>2. CASE s \in [kind : {"every"}, period : Nat \ {0}, anchor : Nat]
  <2>1. s.kind = "every" /\ EverySlot(s, t) \in Nat /\ EverySlot(s, t) >= t
    BY <1>2, SlotNotBefore
  <2> QED
    BY <2>1 DEF NextRun, NoTime
<1>3. CASE s \in [kind : {"cron"}, minutes : SUBSET Nat]
  <2>1. s.kind = "cron" /\ matches \in SUBSET Nat
    BY <1>3
  <2>2. matches # {} => Min(matches) \in matches
    BY <2>1, MinOfNats
  <2>3. matches # {} => Min(matches) \in Nat /\ Min(matches) > t
    BY <2>1, <2>2
  <2> QED
    BY <2>1, <2>3 DEF NextRun, NoTime
<1> QED
  BY <1>1, <1>2, <1>3 DEF Schedule, ScheduleFrom

LEMMA ErrorBackoffIsNat ==
  ASSUME NEW n \in Nat
  PROVE  ErrorBackoff(n) \in Nat
<1>1. CASE n = 0
  BY <1>1 DEF ErrorBackoff
<1>2. CASE n # 0
  <2>1. Len(Backoff) \in Nat /\ Len(Backoff) > 0 /\ Backoff \in Seq(Nat)
    BY CronAssumption
  <2>2. Min({n, Len(Backoff)}) \in 1..Len(Backoff)
    BY <1>2, <2>1, MinOfTwo
  <2>3. Backoff[Min({n, Len(Backoff)})] \in Nat
    BY <2>1, <2>2
  <2> QED
    BY <1>2, <2>3 DEF ErrorBackoff
<1> QED
  BY <1>1, <1>2

LEMMA RecomputeTyped ==
  ASSUME NEW job \in Job \cup {NoJob}, NEW t \in Nat
  PROVE  Recompute(job, t) \in Job \cup {NoJob}
<1>1. CASE job = NoJob
  BY <1>1 DEF Recompute
<1>2. CASE job # NoJob
  <2>1. job \in Job /\ NextRun(job, t) \in Times
    BY <1>2, NextRunIsTime
  <2> QED
    BY <1>2, <2>1 DEF Recompute, Job, Times
<1> QED
  BY <1>1, <1>2

LEMMA OutcomeTyped ==
  ASSUME NEW job \in Job, NEW status \in {"ok", "skipped", "error"}
  PROVE  WithOutcome(job, status) \in Job
<1>1. job.errors + 1 \in Nat /\ Len(Backoff) \in Nat
  BY CronAssumption DEF Job
<1>2. Min({job.errors + 1, Len(Backoff)}) \in Nat
  BY <1>1, MinOfTwo
<1> QED
  BY <1>2 DEF WithOutcome, Job, Times
LEMMA FinishedTyped ==
  ASSUME NEW job \in Job, NEW status \in {"ok", "skipped", "error"}, now \in Nat
  PROVE  Finished(job, status) \in Job \cup {NoJob}
<1> DEFINE done == WithOutcome(job, status)
<1>1. done \in Job
  BY OutcomeTyped
<1>2. NextRun(done, now) \in Times /\ ErrorBackoff(done.errors) \in Nat
  BY <1>1, NextRunIsTime, ErrorBackoffIsNat DEF Job
<1>3. Max({NextRun(done, now), now + ErrorBackoff(done.errors)}) \in Times
  BY <1>2, MaxOfTwo DEF Times, NoTime
<1> HIDE DEF done
<1>4. /\ [done EXCEPT !.enabled = FALSE, !.nextRun = NoTime] \in Job
      /\ \A t \in Times : [done EXCEPT !.nextRun = t] \in Job
  BY <1>1 DEF Job, Times
<1> QED
  BY <1>2, <1>3, <1>4 DEF Finished, done

LEMMA AnchoredTyped ==
  ASSUME NEW s \in ScheduleFrom(Times), NEW t \in Nat
  PROVE  Anchored(s, t) \in Schedule
<1>1. CASE s \in [kind : {"at"}, at : Nat]
  BY <1>1 DEF Anchored, Schedule, ScheduleFrom
<1>2. CASE s \in [kind : {"every"}, period : Nat \ {0}, anchor : Times]
  BY <1>2 DEF Anchored, Schedule, ScheduleFrom, Times
<1>3. CASE s \in [kind : {"cron"}, minutes : SUBSET Nat]
  BY <1>3 DEF Anchored, Schedule, ScheduleFrom
<1> QED
  BY <1>1, <1>2, <1>3 DEF ScheduleFrom

LEMMA NewJobTyped ==
  ASSUME NEW spec \in Specs, NEW t \in Nat
  PROVE  NewJob(spec, t) \in Job
<1> DEFINE job == [schedule |-> Anchored(spec.schedule, t), target |-> spec.target,
                   payload |-> spec.payload, enabled |-> spec.enabled,
                   deleteAfterRun |-> spec.deleteAfterRun, nextRun |-> NoTime,
                   runningAt |-> NoTime, lastStatus |-> "none", errors |-> 0]
<1>1. spec \in [schedule : ScheduleFrom(Times), target : {"main", "isolated"},
                payload : {"systemEvent", "agentTurn"}, enabled : BOOLEAN,
                deleteAfterRun : BOOLEAN]
  BY RequestAssumption
<1>2. Anchored(spec.schedule, t) \in Schedule
  BY <1>1, AnchoredTyped
<1>3. job \in Job
  BY <1>1, <1>2 DEF Job, Times
<1>4. NextRun(job, t) \in Times
  BY <1>3, NextRunIsTime
<1> HIDE DEF job
<1>5. [job EXCEPT !.nextRun = NextRun(job, t)] \in Job
  BY <1>3, <1>4 DEF Job
<1> QED
  BY <1>5 DEF NewJob, job

\* A patch that a request may carry, and the part of it that is applied before
\* its payload.
Sound(p) ==
  \A f \in DOMAIN p :
    \/ f = "schedule" /\ p[f] \in ScheduleFrom(Times)
    \/ f = "target" /\ p[f] \in {"main", "isolated"}
    \/ f = "payload" /\ p[f] \in {"systemEvent", "agentTurn"}
    \/ f \in {"enabled", "deleteAfterRun"} /\ p[f] \in BOOLEAN
    \/ f \in {"nextRun", "runningAt"} /\ p[f] \in Nat
    \/ f = "lastStatus" /\ p[f] \in {"ok", "error", "skipped"}
    \/ f = "errors" /\ p[f] \in Nat

LEMMA PatchesSound ==
  ASSUME NEW patch \in Patches
  PROVE  Sound(patch) /\ Sound(BeforePayload(patch))
<1>1. Sound(patch)
  BY RequestAssumption DEF Sound
<1>2. \A f \in DOMAIN BeforePayload(patch) :
        f \in DOMAIN patch /\ BeforePayload(patch)[f] = patch[f]
  BY DEF BeforePayload
<1> QED
  BY <1>1, <1>2 DEF Sound

LEMMA PatchedTyped ==
  ASSUME NEW job \in Job, NEW patch, Sound(patch), NEW t \in Nat
  PROVE  /\ Patched(job, patch, t) \in Job
         /\ job.lastStatus # "none" => Patched(job, patch, t).lastStatus # "none"
         /\ DOMAIN patch \cap {"schedule", "enabled", "nextRun"} = {}
            => /\ Patched(job, patch, t).schedule = job.schedule
               /\ Patched(job, patch, t).enabled = job.enabled
               /\ Patched(job, patch, t).nextRun = job.nextRun
<1> DEFINE new == Patched(job, patch, t)
<1>1. DOMAIN job = {"schedule", "target", "payload", "enabled", "deleteAfterRun",
                    "nextRun", "runningAt", "lastStatus", "errors"}
  BY DEF Job
<1>2. \A f \in DOMAIN job :
        new[f] = IF f \notin DOMAIN patch THEN job[f]
                 ELSE IF f = "schedule" THEN Anchored(patch.schedule, t) ELSE patch[f]
  BY DEF Patched
<1>3. Sound(patch)
  OBVIOUS
<1>4. new.schedule \in Schedule
  <2>1. job.schedule \in Schedule
    BY DEF Job
  <2>2. "schedule" \in DOMAIN patch => Anchored(patch.schedule, t) \in Schedule
    BY <1>3, AnchoredTyped DEF Sound
  <2> QED
    BY <1>1, <1>2, <2>1, <2>2
<1>5. /\ new.target \in {"main", "isolated"} /\ new.payload \in {"systemEvent", "agentTurn"}
      /\ new.errors \in Nat
  BY <1>1, <1>2, <1>3 DEF Job, Sound
<1>6. new.enabled \in BOOLEAN /\ new.deleteAfterRun \in BOOLEAN
  BY <1>1, <1>2, <1>3 DEF Job, Sound
<1>7. new.nextRun \in Times /\ new.runningAt \in Times
  BY <1>1, <1>2, <1>3 DEF Job, Sound, Times
<1>8. /\ new.lastStatus \in {"none", "ok", "error", "skipped"}
      /\ job.lastStatus # "none" => new.lastStatus # "none"
  BY <1>1, <1>2, <1>3 DEF Job, Sound
<1>9. new = [schedule |-> new.schedule, target |-> new.target, payload |-> new.payload,
             enabled |-> new.enabled, deleteAfterRun |-> new.deleteAfterRun,
             nextRun |-> new.nextRun, runningAt |-> new.runningAt,
             lastStatus |-> new.lastStatus, errors |-> new.errors]
  BY <1>1 DEF Patched
<1>10. DOMAIN patch \cap {"schedule", "enabled", "nextRun"} = {}
       => /\ new.schedule = job.schedule /\ new.enabled = job.enabled /\ new.nextRun = job.nextRun
  BY <1>1, <1>2
<1> HIDE DEF new
<1>11. new \in Job
  BY <1>4, <1>5, <1>6, <1>7, <1>8, <1>9 DEF Job
<1> QED
  BY <1>8, <1>10, <1>11 DEF new

LEMMA RescheduledTyped ==
  ASSUME NEW job \in Job, NEW patch, NEW t \in Nat
  PROVE  /\ Rescheduled(job, patch, t) \in Job
         /\ Rescheduled(job, patch, t).lastStatus = job.lastStatus
         /\ DOMAIN patch \cap {"schedule", "enabled"} = {} => Rescheduled(job, patch, t) = job
<1>1. NextRun(job, t) \in Times
  BY NextRunIsTime
<1> QED
  BY <1>1 DEF Rescheduled, Job, Times

\* An update leaves a job in memory that is patched and perhaps rescheduled.
Updated(j, p, new, t) ==
  /\ Sound(p) /\ mem[j] \in Job /\ mem' = [mem EXCEPT ![j] = new]
  /\ \/ new = Patched(mem[j], p, t) /\ Reject(j, new, p, t)
     \/ /\ new = Rescheduled(Patched(mem[j], p, t), p, t)
        /\ ran' = [ran EXCEPT ![j] = Retimed(@, new, p, {t})]
        /\ PersistAndNotify(mem')

LEMMA Updates ==
  ASSUME now \in Nat, mem \in [Jobs -> Job \cup {NoJob}],
         NEW j \in Jobs, NEW t \in Nat, NEW patch \in Patches, Update(j, patch, t)
  PROVE  \E p : \E new \in Job : Updated(j, p, new, t)
<1> DEFINE head == BeforePayload(patch)
           job == Patched(mem[j], patch, t)
           early == Patched(mem[j], head, t)
           kept == Rescheduled(job, patch, t)
<1>1. mem[j] \in Job /\ Sound(patch) /\ Sound(head)
  BY PatchesSound DEF Update
<1>2. early \in Job /\ job \in Job
  BY <1>1, PatchedTyped
<1>3. kept \in Job
  BY <1>2, RescheduledTyped
<1>4. \/ Reject(j, early, head, t)
      \/ Reject(j, job, patch, t)
      \/ /\ mem' = [mem EXCEPT ![j] = kept]
         /\ ran' = [ran EXCEPT ![j] = Retimed(@, mem'[j], patch, {t})]
         /\ PersistAndNotify(mem')
  BY DEF Update
<1>5. mem' = [mem EXCEPT ![j] = kept] => mem'[j] = kept
  OBVIOUS
<1> HIDE DEF head, job, early, kept
<1>6. CASE Reject(j, early, head, t)
  <2>1. Updated(j, head, early, t)
    BY <1>1, <1>6 DEF Updated, Reject, early
  <2> QED
    BY <1>2, <2>1
<1>7. CASE Reject(j, job, patch, t)
  <2>1. Updated(j, patch, job, t)
    BY <1>1, <1>7 DEF Updated, Reject, job
  <2> QED
    BY <1>2, <2>1
<1>8. CASE /\ mem' = [mem EXCEPT ![j] = kept]
           /\ ran' = [ran EXCEPT ![j] = Retimed(@, mem'[j], patch, {t})]
           /\ PersistAndNotify(mem')
  <2>1. Updated(j, patch, kept, t)
    BY <1>1, <1>5, <1>8 DEF Updated, kept, job
  <2> QED
    BY <1>3, <2>1
<1> QED
  BY <1>4, <1>6, <1>7, <1>8

-----------------------------------------------------------------------------
(* What the past of a job says of its next run.                            *)

Recurs(job) == job # NoJob /\ job.enabled /\ ~OneShot(job)

\* c is the oldest clock that a recomputation may still use.
HistoryOk(job, r, c) ==
  /\ r.slot # NoTime \/ r.until # NoTime => r.ended # NoTime
  /\ job # NoJob /\ r.ended # NoTime => job.lastStatus # "none"
  /\ job # NoJob /\ job.enabled /\ OneShot(job) => r.ended = NoTime \/ r.asked # NoTime
  /\ Recurs(job) /\ r.slot # NoTime =>
       /\ job.nextRun = NoTime /\ job.schedule.kind = "every" => r.asked # NoTime /\ r.asked <= c
       /\ job.nextRun # NoTime => \/ job.nextRun > r.slot
                                  \/ job.nextRun = r.slot /\ r.ended = r.slot
                                  \/ r.asked # NoTime /\ r.asked <= job.nextRun
  /\ Recurs(job) /\ r.until # NoTime /\ r.asked = NoTime => job.nextRun >= r.until

LEMMA NeverRanIsRun ==
  /\ NeverRan \in Run /\ NeverRan.slot = NoTime /\ NeverRan.ended = NoTime
  /\ NeverRan.until = NoTime /\ NeverRan.asked = NoTime
BY DEF NeverRan, Run, Times

\* A job that never ran has no past to respect.
LEMMA HistoryOfNone ==
  ASSUME NEW job, NEW r, r.ended = NoTime, r.slot = NoTime, r.until = NoTime, NEW c
  PROVE  HistoryOk(job, r, c)
BY DEF HistoryOk

\* Clocks only go on.
LEMMA HistoryLater ==
  ASSUME NEW job, NEW r \in Run, NEW c \in Int, NEW d \in Int, c <= d, HistoryOk(job, r, c)
  PROVE  HistoryOk(job, r, d)
<1>1. r.asked \in Int
  BY DEF Run, Times, NoTime
<1> QED
  BY <1>1 DEF HistoryOk

\* A recomputation after the last slot keeps what the past demands.
LEMMA RecomputeKeepsHistory ==
  ASSUME NEW job \in Job \cup {NoJob}, NEW r \in Run, NEW t \in Nat, NEW c \in Int, c <= t,
         HistoryOk(job, r, c), r.slot <= t
  PROVE  HistoryOk(Recompute(job, t), r, c)
<1> DEFINE new == Recompute(job, t)
<1>1. CASE job = NoJob
  BY <1>1 DEF Recompute
<1>2. CASE job # NoJob /\ (~job.enabled \/ (OneShot(job) /\ job.lastStatus # "none"))
  <2>1. ~new.enabled /\ new.lastStatus = job.lastStatus
    BY <1>2 DEF Recompute, Job
  <2> HIDE DEF new
  <2>2. HistoryOk(new, r, c)
    BY <1>2, <2>1 DEF HistoryOk, Recurs
  <2> QED
    BY <2>2 DEF new
<1>3. CASE /\ job # NoJob /\ job.enabled
           /\ OneShot(job) => job.lastStatus = "none"
  <2>1. job \in Job /\ NextRun(job, t) \in Times
    BY <1>3, NextRunIsTime
  <2>2. /\ new \in Job /\ new.enabled /\ new.schedule = job.schedule
        /\ new.lastStatus = job.lastStatus
        /\ new.nextRun = IF job.nextRun = NoTime THEN NextRun(job, t) ELSE job.nextRun
    BY <1>3, <2>1 DEF Recompute, Job, Times
  <2>3. OneShot(new) <=> OneShot(job)
    BY <2>2 DEF OneShot
  <2> HIDE DEF new
  <2>4. CASE OneShot(job)
    <3>1. HistoryOk(new, r, c)
      BY <1>3, <2>2, <2>3, <2>4 DEF HistoryOk, Recurs
    <3> QED
      BY <3>1 DEF new
  <2>5. CASE ~OneShot(job)
    <3>1. /\ Recurs(job) /\ job.nextRun \in Times /\ r.slot \in Times /\ r.asked \in Times
          /\ r.until \in Times
      BY <1>3, <2>1, <2>5 DEF Recurs, Job, Run
    <3>2. job.nextRun = NoTime => ~(r.until # NoTime /\ r.asked = NoTime)
      BY <3>1 DEF HistoryOk, Times, NoTime
    <3>3. /\ NextRun(job, t) # NoTime => NextRun(job, t) >= t
          /\ job.schedule.kind = "every" => NextRun(job, t) # NoTime
          /\ job.schedule.kind # "every" /\ NextRun(job, t) # NoTime => NextRun(job, t) > t
      BY <1>3, <2>1, <2>5, NextRunAhead
    <3>4. r.slot # NoTime /\ job.nextRun = NoTime /\ NextRun(job, t) # NoTime
          => \/ NextRun(job, t) > r.slot
             \/ r.asked # NoTime /\ r.asked <= NextRun(job, t)
      <4>1. CASE job.schedule.kind = "every"
        BY <2>1, <3>1, <3>3, <4>1 DEF HistoryOk, Times, NoTime
      <4>2. CASE job.schedule.kind # "every"
        BY <2>1, <3>1, <3>3, <4>2 DEF Times, NoTime
      <4> QED
        BY <4>1, <4>2
    <3>5. HistoryOk(new, r, c)
      BY <2>2, <2>3, <3>1, <3>2, <3>3, <3>4 DEF HistoryOk, Recurs
    <3> QED
      BY <3>5 DEF new
  <2> QED
    BY <2>4, <2>5
<1> QED
  BY <1>1, <1>2, <1>3

\* What a patch asks for is remembered, and nothing else of the past changes.
LEMMA RetimedIs ==
  ASSUME NEW job \in Job, NEW r \in Run, NEW patch, NEW clocks \in SUBSET Nat, clocks # {}
  PROVE  LET q == Retimed(r, job, patch, clocks)
         IN /\ q \in Run /\ q.slot = r.slot /\ q.ended = r.ended /\ q.until = r.until
            /\ \/ q = r /\ (r.ended = NoTime
                            \/ DOMAIN patch \cap {"schedule", "enabled", "nextRun"} = {})
               \/ /\ q.asked # NoTime /\ \A t \in clocks : q.asked <= t
                  /\ job.nextRun # NoTime => q.asked <= job.nextRun
<1> DEFINE times == clocks \cup ({job.nextRun, r.asked} \ {NoTime})
<1>1. times \in SUBSET Nat /\ times # {}
  BY DEF Job, Run, Times
<1>2. Min(times) \in times /\ \A y \in times : Min(times) <= y
  BY <1>1, MinOfNats
<1> HIDE DEF times
<1>3. Min(times) \in Nat
  BY <1>1, <1>2
<1> DEFINE later == [r EXCEPT !.asked = Min(times)]
<1>4. /\ later \in Run /\ later.slot = r.slot /\ later.ended = r.ended /\ later.until = r.until
      /\ later.asked = Min(times) /\ later.asked # NoTime
  BY <1>3 DEF Run, Times, NoTime
<1>5. /\ \A t \in clocks : t \in times
      /\ job.nextRun # NoTime => job.nextRun \in times
  BY DEF times
<1>6. Retimed(r, job, patch, clocks) =
        IF r.ended = NoTime \/ DOMAIN patch \cap {"schedule", "enabled", "nextRun"} = {}
        THEN r ELSE later
  BY DEF Retimed, times
<1> HIDE DEF later
<1> QED
  BY <1>2, <1>4, <1>5, <1>6

\* A patched job respects the past as its request leaves it: c is old enough, and
\* so is one of the request's clocks if the job has no next run.
LEMMA PatchKeepsHistory ==
  ASSUME NEW old \in Job, NEW new \in Job, NEW r \in Run, NEW c \in Int, HistoryOk(old, r, c),
         NEW patch, NEW clocks \in SUBSET Nat, clocks # {},
         old.lastStatus # "none" => new.lastStatus # "none",
         DOMAIN patch \cap {"schedule", "enabled", "nextRun"} = {}
           => /\ new.schedule = old.schedule /\ new.enabled = old.enabled
              /\ new.nextRun = old.nextRun,
         new.enabled /\ new.schedule.kind = "every" /\ new.nextRun = NoTime
           => \E t \in clocks : t <= c
  PROVE  HistoryOk(new, Retimed(r, new, patch, clocks), c)
<1> DEFINE q == Retimed(r, new, patch, clocks)
<1>1. /\ q \in Run /\ q.slot = r.slot /\ q.ended = r.ended /\ q.until = r.until
      /\ \/ q = r /\ (r.ended = NoTime \/ DOMAIN patch \cap {"schedule", "enabled", "nextRun"} = {})
         \/ /\ q.asked # NoTime /\ \A t \in clocks : q.asked <= t
            /\ new.nextRun # NoTime => q.asked <= new.nextRun
  BY RetimedIs
<1>2. new # NoJob /\ old # NoJob
  BY NoJobAssumption
<1> HIDE DEF q
<1>3. CASE r.ended = NoTime
  <2>1. q.slot = NoTime /\ q.until = NoTime /\ q.ended = NoTime
    BY <1>1, <1>3 DEF HistoryOk
  <2> QED
    BY <2>1, HistoryOfNone DEF q
<1>4. CASE q = r /\ DOMAIN patch \cap {"schedule", "enabled", "nextRun"} = {}
  <2>1. HistoryOk(new, r, c)
    BY <1>2, <1>4 DEF HistoryOk, Recurs, OneShot
  <2> QED
    BY <1>4, <2>1 DEF q
<1>5. CASE /\ q.asked # NoTime /\ \A t \in clocks : q.asked <= t
           /\ new.nextRun # NoTime => q.asked <= new.nextRun
  <2>1. new.enabled /\ new.schedule.kind = "every" /\ new.nextRun = NoTime => q.asked <= c
    <3>1. q.asked \in Int
      BY <1>1 DEF Run, Times, NoTime
    <3> QED
      BY <1>5, <3>1
  <2>2. HistoryOk(new, q, c)
    BY <1>1, <1>2, <1>5, <2>1 DEF HistoryOk, Recurs
  <2> QED
    BY <2>2 DEF q
<1> QED
  BY <1>1, <1>3, <1>4, <1>5

\* An execution that ends now leaves the job as its new past demands: r is what
\* is recorded of the run.
LEMMA FinishedKeepsHistory ==
  ASSUME NEW job \in Job, NEW status \in {"ok", "skipped", "error"}, now \in Nat,
         NEW r \in Run, r.ended = now, r.slot <= now, r.asked = NoTime, NEW c,
         r.until = IF status = "error" THEN now + ErrorBackoff(WithOutcome(job, status).errors)
                   ELSE NoTime,
         Finished(job, status) # NoJob
  PROVE  HistoryOk(Finished(job, status), r, c)
<1> DEFINE done == WithOutcome(job, status)
           new == Finished(job, status)
           normal == NextRun(done, now)
           late == now + ErrorBackoff(done.errors)
<1>1. /\ done \in Job /\ done.schedule = job.schedule /\ done.enabled = job.enabled
      /\ done.lastStatus = status
  <2>1. done \in Job
    BY OutcomeTyped
  <2> QED
    BY <2>1 DEF WithOutcome, Job
<1>2. normal \in Times /\ ErrorBackoff(done.errors) \in Nat
  BY <1>1, NextRunIsTime, ErrorBackoffIsNat DEF Job
<1>3. OneShot(done) <=> OneShot(job)
  BY <1>1 DEF OneShot
<1>4. CASE OneShot(job)
  <2>1. new = [done EXCEPT !.enabled = FALSE, !.nextRun = NoTime]
    BY <1>4 DEF Finished
  <2>2. ~new.enabled /\ new.lastStatus # "none"
    <3> HIDE DEF done, new
    <3> QED
      BY <1>1, <2>1 DEF Job
  <2>3. r.ended # NoTime
    BY DEF NoTime
  <2> HIDE DEF new
  <2>4. HistoryOk(new, r, c)
    BY <2>2, <2>3 DEF HistoryOk, Recurs
  <2> QED
    BY <2>4 DEF new
<1>5. CASE ~OneShot(job)
  <2>1. Max({normal, late}) = IF normal >= late THEN normal ELSE late
    <3>1. normal \in Int /\ late \in Int
      BY <1>2 DEF Times, NoTime
    <3> HIDE DEF normal, late
    <3> QED
      BY <3>1, MaxOfTwo
  <2> DEFINE next == IF status = "error" /\ job.enabled THEN Max({normal, late}) ELSE normal
  <2>2. new = [done EXCEPT !.nextRun = next]
    BY <1>5 DEF Finished
  <2>3. /\ job.enabled /\ job.schedule.kind = "every" => normal # NoTime
        /\ normal # NoTime => normal >= now
    BY <1>1, <1>3, <1>5, NextRunAhead
  <2> HIDE DEF done, normal
  <2>4. /\ next \in Times
        /\ next # NoTime => next >= now
        /\ job.enabled /\ job.schedule.kind = "every" => next # NoTime
        /\ job.enabled /\ status = "error" => next >= late
    BY <1>2, <2>1, <2>3 DEF Times, NoTime
  <2> HIDE DEF next, new
  <2>5. /\ new.nextRun = next /\ new.enabled = job.enabled /\ new.schedule = job.schedule
        /\ new.lastStatus = status
    BY <1>1, <2>2 DEF Job
  <2>6. ~OneShot(new)
    BY <1>5, <2>5 DEF OneShot
  <2>7. r.slot \in Times /\ r.ended = now
    BY DEF Run
  <2>8. next # NoTime => next > r.slot \/ (next = r.slot /\ r.ended = r.slot)
    BY <2>4, <2>7 DEF Times, NoTime
  <2>9. r.until = IF status = "error" THEN late ELSE NoTime
    BY DEF done
  <2>10. now # NoTime
    BY DEF NoTime
  <2>11. HistoryOk(new, r, c)
    BY <1>2, <2>4, <2>5, <2>6, <2>7, <2>8, <2>9, <2>10 DEF HistoryOk, Recurs
  <2> QED
    BY <2>11 DEF new
<1> QED
  BY <1>4, <1>5

-----------------------------------------------------------------------------
(* Type correctness.                                                       *)

LEMMA RecomputeAllTyped ==
  ASSUME NEW jobs \in [Jobs -> Job \cup {NoJob}], NEW t \in Nat
  PROVE  RecomputeAll(jobs, t) \in [Jobs -> Job \cup {NoJob}]
BY RecomputeTyped DEF RecomputeAll

LEMMA NextWakeIsTime ==
  ASSUME NEW jobs \in [Jobs -> Job \cup {NoJob}]
  PROVE  NextWake(jobs) \in Times
<1> DEFINE enabled == {j \in Jobs : jobs[j] # NoJob /\ jobs[j].enabled}
           times == {jobs[j].nextRun : j \in enabled} \ {NoTime}
<1>1. \A j \in enabled : jobs[j].nextRun \in Times
  BY DEF Job
<1>2. times \in SUBSET Nat
  BY <1>1 DEF Times
<1> HIDE DEF times
<1>3. times # {} => Min(times) \in Nat
  BY <1>2, MinOfNats
<1> QED
  BY <1>3 DEF NextWake, times, Times

LEMMA WriteTyped ==
  ASSUME NEW jobs \in [Jobs -> Job \cup {NoJob}], disk \in [Jobs -> Job \cup {NoJob}],
         faults \in Nat, NEW ok \in BOOLEAN, Write(jobs, ok)
  PROVE  disk' \in [Jobs -> Job \cup {NoJob}] /\ faults' \in Nat
BY DEF Write

LEMMA PersistTyped ==
  ASSUME NEW jobs \in [Jobs -> Job \cup {NoJob}], disk \in [Jobs -> Job \cup {NoJob}],
         faults \in Nat, NEW ok \in BOOLEAN, Persist(jobs, ok)
  PROVE  disk' \in [Jobs -> Job \cup {NoJob}] /\ faults' \in Nat /\ unsaved' \in BOOLEAN
BY WriteTyped DEF Persist

LEMMA NotifyTyped ==
  ASSUME NEW jobs \in [Jobs -> Job \cup {NoJob}], disk \in [Jobs -> Job \cup {NoJob}],
         faults \in Nat, permit \in BOOLEAN, PersistAndNotify(jobs)
  PROVE  /\ disk' \in [Jobs -> Job \cup {NoJob}] /\ faults' \in Nat
         /\ permit' \in BOOLEAN /\ unsaved' \in BOOLEAN
<1>1. PICK ok \in BOOLEAN : Persist(jobs, ok) /\ permit' = (permit \/ ok)
  BY DEF PersistAndNotify
<1>2. permit' \in BOOLEAN
  BY <1>1
<1> QED
  BY <1>1, <1>2, PersistTyped

LEMMA ArrivalInNat ==
  ASSUME now \in Nat, NEW t \in Arrival
  PROVE  t \in Nat /\ t <= now
<1>1. MaxWait \in Nat
  BY CronAssumption
<1>2. Max({0, now - MaxWait}) \in Nat
  BY <1>1, MaxOfTwo
<1> QED
  BY <1>2 DEF Arrival

LEMMA TypeInit == Init => TypeOK
<1> SUFFICES ASSUME Init PROVE TypeOK
  OBVIOUS
<1>1. ran \in [Jobs -> Run]
  BY NeverRanIsRun DEF Init
<1>2. mem \in [Jobs -> Job \cup {NoJob}] /\ disk \in [Jobs -> Job \cup {NoJob}]
  BY DEF Init
<1> QED
  BY <1>1, <1>2 DEF Init, TypeOK, Times

-----------------------------------------------------------------------------
(* The inductive invariant.                                                *)

\* What is recorded of a run that ends.
LEMMA EndedTyped ==
  ASSUME TypeOK, task # NoTask, NEW job \in Job, NEW r \in Run,
         NEW status \in {"ok", "skipped", "error"}
  PROVE  LET e == Ended(r, job, status)
         IN /\ e \in Run /\ e.ended = now /\ e.asked = NoTime
            /\ e.slot = (IF task.by = "timer" THEN task.slot ELSE r.slot)
            /\ e.until = IF status = "error"
                         THEN now + ErrorBackoff(WithOutcome(job, status).errors) ELSE NoTime
<1>1. task.slot \in Times /\ now \in Nat
  BY DEF TypeOK, Task
<1>2. WithOutcome(job, status) \in Job
  BY OutcomeTyped
<1>3. ErrorBackoff(WithOutcome(job, status).errors) \in Nat
  BY <1>2, ErrorBackoffIsNat DEF Job
<1> QED
  BY <1>1, <1>3 DEF Ended, Run, Times

\* Time goes on: a slot that was run is past, also for the clock that
\* run_due_jobs read before it waited for the lock.
Clock ==
  /\ loop = "fired" => loopTime \in Nat /\ loopTime <= now
  /\ \A j \in Jobs : /\ ran[j].slot <= now
                     /\ loop = "fired" => ran[j].slot <= loopTime

\* What is not there has no past.
NoPast ==
  /\ ~loaded => task = NoTask /\ \A j \in Jobs : ran[j] = NeverRan
  /\ \A j \in Jobs : mem[j] = NoJob => ran[j] = NeverRan

\* While a task holds the lock its jobs stay what they were selected for.
Selected(j, by) ==
  /\ mem[j] # NoJob
  /\ by # "force" => mem[j].enabled
  /\ by = "timer" => /\ mem[j].nextRun # NoTime /\ mem[j].nextRun <= now
                     /\ OneShot(mem[j]) => mem[j].lastStatus = "none"

TaskOk ==
  task # NoTask =>
    /\ task.by = "timer" => loop = "running"
    /\ task.job \notin task.due
    /\ \A j \in task.due : Selected(j, task.by)
    /\ task.job # NoJob =>
         /\ Selected(task.job, task.by)
         /\ task.by = "timer" => /\ task.slot = mem[task.job].nextRun
                                 /\ task.started \in Nat /\ task.started <= now
                                 /\ task.slot <= task.started

\* The oldest clock that anybody may still recompute with: the loop's, while it
\* waits for the lock.
OldestClock == IF loop = "fired" THEN loopTime ELSE now

History == \A j \in Jobs : HistoryOk(mem[j], ran[j], OldestClock)

\* What a restart would load of a job is what the scheduler works with.
Kept(j) ==
  Timed(disk[j]) => Timed(mem[j]) /\ Recompute(disk[j], now) = Recompute(mem[j], now)

FileOk ==
  /\ ~loaded => ~unsaved /\ loop = "arm"
  /\ Unlocked /\ ~unsaved => \A j \in Jobs : Kept(j)

IInv == /\ TypeOK /\ Clock /\ NoPast /\ TaskOk /\ History
        /\ FileOk /\ CrashRepeatsUnfinished /\ NoWakeUpLost

LEMMA TypeNext == TypeOK /\ Clock /\ TaskOk /\ [Next]_vars => TypeOK'
<1> SUFFICES ASSUME TypeOK, Clock, TaskOk, [Next]_vars PROVE TypeOK'
  OBVIOUS
<1> USE DEF TypeOK
<1>1. ASSUME Load PROVE TypeOK'
  <2>1. mem' \in [Jobs -> Job \cup {NoJob}]
    BY <1>1, RecomputeAllTyped DEF Load
  <2>2. disk' \in [Jobs -> Job \cup {NoJob}] /\ faults' \in Nat
    BY <1>1, <2>1, WriteTyped DEF Load
  <2> QED
    BY <1>1, <2>1, <2>2 DEF Load
<1>2. ASSUME Arm PROVE TypeOK'
  <2>1. loopTime' \in Times
    BY <1>2, NextWakeIsTime DEF Arm
  <2> QED
    BY <1>2, <2>1 DEF Arm
<1>3. ASSUME Notified PROVE TypeOK'
  BY <1>3 DEF Notified, Times
<1>4. ASSUME Fire PROVE TypeOK'
  BY <1>4 DEF Fire, Times
<1>5. ASSUME StartDueJobs PROVE TypeOK'
  <2>1. loopTime \in Nat
    BY <1>5 DEF StartDueJobs, Clock
  <2>2. mem' \in [Jobs -> Job \cup {NoJob}]
    BY <1>5, <2>1, RecomputeAllTyped DEF StartDueJobs
  <2>3. task' \in Task
    BY <1>5 DEF StartDueJobs, Task, Times
  <2> QED
    BY <1>5, <2>2, <2>3 DEF StartDueJobs, Times
<1>6. ASSUME BeginJob PROVE TypeOK'
  <2>1. task \in Task /\ task # NoTask
    BY <1>6 DEF BeginJob
  <2>2. PICK j \in task.due :
          /\ mem' = [mem EXCEPT ![j].runningAt = now]
          /\ task' = [task EXCEPT !.job = j, !.due = @ \ {j},
                                  !.slot = mem[j].nextRun, !.started = now]
    BY <1>6 DEF BeginJob
  <2>3. j \in Jobs /\ mem[j] \in Job
    BY <2>1, <2>2 DEF TaskOk, Selected, Task
  <2>4. [mem[j] EXCEPT !.runningAt = now] \in Job /\ mem[j].nextRun \in Times
    BY <2>3 DEF Job, Times
  <2>5. mem' \in [Jobs -> Job \cup {NoJob}]
    BY <2>2, <2>3, <2>4
  <2>6. task' \in Task
    BY <2>1, <2>2, <2>3, <2>4 DEF Task, Times
  <2> QED
    BY <1>6, <2>5, <2>6 DEF BeginJob
<1>7. ASSUME FinishJob PROVE TypeOK'
  <2>1. task \in Task /\ task # NoTask /\ task.job # NoJob
    BY <1>7 DEF FinishJob
  <2> DEFINE j == task.job
  <2>2. j \in Jobs /\ mem[j] \in Job
    BY <2>1 DEF TaskOk, Selected, Task
  <2>3. PICK status \in Outcomes(mem[j]) :
          /\ mem' = [mem EXCEPT ![j] = Finished(@, status)]
          /\ ran' = [ran EXCEPT ![j] = IF mem'[j] = NoJob THEN NeverRan
                                       ELSE Ended(@, mem[j], status)]
    BY <1>7 DEF FinishJob
  <2>4. status \in {"ok", "skipped", "error"}
    BY DEF Outcomes
  <2>5. Finished(mem[j], status) \in Job \cup {NoJob}
    BY <2>2, <2>4, FinishedTyped
  <2>6. mem' \in [Jobs -> Job \cup {NoJob}]
    BY <2>2, <2>3, <2>5
  <2>7. Ended(ran[j], mem[j], status) \in Run
    BY <2>1, <2>2, <2>4, EndedTyped
  <2>8. ran' \in [Jobs -> Run]
    BY <2>2, <2>3, <2>7, NeverRanIsRun
  <2>9. task' \in Task
    BY <1>7, <2>1 DEF FinishJob, Task
  <2> QED
    BY <1>7, <2>6, <2>8, <2>9 DEF FinishJob
<1>8. ASSUME EndTask PROVE TypeOK'
  <2>1. /\ disk' \in [Jobs -> Job \cup {NoJob}] /\ permit' \in BOOLEAN
        /\ faults' \in Nat /\ unsaved' \in BOOLEAN
    <3>1. CASE task.by = "timer"
      BY <1>8, <3>1, PersistTyped DEF EndTask
    <3>2. CASE task.by # "timer"
      BY <1>8, <3>2, NotifyTyped DEF EndTask
    <3> QED
      BY <3>1, <3>2
  <2> QED
    BY <1>8, <2>1 DEF EndTask
<1>9. ASSUME NEW j \in Jobs, NEW t \in Arrival, NEW spec \in Specs, Add(j, spec, t)
      PROVE  TypeOK'
  <2>1. NewJob(spec, t) \in Job
    BY ArrivalInNat, NewJobTyped
  <2>2. mem' \in [Jobs -> Job \cup {NoJob}]
    BY <1>9, <2>1 DEF Add
  <2>3. /\ disk' \in [Jobs -> Job \cup {NoJob}] /\ permit' \in BOOLEAN
        /\ faults' \in Nat /\ unsaved' \in BOOLEAN
    BY <1>9, <2>2, NotifyTyped DEF Add
  <2> QED
    BY <1>9, <2>2, <2>3 DEF Add
<1>10. ASSUME NEW j \in Jobs, NEW t \in Arrival, NEW patch \in Patches, Update(j, patch, t)
       PROVE  TypeOK'
  <2>1. t \in Nat
    BY ArrivalInNat
  <2>0. PICK p : \E new \in Job : Updated(j, p, new, t)
    BY <1>10, <2>1, Updates
  <2>2. PICK new \in Job :
          /\ Sound(p) /\ mem[j] \in Job /\ mem' = [mem EXCEPT ![j] = new]
          /\ \/ new = Patched(mem[j], p, t) /\ Reject(j, new, p, t)
             \/ /\ new = Rescheduled(Patched(mem[j], p, t), p, t)
                /\ ran' = [ran EXCEPT ![j] = Retimed(@, new, p, {t})]
                /\ PersistAndNotify(mem')
    BY <2>0 DEF Updated
  <2>3. mem' \in [Jobs -> Job \cup {NoJob}]
    BY <2>2
  <2>4. UNCHANGED <<now, loaded, loop, loopTime, task>>
    BY <1>10 DEF Update
  <2>5. CASE Reject(j, new, p, t)
    <3> DEFINE clocks == {t} \cup (IF loop = "fired" THEN {loopTime} ELSE {})
    <3>1. clocks \in SUBSET Nat /\ clocks # {}
      BY <2>1 DEF Clock
    <3>0. ran[j] \in Run
      BY DEF TypeOK
    <3> HIDE DEF clocks
    <3>2. Retimed(ran[j], new, p, clocks) \in Run
      BY <3>0, <3>1, RetimedIs
    <3> USE DEF clocks
    <3>3. ran' \in [Jobs -> Run]
      BY <2>5, <3>2 DEF Reject
    <3> QED
      BY <2>3, <2>4, <2>5, <3>3 DEF Reject
  <2>6. CASE ran' = [ran EXCEPT ![j] = Retimed(@, new, p, {t})] /\ PersistAndNotify(mem')
    <3>1. Retimed(ran[j], new, p, {t}) \in Run
      BY <2>1, RetimedIs
    <3>2. ran' \in [Jobs -> Run]
      BY <2>6, <3>1
    <3>3. /\ disk' \in [Jobs -> Job \cup {NoJob}] /\ permit' \in BOOLEAN
          /\ faults' \in Nat /\ unsaved' \in BOOLEAN
      BY <2>3, <2>6, NotifyTyped
    <3> QED
      BY <2>3, <2>4, <3>2, <3>3
  <2> QED
    BY <2>2, <2>5, <2>6
<1>11. ASSUME NEW j \in Jobs, Remove(j) PROVE TypeOK'
  <2>1. mem' \in [Jobs -> Job \cup {NoJob}] /\ ran' \in [Jobs -> Run]
    BY <1>11, NeverRanIsRun DEF Remove
  <2>2. /\ disk' \in [Jobs -> Job \cup {NoJob}] /\ permit' \in BOOLEAN
        /\ faults' \in Nat /\ unsaved' \in BOOLEAN
    BY <1>11, <2>1, NotifyTyped DEF Remove
  <2> QED
    BY <1>11, <2>1, <2>2 DEF Remove
<1>12. ASSUME List PROVE TypeOK'
  <2>1. mem' \in [Jobs -> Job \cup {NoJob}]
    BY <1>12, RecomputeAllTyped DEF List
  <2> QED
    BY <1>12, <2>1 DEF List
<1>13. ASSUME NEW j \in Jobs, NEW t \in Arrival, NEW mode \in {"due", "force"}, RunNow(j, mode, t)
       PROVE  TypeOK'
  <2>1. task' \in Task
    BY <1>13 DEF RunNow, Task, Times
  <2> QED
    BY <1>13, <2>1 DEF RunNow
<1>14. ASSUME RunDropped PROVE TypeOK'
  BY <1>14 DEF RunDropped
<1>15. ASSUME Tick PROVE TypeOK'
  BY <1>15 DEF Tick
<1>16. ASSUME Crash PROVE TypeOK'
  <2>1. mem' \in [Jobs -> Job \cup {NoJob}] /\ ran' \in [Jobs -> Run]
    BY <1>16, NeverRanIsRun DEF Crash
  <2>2. /\ loopTime' = NoTime /\ loop' = "arm" /\ task' = NoTask
        /\ loaded' = FALSE /\ permit' = FALSE
        /\ UNCHANGED <<now, disk>> /\ faults' = faults + 1 /\ unsaved' = FALSE
    BY <1>16 DEF Crash
  <2>3. faults' \in Nat /\ loopTime' \in Times
    BY <2>2 DEF Times
  <2> QED
    BY <2>1, <2>2, <2>3
<1>17. ASSUME UNCHANGED vars PROVE TypeOK'
  BY <1>17 DEF vars
<1> QED
  BY <1>1, <1>2, <1>3, <1>4, <1>5, <1>6, <1>7, <1>8, <1>9, <1>10, <1>11, <1>12, <1>13,
     <1>14, <1>15, <1>16, <1>17 DEF Next, LoopStep, TaskStep, Request

-----------------------------------------------------------------------------
(* The clock, and what has no past.                                        *)

LEMMA ClockNext == TypeOK /\ Clock /\ TaskOk /\ [Next]_vars => Clock'
<1> SUFFICES ASSUME TypeOK, Clock, TaskOk, [Next]_vars PROVE Clock'
  OBVIOUS
<1>0. /\ now \in Nat /\ loopTime \in Times
      /\ ran \in [Jobs -> Run] /\ \A j \in Jobs : ran[j].slot \in Times /\ NoTime <= now
  BY DEF TypeOK, Run, Times, NoTime
<1>1. ASSUME FinishJob PROVE Clock'
  <2>1. task \in Task /\ task # NoTask /\ task.job # NoJob /\ task.job \in Jobs
    BY <1>1 DEF FinishJob, TypeOK, Task
  <2> DEFINE j == task.job
  <2>2. UNCHANGED <<now, loop, loopTime>>
    BY <1>1 DEF FinishJob
  <2>3. /\ \A i \in Jobs \ {j} : ran'[i] = ran[i]
        /\ ran'[j].slot \in {NoTime, ran[j].slot} \/ (task.by = "timer" /\ ran'[j].slot = task.slot)
    <3>1. PICK status \in Outcomes(mem[j]) :
            ran' = [ran EXCEPT ![j] = IF mem'[j] = NoJob THEN NeverRan ELSE Ended(@, mem[j], status)]
      BY <1>1 DEF FinishJob
    <3>2. \A i \in Jobs : i # j => ran'[i] = ran[i]
      BY <1>0, <3>1
    <3>3. Ended(ran[j], mem[j], status).slot = IF task.by = "timer" THEN task.slot ELSE ran[j].slot
      BY DEF Ended
    <3> QED
      BY <1>0, <2>1, <3>1, <3>2, <3>3, NeverRanIsRun
  <2>4. task.by = "timer" => loop # "fired" /\ task.slot <= now
    BY <1>0, <2>1 DEF TaskOk, Selected
  <2>5. loop = "fired" => loopTime \in Nat
    BY DEF Clock
  <2> QED
    BY <1>0, <2>2, <2>3, <2>4, <2>5 DEF Clock, NoTime
<1>2. ASSUME NEW j \in Jobs, NEW r, ran' = [ran EXCEPT ![j] = r], UNCHANGED <<now, loop, loopTime>>,
             r.slot \in {NoTime, ran[j].slot}
      PROVE  Clock'
  BY <1>0, <1>2 DEF Clock, NoTime
<1>3. ASSUME UNCHANGED <<now, ran>>, loop' # "fired" PROVE Clock'
  BY <1>3 DEF Clock
<1>4. ASSUME UNCHANGED <<now, loop, loopTime, ran>> PROVE Clock'
  BY <1>4 DEF Clock
<1>5. ASSUME Fire PROVE Clock'
  BY <1>0, <1>5 DEF Fire, Clock
<1>6. ASSUME EndTask PROVE Clock'
  BY <1>3, <1>4, <1>6 DEF EndTask
<1>7. ASSUME Tick PROVE Clock'
  BY <1>0, <1>7 DEF Tick, Clock, Times, NoTime
<1>8. ASSUME Crash PROVE Clock'
  BY <1>0, <1>8, NeverRanIsRun DEF Crash, Clock
<1>9. ASSUME LoopStep PROVE Clock'
  BY <1>3, <1>5, <1>9 DEF LoopStep, Arm, Notified, StartDueJobs
<1>10. ASSUME TaskStep PROVE Clock'
  BY <1>1, <1>4, <1>6, <1>10 DEF TaskStep, BeginJob
<1>11. ASSUME Request PROVE Clock'
  <2>1. ASSUME NEW j \in Jobs, NEW t \in Arrival, NEW patch \in Patches, Update(j, patch, t)
        PROVE  Clock'
    <3>1. UNCHANGED <<now, loop, loopTime>>
      BY <2>1 DEF Update
    <3>2. \A job, p, clocks : Retimed(ran[j], job, p, clocks).slot = ran[j].slot
      BY <1>0 DEF Retimed, Run
    <3>3. PICK r : ran' = [ran EXCEPT ![j] = r] /\ r.slot = ran[j].slot
      BY <2>1, <3>2 DEF Update, Reject
    <3> QED
      BY <1>2, <3>1, <3>3
  <2>2. ASSUME NEW j \in Jobs, Remove(j) PROVE Clock'
    BY <1>2, <2>2, NeverRanIsRun DEF Remove
  <2> QED
    BY <1>4, <1>11, <2>1, <2>2 DEF Request, Add, RunNow, List, RunDropped
<1>12. ASSUME Load \/ UNCHANGED vars PROVE Clock'
  BY <1>4, <1>12 DEF Load, vars
<1> QED
  BY <1>7, <1>8, <1>9, <1>10, <1>11, <1>12 DEF Next

LEMMA RecomputeExists ==
  ASSUME NEW job \in Job, NEW t \in Nat
  PROVE  Recompute(job, t) # NoJob
<1>1. job # NoJob /\ NextRun(job, t) \in Times
  BY NoJobAssumption, NextRunIsTime
<1>2. Recompute(job, t) \in Job
  BY <1>1 DEF Recompute, Job, Times
<1> QED
  BY <1>2, NoJobAssumption

LEMMA NoPastNext == TypeOK /\ Clock /\ NoPast /\ TaskOk /\ [Next]_vars => NoPast'
<1> SUFFICES ASSUME TypeOK, Clock, NoPast, TaskOk, [Next]_vars PROVE NoPast'
  OBVIOUS
<1>0. /\ mem \in [Jobs -> Job \cup {NoJob}] /\ ran \in [Jobs -> Run] /\ now \in Nat
      /\ task \in Task \cup {NoTask}
  BY DEF TypeOK
\* Recomputing adds and removes no job.
<1>1. ASSUME NEW t \in Nat, mem' = RecomputeAll(mem, t), UNCHANGED ran, loaded'
      PROVE  NoPast'
  <2>1. \A j \in Jobs : mem'[j] = NoJob => mem[j] = NoJob
    <3> TAKE j \in Jobs
    <3>1. CASE mem[j] = NoJob
      BY <3>1
    <3>2. CASE mem[j] # NoJob
      <4>1. mem[j] \in Job
        BY <1>0, <3>2
      <4>2. mem'[j] = Recompute(mem[j], t)
        BY <1>1 DEF RecomputeAll
      <4> QED
        BY <4>1, <4>2, RecomputeExists
    <3> QED
      BY <3>1, <3>2
  <2> QED
    BY <1>1, <2>1 DEF NoPast
<1>2. ASSUME Load PROVE NoPast'
  BY <1>2 DEF Load, NoPast
<1>3. ASSUME StartDueJobs PROVE NoPast'
  <2>1. loopTime \in Nat /\ loaded
    BY <1>3 DEF StartDueJobs, Clock, Unlocked
  <2> QED
    BY <1>1, <1>3, <2>1 DEF StartDueJobs
<1>4. ASSUME BeginJob PROVE NoPast'
  <2>1. task # NoTask /\ task \in Task
    BY <1>0, <1>4 DEF BeginJob
  <2>2. PICK j \in task.due : mem' = [mem EXCEPT ![j].runningAt = now]
    BY <1>4 DEF BeginJob
  <2>3. j \in Jobs /\ mem[j] \in Job
    BY <1>0, <2>1, <2>2 DEF TaskOk, Selected, Task
  <2>4. [mem[j] EXCEPT !.runningAt = now] \in Job
    BY <1>0, <2>3 DEF Job, Times
  <2>5. \A i \in Jobs : mem'[i] = NoJob => mem[i] = NoJob
    BY <1>0, <2>2, <2>3, <2>4, NoJobAssumption
  <2> QED
    BY <1>4, <2>1, <2>5 DEF BeginJob, NoPast
<1>5. ASSUME FinishJob PROVE NoPast'
  <2>1. task # NoTask /\ loaded /\ UNCHANGED loaded
    BY <1>5 DEF FinishJob, NoPast
  <2> DEFINE j == task.job
  <2>2. PICK status \in Outcomes(mem[j]) :
          /\ mem' = [mem EXCEPT ![j] = Finished(@, status)]
          /\ ran' = [ran EXCEPT ![j] = IF mem'[j] = NoJob THEN NeverRan
                                       ELSE Ended(@, mem[j], status)]
    BY <1>5 DEF FinishJob
  <2>3. \A i \in Jobs : mem'[i] = NoJob => ran'[i] = NeverRan
    BY <1>0, <2>2 DEF NoPast
  <2> QED
    BY <2>1, <2>3 DEF NoPast
<1>6. ASSUME NEW j \in Jobs, NEW t \in Arrival, NEW spec \in Specs, Add(j, spec, t)
      PROVE  NoPast'
  <2>1. NewJob(spec, t) \in Job
    BY <1>0, ArrivalInNat, NewJobTyped
  <2>2. \A i \in Jobs : mem'[i] = NoJob => mem[i] = NoJob
    BY <1>0, <1>6, <2>1, NoJobAssumption DEF Add
  <2> QED
    BY <1>6, <2>2 DEF Add, NoPast, Unlocked
<1>7. ASSUME NEW j \in Jobs, ran' = [ran EXCEPT ![j] = NeverRan],
             \A i \in Jobs \ {j} : mem'[i] = mem[i], loaded'
      PROVE  NoPast'
  BY <1>0, <1>7 DEF NoPast
<1>8. ASSUME NEW j \in Jobs, NEW t \in Arrival, NEW patch \in Patches, Update(j, patch, t)
      PROVE  NoPast'
  <2>1. t \in Nat
    BY <1>0, ArrivalInNat
  <2>2. PICK new \in Job : mem[j] \in Job /\ mem' = [mem EXCEPT ![j] = new]
    BY <1>0, <1>8, <2>1, Updates DEF Updated
  <2>3. PICK r : ran' = [ran EXCEPT ![j] = r]
    BY <1>8 DEF Update, Reject
  <2>4. \A i \in Jobs : mem'[i] = NoJob => mem[i] = NoJob /\ i # j
    BY <1>0, <2>2, NoJobAssumption
  <2> QED
    BY <1>0, <1>8, <2>3, <2>4 DEF Update, Unlocked, NoPast
<1>9. ASSUME NEW j \in Jobs, Remove(j) PROVE NoPast'
  BY <1>0, <1>7, <1>9 DEF Remove, Unlocked
<1>10. ASSUME List PROVE NoPast'
  BY <1>0, <1>1, <1>10 DEF List, Unlocked
<1>11. ASSUME Crash PROVE NoPast'
  BY <1>11 DEF Crash, NoPast
<1>12. ASSUME UNCHANGED <<mem, ran, loaded>>, loaded \/ UNCHANGED task PROVE NoPast'
  BY <1>12 DEF NoPast
<1>13. ASSUME NEW j \in Jobs, NEW t \in Arrival, NEW mode \in {"due", "force"}, RunNow(j, mode, t)
       PROVE  NoPast'
  BY <1>12, <1>13 DEF RunNow, Unlocked
<1>14. ASSUME RunDropped \/ EndTask PROVE NoPast'
  BY <1>12, <1>14 DEF RunDropped, EndTask, NoPast
<1>15. ASSUME Arm \/ Notified \/ Fire \/ Tick \/ UNCHANGED vars PROVE NoPast'
  BY <1>12, <1>15 DEF Arm, Notified, Fire, Tick, vars
<1> QED
  BY <1>2, <1>3, <1>4, <1>5, <1>6, <1>8, <1>9, <1>10, <1>11, <1>13, <1>14, <1>15
     DEF Next, LoopStep, TaskStep, Request

-----------------------------------------------------------------------------
(* The task that holds the lock.                                           *)

\* A one-shot job that ended is not enabled after a recomputation.
LEMMA OverIsDisabled ==
  ASSUME NEW job \in Job \cup {NoJob}, NEW t \in Nat, Recompute(job, t) # NoJob,
         Recompute(job, t).enabled, OneShot(Recompute(job, t))
  PROVE  Recompute(job, t).lastStatus = "none"
<1>1. job \in Job /\ job # NoJob
  BY DEF Recompute
<1>2. CASE ~job.enabled \/ (OneShot(job) /\ job.lastStatus # "none")
  BY <1>1, <1>2 DEF Recompute, Job
<1>3. CASE job.enabled /\ (OneShot(job) => job.lastStatus = "none")
  BY <1>1, <1>3 DEF Recompute, Job, OneShot
<1> QED
  BY <1>2, <1>3

LEMMA TaskNext == TypeOK /\ Clock /\ NoPast /\ TaskOk /\ [Next]_vars => TaskOk'
<1> SUFFICES ASSUME TypeOK, Clock, NoPast, TaskOk, [Next]_vars PROVE TaskOk'
  OBVIOUS
<1>0. /\ mem \in [Jobs -> Job \cup {NoJob}] /\ now \in Nat /\ task \in Task \cup {NoTask}
      /\ \A j \in Jobs : mem[j] # NoJob => mem[j].nextRun \in Times
  BY DEF TypeOK, Job
<1>1. ASSUME task' = NoTask PROVE TaskOk'
  BY <1>1 DEF TaskOk
<1>2. ASSUME Load \/ Arm \/ EndTask \/ RunDropped \/ Crash \/ List PROVE TaskOk'
  BY <1>1, <1>2 DEF Load, Arm, EndTask, RunDropped, Crash, List, NoPast, Unlocked
<1>3. ASSUME UNCHANGED <<task, mem, now>>, loop \in {"idle", "sleep"} PROVE TaskOk'
  BY <1>3 DEF TaskOk, Selected
<1>4. ASSUME Notified \/ Fire PROVE TaskOk'
  BY <1>3, <1>4 DEF Notified, Fire
<1>5. ASSUME StartDueJobs PROVE TaskOk'
  <2>1. loopTime \in Nat /\ loopTime <= now /\ now' = now /\ loop' = "running"
    BY <1>5 DEF StartDueJobs, Clock
  <2>2. task' = [by |-> "timer", job |-> NoJob, slot |-> NoTime, started |-> NoTime,
                 due |-> {j \in Jobs : Due(mem'[j], loopTime) /\ mem'[j].runningAt = NoTime}]
    BY <1>5 DEF StartDueJobs
  <2>3. mem' \in [Jobs -> Job \cup {NoJob}]
    BY <1>0, <1>5, <2>1, RecomputeAllTyped DEF StartDueJobs
  <2>4. \A j \in Jobs : Due(mem'[j], loopTime) => Selected(j, "timer")'
    <3> SUFFICES ASSUME NEW j \in Jobs, Due(mem'[j], loopTime) PROVE Selected(j, "timer")'
      OBVIOUS
    <3>1. mem'[j] \in Job /\ mem'[j] # NoJob
      BY <2>3 DEF Due
    <3>2. mem'[j].nextRun \in Times /\ mem'[j].nextRun # NoTime /\ mem'[j].nextRun <= loopTime
      BY <3>1 DEF Due, Job
    <3>3. mem'[j].nextRun <= now'
      BY <1>0, <2>1, <3>2 DEF Times
    <3>4. OneShot(mem'[j]) => mem'[j].lastStatus = "none"
      <4>1. mem'[j] = Recompute(mem[j], loopTime)
        BY <1>5 DEF StartDueJobs, RecomputeAll
      <4> QED
        BY <1>0, <2>1, <3>1, <4>1, OverIsDisabled DEF Due
    <3> QED
      BY <3>1, <3>2, <3>3, <3>4 DEF Due, Selected, OneShot
  <2> QED
    BY <2>1, <2>2, <2>4, NoJobAssumption DEF TaskOk
<1>6. ASSUME BeginJob PROVE TaskOk'
  <2>1. task \in Task /\ task # NoTask /\ UNCHANGED <<now, loop>>
    BY <1>0, <1>6 DEF BeginJob
  <2>2. PICK j \in task.due :
          /\ mem' = [mem EXCEPT ![j].runningAt = now]
          /\ task' = [task EXCEPT !.job = j, !.due = @ \ {j},
                                  !.slot = mem[j].nextRun, !.started = now]
    BY <1>6 DEF BeginJob
  <2>3. j \in Jobs /\ mem[j] \in Job /\ Selected(j, task.by)
    BY <1>0, <2>1, <2>2 DEF TaskOk, Selected, Task
  <2>4. /\ [mem[j] EXCEPT !.runningAt = now] \in Job
        /\ [mem[j] EXCEPT !.runningAt = now].enabled = mem[j].enabled
        /\ [mem[j] EXCEPT !.runningAt = now].nextRun = mem[j].nextRun
        /\ [mem[j] EXCEPT !.runningAt = now].schedule = mem[j].schedule
        /\ [mem[j] EXCEPT !.runningAt = now].lastStatus = mem[j].lastStatus
    BY <1>0, <2>3 DEF Job, Times
  <2>5. /\ mem'[j] # NoJob /\ mem'[j].enabled = mem[j].enabled /\ mem'[j].nextRun = mem[j].nextRun
        /\ mem'[j].schedule = mem[j].schedule /\ mem'[j].lastStatus = mem[j].lastStatus
        /\ \A i \in Jobs \ {j} : mem'[i] = mem[i]
    BY <1>0, <2>2, <2>3, <2>4, NoJobAssumption
  <2>6. /\ task'.by = task.by /\ task'.job = j /\ task'.due = task.due \ {j}
        /\ task'.slot = mem[j].nextRun /\ task'.started = now
    BY <2>1, <2>2 DEF Task
  <2>7. \A i \in task.due : Selected(i, task.by)'
    BY <2>1, <2>3, <2>5, <2>6 DEF TaskOk, Selected, Task, OneShot
  <2>8. task.by = "timer" => task'.slot <= task'.started /\ task'.slot = mem'[j].nextRun
    BY <2>3, <2>5, <2>6 DEF Selected
  <2>9. task.by = "timer" => loop' = "running"
    BY <2>1 DEF TaskOk
  <2> QED
    BY <1>0, <2>1, <2>2, <2>6, <2>7, <2>8, <2>9 DEF TaskOk
<1>7. ASSUME FinishJob PROVE TaskOk'
  <2>1. task \in Task /\ task # NoTask /\ UNCHANGED <<now, loop>>
    BY <1>0, <1>7 DEF FinishJob
  <2>2. \A i \in Jobs \ {task.job} : mem'[i] = mem[i]
    BY <1>0, <1>7 DEF FinishJob
  <2>3. task'.by = task.by /\ task'.job = NoJob /\ task'.due = task.due
    BY <1>7, <2>1 DEF FinishJob, Task
  <2>4. NoJob \notin task.due
    BY <2>1, NoJobAssumption DEF Task
  <2>5. \A i \in task.due : Selected(i, task.by)'
    BY <2>1, <2>2, <2>3 DEF TaskOk, Selected, Task
  <2> QED
    BY <2>1, <2>3, <2>4, <2>5 DEF TaskOk
<1>8. ASSUME NEW j \in Jobs, NEW t \in Arrival, NEW mode \in {"due", "force"}, RunNow(j, mode, t)
      PROVE  TaskOk'
  <2>1. task' = [by |-> mode, job |-> NoJob, slot |-> NoTime, started |-> NoTime, due |-> {j}]
    BY <1>8 DEF RunNow
  <2>2. Selected(j, mode)'
    BY <1>8 DEF RunNow, Due, Selected
  <2> QED
    BY <2>1, <2>2, NoJobAssumption DEF TaskOk
<1>9. ASSUME NEW j \in Jobs, NEW t \in Arrival,
             \/ \E spec \in Specs : Add(j, spec, t)
             \/ \E patch \in Patches : Update(j, patch, t)
      PROVE  TaskOk'
  BY <1>1, <1>9 DEF Add, Update, Unlocked
<1>10. ASSUME NEW j \in Jobs, Remove(j) PROVE TaskOk'
  BY <1>1, <1>10 DEF Remove, Unlocked
<1>11. ASSUME Tick PROVE TaskOk'
  <2>1. now' = now + 1 /\ UNCHANGED <<task, mem, loop>>
    BY <1>11 DEF Tick
  <2>2. \A j \in Jobs : Selected(j, task.by) => Selected(j, task.by)'
    BY <1>0, <2>1 DEF Selected, Times, NoTime
  <2>3. CASE task = NoTask
    BY <1>1, <2>1, <2>3
  <2>4. CASE task # NoTask
    <3>1. task \in Task /\ task.due \in SUBSET Jobs /\ task.job \in Jobs \cup {NoJob}
      BY <1>0, <2>4 DEF Task
    <3>2. task.started \in Nat /\ task.started <= now => task.started <= now'
      BY <1>0, <2>1
    <3> QED
      BY <2>1, <2>2, <2>4, <3>1, <3>2 DEF TaskOk
  <2> QED
    BY <2>3, <2>4
<1>12. ASSUME UNCHANGED vars PROVE TaskOk'
  BY <1>12 DEF vars, TaskOk, Selected
<1> QED
  BY <1>2, <1>4, <1>5, <1>6, <1>7, <1>8, <1>9, <1>10, <1>11, <1>12
     DEF Next, LoopStep, TaskStep, Request

-----------------------------------------------------------------------------
(* Every next run respects the past.                                       *)

LEMMA RequestKeepsClocks ==
  Request => UNCHANGED <<now, loop, loopTime>>
<1> SUFFICES ASSUME Request PROVE UNCHANGED <<now, loop, loopTime>>
  OBVIOUS
<1>1. ASSUME NEW j, NEW t, NEW spec, Add(j, spec, t) PROVE UNCHANGED <<now, loop, loopTime>>
  BY <1>1 DEF Add
<1>2. ASSUME NEW j, NEW t, NEW patch, Update(j, patch, t) PROVE UNCHANGED <<now, loop, loopTime>>
  BY <1>2 DEF Update
<1>3. ASSUME NEW j, NEW t, NEW mode, RunNow(j, mode, t) PROVE UNCHANGED <<now, loop, loopTime>>
  BY <1>3 DEF RunNow
<1>4. ASSUME NEW j, Remove(j) PROVE UNCHANGED <<now, loop, loopTime>>
  BY <1>4 DEF Remove
<1>5. List \/ RunDropped => UNCHANGED <<now, loop, loopTime>>
  BY DEF List, RunDropped
<1> QED
  BY <1>1, <1>2, <1>3, <1>4, <1>5 DEF Request

LEMMA HistoryNext ==
  TypeOK /\ Clock /\ NoPast /\ TaskOk /\ History /\ [Next]_vars => History'
<1> SUFFICES ASSUME TypeOK, Clock, NoPast, TaskOk, History, [Next]_vars PROVE History'
  OBVIOUS
<1>0. /\ mem \in [Jobs -> Job \cup {NoJob}] /\ ran \in [Jobs -> Run] /\ now \in Nat
      /\ task \in Task \cup {NoTask}
  BY DEF TypeOK
\* No clock that is still in use goes back.
<1>c. OldestClock \in Int /\ OldestClock' \in Int /\ OldestClock <= OldestClock' /\ OldestClock <= now
  <2>1. loop = "fired" => loopTime \in Nat /\ loopTime <= now
    BY DEF Clock
  <2>2. now' \in Nat /\ now <= now' /\ (now' = now \/ UNCHANGED <<loop, loopTime>>)
    <3>1. Request => now' = now
      BY RequestKeepsClocks
    <3>2. TaskStep => now' = now
      BY DEF TaskStep, BeginJob, FinishJob, EndTask
    <3>3. LoopStep \/ Load \/ Crash \/ UNCHANGED vars => now' = now
      BY DEF LoopStep, Arm, Notified, Fire, StartDueJobs, Load, Crash, vars
    <3> QED
      BY <1>0, <3>1, <3>2, <3>3 DEF Next, Tick
  <2>3. loop' = "fired" => \/ UNCHANGED <<loop, loopTime>>
                           \/ loopTime' = now
    <3>1. Request => UNCHANGED <<loop, loopTime>>
      BY RequestKeepsClocks
    <3>2. TaskStep => UNCHANGED <<loop, loopTime>> \/ loop' = "arm"
      BY DEF TaskStep, BeginJob, FinishJob, EndTask
    <3>3. Load \/ Tick \/ UNCHANGED vars => UNCHANGED <<loop, loopTime>>
      BY DEF Load, Tick, vars
    <3> QED
      BY <3>1, <3>2, <3>3 DEF Next, LoopStep, Arm, Notified, Fire, StartDueJobs, Crash
  <2> QED
    BY <1>0, <2>1, <2>2, <2>3 DEF OldestClock
<1>1. ASSUME NEW t \in Nat, mem' = RecomputeAll(mem, t), UNCHANGED ran,
             OldestClock <= t, \A j \in Jobs : ran[j].slot <= t
      PROVE  History'
  <2> SUFFICES ASSUME NEW j \in Jobs PROVE HistoryOk(mem'[j], ran'[j], OldestClock')
    BY DEF History
  <2>1. /\ mem[j] \in Job \cup {NoJob} /\ ran[j] \in Run /\ ran[j].slot <= t
        /\ HistoryOk(mem[j], ran[j], OldestClock)
    BY <1>0, <1>1 DEF History
  <2>2. HistoryOk(Recompute(mem[j], t), ran[j], OldestClock)
    BY <1>1, <1>c, <2>1, RecomputeKeepsHistory
  <2>3. HistoryOk(Recompute(mem[j], t), ran[j], OldestClock')
    BY <1>c, <2>1, <2>2, HistoryLater
  <2> QED
    BY <1>1, <2>3 DEF RecomputeAll
\* The past of one job changes.
<1>2. ASSUME NEW j \in Jobs, \A i \in Jobs \ {j} : mem'[i] = mem[i] /\ ran'[i] = ran[i],
             HistoryOk(mem'[j], ran'[j], OldestClock) \/ HistoryOk(mem'[j], ran'[j], OldestClock'),
             ran'[j] \in Run
      PROVE  History'
  <2> SUFFICES ASSUME NEW i \in Jobs PROVE HistoryOk(mem'[i], ran'[i], OldestClock')
    BY DEF History
  <2>1. CASE i = j
    BY <1>2, <1>c, <2>1, HistoryLater
  <2>2. CASE i # j
    <3>1. ran[i] \in Run /\ HistoryOk(mem[i], ran[i], OldestClock)
      BY <1>0 DEF History
    <3> QED
      BY <1>2, <1>c, <2>2, <3>1, HistoryLater
  <2> QED
    BY <2>1, <2>2
<1>3. ASSUME \A j \in Jobs : ran'[j] = NeverRan PROVE History'
  BY <1>3, NeverRanIsRun, HistoryOfNone DEF History
<1>4. ASSUME UNCHANGED <<mem, ran>> PROVE History'
  <2> SUFFICES ASSUME NEW j \in Jobs PROVE HistoryOk(mem'[j], ran'[j], OldestClock')
    BY DEF History
  <2>1. ran[j] \in Run /\ HistoryOk(mem[j], ran[j], OldestClock)
    BY <1>0 DEF History
  <2> QED
    BY <1>4, <1>c, <2>1, HistoryLater
<1>5. ASSUME StartDueJobs PROVE History'
  BY <1>1, <1>5, <1>c DEF StartDueJobs, Clock, OldestClock
<1>6. ASSUME List PROVE History'
  BY <1>0, <1>1, <1>6, <1>c DEF List, Clock
<1>7. ASSUME BeginJob PROVE History'
  <2>1. task \in Task /\ task # NoTask /\ UNCHANGED ran
    BY <1>0, <1>7 DEF BeginJob
  <2>2. PICK j \in task.due : mem' = [mem EXCEPT ![j].runningAt = now]
    BY <1>7 DEF BeginJob
  <2>3. j \in Jobs /\ mem[j] \in Job
    BY <1>0, <2>1, <2>2 DEF TaskOk, Selected, Task
  <2>4. /\ mem[j] # NoJob /\ HistoryOk(mem[j], ran[j], OldestClock) /\ ran[j] \in Run
        /\ mem'[j] = [mem[j] EXCEPT !.runningAt = now]
        /\ \A i \in Jobs \ {j} : mem'[i] = mem[i]
    BY <1>0, <2>2, <2>3, NoJobAssumption DEF History
  <2> DEFINE new == [mem[j] EXCEPT !.runningAt = now]
  <2>5. /\ new.enabled = mem[j].enabled /\ new.schedule = mem[j].schedule
        /\ new.nextRun = mem[j].nextRun /\ new.lastStatus = mem[j].lastStatus
        /\ new.errors = mem[j].errors
    BY <2>3 DEF Job
  <2> HIDE DEF new
  <2>6. new # NoJob
    BY <2>4, <2>5, <1>0, <2>3, NoJobAssumption DEF new, Job, Times
  <2>7. HistoryOk(new, ran[j], OldestClock)
    BY <2>4, <2>5, <2>6 DEF HistoryOk, Recurs, OneShot
  <2> QED
    BY <1>2, <2>1, <2>3, <2>4, <2>7 DEF new
<1>8. ASSUME FinishJob PROVE History'
  <2>1. task \in Task /\ task # NoTask /\ task.job # NoJob
    BY <1>0, <1>8 DEF FinishJob
  <2> DEFINE j == task.job
  <2>2. j \in Jobs /\ mem[j] \in Job
    BY <1>0, <2>1 DEF TaskOk, Selected, Task
  <2>3. PICK status \in Outcomes(mem[j]) :
          /\ mem' = [mem EXCEPT ![j] = Finished(@, status)]
          /\ ran' = [ran EXCEPT ![j] = IF mem'[j] = NoJob THEN NeverRan
                                       ELSE Ended(@, mem[j], status)]
    BY <1>8 DEF FinishJob
  <2>4. status \in {"ok", "skipped", "error"}
    BY DEF Outcomes
  <2> DEFINE r == Ended(ran[j], mem[j], status)
  <2>5. /\ r \in Run /\ r.ended = now /\ r.asked = NoTime /\ r.slot <= now
        /\ r.until = IF status = "error"
                     THEN now + ErrorBackoff(WithOutcome(mem[j], status).errors) ELSE NoTime
    <3>1. task.by = "timer" => task.slot \in Times /\ task.slot <= now
      BY <2>1 DEF TaskOk, Selected, Task
    <3>2. ran[j] \in Run /\ ran[j].slot <= now
      BY <1>0, <2>2 DEF Clock
    <3> QED
      BY <2>1, <2>2, <2>4, <3>1, <3>2, EndedTyped
  <2>6. /\ mem'[j] = Finished(mem[j], status)
        /\ ran'[j] = IF mem'[j] = NoJob THEN NeverRan ELSE r
        /\ \A i \in Jobs \ {j} : mem'[i] = mem[i] /\ ran'[i] = ran[i]
    BY <1>0, <2>2, <2>3
  <2> HIDE DEF j, r
  <2>7. CASE mem'[j] = NoJob
    BY <1>2, <2>2, <2>6, <2>7, NeverRanIsRun, HistoryOfNone
  <2>8. CASE mem'[j] # NoJob
    <3>1. HistoryOk(Finished(mem[j], status), r, OldestClock)
      BY <1>0, <2>2, <2>4, <2>5, <2>6, <2>8, FinishedKeepsHistory
    <3> QED
      BY <1>2, <2>2, <2>5, <2>6, <2>8, <3>1
  <2> QED
    BY <2>7, <2>8
<1>9. ASSUME NEW j \in Jobs, NEW t \in Arrival, NEW spec \in Specs, Add(j, spec, t)
      PROVE  History'
  <2>1. ran[j] = NeverRan /\ ran' = ran /\ \A i \in Jobs \ {j} : mem'[i] = mem[i]
    BY <1>0, <1>9 DEF Add, NoPast
  <2> QED
    BY <1>2, <2>1, NeverRanIsRun, HistoryOfNone
<1>10. ASSUME NEW j \in Jobs, NEW t \in Arrival, NEW patch \in Patches, Update(j, patch, t)
       PROVE  History'
  <2>1. t \in Nat /\ t <= now
    BY <1>0, ArrivalInNat
  <2>0. PICK p : \E new \in Job : Updated(j, p, new, t)
    BY <1>0, <1>10, <2>1, Updates
  <2>2. PICK new \in Job :
          /\ Sound(p) /\ mem[j] \in Job /\ mem' = [mem EXCEPT ![j] = new]
          /\ \/ new = Patched(mem[j], p, t) /\ Reject(j, new, p, t)
             \/ /\ new = Rescheduled(Patched(mem[j], p, t), p, t)
                /\ ran' = [ran EXCEPT ![j] = Retimed(@, new, p, {t})]
                /\ PersistAndNotify(mem')
    BY <2>0 DEF Updated
  <2>3. /\ HistoryOk(mem[j], ran[j], OldestClock) /\ ran[j] \in Run
        /\ mem'[j] = new /\ \A i \in Jobs \ {j} : mem'[i] = mem[i]
    BY <1>0, <2>2 DEF History
  <2> DEFINE job == Patched(mem[j], p, t)
  <2>4. /\ job \in Job /\ (mem[j].lastStatus # "none" => job.lastStatus # "none")
        /\ DOMAIN p \cap {"schedule", "enabled", "nextRun"} = {}
           => /\ job.schedule = mem[j].schedule /\ job.enabled = mem[j].enabled
              /\ job.nextRun = mem[j].nextRun
    BY <2>1, <2>2, PatchedTyped
  \* Rejected: whoever recomputes next may use the clock of the waiting loop.
  <2>5. CASE new = job /\ Reject(j, new, p, t)
    <3> DEFINE clocks == {t} \cup (IF loop = "fired" THEN {loopTime} ELSE {})
    <3>1. clocks \in SUBSET Nat /\ clocks # {} /\ \E u \in clocks : u <= OldestClock
      BY <2>1 DEF Clock, OldestClock
    <3>2. ran'[j] = Retimed(ran[j], new, p, clocks) /\ \A i \in Jobs \ {j} : ran'[i] = ran[i]
      BY <1>0, <2>5 DEF Reject
    <3> HIDE DEF clocks, job
    <3>3. HistoryOk(new, Retimed(ran[j], new, p, clocks), OldestClock)
      BY <1>c, <2>2, <2>3, <2>4, <2>5, <3>1, PatchKeepsHistory
    <3>4. Retimed(ran[j], new, p, clocks) \in Run
      BY <2>3, <3>1, RetimedIs
    <3> QED
      BY <1>2, <2>3, <3>2, <3>3, <3>4
  \* Accepted: an "every" job has its next run.
  <2>6. CASE /\ new = Rescheduled(job, p, t)
             /\ ran' = [ran EXCEPT ![j] = Retimed(@, new, p, {t})]
    <3>1. {t} \in SUBSET Nat /\ {t} # {}
      BY <2>1
    <3>2. ran'[j] = Retimed(ran[j], new, p, {t}) /\ \A i \in Jobs \ {j} : ran'[i] = ran[i]
      BY <1>0, <2>6
    <3> HIDE DEF job
    <3>3. /\ new.lastStatus = job.lastStatus
          /\ DOMAIN p \cap {"schedule", "enabled"} = {} => new = job
      BY <2>1, <2>4, <2>6, RescheduledTyped
    <3>4. CASE DOMAIN p \cap {"schedule", "enabled", "nextRun"} = {}
      <4>1. /\ new.schedule = mem[j].schedule /\ new.enabled = mem[j].enabled
            /\ new.nextRun = mem[j].nextRun
        BY <2>4, <3>3, <3>4
      <4>2. new # NoJob /\ mem[j] # NoJob /\ (mem[j].lastStatus # "none" => new.lastStatus # "none")
        BY <2>2, <2>4, <3>3, NoJobAssumption
      <4>3. Retimed(ran[j], new, p, {t}) = ran[j]
        BY <3>4 DEF Retimed
      <4>4. HistoryOk(new, ran[j], OldestClock)
        BY <2>3, <4>1, <4>2 DEF HistoryOk, Recurs, OneShot
      <4> QED
        BY <1>2, <2>3, <3>2, <4>3, <4>4
    <3>5. CASE DOMAIN p \cap {"schedule", "enabled", "nextRun"} # {}
      <4>1. new.enabled /\ new.schedule.kind = "every" /\ new.nextRun = NoTime
            => DOMAIN p \cap {"schedule", "enabled"} = {}
        <5>1. ASSUME DOMAIN p \cap {"schedule", "enabled"} # {}, new.enabled,
                     new.schedule.kind = "every"
              PROVE  new.nextRun # NoTime
          <6>1. job.enabled /\ new = [job EXCEPT !.nextRun = NextRun(job, t)]
            BY <2>4, <2>6, <5>1 DEF Rescheduled, Job
          <6>2. job.schedule.kind = "every" /\ new.nextRun = NextRun(job, t)
            BY <2>4, <5>1, <6>1 DEF Job
          <6> QED
            BY <2>1, <2>4, <6>1, <6>2, NextRunAhead DEF OneShot
        <5> QED
          BY <5>1
      <4>2. CASE new.enabled /\ new.schedule.kind = "every" /\ new.nextRun = NoTime
        <5>1. new = job /\ "nextRun" \in DOMAIN p
          BY <3>3, <3>5, <4>1, <4>2
        <5>2. job.nextRun = p.nextRun
          BY <2>2, <5>1 DEF Patched, job, Job
        <5>3. p.nextRun \in Nat
          BY <2>2, <5>1 DEF Sound
        <5> QED
          BY <4>2, <5>1, <5>2, <5>3 DEF NoTime
      <4>3. CASE ~(new.enabled /\ new.schedule.kind = "every" /\ new.nextRun = NoTime)
        <5>1. HistoryOk(new, Retimed(ran[j], new, p, {t}), OldestClock)
          BY <1>c, <2>2, <2>3, <2>4, <3>1, <3>3, <3>5, <4>3, PatchKeepsHistory
        <5>2. Retimed(ran[j], new, p, {t}) \in Run
          BY <2>2, <2>3, <3>1, RetimedIs
        <5> QED
          BY <1>2, <2>3, <3>2, <5>1, <5>2
      <4> QED
        BY <4>2, <4>3
    <3> QED
      BY <3>4, <3>5
  <2> QED
    BY <2>2, <2>5, <2>6
<1>11. ASSUME NEW j \in Jobs, Remove(j) PROVE History'
  <2>1. ran'[j] = NeverRan /\ \A i \in Jobs \ {j} : mem'[i] = mem[i] /\ ran'[i] = ran[i]
    BY <1>0, <1>11 DEF Remove
  <2> QED
    BY <1>2, <2>1, NeverRanIsRun, HistoryOfNone
<1>12. ASSUME Load \/ Crash PROVE History'
  BY <1>3, <1>12 DEF Load, Crash, NoPast
<1>13. ASSUME Arm \/ Notified \/ Fire \/ EndTask \/ RunDropped \/ Tick \/ UNCHANGED vars
       PROVE  History'
  BY <1>4, <1>13 DEF Arm, Notified, Fire, EndTask, RunDropped, Tick, vars
<1>14. ASSUME NEW j \in Jobs, NEW t \in Arrival, NEW mode \in {"due", "force"}, RunNow(j, mode, t)
       PROVE  History'
  BY <1>4, <1>14 DEF RunNow
<1> QED
  BY <1>5, <1>6, <1>7, <1>8, <1>9, <1>10, <1>11, <1>12, <1>13, <1>14
     DEF Next, LoopStep, TaskStep, Request

-----------------------------------------------------------------------------
(* The file and the wake-up.                                               *)

\* A stored job that has its next run gets the same state from a recomputation,
\* whether or not the store was recomputed in between.
LEMMA RecomputeTwice ==
  ASSUME NEW job \in Job \cup {NoJob}, Timed(job), NEW t \in Nat, NEW u \in Nat, t <= u
  PROVE  /\ Timed(Recompute(job, t))
         /\ Recompute(Recompute(job, t), u) = Recompute(job, u)
<1>1. CASE job = NoJob
  BY <1>1 DEF Recompute, Timed
<1>2. CASE job # NoJob
  <2> DEFINE over == [[[job EXCEPT !.enabled = FALSE] EXCEPT !.nextRun = NoTime]
                      EXCEPT !.runningAt = NoTime]
             mark(v) == IF job.runningAt # NoTime /\ v - job.runningAt > Stuck
                        THEN NoTime ELSE job.runningAt
             live(v) == [job EXCEPT !.runningAt = mark(v)]
  <2>1. job \in Job /\ Stuck \in Nat
    BY <1>2, CronAssumption
  <2>2. CASE ~job.enabled \/ (OneShot(job) /\ job.lastStatus # "none")
    <3>1. over \in Job /\ over # NoJob /\ ~over.enabled /\ over.nextRun = NoTime
          /\ over.runningAt = NoTime
      <4>1. over \in Job
        BY <2>1 DEF Job, Times
      <4>2. ~over.enabled /\ over.nextRun = NoTime /\ over.runningAt = NoTime
        BY <2>1 DEF Job
      <4> HIDE DEF over
      <4> QED
        BY <4>1, <4>2, NoJobAssumption
    <3>2. \A v \in Nat : Recompute(job, v) = over
      <4>1. CASE ~job.enabled
        <5>1. over = [job EXCEPT !.nextRun = NoTime, !.runningAt = NoTime]
          BY <2>1, <4>1 DEF Job
        <5> HIDE DEF over
        <5> QED
          BY <1>2, <4>1, <5>1 DEF Recompute
      <4>2. CASE job.enabled /\ OneShot(job) /\ job.lastStatus # "none"
        BY <1>2, <4>2 DEF Recompute
      <4> QED
        BY <2>2, <4>1, <4>2
    <3>3. Recompute(over, u) = over
      <4> HIDE DEF over
      <4> QED
        BY <3>1 DEF Recompute, Job
    <3> HIDE DEF over
    <3> QED
      BY <3>1, <3>2, <3>3 DEF Timed
  <2>3. CASE job.enabled /\ ~(OneShot(job) /\ job.lastStatus # "none")
    <3>1. job.nextRun # NoTime
      BY <1>2, <2>3 DEF Timed
    <3>2. \A v \in Nat : Recompute(job, v) = live(v)
      BY <1>2, <2>1, <2>3, <3>1 DEF Recompute, Job
    <3>3. \A v \in Nat :
            /\ live(v) \in Job /\ live(v) # NoJob /\ live(v).enabled
            /\ live(v).schedule = job.schedule /\ live(v).lastStatus = job.lastStatus
            /\ live(v).nextRun = job.nextRun /\ live(v).runningAt = mark(v)
      BY <2>1, <2>3, NoJobAssumption DEF Job, Times
    <3>4. Recompute(live(t), u) = [live(t) EXCEPT
            !.runningAt = IF mark(t) # NoTime /\ u - mark(t) > Stuck THEN NoTime ELSE mark(t)]
      <4>1. /\ live(t) \in Job /\ live(t) # NoJob /\ live(t).enabled /\ live(t).nextRun # NoTime
            /\ ~(OneShot(live(t)) /\ live(t).lastStatus # "none") /\ live(t).runningAt = mark(t)
        BY <2>3, <3>1, <3>3 DEF OneShot
      <4> HIDE DEF live, mark
      <4> QED
        BY <4>1 DEF Recompute, Job
    <3>5. (IF mark(t) # NoTime /\ u - mark(t) > Stuck THEN NoTime ELSE mark(t)) = mark(u)
      BY <2>1 DEF Job, Times, NoTime
    <3>6. [live(t) EXCEPT !.runningAt = mark(u)] = live(u)
      <4> HIDE DEF mark
      <4> QED
        BY <2>1 DEF Job
    <3> HIDE DEF live, mark
    <3> QED
      BY <3>1, <3>2, <3>3, <3>4, <3>5, <3>6 DEF Timed
  <2> QED
    BY <2>2, <2>3
<1> QED
  BY <1>1, <1>2

\* A recomputed job that is due and not marked as running stays as it is.
LEMMA DueIsStable ==
  ASSUME NEW job \in Job \cup {NoJob}, NEW t \in Nat, NEW u \in Nat,
         Due(Recompute(job, t), t), Recompute(job, t).runningAt = NoTime
  PROVE  Recompute(Recompute(job, t), u) = Recompute(job, t)
<1> DEFINE new == Recompute(job, t)
<1>1. new \in Job /\ new # NoJob /\ new.enabled /\ new.nextRun # NoTime
  BY RecomputeTyped DEF Due
<1>2. ~(OneShot(new) /\ new.lastStatus # "none")
  <2>1. job # NoJob /\ job \in Job
    BY <1>1 DEF Recompute
  <2>2. job.enabled /\ ~(OneShot(job) /\ job.lastStatus # "none")
    BY <1>1, <2>1 DEF Recompute, Job
  <2>3. new.schedule = job.schedule /\ new.lastStatus = job.lastStatus
    BY <2>1, <2>2 DEF Recompute, Job
  <2> QED
    BY <2>2, <2>3 DEF OneShot
<1>3. new.runningAt = NoTime
  OBVIOUS
<1> HIDE DEF new
<1>4. Recompute(new, u) = new
  BY <1>1, <1>2, <1>3 DEF Recompute, Job
<1> QED
  BY <1>4 DEF new

\* After the last step of a request the file is the memory and the loop has a
\* permit, or the write failed.
LEMMA Notifies ==
  ASSUME NEW jobs, PersistAndNotify(jobs), permit \in BOOLEAN
  PROVE  unsaved' \/ (disk' = jobs /\ permit' /\ ~unsaved')
BY DEF PersistAndNotify, Persist, Write

\* An execution that goes on holds the lock.
LEMMA TaskGoesOn ==
  ASSUME TypeOK, TaskOk, BeginJob \/ FinishJob
  PROVE  task \in Task /\ task' \in Task /\ task'.by = task.by
<1>0. mem \in [Jobs -> Job \cup {NoJob}] /\ now \in Nat /\ task \in Task \cup {NoTask}
  BY DEF TypeOK
<1>1. CASE BeginJob
  <2>1. task \in Task /\ task # NoTask
    BY <1>0, <1>1 DEF BeginJob
  <2>2. PICK j \in task.due :
          task' = [task EXCEPT !.job = j, !.due = @ \ {j},
                               !.slot = mem[j].nextRun, !.started = now]
    BY <1>1 DEF BeginJob
  <2>3. j \in Jobs /\ mem[j].nextRun \in Times
    BY <1>0, <2>1, <2>2 DEF TaskOk, Selected, Task, Job
  <2> QED
    BY <1>0, <2>1, <2>2, <2>3 DEF Task, Times
<1>2. CASE FinishJob
  BY <1>0, <1>2 DEF FinishJob, Task
<1> QED
  BY <1>1, <1>2

LEMMA FileNext == TypeOK /\ Clock /\ NoPast /\ TaskOk /\ FileOk /\ [Next]_vars => FileOk'
<1> SUFFICES ASSUME TypeOK, Clock, NoPast, TaskOk, FileOk, [Next]_vars PROVE FileOk'
  OBVIOUS
<1>0. /\ mem \in [Jobs -> Job \cup {NoJob}] /\ disk \in [Jobs -> Job \cup {NoJob}]
      /\ now \in Nat /\ permit \in BOOLEAN /\ task \in Task \cup {NoTask}
  BY DEF TypeOK
<1>1. ASSUME loaded', unsaved' \/ disk' = mem' PROVE FileOk'
  <2>1. disk' = mem' => \A j \in Jobs : Kept(j)'
    BY DEF Kept
  <2> QED
    BY <1>1, <2>1 DEF FileOk
<1>2. ASSUME Load PROVE FileOk'
  <2>1. /\ mem' = RecomputeAll(disk, now) /\ disk' \in {mem', disk}
        /\ loaded' /\ UNCHANGED <<now, unsaved, loop>>
    BY <1>2 DEF Load, Write
  <2>2. ASSUME NEW j \in Jobs, disk' = disk PROVE Kept(j)'
    <3>1. disk[j] \in Job \cup {NoJob} /\ mem'[j] = Recompute(disk[j], now)
      BY <1>0, <2>1 DEF RecomputeAll
    <3>2. Timed(disk[j]) =>
            Timed(mem'[j]) /\ Recompute(mem'[j], now) = Recompute(disk[j], now)
      BY <1>0, <3>1, RecomputeTwice
    <3> QED
      BY <2>1, <2>2, <3>2 DEF Kept
  <2> QED
    BY <1>1, <2>1, <2>2 DEF FileOk
<1>3. ASSUME task' # NoTask, UNCHANGED <<loaded, unsaved>>, ~loaded => loop' = "arm"
      PROVE  FileOk'
  BY <1>3 DEF FileOk, Unlocked
<1>4. ASSUME UNCHANGED <<mem, disk, now, loaded, task, unsaved>>, ~loaded => loop' = "arm"
      PROVE  FileOk'
  BY <1>4 DEF FileOk, Unlocked, Kept
<1>5. ASSUME Arm \/ Notified \/ Fire PROVE FileOk'
  BY <1>4, <1>5 DEF Arm, Notified, Fire, FileOk, Unlocked
<1>6. ASSUME StartDueJobs PROVE FileOk'
  <2>1. task' \in Task
    BY <1>6 DEF StartDueJobs, Task, Times
  <2> QED
    BY <1>3, <1>6, <2>1, NoTaskAssumption DEF StartDueJobs, Unlocked
<1>7. ASSUME BeginJob \/ FinishJob PROVE FileOk'
  <2>1. task' # NoTask /\ loaded
    BY <1>7, TaskGoesOn, NoTaskAssumption DEF BeginJob, FinishJob, NoPast
  <2> QED
    BY <1>3, <1>7, <2>1 DEF BeginJob, FinishJob
<1>8. ASSUME EndTask PROVE FileOk'
  <2>1. loaded' /\ mem' = mem
    BY <1>8 DEF EndTask, NoPast
  <2>2. unsaved' \/ disk' = mem'
    BY <1>0, <1>8, <2>1, Notifies DEF EndTask, Persist, Write
  <2> QED
    BY <1>1, <2>1, <2>2
<1>9. ASSUME NEW j \in Jobs, NEW t \in Arrival, NEW spec \in Specs, Add(j, spec, t)
      PROVE  FileOk'
  BY <1>0, <1>1, <1>9, Notifies DEF Add, Unlocked
<1>10. ASSUME NEW j \in Jobs, NEW t \in Arrival, NEW patch \in Patches, Update(j, patch, t)
       PROVE  FileOk'
  <2>1. loaded' /\ (unsaved' \/ PersistAndNotify(mem'))
    BY <1>10 DEF Update, Reject, Unlocked
  <2> QED
    BY <1>0, <1>1, <2>1, Notifies
<1>11. ASSUME NEW j \in Jobs, Remove(j) PROVE FileOk'
  BY <1>0, <1>1, <1>11, Notifies DEF Remove, Unlocked
<1>12. ASSUME List PROVE FileOk'
  <2>1. /\ loaded /\ task = NoTask /\ mem' = RecomputeAll(mem, now)
        /\ UNCHANGED <<now, disk, loaded, loop, task, unsaved>>
    BY <1>12 DEF List, Unlocked
  <2>2. ASSUME NEW j \in Jobs, ~unsaved PROVE Kept(j)'
    <3>1. Kept(j) /\ mem[j] \in Job \cup {NoJob} /\ mem'[j] = Recompute(mem[j], now)
      BY <1>0, <2>1, <2>2 DEF FileOk, Unlocked, RecomputeAll
    <3>2. Timed(mem[j]) =>
            Timed(mem'[j]) /\ Recompute(mem'[j], now) = Recompute(mem[j], now)
      BY <1>0, <3>1, RecomputeTwice
    <3> QED
      BY <2>1, <3>1, <3>2 DEF Kept
  <2> QED
    BY <2>1, <2>2 DEF FileOk
<1>13. ASSUME NEW j \in Jobs, NEW t \in Arrival, NEW mode \in {"due", "force"}, RunNow(j, mode, t)
       PROVE  FileOk'
  <2>1. task' \in Task
    BY <1>13 DEF RunNow, Task, Times
  <2> QED
    BY <1>3, <1>13, <2>1, NoTaskAssumption DEF RunNow, Unlocked
<1>14. ASSUME RunDropped PROVE FileOk'
  BY <1>1, <1>14 DEF RunDropped, NoPast
<1>15. ASSUME Tick PROVE FileOk'
  <2>1. now' = now + 1 /\ UNCHANGED <<mem, disk, loaded, loop, task, unsaved>>
    BY <1>15 DEF Tick
  <2>2. ASSUME NEW j \in Jobs, Kept(j) PROVE Kept(j)'
    <3>1. mem[j] \in Job \cup {NoJob} /\ disk[j] \in Job \cup {NoJob}
          /\ now' \in Nat /\ now <= now'
      BY <1>0, <2>1
    <3>2. Timed(disk[j]) => Recompute(Recompute(disk[j], now), now') = Recompute(disk[j], now')
      BY <1>0, <3>1, RecomputeTwice
    <3>3. Timed(mem[j]) => Recompute(Recompute(mem[j], now), now') = Recompute(mem[j], now')
      BY <1>0, <3>1, RecomputeTwice
    <3> QED
      BY <2>1, <2>2, <3>2, <3>3 DEF Kept
  <2> QED
    BY <2>1, <2>2 DEF FileOk, Unlocked
<1>16. ASSUME Crash PROVE FileOk'
  BY <1>16 DEF Crash, FileOk, Unlocked
<1>17. ASSUME UNCHANGED vars PROVE FileOk'
  BY <1>4, <1>17 DEF vars, FileOk
<1> QED
  BY <1>2, <1>5, <1>6, <1>7, <1>8, <1>9, <1>10, <1>11, <1>12, <1>13, <1>14, <1>15, <1>16,
     <1>17 DEF Next, LoopStep, TaskStep, Request

\* A timer task that crashes now is repeated.
LEMMA RepeatNext ==
  /\ TypeOK /\ Clock /\ NoPast /\ TaskOk /\ FileOk /\ CrashRepeatsUnfinished
  /\ [Next]_vars
  => CrashRepeatsUnfinished'
<1> SUFFICES ASSUME TypeOK, Clock, NoPast, TaskOk, FileOk, CrashRepeatsUnfinished,
                    [Next]_vars
             PROVE  CrashRepeatsUnfinished'
  OBVIOUS
<1> DEFINE rest(t) == t.due \cup ({t.job} \ {NoJob})
           Again(j) == LET reloaded == Recompute(disk[j], now)
                       IN Timed(disk[j]) => Due(reloaded, now) /\ reloaded.runningAt = NoTime
<1>0. /\ mem \in [Jobs -> Job \cup {NoJob}] /\ disk \in [Jobs -> Job \cup {NoJob}]
      /\ now \in Nat /\ task \in Task \cup {NoTask}
  BY DEF TypeOK
<1>a. CrashRepeatsUnfinished <=>
        (task # NoTask /\ task.by = "timer" /\ ~unsaved => \A j \in rest(task) : Again(j))
  BY DEF CrashRepeatsUnfinished
<1>b. CrashRepeatsUnfinished' <=>
        (task' # NoTask /\ task'.by = "timer" /\ ~unsaved' => \A j \in rest(task') : Again(j)')
  BY DEF CrashRepeatsUnfinished
<1>1. ASSUME task' = NoTask \/ unsaved' PROVE CrashRepeatsUnfinished'
  BY <1>1, <1>b
<1>2. ASSUME UNCHANGED <<disk, now, unsaved>>, task # NoTask, task'.by = task.by,
             rest(task') \subseteq rest(task)
      PROVE  CrashRepeatsUnfinished'
  BY <1>2, <1>a, <1>b
<1>3. ASSUME UNCHANGED <<disk, now, unsaved, task>> PROVE CrashRepeatsUnfinished'
  BY <1>3 DEF CrashRepeatsUnfinished
<1>4. ASSUME StartDueJobs PROVE CrashRepeatsUnfinished'
  <2>1. /\ loopTime \in Nat /\ loopTime <= now /\ Unlocked
        /\ mem' = RecomputeAll(mem, loopTime)
        /\ task'.due = {j \in Jobs : Due(mem'[j], loopTime) /\ mem'[j].runningAt = NoTime}
        /\ task'.job = NoJob
        /\ UNCHANGED <<disk, now, unsaved>>
    BY <1>4 DEF StartDueJobs, Clock
  <2>2. ASSUME NEW j \in Jobs, Due(mem'[j], loopTime), mem'[j].runningAt = NoTime,
               ~unsaved, Timed(disk[j])
        PROVE  Due(Recompute(disk[j], now), now) /\ Recompute(disk[j], now).runningAt = NoTime
    <3>1. /\ mem[j] \in Job \cup {NoJob} /\ mem'[j] = Recompute(mem[j], loopTime)
          /\ Timed(mem[j]) /\ Recompute(disk[j], now) = Recompute(mem[j], now)
      BY <1>0, <2>1, <2>2 DEF FileOk, Kept, RecomputeAll
    <3>2. Recompute(mem'[j], now) = Recompute(mem[j], now)
      BY <1>0, <2>1, <3>1, RecomputeTwice
    <3>3. Recompute(mem'[j], now) = mem'[j]
      <4>1. /\ Due(Recompute(mem[j], loopTime), loopTime)
            /\ Recompute(mem[j], loopTime).runningAt = NoTime
        BY <2>2, <3>1
      <4>2. Recompute(Recompute(mem[j], loopTime), now) = Recompute(mem[j], loopTime)
        BY <1>0, <2>1, <3>1, <4>1, DueIsStable
      <4> QED
        BY <3>1, <4>2
    <3>4. mem'[j] \in Job
      BY <2>1, <2>2, <3>1, RecomputeTyped DEF Due
    <3>5. Due(mem'[j], now)
      BY <1>0, <2>1, <2>2, <3>4 DEF Due, Job, Times
    <3> QED
      BY <2>2, <3>1, <3>2, <3>3, <3>5
  <2>3. \A j \in rest(task') : j \in Jobs /\ Due(mem'[j], loopTime) /\ mem'[j].runningAt = NoTime
    BY <2>1
  <2> QED
    BY <1>b, <2>1, <2>2, <2>3
<1>5. ASSUME BeginJob PROVE CrashRepeatsUnfinished'
  <2>1. task \in Task /\ task # NoTask /\ UNCHANGED <<disk, now, unsaved>>
    BY <1>0, <1>5 DEF BeginJob
  <2>2. PICK j \in task.due :
          task' = [task EXCEPT !.job = j, !.due = @ \ {j},
                               !.slot = mem[j].nextRun, !.started = now]
    BY <1>5 DEF BeginJob
  <2>3. task'.by = task.by /\ task'.job = j /\ task'.due = task.due \ {j}
    BY <2>1, <2>2 DEF Task
  <2> QED
    BY <1>2, <2>1, <2>3
<1>6. ASSUME FinishJob PROVE CrashRepeatsUnfinished'
  <2>1. /\ task \in Task /\ task # NoTask /\ UNCHANGED <<disk, now, unsaved>>
        /\ task'.by = task.by /\ task'.job = NoJob /\ task'.due = task.due
    BY <1>0, <1>6 DEF FinishJob, Task
  <2> QED
    BY <1>2, <2>1
<1>7. ASSUME NEW j \in Jobs, NEW t \in Arrival, NEW mode \in {"due", "force"}, RunNow(j, mode, t)
      PROVE  CrashRepeatsUnfinished'
  <2>1. task'.by # "timer"
    BY <1>7 DEF RunNow
  <2> QED
    BY <1>b, <2>1
<1>8. ASSUME Tick PROVE CrashRepeatsUnfinished'
  <2>1. now' = now + 1 /\ UNCHANGED <<disk, task, unsaved>>
    BY <1>8 DEF Tick
  <2>2. ASSUME NEW j \in Jobs, Again(j) PROVE Again(j)'
    <3>1. SUFFICES ASSUME Timed(disk[j])
                   PROVE  /\ Due(Recompute(disk[j], now'), now')
                          /\ Recompute(disk[j], now').runningAt = NoTime
      BY <2>1
    <3>2. /\ disk[j] \in Job \cup {NoJob} /\ now' \in Nat /\ now <= now'
          /\ Due(Recompute(disk[j], now), now) /\ Recompute(disk[j], now).runningAt = NoTime
      BY <1>0, <2>1, <2>2, <3>1
    <3>3. Recompute(Recompute(disk[j], now), now') = Recompute(disk[j], now')
      BY <1>0, <3>1, <3>2, RecomputeTwice
    <3>4. Recompute(Recompute(disk[j], now), now') = Recompute(disk[j], now)
      BY <1>0, <3>2, DueIsStable
    <3>5. Recompute(disk[j], now) \in Job
      BY <1>0, <3>2, RecomputeTyped DEF Due
    <3>6. Due(Recompute(disk[j], now), now')
      BY <1>0, <3>2, <3>5 DEF Due, Job, Times
    <3> QED
      BY <3>2, <3>3, <3>4, <3>6
  <2>3. task # NoTask => rest(task) \subseteq Jobs
    BY <1>0 DEF Task
  <2>4. ASSUME task # NoTask, task.by = "timer", ~unsaved
        PROVE  \A j \in rest(task) : Again(j)'
    <3> HIDE DEF Again
    <3> QED
      BY <1>a, <2>2, <2>3, <2>4
  <2>5. task' = task /\ unsaved' = unsaved /\ rest(task') = rest(task)
    BY <2>1
  <2> HIDE DEF rest, Again
  <2> QED
    BY <1>b, <2>4, <2>5
<1>9. ASSUME Load \/ List \/ Crash PROVE CrashRepeatsUnfinished'
  BY <1>1, <1>9 DEF Load, List, Crash, NoPast, Unlocked
<1>10. ASSUME NEW j \in Jobs, NEW t \in Arrival,
              \/ \E spec \in Specs : Add(j, spec, t)
              \/ \E patch \in Patches : Update(j, patch, t)
       PROVE  CrashRepeatsUnfinished'
  BY <1>1, <1>10 DEF Add, Update, Unlocked
<1>11. ASSUME NEW j \in Jobs, Remove(j) PROVE CrashRepeatsUnfinished'
  BY <1>1, <1>11 DEF Remove, Unlocked
<1>12. ASSUME Arm \/ Notified \/ Fire \/ UNCHANGED vars PROVE CrashRepeatsUnfinished'
  BY <1>3, <1>12 DEF Arm, Notified, Fire, vars
<1>13. ASSUME EndTask \/ RunDropped PROVE CrashRepeatsUnfinished'
  BY <1>1, <1>13 DEF EndTask, RunDropped
<1> QED
  BY <1>4, <1>5, <1>6, <1>7, <1>8, <1>9, <1>10, <1>11, <1>12, <1>13
     DEF Next, LoopStep, TaskStep, Request

\* The wake-up is the next run of some job, and no later than that of any other.
LEMMA NextWakeIsFirst ==
  ASSUME NEW jobs \in [Jobs -> Job \cup {NoJob}], NEW j \in Jobs,
         jobs[j] # NoJob, jobs[j].enabled, jobs[j].nextRun # NoTime
  PROVE  NextWake(jobs) # NoTime /\ NextWake(jobs) <= jobs[j].nextRun
<1> DEFINE enabled == {i \in Jobs : jobs[i] # NoJob /\ jobs[i].enabled}
           times == {jobs[i].nextRun : i \in enabled} \ {NoTime}
<1>1. \A i \in enabled : jobs[i].nextRun \in Times
  BY DEF Job
<1>2. times \in SUBSET Nat /\ jobs[j].nextRun \in times
  BY <1>1 DEF Times
<1>3. NextWake(jobs) = Min(times)
  BY <1>2 DEF NextWake
<1> HIDE DEF times
<1>4. Min(times) \in Nat /\ Min(times) <= jobs[j].nextRun
  BY <1>2, MinOfNats
<1> QED
  BY <1>3, <1>4 DEF NoTime

LEMMA WakeNext ==
  /\ TypeOK /\ Clock /\ NoPast /\ TaskOk /\ FileOk /\ NoWakeUpLost /\ [Next]_vars
  => NoWakeUpLost'
<1> SUFFICES ASSUME TypeOK, Clock, NoPast, TaskOk, FileOk, NoWakeUpLost, [Next]_vars
             PROVE  NoWakeUpLost'
  OBVIOUS
<1>0. /\ mem \in [Jobs -> Job \cup {NoJob}] /\ disk \in [Jobs -> Job \cup {NoJob}]
      /\ now \in Nat /\ permit \in BOOLEAN /\ loop \in {"arm", "idle", "sleep", "fired", "running"}
  BY DEF TypeOK
<1>1. ASSUME \/ loop' \notin {"idle", "sleep"} \/ permit' \/ unsaved' \/ ~Unlocked'
      PROVE  NoWakeUpLost'
  BY <1>1 DEF NoWakeUpLost
<1>2. ASSUME Load PROVE NoWakeUpLost'
  BY <1>1, <1>2 DEF Load, FileOk
<1>3. ASSUME Arm PROVE NoWakeUpLost'
  <2>1. /\ Unlocked /\ loopTime' = NextWake(mem)
        /\ loop' = IF loopTime' = NoTime THEN "idle" ELSE "sleep"
        /\ UNCHANGED <<mem, disk, unsaved>>
    BY <1>3 DEF Arm
  <2>2. ASSUME NEW j \in Jobs, ~unsaved, Timed(disk[j]), mem[j] # NoJob, mem[j].enabled
        PROVE  loop' = "sleep" /\ loopTime' <= mem[j].nextRun
    <3>1. mem[j].nextRun # NoTime
      BY <2>1, <2>2 DEF FileOk, Kept, Timed
    <3>2. NextWake(mem) # NoTime /\ NextWake(mem) <= mem[j].nextRun
      BY <1>0, <2>2, <3>1, NextWakeIsFirst
    <3> QED
      BY <2>1, <3>2
  <2> QED
    BY <2>1, <2>2 DEF NoWakeUpLost
<1>4. ASSUME UNCHANGED <<mem, disk, loaded, permit, loop, loopTime, task, unsaved>>
      PROVE  NoWakeUpLost'
  BY <1>4 DEF NoWakeUpLost, Unlocked
<1>5. ASSUME Notified \/ Fire \/ StartDueJobs PROVE NoWakeUpLost'
  BY <1>1, <1>5 DEF Notified, Fire, StartDueJobs
<1>6. ASSUME BeginJob \/ FinishJob PROVE NoWakeUpLost'
  BY <1>1, <1>6, TaskGoesOn, NoTaskAssumption DEF Unlocked
<1>7. ASSUME EndTask PROVE NoWakeUpLost'
  BY <1>0, <1>1, <1>7, Notifies DEF EndTask
<1>8. ASSUME NEW j \in Jobs, NEW t \in Arrival, NEW spec \in Specs, Add(j, spec, t)
      PROVE  NoWakeUpLost'
  BY <1>0, <1>1, <1>8, Notifies DEF Add
<1>9. ASSUME NEW j \in Jobs, NEW t \in Arrival, NEW patch \in Patches, Update(j, patch, t)
      PROVE  NoWakeUpLost'
  <2>1. unsaved' \/ PersistAndNotify(mem')
    BY <1>9 DEF Update, Reject
  <2> QED
    BY <1>0, <1>1, <2>1, Notifies
<1>10. ASSUME NEW j \in Jobs, Remove(j) PROVE NoWakeUpLost'
  BY <1>0, <1>1, <1>10, Notifies DEF Remove
<1>11. ASSUME List PROVE NoWakeUpLost'
  <2>1. /\ Unlocked /\ mem' = RecomputeAll(mem, now)
        /\ UNCHANGED <<disk, permit, loop, loopTime, unsaved>>
    BY <1>11 DEF List
  <2>2. ASSUME NEW j \in Jobs, ~unsaved, Timed(disk[j]), mem'[j] # NoJob, mem'[j].enabled
        PROVE  mem[j] # NoJob /\ mem[j].enabled /\ mem'[j].nextRun = mem[j].nextRun
    <3>1. mem[j] \in Job \cup {NoJob} /\ mem'[j] = Recompute(mem[j], now) /\ Timed(mem[j])
      BY <1>0, <2>1, <2>2 DEF RecomputeAll, FileOk, Kept
    <3>2. mem[j] # NoJob /\ mem[j] \in Job
      BY <2>2, <3>1 DEF Recompute
    <3>3. mem[j].enabled /\ ~(OneShot(mem[j]) /\ mem[j].lastStatus # "none")
      BY <2>2, <3>1, <3>2 DEF Recompute, Job
    <3>4. mem[j].nextRun # NoTime
      BY <3>1, <3>2, <3>3 DEF Timed
    <3> QED
      BY <3>1, <3>2, <3>3, <3>4 DEF Recompute, Job
  <2> QED
    BY <2>1, <2>2 DEF NoWakeUpLost
<1>12. ASSUME NEW j \in Jobs, NEW t \in Arrival, NEW mode \in {"due", "force"}, RunNow(j, mode, t)
       PROVE  NoWakeUpLost'
  <2>1. task' \in Task
    BY <1>12 DEF RunNow, Task, Times
  <2> QED
    BY <1>1, <2>1, NoTaskAssumption DEF Unlocked
<1>13. ASSUME RunDropped PROVE NoWakeUpLost'
  BY <1>1, <1>13 DEF RunDropped
<1>14. ASSUME Crash PROVE NoWakeUpLost'
  BY <1>1, <1>14 DEF Crash
<1>15. ASSUME Tick \/ UNCHANGED vars PROVE NoWakeUpLost'
  BY <1>4, <1>15 DEF Tick, vars
<1> QED
  BY <1>2, <1>3, <1>5, <1>6, <1>7, <1>8, <1>9, <1>10, <1>11, <1>12, <1>13, <1>14, <1>15
     DEF Next, LoopStep, TaskStep, Request

-----------------------------------------------------------------------------
(* The theorems.                                                           *)

LEMMA InvInit == Init => IInv
<1> SUFFICES ASSUME Init PROVE IInv
  OBVIOUS
<1>1. \A j \in Jobs : ran[j] = NeverRan /\ mem[j] = NoJob
  BY DEF Init
<1>2. now = 0 /\ loop = "arm" /\ ~loaded /\ task = NoTask
  BY DEF Init
<1>3. Clock
  BY <1>1, <1>2, NeverRanIsRun DEF Clock, NoTime
<1>4. NoPast /\ TaskOk
  BY <1>1, <1>2 DEF NoPast, TaskOk
<1>5. History
  BY <1>1, NeverRanIsRun, HistoryOfNone DEF History
<1>6. FileOk /\ CrashRepeatsUnfinished /\ NoWakeUpLost
  BY DEF Init, FileOk, CrashRepeatsUnfinished, NoWakeUpLost, Unlocked
<1> QED
  BY TypeInit, <1>3, <1>4, <1>5, <1>6 DEF IInv

LEMMA InvNext == IInv /\ [Next]_vars => IInv'
BY TypeNext, ClockNext, NoPastNext, TaskNext, HistoryNext, FileNext, RepeatNext, WakeNext
   DEF IInv

LEMMA InvHolds == Spec => []IInv
BY InvInit, InvNext, PTL DEF Spec

\* Types are kept by every request, patch, schedule and outcome, with the store
\* in memory and in the file.
THEOREM TypeCorrect == Spec => []TypeOK
<1>1. IInv => TypeOK
  BY DEF IInv
<1> QED
  BY <1>1, InvHolds, PTL

\* The job of a timer task, its slot and its past.
LEMMA TimerRuns ==
  ASSUME IInv, NEW j \in Jobs, Executing(j), task.by = "timer"
  PROVE  /\ mem[j] \in Job /\ mem[j] # NoJob /\ mem[j].enabled
         /\ HistoryOk(mem[j], ran[j], OldestClock)
         /\ OneShot(mem[j]) => mem[j].lastStatus = "none"
         /\ task.slot = mem[j].nextRun /\ task.slot \in Nat /\ mem[j].nextRun # NoTime
         /\ task.started \in Nat /\ task.slot <= task.started
         /\ ran[j] \in Run
<1>1. task # NoTask /\ task.job = j /\ j # NoJob
  BY NoJobAssumption DEF Executing
<1>2. /\ Selected(j, "timer") /\ task.slot = mem[j].nextRun
      /\ task.started \in Nat /\ task.slot <= task.started
      /\ HistoryOk(mem[j], ran[j], OldestClock)
  BY <1>1 DEF IInv, TaskOk, History
<1>3. mem[j] \in Job /\ ran[j] \in Run
  BY <1>2 DEF IInv, TypeOK, Selected
<1>4. mem[j].nextRun \in Times
  BY <1>3 DEF Job
<1> QED
  BY <1>2, <1>3, <1>4 DEF Selected, Times

\* A one-shot job that ended, with whatever status, is never run again by the
\* timer, whatever requests enable or reschedule it, and by an unforced cron.run
\* only after such a request; for any jobs, patches and failures.
THEOREM OneShotsRunOnce == Spec => []OneShotRunsOnce
<1>1. IInv => OneShotRunsOnce
  <2> SUFFICES ASSUME IInv, NEW j \in Jobs, Executing(j), OneShot(mem[j]), ran[j].ended # NoTime,
                      task.by # "force"
               PROVE  task.by = "due" /\ ran[j].asked # NoTime
    BY DEF OneShotRunsOnce
  <2>1. task # NoTask /\ task.job = j /\ j # NoJob
    BY NoJobAssumption DEF Executing
  <2>2. mem[j] # NoJob /\ mem[j].enabled /\ HistoryOk(mem[j], ran[j], OldestClock)
    BY <2>1 DEF IInv, TaskOk, Selected, History
  <2>3. task.by # "timer"
    BY <2>2, TimerRuns DEF HistoryOk
  <2>4. task.by \in {"timer", "due", "force"}
    BY <2>1 DEF IInv, TypeOK, Task
  <2> QED
    BY <2>2, <2>3, <2>4 DEF HistoryOk
<1> QED
  BY <1>1, InvHolds, PTL

\* The timer runs a job once for each of its slots, but for a run that began and
\* ended in the very instant of the slot and for a slot that a request has asked
\* for since; with patches of any kind, refused ones too, failing writes, and
\* a clock that run_due_jobs read long before it got the lock.
THEOREM SlotsRunOnce == Spec => []SlotRunsOnce
<1>1. IInv => SlotRunsOnce
  <2> SUFFICES ASSUME IInv, NEW j \in Jobs, Executing(j), task.by = "timer", ran[j].slot # NoTime
               PROVE  \/ task.slot > ran[j].slot
                      \/ task.slot = ran[j].slot /\ ran[j].ended = ran[j].slot
                      \/ ran[j].asked # NoTime /\ ran[j].asked <= task.slot
    BY DEF SlotRunsOnce
  <2>1. /\ mem[j] # NoJob /\ mem[j].enabled /\ HistoryOk(mem[j], ran[j], OldestClock)
        /\ OneShot(mem[j]) => mem[j].lastStatus = "none"
        /\ task.slot = mem[j].nextRun /\ mem[j].nextRun # NoTime
    BY TimerRuns
  <2>2. ~OneShot(mem[j])
    BY <2>1 DEF HistoryOk
  <2> QED
    BY <2>1, <2>2 DEF HistoryOk, Recurs
<1> QED
  BY <1>1, InvHolds, PTL

\* After an error the timer leaves a job alone for its backoff, for any backoff
\* schedule, however often the store is recomputed and whatever is patched, until
\* a request enables the job, changes its schedule or sets its next run.
THEOREM BackoffIsRespected == Spec => []BackoffRespected
<1>1. IInv => BackoffRespected
  <2> SUFFICES ASSUME IInv, NEW j \in Jobs, Executing(j), task.by = "timer",
                      ran[j].until # NoTime, ran[j].asked = NoTime
               PROVE  task.started >= ran[j].until
    BY DEF BackoffRespected
  <2>1. /\ mem[j] # NoJob /\ mem[j].enabled /\ HistoryOk(mem[j], ran[j], OldestClock)
        /\ OneShot(mem[j]) => mem[j].lastStatus = "none"
        /\ task.slot = mem[j].nextRun /\ task.slot \in Nat
        /\ task.started \in Nat /\ task.slot <= task.started /\ ran[j] \in Run
    BY TimerRuns
  <2>2. ~OneShot(mem[j])
    BY <2>1 DEF HistoryOk
  <2>3. mem[j].nextRun >= ran[j].until /\ ran[j].until \in Int
    BY <2>1, <2>2 DEF HistoryOk, Recurs, Run, Times, NoTime
  <2> QED
    BY <2>1, <2>3
<1> QED
  BY <1>1, InvHolds, PTL

\* Outside an execution a crash loses nothing: after any refused update, failed
\* write or dropped request, one more write makes the file worth what the memory
\* is worth, and no recomputation takes them apart again.
THEOREM IdleCrashIsHarmless == Spec => []IdleCrashLosesNothing
<1>1. IInv => IdleCrashLosesNothing
  BY DEF IInv, FileOk, Kept, IdleCrashLosesNothing
<1> QED
  BY <1>1, InvHolds, PTL

\* A timer task that a crash interrupts is repeated by the next process, for any
\* number of due jobs.
THEOREM CrashRepeats == Spec => []CrashRepeatsUnfinished
<1>1. IInv => CrashRepeatsUnfinished
  BY DEF IInv
<1> QED
  BY <1>1, InvHolds, PTL

\* The loop never sleeps longer than until the next run of a job, however many
\* requests race with it: the safety half of the promise that due jobs are run.
THEOREM LoopWakesInTime == Spec => []NoWakeUpLost
<1>1. IInv => NoWakeUpLost
  BY DEF IInv
<1> QED
  BY <1>1, InvHolds, PTL
=============================================================================
