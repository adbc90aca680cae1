-------------------------- MODULE HeartbeatProofs --------------------------
(***************************************************************************)
(* Proofs for Heartbeat, for any number of runs, wakes and jobs: its       *)
(* types, who shares the lane with a heartbeat, what a job's "ok" means,   *)
(* that a wake is not forgotten, and who holds the cron service's lock.    *)
(***************************************************************************)
EXTENDS Heartbeat, TLAPS

Locking(c) == at[c] \in {"sync", "prompt", "settle"}

\* run_lock is held by at most one of the two.
OneLocks == \A c, d \in Callers : Locking(c) /\ Locking(d) => c = d

\* From its start to its end the job has no status, and its event is in the
\* queue or in its own prompt, or cleared; a heartbeat that ran has cleared it.
EventFollowed ==
  /\ at["cron"] # "off" => status = "none"
  /\ at["cron"] = "prompt" => JobEvent \in seen["cron"] \/ JobEvent \notin queue
  /\ result["cron"] = "ran" => at["cron"] \in {"settle", "back"} /\ JobEvent \notin queue

\* The cron lock is held exactly while the job is under way, by the timer or by
\* the one run that waits in its tool for the job.
LockIsJobs ==
  /\ holder = NoOne <=> at["cron"] = "off"
  /\ \A r \in Runs : holder = r <=> run[r] = "job"

IInv == TypeOK /\ OneLocks /\ LockIsJobs /\ OverlapsLateRunsOnly /\ EventFollowed /\ OkMeansDelivered

-----------------------------------------------------------------------------
(* Every step keeps the types.                                             *)

LEMMA InitInv == Init => IInv
<1> SUFFICES ASSUME Init PROVE IInv
  OBVIOUS
<1>1. TypeOK
  BY DEF Init, TypeOK, Callers, Places, Results
<1>2. \A c \in Callers : at[c] \in {"top", "off"}
  BY DEF Init, Callers
<1>3. OneLocks /\ OverlapsLateRunsOnly
  BY <1>2 DEF OneLocks, Locking, OverlapsLateRunsOnly
<1>4. EventFollowed /\ OkMeansDelivered
  BY DEF Init, EventFollowed, OkMeansDelivered, Callers
<1>5. LockIsJobs
  BY HeartbeatAssumption DEF Init, LockIsJobs, Callers
<1> QED
  BY <1>1, <1>3, <1>4, <1>5 DEF IInv

\* Moving a caller, and telling it something, moves and tells nobody else.
LEMMA GotoTyped ==
  ASSUME TypeOK, NEW c \in Callers, NEW from, NEW to \in Places, Goto(c, from, to)
  PROVE  /\ at' \in [Callers -> Places] /\ at[c] = from /\ at'[c] = to
         /\ \A d \in Callers : d # c => at'[d] = at[d]
BY DEF TypeOK, Goto

LEMMA ToldTyped ==
  ASSUME TypeOK, NEW c \in Callers, NEW from, NEW res \in Results, Told(c, from, res)
  PROVE  /\ at' \in [Callers -> Places] /\ at[c] = from /\ at'[c] = "settle"
         /\ \A d \in Callers : d # c => at'[d] = at[d]
         /\ result' \in [Callers -> Results] /\ result'[c] = res
         /\ \A d \in Callers : d # c => result'[d] = result[d]
<1>1. Goto(c, from, "settle") /\ "settle" \in Places
  BY DEF Told, Places
<1>2. result' = [result EXCEPT ![c] = res] /\ result \in [Callers -> Results]
  BY DEF Told, TypeOK
<1> QED
  BY <1>1, <1>2, GotoTyped

LEMMA Labels ==
  /\ "loop" \in Callers /\ "cron" \in Callers
  /\ \A p \in {"top", "parked", "sleep", "off", "call", "back", "wait", "sync", "prompt", "settle"} :
       p \in Places
  /\ \A s \in {"none", "disabled", "busy", "skipped", "failed", "ran"} : s \in Results
BY DEF Callers, Places, Results

\* What every step leaves well typed.
LEMMA TypesKept == TypeOK /\ [Next]_vars => TypeOK'
<1> SUFFICES ASSUME TypeOK, [Next]_vars PROVE TypeOK'
  OBVIOUS
<1> USE Labels
<1>1. ASSUME NEW c \in Callers, Begin(c) PROVE TypeOK'
  <2>1. at' \in [Callers -> Places] /\ result' \in [Callers -> Results] /\ woken' \in BOOLEAN
    <3>1. CASE Told(c, "wait", "disabled") /\ UNCHANGED woken
      BY <3>1, ToldTyped DEF TypeOK
    <3>2. CASE Told(c, "wait", "busy") /\ UNCHANGED woken
      BY <3>2, ToldTyped DEF TypeOK
    <3>3. CASE Goto(c, "wait", "sync") /\ woken' = FALSE /\ UNCHANGED result
      BY <3>3, GotoTyped DEF TypeOK
    <3> QED
      BY <1>1, <3>1, <3>2, <3>3 DEF Begin
  <2> QED
    BY <1>1, <2>1 DEF TypeOK, Begin, loopVars, runVars, cronVars
<1>2. ASSUME NEW c \in Callers, Enter(c) PROVE TypeOK'
  <2>1. at' \in [Callers -> Places] /\ result' \in [Callers -> Results]
        /\ seen' \in [Callers -> SUBSET Events]
    <3>1. CASE Told(c, "sync", "failed") /\ UNCHANGED seen
      BY <3>1, ToldTyped DEF TypeOK
    <3>2. CASE Told(c, "sync", "skipped") /\ UNCHANGED seen
      BY <3>2, ToldTyped DEF TypeOK
    <3>3. CASE Goto(c, "sync", "prompt") /\ seen' = [seen EXCEPT ![c] = queue] /\ UNCHANGED result
      BY <3>3, GotoTyped DEF TypeOK
    <3> QED
      BY <1>2, <3>1, <3>2, <3>3 DEF Enter
  <2> QED
    BY <1>2, <2>1 DEF TypeOK, Enter, loopVars, runVars, cronVars
<1>3. ASSUME NEW c \in Callers, Answer(c) PROVE TypeOK'
  <2>1. at' \in [Callers -> Places] /\ result' \in [Callers -> Results]
    BY <1>3, ToldTyped DEF Answer
  <2>2. seen' \in [Callers -> SUBSET Events] /\ queue' \subseteq Events
    BY <1>3 DEF TypeOK, Answer
  <2> QED
    BY <1>3, <2>1, <2>2 DEF TypeOK, Answer, loopVars, runVars, cronVars
<1>4. ASSUME NEW c \in Callers, Settle(c) PROVE TypeOK'
  <2>1. at' \in [Callers -> Places]
    BY <1>4, GotoTyped DEF Settle
  <2>2. result' \in [Callers -> Results] /\ fresh' \subseteq Runs
    BY <1>4 DEF TypeOK, Settle
  <2>3. retry' \in BOOLEAN /\ due' \in BOOLEAN
    <3>1. CASE result[c] = "busy"
      BY <1>4, <3>1 DEF TypeOK, Settle
    <3>2. CASE result[c] = "disabled"
      BY <1>4, <3>2 DEF TypeOK, Settle
    <3>3. CASE result[c] \notin {"busy", "disabled"}
      BY <1>4, <3>3 DEF TypeOK, Settle
    <3> QED
      BY <3>1, <3>2, <3>3
  <2> QED
    BY <1>4, <2>1, <2>2, <2>3 DEF TypeOK, Settle, runVars, cronVars
<1>5. CASE LoopStep \/ Ring \/ IntervalEnds
  <2>1. at' \in [Callers -> Places]
    BY <1>5, GotoTyped DEF LoopStep, Top, Unparked, Notified, Ring, IntervalEnds, TypeOK
  <2>2. permit' \in BOOLEAN /\ due' \in BOOLEAN /\ retry' \in BOOLEAN
        /\ alarm' \in {"now", "retry", "interval"}
    BY <1>5 DEF LoopStep, Top, Unparked, Notified, Ring, IntervalEnds, TypeOK
  <2>3. UNCHANGED <<enabled, result, seen, runVars, cronVars, queue, sent, toggles, woken, fresh>>
    BY <1>5 DEF LoopStep, Top, Unparked, Notified, Ring, IntervalEnds
  <2> QED
    BY <2>1, <2>2, <2>3 DEF TypeOK, runVars, cronVars
<1>6. ASSUME NEW by \in Runs \cup {Timer}, JobStarts(by),
             run' \in [Runs -> {"new", "begun", "in", "tool", "job", "over"}]
      PROVE  TypeOK'
  <2>1. at' \in [Callers -> Places]
    BY <1>6, GotoTyped DEF JobStarts
  <2>2. queue' \subseteq Events
    BY <1>6 DEF JobStarts, TypeOK, Events
  <2>3. /\ holder' = by /\ jobs' = jobs + 1 /\ late' = FALSE /\ status' = "none"
        /\ UNCHANGED <<enabled, result, seen, loopVars, sawSome, called, sent, toggles, woken, fresh>>
    BY <1>6 DEF JobStarts
  <2>4. jobs' \in Nat /\ holder' \in Runs \cup {Timer, NoOne}
    BY <1>6, <2>3 DEF TypeOK
  <2> QED
    BY <1>6, <2>1, <2>2, <2>3, <2>4 DEF TypeOK, loopVars
<1>7. CASE JobCalls
  <2>1. at' \in [Callers -> Places]
    BY <1>7, GotoTyped DEF JobCalls
  <2>2. result' \in [Callers -> Results]
    BY <1>7 DEF JobCalls, TypeOK
  <2>3. UNCHANGED <<enabled, seen, loopVars, runVars, cronVars, queue, sent, toggles, woken, fresh>>
    BY <1>7 DEF JobCalls
  <2> QED
    BY <2>1, <2>2, <2>3 DEF TypeOK, loopVars, runVars, cronVars
<1>8. CASE JobWaits
  <2>1. at' \in [Callers -> Places]
    BY <1>8, GotoTyped DEF JobWaits
  <2> QED
    BY <1>8, <2>1 DEF TypeOK, JobWaits, loopVars, runVars, cronVars
<1>9. CASE JobEnds
  <2>1. at' \in [Callers -> Places]
    BY <1>9, GotoTyped DEF JobEnds
  <2>2. run' \in [Runs -> {"new", "begun", "in", "tool", "job", "over"}]
    BY <1>9 DEF JobEnds, TypeOK
  <2>3. status' \in {"none", "ok", "error", "skipped"} /\ result' \in [Callers -> Results]
    BY <1>9 DEF JobEnds, JobStatus, TypeOK
  <2> QED
    BY <1>9, <2>1, <2>2, <2>3 DEF TypeOK, JobEnds, loopVars
<1>10. CASE WaitExpires
  BY <1>10 DEF TypeOK, WaitExpires, loopVars, runVars
<1>11. ASSUME NEW w \in Wakes, Wake(w) PROVE TypeOK'
  <2>1. queue' \subseteq Events /\ sent' \subseteq Wakes
    BY <1>11 DEF Wake, TypeOK, Events
  <2>2. permit' \in BOOLEAN /\ woken' \in BOOLEAN
    BY <1>11 DEF Wake, TypeOK
  <2>3. UNCHANGED <<enabled, at, result, seen, due, retry, alarm, runVars, cronVars, toggles, fresh>>
    BY <1>11 DEF Wake
  <2> QED
    BY <2>1, <2>2, <2>3 DEF TypeOK, runVars, cronVars
<1>12. ASSUME NEW on \in BOOLEAN, SetHeartbeats(on) PROVE TypeOK'
  <2>1. enabled' \in BOOLEAN /\ permit' \in BOOLEAN /\ woken' \in BOOLEAN /\ toggles' \in Nat
    BY <1>12 DEF SetHeartbeats, TypeOK
  <2>2. UNCHANGED <<at, result, seen, due, retry, alarm, runVars, cronVars, queue, sent, fresh>>
    BY <1>12 DEF SetHeartbeats
  <2> QED
    BY <2>1, <2>2 DEF TypeOK, runVars, cronVars
<1>13. ASSUME NEW r \in Runs, RunEnters(r) \/ RunReads(r) \/ RunEnds(r) PROVE TypeOK'
  <2>1. run' \in [Runs -> {"new", "begun", "in", "tool", "job", "over"}]
    BY <1>13 DEF RunEnters, RunReads, RunEnds, Move, TypeOK
  <2>2. sawSome' \subseteq Runs /\ called' \subseteq Runs /\ fresh' \subseteq Runs /\ queue' \subseteq Events
    BY <1>13 DEF RunEnters, RunReads, RunEnds, Forgotten, TypeOK
  <2>3. UNCHANGED <<enabled, at, result, seen, loopVars, cronVars, sent, toggles, woken>>
    BY <1>13 DEF RunEnters, RunReads, RunEnds
  <2> QED
    BY <2>1, <2>2, <2>3 DEF TypeOK, loopVars, cronVars
<1>14. ASSUME NEW r \in Runs, RunTimesOut(r) PROVE TypeOK'
  <2>1. run' \in [Runs -> {"new", "begun", "in", "tool", "job", "over"}]
    BY <1>14 DEF RunTimesOut, TypeOK
  <2>2. at' \in [Callers -> Places] /\ result' \in [Callers -> Results]
    BY <1>14 DEF RunTimesOut, TypeOK
  <2>3. sawSome' \subseteq Runs /\ called' \subseteq Runs /\ fresh' \subseteq Runs
        /\ holder' \in Runs \cup {Timer, NoOne} /\ late' \in BOOLEAN
    BY <1>14 DEF RunTimesOut, Forgotten, TypeOK
  <2>4. UNCHANGED <<enabled, seen, loopVars, status, jobs, queue, sent, toggles, woken>>
    BY <1>14 DEF RunTimesOut
  <2> QED
    BY <2>1, <2>2, <2>3, <2>4 DEF TypeOK, loopVars
<1>15. ASSUME NEW r \in Runs, RunCallsCron(r) \/ ToolServed(r) PROVE TypeOK'
  <2>1. run' \in [Runs -> {"new", "begun", "in", "tool", "job", "over"}] /\ called' \subseteq Runs
    BY <1>15 DEF RunCallsCron, ToolServed, Move, TypeOK
  <2> QED
    BY <1>15, <2>1 DEF TypeOK, RunCallsCron, ToolServed, loopVars, cronVars
<1>16. CASE TimerStartsJob
  BY <1>6, <1>16 DEF TimerStartsJob, TypeOK
<1>17. ASSUME NEW r \in Runs, ToolRunsJob(r) PROVE TypeOK'
  <2>1. run' \in [Runs -> {"new", "begun", "in", "tool", "job", "over"}]
    BY <1>17 DEF ToolRunsJob, Move, TypeOK
  <2> QED
    BY <1>6, <1>17, <2>1 DEF ToolRunsJob
<1>18. CASE UNCHANGED vars
  BY <1>18 DEF TypeOK, vars, loopVars, runVars, cronVars
<1> QED
  BY <1>1, <1>2, <1>3, <1>4, <1>5, <1>7, <1>8, <1>9, <1>10, <1>11, <1>12, <1>13, <1>14, <1>15,
     <1>16, <1>17, <1>18
  DEF Next, OnceStep, JobStep

-----------------------------------------------------------------------------
(* Who holds run_lock, and who shares the lane with it.                    *)

\* A step takes run_lock for one caller, keeps it or releases it.
LEMMA LocksKept == TypeOK /\ OneLocks /\ [Next]_vars => OneLocks'
<1> SUFFICES ASSUME TypeOK, OneLocks, [Next]_vars PROVE OneLocks'
  OBVIOUS
<1> USE Labels
<1>1. ASSUME NEW c \in Callers, Begin(c) PROVE OneLocks'
  <2>1. \A d \in Callers : ~Locking(d)
    BY <1>1 DEF Begin, RunLocked, Locking
  <2>2. \A d \in Callers : d # c => at'[d] = at[d]
    BY <1>1, ToldTyped, GotoTyped DEF Begin
  <2> QED
    BY <2>1, <2>2 DEF OneLocks, Locking
<1>2. ASSUME \A d \in Callers : Locking(d)' => Locking(d) PROVE OneLocks'
  BY <1>2 DEF OneLocks
<1>3. ASSUME NEW c \in Callers, Locking(c), \A d \in Callers : d # c => at'[d] = at[d] PROVE OneLocks'
  BY <1>2, <1>3 DEF Locking
<1>4. ASSUME NEW c \in Callers, Enter(c) \/ Answer(c) \/ Settle(c) PROVE OneLocks'
  <2>1. at[c] \in {"sync", "prompt", "settle"} /\ \A d \in Callers : d # c => at'[d] = at[d]
    <3>1. CASE Enter(c)
      BY <3>1, ToldTyped, GotoTyped DEF Enter
    <3>2. CASE Answer(c)
      BY <3>2, ToldTyped DEF Answer
    <3>3. CASE Settle(c)
      <4>1. (IF c = "loop" THEN "top" ELSE "back") \in Places
        OBVIOUS
      <4> QED
        BY <3>3, <4>1, GotoTyped DEF Settle
    <3> QED
      BY <1>4, <3>1, <3>2, <3>3
  <2> QED
    BY <1>3, <2>1 DEF Locking
<1>5. ASSUME NEW c \in Callers, NEW from, NEW to \in Places \ {"sync", "prompt", "settle"}, Goto(c, from, to)
      PROVE  OneLocks'
  <2>1. /\ at'[c] \notin {"sync", "prompt", "settle"}
        /\ \A d \in Callers : d # c => at'[d] = at[d]
    BY <1>5, GotoTyped
  <2> QED
    BY <1>2, <2>1 DEF Locking
<1>6. CASE at' = at
  BY <1>2, <1>6 DEF Locking
<1>7. CASE LoopStep \/ Ring \/ IntervalEnds
  BY <1>5, <1>6, <1>7 DEF LoopStep, Top, Unparked, Notified, Ring, IntervalEnds
<1>8. CASE TimerStartsJob \/ JobStep
  BY <1>5, <1>8 DEF TimerStartsJob, JobStarts, JobStep, JobCalls, JobWaits, JobEnds
<1>9. ASSUME NEW r \in Runs, RunTimesOut(r) PROVE OneLocks'
  <2>1. at' = at \/ at' = [at EXCEPT !["cron"] = "off"]
    BY <1>9 DEF RunTimesOut
  <2>2. \A d \in Callers : at'[d] = at[d] \/ at'[d] = "off"
    BY <2>1 DEF TypeOK
  <2> QED
    BY <1>2, <2>2 DEF Locking
<1>10. ASSUME NEW r \in Runs, RunEnters(r) \/ RunReads(r) \/ RunEnds(r) \/ RunCallsCron(r) \/ ToolServed(r)
       PROVE OneLocks'
  BY <1>6, <1>10 DEF RunEnters, RunReads, RunEnds, RunCallsCron, ToolServed
<1>11. ASSUME NEW r \in Runs, ToolRunsJob(r) PROVE OneLocks'
  BY <1>5, <1>11 DEF ToolRunsJob, JobStarts
<1>12. CASE WaitExpires \/ (\E w \in Wakes : Wake(w)) \/ (\E on \in BOOLEAN : SetHeartbeats(on))
            \/ UNCHANGED vars
  BY <1>6, <1>12 DEF WaitExpires, Wake, SetHeartbeats, vars
<1> QED
  BY <1>1, <1>4, <1>7, <1>8, <1>9, <1>10, <1>11, <1>12 DEF Next, OnceStep

\* Nobody is added to the lane while nobody is let in.
LEMMA LaneOf ==
  ASSUME \A r \in Runs : run'[r] \in {"begun", "in", "tool", "job"} => run[r] \in {"begun", "in", "tool", "job"}
  PROVE  InLane' \subseteq InLane
BY DEF InLane

\* A run that comes while run_lock is held is noted; the notes are only
\* cleared when the lock is released.
LEMMA OverlapKept ==
  TypeOK /\ OneLocks /\ LockIsJobs /\ OverlapsLateRunsOnly /\ [Next]_vars
    => OverlapsLateRunsOnly'
<1> SUFFICES ASSUME TypeOK, OneLocks, LockIsJobs, OverlapsLateRunsOnly, [Next]_vars,
                    NEW c \in Callers, at'[c] \in {"sync", "prompt"}
             PROVE  InLane' \subseteq fresh'
  BY DEF OverlapsLateRunsOnly
<1> USE Labels
\* The caller was there before, nobody entered, and no note was lost.
<1>1. ASSUME at[c] \in {"sync", "prompt"}, InLane' \subseteq InLane, fresh \subseteq fresh'
      PROVE  InLane' \subseteq fresh'
  BY <1>1 DEF OverlapsLateRunsOnly
<1>2. ASSUME NEW d \in Callers, NEW from, NEW to \in Places \ {"sync", "prompt"}, Goto(d, from, to)
      PROVE  at[c] \in {"sync", "prompt"} /\ d # c
  BY <1>2, GotoTyped
<1>3. ASSUME NEW d \in Callers, NEW from, NEW res \in Results, Told(d, from, res)
      PROVE  at[c] \in {"sync", "prompt"} /\ d # c
  BY <1>3, ToldTyped
<1>4. run' = run => InLane' = InLane
  BY DEF InLane
<1>5. ASSUME NEW d \in Callers, Begin(d) PROVE InLane' \subseteq fresh'
  <2>1. run' = run /\ fresh' = fresh
    BY <1>5 DEF Begin, runVars
  <2>2. CASE InLane = {} /\ Goto(d, "wait", "sync")
    BY <1>4, <2>1, <2>2
  <2>3. CASE Told(d, "wait", "disabled") \/ Told(d, "wait", "busy")
    BY <1>1, <1>3, <1>4, <2>1, <2>3
  <2> QED
    BY <1>5, <2>2, <2>3 DEF Begin
<1>6. ASSUME NEW d \in Callers, Enter(d) PROVE InLane' \subseteq fresh'
  <2>1. run' = run /\ fresh' = fresh
    BY <1>6 DEF Enter, runVars
  <2>2. CASE Goto(d, "sync", "prompt")
    <3>1. at[d] = "sync" /\ \A e \in Callers : e # d => at'[e] = at[e]
      BY <2>2, GotoTyped
    <3>2. at[c] \in {"sync", "prompt"}
      BY <3>1
    <3> QED
      BY <1>1, <1>4, <2>1, <3>2
  <2>3. CASE Told(d, "sync", "failed") \/ Told(d, "sync", "skipped")
    BY <1>1, <1>3, <1>4, <2>1, <2>3
  <2> QED
    BY <1>6, <2>2, <2>3 DEF Enter
<1>7. ASSUME NEW d \in Callers, Answer(d) PROVE InLane' \subseteq fresh'
  <2>1. run' = run /\ fresh' = fresh
    BY <1>7 DEF Answer, runVars
  <2> QED
    BY <1>1, <1>3, <1>4, <1>7, <2>1 DEF Answer
\* Who settles holds the lock, so nobody else is in a heartbeat.
<1>8. ASSUME NEW d \in Callers, Settle(d) PROVE InLane' \subseteq fresh'
  <2>1. (IF d = "loop" THEN "top" ELSE "back") \in Places \ {"sync", "prompt"}
    BY DEF Places
  <2>2. at[c] \in {"sync", "prompt"} /\ d # c /\ at[d] = "settle"
    BY <1>2, <1>8, <2>1, GotoTyped DEF Settle
  <2> QED
    BY <2>2 DEF OneLocks, Locking
<1>9. CASE LoopStep \/ Ring \/ IntervalEnds
  <2>1. run' = run /\ fresh' = fresh
    BY <1>9 DEF LoopStep, Top, Unparked, Notified, Ring, IntervalEnds, runVars
  <2>2. at[c] \in {"sync", "prompt"}
    BY <1>2, <1>9 DEF LoopStep, Top, Unparked, Notified, Ring, IntervalEnds
  <2> QED
    BY <1>1, <1>4, <2>1, <2>2
<1>10. ASSUME NEW by, JobStarts(by), InLane' \subseteq InLane PROVE InLane' \subseteq fresh'
  <2>1. at[c] \in {"sync", "prompt"} /\ fresh' = fresh
    BY <1>2, <1>10 DEF JobStarts
  <2> QED
    BY <1>1, <1>10, <2>1
<1>11. CASE TimerStartsJob
  BY <1>4, <1>10, <1>11 DEF TimerStartsJob
<1>12. CASE JobCalls \/ JobWaits
  <2>1. run' = run /\ fresh' = fresh
    BY <1>12 DEF JobCalls, JobWaits, runVars
  <2>2. at[c] \in {"sync", "prompt"}
    BY <1>2, <1>12 DEF JobCalls, JobWaits
  <2> QED
    BY <1>1, <1>4, <2>1, <2>2
\* The run that goes on was in the lane.
<1>13. CASE JobEnds
  <2>1. at[c] \in {"sync", "prompt"} /\ fresh' = fresh
    BY <1>2, <1>13 DEF JobEnds
  <2>2. \A r \in Runs : run'[r] = run[r] \/ run[r] = "job"
    BY <1>13 DEF JobEnds, LockIsJobs
  <2>3. InLane' \subseteq InLane
    BY <2>2, LaneOf
  <2> QED
    BY <1>1, <2>1, <2>3
<1>14. CASE WaitExpires \/ (\E w \in Wakes : Wake(w)) \/ (\E on \in BOOLEAN : SetHeartbeats(on))
            \/ UNCHANGED vars
  BY <1>1, <1>4, <1>14 DEF WaitExpires, Wake, SetHeartbeats, vars, runVars
<1>15. ASSUME NEW r \in Runs, RunEnters(r) PROVE InLane' \subseteq fresh'
  <2>1. at' = at /\ RunLocked /\ fresh' = fresh \cup {r}
    BY <1>15 DEF RunEnters, RunLocked
  <2>2. InLane' \subseteq InLane \cup {r}
    BY <1>15 DEF RunEnters, Move, InLane, TypeOK
  <2> QED
    BY <2>1, <2>2 DEF OverlapsLateRunsOnly
<1>16. ASSUME NEW r \in Runs, RunReads(r) \/ RunEnds(r) \/ RunCallsCron(r) \/ ToolServed(r)
       PROVE  InLane' \subseteq fresh'
  <2>1. at' = at /\ fresh' = fresh
    BY <1>16 DEF RunReads, RunEnds, RunCallsCron, ToolServed
  <2>2. \A q \in Runs : run'[q] = run[q] \/ (q = r /\ run[q] \in {"begun", "in", "tool"})
    BY <1>16 DEF RunReads, RunEnds, RunCallsCron, ToolServed, Move, TypeOK
  <2>3. InLane' \subseteq InLane
    BY <2>2, LaneOf
  <2> QED
    BY <1>1, <2>1, <2>3
<1>17. ASSUME NEW r \in Runs, ToolRunsJob(r) PROVE InLane' \subseteq fresh'
  <2>1. \A q \in Runs : run'[q] = run[q] \/ (q = r /\ run[q] = "tool")
    BY <1>17 DEF ToolRunsJob, Move, TypeOK
  <2>2. InLane' \subseteq InLane
    BY <2>1, LaneOf
  <2> QED
    BY <1>10, <1>17, <2>2 DEF ToolRunsJob
\* A run dropped while its job settles: the lock was the job's.
<1>18. ASSUME NEW r \in Runs, RunTimesOut(r) PROVE InLane' \subseteq fresh'
  <2>1. \A q \in Runs : run'[q] = run[q] \/ run'[q] = "over"
    BY <1>18 DEF RunTimesOut, TypeOK
  <2>2. InLane' \subseteq InLane
    BY <2>1, LaneOf
  <2>3. \A d \in Callers : at'[d] = at[d] \/ at'[d] = "off"
    BY <1>18 DEF RunTimesOut, TypeOK
  <2>4. at[c] \in {"sync", "prompt"} /\ at'[c] = at[c]
    BY <2>3
  <2>5. fresh' = fresh
    <3>1. CASE run[r] = "tool"
      BY <1>18, <3>1 DEF RunTimesOut
    <3>2. CASE run[r] = "job" /\ at["cron"] = "settle"
      <4>1. at'["cron"] = "off"
        BY <1>18, <3>2 DEF RunTimesOut, TypeOK
      <4>2. c # "cron" /\ Locking(c) /\ Locking("cron")
        BY <2>4, <3>2, <4>1 DEF Locking
      <4> QED
        BY <4>2 DEF OneLocks
    <3>3. CASE run[r] = "job" /\ at["cron"] # "settle"
      BY <1>18, <3>3 DEF RunTimesOut
    <3> QED
      BY <1>18, <3>1, <3>2, <3>3 DEF RunTimesOut
  <2> QED
    BY <1>1, <2>2, <2>4, <2>5
<1> QED
  BY <1>5, <1>6, <1>7, <1>8, <1>9, <1>11, <1>12, <1>13, <1>14, <1>15, <1>16, <1>17, <1>18
  DEF Next, OnceStep, JobStep

-----------------------------------------------------------------------------
(* The cron lock.                                                          *)

\* A step that leaves the holder, and with it the job, where it is.
LEMMA LockStutters ==
  ASSUME LockIsJobs, holder' = holder, at["cron"] = "off" <=> at'["cron"] = "off",
         \A r \in Runs : run'[r] = "job" <=> run[r] = "job"
  PROVE  LockIsJobs'
BY DEF LockIsJobs

LEMMA LockKept == TypeOK /\ LockIsJobs /\ [Next]_vars => LockIsJobs'
<1> SUFFICES ASSUME TypeOK, LockIsJobs, [Next]_vars PROVE LockIsJobs'
  OBVIOUS
<1> USE Labels, HeartbeatAssumption
<1>1. ASSUME NEW c \in Callers, Begin(c) \/ Enter(c) \/ Answer(c) \/ Settle(c) PROVE LockIsJobs'
  <2>1. UNCHANGED <<holder, run>>
    BY <1>1 DEF Begin, Enter, Answer, Settle, cronVars, runVars
  <2>2. \E from \in {"wait", "sync", "prompt", "settle"}, to \in Places \ {"off"} : Goto(c, from, to)
    BY <1>1 DEF Begin, Enter, Answer, Settle, Told
  <2>3. at["cron"] = "off" <=> at'["cron"] = "off"
    BY <2>2, GotoTyped
  <2> QED
    BY <2>1, <2>3, LockStutters
<1>2. CASE LoopStep \/ Ring
  <2>1. UNCHANGED <<holder, run>>
    BY <1>2 DEF LoopStep, Top, Unparked, Notified, Ring, cronVars, runVars
  <2>2. at'["cron"] = at["cron"]
    BY <1>2, GotoTyped DEF LoopStep, Top, Unparked, Notified, Ring
  <2> QED
    BY <2>1, <2>2, LockStutters
<1>3. CASE JobCalls \/ JobWaits
  <2>1. UNCHANGED <<holder, run>>
    BY <1>3 DEF JobCalls, JobWaits, cronVars, runVars
  <2>2. at["cron"] # "off" /\ at'["cron"] # "off"
    BY <1>3, GotoTyped DEF JobCalls, JobWaits
  <2> QED
    BY <2>1, <2>2, LockStutters
<1>4. CASE JobEnds
  <2>1. /\ at'["cron"] = "off" /\ holder' = NoOne
        /\ run' = [r \in Runs |-> IF r = holder THEN "in" ELSE run[r]]
    BY <1>4, GotoTyped DEF JobEnds
  <2> QED
    BY <2>1 DEF LockIsJobs
<1>5. ASSUME NEW by \in Runs \cup {Timer}, JobStarts(by),
             \A r \in Runs : run'[r] = (IF r = by THEN "job" ELSE run[r])
      PROVE  LockIsJobs'
  <2>1. holder = NoOne /\ holder' = by /\ at'["cron"] = "call"
    BY <1>5, GotoTyped DEF JobStarts
  <2> QED
    BY <1>5, <2>1 DEF LockIsJobs
<1>6. CASE TimerStartsJob
  BY <1>5, <1>6 DEF TimerStartsJob
<1>7. ASSUME NEW r \in Runs, ToolRunsJob(r) PROVE LockIsJobs'
  <2>1. run' = [run EXCEPT ![r] = "job"] /\ JobStarts(r)
    BY <1>7 DEF ToolRunsJob, Move
  <2>2. \A q \in Runs : run'[q] = (IF q = r THEN "job" ELSE run[q])
    BY <2>1 DEF TypeOK
  <2> QED
    BY <1>5, <2>1, <2>2
<1>8. ASSUME NEW r \in Runs, RunEnters(r) \/ RunReads(r) \/ RunEnds(r) \/ RunCallsCron(r) \/ ToolServed(r)
      PROVE  LockIsJobs'
  <2>1. /\ UNCHANGED <<holder, at>> /\ run[r] # "job" /\ run'[r] # "job"
        /\ \A q \in Runs : q # r => run'[q] = run[q]
    BY <1>8 DEF RunEnters, RunReads, RunEnds, RunCallsCron, ToolServed, Move, cronVars, TypeOK
  <2> QED
    BY <2>1, LockStutters
<1>9. ASSUME NEW r \in Runs, RunTimesOut(r) PROVE LockIsJobs'
  <2>1. run'[r] = "over" /\ \A q \in Runs : q # r => run'[q] = run[q]
    BY <1>9 DEF RunTimesOut, TypeOK
  <2>2. CASE run[r] = "tool"
    BY <1>9, <2>1, <2>2, LockStutters DEF RunTimesOut
  <2>3. CASE run[r] = "job"
    <3>1. holder = r /\ holder' = NoOne /\ at'["cron"] = "off"
      BY <1>9, <2>3 DEF RunTimesOut, LockIsJobs, TypeOK
    <3> QED
      BY <2>1, <3>1 DEF LockIsJobs
  <2> QED
    BY <1>9, <2>2, <2>3 DEF RunTimesOut
<1>10. CASE \/ IntervalEnds \/ WaitExpires \/ UNCHANGED vars
            \/ (\E w \in Wakes : Wake(w)) \/ (\E on \in BOOLEAN : SetHeartbeats(on))
  BY <1>10, LockStutters DEF IntervalEnds, WaitExpires, Wake, SetHeartbeats, vars, cronVars, runVars
<1> QED
  BY <1>1, <1>2, <1>3, <1>4, <1>6, <1>7, <1>8, <1>9, <1>10 DEF Next, OnceStep, JobStep

-----------------------------------------------------------------------------
(* What becomes of the job's event.                                        *)

\* Only the job's start puts its event into the queue.
LEMMA EventStays ==
  ASSUME \/ queue' = queue \/ queue' = {} \/ \E w \in Wakes : queue' = queue \cup {w}
  PROVE  JobEvent \in queue' => JobEvent \in queue
BY HeartbeatAssumption

\* A step that leaves the job where it is, and puts no event of it in the queue.
LEMMA EventStutters ==
  ASSUME EventFollowed, OkMeansDelivered, status' = status,
         at'["cron"] = at["cron"], result'["cron"] = result["cron"], seen'["cron"] = seen["cron"],
         JobEvent \in queue' => JobEvent \in queue
  PROVE  EventFollowed' /\ OkMeansDelivered'
BY DEF EventFollowed, OkMeansDelivered

LEMMA EventKept ==
  TypeOK /\ EventFollowed /\ OkMeansDelivered /\ [Next]_vars => EventFollowed' /\ OkMeansDelivered'
<1> SUFFICES ASSUME TypeOK, EventFollowed, OkMeansDelivered, [Next]_vars
             PROVE  EventFollowed' /\ OkMeansDelivered'
  OBVIOUS
<1> USE Labels
<1>1. ASSUME NEW c \in Callers, Begin(c) PROVE EventFollowed' /\ OkMeansDelivered'
  <2>1. UNCHANGED <<status, seen, queue>>
    BY <1>1 DEF Begin, cronVars
  <2>2. CASE c = "loop"
    <3>1. at'["cron"] = at["cron"] /\ result'["cron"] = result["cron"]
      BY <1>1, <2>2, ToldTyped, GotoTyped DEF Begin
    <3> QED
      BY <2>1, <3>1, EventStutters
  <2>3. CASE c = "cron"
    <3>1. /\ at["cron"] = "wait" /\ at'["cron"] \in {"settle", "sync"}
          /\ result'["cron"] \in {"disabled", "busy", result["cron"]}
      BY <1>1, <2>3, ToldTyped, GotoTyped DEF Begin
    <3> QED
      BY <2>1, <3>1 DEF EventFollowed, OkMeansDelivered
  <2> QED
    BY <2>2, <2>3 DEF Callers
<1>2. ASSUME NEW c \in Callers, Enter(c) PROVE EventFollowed' /\ OkMeansDelivered'
  <2>1. UNCHANGED <<status, queue>>
    BY <1>2 DEF Enter, cronVars
  <2>2. CASE c = "loop"
    <3>1. at'["cron"] = at["cron"] /\ result'["cron"] = result["cron"]
      BY <1>2, <2>2, ToldTyped, GotoTyped DEF Enter
    <3>2. seen'["cron"] = seen["cron"]
      BY <1>2, <2>2 DEF Enter, TypeOK
    <3> QED
      BY <2>1, <3>1, <3>2, EventStutters
  <2>3. CASE c = "cron"
    <3>1. CASE Told("cron", "sync", "failed") \/ Told("cron", "sync", "skipped")
      <4>1. at["cron"] = "sync" /\ at'["cron"] = "settle" /\ result'["cron"] \in {"failed", "skipped"}
        BY <3>1, ToldTyped
      <4> QED
        BY <2>1, <4>1 DEF EventFollowed, OkMeansDelivered
    <3>2. CASE Goto("cron", "sync", "prompt") /\ seen' = [seen EXCEPT !["cron"] = queue]
               /\ UNCHANGED result
      <4>1. at["cron"] = "sync" /\ at'["cron"] = "prompt" /\ seen'["cron"] = queue
        BY <3>2, GotoTyped DEF TypeOK
      <4> QED
        BY <2>1, <3>2, <4>1 DEF EventFollowed, OkMeansDelivered
    <3> QED
      BY <1>2, <2>3, <3>1, <3>2 DEF Enter
  <2> QED
    BY <2>2, <2>3 DEF Callers
<1>3. ASSUME NEW c \in Callers, Answer(c) PROVE EventFollowed' /\ OkMeansDelivered'
  <2>1. status' = status /\ (JobEvent \in queue' => JobEvent \in queue)
    BY <1>3, EventStays DEF Answer, cronVars
  <2>2. CASE c = "loop"
    <3>1. at'["cron"] = at["cron"] /\ result'["cron"] = result["cron"]
      BY <1>3, <2>2, ToldTyped DEF Answer
    <3>2. seen'["cron"] = seen["cron"]
      BY <1>3, <2>2 DEF Answer, TypeOK
    <3> QED
      BY <2>1, <3>1, <3>2, EventStutters
  <2>3. CASE c = "cron"
    <3>1. /\ at["cron"] = "prompt" /\ at'["cron"] = "settle"
          /\ \/ result'["cron"] = "failed"
             \/ result'["cron"] = "ran" /\ queue' = IF seen["cron"] = {} THEN queue ELSE {}
      BY <1>3, <2>3, ToldTyped DEF Answer
    <3> QED
      BY <2>1, <3>1 DEF EventFollowed, OkMeansDelivered
  <2> QED
    BY <2>2, <2>3 DEF Callers
<1>4. ASSUME NEW c \in Callers, Settle(c) PROVE EventFollowed' /\ OkMeansDelivered'
  <2>1. UNCHANGED <<status, queue, seen>> /\ result'["cron"] = result["cron"]
    BY <1>4 DEF Settle, cronVars, TypeOK
  <2>2. CASE c = "loop"
    <3>1. at'["cron"] = at["cron"]
      BY <1>4, <2>2, GotoTyped DEF Settle
    <3> QED
      BY <2>1, <3>1, EventStutters
  <2>3. CASE c = "cron"
    <3>1. at["cron"] = "settle" /\ at'["cron"] = "back"
      BY <1>4, <2>3, GotoTyped DEF Settle
    <3> QED
      BY <2>1, <3>1 DEF EventFollowed, OkMeansDelivered
  <2> QED
    BY <2>2, <2>3 DEF Callers
<1>5. CASE LoopStep \/ Ring \/ IntervalEnds
  <2>1. at'["cron"] = at["cron"]
    BY <1>5, GotoTyped DEF LoopStep, Top, Unparked, Notified, Ring, IntervalEnds
  <2>2. UNCHANGED <<status, result, seen, queue>>
    BY <1>5 DEF LoopStep, Top, Unparked, Notified, Ring, IntervalEnds, cronVars
  <2> QED
    BY <2>1, <2>2, EventStutters
<1>6. ASSUME NEW by, JobStarts(by) PROVE EventFollowed' /\ OkMeansDelivered'
  <2>1. at["cron"] = "off" /\ at'["cron"] = "call"
    BY <1>6, GotoTyped DEF JobStarts
  <2>2. status' = "none" /\ result' = result
    BY <1>6 DEF JobStarts
  <2> QED
    BY <2>1, <2>2 DEF EventFollowed, OkMeansDelivered
<1>7. CASE JobCalls
  <2>1. at["cron"] = "call" /\ at'["cron"] = "wait" /\ result'["cron"] = "none"
    BY <1>7, GotoTyped DEF JobCalls, TypeOK
  <2>2. status' = status
    BY <1>7 DEF JobCalls, cronVars
  <2> QED
    BY <2>1, <2>2 DEF EventFollowed, OkMeansDelivered
<1>8. CASE JobWaits
  <2>1. at["cron"] = "back" /\ at'["cron"] = "call" /\ result'["cron"] = "busy"
    BY <1>8, GotoTyped DEF JobWaits
  <2>2. status' = status
    BY <1>8 DEF JobWaits, cronVars
  <2> QED
    BY <2>1, <2>2 DEF EventFollowed, OkMeansDelivered
\* "ok" is what a heartbeat that ran becomes.
<1>9. CASE JobEnds
  <2>1. at["cron"] = "back" /\ at'["cron"] = "off"
    BY <1>9, GotoTyped DEF JobEnds
  <2>2. result'["cron"] = "none" /\ queue' = queue
    BY <1>9 DEF JobEnds, TypeOK
  <2>3. status' = "ok" => result["cron"] = "ran"
    BY <1>9 DEF JobEnds, JobStatus
  <2> QED
    BY <2>1, <2>2, <2>3 DEF EventFollowed, OkMeansDelivered
<1>10. CASE WaitExpires \/ UNCHANGED vars \/ (\E on \in BOOLEAN : SetHeartbeats(on))
  <2>1. UNCHANGED <<at, result, seen, queue, status>>
    BY <1>10 DEF WaitExpires, SetHeartbeats, vars, cronVars
  <2> QED
    BY <2>1, EventStutters
<1>11. ASSUME NEW w \in Wakes, Wake(w) PROVE EventFollowed' /\ OkMeansDelivered'
  <2>1. UNCHANGED <<at, result, seen, status>> /\ queue' = queue \cup {w}
    BY <1>11 DEF Wake, cronVars
  <2> QED
    BY <2>1, EventStays, EventStutters
<1>12. ASSUME NEW r \in Runs, RunEnters(r) \/ RunReads(r) \/ RunEnds(r) \/ RunCallsCron(r) \/ ToolServed(r)
       PROVE  EventFollowed' /\ OkMeansDelivered'
  <2>1. UNCHANGED <<at, result, seen, status>> /\ (queue' = queue \/ queue' = {})
    BY <1>12 DEF RunEnters, RunReads, RunEnds, RunCallsCron, ToolServed, cronVars
  <2> QED
    BY <2>1, EventStays, EventStutters
\* A dropped job ends without a status.
<1>13. ASSUME NEW r \in Runs, RunTimesOut(r) PROVE EventFollowed' /\ OkMeansDelivered'
  <2>1. UNCHANGED <<status, seen, queue>>
    BY <1>13 DEF RunTimesOut
  <2>2. CASE UNCHANGED <<at, result>>
    BY <2>1, <2>2, EventStutters
  <2>3. CASE run[r] = "job"
    <3>1. at'["cron"] = "off" /\ result'["cron"] = "none"
      BY <1>13, <2>3 DEF RunTimesOut, TypeOK
    <3>2. at["cron"] # "off" => status = "none"
      BY DEF EventFollowed
    <3> QED
      BY <2>1, <3>1, <3>2 DEF EventFollowed, OkMeansDelivered
  <2> QED
    BY <1>13, <2>2, <2>3 DEF RunTimesOut
<1> QED
  BY <1>1, <1>2, <1>3, <1>4, <1>5, <1>6, <1>7, <1>8, <1>9, <1>10, <1>11, <1>12, <1>13
  DEF Next, OnceStep, JobStep, TimerStartsJob, ToolRunsJob

-----------------------------------------------------------------------------
\* The inductive invariant holds in every state.
THEOREM Invariant == Spec => []IInv
<1>1. IInv /\ [Next]_vars => IInv'
  BY TypesKept, LocksKept, LockKept, OverlapKept, EventKept DEF IInv
<1> QED
  BY <1>1, InitInv, PTL DEF Spec

\* Every variable keeps its type.
THEOREM TypeCorrect == Spec => []TypeOK
<1>1. IInv => TypeOK
  BY DEF IInv
<1> QED
  BY <1>1, Invariant, PTL

\* The loop and the cron job never run a heartbeat at the same time.
THEOREM OneHeartbeat == Spec => []OneLocks
<1>1. IInv => OneLocks
  BY DEF IInv
<1> QED
  BY <1>1, Invariant, PTL

\* No run that was in the lane when a heartbeat began is still there while it
\* prompts: whoever overlaps came later.
THEOREM OverlapBounded == Spec => []OverlapsLateRunsOnly
<1>1. IInv => OverlapsLateRunsOnly
  BY DEF IInv
<1> QED
  BY <1>1, Invariant, PTL

\* A job that reports "ok" has had its event delivered, also when its run was
\* dropped and started anew.
THEOREM OkDelivered == Spec => []OkMeansDelivered
<1>1. IInv => OkMeansDelivered
  BY DEF IInv
<1> QED
  BY <1>1, Invariant, PTL

-----------------------------------------------------------------------------
(* A wake is remembered.                                                   *)

\* A heartbeat, or its refusal, that will not leave a retry behind.
Trying(c) == at[c] \in {"sync", "prompt"} \/ (at[c] = "settle" /\ result[c] # "busy")

\* As long as a wake has had no heartbeat the loop has a permit, is about to ask
\* for a heartbeat, or has a retry that it knows of, or will when it looks.
WakeRemembered ==
  woken => /\ enabled /\ at["loop"] # "parked"
           /\ \/ permit \/ at["loop"] = "wait"
              \/ at["loop"] = "settle" /\ result["loop"] = "busy"
              \/ retry /\ (at["loop"] = "top" \/ (at["loop"] = "sleep" /\ alarm # "interval"))

\* A heartbeat that takes the retry away began before the wake, which then has
\* more than the retry.
RetryNotNeeded == \A c \in Callers : Trying(c) /\ woken => permit \/ at["loop"] = "wait"

WakeInv == WakeRemembered /\ RetryNotNeeded

\* A step that leaves the loop where it is and begins no heartbeat.
LEMMA WakeStutters ==
  ASSUME WakeInv, woken' = woken, enabled' = enabled, UNCHANGED <<retry, alarm>>, permit => permit',
         at'["loop"] = at["loop"], result'["loop"] = result["loop"],
         \A c \in Callers : Trying(c)' => Trying(c)
  PROVE  WakeInv'
BY DEF WakeInv, WakeRemembered, RetryNotNeeded

\* A step of the cron job outside run_once.
LEMMA WakeOfJob ==
  ASSUME WakeInv, woken' = woken, enabled' = enabled, UNCHANGED loopVars,
         at'["loop"] = at["loop"], result'["loop"] = result["loop"],
         at'["cron"] \in {"off", "call", "wait", "back"}
  PROVE  WakeInv'
<1>1. \A c \in Callers : Trying(c)' => Trying(c)
  BY DEF Trying, Callers
<1> QED
  BY <1>1, WakeStutters DEF loopVars

\* A heartbeat that is under way.
LEMMA WakeOfTrying ==
  ASSUME WakeInv, NEW c \in Callers, Trying(c),
         woken' = woken, enabled' = enabled, permit' = permit, at'["loop"] # "parked",
         at["loop"] = "wait" => at'["loop"] = "wait"
  PROVE  WakeInv'
BY DEF WakeInv, WakeRemembered, RetryNotNeeded

LEMMA WakeKept == TypeOK /\ OneLocks /\ WakeInv /\ [Next]_vars => WakeInv'
<1> SUFFICES ASSUME TypeOK, OneLocks, WakeInv, [Next]_vars PROVE WakeInv'
  OBVIOUS
<1> USE Labels
<1>w. /\ woken => enabled /\ at["loop"] # "parked"
      /\ woken \in BOOLEAN /\ permit \in BOOLEAN
  BY DEF WakeInv, WakeRemembered, TypeOK
<1>1. ASSUME NEW c \in Callers, Begin(c) PROVE WakeInv'
  <2>1. \A d \in Callers : at[d] \notin {"sync", "prompt", "settle"}
    BY <1>1 DEF Begin, RunLocked
  <2>2. CASE ~woken'
    BY <2>2 DEF WakeInv, WakeRemembered, RetryNotNeeded
  <2>3. CASE woken'
    <3>1. Told(c, "wait", "busy") /\ UNCHANGED <<woken, enabled, loopVars>>
      BY <1>1, <2>3, <1>w DEF Begin
    <3>2. /\ at[c] = "wait" /\ at'[c] = "settle" /\ result'[c] = "busy"
          /\ \A d \in Callers : d # c => at'[d] = at[d] /\ result'[d] = result[d]
      BY <3>1, ToldTyped
    <3>3. \A d \in Callers : ~Trying(d)'
      BY <2>1, <3>2 DEF Trying
    <3> QED
      BY <1>w, <3>1, <3>2, <3>3 DEF WakeInv, WakeRemembered, RetryNotNeeded, loopVars, Callers
  <2> QED
    BY <2>2, <2>3
<1>2. ASSUME NEW c \in Callers, Enter(c) \/ Answer(c) PROVE WakeInv'
  <2>1. /\ at[c] \in {"sync", "prompt"} /\ at'[c] \in {"prompt", "settle"}
        /\ \A d \in Callers : d # c => at'[d] = at[d]
    BY <1>2, ToldTyped, GotoTyped DEF Enter, Answer
  <2>2. Trying(c) /\ UNCHANGED <<woken, enabled, loopVars>>
    BY <1>2, <2>1 DEF Trying, Enter, Answer
  <2>3. at'["loop"] # "parked" \/ ~woken
    BY <1>w, <2>1
  <2>4. at["loop"] = "wait" => at'["loop"] = "wait"
    BY <2>1
  <2>5. CASE woken
    BY <2>2, <2>3, <2>4, <2>5, WakeOfTrying DEF loopVars
  <2>6. CASE ~woken
    BY <2>2, <2>6 DEF WakeInv, WakeRemembered, RetryNotNeeded
  <2> QED
    BY <2>5, <2>6
<1>3. ASSUME NEW c \in Callers, Settle(c) PROVE WakeInv'
  <2>1. /\ at[c] = "settle" /\ at'[c] = (IF c = "loop" THEN "top" ELSE "back")
        /\ \A d \in Callers : d # c => at'[d] = at[d]
    <3>1. (IF c = "loop" THEN "top" ELSE "back") \in Places
      OBVIOUS
    <3> QED
      BY <1>3, <3>1, GotoTyped DEF Settle
  <2>2. UNCHANGED <<woken, enabled, permit, alarm>>
    BY <1>3 DEF Settle
  <2>3. \A d \in Callers : ~Trying(d)'
    BY <2>1 DEF Trying, OneLocks, Locking
  <2>4. CASE ~woken
    BY <2>2, <2>4 DEF WakeInv, WakeRemembered, RetryNotNeeded
  <2>5. CASE woken /\ result[c] # "busy"
    <3>1. Trying(c)
      BY <2>1, <2>5 DEF Trying
    <3> QED
      BY <1>w, <2>1, <2>2, <2>5, <3>1, WakeOfTrying
  <2>6. CASE woken /\ result[c] = "busy"
    <3>1. retry' = TRUE
      BY <1>3, <2>6 DEF Settle
    <3>2. c = "loop" => at'["loop"] = "top"
      BY <2>1
    <3>3. c = "cron" => at'["loop"] = at["loop"] /\ at["loop"] # "settle"
      BY <2>1 DEF OneLocks, Locking
    <3>4. c = "loop" \/ c = "cron"
      BY DEF Callers
    <3> QED
      BY <1>w, <2>2, <2>3, <2>6, <3>1, <3>2, <3>3, <3>4 DEF WakeInv, WakeRemembered, RetryNotNeeded
  <2> QED
    BY <2>4, <2>5, <2>6
<1>4. CASE Top
  <2>1. CASE ~woken
    BY <1>4, <2>1 DEF Top, WakeInv, WakeRemembered, RetryNotNeeded
  <2>2. CASE woken
    <3>1. /\ at["loop"] = "top" /\ at'["loop"] = "sleep" /\ at'["cron"] = at["cron"]
          /\ UNCHANGED <<enabled, result, permit, retry, woken>>
          /\ retry => alarm' # "interval"
      BY <1>4, <1>w, <2>2, GotoTyped DEF Top
    <3>2. \A d \in Callers : Trying(d)' => Trying(d)
      BY <3>1 DEF Trying, Callers
    <3> QED
      BY <1>w, <2>2, <3>1, <3>2 DEF WakeInv, WakeRemembered, RetryNotNeeded
  <2> QED
    BY <1>w, <2>1, <2>2
<1>5. CASE Unparked
  <2>1. ~woken'
    BY <1>5, <1>w DEF Unparked, Goto
  <2> QED
    BY <2>1 DEF WakeInv, WakeRemembered, RetryNotNeeded
<1>6. CASE Notified \/ Ring
  <2>1. at'["loop"] = "wait" /\ UNCHANGED <<enabled, woken>>
    BY <1>6, GotoTyped DEF Notified, Ring
  <2> QED
    BY <1>w, <2>1 DEF WakeInv, WakeRemembered, RetryNotNeeded
<1>7. CASE IntervalEnds \/ WaitExpires \/ UNCHANGED vars
  BY <1>7, WakeStutters DEF IntervalEnds, WaitExpires, vars, loopVars, Trying
<1>8. ASSUME NEW w \in Wakes, Wake(w) PROVE WakeInv'
  <2>1. UNCHANGED <<enabled, at, result, retry, alarm>>
    BY <1>8 DEF Wake
  <2>2. CASE UNCHANGED <<permit, woken>>
    BY <2>1, <2>2, WakeStutters DEF Trying
  <2>3. CASE permit' = TRUE /\ woken' = (woken \/ (enabled /\ at["loop"] # "parked"))
    BY <1>w, <2>1, <2>3 DEF WakeInv, WakeRemembered, RetryNotNeeded
  <2> QED
    BY <1>8, <2>2, <2>3 DEF Wake
<1>9. ASSUME NEW on \in BOOLEAN, SetHeartbeats(on) PROVE WakeInv'
  <2>1. /\ UNCHANGED <<at, result, retry, alarm>> /\ enabled' = on /\ (permit => permit')
        /\ woken' = (woken /\ on)
    BY <1>9 DEF SetHeartbeats
  <2>2. CASE woken'
    <3>1. on = TRUE /\ woken
      BY <2>1, <2>2
    <3> QED
      BY <1>w, <2>1, <3>1 DEF WakeInv, WakeRemembered, RetryNotNeeded, Trying
  <2>3. CASE ~woken'
    BY <2>3 DEF WakeInv, WakeRemembered, RetryNotNeeded
  <2> QED
    BY <2>2, <2>3
<1>10. ASSUME NEW by, JobStarts(by) PROVE WakeInv'
  <2>1. at'["cron"] = "call" /\ at'["loop"] = at["loop"]
    BY <1>10, GotoTyped DEF JobStarts
  <2> QED
    BY <1>10, <2>1, WakeOfJob DEF JobStarts
<1>11. CASE JobStep
  <2>1. /\ at'["cron"] \in {"wait", "call", "off"} /\ at'["loop"] = at["loop"]
        /\ UNCHANGED <<woken, enabled, loopVars>>
    BY <1>11, GotoTyped DEF JobStep, JobCalls, JobWaits, JobEnds
  <2>2. result'["loop"] = result["loop"]
    BY <1>11 DEF JobStep, JobCalls, JobWaits, JobEnds, TypeOK
  <2> QED
    BY <2>1, <2>2, WakeOfJob
<1>12. ASSUME NEW r \in Runs,
              RunEnters(r) \/ RunReads(r) \/ RunEnds(r) \/ RunCallsCron(r) \/ ToolServed(r)
       PROVE  WakeInv'
  <2>1. UNCHANGED <<woken, enabled, loopVars, at, result>>
    BY <1>12 DEF RunEnters, RunReads, RunEnds, RunCallsCron, ToolServed
  <2> QED
    BY <2>1, WakeStutters DEF Trying, loopVars
<1>13. ASSUME NEW r \in Runs, RunTimesOut(r) PROVE WakeInv'
  <2>1. UNCHANGED <<woken, enabled, loopVars>>
    BY <1>13 DEF RunTimesOut
  <2>2. CASE UNCHANGED <<at, result>>
    BY <2>1, <2>2, WakeStutters DEF Trying, loopVars
  <2>3. CASE /\ at' = [at EXCEPT !["cron"] = "off"]
             /\ result' = [result EXCEPT !["cron"] = "none"]
    <3>1. at'["cron"] = "off" /\ at'["loop"] = at["loop"] /\ result'["loop"] = result["loop"]
      BY <2>3 DEF TypeOK
    <3> QED
      BY <2>1, <3>1, WakeOfJob
  <2> QED
    BY <1>13, <2>2, <2>3 DEF RunTimesOut
<1> QED
  BY <1>1, <1>2, <1>3, <1>4, <1>5, <1>6, <1>7, <1>8, <1>9, <1>10, <1>11, <1>12, <1>13
  DEF Next, OnceStep, LoopStep, TimerStartsJob, ToolRunsJob

\* What must be there for a wake to be served at last: from the wake to the next
\* heartbeat the loop is never left without a permit, a retry it knows of, or a
\* heartbeat it is about to ask for, though heartbeats and refusals of the cron
\* job set and clear the same retry meanwhile.
THEOREM WakeNotForgotten == Spec => []WakeRemembered
<1>1. Init => WakeInv
  BY DEF Init, WakeInv, WakeRemembered, RetryNotNeeded
<1>2. IInv /\ WakeInv /\ [Next]_vars => WakeInv'
  BY WakeKept DEF IInv
<1>3. WakeInv => WakeRemembered
  BY DEF WakeInv
<1> QED
  BY <1>1, <1>2, <1>3, Invariant, PTL DEF Spec

\* The cron lock is not lost: who waits for it waits for a job that is under way,
\* also when the run whose tool started the job is dropped at its time limit.
THEOREM LockNotLost == Spec => []LockIsJobs
<1>1. IInv => LockIsJobs
  BY DEF IInv
<1> QED
  BY <1>1, Invariant, PTL
=============================================================================
