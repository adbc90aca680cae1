---------------------------- MODULE CronService ----------------------------
(***************************************************************************)
(* OpenclawCronService: the job store in memory and on disk, the timer     *)
(* loop that sleeps until the next due job, and the cron.* requests.       *)
(* A mutex guards the store and is held for the whole execution of a job,  *)
(* so a request runs only while no task holds it (Unlocked); time passes,  *)
(* and the process may crash, in the middle of an execution.               *)
(* What a job does is abstract: it ends "ok", "error" or "skipped".  Names,*)
(* delivery settings, events and the run log are left out.                 *)
(***************************************************************************)
EXTENDS Integers, Sequences, FiniteSets, FiniteSetsExt

CONSTANTS Jobs,           \* job ids (UUIDs)
          Specs,          \* the jobs cron.add may be asked to create
          Patches,        \* the patches cron.update may be asked to apply
          Backoff,        \* CRON_ERROR_BACKOFF_SCHEDULE_MS, a sequence
          Stuck,          \* CRON_STUCK_RUN_MS
          NoJob, NoTask,
          MaxTime,        \* bound on the clock
          MaxWait,        \* bound on a request's wait for the lock
          MaxFaults       \* bound on restarts, dropped requests and failed writes

NoTime == -1                  \* None of an Option<u64>

ASSUME CronAssumption ==
  /\ Stuck \in Nat /\ MaxTime \in Nat /\ MaxFaults \in Nat /\ MaxWait \in Nat
  /\ Backoff \in Seq(Nat) /\ Len(Backoff) > 0

\* CronSchedule, and CronJob with its state; times are in milliseconds.
Times == Nat \cup {NoTime}
ScheduleFrom(anchors) == [kind : {"at"}, at : Nat]
                         \cup [kind : {"every"}, period : Nat \ {0}, anchor : anchors]
                         \cup [kind : {"cron"}, minutes : SUBSET Nat]
Schedule == ScheduleFrom(Nat)
Job == [schedule : Schedule, target : {"main", "isolated"},
        payload : {"systemEvent", "agentTurn"}, enabled : BOOLEAN,
        deleteAfterRun : BOOLEAN, nextRun : Times, runningAt : Times,
        lastStatus : {"none", "ok", "error", "skipped"}, errors : Nat]

ASSUME NoJobAssumption == NoJob \notin Jobs /\ NoJob \notin Job

\* The execution that holds the lock: the request or the timer, the job it is
\* at and its slot, and the jobs it has still to run.
Task == [by : {"timer", "due", "force"}, job : Jobs \cup {NoJob}, slot : Times,
         started : Times, due : SUBSET Jobs]

ASSUME NoTaskAssumption == NoTask \notin Task

\* What is remembered of a job's runs: the last slot the timer ran it for, its
\* last end, the end of the backoff if that was an error, and the earliest time
\* that a request has asked for since then.
Run == [slot : Times, ended : Times, until : Times, asked : Times]

\* What requests ask for is well typed; an "every" schedule may lack its anchor.
\* A patched lastStatus comes with the time of the run it speaks of.
ASSUME RequestAssumption ==
  /\ \A s \in Specs :
       s \in [schedule : ScheduleFrom(Times), target : {"main", "isolated"},
              payload : {"systemEvent", "agentTurn"}, enabled : BOOLEAN,
              deleteAfterRun : BOOLEAN]
  /\ \A p \in Patches : \A f \in DOMAIN p :
       \/ f = "schedule" /\ p[f] \in ScheduleFrom(Times)
       \/ f = "target" /\ p[f] \in {"main", "isolated"}
       \/ f = "payload" /\ p[f] \in {"systemEvent", "agentTurn"}
       \/ f \in {"enabled", "deleteAfterRun"} /\ p[f] \in BOOLEAN
       \/ f \in {"nextRun", "runningAt"} /\ p[f] \in Nat
       \/ f = "lastStatus" /\ p[f] \in {"ok", "error", "skipped"}
       \/ f = "errors" /\ p[f] \in Nat

VARIABLES
  now,      \* now_ms()
  mem,      \* state.store.jobs, by id
  disk,     \* the jobs.json file
  loaded,   \* state.loaded
  permit,   \* the permit notify_one stores
  loop,     \* where run_loop is
  loopTime, \* the wake-up it sleeps for, or the time it woke at
  task,     \* the execution that holds the lock
  ran,      \* history: what is remembered of each job's runs
  unsaved,  \* history: a request or a write failed since the last good write
  faults    \* number of restarts, dropped requests and failed writes so far

vars == <<now, mem, disk, loaded, permit, loop, loopTime, task, ran, unsaved, faults>>

Unlocked == loaded /\ task = NoTask
NeverRan == [slot |-> NoTime, ended |-> NoTime, until |-> NoTime, asked |-> NoTime]

-----------------------------------------------------------------------------
(* Schedules: at a time, every period from an anchor, or the minutes a cron *)
(* expression matches.                                                      *)

OneShot(job) == job.schedule.kind = "at"

\* Mutant: the division rounds down.
EverySlotFloor(s, t) ==
  IF t < s.anchor THEN s.anchor
  ELSE s.anchor + Max({1, (t - s.anchor) \div s.period}) * s.period
\* The first slot not before t, and never the anchor itself once it is reached.
EverySlot(s, t) ==
  IF t < s.anchor THEN s.anchor
  ELSE s.anchor + Max({1, (t - s.anchor + s.period - 1) \div s.period}) * s.period

\* compute_job_next_run_at_ms.
NextRun(job, t) ==
  LET s == job.schedule
      matches == {m \in s.minutes : m > t}
  IN IF ~job.enabled THEN NoTime
     ELSE CASE s.kind = "at" -> IF job.lastStatus = "ok" THEN NoTime ELSE s.at
            [] s.kind = "every" -> EverySlot(s, t)
            [] OTHER -> IF matches = {} THEN NoTime ELSE Min(matches)

\* cron_error_backoff_ms.
ErrorBackoff(errors) == IF errors = 0 THEN 0 ELSE Backoff[Min({errors, Len(Backoff)})]

\* recompute_next_runs, for one job.
Recompute(job, t) ==
  IF job = NoJob THEN job
  ELSE IF ~job.enabled THEN [job EXCEPT !.nextRun = NoTime, !.runningAt = NoTime]
  ELSE IF OneShot(job) /\ job.lastStatus # "none"
  THEN [job EXCEPT !.enabled = FALSE, !.nextRun = NoTime, !.runningAt = NoTime]
  ELSE [job EXCEPT
         !.runningAt = IF @ # NoTime /\ t - @ > Stuck THEN NoTime ELSE @,
         !.nextRun = IF @ = NoTime THEN NextRun(job, t) ELSE @]

RecomputeAll(jobs, t) == [j \in Jobs |-> Recompute(jobs[j], t)]

\* next_wake_at_ms.
NextWake(jobs) ==
  LET enabled == {j \in Jobs : jobs[j] # NoJob /\ jobs[j].enabled}
      times == {jobs[j].nextRun : j \in enabled} \ {NoTime}
  IN IF times = {} THEN NoTime ELSE Min(times)

Due(job, t) == job # NoJob /\ job.enabled /\ job.nextRun # NoTime /\ job.nextRun <= t

\* assert_supported_job_spec.
Supported(job) == \/ job.target = "main" /\ job.payload = "systemEvent"
                  \/ job.target = "isolated" /\ job.payload = "agentTurn"

-----------------------------------------------------------------------------
Init ==
  /\ now = 0
  /\ mem = [j \in Jobs |-> NoJob] /\ disk = [j \in Jobs |-> NoJob]
  /\ loaded = FALSE /\ permit = FALSE
  /\ loop = "arm" /\ loopTime = NoTime
  /\ task = NoTask
  /\ ran = [j \in Jobs |-> NeverRan] /\ unsaved = FALSE
  /\ faults = 0

\* write_json_atomic replaces the file or leaves it as it was.
Write(jobs, ok) ==
  /\ ok \/ faults < MaxFaults
  /\ disk' = IF ok THEN jobs ELSE disk
  /\ faults' = IF ok THEN faults ELSE faults + 1

\* persist_locked.
Persist(jobs, ok) == Write(jobs, ok) /\ unsaved' = ~ok

\* Mutant: notify_one is forgotten.
PersistQuietly(jobs) ==
  \E ok \in BOOLEAN : Persist(jobs, ok) /\ UNCHANGED permit
\* The end of a request: persist_locked(..)? and then notify_one.
PersistAndNotify(jobs) ==
  \E ok \in BOOLEAN : Persist(jobs, ok) /\ permit' = (permit \/ ok)

\* ensure_loaded_locked, which does not mind when the file cannot be written.
Load ==
  /\ ~loaded
  /\ loaded' = TRUE
  /\ mem' = RecomputeAll(disk, now)
  /\ \E ok \in BOOLEAN : Write(mem', ok)
  /\ UNCHANGED <<now, permit, loop, loopTime, task, ran, unsaved>>

-----------------------------------------------------------------------------
(* The timer loop.                                                         *)

Arm ==
  /\ loop = "arm" /\ Unlocked
  /\ loopTime' = NextWake(mem)
  /\ loop' = IF loopTime' = NoTime THEN "idle" ELSE "sleep"
  /\ UNCHANGED <<now, mem, disk, loaded, permit, task, ran, unsaved, faults>>

Notified ==
  /\ loop \in {"idle", "sleep"} /\ permit
  /\ permit' = FALSE /\ loop' = "arm" /\ loopTime' = NoTime
  /\ UNCHANGED <<now, mem, disk, loaded, task, ran, unsaved, faults>>

\* The sleep is over; run_due_jobs reads the clock before it takes the lock.
Fire ==
  /\ loop = "sleep" /\ loopTime <= now
  /\ loop' = "fired" /\ loopTime' = now
  /\ UNCHANGED <<now, mem, disk, loaded, permit, task, ran, unsaved, faults>>

StartDueJobs ==
  /\ loop = "fired" /\ Unlocked
  /\ mem' = RecomputeAll(mem, loopTime)
  /\ task' = [by |-> "timer", job |-> NoJob, slot |-> NoTime, started |-> NoTime,
              due |-> {j \in Jobs : Due(mem'[j], loopTime) /\ mem'[j].runningAt = NoTime}]
  /\ loop' = "running" /\ loopTime' = NoTime
  /\ UNCHANGED <<now, disk, loaded, permit, ran, unsaved, faults>>

-----------------------------------------------------------------------------
(* Executing the jobs of a task.                                           *)

\* Mutant: the running marker is persisted when the job starts.
BeginJobPersisted ==
  /\ task # NoTask /\ task.job = NoJob
  /\ \E j \in task.due :
       /\ mem' = [mem EXCEPT ![j].runningAt = now]
       /\ task' = [task EXCEPT !.job = j, !.due = @ \ {j},
                               !.slot = mem[j].nextRun, !.started = now]
  /\ disk' = mem'
  /\ UNCHANGED <<now, loaded, permit, loop, loopTime, ran, unsaved, faults>>

\* execute_cron_job up to the first await: the job is marked running.
BeginJob ==
  /\ task # NoTask /\ task.job = NoJob
  /\ \E j \in task.due :
       /\ mem' = [mem EXCEPT ![j].runningAt = now]
       /\ task' = [task EXCEPT !.job = j, !.due = @ \ {j},
                               !.slot = mem[j].nextRun, !.started = now]
  /\ UNCHANGED <<now, disk, loaded, permit, loop, loopTime, ran, unsaved, faults>>

\* How a job may end; one whose payload does not fit its target is skipped,
\* unless announcing that fails.
Outcomes(job) ==
  IF job.target = "main"
  THEN IF Supported(job) THEN {"ok", "skipped", "error"} ELSE {"skipped"}
  ELSE IF Supported(job) THEN {"ok", "error"} ELSE {"skipped", "error"}

\* What execute_cron_job records of the end of an execution.
WithOutcome(job, status) ==
  [job EXCEPT !.runningAt = NoTime, !.lastStatus = status,
              !.errors = IF status = "error" THEN Min({@ + 1, Len(Backoff)}) ELSE 0]

\* Mutant: no backoff after an error.
FinishedNoBackoff(job, status) ==
  LET done == WithOutcome(job, status)
  IN IF OneShot(job) THEN [done EXCEPT !.enabled = FALSE, !.nextRun = NoTime]
     ELSE [done EXCEPT !.nextRun = NextRun(done, now)]

\* Mutant: a one-shot job that failed stays due.
FinishedRetries(job, status) ==
  LET done == WithOutcome(job, status)
  IN IF OneShot(job) /\ status = "ok" THEN [done EXCEPT !.enabled = FALSE, !.nextRun = NoTime]
     ELSE [done EXCEPT !.nextRun = Max({NextRun(done, now), now + ErrorBackoff(done.errors)})]

\* The job after execute_cron_job: reschedule, back off or disable it.
Finished(job, status) ==
  LET done == WithOutcome(job, status)
      normal == NextRun(done, now)
  IN IF OneShot(job) /\ status = "ok" /\ job.deleteAfterRun THEN NoJob
     ELSE IF OneShot(job) THEN [done EXCEPT !.enabled = FALSE, !.nextRun = NoTime]
     ELSE IF status = "error" /\ job.enabled
     THEN [done EXCEPT !.nextRun = Max({normal, now + ErrorBackoff(done.errors)})]
     ELSE [done EXCEPT !.nextRun = normal]

\* A run that ends now: an error has the backoff of its consecutive errors.
Ended(r, job, status) ==
  [slot |-> IF task.by = "timer" THEN task.slot ELSE r.slot, ended |-> now,
   until |-> IF status = "error" THEN now + ErrorBackoff(WithOutcome(job, status).errors)
             ELSE NoTime,
   asked |-> NoTime]

FinishJob ==
  /\ task # NoTask /\ task.job # NoJob
  /\ LET j == task.job
     IN \E status \in Outcomes(mem[j]) :
          /\ mem' = [mem EXCEPT ![j] = Finished(@, status)]
          /\ ran' = [ran EXCEPT ![j] = IF mem'[j] = NoJob THEN NeverRan
                                       ELSE Ended(@, mem[j], status)]
  /\ task' = [task EXCEPT !.job = NoJob]
  /\ UNCHANGED <<now, disk, loaded, permit, loop, loopTime, unsaved, faults>>

\* The store is persisted and the lock released.
EndTask ==
  /\ task # NoTask /\ task.job = NoJob /\ task.due = {}
  /\ task' = NoTask
  /\ \/ task.by = "timer" /\ loop' = "arm" /\ UNCHANGED permit
        /\ \E ok \in BOOLEAN : Persist(mem, ok)
     \/ task.by # "timer" /\ PersistAndNotify(mem) /\ UNCHANGED loop
  /\ UNCHANGED <<now, mem, loaded, loopTime, ran>>

-----------------------------------------------------------------------------
(* The cron.* requests.  Those that use the time read the clock at t, before *)
(* they wait for the lock.                                                 *)

Arrival == Max({0, now - MaxWait})..now

\* A schedule without an anchor is anchored at the request's time.
Anchored(s, t) == IF s.kind = "every" /\ s.anchor = NoTime THEN [s EXCEPT !.anchor = t] ELSE s

NewJob(spec, t) ==
  LET job == [schedule |-> Anchored(spec.schedule, t), target |-> spec.target,
              payload |-> spec.payload, enabled |-> spec.enabled,
              deleteAfterRun |-> spec.deleteAfterRun, nextRun |-> NoTime,
              runningAt |-> NoTime, lastStatus |-> "none", errors |-> 0]
  IN [job EXCEPT !.nextRun = NextRun(job, t)]

\* cron.add: an unsupported job is rejected before the store is touched.
Add(j, spec, t) ==
  /\ Unlocked /\ mem[j] = NoJob /\ disk[j] = NoJob
  /\ Supported(spec)
  /\ mem' = [mem EXCEPT ![j] = NewJob(spec, t)]
  /\ PersistAndNotify(mem')
  /\ UNCHANGED <<now, loaded, loop, loopTime, task, ran>>

\* The job with the fields of the patch.
Patched(job, patch, t) ==
  [f \in DOMAIN job |-> IF f \notin DOMAIN patch THEN job[f]
                        ELSE IF f = "schedule" THEN Anchored(patch.schedule, t) ELSE patch[f]]

\* A patch of the schedule or of the enabled flag recomputes the next run.
Rescheduled(job, patch, t) ==
  IF DOMAIN patch \cap {"schedule", "enabled"} = {} THEN job
  ELSE IF job.enabled THEN [job EXCEPT !.nextRun = NextRun(job, t)]
  ELSE [job EXCEPT !.nextRun = NoTime, !.runningAt = NoTime]

\* What a patch that touches the timing of a job that ran asks for: a run at the time that
\* is set now, or at one that is computed later by one of these clocks.
Retimed(r, job, patch, clocks) ==
  IF r.ended = NoTime \/ DOMAIN patch \cap {"schedule", "enabled", "nextRun"} = {} THEN r
  ELSE [r EXCEPT !.asked = Min(clocks \cup ({job.nextRun, @} \ {NoTime}))]

\* A rejected update: the job stays patched in memory, unpersisted, unannounced
\* and with its old next run; one it lacks is computed by whoever recomputes next.
Reject(j, job, patch, t) ==
  /\ mem' = [mem EXCEPT ![j] = job] /\ unsaved' = TRUE
  /\ ran' = [ran EXCEPT ![j] =
       Retimed(@, job, patch, {t} \cup (IF loop = "fired" THEN {loopTime} ELSE {}))]
  /\ UNCHANGED <<disk, permit, faults>>

\* What is applied before the payload is.
BeforePayload(patch) ==
  [f \in DOMAIN patch \cap {"schedule", "target", "enabled", "deleteAfterRun"} |-> patch[f]]

\* cron.update: the patch is applied in place, up to a payload of another kind
\* that lacks its text, and validated afterwards.
Update(j, patch, t) ==
  /\ Unlocked /\ mem[j] # NoJob
  /\ \/ /\ "payload" \in DOMAIN patch /\ patch.payload # mem[j].payload
        /\ LET head == BeforePayload(patch) IN Reject(j, Patched(mem[j], head, t), head, t)
     \/ LET job == Patched(mem[j], patch, t)
        IN \/ ~Supported(job) /\ Reject(j, job, patch, t)
           \/ /\ Supported(job)
              /\ mem' = [mem EXCEPT ![j] = Rescheduled(job, patch, t)]
              /\ ran' = [ran EXCEPT ![j] = Retimed(@, mem'[j], patch, {t})]
              /\ PersistAndNotify(mem')
  /\ UNCHANGED <<now, loaded, loop, loopTime, task>>

\* Mutant: the removal is not persisted.
RemoveFromMemory(j) ==
  /\ Unlocked
  /\ mem' = [mem EXCEPT ![j] = NoJob] /\ permit' = TRUE
  /\ ran' = [ran EXCEPT ![j] = NeverRan]
  /\ UNCHANGED <<now, disk, loaded, loop, loopTime, task, unsaved, faults>>

\* cron.remove.
Remove(j) ==
  /\ Unlocked
  /\ mem' = [mem EXCEPT ![j] = NoJob]
  /\ PersistAndNotify(mem')
  /\ ran' = [ran EXCEPT ![j] = NeverRan]
  /\ UNCHANGED <<now, loaded, loop, loopTime, task>>

\* cron.list and cron.status recompute in memory only.
List ==
  /\ Unlocked
  /\ mem' = RecomputeAll(mem, now)
  /\ UNCHANGED <<now, disk, loaded, permit, loop, loopTime, task, ran, unsaved, faults>>

\* cron.run, which looks neither at the running marker nor, when forced, at
\* the job's schedule.
RunNow(j, mode, t) ==
  /\ Unlocked /\ mem[j] # NoJob
  /\ mode = "force" \/ Due(mem[j], t)
  /\ task' = [by |-> mode, job |-> NoJob, slot |-> NoTime, started |-> NoTime, due |-> {j}]
  /\ UNCHANGED <<now, mem, disk, loaded, permit, loop, loopTime, ran, unsaved, faults>>

\* The agent run whose tool called cron.run is over its time limit: the request
\* is dropped where it waits, and nothing more is done for the job.
RunDropped ==
  /\ task # NoTask /\ task.by # "timer"
  /\ faults < MaxFaults /\ faults' = faults + 1
  /\ task' = NoTask /\ unsaved' = TRUE
  /\ UNCHANGED <<now, mem, disk, loaded, permit, loop, loopTime, ran>>

-----------------------------------------------------------------------------
Tick ==
  /\ now < MaxTime
  /\ now' = now + 1
  /\ UNCHANGED <<mem, disk, loaded, permit, loop, loopTime, task, ran, unsaved, faults>>

\* The process dies and is started again; only the file survives.
Crash ==
  /\ faults < MaxFaults /\ faults' = faults + 1
  /\ mem' = [j \in Jobs |-> NoJob] /\ loaded' = FALSE
  /\ permit' = FALSE /\ loop' = "arm" /\ loopTime' = NoTime /\ task' = NoTask
  /\ ran' = [j \in Jobs |-> NeverRan] /\ unsaved' = FALSE
  /\ UNCHANGED <<now, disk>>

LoopStep == Arm \/ Notified \/ Fire \/ StartDueJobs
TaskStep == BeginJob \/ FinishJob \/ EndTask
Request ==
  \/ \E j \in Jobs, t \in Arrival :
       \/ \E spec \in Specs : Add(j, spec, t)
       \/ \E patch \in Patches : Update(j, patch, t)
       \/ \E mode \in {"due", "force"} : RunNow(j, mode, t)
  \/ \E j \in Jobs : Remove(j)
  \/ List
  \/ RunDropped

Next == Load \/ LoopStep \/ TaskStep \/ Request \/ Tick \/ Crash

Spec == Init /\ [][Next]_vars

\* The loop and a started execution keep going.  The mutex is granted in FIFO
\* order and select! picks fairly, hence strong fairness for the steps that
\* wait for the lock or compete with a notification.
FairSpec == /\ Spec
            /\ WF_vars(Load) /\ WF_vars(TaskStep) /\ WF_vars(Notified)
            /\ SF_vars(Arm) /\ SF_vars(Fire) /\ SF_vars(StartDueJobs)

-----------------------------------------------------------------------------
(* Properties.                                                             *)

TypeOK ==
  /\ now \in Nat /\ loopTime \in Times /\ faults \in Nat
  /\ mem \in [Jobs -> Job \cup {NoJob}] /\ disk \in [Jobs -> Job \cup {NoJob}]
  /\ loaded \in BOOLEAN /\ permit \in BOOLEAN
  /\ loop \in {"arm", "idle", "sleep", "fired", "running"}
  /\ task \in Task \cup {NoTask}
  /\ ran \in [Jobs -> Run] /\ unsaved \in BOOLEAN

Executing(j) == task # NoTask /\ task.job = j

\* A one-shot job that ended with any status is never run again by the timer: not
\* on a time that is past, and not when a request enables or reschedules it, which
\* the next recomputation undoes.  A cron.run that is not forced runs it again only
\* if it comes between the two.  (A restart forgets the runs, here and below.)
OneShotRunsOnce ==
  \A j \in Jobs :
    Executing(j) /\ OneShot(mem[j]) /\ ran[j].ended # NoTime
    => task.by = "force" \/ (task.by = "due" /\ ran[j].asked # NoTime)

\* The timer does not run a job twice for one slot, nor for an earlier one, except
\* when the first run began and ended in the very instant of the slot (an "every"
\* job's next slot is the first one not before the end of the run), or when a
\* request has asked for that slot since: it set the time, or had the next run
\* computed by a clock it read before the slot and before it waited for the lock.
SlotRunsOnce ==
  \A j \in Jobs :
    /\ Executing(j) /\ task.by = "timer" /\ ran[j].slot # NoTime
    => \/ task.slot > ran[j].slot
       \/ task.slot = ran[j].slot /\ ran[j].ended = ran[j].slot
       \/ ran[j].asked # NoTime /\ ran[j].asked <= task.slot

\* After an error the timer leaves a job alone for the backoff of its consecutive
\* errors, however close its next slot is, however often the store is recomputed
\* and whatever else of the job is patched.  A request that enables it, changes its
\* schedule or sets its next run lifts the backoff.
BackoffRespected ==
  \A j \in Jobs :
    Executing(j) /\ task.by = "timer" /\ ran[j].until # NoTime
    => task.started >= ran[j].until \/ ran[j].asked # NoTime

\* Disabled, or enabled with a next run.  Only a request that takes the next run
\* away, or a schedule that is over, leaves an enabled job without one; what
\* such a job gets depends on the time it is next recomputed.
Timed(job) == job # NoJob /\ job.enabled => job.nextRun # NoTime

\* Outside an execution a crash loses nothing: what a restart would load is what
\* the scheduler works with now, however often it recomputed its store since the
\* file was written.  An update that is refused, a write that fails and a
\* cron.run that is dropped are made good by the next write of any request.
IdleCrashLosesNothing ==
  Unlocked /\ ~unsaved =>
    \A j \in Jobs : Timed(disk[j]) => Recompute(disk[j], now) = Recompute(mem[j], now)

\* A crash in the middle of a timer task repeats it: every job the task has
\* not finished is due in the file, and not marked as running there.
CrashRepeatsUnfinished ==
  task # NoTask /\ task.by = "timer" /\ ~unsaved =>
    \A j \in task.due \cup ({task.job} \ {NoJob}) :
      LET reloaded == Recompute(disk[j], now)
      IN Timed(disk[j]) => Due(reloaded, now) /\ reloaded.runningAt = NoTime

\* No wake-up is lost: a loop that sleeps, with no permit waiting for it, wakes
\* up no later than the next run of any job, whatever requests have added,
\* moved, run or recomputed since it computed its wake-up.
NoWakeUpLost ==
  loop \in {"idle", "sleep"} /\ ~permit /\ Unlocked /\ ~unsaved =>
    \A j \in Jobs :
      Timed(disk[j]) /\ mem[j] # NoJob /\ mem[j].enabled
      => loop = "sleep" /\ loopTime <= mem[j].nextRun

\* No due job is forgotten: whatever happens between computing the wake-up and
\* sleeping on it, the job is run or stops being due.
Overdue(j) == Unlocked /\ Due(mem[j], now) /\ mem[j].runningAt = NoTime
DueJobsRun == \A j \in Jobs : Overdue(j) /\ ~unsaved ~> ~Overdue(j) \/ unsaved
=============================================================================
