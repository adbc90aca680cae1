----------------------------- MODULE Heartbeat -----------------------------
(***************************************************************************)
(* OpenclawHeartbeatService and the main lane: the loop that runs a        *)
(* heartbeat when its interval is over, when a retry is due or when it is  *)
(* woken, the cron jobs that wake it now and wait for it with the cron     *)
(* service's lock in their hands, and the chat and agent runs of the lane, *)
(* whose tools may want that lock.                                         *)
(*                                                                         *)
(* There is no clock.  The interval (half an hour) may end at any time or  *)
(* never, a retry's second and a job's two minutes end at last.  Reasons,  *)
(* prompts and answers are left out, and so is the order of system events. *)
(***************************************************************************)
EXTENDS Integers, FiniteSets

CONSTANTS Runs,       \* chat and agent runs of the main lane
          Wakes,      \* wake requests, each with its system event
          JobEvent,   \* the system event of the cron job with wakeMode now
          MaxJobs,    \* bound on how often the job runs
          MaxToggles, \* bound on set-heartbeats requests
          Timer, NoOne

ASSUME HeartbeatAssumption ==
  /\ MaxJobs \in Nat /\ MaxToggles \in Nat
  /\ JobEvent \notin Wakes /\ Timer \notin Runs /\ NoOne \notin Runs \cup {Timer}

VARIABLES
  enabled, \* openclaw_heartbeats_enabled
  at,      \* where the loop and the cron job are
  result,  \* what run_once told each of them last
  seen,    \* the system events in the prompt of each
  permit,  \* the permit notify_one stores
  due,     \* next_due_ms is past
  retry,   \* retry_due_ms is set
  alarm,   \* what the loop sleeps for: "now", "retry" or "interval"
  run,     \* where each run of the lane is
  sawSome, \* the runs that found system events when they began
  called,  \* the runs that have used their cron tool
  holder,  \* who runs the cron job, holding the cron lock
  late,    \* the job has waited for two minutes
  status,  \* how the job ended last
  queue,   \* the system events of the main session
  sent,    \* the wakes so far
  jobs, toggles, \* how often the job ran and heartbeats were switched
  woken,   \* history: a wake the loop could see has had no heartbeat yet
  fresh    \* history: the runs that entered the lane while run_lock is held

loopVars == <<permit, due, retry, alarm>>
cronVars == <<holder, late, status, jobs>>
runVars == <<run, sawSome, called>>
vars == <<enabled, at, result, seen, loopVars, runVars, cronVars, queue, sent, toggles, woken, fresh>>

Callers == {"loop", "cron"}
Places == {"top", "parked", "sleep", "off", "call", "back", "wait", "sync", "prompt", "settle"}
Results == {"none", "disabled", "busy", "skipped", "failed", "ran"}
Events == Wakes \cup {JobEvent}

Init ==
  /\ enabled \in BOOLEAN
  /\ at = [c \in Callers |-> IF c = "loop" THEN "top" ELSE "off"]
  /\ result = [c \in Callers |-> "none"] /\ seen = [c \in Callers |-> {}]
  /\ permit = FALSE /\ due = FALSE /\ retry = FALSE /\ alarm = "interval"
  /\ run = [r \in Runs |-> "new"] /\ sawSome = {} /\ called = {}
  /\ holder = NoOne /\ late = FALSE /\ status = "none" /\ jobs = 0
  /\ queue = {} /\ sent = {} /\ toggles = 0 /\ woken = FALSE /\ fresh = {}

InLane == {r \in Runs : run[r] \in {"begun", "in", "tool", "job"}}
Goto(c, from, to) == at[c] = from /\ at' = [at EXCEPT ![c] = to]

-----------------------------------------------------------------------------
(* run_once, for the loop and for a cron job.                              *)

\* run_lock.
RunLocked == \E c \in Callers : at[c] \in {"sync", "prompt", "settle"}

Told(c, from, res) == Goto(c, from, "settle") /\ result' = [result EXCEPT ![c] = res]

\* Mutant: the lane is not looked at.
BeginBlindly(c) ==
  /\ ~RunLocked
  /\ \/ ~enabled /\ Told(c, "wait", "disabled") /\ UNCHANGED woken
     \/ enabled /\ Goto(c, "wait", "sync") /\ woken' = FALSE /\ UNCHANGED result
  /\ UNCHANGED <<enabled, seen, loopVars, runVars, cronVars, queue, sent, toggles, fresh>>

\* The lock is taken; heartbeats must be enabled and the lane empty.
Begin(c) ==
  /\ ~RunLocked
  /\ \/ ~enabled /\ Told(c, "wait", "disabled") /\ UNCHANGED woken
     \/ enabled /\ InLane # {} /\ Told(c, "wait", "busy") /\ UNCHANGED woken
     \/ enabled /\ InLane = {} /\ Goto(c, "wait", "sync") /\ woken' = FALSE /\ UNCHANGED result
  /\ UNCHANGED <<enabled, seen, loopVars, runVars, cronVars, queue, sent, toggles, fresh>>

\* The remote documents are synchronised.  Without a provider the heartbeat
\* fails; else it enters the lane and reads the events, and without any it is
\* skipped when all heartbeat files are empty.
Enter(c) ==
  /\ \/ Told(c, "sync", "failed") /\ UNCHANGED seen
     \/ queue = {} /\ Told(c, "sync", "skipped") /\ UNCHANGED seen
     \/ Goto(c, "sync", "prompt") /\ seen' = [seen EXCEPT ![c] = queue] /\ UNCHANGED result
  /\ UNCHANGED <<enabled, loopVars, runVars, cronVars, queue, sent, toggles, woken, fresh>>

\* Mutant: the events stay in the queue.
AnswerKeeps(c) ==
  /\ Told(c, "prompt", "failed") \/ Told(c, "prompt", "ran")
  /\ seen' = [seen EXCEPT ![c] = {}]
  /\ UNCHANGED <<enabled, loopVars, runVars, cronVars, queue, sent, toggles, woken, fresh>>

\* The provider answers or fails; an answer to a prompt with events clears them.
Answer(c) ==
  /\ \/ Told(c, "prompt", "failed") /\ UNCHANGED queue
     \/ Told(c, "prompt", "ran") /\ queue' = IF seen[c] = {} THEN queue ELSE {}
  /\ seen' = [seen EXCEPT ![c] = {}]
  /\ UNCHANGED <<enabled, loopVars, runVars, cronVars, sent, toggles, woken, fresh>>

\* Mutant: a busy lane leaves no retry.
SettleForgets(c) ==
  /\ Goto(c, "settle", IF c = "loop" THEN "top" ELSE "back")
  /\ CASE result[c] \in {"busy", "disabled"} -> UNCHANGED <<retry, due>>
       [] OTHER -> retry' = FALSE /\ due' = FALSE
  /\ result' = [result EXCEPT !["loop"] = "none"] /\ fresh' = {}
  /\ UNCHANGED <<enabled, seen, permit, alarm, runVars, cronVars, queue, sent, toggles, woken>>

\* The schedule is updated: a busy lane means a retry, and only a heartbeat that
\* was tried moves the interval.
Settle(c) ==
  /\ Goto(c, "settle", IF c = "loop" THEN "top" ELSE "back")
  /\ CASE result[c] = "busy" -> retry' = TRUE /\ UNCHANGED due
       [] result[c] = "disabled" -> UNCHANGED <<retry, due>>
       [] OTHER -> retry' = FALSE /\ due' = FALSE
  /\ result' = [result EXCEPT !["loop"] = "none"] /\ fresh' = {}
  /\ UNCHANGED <<enabled, seen, permit, alarm, runVars, cronVars, queue, sent, toggles, woken>>

-----------------------------------------------------------------------------
(* run_loop.                                                               *)

\* The time to sleep is computed once: a retry set meanwhile does not shorten it.
Top ==
  /\ \/ ~enabled /\ Goto("loop", "top", "parked") /\ UNCHANGED alarm
     \/ enabled /\ Goto("loop", "top", "sleep")
        /\ alarm' = IF due THEN "now" ELSE IF retry THEN "retry" ELSE "interval"
  /\ UNCHANGED <<enabled, result, seen, permit, due, retry, runVars, cronVars, queue, sent, toggles,
                 woken, fresh>>

\* A notification only makes a parked loop look again.
Unparked ==
  /\ permit /\ permit' = FALSE /\ Goto("loop", "parked", "top")
  /\ UNCHANGED <<enabled, result, seen, due, retry, alarm, runVars, cronVars, queue, sent, toggles,
                 woken, fresh>>

Notified ==
  /\ permit /\ permit' = FALSE /\ Goto("loop", "sleep", "wait") /\ alarm' = "interval"
  /\ UNCHANGED <<enabled, result, seen, due, retry, runVars, cronVars, queue, sent, toggles,
                 woken, fresh>>

\* The sleep is over; a retry that is due is taken off the schedule.
Ring ==
  /\ Goto("loop", "sleep", "wait")
  /\ retry' = (retry /\ alarm = "now") /\ alarm' = "interval"
  /\ UNCHANGED <<enabled, result, seen, permit, due, runVars, cronVars, queue, sent, toggles,
                 woken, fresh>>

IntervalEnds ==
  /\ ~due /\ due' = TRUE
  /\ UNCHANGED <<enabled, at, result, seen, permit, retry, alarm, runVars, cronVars, queue, sent,
                 toggles, woken, fresh>>

-----------------------------------------------------------------------------
(* Requests.                                                               *)

\* wake, at once or with the next heartbeat.
Wake(w) ==
  /\ w \notin sent /\ sent' = sent \cup {w} /\ queue' = queue \cup {w}
  /\ \/ permit' = TRUE /\ woken' = (woken \/ (enabled /\ at["loop"] # "parked"))
     \/ UNCHANGED <<permit, woken>>
  /\ UNCHANGED <<enabled, at, result, seen, due, retry, alarm, runVars, cronVars, toggles, fresh>>

\* set-heartbeats; switching them on asks for a heartbeat.
SetHeartbeats(on) ==
  /\ toggles < MaxToggles /\ toggles' = toggles + 1
  /\ enabled' = on /\ permit' = (permit \/ (on /\ ~enabled)) /\ woken' = (woken /\ on)
  /\ UNCHANGED <<at, result, seen, due, retry, alarm, runVars, cronVars, queue, sent, fresh>>

-----------------------------------------------------------------------------
(* The cron job: a main job with wakeMode now.                             *)

\* execute_cron_job, by the timer or by a run's cron tool.
JobStarts(by) ==
  /\ holder = NoOne /\ jobs < MaxJobs
  /\ holder' = by /\ jobs' = jobs + 1 /\ late' = FALSE /\ status' = "none"
  /\ Goto("cron", "off", "call") /\ queue' = queue \cup {JobEvent}
  /\ UNCHANGED <<enabled, result, seen, loopVars, sawSome, called, sent, toggles, woken, fresh>>

TimerStartsJob == JobStarts(Timer) /\ UNCHANGED run

JobCalls ==
  /\ Goto("cron", "call", "wait") /\ result' = [result EXCEPT !["cron"] = "none"]
  /\ UNCHANGED <<enabled, seen, loopVars, runVars, cronVars, queue, sent, toggles, woken, fresh>>

WaitExpires ==
  /\ holder # NoOne /\ ~late /\ late' = TRUE
  /\ UNCHANGED <<enabled, at, result, seen, loopVars, runVars, holder, status, jobs, queue, sent,
                 toggles, woken, fresh>>

\* How a heartbeat's outcome becomes the job's.
JobStatus(res) ==
  CASE res = "ran" -> "ok" [] res = "failed" -> "error" [] OTHER -> "skipped"

\* Mutant: a busy lane is waited for without end.
JobWaitsOn ==
  /\ result["cron"] = "busy" /\ Goto("cron", "back", "call")
  /\ UNCHANGED <<enabled, result, seen, loopVars, runVars, cronVars, queue, sent, toggles, woken, fresh>>

\* A busy lane is waited for, but no longer than two minutes.
JobWaits ==
  /\ result["cron"] = "busy" /\ ~late /\ Goto("cron", "back", "call")
  /\ UNCHANGED <<enabled, result, seen, loopVars, runVars, cronVars, queue, sent, toggles, woken, fresh>>

\* The job ends, its lock is released, and a run that started it goes on.
JobEnds ==
  /\ result["cron"] = "busy" => late
  /\ Goto("cron", "back", "off")
  /\ status' = JobStatus(result["cron"]) /\ holder' = NoOne
  /\ run' = [r \in Runs |-> IF r = holder THEN "in" ELSE run[r]]
  /\ late' = FALSE /\ result' = [result EXCEPT !["cron"] = "none"]
  /\ UNCHANGED <<enabled, seen, loopVars, sawSome, called, jobs, queue, sent, toggles,
                 woken, fresh>>

-----------------------------------------------------------------------------
(* The runs of the main lane.                                              *)

Move(r, from, to) == run[r] = from /\ run' = [run EXCEPT ![r] = to]

\* A run enters the lane, and reads the system events later.
RunEnters(r) ==
  /\ Move(r, "new", "begun") /\ fresh' = IF RunLocked THEN fresh \cup {r} ELSE fresh
  /\ UNCHANGED <<enabled, at, result, seen, loopVars, sawSome, called, cronVars, queue, sent, toggles,
                 woken>>
RunReads(r) ==
  /\ Move(r, "begun", "in")
  /\ sawSome' = IF queue = {} THEN sawSome ELSE sawSome \cup {r}
  /\ UNCHANGED <<enabled, at, result, seen, loopVars, called, cronVars, queue, sent, toggles, woken,
                 fresh>>

\* Its cron tool waits for the cron lock ...
RunCallsCron(r) ==
  /\ r \notin called /\ called' = called \cup {r} /\ Move(r, "in", "tool")
  /\ UNCHANGED <<enabled, at, result, seen, loopVars, sawSome, cronVars, queue, sent, toggles, woken,
                 fresh>>

\* ... for a short request, or to run the job itself.
ToolServed(r) ==
  /\ holder = NoOne /\ Move(r, "tool", "in")
  /\ UNCHANGED <<enabled, at, result, seen, loopVars, sawSome, called, cronVars, queue, sent, toggles,
                 woken, fresh>>
ToolRunsJob(r) == JobStarts(r) /\ Move(r, "tool", "job")

Forgotten(r) == sawSome' = sawSome \ {r} /\ called' = called \ {r}

\* A run that ends well and has seen events clears them.
RunEnds(r) ==
  /\ Move(r, "in", "over")
  /\ \/ r \in sawSome /\ queue' = {}
     \/ UNCHANGED queue
  /\ Forgotten(r)
  /\ UNCHANGED <<enabled, at, result, seen, loopVars, cronVars, sent, toggles, woken, fresh>>

\* The time limit of an agent run drops it where it is, and with it the job that
\* its tool runs: the lock is released, nothing else is undone.
RunTimesOut(r) ==
  /\ run[r] \in {"tool", "job"} /\ run' = [run EXCEPT ![r] = "over"]
  /\ \/ run[r] = "tool" /\ UNCHANGED <<at, result, holder, late, fresh>>
     \/ run[r] = "job" /\ holder' = NoOne /\ late' = FALSE
        /\ at' = [at EXCEPT !["cron"] = "off"] /\ result' = [result EXCEPT !["cron"] = "none"]
        /\ fresh' = IF at["cron"] = "settle" THEN {} ELSE fresh
  /\ Forgotten(r)
  /\ UNCHANGED <<enabled, seen, loopVars, status, jobs, queue, sent, toggles, woken>>

-----------------------------------------------------------------------------
OnceStep == \E c \in Callers : Enter(c) \/ Settle(c)
LoopStep == Top \/ Unparked \/ Notified
JobStep == JobCalls \/ JobWaits \/ JobEnds
Next ==
  \/ \E c \in Callers : Begin(c) \/ Answer(c)
  \/ OnceStep \/ LoopStep \/ Ring \/ IntervalEnds
  \/ TimerStartsJob \/ JobStep \/ WaitExpires
  \/ \E w \in Wakes : Wake(w)
  \/ \E on \in BOOLEAN : SetHeartbeats(on)
  \/ \E r \in Runs : \/ RunEnters(r) \/ RunReads(r) \/ RunEnds(r) \/ RunTimesOut(r)
                    \/ RunCallsCron(r) \/ ToolServed(r) \/ ToolRunsJob(r)

Spec == Init /\ [][Next]_vars

\* The two mutexes are fair queues, the synchronisation has a timeout, and a
\* sleep ends unless it is for the interval.  Providers need not answer, neither a
\* heartbeat nor a run of the lane, and a run need not have a time limit.
FairSpec ==
  /\ Spec
  /\ \A c \in Callers : SF_vars(Begin(c))
  /\ WF_vars(OnceStep) /\ WF_vars(LoopStep) /\ WF_vars(Ring /\ alarm # "interval")
  /\ WF_vars(JobStep) /\ WF_vars(WaitExpires)
  /\ \A r \in Runs : SF_vars(ToolServed(r)) /\ WF_vars(RunReads(r))

-----------------------------------------------------------------------------
(* Properties.                                                             *)

TypeOK ==
  /\ enabled \in BOOLEAN /\ at \in [Callers -> Places] /\ result \in [Callers -> Results]
  /\ seen \in [Callers -> SUBSET Events]
  /\ permit \in BOOLEAN /\ due \in BOOLEAN /\ retry \in BOOLEAN
  /\ alarm \in {"now", "retry", "interval"}
  /\ run \in [Runs -> {"new", "begun", "in", "tool", "job", "over"}]
  /\ sawSome \subseteq Runs /\ called \subseteq Runs /\ fresh \subseteq Runs
  /\ holder \in Runs \cup {Timer, NoOne} /\ late \in BOOLEAN
  /\ status \in {"none", "ok", "error", "skipped"}
  /\ queue \subseteq Events /\ sent \subseteq Wakes /\ woken \in BOOLEAN
  /\ jobs \in Nat /\ toggles \in Nat

\* Somebody waits for a provider that never answers: a heartbeat, which awaits it
\* without a timeout and holds run_lock and the lane meanwhile, or a run of the lane.
HeartbeatHangs == \E c \in Callers : <>[](at[c] = "prompt")
RunHangs == \E r \in Runs : <>[](run[r] = "in")

\* A wake is followed by a heartbeat that begins after it, without waiting for
\* the interval: it is not lost when it comes while a heartbeat runs, while the
\* lane is busy, or together with another one.  A disabled loop is excepted, and
\* so is one that a provider keeps waiting for ever.
WakeServed == (woken ~> ~woken) \/ HeartbeatHangs \/ RunHangs

\* A run does not wait for the cron lock for ever, although the job that holds the
\* lock may be waiting for that very run to leave the lane.  Only a heartbeat that
\* hangs can keep it there.
ToolCallEnds ==
  \/ \A r \in Runs : run[r] \in {"tool", "job"} ~> run[r] \notin {"tool", "job"}
  \/ HeartbeatHangs

\* A job that reports "ok" leaves no event behind: the heartbeat that answered had
\* it in its prompt, unless a run of the lane had cleared it before.
OkMeansDelivered == at["cron"] = "off" /\ status = "ok" => JobEvent \notin queue

\* A heartbeat shares the lane only with runs that entered while it synchronised
\* the remote documents, or later.
OverlapsLateRunsOnly ==
  \A c \in Callers : at[c] \in {"sync", "prompt"} => InLane \subseteq fresh
=============================================================================
