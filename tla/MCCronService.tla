--------------------------- MODULE MCCronService ---------------------------
(* CronService for TLC: the jobs and patches of each run, on a clock of a few *)
(* units; the period of a recurring job is two of them.                       *)
EXTENDS CronService, TLC

CONSTANTS a, b

At(t) == [kind |-> "at", at |-> t]
Every(p) == [kind |-> "every", period |-> p, anchor |-> NoTime]
Minutes(s) == [kind |-> "cron", minutes |-> s]

MainJob(s, d) == [schedule |-> s, target |-> "main", payload |-> "systemEvent",
                  enabled |-> TRUE, deleteAfterRun |-> d]
IsolatedJob(s) == [schedule |-> s, target |-> "isolated", payload |-> "agentTurn",
                   enabled |-> TRUE, deleteAfterRun |-> FALSE]
Misfit(s) == [schedule |-> s, target |-> "main", payload |-> "agentTurn",
              enabled |-> TRUE, deleteAfterRun |-> FALSE]

MCBackoff == <<1, 3>>

Kinds == {MainJob(At(1), FALSE), Misfit(At(1)), IsolatedJob(Every(2)),
          MainJob(Minutes({1, 2, 3}), FALSE)}
Mixed == {MainJob(At(1), TRUE), IsolatedJob(Every(2))}

Toggles == {[enabled |-> TRUE], [enabled |-> FALSE]}
Edits == Toggles \cup {[payload |-> "agentTurn"]}
None == {}
Swap == Permutations(Jobs)
=============================================================================
