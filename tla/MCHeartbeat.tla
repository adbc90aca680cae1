---------------------------- MODULE MCHeartbeat ----------------------------
\* Heartbeat for TLC: one run of the lane, one wake, one run of the job.
EXTENDS Heartbeat
=============================================================================
