----------------------------- MODULE RemoteCall -----------------------------
(***************************************************************************)
(* What invoke_node_command promises of each call: it ends at most once,   *)
(* with an answer or a failure, and an answer means that the node it was   *)
(* for has read the request.                                               *)
(***************************************************************************)
CONSTANTS Calls

VARIABLES
  call,   \* "idle", "open", "answered" or "failed"
  heard   \* the calls whose request their node has read

vars == <<call, heard>>

Init == call = [i \in Calls |-> "idle"] /\ heard = {}

\* A call is opened, or refused at once.
Open(i) ==
  /\ call[i] = "idle"
  /\ \E state \in {"open", "failed"} : call' = [call EXCEPT ![i] = state]
  /\ UNCHANGED heard

\* The request may reach the node after the caller has given up.
Hear(i) ==
  /\ call[i] # "idle"
  /\ heard' = heard \cup {i}
  /\ UNCHANGED call

Answer(i) ==
  /\ call[i] = "open" /\ i \in heard
  /\ call' = [call EXCEPT ![i] = "answered"]
  /\ UNCHANGED heard

Fail(i) ==
  /\ call[i] = "open"
  /\ call' = [call EXCEPT ![i] = "failed"]
  /\ UNCHANGED heard

Next == \E i \in Calls : Open(i) \/ Hear(i) \/ Answer(i) \/ Fail(i)

Spec == Init /\ [][Next]_vars
=============================================================================
