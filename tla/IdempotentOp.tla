---------------------------- MODULE IdempotentOp ----------------------------
(***************************************************************************)
(* What openclaw_idempotent_run promises to the handlers that wrap an      *)
(* operation in it (send, poll, node.invoke), without the mechanism: at    *)
(* most one execution per idempotency key at any time, and every answer is *)
(* the result of a completed execution of the request's own key.  An       *)
(* execution is named by the request that runs it.                         *)
(***************************************************************************)
CONSTANTS Requests, Keys, KeyOf, NoRequest

VARIABLES running,    \* running[k]: the request executing k's operation, or NoRequest
          completed,  \* completed[k]: the requests whose execution of k returned
          answer      \* answer[r]: the execution whose result r was given, or NoRequest

vars == <<running, completed, answer>>

Init == /\ running = [k \in Keys |-> NoRequest]
        /\ completed = [k \in Keys |-> {}]
        /\ answer = [r \in Requests |-> NoRequest]

Begin(r) == /\ running[KeyOf[r]] = NoRequest
            /\ running' = [running EXCEPT ![KeyOf[r]] = r]
            /\ UNCHANGED <<completed, answer>>

Complete(r) == /\ running[KeyOf[r]] = r
               /\ running' = [running EXCEPT ![KeyOf[r]] = NoRequest]
               /\ completed' = [completed EXCEPT ![KeyOf[r]] = @ \cup {r}]
               /\ UNCHANGED answer

Answer(r) == /\ answer[r] = NoRequest
             /\ \E e \in completed[KeyOf[r]] : answer' = [answer EXCEPT ![r] = e]
             /\ UNCHANGED <<running, completed>>

Next == \E r \in Requests : Begin(r) \/ Complete(r) \/ Answer(r)

Spec == Init /\ [][Next]_vars
=============================================================================
