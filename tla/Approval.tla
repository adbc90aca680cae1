------------------------------ MODULE Approval ------------------------------
(***************************************************************************)
(* What the approvals promise of each request, without records, channels,  *)
(* ids and the file: it is decided at most once, while nobody has answered *)
(* it, and answered at most once; with its decision, with a timeout, or,   *)
(* if it is a tool's, at once when an operator has allowed the tool for    *)
(* good.  Only a client's request may be refused or end without either.    *)
(* (A request whose agent run is gone is never answered, but may be        *)
(* decided.)                                                               *)
(***************************************************************************)
CONSTANTS Requests, ToolWrites, Tools, ToolOf, Decisions

VARIABLES
  resolved,  \* the decisions: pairs of a request and what was decided
  granted,   \* the tools an operator has allowed for good
  answer     \* what each request was told, or "pending"

vars == <<resolved, granted, answer>>

Init == resolved = {} /\ granted = {} /\ answer = [r \in Requests |-> "pending"]

Decided(r) == \E d \in Decisions : <<r, d>> \in resolved

Decide(r, d) ==
  /\ answer[r] = "pending" /\ ~Decided(r)
  /\ resolved' = resolved \cup {<<r, d>>}
  /\ granted' = granted \cup (IF d = "allow-always" /\ r \in ToolWrites THEN {ToolOf[r]} ELSE {})
  /\ UNCHANGED answer

\* An operator changes the file.
Allow(tools) == granted' = granted \cup tools /\ UNCHANGED <<resolved, answer>>

Answers(r) ==
  {d \in Decisions : <<r, d>> \in resolved} \cup {"timeout"}
  \cup (IF r \in ToolWrites /\ ToolOf[r] \in granted THEN {"allowed"} ELSE {})
  \cup (IF r \notin ToolWrites /\ ~Decided(r) THEN {"rejected", "none"} ELSE {})

Tell(r) ==
  /\ answer[r] = "pending"
  /\ \E a \in Answers(r) : answer' = [answer EXCEPT ![r] = a]
  /\ UNCHANGED <<resolved, granted>>

Next ==
  \/ \E r \in Requests : Tell(r) \/ \E d \in Decisions : Decide(r, d)
  \/ \E tools \in SUBSET Tools : Allow(tools)

Spec == Init /\ [][Next]_vars
=============================================================================
