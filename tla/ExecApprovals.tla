---------------------------- MODULE ExecApprovals ----------------------------
(***************************************************************************)
(* Exec approvals: a request (a tool that wants to write, or a client's    *)
(* exec.approval.request) registers a pending record under an id, with a   *)
(* oneshot channel, and waits; an operator resolves the id, or the request *)
(* times out and removes the id; a tool's request is dropped where it is   *)
(* when the agent run it belongs to is over its time limit.                *)
(* "allow-always" is persisted in a file that tools look at first and that *)
(* operators may also replace.                                             *)
(* A tool and its aliases are one element of Tools; the clock is abstract: *)
(* a waiting request may time out at any moment.                           *)
(***************************************************************************)
EXTENDS FiniteSets

CONSTANTS Requests,   \* calls in flight
          ToolWrites, \* those made by ensure_tool_write_allowed
          Tools,
          ToolOf,     \* the tool of each tool write
          Ids,
          IdOf,       \* the approval id of each request: a UUID or chosen by a client
          Edits,      \* the files exec.approvals.set may be given
          NoRequest

ASSUME ExecAssumption ==
  /\ ToolWrites \subseteq Requests
  /\ ToolOf \in [ToolWrites -> Tools]
  /\ IdOf \in [Requests -> Ids]
  /\ \A r \in ToolWrites, s \in Requests : IdOf[r] = IdOf[s] => r = s
  /\ Edits \subseteq SUBSET Tools
  /\ NoRequest \notin Requests

Decisions == {"allow-once", "allow-always", "deny"}

VARIABLES
  pc,       \* where each request is
  pending,  \* OPENCLAW_EXEC_APPROVALS: the request whose record an id holds
  chan,     \* the oneshot channel of each request
  answer,   \* what each request was told
  allowed,  \* exec_approvals.json: the tools with allowWrites
  copy,     \* the file as set_tool_writes_allowed loaded it
  edit,     \* what exec.approvals.set calls, which have truncated the file, will write
  edited,   \* history: the tools some edit allowed
  resolved  \* history: which decision resolved which request

vars == <<pc, pending, chan, answer, allowed, copy, edit, edited, resolved>>

Init ==
  /\ pc = [r \in Requests |-> "new"]
  /\ pending = [i \in Ids |-> NoRequest]
  /\ chan = [r \in Requests |-> "open"]
  /\ answer = [r \in Requests |-> "pending"]
  /\ allowed = {} /\ copy = [r \in Requests |-> {}]
  /\ edit = {} /\ edited = {} /\ resolved = {}

Finish(r, a) ==
  /\ pc' = [pc EXCEPT ![r] = "done"]
  /\ answer' = [answer EXCEPT ![r] = a]

-----------------------------------------------------------------------------
(* A request.                                                              *)

\* Mutant: any tool that is allowed will do.
CheckAnyTool(r) ==
  /\ pc[r] = "new"
  /\ LET refused == r \notin ToolWrites /\ pending[IdOf[r]] # NoRequest
         granted == r \in ToolWrites /\ allowed # {}
     IN \/ granted /\ Finish(r, "allowed")
        \/ refused /\ Finish(r, "rejected")
        \/ /\ ~granted /\ ~refused
           /\ pc' = [pc EXCEPT ![r] = "create"] /\ UNCHANGED answer
  /\ UNCHANGED <<pending, chan, allowed, copy, edit, edited, resolved>>

\* tool_writes_allowed, or exec_approval_snapshot of the id.
Check(r) ==
  /\ pc[r] = "new"
  /\ LET refused == r \notin ToolWrites /\ pending[IdOf[r]] # NoRequest
         granted == r \in ToolWrites /\ ToolOf[r] \in allowed
     IN \/ granted /\ Finish(r, "allowed")
        \/ refused /\ Finish(r, "rejected")
        \/ /\ ~granted /\ ~refused
           /\ pc' = [pc EXCEPT ![r] = "create"] /\ UNCHANGED answer
  /\ UNCHANGED <<pending, chan, allowed, copy, edit, edited, resolved>>

\* Dropping a sender wakes its receiver; one that is gone stays gone.
Drop(r, msg) == IF r # NoRequest /\ chan[r] = "open" THEN [chan EXCEPT ![r] = msg] ELSE chan

\* create_exec_approval: the insert replaces, and drops, what the id held.
Create(r) ==
  /\ pc[r] = "create"
  /\ pc' = [pc EXCEPT ![r] = "wait"]
  /\ pending' = [pending EXCEPT ![IdOf[r]] = r]
  /\ chan' = Drop(pending[IdOf[r]], "closed")
  /\ UNCHANGED <<answer, allowed, copy, edit, edited, resolved>>

\* Mutant: a denial is answered like a timeout.
ReceiveDenyAsNone(r) ==
  /\ pc[r] = "wait" /\ chan[r] # "open"
  /\ \/ chan[r] \in {"none", "closed", "deny"} /\ Finish(r, "none")
     \/ /\ chan[r] = "allow-always" /\ r \in ToolWrites
        /\ pc' = [pc EXCEPT ![r] = "load"] /\ UNCHANGED answer
     \/ /\ chan[r] \in {"allow-once", "allow-always"}
        /\ chan[r] # "allow-always" \/ r \notin ToolWrites
        /\ Finish(r, chan[r])
  /\ UNCHANGED <<pending, chan, allowed, copy, edit, edited, resolved>>

\* The receiver yields before the timeout; a tool write that is allowed for
\* good goes on to persist it.
Receive(r) ==
  /\ pc[r] = "wait" /\ chan[r] # "open"
  /\ \/ chan[r] \in {"none", "closed"} /\ Finish(r, "none")
     \/ /\ chan[r] = "allow-always" /\ r \in ToolWrites
        /\ pc' = [pc EXCEPT ![r] = "load"] /\ UNCHANGED answer
     \/ /\ chan[r] \in Decisions
        /\ chan[r] # "allow-always" \/ r \notin ToolWrites
        /\ Finish(r, chan[r])
  /\ UNCHANGED <<pending, chan, allowed, copy, edit, edited, resolved>>

\* The timeout elapses and the receiver is dropped; a decision may have been
\* sent since the channel was last polled.
TimeOut(r) ==
  /\ pc[r] = "wait"
  /\ pc' = [pc EXCEPT ![r] = "expire"]
  /\ chan' = [chan EXCEPT ![r] = "dropped"]
  /\ UNCHANGED <<pending, answer, allowed, copy, edit, edited, resolved>>

\* Mutant: the timed-out request leaves its record behind.
ExpireNothing(r) ==
  /\ pc[r] = "expire"
  /\ Finish(r, "timeout")
  /\ UNCHANGED <<pending, chan, allowed, copy, edit, edited, resolved>>

\* Mutant: a timeout sweeps every record.
ExpireAll(r) ==
  /\ pc[r] = "expire"
  /\ pending' = [i \in Ids |-> NoRequest]
  /\ chan' = [s \in Requests |->
       IF chan[s] = "open" /\ pending[IdOf[s]] = s THEN "none" ELSE chan[s]]
  /\ Finish(r, "timeout")
  /\ UNCHANGED <<allowed, copy, edit, edited, resolved>>

\* Mutant: the record is expected to be there still.
ExpireOwn(r) ==
  /\ pc[r] = "expire" /\ pending[IdOf[r]] = r
  /\ pending' = [pending EXCEPT ![IdOf[r]] = NoRequest]
  /\ Finish(r, "timeout")
  /\ UNCHANGED <<chan, allowed, copy, edit, edited, resolved>>

\* expire_exec_approval removes whatever the id holds by now.
Expire(r) ==
  /\ pc[r] = "expire"
  /\ pending' = [pending EXCEPT ![IdOf[r]] = NoRequest]
  /\ chan' = Drop(pending[IdOf[r]], "none")
  /\ Finish(r, "timeout")
  /\ UNCHANGED <<allowed, copy, edit, edited, resolved>>

\* The agent run whose tool waits for the lock, the decision or the lock again is
\* over its time limit: nothing removes the record, and nobody is told anything.
Dropped(r) ==
  /\ r \in ToolWrites /\ pc[r] \in {"create", "wait", "expire"}
  /\ pc' = [pc EXCEPT ![r] = "dropped"]
  /\ chan' = [chan EXCEPT ![r] = "dropped"]
  /\ UNCHANGED <<pending, answer, allowed, copy, edit, edited, resolved>>

\* set_tool_writes_allowed reads the file ...
LoadFile(r) ==
  /\ pc[r] = "load"
  /\ copy' = [copy EXCEPT ![r] = allowed]
  /\ pc' = [pc EXCEPT ![r] = "store"]
  /\ UNCHANGED <<pending, chan, answer, allowed, edit, edited, resolved>>

\* ... and replaces it; a failed write is ignored.
StoreFile(r) ==
  /\ pc[r] = "store"
  /\ allowed' \in {allowed, copy[r] \cup {ToolOf[r]}}
  /\ Finish(r, "allow-always")
  /\ UNCHANGED <<pending, chan, copy, edit, edited, resolved>>

-----------------------------------------------------------------------------
(* The operator.                                                           *)

\* exec.approval.resolve: told "ok" even when the receiver is gone.
Resolve(i, d) ==
  /\ pending[i] # NoRequest
  /\ pending' = [pending EXCEPT ![i] = NoRequest]
  /\ chan' = Drop(pending[i], d)
  /\ resolved' = resolved \cup {<<pending[i], d>>}
  /\ UNCHANGED <<pc, answer, allowed, copy, edit, edited>>

\* exec.approvals.set: the file is compared with the base hash, if there is one, and
\* truncated; what does not parse allows nothing ...
EditFile(file) ==
  /\ allowed' = {}
  /\ edit' = edit \cup {file}
  /\ edited' = edited \cup file
  /\ UNCHANGED <<pc, pending, chan, answer, copy, resolved>>

\* ... and written, unless that fails or a rename has replaced the file since.
WriteEdit ==
  /\ \E file \in edit : edit' = edit \ {file} /\ allowed' \in {allowed, file}
  /\ UNCHANGED <<pc, pending, chan, answer, copy, edited, resolved>>

-----------------------------------------------------------------------------
Request(r) == Check(r) \/ Create(r) \/ Receive(r) \/ TimeOut(r) \/ Expire(r)
              \/ LoadFile(r) \/ StoreFile(r)
Operator == \/ \E i \in Ids, d \in Decisions : Resolve(i, d)
            \/ \E file \in Edits : EditFile(file)
            \/ WriteEdit
Next == Operator \/ \E r \in Requests : Request(r) \/ Dropped(r)

Spec == Init /\ [][Next]_vars

\* Each request runs in a task of its own and its timer always fires.
FairSpec == Spec /\ \A r \in Requests : WF_vars(Request(r))

-----------------------------------------------------------------------------
(* Properties.                                                             *)

TypeOK ==
  /\ pc \in [Requests -> {"new", "create", "wait", "expire", "load", "store", "done", "dropped"}]
  /\ pending \in [Ids -> Requests \cup {NoRequest}]
  /\ chan \in [Requests -> Decisions \cup {"open", "none", "closed", "dropped"}]
  /\ answer \in [Requests -> Decisions \cup {"pending", "allowed", "rejected", "none", "timeout"}]
  /\ allowed \subseteq Tools
  /\ copy \in [Requests -> SUBSET Tools]
  /\ edit \subseteq SUBSET Tools
  /\ edited \subseteq Tools
  /\ resolved \subseteq Requests \X Decisions

\* The tools an operator allowed for good, by a decision or in the file.
Granted == edited \cup {ToolOf[r] : r \in {s \in ToolWrites : <<s, "allow-always">> \in resolved}}

\* A write goes through only if an operator allowed that very request, or had
\* allowed its tool for good; whatever ids and files other requests touch.
WritesAreApproved ==
  \A r \in ToolWrites :
    /\ answer[r] = "allowed" => ToolOf[r] \in Granted
    /\ answer[r] \in Decisions => <<r, answer[r]>> \in resolved

\* A request is resolved by at most one decision, however often operators try.
OneDecision == \A p, q \in resolved : p[1] = q[1] => p = q

\* A decision an operator was told is taken is on its way to the request, or was
\* its answer; it is lost only to that request's own timeout, or when the agent run
\* of that request was dropped: never to another request's record or timeout.
DecisionLostOnlyByItsRequest ==
  \A p \in resolved :
    \/ pc[p[1]] \in {"wait", "load", "store"} /\ chan[p[1]] = p[2]
    \/ pc[p[1]] = "done" /\ answer[p[1]] \in {p[2], "timeout"}
    \/ pc[p[1]] = "expire"
    \/ pc[p[1]] = "dropped" /\ p[1] \in ToolWrites

\* A record belongs to a request that still waits, or is about to remove it:
\* answered requests leave nothing an operator could resolve.  Only a tool's request
\* that was dropped with its agent run leaves its record, under its own id.
NoOrphanRecord ==
  \A i \in Ids : pending[i] # NoRequest =>
    /\ IdOf[pending[i]] = i
    /\ \/ pc[pending[i]] \in {"wait", "expire"}
       \/ pc[pending[i]] = "dropped" /\ pending[i] \in ToolWrites

\* A tool's request is not ended by another's timeout or record.
ToolWaitsItsTime == \A r \in ToolWrites : answer[r] # "none"

-----------------------------------------------------------------------------
(* The inductive invariant of the safety properties.                       *)

\* What a request's stage says about its channel and its answer.
Lifecycle ==
  \A r \in Requests :
    /\ pc[r] # "done" => answer[r] = "pending"
    /\ pc[r] \in {"new", "create"} => chan[r] = "open"
    /\ pc[r] = "wait" => chan[r] # "dropped"
    /\ pc[r] \in {"expire", "dropped"} => chan[r] = "dropped"
    /\ pc[r] \in {"load", "store"} => r \in ToolWrites /\ chan[r] = "allow-always"

\* Nothing was sent to a request whose record is still there, and a decision
\* that was sent is the one that resolved it.
Channels ==
  /\ \A i \in Ids : pending[i] # NoRequest => chan[pending[i]] \in {"open", "dropped"}
  /\ \A r \in Requests : /\ chan[r] \in Decisions => <<r, chan[r]>> \in resolved
                         /\ r \in ToolWrites => chan[r] \notin {"none", "closed"}

\* A resolved request has lost its record and gets the decision if it waits.
Resolutions ==
  \A p \in resolved :
    /\ \A i \in Ids : pending[i] # p[1]
    /\ pc[p[1]] \notin {"new", "create"}
    /\ pc[p[1]] \in {"wait", "load", "store"} => chan[p[1]] = p[2]

\* The file, its copies and the edits allow only what an operator granted.
FileGranted ==
  /\ allowed \subseteq Granted
  /\ \A r \in Requests : copy[r] \subseteq Granted
  /\ \A file \in edit : file \subseteq edited

IInv == /\ TypeOK /\ Lifecycle /\ NoOrphanRecord /\ Channels /\ Resolutions
        /\ OneDecision /\ DecisionLostOnlyByItsRequest /\ FileGranted
        /\ WritesAreApproved /\ ToolWaitsItsTime

-----------------------------------------------------------------------------
\* The records, channels, ids and the file together keep what Approval promises
\* of each request: one decision, one answer, and the one told is the other.
Abstract == INSTANCE Approval WITH granted <- Granted
ImplementsApproval == Abstract!Spec

\* Every request is answered, whatever the operator does; but a tool's that is
\* dropped with its agent run, which nobody waits for any more.
EveryRequestAnswered ==
  \A r \in Requests : <>(pc[r] = "done" \/ (pc[r] = "dropped" /\ r \in ToolWrites))
=============================================================================
