---------------------------- MODULE NodeInvokes ----------------------------
(***************************************************************************)
(* Commands that the gateway invokes on connected nodes: the caller, which *)
(* registers an invocation, sends its request and waits for the result     *)
(* with a timeout; the answers nodes return; and the connections of nodes, *)
(* which come and go.  They share the table OPENCLAW_NODE_INVOKES and the  *)
(* list of clients; every lock section is one action.                      *)
(*                                                                         *)
(* An invocation is also the task that sends its request (OutboundQueue);  *)
(* the senders that are no invocation are the rest of the traffic: ticks,  *)
(* responses and broadcasts.  The allowlist and the payloads are left out. *)
(***************************************************************************)
EXTENDS OutboundQueue

CONSTANTS Invokes,    \* invocations (UUIDs)
          Answers,    \* handler tasks of node.invoke.result requests
          Nodes,      \* node ids
          TargetOf,   \* the node an invocation is for
          NodeOf,     \* the node behind a connection
          ToolCalls,  \* invocations by a tool of an agent run
          CarrierOf,  \* the connection of a sender that is no invocation
          NoInvoke, NoNode

ASSUME NodeAssumption ==
  /\ Invokes \subseteq Senders /\ Invokes \cap Droppable = {}
  /\ ToolCalls \subseteq Invokes
  /\ TargetOf \in [Invokes -> Nodes]
  /\ NodeOf \in [Conns -> Nodes]
  /\ CarrierOf \in [Senders \ Invokes -> Conns]
  /\ NoInvoke \notin Invokes /\ NoNode \notin Nodes

VARIABLES
  conn,     \* life of a connection
  pending,  \* OPENCLAW_NODE_INVOKES: the invocations registered
  pc,       \* where the caller of an invocation is
  channel,  \* the invocation's oneshot channel
  reached,  \* the invocations whose request the node behind a connection read
  ans,      \* the handlers of answers
  forgotten \* history: entries put back for a caller that was gone

nodeVars == <<conn, pending, pc, channel, reached, ans, forgotten>>
vars == <<outVars, nodeVars>>

Ended == {"refused", "answered", "cancelled", "timeout", "dropped"}
NewAnswer == [pc |-> "new", id |-> NoInvoke, node |-> NoNode]
AnswerTasks == [pc : {"new", "take", "putback", "send", "ignored", "accepted"},
                id : Invokes \cup {NoInvoke}, node : Nodes \cup {NoNode}]

TypeOK ==
  /\ OutboundTypeOK
  /\ conn \in [Conns -> {"new", "open", "left", "gone"}]
  /\ pending \in SUBSET Invokes
  /\ pc \in [Invokes -> {"find", "register", "send", "wait", "expired"} \cup Ended]
  /\ channel \in [Invokes -> {"empty", "answer", "disconnected"}]
  /\ reached \in [Conns -> SUBSET Invokes]
  /\ ans \in [Answers -> AnswerTasks]
  /\ forgotten \in SUBSET Invokes

Init ==
  /\ OutboundInit
  /\ conn = [c \in Conns |-> "new"]
  /\ pending = {}
  /\ pc = [i \in Invokes |-> "find"]
  /\ channel = [i \in Invokes |-> "empty"]
  /\ reached = [c \in Conns |-> {}]
  /\ ans = [a \in Answers |-> NewAnswer]
  /\ forgotten = {}

Goto(i, label) == pc' = [pc EXCEPT ![i] = label]

-----------------------------------------------------------------------------
(* Connections.                                                            *)

\* register_openclaw_client, at the end of the handshake.
Connect(c) ==
  /\ conn[c] = "new"
  /\ conn' = [conn EXCEPT ![c] = "open"]
  /\ UNCHANGED <<outVars, pending, pc, channel, reached, ans, forgotten>>

\* The receive loop ended, for whatever reason: the client is unregistered ...
Disconnect(c) ==
  /\ conn[c] = "open"
  /\ conn' = [conn EXCEPT ![c] = "left"]
  /\ UNCHANGED <<outVars, pending, pc, channel, reached, ans, forgotten>>

\* The receiver of an invocation's channel lives until the wait is over.
Listening(i) == pc[i] \in {"send", "wait"}

\* ... and, a broadcast later, every invocation registered for its node is
\* cancelled, whichever connection its request was sent on.
CancelInvokes(c) ==
  /\ conn[c] = "left"
  /\ LET lost == {i \in pending : TargetOf[i] = NodeOf[c]}
     IN /\ pending' = pending \ lost
        /\ channel' = [i \in Invokes |->
                         IF i \in lost /\ Listening(i) THEN "disconnected" ELSE channel[i]]
  /\ conn' = [conn EXCEPT ![c] = "gone"]
  /\ UNCHANGED <<outVars, pc, reached, ans, forgotten>>

\* The node read a request that the sender task wrote.
Deliver(c) ==
  /\ FrameWritten(c)
  /\ reached' = IF writing[c] \in Invokes
                THEN [reached EXCEPT ![c] = @ \cup {writing[c]}] ELSE reached
  /\ UNCHANGED <<conn, pending, pc, channel, ans, forgotten>>

\* A connection carries other frames too: its tick, the responses of its handlers
\* and its part of a broadcast.  A task that has done nothing else starts with
\* its look at closing.
OtherTraffic(s, c) ==
  /\ s \in Senders \ Invokes /\ sendPc[s] = "idle"
  /\ CarrierOf[s] = c /\ conn[c] = "open"
  /\ via' = [via EXCEPT ![s] = c]
  /\ SendGoto(s, IF closing[c] THEN "dropped" ELSE "reserve")
  /\ UNCHANGED <<queue, queued, closing, writing, task, late, nodeVars>>

-----------------------------------------------------------------------------
(* invoke_node_command.                                                    *)

\* find_node_client returns a clone of some client of the node.
FindClient(i) ==
  /\ pc[i] = "find"
  /\ \/ \E c \in Conns :
          /\ conn[c] = "open" /\ NodeOf[c] = TargetOf[i]
          /\ via' = [via EXCEPT ![i] = c]
          /\ Goto(i, "register")
     \/ /\ \A c \in Conns : conn[c] = "open" => NodeOf[c] # TargetOf[i]
        /\ Goto(i, "refused")
        /\ UNCHANGED via
  /\ UNCHANGED <<queue, queued, closing, writing, task, late, sendPc,
                 conn, pending, channel, reached, ans, forgotten>>

\* register_node_invoke; then the request is sent.
Register(i) ==
  /\ pc[i] = "register"
  /\ pending' = pending \cup {i}
  /\ Goto(i, "send")
  /\ BeginSend(i, via[i])
  /\ UNCHANGED <<queue, queued, closing, writing, task, late, conn, channel, reached, ans, forgotten>>

\* Whether the request was queued or dropped is not looked at.
Requested(i) ==
  /\ pc[i] = "send" /\ sendPc[i] \in {"sent", "dropped"}
  /\ Goto(i, "wait")
  /\ UNCHANGED <<outVars, conn, pending, channel, reached, ans, forgotten>>

Receive(i) ==
  /\ pc[i] = "wait" /\ channel[i] # "empty"
  /\ Goto(i, IF channel[i] = "answer" THEN "answered" ELSE "cancelled")
  /\ UNCHANGED <<outVars, conn, pending, channel, reached, ans, forgotten>>

\* Mutant: only a caller whose request was dropped times out.
ElapseIfDropped(i) ==
  /\ pc[i] = "wait" /\ channel[i] = "empty" /\ sendPc[i] = "dropped"
  /\ Goto(i, "expired")
  /\ UNCHANGED <<outVars, conn, pending, channel, reached, ans, forgotten>>

\* The timeout elapses while the channel is empty; the receiver is dropped ...
Elapse(i) ==
  /\ pc[i] = "wait" /\ channel[i] = "empty"
  /\ Goto(i, "expired")
  /\ UNCHANGED <<outVars, conn, pending, channel, reached, ans, forgotten>>

\* Mutant: the caller returns without removing its entry.
ExpireInPlace(i) ==
  /\ pc[i] = "expired"
  /\ Goto(i, "timeout")
  /\ UNCHANGED <<outVars, conn, pending, channel, reached, ans, forgotten>>

\* ... before the entry is removed.
Expire(i) ==
  /\ pc[i] = "expired"
  /\ pending' = pending \ {i}
  /\ Goto(i, "timeout")
  /\ UNCHANGED <<outVars, conn, channel, reached, ans, forgotten>>

\* An agent run that times out drops the call of its tool where it awaits: before
\* the table knows it, or while it waits for the result or for the table's lock.
\* Then nobody removes its entry.
Drop(i) ==
  /\ i \in ToolCalls
  /\ \/ pc[i] \in {"find", "register"} /\ Goto(i, "refused")
     \/ pc[i] \in {"wait", "expired"} /\ Goto(i, "dropped")
  /\ UNCHANGED <<outVars, conn, pending, channel, reached, ans, forgotten>>

-----------------------------------------------------------------------------
(* node.invoke.result, and resolve_node_invoke.                            *)

\* An answer arrives: from a node that read the request, on any registered
\* connection of it, or with the id of another node's invocation.  A node may
\* answer only in its own name; other clients, which may use any, are left out.
Submit(a, i, n) ==
  /\ ans[a].pc = "new"
  /\ \/ /\ n = TargetOf[i]
        /\ \E c \in Conns : i \in reached[c]
        /\ \E c \in Conns : conn[c] = "open" /\ NodeOf[c] = n
     \/ n # TargetOf[i] /\ pc[i] \notin {"find", "register", "refused"}
  /\ ans' = [ans EXCEPT ![a] = [pc |-> "take", id |-> i, node |-> n]]
  /\ UNCHANGED <<outVars, conn, pending, pc, channel, reached, forgotten>>

\* Mutant: the node is not compared.
TakeFromAnyNode(a) ==
  /\ ans[a].pc = "take"
  /\ pending' = pending \ {ans[a].id}
  /\ ans' = [ans EXCEPT ![a].pc = IF ans[a].id \in pending THEN "send" ELSE "ignored"]
  /\ UNCHANGED <<outVars, conn, pc, channel, reached, forgotten>>

\* The entry is taken out of the table, before its node is looked at.
Take(a) ==
  /\ ans[a].pc = "take"
  /\ LET i == ans[a].id
     IN /\ pending' = pending \ {i}
        /\ ans' = [ans EXCEPT ![a].pc =
                     IF i \notin pending THEN "ignored"
                     ELSE IF ans[a].node = TargetOf[i] THEN "send" ELSE "putback"]
  /\ UNCHANGED <<outVars, conn, pc, channel, reached, forgotten>>

\* Mutant: an answer of the wrong node is dropped with the entry.
DropMismatch(a) ==
  /\ ans[a].pc = "putback"
  /\ ans' = [ans EXCEPT ![a].pc = "ignored"]
  /\ UNCHANGED <<outVars, conn, pending, pc, channel, reached, forgotten>>

\* The wrong node: the entry goes back, in a second lock section.
PutBack(a) ==
  /\ ans[a].pc = "putback"
  /\ pending' = pending \cup {ans[a].id}
  /\ ans' = [ans EXCEPT ![a].pc = "ignored"]
  /\ forgotten' = IF Listening(ans[a].id) \/ pc[ans[a].id] = "expired" THEN forgotten
                  ELSE forgotten \cup {ans[a].id}
  /\ UNCHANGED <<outVars, conn, pc, channel, reached>>

\* The right node: the result is sent to the caller, if it still listens.
SendResult(a) ==
  /\ ans[a].pc = "send"
  /\ LET i == ans[a].id
     IN channel' = IF Listening(i) THEN [channel EXCEPT ![i] = "answer"] ELSE channel
  /\ ans' = [ans EXCEPT ![a].pc = "accepted"]
  /\ UNCHANGED <<outVars, conn, pending, pc, reached, forgotten>>

-----------------------------------------------------------------------------
CallStep(i) == \/ FindClient(i) \/ Register(i) \/ Requested(i) \/ Receive(i)
               \/ Elapse(i) \/ Expire(i)
AnswerStep(a) == Take(a) \/ PutBack(a) \/ SendResult(a)

Outbound ==
  \/ \E s \in Senders : SendStep(s) /\ UNCHANGED nodeVars
  \/ \E c \in Conns : /\ \/ TakeFrame(c) \/ SocketFails(c)
                        \/ TakeClose(c) \/ ResetCount(c) \/ CloseWritten(c)
                     /\ UNCHANGED nodeVars

Next ==
  \/ Outbound
  \/ \E c \in Conns : Connect(c) \/ Disconnect(c) \/ CancelInvokes(c) \/ Deliver(c)
  \/ \E s \in Senders, c \in Conns : OtherTraffic(s, c)
  \/ \E i \in Invokes : CallStep(i) \/ Drop(i)
  \/ \E a \in Answers : AnswerStep(a) \/ \E i \in Invokes, n \in Nodes : Submit(a, i, n)

Spec == Init /\ [][Next]_vars

\* Tasks of the gateway keep running and timers elapse; nodes need not answer,
\* read or stay.
FairSpec == /\ Spec
            /\ \A i \in Invokes : WF_vars(CallStep(i)) /\ WF_vars(SendStep(i) /\ UNCHANGED nodeVars)
            /\ \A a \in Answers : WF_vars(AnswerStep(a))
            /\ \A c \in Conns : WF_vars(CancelInvokes(c))

-----------------------------------------------------------------------------
(* Properties.                                                             *)

Holds(a, i) == ans[a].id = i /\ ans[a].pc \in {"putback", "send"}

\* A caller that listens can still be reached: its entry is in the table, or one
\* answer holds it, or the result is on its way.  An entry is never dropped
\* while somebody waits on it ("node invoke dropped" is unreachable).
CallerReachable ==
  \A i \in Invokes :
    Listening(i) /\ channel[i] = "empty" => i \in pending \/ \E a \in Answers : Holds(a, i)

\* At most one answer to an invocation is accepted, however answers, the
\* cancellation and the timeout interleave, and a cancelled caller got none.
OneAnswerAccepted ==
  \A i \in Invokes :
    LET accepting == {a \in Answers : ans[a].id = i /\ ans[a].pc \in {"send", "accepted"}}
    IN /\ \A a, b \in accepting : a = b
       /\ accepting # {} => i \notin pending /\ pc[i] # "cancelled"

\* An entry outlives its caller only if an answer that named the wrong node put
\* it back after the caller had timed out, or if the caller was a tool that was
\* dropped with its agent run while it waited.
EntriesOutliveNobody ==
  \A i \in Invokes : i \in pending =>
    \/ Listening(i) \/ pc[i] = "expired"
    \/ i \in forgotten
    \/ pc[i] = "dropped" /\ i \in ToolCalls

\* Every caller gets an outcome, whatever its node does, unless it is dropped.
EveryInvokeEnds == \A i \in Invokes : pc[i] = "find" ~> pc[i] \in Ended

-----------------------------------------------------------------------------
\* The mechanism implements a call that ends once, and that is only answered by
\* the node it was sent to.
CallState == [i \in Invokes |-> CASE pc[i] = "find" -> "idle"
                              [] pc[i] = "answered" -> "answered"
                              [] pc[i] \in {"refused", "cancelled", "timeout", "dropped"} -> "failed"
                              [] OTHER -> "open"]
Heard == {i \in Invokes : \E c \in Conns : i \in reached[c]}

Abstract == INSTANCE RemoteCall WITH Calls <- Invokes, call <- CallState, heard <- Heard
ImplementsRemoteCall == Abstract!Spec

-----------------------------------------------------------------------------
(* The inductive invariant behind the safety properties.                   *)

\* Where a caller is and where its request is in openclaw_send_text agree.
Requesting ==
  /\ \A s \in Senders : sendPc[s] \in Sending => via[s] \in Conns
  /\ \A i \in Invokes :
       /\ pc[i] \in {"find", "register", "refused"} <=> sendPc[i] = "idle"
       /\ pc[i] = "register" => via[i] \in Conns

\* What is buffered, and the room taken by the tasks whose frame fits; after the
\* reset, also the room that the tasks past the closing check may take.
Fitting(c) == {s \in Senders : via[s] = c /\ sendPc[s] = "enqueue"}
RoomTaken ==
  \A c \in Conns :
    LET taken == Cardinality(Texts(c)) + Writing(c) + Cardinality(Fitting(c))
    IN /\ Counting(c) => taken <= MaxBuffered
       /\ task[c] = "reset" => taken + Cardinality(Entering(c)) <= MaxBuffered + Cardinality(late[c])
       /\ task[c] \in {"close", "reset"} => closing[c]

\* What is queued or being written has been sent.
Travelling ==
  \A c \in Conns :
    /\ writing[c] # NoFrame => sendPc[writing[c]] = "sent"
    /\ \A n \in DOMAIN queue[c] : queue[c][n] # CloseFrame => sendPc[queue[c][n]] = "sent"

\* So has what a node has read.
Reading == \A c \in Conns : \A i \in reached[c] : sendPc[i] = "sent"

\* An entry is in one place: the table, or the hands of one answer, which sent
\* it back or used it up; the channel is filled by whoever had it last.
OnePlace ==
  /\ \A i \in pending : pc[i] \notin {"find", "register", "refused"}
  /\ \A a \in Answers : ans[a].pc # "new" =>
       /\ ans[a].id \in Invokes
       /\ pc[ans[a].id] \notin {"find", "register", "refused"}
       /\ ans[a].pc \in {"putback", "send", "accepted"} => ans[a].id \notin pending
  /\ \A a, b \in Answers :
       /\ ans[a].pc \in {"putback", "send", "accepted"}
       /\ ans[b].pc \in {"putback", "send", "accepted"}
       /\ ans[a].id = ans[b].id
       => a = b
  /\ \A i \in Invokes : channel[i] # "empty" =>
       /\ pc[i] \notin {"find", "register", "refused"}
       /\ i \notin pending
       /\ \A a \in Answers : ans[a].id = i => ans[a].pc \notin {"putback", "send"}
       /\ channel[i] = "disconnected" =>
            \A a \in Answers : ans[a].id = i => ans[a].pc # "accepted"

\* An answer that may be used comes from a node that read the request.
AnswersHeard ==
  /\ \A a \in Answers :
       \/ ans[a].pc = "take" /\ ans[a].node = TargetOf[ans[a].id]
       \/ ans[a].pc = "send"
       => ans[a].id \in Heard
  /\ \A i \in Invokes : channel[i] = "answer" => i \in Heard
  /\ \A i \in Invokes : pc[i] = "answered" => channel[i] = "answer"
  /\ \A i \in Invokes : pc[i] = "cancelled" => channel[i] = "disconnected"

IInv == /\ TypeOK /\ Requesting /\ BytesAccounted /\ RoomTaken /\ Travelling
        /\ Reading /\ OnePlace /\ AnswersHeard /\ CallerReachable /\ EntriesOutliveNobody
=============================================================================
