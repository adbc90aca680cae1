------------------------- MODULE NodeInvokesProofs -------------------------
(***************************************************************************)
(* Proofs about NodeInvokes and the queues it sends on, for every number   *)
(* of connections, senders, invocations and answers, and every limit of    *)
(* the buffer.  The inductive invariant is IInv: its first parts are about *)
(* the queues, which change only by the steps that OutSteps lists, the     *)
(* others about the table of invocations.                                  *)
(***************************************************************************)
EXTENDS NodeInvokes, TLAPS, FiniteSetTheorems

\* A task starts to send, or the connection it will send on is chosen.
Begins(s) ==
  /\ sendPc[s] = "idle" /\ via'[s] \in Conns
  /\ sendPc' = [sendPc EXCEPT ![s] = sendPc'[s]] /\ via' = [via EXCEPT ![s] = via'[s]]
  /\ sendPc'[s] \in {"check", "reserve", "dropped"}
  /\ sendPc'[s] = "reserve" => ~closing[via'[s]]
  /\ UNCHANGED <<queue, queued, closing, writing, task, late>>
Chooses(s) ==
  /\ sendPc[s] = "idle" /\ via'[s] \in Conns
  /\ via' = [via EXCEPT ![s] = via'[s]]
  /\ UNCHANGED <<queue, queued, closing, writing, task, late, sendPc>>

\* All that happens to the queues.
LEMMA OutSteps ==
  ASSUME TypeOK, Requesting, [Next]_vars
  PROVE  \/ \E s \in Senders : SendStep(s)
         \/ \E c \in Conns : SenderTask(c)
         \/ \E s \in Senders : Begins(s) \/ Chooses(s)
         \/ UNCHANGED outVars
<1> USE NodeAssumption DEF NodeAssumption
<1>1. CASE Outbound
  BY <1>1 DEF Outbound, SenderTask
<1>2. ASSUME NEW c \in Conns, Connect(c) \/ Disconnect(c) \/ CancelInvokes(c)
      PROVE  UNCHANGED outVars
  BY <1>2 DEF Connect, Disconnect, CancelInvokes
<1>3. ASSUME NEW c \in Conns, Deliver(c) PROVE SenderTask(c)
  BY <1>3 DEF Deliver, SenderTask
<1>4. ASSUME NEW s \in Senders, NEW c \in Conns, OtherTraffic(s, c) PROVE Begins(s)
  BY <1>4 DEF OtherTraffic, SendGoto, Begins, TypeOK, OutboundTypeOK
<1>5. ASSUME NEW i \in Invokes, FindClient(i) PROVE Chooses(i) \/ UNCHANGED outVars
  <2>1. sendPc[i] = "idle" /\ i \in Senders
    BY <1>5 DEF FindClient, Requesting
  <2> QED
    BY <1>5, <2>1 DEF FindClient, Chooses, outVars, TypeOK, OutboundTypeOK
<1>6. ASSUME NEW i \in Invokes, Register(i) PROVE Begins(i)
  <2>1. sendPc[i] = "idle" /\ via[i] \in Conns /\ i \in Senders
    BY <1>6 DEF Register, Requesting
  <2> QED
    BY <1>6, <2>1 DEF Register, BeginSend, Begins, TypeOK, OutboundTypeOK
<1>7. ASSUME NEW i \in Invokes, Requested(i) \/ Receive(i) \/ Elapse(i) \/ Expire(i) \/ Drop(i)
      PROVE  UNCHANGED outVars
  BY <1>7 DEF Requested, Receive, Elapse, Expire, Drop
<1>8. ASSUME NEW a \in Answers, AnswerStep(a) \/ \E i \in Invokes, n \in Nodes : Submit(a, i, n)
      PROVE  UNCHANGED outVars
  BY <1>8 DEF AnswerStep, Take, PutBack, SendResult, Submit
<1>9. CASE UNCHANGED vars
  BY <1>9 DEF vars
<1> QED
  BY <1>1, <1>2, <1>3, <1>4, <1>5, <1>6, <1>7, <1>8, <1>9 DEF Next, CallStep

LEMMA MinusType == \A n \in Nat : Minus(n, 1) \in Nat /\ (n > 0 => Minus(n, 1) = n - 1)
  BY DEF Minus

Labels == {"idle", "sent", "dropped"} \cup Sending

\* The variables of the queues keep their types.
LEMMA SendTypes ==
  ASSUME OutboundTypeOK, NEW s \in Senders, SendStep(s), via[s] \in Conns
  PROVE  OutboundTypeOK'
<1> USE OutboundAssumption DEF OutboundAssumption, SendGoto
<1>1. sendPc \in [Senders -> Labels] /\ queued \in [Conns -> Nat] /\ via \in [Senders -> Conns \cup {NoConn}]
  BY DEF OutboundTypeOK, Labels
<1>2. \A l \in Labels : [sendPc EXCEPT ![s] = l] \in [Senders -> Labels]
  BY <1>1
<1>3. \A n \in Nat : [queued EXCEPT ![via[s]] = n] \in [Conns -> Nat]
  BY <1>1
<1>4. queued[via[s]] \in Nat
  BY <1>1
<1>5. {"idle", "check", "reserve", "enqueue", "release", "refuse", "close", "sent", "dropped"} \subseteq Labels
  BY DEF Labels, Sending
<1>6. CASE CheckClosing(s)
  <2>1. sendPc' \in [Senders -> Labels]
    BY <1>2, <1>5, <1>6 DEF CheckClosing
  <2> QED
    BY <1>6, <2>1 DEF CheckClosing, OutboundTypeOK, Labels
<1>7. CASE Reserve(s)
  <2>1. sendPc' \in [Senders -> Labels]
    BY <1>2, <1>5, <1>7 DEF Reserve
  <2>2. queued' \in [Conns -> Nat]
    BY <1>3, <1>4, <1>7 DEF Reserve
  <2> QED
    BY <1>7, <2>1, <2>2 DEF Reserve, OutboundTypeOK, Labels
<1>8. CASE Enqueue(s)
  <2>1. sendPc' \in [Senders -> Labels]
    BY <1>2, <1>5, <1>8 DEF Enqueue
  <2>2. queued' \in [Conns -> Nat]
    BY <1>1, <1>3, <1>4, <1>8, MinusType DEF Enqueue
  <2>3. queue' \in [Conns -> Seq(Senders \cup {CloseFrame})]
    <3>1. Append(queue[via[s]], s) \in Seq(Senders \cup {CloseFrame})
      BY DEF OutboundTypeOK
    <3> QED
      BY <1>8, <3>1 DEF Enqueue, OutboundTypeOK
  <2> QED
    BY <1>8, <2>1, <2>2, <2>3 DEF Enqueue, OutboundTypeOK, Labels
<1>9. CASE Release(s)
  <2>1. sendPc' \in [Senders -> Labels]
    BY <1>2, <1>5, <1>9 DEF Release
  <2>2. queued' \in [Conns -> Nat]
    BY <1>3, <1>4, <1>9, MinusType DEF Release
  <2> QED
    BY <1>9, <2>1, <2>2 DEF Release, OutboundTypeOK, Labels
<1>10. CASE Refuse(s)
  <2>1. sendPc' \in [Senders -> Labels]
    BY <1>2, <1>5, <1>10 DEF Refuse
  <2>2. closing' \in [Conns -> BOOLEAN]
    BY <1>10 DEF Refuse, OutboundTypeOK
  <2> QED
    BY <1>10, <2>1, <2>2 DEF Refuse, OutboundTypeOK, Labels
<1>11. CASE RequestClose(s)
  <2>1. sendPc' \in [Senders -> Labels]
    BY <1>2, <1>5, <1>11 DEF RequestClose
  <2>2. queue' \in [Conns -> Seq(Senders \cup {CloseFrame})]
    <3>1. Append(queue[via[s]], CloseFrame) \in Seq(Senders \cup {CloseFrame})
      BY DEF OutboundTypeOK
    <3> QED
      BY <1>11, <3>1 DEF RequestClose, OutboundTypeOK
  <2> QED
    BY <1>11, <2>1, <2>2 DEF RequestClose, OutboundTypeOK, Labels
<1> QED
  BY <1>6, <1>7, <1>8, <1>9, <1>10, <1>11 DEF SendStep

LEMMA TaskTypes ==
  ASSUME OutboundTypeOK, NEW c \in Conns, SenderTask(c)
  PROVE  OutboundTypeOK'
<1> USE OutboundAssumption DEF OutboundAssumption
<1>1. queue[c] \in Seq(Senders \cup {CloseFrame}) /\ queued[c] \in Nat
  BY DEF OutboundTypeOK
<1>2. <<>> \in Seq(Senders \cup {CloseFrame})
  OBVIOUS
<1>3. CASE TakeFrame(c)
  <2>1. Head(queue[c]) \in Senders /\ Tail(queue[c]) \in Seq(Senders \cup {CloseFrame})
    BY <1>1, <1>3 DEF TakeFrame
  <2>2. writing' \in [Conns -> Senders \cup {NoFrame}]
    BY <1>3, <2>1 DEF TakeFrame, OutboundTypeOK
  <2>3. queue' \in [Conns -> Seq(Senders \cup {CloseFrame})]
    BY <1>3, <2>1 DEF TakeFrame, OutboundTypeOK
  <2> QED
    BY <1>3, <2>2, <2>3 DEF TakeFrame, OutboundTypeOK
<1>4. CASE FrameWritten(c)
  BY <1>1, <1>4, MinusType DEF FrameWritten, OutboundTypeOK
<1>5. CASE SocketFails(c)
  <2>1. queue' \in [Conns -> Seq(Senders \cup {CloseFrame})]
    BY <1>2, <1>5 DEF SocketFails, OutboundTypeOK
  <2> QED
    BY <1>5, <2>1 DEF SocketFails, OutboundTypeOK
<1>6. CASE TakeClose(c)
  <2>1. Tail(queue[c]) \in Seq(Senders \cup {CloseFrame})
    BY <1>1, <1>6 DEF TakeClose
  <2>2. queue' \in [Conns -> Seq(Senders \cup {CloseFrame})]
    BY <1>6, <2>1 DEF TakeClose, OutboundTypeOK
  <2> QED
    BY <1>6, <2>2 DEF TakeClose, OutboundTypeOK
<1>7. CASE ResetCount(c)
  <2>1. late' \in [Conns -> SUBSET Senders]
    BY <1>7 DEF ResetCount, Entering, OutboundTypeOK
  <2> QED
    BY <1>7, <2>1 DEF ResetCount, OutboundTypeOK
<1>8. CASE CloseWritten(c)
  <2>1. queue' \in [Conns -> Seq(Senders \cup {CloseFrame})]
    BY <1>2, <1>8 DEF CloseWritten, OutboundTypeOK
  <2> QED
    BY <1>8, <2>1 DEF CloseWritten, OutboundTypeOK
<1> QED
  BY <1>3, <1>4, <1>5, <1>6, <1>7, <1>8 DEF SenderTask

\* A sending task knows its connection.
LEMMA SendingVia ==
  ASSUME Requesting, NEW s \in Senders, SendStep(s)
  PROVE  via[s] \in Conns /\ sendPc[s] \in Sending
  BY DEF SendStep, CheckClosing, Reserve, Enqueue, Release, Refuse, RequestClose, Requesting, Sending

LEMMA OutTypeInductive ==
  TypeOK /\ Requesting /\ [Next]_vars => OutboundTypeOK'
<1> SUFFICES ASSUME TypeOK, Requesting, [Next]_vars PROVE OutboundTypeOK'
  OBVIOUS
<1>1. OutboundTypeOK
  BY DEF TypeOK
<1>2. ASSUME NEW s \in Senders, Begins(s) \/ Chooses(s) PROVE OutboundTypeOK'
  <2>1. via' \in [Senders -> Conns \cup {NoConn}]
    BY <1>1, <1>2 DEF Begins, Chooses, OutboundTypeOK
  <2>2. sendPc' \in [Senders -> Labels]
    BY <1>1, <1>2 DEF Begins, Chooses, OutboundTypeOK, Labels, Sending
  <2> QED
    BY <1>1, <1>2, <2>1, <2>2 DEF Begins, Chooses, OutboundTypeOK, Labels
<1>3. CASE UNCHANGED outVars
  BY <1>1, <1>3 DEF outVars, OutboundTypeOK
<1> QED
  BY <1>1, <1>2, <1>3, OutSteps, SendTypes, TaskTypes, SendingVia

LEMMA TypeInductive == TypeOK /\ Requesting /\ OnePlace /\ [Next]_vars => TypeOK'
<1> SUFFICES ASSUME TypeOK, Requesting, OnePlace, [Next]_vars PROVE TypeOK'
  OBVIOUS
<1>1. OutboundTypeOK'
  BY OutTypeInductive
<1> USE NodeAssumption, <1>1 DEF NodeAssumption, TypeOK, Goto, Ended, AnswerTasks, nodeVars
<1>2. CASE Outbound
  BY <1>2 DEF Outbound
<1>3. ASSUME NEW c \in Conns, Connect(c) \/ Disconnect(c) \/ CancelInvokes(c) \/ Deliver(c)
      PROVE  TypeOK'
  BY <1>3 DEF Connect, Disconnect, CancelInvokes, Deliver
<1>4. ASSUME NEW s \in Senders, NEW c \in Conns, OtherTraffic(s, c) PROVE TypeOK'
  BY <1>4 DEF OtherTraffic
<1>5. ASSUME NEW i \in Invokes, CallStep(i) \/ Drop(i) PROVE TypeOK'
  BY <1>5 DEF CallStep, FindClient, Register, Requested, Receive, Elapse, Expire, Drop
<1>6. ASSUME NEW a \in Answers, NEW i \in Invokes, NEW n \in Nodes, Submit(a, i, n) PROVE TypeOK'
  BY <1>6 DEF Submit
<1>7. ASSUME NEW a \in Answers, AnswerStep(a) PROVE TypeOK'
  <2>1. ans \in [Answers -> AnswerTasks]
    BY DEF TypeOK
  <2>2. \A label \in {"ignored", "putback", "send", "accepted"} :
          [ans EXCEPT ![a].pc = label] \in [Answers -> AnswerTasks]
    <3>1. \A label \in {"ignored", "putback", "send", "accepted"} :
            [ans[a] EXCEPT !.pc = label] \in AnswerTasks
      BY <2>1
    <3> HIDE DEF AnswerTasks, TypeOK, NodeAssumption
    <3> QED
      BY <2>1, <3>1
  <2>3. CASE Take(a)
    <3>1. PICK label \in {"ignored", "putback", "send", "accepted"} :
            ans' = [ans EXCEPT ![a].pc = label]
      BY <2>3 DEF Take
    <3>2. ans' \in [Answers -> AnswerTasks]
      <4> HIDE DEF AnswerTasks, TypeOK, NodeAssumption
      <4> QED
        BY <2>2, <3>1
    <3>3. pending' \subseteq pending /\ UNCHANGED <<conn, pc, channel, reached, forgotten>>
      BY <2>3 DEF Take
    <3> QED
      BY <3>2, <3>3
  <2>4. CASE SendResult(a)
    <3>1. channel' \in [Invokes -> {"empty", "answer", "disconnected"}]
      BY <2>4 DEF SendResult
    <3> QED
      BY <2>2, <2>4, <3>1 DEF SendResult
  <2>5. CASE PutBack(a)
    <3>1. ans[a].id \in Invokes
      BY <2>5 DEF PutBack, OnePlace
    <3> QED
      BY <2>2, <2>5, <3>1 DEF PutBack
  <2> QED
    BY <1>7, <2>3, <2>4, <2>5 DEF AnswerStep
<1>8. CASE UNCHANGED vars
  BY <1>8 DEF vars, outVars
<1> QED
  BY <1>2, <1>3, <1>4, <1>5, <1>6, <1>7, <1>8 DEF Next

\* A send step moves the sender on and touches nobody else.
LEMMA SendMoves ==
  ASSUME OutboundTypeOK, NEW s \in Senders, SendStep(s)
  PROVE  /\ sendPc' = [sendPc EXCEPT ![s] = sendPc'[s]] /\ via' = via
         /\ sendPc[s] \in Sending
         /\ sendPc'[s] \in Sending \cup {"sent", "dropped"}
         /\ sendPc'[s] = "sent" => sendPc[s] = "enqueue"
  BY DEF SendStep, CheckClosing, Reserve, Enqueue, Release, Refuse, RequestClose, SendGoto, OutboundTypeOK, Sending

LEMMA TaskMoves ==
  ASSUME NEW c \in Conns, SenderTask(c)
  PROVE  UNCHANGED <<sendPc, via>>
  BY DEF SenderTask, TakeFrame, FrameWritten, SocketFails, TakeClose, ResetCount, CloseWritten

LEMMA RequestingInductive == TypeOK /\ Requesting /\ [Next]_vars => Requesting'
<1> SUFFICES ASSUME TypeOK, Requesting, [Next]_vars PROVE Requesting'
  OBVIOUS
<1>1. OutboundTypeOK /\ pc \in [Invokes -> {"find", "register", "send", "wait", "expired"} \cup Ended]
  BY DEF TypeOK
<1> USE NodeAssumption DEF NodeAssumption
<1>2. ASSUME NEW s \in Senders, SendStep(s), UNCHANGED nodeVars PROVE Requesting'
  BY <1>1, <1>2, SendMoves, SendingVia DEF Requesting, Sending, nodeVars, OutboundTypeOK
<1>3. ASSUME NEW c \in Conns, SenderTask(c), UNCHANGED pc PROVE Requesting'
  BY <1>3, TaskMoves DEF Requesting
<1>4. ASSUME NEW c \in Conns, Connect(c) \/ Disconnect(c) \/ CancelInvokes(c) PROVE Requesting'
  BY <1>4 DEF Connect, Disconnect, CancelInvokes, outVars, Requesting
<1>5. ASSUME NEW s \in Senders, NEW c \in Conns, OtherTraffic(s, c) PROVE Requesting'
  BY <1>1, <1>5 DEF OtherTraffic, SendGoto, Requesting, nodeVars, OutboundTypeOK, Sending
<1>6. ASSUME NEW i \in Invokes, FindClient(i) PROVE Requesting'
  <2>1. sendPc[i] = "idle" /\ i \in Senders
    BY <1>6 DEF FindClient, Requesting
  <2>2. /\ sendPc' = sendPc /\ \A x \in Senders : x # i => via'[x] = via[x]
        /\ \A j \in Invokes : j # i => pc'[j] = pc[j]
        /\ pc'[i] \in {"register", "refused"}
        /\ pc'[i] = "register" => via'[i] \in Conns
    BY <1>1, <1>6, <2>1 DEF FindClient, Goto, OutboundTypeOK
  <2>3. \A s \in Senders : sendPc[s] \in Sending => s # i
    BY <2>1 DEF Sending
  <2> QED
    BY <1>6, <2>1, <2>2, <2>3 DEF FindClient, Requesting
<1>7. ASSUME NEW i \in Invokes, Register(i) PROVE Requesting'
  BY <1>1, <1>7 DEF Register, Requesting, BeginSend, Goto, OutboundTypeOK
<1>8. ASSUME NEW i \in Invokes, Requested(i) \/ Receive(i) \/ Elapse(i) \/ Expire(i) \/ Drop(i)
      PROVE  Requesting'
  BY <1>1, <1>8 DEF Requested, Receive, Elapse, Expire, Drop, outVars, Requesting, Goto
<1>9. ASSUME NEW a \in Answers, AnswerStep(a) \/ \E i \in Invokes, n \in Nodes : Submit(a, i, n)
      PROVE  Requesting'
  BY <1>9 DEF AnswerStep, Take, PutBack, SendResult, Submit, outVars, Requesting
<1>10. CASE UNCHANGED vars
  BY <1>10 DEF vars, outVars, nodeVars, Requesting
<1>11. ASSUME NEW c \in Conns, Deliver(c) PROVE Requesting'
  BY <1>3, <1>11 DEF Deliver, SenderTask
<1>12. CASE Outbound
  BY <1>2, <1>3, <1>12 DEF Outbound, SenderTask, nodeVars
<1> QED
  BY <1>4, <1>5, <1>6, <1>7, <1>8, <1>9, <1>10, <1>11, <1>12 DEF Next, CallStep

\* Whatever is queued or written has been sent.
LEMMA TravellingInductive ==
  TypeOK /\ Requesting /\ Travelling /\ [Next]_vars => Travelling'
<1> SUFFICES ASSUME TypeOK, Requesting, Travelling, [Next]_vars PROVE Travelling'
  OBVIOUS
<1>1. OutboundTypeOK
  BY DEF TypeOK
<1> USE OutboundAssumption DEF OutboundAssumption
<1>2. \A c \in Conns : queue[c] \in Seq(Senders \cup {CloseFrame}) /\ writing[c] \in Senders \cup {NoFrame}
  BY <1>1 DEF OutboundTypeOK
<1>3. ASSUME NEW s \in Senders, SendStep(s) PROVE Travelling'
  <2>1. via[s] \in Conns /\ sendPc[s] # "sent"
    BY <1>3, SendingVia DEF Sending
  <2>2. \A x \in Senders : sendPc[x] = "sent" => sendPc'[x] = "sent"
    BY <1>1, <1>3, <2>1, SendMoves DEF OutboundTypeOK
  <2>3. writing' = writing
    BY <1>3 DEF SendStep, CheckClosing, Reserve, Enqueue, Release, Refuse, RequestClose
  <2>4. CASE queue' = queue
    BY <1>2, <2>2, <2>3, <2>4 DEF Travelling
  <2>5. CASE Enqueue(s) /\ queue' # queue
    <3>1. queue' = [queue EXCEPT ![via[s]] = Append(@, s)] /\ sendPc'[s] = "sent"
      BY <1>1, <2>5 DEF Enqueue, SendGoto, OutboundTypeOK
    <3>2. \A c \in Conns : \A n \in DOMAIN queue'[c] :
            \/ n \in DOMAIN queue[c] /\ queue'[c][n] = queue[c][n]
            \/ queue'[c][n] = s
      BY <1>1, <1>2, <3>1 DEF OutboundTypeOK
    <3> QED
      BY <1>2, <2>2, <2>3, <3>1, <3>2 DEF Travelling
  <2>6. CASE RequestClose(s) /\ queue' # queue
    <3>1. queue' = [queue EXCEPT ![via[s]] = Append(@, CloseFrame)]
      BY <2>6 DEF RequestClose
    <3>2. \A c \in Conns : \A n \in DOMAIN queue'[c] :
            \/ n \in DOMAIN queue[c] /\ queue'[c][n] = queue[c][n]
            \/ queue'[c][n] = CloseFrame
      BY <1>1, <1>2, <3>1 DEF OutboundTypeOK
    <3> QED
      BY <1>2, <2>2, <2>3, <3>2 DEF Travelling
  <2> QED
    BY <1>3, <2>4, <2>5, <2>6 DEF SendStep, CheckClosing, Reserve, Release, Refuse
<1>4. ASSUME NEW c \in Conns, SenderTask(c) PROVE Travelling'
  <2>1. sendPc' = sendPc
    BY <1>4, TaskMoves
  <2>2. CASE TakeFrame(c)
    <3>1. /\ writing' = [writing EXCEPT ![c] = Head(queue[c])]
          /\ queue' = [queue EXCEPT ![c] = Tail(queue[c])]
          /\ queue[c] # <<>> /\ Head(queue[c]) # CloseFrame
      BY <2>2 DEF TakeFrame
    <3>2. 1 \in DOMAIN queue[c] /\ Head(queue[c]) = queue[c][1]
      BY <1>2, <3>1
    <3>3. \A n \in DOMAIN Tail(queue[c]) : n + 1 \in DOMAIN queue[c] /\ Tail(queue[c])[n] = queue[c][n + 1]
      BY <1>2, <3>1
    <3>4. writing'[c] = queue[c][1] /\ queue'[c] = Tail(queue[c])
      BY <1>1, <3>1, <3>2 DEF OutboundTypeOK
    <3>5. \A d \in Conns : d # c => writing'[d] = writing[d] /\ queue'[d] = queue[d]
      BY <1>1, <3>1 DEF OutboundTypeOK
    <3> QED
      BY <2>1, <3>1, <3>2, <3>3, <3>4, <3>5 DEF Travelling
  <2>3. CASE TakeClose(c)
    <3>1. /\ writing' = writing /\ queue[c] # <<>>
          /\ queue'[c] = Tail(queue[c]) /\ \A d \in Conns : d # c => queue'[d] = queue[d]
      BY <1>1, <2>3 DEF TakeClose, OutboundTypeOK
    <3>2. \A n \in DOMAIN Tail(queue[c]) : n + 1 \in DOMAIN queue[c] /\ Tail(queue[c])[n] = queue[c][n + 1]
      BY <1>2, <3>1
    <3>3. \A d \in Conns : \A n \in DOMAIN queue'[d] :
            \E m \in DOMAIN queue[d] : queue'[d][n] = queue[d][m]
      BY <3>1, <3>2
    <3> QED
      BY <2>1, <3>1, <3>3 DEF Travelling
  <2>4. CASE FrameWritten(c) \/ SocketFails(c) \/ ResetCount(c) \/ CloseWritten(c)
    <3>1. \A d \in Conns : /\ writing'[d] = writing[d] \/ writing'[d] = NoFrame
                           /\ queue'[d] = queue[d] \/ queue'[d] = <<>>
      BY <1>1, <2>4 DEF FrameWritten, SocketFails, ResetCount, CloseWritten, OutboundTypeOK
    <3> QED
      BY <2>1, <3>1 DEF Travelling
  <2> QED
    BY <1>4, <2>2, <2>3, <2>4 DEF SenderTask
<1>5. ASSUME NEW s \in Senders, Begins(s) \/ Chooses(s) PROVE Travelling'
  <2>1. \A x \in Senders : sendPc[x] = "sent" => sendPc'[x] = "sent"
    BY <1>1, <1>5 DEF Begins, Chooses, OutboundTypeOK
  <2> QED
    BY <1>2, <1>5, <2>1 DEF Begins, Chooses, Travelling
<1>6. CASE UNCHANGED outVars
  BY <1>6 DEF outVars, Travelling
<1> QED
  BY <1>3, <1>4, <1>5, <1>6, OutSteps

-----------------------------------------------------------------------------
(* What is queued, counted.                                                *)

NonClose(q) == {n \in DOMAIN q : q[n] # CloseFrame}

LEMMA NonCloseFinite ==
  ASSUME NEW q \in Seq(Senders \cup {CloseFrame})
  PROVE  IsFiniteSet(NonClose(q)) /\ Cardinality(NonClose(q)) \in Nat
<1>1. IsFiniteSet(1..Len(q))
  BY FS_Interval
<1>2. NonClose(q) \subseteq 1..Len(q)
  BY DEF NonClose
<1> QED
  BY <1>1, <1>2, FS_Subset, FS_CardinalityType

LEMMA AppendCounted ==
  ASSUME NEW q \in Seq(Senders \cup {CloseFrame}), NEW x \in Senders \cup {CloseFrame}
  PROVE  Cardinality(NonClose(Append(q, x))) =
           IF x = CloseFrame THEN Cardinality(NonClose(q)) ELSE Cardinality(NonClose(q)) + 1
<1> DEFINE r == Append(q, x)
<1>1. /\ DOMAIN q = 1..Len(q) /\ Len(q) \in Nat
      /\ DOMAIN r = 1..(Len(q) + 1) /\ r[Len(q) + 1] = x
      /\ \A n \in DOMAIN q : r[n] = q[n]
  OBVIOUS
<1> HIDE DEF r
<1>2. CASE x = CloseFrame
  <2>1. NonClose(r) = NonClose(q)
    BY <1>1, <1>2 DEF NonClose
  <2> QED
    BY <1>2, <2>1 DEF r
<1>3. CASE x # CloseFrame
  <2>1. NonClose(r) = NonClose(q) \cup {Len(q) + 1} /\ Len(q) + 1 \notin NonClose(q)
    BY <1>1, <1>3 DEF NonClose
  <2> QED
    BY <1>3, <2>1, NonCloseFinite, FS_AddElement DEF r
<1> QED
  BY <1>2, <1>3

LEMMA TailCounted ==
  ASSUME NEW q \in Seq(Senders \cup {CloseFrame}), q # <<>>
  PROVE  Cardinality(NonClose(q)) =
           Cardinality(NonClose(Tail(q))) + IF Head(q) = CloseFrame THEN 0 ELSE 1
<1> DEFINE r == Tail(q)
           rest == NonClose(q) \ {1}
           f == [n \in NonClose(r) |-> n + 1]
<1>1. /\ DOMAIN q = 1..Len(q) /\ Len(q) \in Nat \ {0}
      /\ DOMAIN r = 1..(Len(q) - 1) /\ r \in Seq(Senders \cup {CloseFrame})
      /\ \A n \in DOMAIN r : r[n] = q[n + 1]
      /\ Head(q) = q[1] /\ 1 \in DOMAIN q
  OBVIOUS
<1> HIDE DEF r
<1>2. 1 \in NonClose(q) <=> Head(q) # CloseFrame
  BY <1>1 DEF NonClose
<1>3. \A n \in NonClose(r) : n \in Nat /\ n + 1 \in rest
  BY <1>1 DEF NonClose
<1>4. \A n \in rest : n - 1 \in NonClose(r) /\ f[n - 1] = n
  <2>1. \A n \in rest : n \in 2..Len(q) /\ n - 1 \in DOMAIN r /\ r[n - 1] = q[n]
    BY <1>1 DEF NonClose
  <2>2. \A n \in rest : n - 1 \in NonClose(r)
    BY <2>1 DEF NonClose
  <2> QED
    BY <2>1, <2>2
<1>5. f \in Bijection(NonClose(r), rest)
  <2>1. f \in [NonClose(r) -> rest]
    BY <1>3
  <2>2. \A m, n \in NonClose(r) : f[m] = f[n] => m = n
    BY <1>3
  <2>3. \A n \in rest : \E m \in NonClose(r) : f[m] = n
    BY <1>4
  <2> HIDE DEF f, rest
  <2> QED
    BY <2>1, <2>2, <2>3 DEF Bijection, Injection, Surjection, IsInjective
<1>6. IsFiniteSet(NonClose(r)) /\ IsFiniteSet(NonClose(q))
  BY <1>1, NonCloseFinite
<1>7. Cardinality(rest) = Cardinality(NonClose(r))
  BY <1>5, <1>6, FS_Bijection DEF ExistsBijection
<1>8. CASE Head(q) # CloseFrame
  <2>1. Cardinality(rest) = Cardinality(NonClose(q)) - 1 /\ Cardinality(NonClose(q)) \in Nat
    BY <1>2, <1>6, <1>8, FS_RemoveElement, FS_CardinalityType
  <2> QED
    BY <1>7, <1>8, <2>1 DEF r
<1>9. CASE Head(q) = CloseFrame
  <2>1. rest = NonClose(q) /\ Cardinality(NonClose(q)) \in Nat
    BY <1>2, <1>6, <1>9, FS_CardinalityType
  <2>2. Cardinality(NonClose(r)) = Cardinality(NonClose(q))
    BY <1>7, <2>1
  <2> QED
    BY <1>9, <2>1, <2>2 DEF r
<1> QED
  BY <1>8, <1>9

LEMMA SendersFinite ==
  ASSUME NEW S \in SUBSET Senders
  PROVE  /\ IsFiniteSet(S) /\ Cardinality(S) \in Nat
         /\ \A R \in SUBSET S : IsFiniteSet(R) /\ Cardinality(R) \in Nat /\ Cardinality(R) <= Cardinality(S)
         /\ \A s \in S : Cardinality(S \ {s}) = Cardinality(S) - 1 /\ Cardinality(S) > 0
         /\ \A s : s \notin S => Cardinality(S \cup {s}) = Cardinality(S) + 1
<1>1. IsFiniteSet(S) /\ Cardinality(S) \in Nat
  BY OutboundAssumption, FS_Subset, FS_CardinalityType DEF OutboundAssumption
<1>2. \A R \in SUBSET S : IsFiniteSet(R) /\ Cardinality(R) \in Nat /\ Cardinality(R) <= Cardinality(S)
  BY <1>1, FS_Subset, FS_CardinalityType
<1>3. \A s \in S : Cardinality(S \ {s}) = Cardinality(S) - 1 /\ Cardinality(S) > 0
  BY <1>1, FS_RemoveElement, FS_EmptySet
<1>4. \A s : s \notin S => Cardinality(S \cup {s}) = Cardinality(S) + 1
  BY <1>1, FS_AddElement
<1> QED
  BY <1>1, <1>2, <1>3, <1>4

-----------------------------------------------------------------------------
(* The counter and the limit.                                              *)

Room(c) == Cardinality(Texts(c)) + Writing(c) + Cardinality(Fitting(c))
Accounts(c) ==
  /\ Counting(c) =>
       /\ queued[c] = Cardinality(Texts(c)) + Writing(c) + Cardinality(Promised(c))
       /\ Room(c) <= MaxBuffered
  /\ task[c] = "reset" =>
       /\ queued[c] <= Cardinality(Texts(c)) + Writing(c) + Cardinality(Promised(c))
       /\ Room(c) + Cardinality(Entering(c)) <= MaxBuffered + Cardinality(late[c])
  /\ task[c] \in {"close", "reset"} => closing[c]

\* The numbers that are compared.
LEMMA AccountsTypes ==
  ASSUME OutboundTypeOK, NEW c \in Conns
  PROVE  /\ Cardinality(Texts(c)) \in Nat /\ Writing(c) \in Nat /\ queued[c] \in Nat
         /\ Cardinality(Promised(c)) \in Nat /\ Cardinality(Fitting(c)) \in Nat
         /\ Cardinality(Entering(c)) \in Nat /\ Cardinality(late[c]) \in Nat
         /\ MaxBuffered \in Nat
         /\ Cardinality(Fitting(c)) <= Cardinality(Promised(c))
<1>1. queue[c] \in Seq(Senders \cup {CloseFrame}) /\ queued[c] \in Nat /\ late[c] \in SUBSET Senders
  BY DEF OutboundTypeOK
<1>2. /\ Promised(c) \in SUBSET Senders /\ Entering(c) \in SUBSET Senders
      /\ Fitting(c) \in SUBSET Promised(c) /\ Fitting(c) \in SUBSET Senders
  BY DEF Promised, Fitting, Entering
<1>3. Cardinality(Texts(c)) \in Nat
  BY <1>1, NonCloseFinite DEF Texts, NonClose
<1>4. Writing(c) \in Nat
  BY DEF Writing
<1> QED
  BY <1>1, <1>2, <1>3, <1>4, SendersFinite, OutboundAssumption DEF OutboundAssumption

\* Nothing that is counted changed on a connection.
LEMMA AccountsSame ==
  ASSUME OutboundTypeOK, OutboundTypeOK', NEW c \in Conns, Accounts(c),
         queue'[c] = queue[c], queued'[c] = queued[c], writing'[c] = writing[c],
         task'[c] = task[c], late'[c] = late[c], closing[c] => closing'[c],
         Promised(c)' = Promised(c), Fitting(c)' = Fitting(c),
         task[c] = "reset" => Entering(c)' \subseteq Entering(c)
  PROVE  Accounts(c)'
<1>1. Texts(c)' = Texts(c) /\ Writing(c)' = Writing(c)
  BY DEF Texts, Writing
<1>2. Room(c)' = Room(c) /\ (Counting(c)' <=> Counting(c))
  BY <1>1 DEF Room, Counting
<1>3. /\ Room(c) \in Nat /\ Cardinality(Entering(c)) \in Nat
      /\ MaxBuffered \in Nat /\ Cardinality(late[c]) \in Nat
  BY AccountsTypes DEF Room
<1>4. /\ Cardinality(Entering(c)') \in Nat
      /\ task[c] = "reset" => Cardinality(Entering(c)') <= Cardinality(Entering(c))
  <2>1. Entering(c) \in SUBSET Senders /\ Entering(c)' \in SUBSET Senders
    BY DEF Entering
  <2> QED
    BY <2>1, SendersFinite
<1> QED
  BY <1>1, <1>2, <1>3, <1>4 DEF Accounts

LEMMA SendAccounts ==
  ASSUME OutboundTypeOK, OutboundTypeOK', NEW c \in Conns, Accounts(c),
         NEW s \in Senders, SendStep(s), via[s] \in Conns
  PROVE  Accounts(c)'
<1> USE OutboundAssumption DEF OutboundAssumption
<1>1. queue[c] \in Seq(Senders \cup {CloseFrame}) /\ queued[c] \in Nat
  BY DEF OutboundTypeOK
<1>2. via' = via /\ \A x \in Senders : x # s => sendPc'[x] = sendPc[x]
  BY SendMoves DEF OutboundTypeOK
<1>3. writing' = writing /\ task' = task /\ late' = late
  BY DEF SendStep, CheckClosing, Reserve, Enqueue, Release, Refuse, RequestClose
<1>4. closing[c] => closing'[c]
  BY DEF SendStep, CheckClosing, Reserve, Enqueue, Release, Refuse, RequestClose, OutboundTypeOK
<1>5. CASE via[s] # c
  <2>1. queue'[c] = queue[c] /\ queued'[c] = queued[c]
    BY <1>5 DEF SendStep, CheckClosing, Reserve, Enqueue, Release, Refuse, RequestClose, OutboundTypeOK
  <2>2. Promised(c)' = Promised(c) /\ Fitting(c)' = Fitting(c) /\ Entering(c)' = Entering(c)
    BY <1>2, <1>5 DEF Promised, Fitting, Entering
  <2> QED
    BY <1>3, <1>4, <2>1, <2>2, AccountsSame
<1>6. CASE via[s] = c
  <2> DEFINE T == Cardinality(Texts(c))
             P == Cardinality(Promised(c))
             F == Cardinality(Fitting(c))
             E == Cardinality(Entering(c))
             L == Cardinality(late[c])
             W == Writing(c)
             counting == Counting(c)
             reset == task[c] = "reset"
  <2>1. /\ T \in Nat /\ P \in Nat /\ F \in Nat /\ E \in Nat /\ L \in Nat /\ F <= P /\ W \in Nat
        /\ MaxBuffered \in Nat
        /\ counting => queued[c] = T + W + P /\ T + W + F <= MaxBuffered
        /\ reset => queued[c] <= T + W + P /\ T + W + F + E <= MaxBuffered + L
        /\ counting => task[c] \in {"run", "close"}
    BY AccountsTypes DEF Accounts, Room, Counting
  <2>2. W' = W /\ L' = L /\ (counting' <=> counting) /\ (reset' <=> reset)
    BY <1>3 DEF Writing, Counting
  <2>3. task'[c] \in {"close", "reset"} => closing'[c]
    BY <1>3, <1>4 DEF Accounts
  <2>4. /\ Promised(c) \in SUBSET Senders /\ Fitting(c) \in SUBSET Senders
        /\ Entering(c) \in SUBSET Senders
    BY DEF Promised, Fitting, Entering
  <2>5. \* it is enough to compare the numbers
        ASSUME /\ counting => queued'[c] = T' + W' + P' /\ T' + W' + F' <= MaxBuffered
               /\ reset => queued'[c] <= T' + W' + P' /\ T' + W' + F' + E' <= MaxBuffered + L'
        PROVE  Accounts(c)'
    BY <2>2, <2>3, <2>5 DEF Accounts, Room
  <2>6. CASE CheckClosing(s)
    <3>1. queue'[c] = queue[c] /\ queued'[c] = queued[c]
      BY <2>6 DEF CheckClosing
    <3>2. sendPc[s] = "check" /\ sendPc'[s] = IF closing[c] THEN "dropped" ELSE "reserve"
      BY <1>6, <2>6 DEF CheckClosing, SendGoto, OutboundTypeOK
    <3>3. Promised(c)' = Promised(c) /\ Fitting(c)' = Fitting(c)
      BY <1>2, <3>2 DEF Promised, Fitting
    <3>4. reset => Entering(c)' \subseteq Entering(c)
      BY <1>2, <3>2 DEF Accounts, Entering
    <3> QED
      BY <1>3, <1>4, <3>1, <3>3, <3>4, AccountsSame
  <2>7. CASE Reserve(s)
    <3>1. /\ T' = T /\ queued'[c] = queued[c] + 1 /\ sendPc[s] = "reserve"
          /\ sendPc'[s] = IF queued[c] + 1 > MaxBuffered THEN "release" ELSE "enqueue"
      BY <1>6, <2>7 DEF Reserve, SendGoto, Texts, OutboundTypeOK
    <3>2. Promised(c)' = Promised(c) \cup {s} /\ s \notin Promised(c)
      BY <1>2, <1>6, <3>1 DEF Promised
    <3>3. Entering(c)' = Entering(c) \ {s} /\ s \in Entering(c)
      BY <1>2, <1>6, <3>1 DEF Entering
    <3>4. P' = P + 1 /\ E' = E - 1
      BY <2>4, <3>2, <3>3, SendersFinite
    <3>5. CASE queued[c] + 1 > MaxBuffered
      <4>1. Fitting(c)' = Fitting(c)
        BY <1>2, <1>6, <3>1, <3>5 DEF Fitting
      <4>2. F' = F
        BY <4>1
      <4> HIDE DEF T, P, F, E, L, W, counting, reset
      <4> QED
        BY <1>1, <2>1, <2>2, <2>5, <3>1, <3>4, <4>2
    <3>6. CASE ~(queued[c] + 1 > MaxBuffered)
      <4>1. Fitting(c)' = Fitting(c) \cup {s} /\ s \notin Fitting(c)
        BY <1>2, <1>6, <3>1, <3>6 DEF Fitting
      <4>2. F' = F + 1
        BY <2>4, <4>1, SendersFinite
      <4> HIDE DEF T, P, F, E, L, W, counting, reset
      <4>3. counting => queued'[c] = T' + W' + P' /\ T' + W' + F' <= MaxBuffered
        BY <1>1, <2>1, <2>2, <3>1, <3>4, <3>6, <4>2
      <4>4. reset => queued'[c] <= T' + W' + P' /\ T' + W' + F' + E' <= MaxBuffered + L'
        BY <1>1, <2>1, <2>2, <3>1, <3>4, <4>2
      <4> QED
        BY <2>5, <4>3, <4>4
    <3> QED
      BY <3>5, <3>6
  <2>8. CASE Enqueue(s)
    <3>1. CASE task[c] # "down"
      <4>1. /\ queue'[c] = Append(queue[c], s) /\ queued'[c] = queued[c]
            /\ sendPc[s] = "enqueue" /\ sendPc'[s] = "sent"
        BY <1>6, <2>8, <3>1 DEF Enqueue, SendGoto, OutboundTypeOK
      <4>2. T' = T + 1
        BY <1>1, <4>1, AppendCounted DEF Texts, NonClose
      <4>3. Promised(c)' = Promised(c) \ {s} /\ s \in Promised(c)
        BY <1>2, <1>6, <4>1 DEF Promised
      <4>4. Fitting(c)' = Fitting(c) \ {s} /\ s \in Fitting(c)
        BY <1>2, <1>6, <4>1 DEF Fitting
      <4>5. Entering(c)' = Entering(c)
        BY <1>2, <4>1 DEF Entering
      <4>6. P' = P - 1 /\ F' = F - 1 /\ E' = E
        BY <2>4, <4>3, <4>4, <4>5, SendersFinite
      <4> HIDE DEF T, P, F, E, L, W, counting, reset
      <4> QED
        BY <1>1, <2>1, <2>2, <2>5, <4>1, <4>2, <4>6
    <3>2. CASE task[c] = "down"
      BY <1>3, <3>2 DEF Accounts, Counting
    <3> QED
      BY <3>1, <3>2
  <2>9. CASE Release(s)
    <3>1. /\ T' = T /\ queued'[c] = Minus(queued[c], 1)
          /\ sendPc[s] = "release" /\ sendPc'[s] \in {"dropped", "refuse"}
      BY <1>6, <2>9 DEF Release, SendGoto, Texts, OutboundTypeOK
    <3>2. Promised(c)' = Promised(c) \ {s} /\ s \in Promised(c)
      BY <1>2, <1>6, <3>1 DEF Promised
    <3>3. Fitting(c)' = Fitting(c) /\ Entering(c)' = Entering(c)
      BY <1>2, <1>6, <3>1 DEF Fitting, Entering
    <3>4. P' = P - 1 /\ P > 0 /\ F' = F /\ E' = E
      BY <2>4, <3>2, <3>3, SendersFinite
    <3>5. queued'[c] = IF queued[c] > 0 THEN queued[c] - 1 ELSE 0
      BY <1>1, <3>1 DEF Minus
    <3> HIDE DEF T, P, F, E, L, W, counting, reset
    <3> QED
      BY <1>1, <2>1, <2>2, <2>5, <3>1, <3>4, <3>5
  <2>10. CASE Refuse(s) \/ RequestClose(s)
    <3>1. /\ queue'[c] = queue[c] \/ queue'[c] = Append(queue[c], CloseFrame)
          /\ queued'[c] = queued[c]
          /\ sendPc[s] \in {"refuse", "close"} /\ sendPc'[s] \in {"close", "dropped"}
      BY <1>6, <2>10 DEF Refuse, RequestClose, SendGoto, OutboundTypeOK
    <3>2. T' = T
      BY <1>1, <3>1, AppendCounted DEF Texts, NonClose
    <3>3. Promised(c)' = Promised(c) /\ Fitting(c)' = Fitting(c) /\ Entering(c)' = Entering(c)
      BY <1>2, <3>1 DEF Promised, Fitting, Entering
    <3> QED
      BY <2>1, <2>2, <2>5, <3>1, <3>2, <3>3
  <2> QED
    BY <2>6, <2>7, <2>8, <2>9, <2>10 DEF SendStep
<1> QED
  BY <1>5, <1>6

LEMMA TaskAccounts ==
  ASSUME OutboundTypeOK, OutboundTypeOK', NEW c \in Conns, Accounts(c),
         NEW d \in Conns, SenderTask(d)
  PROVE  Accounts(c)'
<1> USE OutboundAssumption DEF OutboundAssumption
<1>1. queue[c] \in Seq(Senders \cup {CloseFrame}) /\ queued[c] \in Nat
  BY DEF OutboundTypeOK
<1>2. Promised(c)' = Promised(c) /\ Fitting(c)' = Fitting(c) /\ Entering(c)' = Entering(c)
  BY TaskMoves DEF Promised, Fitting, Entering
<1>3. /\ Cardinality(Texts(c)) \in Nat /\ Cardinality(Texts(c)') \in Nat
      /\ Cardinality(Promised(c)) \in Nat /\ Cardinality(Fitting(c)) \in Nat
      /\ Cardinality(Entering(c)) \in Nat /\ Writing(c) \in Nat /\ MaxBuffered \in Nat
  <2>1. queue'[c] \in Seq(Senders \cup {CloseFrame})
    BY DEF OutboundTypeOK
  <2>2. Cardinality(Texts(c)') \in Nat
    BY <2>1, NonCloseFinite DEF Texts, NonClose
  <2> QED
    BY <2>2, AccountsTypes
<1>4. closing[c] => closing'[c]
  BY DEF SenderTask, TakeFrame, FrameWritten, SocketFails, TakeClose, ResetCount, CloseWritten, OutboundTypeOK
<1>5. CASE d # c
  <2>1. /\ queue'[c] = queue[c] /\ queued'[c] = queued[c] /\ writing'[c] = writing[c]
        /\ task'[c] = task[c] /\ late'[c] = late[c]
    <3>1. CASE TakeFrame(d) \/ FrameWritten(d) \/ SocketFails(d)
      BY <1>5, <3>1 DEF TakeFrame, FrameWritten, SocketFails, OutboundTypeOK
    <3>2. CASE TakeClose(d) \/ ResetCount(d) \/ CloseWritten(d)
      BY <1>5, <3>2 DEF TakeClose, ResetCount, CloseWritten, OutboundTypeOK
    <3> QED
      BY <3>1, <3>2 DEF SenderTask
  <2> QED
    BY <1>2, <1>4, <2>1, AccountsSame
<1>6. CASE d = c
  <2>1. CASE TakeFrame(c)
    <3>1. /\ queue'[c] = Tail(queue[c]) /\ queued'[c] = queued[c] /\ queue[c] # <<>>
          /\ Head(queue[c]) # CloseFrame /\ writing[c] = NoFrame /\ writing'[c] = Head(queue[c])
          /\ task[c] = "run" /\ task'[c] = "run"
      BY <2>1 DEF TakeFrame, OutboundTypeOK
    <3>2. Cardinality(Texts(c)) = Cardinality(Texts(c)') + 1
      BY <1>1, <3>1, TailCounted DEF Texts, NonClose
    <3>3. Head(queue[c]) \in Senders
      BY <1>1, <3>1
    <3>4. Writing(c) = 0 /\ Writing(c)' = 1
      BY <3>1, <3>3 DEF Writing
    <3> QED
      BY <1>1, <1>2, <1>3, <3>1, <3>2, <3>4 DEF Accounts, Counting, Room
  <2>2. CASE FrameWritten(c)
    <3>1. /\ Texts(c)' = Texts(c) /\ Writing(c) = 1 /\ Writing(c)' = 0
          /\ queued'[c] = Minus(queued[c], 1) /\ task[c] = "run" /\ task'[c] = "run"
      BY <2>2 DEF FrameWritten, Texts, Writing, OutboundTypeOK
    <3>2. queued[c] > 0
      BY <1>3, <3>1 DEF Accounts, Counting
    <3>3. queued'[c] = queued[c] - 1
      BY <1>1, <3>1, <3>2, MinusType
    <3> QED
      BY <1>1, <1>2, <1>3, <3>1, <3>3 DEF Accounts, Counting, Room
  <2>3. CASE TakeClose(c)
    <3>1. /\ queue'[c] = Tail(queue[c]) /\ queued'[c] = queued[c] /\ queue[c] # <<>>
          /\ Head(queue[c]) = CloseFrame /\ writing'[c] = writing[c]
          /\ task[c] = "run" /\ task'[c] = "close" /\ closing'[c] = TRUE
      BY <2>3 DEF TakeClose, OutboundTypeOK
    <3>2. Cardinality(Texts(c)) = Cardinality(Texts(c)') /\ Writing(c)' = Writing(c)
      <4>1. Cardinality(NonClose(queue[c])) = Cardinality(NonClose(queue'[c])) + 0
        BY <1>1, <3>1, TailCounted
      <4>2. Texts(c) = NonClose(queue[c]) /\ Texts(c)' = NonClose(queue'[c])
        BY DEF Texts, NonClose
      <4>3. Writing(c)' = Writing(c)
        BY <3>1 DEF Writing
      <4> QED
        BY <1>3, <4>1, <4>2, <4>3
    <3> QED
      BY <1>1, <1>2, <1>3, <3>1, <3>2 DEF Accounts, Counting, Room
  <2>4. CASE ResetCount(c)
    <3>1. /\ queue'[c] = queue[c] /\ queued'[c] = 0 /\ writing'[c] = writing[c]
          /\ task[c] = "close" /\ task'[c] = "reset" /\ late'[c] = Entering(c)
          /\ closing'[c] = closing[c]
      BY <2>4 DEF ResetCount, OutboundTypeOK
    <3>2. Texts(c)' = Texts(c) /\ Writing(c)' = Writing(c)
      BY <3>1 DEF Texts, Writing
    <3> QED
      BY <1>1, <1>2, <1>3, <3>1, <3>2 DEF Accounts, Counting, Room
  <2>5. CASE SocketFails(c) \/ CloseWritten(c)
    <3>1. task'[c] = "down"
      BY <2>5 DEF SocketFails, CloseWritten, OutboundTypeOK
    <3> QED
      BY <3>1 DEF Accounts, Counting
  <2> QED
    BY <1>6, <2>1, <2>2, <2>3, <2>4, <2>5 DEF SenderTask
<1> QED
  BY <1>5, <1>6

LEMMA AccountsInductive ==
  TypeOK /\ Requesting /\ BytesAccounted /\ RoomTaken /\ [Next]_vars => BytesAccounted' /\ RoomTaken'
<1> SUFFICES ASSUME TypeOK, Requesting, BytesAccounted, RoomTaken, [Next]_vars,
                    NEW c \in Conns
             PROVE  Accounts(c)'
  BY DEF Accounts, BytesAccounted, RoomTaken, Room
<1>1. OutboundTypeOK /\ OutboundTypeOK'
  BY OutTypeInductive DEF TypeOK
<1>2. Accounts(c)
  BY DEF Accounts, BytesAccounted, RoomTaken, Room
<1>3. ASSUME NEW s \in Senders, SendStep(s) PROVE Accounts(c)'
  BY <1>1, <1>2, <1>3, SendAccounts, SendingVia
<1>4. ASSUME NEW d \in Conns, SenderTask(d) PROVE Accounts(c)'
  BY <1>1, <1>2, <1>4, TaskAccounts
<1>5. ASSUME NEW s \in Senders, Begins(s) \/ Chooses(s) PROVE Accounts(c)'
  <2>1. \A x \in Senders : /\ x # s => via'[x] = via[x] /\ sendPc'[x] = sendPc[x]
                           /\ x = s => /\ sendPc[x] = "idle"
                                       /\ sendPc'[x] \in {"idle", "check", "reserve", "dropped"}
                                       /\ sendPc'[x] = "reserve" => ~closing[via'[x]]
    BY <1>1, <1>5 DEF Begins, Chooses, OutboundTypeOK
  <2>2. Promised(c)' = Promised(c) /\ Fitting(c)' = Fitting(c)
    BY <2>1 DEF Promised, Fitting
  <2>3. task[c] = "reset" => closing[c]
    BY <1>2 DEF Accounts
  <2>4. task[c] = "reset" => Entering(c)' \subseteq Entering(c)
    BY <2>1, <2>3 DEF Entering
  <2> QED
    BY <1>1, <1>2, <1>5, <2>2, <2>4, AccountsSame DEF Begins, Chooses
<1>6. CASE UNCHANGED outVars
  <2>1. Promised(c)' = Promised(c) /\ Fitting(c)' = Fitting(c) /\ Entering(c)' = Entering(c)
    BY <1>6 DEF outVars, Promised, Fitting, Entering
  <2> QED
    BY <1>1, <1>2, <1>6, <2>1, AccountsSame DEF outVars
<1> QED
  BY <1>3, <1>4, <1>5, <1>6, OutSteps
-----------------------------------------------------------------------------
(* The table of invocations.                                               *)

Spent == {"putback", "send", "accepted"}
Early == {"find", "register", "refused"}

\* What a step of an answer does to it, and that the others stay.
LEMMA AnswerMoves ==
  ASSUME TypeOK, NEW a \in Answers, AnswerStep(a)
  PROVE  /\ \A b \in Answers : b # a => ans'[b] = ans[b]
         /\ ans'[a].id = ans[a].id /\ ans'[a].node = ans[a].node
         /\ Take(a) => ans[a].pc = "take" /\ ans'[a].pc =
              IF ans[a].id \notin pending THEN "ignored"
              ELSE IF ans[a].node = TargetOf[ans[a].id] THEN "send" ELSE "putback"
         /\ PutBack(a) => ans[a].pc = "putback" /\ ans'[a].pc = "ignored"
         /\ SendResult(a) => ans[a].pc = "send" /\ ans'[a].pc = "accepted"
<1>1. ans \in [Answers -> AnswerTasks]
  BY DEF TypeOK
<1>2. \A label : LET new == [ans EXCEPT ![a].pc = label]
                 IN /\ \A b \in Answers : b # a => new[b] = ans[b]
                    /\ new[a].id = ans[a].id /\ new[a].node = ans[a].node /\ new[a].pc = label
  BY <1>1 DEF AnswerTasks
<1>3. CASE Take(a)
  BY <1>2, <1>3 DEF Take, PutBack, SendResult
<1>4. CASE PutBack(a)
  BY <1>2, <1>4 DEF Take, PutBack, SendResult
<1>5. CASE SendResult(a)
  BY <1>2, <1>5 DEF Take, PutBack, SendResult
<1> QED
  BY <1>3, <1>4, <1>5 DEF AnswerStep

\* A new answer is the only one that a submission changes.
LEMMA SubmitMoves ==
  ASSUME TypeOK, NEW a \in Answers, NEW i \in Invokes, NEW n \in Nodes, Submit(a, i, n)
  PROVE  /\ \A b \in Answers : b # a => ans'[b] = ans[b]
         /\ ans[a].pc = "new" /\ ans'[a] = [pc |-> "take", id |-> i, node |-> n]
         /\ ans'[a].pc = "take" /\ ans'[a].id = i /\ ans'[a].node = n
<1>1. ans \in [Answers -> AnswerTasks]
  BY DEF TypeOK
<1> QED
  BY <1>1 DEF Submit

\* What a step of a caller does to its place, and that the others stay.
LEMMA CallMoves ==
  ASSUME TypeOK, NEW i \in Invokes, CallStep(i) \/ Drop(i)
  PROVE  /\ \A j \in Invokes : j # i => pc'[j] = pc[j]
         /\ channel' = channel /\ ans' = ans /\ forgotten' = forgotten /\ reached' = reached
         /\ FindClient(i) => pc[i] = "find" /\ pc'[i] \in {"register", "refused"} /\ pending' = pending
         /\ Register(i) => pc[i] = "register" /\ pc'[i] = "send" /\ pending' = pending \cup {i}
         /\ Requested(i) => pc[i] = "send" /\ pc'[i] = "wait" /\ pending' = pending
         /\ Receive(i) => /\ pc[i] = "wait" /\ channel[i] # "empty" /\ pending' = pending
                          /\ pc'[i] = IF channel[i] = "answer" THEN "answered" ELSE "cancelled"
         /\ Elapse(i) => /\ pc[i] = "wait" /\ channel[i] = "empty"
                         /\ pc'[i] = "expired" /\ pending' = pending
         /\ Expire(i) => pc[i] = "expired" /\ pc'[i] = "timeout" /\ pending' = pending \ {i}
         /\ Drop(i) => /\ \/ pc[i] \in {"find", "register"} /\ pc'[i] = "refused"
                          \/ pc[i] \in {"wait", "expired"} /\ pc'[i] = "dropped"
                       /\ i \in ToolCalls /\ pending' = pending
<1>1. pc \in [Invokes -> {"find", "register", "send", "wait", "expired"} \cup Ended]
  BY DEF TypeOK
<1> QED
  BY <1>1 DEF CallStep, FindClient, Register, Requested, Receive, Elapse, Expire, Drop, Goto

\* The steps that leave the table and everything about it alone.
LEMMA OtherSteps ==
  ASSUME [Next]_vars
  PROVE  \/ \E i \in Invokes : CallStep(i) \/ Drop(i)
         \/ \E a \in Answers : AnswerStep(a) \/ \E i \in Invokes : \E n \in Nodes : Submit(a, i, n)
         \/ \E c \in Conns : CancelInvokes(c) \/ Deliver(c)
         \/ UNCHANGED <<pending, pc, channel, reached, ans, forgotten>>
<1>1. ASSUME NEW c \in Conns, Connect(c) \/ Disconnect(c)
      PROVE  UNCHANGED <<pending, pc, channel, reached, ans, forgotten>>
  BY <1>1 DEF Connect, Disconnect
<1>2. ASSUME NEW s \in Senders, NEW c \in Conns, OtherTraffic(s, c)
      PROVE  UNCHANGED <<pending, pc, channel, reached, ans, forgotten>>
  BY <1>2 DEF OtherTraffic, nodeVars
<1>3. CASE Outbound
  BY <1>3 DEF Outbound, nodeVars
<1>4. CASE UNCHANGED vars
  BY <1>4 DEF vars, nodeVars
<1> QED
  BY <1>1, <1>2, <1>3, <1>4 DEF Next

\* A node has read only what was sent.
LEMMA ReadingInductive ==
  TypeOK /\ Requesting /\ Travelling /\ Reading /\ [Next]_vars => Reading'
<1> SUFFICES ASSUME TypeOK, Requesting, Travelling, Reading, [Next]_vars PROVE Reading'
  OBVIOUS
<1>1. OutboundTypeOK /\ reached \in [Conns -> SUBSET Invokes]
  BY DEF TypeOK
<1> USE NodeAssumption, OutboundAssumption DEF NodeAssumption, OutboundAssumption
<1>2. \A x \in Senders : sendPc[x] = "sent" => sendPc'[x] = "sent"
  <2>1. ASSUME NEW s \in Senders, SendStep(s) PROVE \A x \in Senders : sendPc[x] = "sent" => sendPc'[x] = "sent"
    BY <1>1, <2>1, SendMoves DEF OutboundTypeOK, Sending
  <2>2. ASSUME NEW c \in Conns, SenderTask(c) PROVE \A x \in Senders : sendPc[x] = "sent" => sendPc'[x] = "sent"
    BY <2>2, TaskMoves
  <2>3. ASSUME NEW s \in Senders, Begins(s) \/ Chooses(s) PROVE \A x \in Senders : sendPc[x] = "sent" => sendPc'[x] = "sent"
    BY <1>1, <2>3 DEF Begins, Chooses, OutboundTypeOK
  <2>4. CASE UNCHANGED outVars
    BY <2>4 DEF outVars
  <2> QED
    BY <2>1, <2>2, <2>3, <2>4, OutSteps
<1>3. ASSUME NEW c \in Conns, Deliver(c) PROVE Reading'
  <2>1. reached' = reached \/
          (writing[c] \in Invokes /\ reached' = [reached EXCEPT ![c] = @ \cup {writing[c]}])
    BY <1>3 DEF Deliver
  <2>2. writing[c] \in Invokes => sendPc[writing[c]] = "sent"
    BY DEF Travelling
  <2> QED
    BY <1>1, <1>2, <2>1, <2>2 DEF Reading
<1>4. CASE reached' = reached
  BY <1>1, <1>2, <1>4 DEF Reading
<1>5. \A i \in Invokes : CallStep(i) \/ Drop(i) => reached' = reached
  BY CallMoves
<1>6. \A a \in Answers : AnswerStep(a) \/ (\E i \in Invokes : \E n \in Nodes : Submit(a, i, n))
        => reached' = reached
  BY DEF AnswerStep, Take, PutBack, SendResult, Submit
<1>7. \A c \in Conns : CancelInvokes(c) => reached' = reached
  BY DEF CancelInvokes
<1> QED
  BY <1>3, <1>4, <1>5, <1>6, <1>7, OtherSteps

LEMMA OnePlaceInductive ==
  TypeOK /\ Requesting /\ Reading /\ OnePlace /\ [Next]_vars => OnePlace'
<1> SUFFICES ASSUME TypeOK, Requesting, Reading, OnePlace, [Next]_vars PROVE OnePlace'
  OBVIOUS
<1>1. ASSUME NEW i \in Invokes, CallStep(i) \/ Drop(i) PROVE OnePlace'
  <2>1. CASE FindClient(i)
    <3>1. i \notin pending /\ channel[i] = "empty" /\ \A a \in Answers : ans[a].pc # "new" => ans[a].id # i
      BY <1>1, <2>1, CallMoves DEF OnePlace
    <3> QED
      BY <1>1, <2>1, <3>1, CallMoves DEF OnePlace, TypeOK
  <2>2. CASE Register(i)
    <3>1. channel[i] = "empty" /\ \A a \in Answers : ans[a].pc # "new" => ans[a].id # i
      BY <1>1, <2>2, CallMoves DEF OnePlace
    <3> QED
      BY <1>1, <2>2, <3>1, CallMoves DEF OnePlace, TypeOK
  <2>3. CASE Requested(i) \/ Receive(i) \/ Elapse(i) \/ Expire(i)
    <3>1. /\ pending' \subseteq pending /\ pc'[i] \notin Early
          /\ \A j \in Invokes : j # i => pc'[j] = pc[j]
          /\ channel' = channel /\ ans' = ans
      BY <1>1, <2>3, CallMoves DEF Early
    <3> QED
      BY <3>1 DEF OnePlace, Early, TypeOK
  <2>4. CASE Drop(i)
    <3>1. /\ pending' = pending /\ channel' = channel /\ ans' = ans
          /\ \A j \in Invokes : pc'[j] \in Early => pc[j] \in Early
      BY <2>4, CallMoves DEF Early
    <3> QED
      BY <3>1 DEF OnePlace, Early, TypeOK
  <2> QED
    BY <1>1, <2>1, <2>2, <2>3, <2>4 DEF CallStep
<1>2. ASSUME NEW a \in Answers, AnswerStep(a) PROVE OnePlace'
  <2>1. ans[a].id \in Invokes /\ ans[a].pc # "new" /\ pc[ans[a].id] \notin Early
    BY <1>2 DEF AnswerStep, Take, PutBack, SendResult, OnePlace, Early
  <2>2. CASE Take(a)
    <3>1. /\ pending' = pending \ {ans[a].id} /\ pc' = pc /\ channel' = channel
          /\ ans'[a].pc \in {"ignored", "send", "putback"}
          /\ ans'[a].pc # "ignored" => ans[a].id \in pending
      BY <1>2, <2>2, AnswerMoves DEF Take
    <3>2. ans'[a].pc # "ignored" =>
            /\ channel[ans[a].id] = "empty"
            /\ \A b \in Answers : ans[b].id = ans[a].id => ans[b].pc \notin Spent
      BY <2>1, <3>1 DEF OnePlace, Spent
    <3> QED
      BY <1>2, <2>1, <2>2, <3>1, <3>2, AnswerMoves DEF OnePlace, Spent, Early
  <2>3. CASE PutBack(a)
    <3>1. /\ pending' = pending \cup {ans[a].id} /\ pc' = pc /\ channel' = channel
          /\ ans'[a].pc = "ignored" /\ ans[a].pc = "putback"
      BY <1>2, <2>3, AnswerMoves DEF PutBack
    <3>2. /\ \A b \in Answers : b # a /\ ans[b].id = ans[a].id => ans[b].pc \notin Spent
          /\ channel[ans[a].id] = "empty"
      BY <2>1, <3>1 DEF OnePlace, Spent
    <3> QED
      BY <1>2, <2>1, <2>3, <3>1, <3>2, AnswerMoves DEF OnePlace, Spent, Early
  <2>4. CASE SendResult(a)
    <3>1. /\ pending' = pending /\ pc' = pc
          /\ channel' = channel \/ channel' = [channel EXCEPT ![ans[a].id] = "answer"]
          /\ ans'[a].pc = "accepted" /\ ans[a].pc = "send"
      BY <1>2, <2>4, AnswerMoves DEF SendResult
    <3>2. /\ \A b \in Answers : b # a /\ ans[b].id = ans[a].id => ans[b].pc \notin Spent
          /\ ans[a].id \notin pending /\ channel[ans[a].id] = "empty"
      BY <2>1, <3>1 DEF OnePlace, Spent
    <3>3. /\ \A j \in Invokes : j # ans[a].id => channel'[j] = channel[j]
          /\ channel'[ans[a].id] \in {"empty", "answer"}
      BY <2>1, <3>1, <3>2 DEF TypeOK
    <3> QED
      BY <1>2, <2>1, <2>4, <3>1, <3>2, <3>3, AnswerMoves DEF OnePlace, Spent, Early
  <2> QED
    BY <1>2, <2>2, <2>3, <2>4 DEF AnswerStep
<1>3. ASSUME NEW a \in Answers, NEW i \in Invokes, NEW n \in Nodes, Submit(a, i, n)
      PROVE  OnePlace'
  <2>1. UNCHANGED <<pending, pc, channel>>
    BY <1>3 DEF Submit
  <2>2. pc[i] \notin Early
    BY <1>3 DEF Submit, Early, Requesting, Reading
  <2>3. /\ \A b \in Answers : b # a => ans'[b] = ans[b]
        /\ ans[a].pc = "new" /\ ans'[a].pc = "take" /\ ans'[a].id = i
    BY <1>3, SubmitMoves
  <2> QED
    BY <2>1, <2>2, <2>3 DEF OnePlace, Early
<1>4. ASSUME NEW c \in Conns, CancelInvokes(c) PROVE OnePlace'
  <2> DEFINE lost == {i \in pending : TargetOf[i] = NodeOf[c]}
  <2>1. /\ pending' = pending \ lost /\ pc' = pc /\ ans' = ans
        /\ \A i \in Invokes : channel'[i] =
             IF i \in lost /\ Listening(i) THEN "disconnected" ELSE channel[i]
    BY <1>4 DEF CancelInvokes
  <2>2. \A i \in lost : \A a \in Answers : ans[a].id = i => ans[a].pc \notin Spent
    BY DEF OnePlace, Spent
  <2> QED
    BY <2>1, <2>2 DEF OnePlace, Spent, TypeOK
<1>5. ASSUME NEW c \in Conns, Deliver(c) PROVE OnePlace'
  BY <1>5 DEF Deliver, OnePlace
<1>6. CASE UNCHANGED <<pending, pc, channel, reached, ans, forgotten>>
  BY <1>6 DEF OnePlace
<1> QED
  BY <1>1, <1>2, <1>3, <1>4, <1>5, <1>6, OtherSteps

\* What nodes have read is never unread.
LEMMA HeardGrows == TypeOK /\ [Next]_vars => \A i \in Heard : i \in Heard'
<1> SUFFICES ASSUME TypeOK, [Next]_vars PROVE \A i \in Heard : i \in Heard'
  OBVIOUS
<1>1. ASSUME NEW c \in Conns, Deliver(c) PROVE \A d \in Conns : reached[d] \subseteq reached'[d]
  BY <1>1 DEF Deliver, TypeOK
<1>2. \A i \in Invokes : CallStep(i) \/ Drop(i) => reached' = reached
  BY CallMoves
<1>3. \A a \in Answers : AnswerStep(a) \/ (\E i \in Invokes : \E n \in Nodes : Submit(a, i, n))
        => reached' = reached
  BY DEF AnswerStep, Take, PutBack, SendResult, Submit
<1>4. \A c \in Conns : CancelInvokes(c) => reached' = reached
  BY DEF CancelInvokes
<1>5. \A d \in Conns : reached[d] \subseteq reached'[d]
  BY <1>1, <1>2, <1>3, <1>4, OtherSteps
<1> QED
  BY <1>5 DEF Heard

LEMMA AnswersHeardInductive ==
  TypeOK /\ OnePlace /\ AnswersHeard /\ [Next]_vars => AnswersHeard'
<1> SUFFICES ASSUME TypeOK, OnePlace, AnswersHeard, [Next]_vars PROVE AnswersHeard'
  OBVIOUS
<1>0. \A i \in Heard : i \in Heard'
  BY HeardGrows
<1>1. ASSUME NEW i \in Invokes, CallStep(i) \/ Drop(i) PROVE AnswersHeard'
  <2>1. /\ \A j \in Invokes : j # i => pc'[j] = pc[j]
        /\ channel' = channel /\ ans' = ans
    BY <1>1, CallMoves
  <2>2. /\ pc'[i] = "answered" => channel[i] = "answer"
        /\ pc'[i] = "cancelled" => channel[i] # "empty" /\ channel[i] # "answer"
    BY <1>1, CallMoves DEF CallStep
  <2>3. channel[i] \in {"empty", "answer", "disconnected"}
    BY DEF TypeOK
  <2> QED
    BY <1>0, <2>1, <2>2, <2>3 DEF AnswersHeard
<1>2. ASSUME NEW a \in Answers, AnswerStep(a) PROVE AnswersHeard'
  <2>1. /\ \A b \in Answers : b # a => ans'[b] = ans[b]
        /\ ans'[a].id = ans[a].id /\ ans'[a].node = ans[a].node /\ ans'[a].pc # "take"
        /\ ans'[a].pc = "send" => ans[a].pc = "take" /\ ans[a].node = TargetOf[ans[a].id]
    BY <1>2, AnswerMoves DEF AnswerStep
  <2>2. pc' = pc
    BY <1>2 DEF AnswerStep, Take, PutBack, SendResult
  <2>3. \A i \in Invokes : channel'[i] # channel[i] =>
          /\ channel'[i] = "answer" /\ channel[i] = "empty"
          /\ ans[a].id = i /\ ans[a].pc = "send"
    <3>1. CASE channel' = channel
      BY <3>1
    <3>2. CASE SendResult(a)
      <4>1. ans[a].id \in Invokes /\ ans[a].pc = "send" /\ channel[ans[a].id] = "empty"
        BY <3>2 DEF SendResult, OnePlace
      <4> QED
        BY <3>2, <4>1 DEF SendResult, TypeOK
    <3> QED
      BY <1>2, <3>1, <3>2 DEF AnswerStep, Take, PutBack
  <2> QED
    BY <1>0, <2>1, <2>2, <2>3 DEF AnswersHeard
<1>3. ASSUME NEW a \in Answers, NEW i \in Invokes, NEW n \in Nodes, Submit(a, i, n)
      PROVE  AnswersHeard'
  <2>1. UNCHANGED <<pc, channel>> /\ (n = TargetOf[i] => i \in Heard)
    BY <1>3 DEF Submit, Heard
  <2>2. /\ \A b \in Answers : b # a => ans'[b] = ans[b]
        /\ ans'[a].pc = "take" /\ ans'[a].id = i /\ ans'[a].node = n
    BY <1>3, SubmitMoves
  <2> QED
    BY <1>0, <2>1, <2>2 DEF AnswersHeard
<1>4. ASSUME NEW c \in Conns, CancelInvokes(c) PROVE AnswersHeard'
  <2>1. /\ pc' = pc /\ ans' = ans
        /\ \A i \in Invokes : channel'[i] # channel[i] =>
             channel'[i] = "disconnected" /\ pc[i] \in {"send", "wait"}
    BY <1>4 DEF CancelInvokes, Listening
  <2> QED
    BY <1>0, <2>1 DEF AnswersHeard
<1>5. ASSUME NEW c \in Conns, Deliver(c) PROVE AnswersHeard'
  BY <1>0, <1>5 DEF Deliver, AnswersHeard
<1>6. CASE UNCHANGED <<pending, pc, channel, reached, ans, forgotten>>
  BY <1>0, <1>6 DEF AnswersHeard
<1> QED
  BY <1>1, <1>2, <1>3, <1>4, <1>5, <1>6, OtherSteps

LEMMA ReachableInductive ==
  TypeOK /\ OnePlace /\ CallerReachable /\ [Next]_vars => CallerReachable'
<1> SUFFICES ASSUME TypeOK, OnePlace, CallerReachable, [Next]_vars,
                    NEW i \in Invokes, Listening(i)', channel'[i] = "empty"
             PROVE  i \in pending' \/ \E a \in Answers : Holds(a, i)'
  BY DEF CallerReachable
<1>1. ASSUME NEW j \in Invokes, CallStep(j) \/ Drop(j) PROVE i \in pending' \/ \E a \in Answers : Holds(a, i)'
  <2>1. ans' = ans /\ channel' = channel /\ \A k \in Invokes : k # j => pc'[k] = pc[k]
    BY <1>1, CallMoves
  <2>2. CASE Register(j) /\ i = j
    BY <1>1, <2>2, CallMoves
  <2>3. CASE ~(Register(j) /\ i = j)
    <3>1. Listening(i)
      BY <1>1, <2>1, <2>3, CallMoves DEF CallStep, Listening
    <3>2. i \in pending => i \in pending'
      <4>1. i = j => ~Expire(j)
        BY <1>1, CallMoves DEF Listening
      <4> QED
        BY <1>1, <4>1, CallMoves DEF CallStep
    <3> QED
      BY <2>1, <3>1, <3>2 DEF CallerReachable, Holds
  <2> QED
    BY <2>2, <2>3
<1>2. ASSUME NEW a \in Answers, AnswerStep(a) PROVE i \in pending' \/ \E b \in Answers : Holds(b, i)'
  <2>1. /\ \A b \in Answers : b # a => ans'[b] = ans[b]
        /\ ans'[a].id = ans[a].id /\ ans[a].pc \in {"take", "putback", "send"}
    BY <1>2, AnswerMoves DEF AnswerStep
  <2>2. pc' = pc /\ Listening(i) /\ channel[i] = "empty"
    <3>1. pc' = pc
      BY <1>2 DEF AnswerStep, Take, PutBack, SendResult
    <3>2. channel'[i] = channel[i] \/ channel'[i] = "answer"
      BY <1>2 DEF AnswerStep, Take, PutBack, SendResult, TypeOK
    <3> QED
      BY <3>1, <3>2 DEF Listening
  <2>3. i \in pending \/ \E b \in Answers : Holds(b, i)
    BY <2>2 DEF CallerReachable
  <2>4. CASE Take(a)
    <3>1. pending' = pending \ {ans[a].id} /\ (ans[a].id \in pending => ans'[a].pc \in {"send", "putback"})
      BY <1>2, <2>4, AnswerMoves DEF Take
    <3>2. ans[a].pc = "take"
      BY <2>4 DEF Take
    <3> QED
      BY <2>1, <2>3, <3>1, <3>2 DEF Holds
  <2>5. CASE PutBack(a)
    <3>1. pending' = pending \cup {ans[a].id}
      BY <2>5 DEF PutBack
    <3> QED
      BY <2>1, <2>3, <3>1 DEF Holds
  <2>6. CASE SendResult(a)
    <3>1. pending' = pending /\ ans[a].id # i
      BY <2>2, <2>6 DEF SendResult, TypeOK
    <3> QED
      BY <2>1, <2>3, <3>1 DEF Holds
  <2> QED
    BY <1>2, <2>4, <2>5, <2>6 DEF AnswerStep
<1>3. ASSUME NEW a \in Answers, NEW j \in Invokes, NEW n \in Nodes, Submit(a, j, n)
      PROVE  i \in pending' \/ \E b \in Answers : Holds(b, i)'
  <2>1. UNCHANGED <<pending, pc, channel>>
    BY <1>3 DEF Submit
  <2>2. /\ \A b \in Answers : b # a => ans'[b] = ans[b]
        /\ ans[a].pc = "new"
    BY <1>3, SubmitMoves
  <2> QED
    BY <2>1, <2>2 DEF CallerReachable, Listening, Holds
<1>4. ASSUME NEW c \in Conns, CancelInvokes(c) PROVE i \in pending' \/ \E a \in Answers : Holds(a, i)'
  <2>1. /\ pc' = pc /\ ans' = ans
        /\ i \in pending => i \in pending' \/ channel'[i] = "disconnected"
        /\ channel'[i] = "empty" => channel[i] = "empty"
    BY <1>4 DEF CancelInvokes, Listening
  <2> QED
    BY <2>1 DEF CallerReachable, Listening, Holds
<1>5. ASSUME NEW c \in Conns, Deliver(c) PROVE i \in pending' \/ \E a \in Answers : Holds(a, i)'
  BY <1>5 DEF Deliver, CallerReachable, Listening, Holds
<1>6. CASE UNCHANGED <<pending, pc, channel, reached, ans, forgotten>>
  BY <1>6 DEF CallerReachable, Listening, Holds
<1> QED
  BY <1>1, <1>2, <1>3, <1>4, <1>5, <1>6, OtherSteps

Left(i) == \/ pc[i] = "expired" \/ i \in forgotten
           \/ pc[i] = "dropped" /\ i \in ToolCalls

LEMMA EntriesInductive ==
  TypeOK /\ OnePlace /\ EntriesOutliveNobody /\ [Next]_vars => EntriesOutliveNobody'
<1> SUFFICES ASSUME TypeOK, OnePlace, EntriesOutliveNobody, [Next]_vars,
                    NEW i \in Invokes, i \in pending'
             PROVE  Listening(i)' \/ Left(i)'
  BY DEF EntriesOutliveNobody, Left
<1>1. ASSUME NEW j \in Invokes, CallStep(j) \/ Drop(j)
      PROVE  Listening(i)' \/ Left(i)'
  <2>1. forgotten' = forgotten /\ \A k \in Invokes : k # j => pc'[k] = pc[k]
    BY <1>1, CallMoves
  <2>2. CASE i # j
    <3>1. i \in pending
      BY <1>1, <2>2, CallMoves DEF CallStep
    <3> QED
      BY <2>1, <2>2, <3>1 DEF EntriesOutliveNobody, Left, Listening
  <2>3. CASE i = j
    <3>1. ~Expire(j)
      BY <1>1, <2>3, CallMoves
    <3>2. CASE Register(j)
      BY <1>1, <2>3, <3>2, CallMoves DEF Left, Listening
    <3>3. CASE ~Register(j) /\ ~Drop(j)
      <4>1. i \in pending /\ pc[i] \notin Early /\ channel[i] = "empty"
        <5>1. i \in pending
          BY <1>1, <2>3, <3>1, <3>3, CallMoves DEF CallStep
        <5> QED
          BY <5>1 DEF OnePlace, Early
      <4>2. Requested(j) \/ Elapse(j)
        BY <1>1, <2>3, <3>1, <3>3, <4>1, CallMoves DEF CallStep, Early
      <4> QED
        BY <1>1, <2>3, <4>2, CallMoves DEF Left, Listening
    <3>4. CASE Drop(j)
      <4>1. i \in pending /\ pc[i] \notin Early
        <5>1. i \in pending
          BY <2>3, <3>4, CallMoves
        <5> QED
          BY <5>1 DEF OnePlace, Early
      <4> QED
        BY <2>3, <3>4, <4>1, CallMoves DEF Left, Early
    <3> QED
      BY <3>2, <3>3, <3>4
  <2> QED
    BY <2>2, <2>3
<1>2. ASSUME NEW a \in Answers, AnswerStep(a)
      PROVE  Listening(i)' \/ Left(i)'
  <2>1. pc' = pc
    BY <1>2 DEF AnswerStep, Take, PutBack, SendResult
  <2>2. CASE i \in pending /\ forgotten \subseteq forgotten'
    BY <2>1, <2>2 DEF EntriesOutliveNobody, Left, Listening
  <2>3. CASE PutBack(a) /\ i \notin pending
    <3>1. ans[a].id = i
      BY <2>3 DEF PutBack
    <3> QED
      BY <2>1, <2>3, <3>1 DEF PutBack, Left, Listening
  <2> QED
    BY <1>2, <2>2, <2>3 DEF AnswerStep, Take, PutBack, SendResult
<1>3. ASSUME NEW a \in Answers, NEW j \in Invokes, NEW n \in Nodes, Submit(a, j, n)
      PROVE  Listening(i)' \/ Left(i)'
  BY <1>3 DEF Submit, EntriesOutliveNobody, Left, Listening
<1>4. ASSUME NEW c \in Conns, CancelInvokes(c)
      PROVE  Listening(i)' \/ Left(i)'
  BY <1>4 DEF CancelInvokes, EntriesOutliveNobody, Left, Listening
<1>5. ASSUME NEW c \in Conns, Deliver(c)
      PROVE  Listening(i)' \/ Left(i)'
  BY <1>5 DEF Deliver, EntriesOutliveNobody, Left, Listening
<1>6. CASE UNCHANGED <<pending, pc, channel, reached, ans, forgotten>>
  BY <1>6 DEF EntriesOutliveNobody, Left, Listening
<1> QED
  BY <1>1, <1>2, <1>3, <1>4, <1>5, <1>6, OtherSteps

-----------------------------------------------------------------------------
(* The invariant, and what follows from it.                                *)

LEMMA InitHolds == Init => IInv
<1> SUFFICES ASSUME Init PROVE IInv
  OBVIOUS
<1> USE OutboundAssumption, NodeAssumption
        DEF OutboundAssumption, NodeAssumption, Init, OutboundInit
<1>1. TypeOK
  <2>1. <<>> \in Seq(Senders \cup {CloseFrame})
    OBVIOUS
  <2>2. OutboundTypeOK
    BY <2>1 DEF OutboundTypeOK
  <2> QED
    BY <2>2 DEF TypeOK, NewAnswer, AnswerTasks
<1>2. Requesting /\ Travelling /\ Reading
  BY DEF Requesting, Travelling, Reading, Sending
<1>3. BytesAccounted /\ RoomTaken
  <2>1. ASSUME NEW c \in Conns
        PROVE  /\ Texts(c) = {} /\ Writing(c) = 0 /\ Promised(c) = {} /\ Fitting(c) = {}
               /\ queued[c] = 0 /\ task[c] = "run"
    BY <2>1 DEF Texts, Writing, Promised, Fitting
  <2> HIDE DEF Init
  <2>2. Cardinality({}) = 0
    BY FS_EmptySet
  <2>3. ASSUME NEW c \in Conns
        PROVE  /\ queued[c] = 0 /\ task[c] = "run"
               /\ Cardinality(Texts(c)) + Writing(c) + Cardinality(Promised(c)) = 0
               /\ Cardinality(Texts(c)) + Writing(c) + Cardinality(Fitting(c)) = 0
    <3>1. /\ Cardinality(Texts(c)) = 0 /\ Cardinality(Promised(c)) = 0
          /\ Cardinality(Fitting(c)) = 0
      BY <2>1, <2>2
    <3> QED
      BY <2>1, <3>1
  <2>4. MaxBuffered \in Nat
    OBVIOUS
  <2> QED
    BY <2>3, <2>4 DEF BytesAccounted, RoomTaken
<1>4. OnePlace /\ AnswersHeard
  BY DEF OnePlace, AnswersHeard, NewAnswer
<1>5. CallerReachable /\ EntriesOutliveNobody
  BY DEF CallerReachable, EntriesOutliveNobody, Listening
<1> QED
  BY <1>1, <1>2, <1>3, <1>4, <1>5 DEF IInv

LEMMA StepHolds == IInv /\ [Next]_vars => IInv'
<1> SUFFICES ASSUME IInv, [Next]_vars PROVE IInv'
  OBVIOUS
<1>1. TypeOK' /\ Requesting'
  BY TypeInductive, RequestingInductive DEF IInv
<1>2. BytesAccounted' /\ RoomTaken' /\ Travelling' /\ Reading'
  BY AccountsInductive, TravellingInductive, ReadingInductive DEF IInv
<1>3. OnePlace' /\ AnswersHeard'
  BY OnePlaceInductive, AnswersHeardInductive DEF IInv
<1>4. CallerReachable' /\ EntriesOutliveNobody'
  BY ReachableInductive, EntriesInductive DEF IInv
<1> QED
  BY <1>1, <1>2, <1>3, <1>4 DEF IInv

LEMMA Invariance == Spec => []IInv
  BY InitHolds, StepHolds, PTL DEF Spec

\* Every variable keeps its type; in particular no counter of buffered frames
\* becomes negative.
THEOREM TypeCorrect == Spec => []TypeOK
<1>1. IInv => TypeOK
  BY DEF IInv
<1> QED
  BY <1>1, Invariance, PTL

\* fetch_add and the saturating fetch_update of any number of tasks that send,
\* give up and write keep queued_bytes equal to what is buffered or promised; once
\* the close frame has reset it, it never counts more than that.
THEOREM Accounted == Spec => []BytesAccounted
<1>1. IInv => BytesAccounted
  BY DEF IInv
<1> QED
  BY <1>1, Invariance, PTL

\* What the sender task still has to write never exceeds the limit before the
\* counter is reset, and after that only by the frames of the tasks that were past
\* the closing check.
THEOREM Bounded == Spec => []BufferBounded
<1>1. IInv => BufferBounded
  <2> SUFFICES ASSUME IInv, NEW c \in Conns
               PROVE  /\ Counting(c) => Cardinality(Texts(c)) + Writing(c) <= MaxBuffered
                      /\ task[c] = "reset" =>
                           Cardinality(Texts(c)) + Writing(c) <= MaxBuffered + Cardinality(late[c])
    BY DEF BufferBounded
  <2>1. /\ Counting(c) => Room(c) <= MaxBuffered
        /\ task[c] = "reset" => Room(c) + Cardinality(Entering(c)) <= MaxBuffered + Cardinality(late[c])
    BY DEF IInv, RoomTaken, Room
  <2>2. /\ Cardinality(Texts(c)) \in Nat /\ Writing(c) \in Nat /\ MaxBuffered \in Nat
        /\ Cardinality(Fitting(c)) \in Nat /\ Cardinality(Entering(c)) \in Nat
        /\ Cardinality(late[c]) \in Nat
    BY AccountsTypes DEF IInv, TypeOK
  <2> QED
    BY <2>1, <2>2 DEF Room
<1> QED
  BY <1>1, Invariance, PTL

\* A caller that waits is in the table or in the hands of one answer, although
\* an answer of a wrong node takes the entry out and puts it back later.
THEOREM Reachable == Spec => []CallerReachable
<1>1. IInv => CallerReachable
  BY DEF IInv
<1> QED
  BY <1>1, Invariance, PTL

\* However many nodes answer, one answer is accepted.
THEOREM AnsweredOnce == Spec => []OneAnswerAccepted
<1>1. IInv => OneAnswerAccepted
  <2> SUFFICES ASSUME IInv PROVE OneAnswerAccepted
    OBVIOUS
  <2>1. OnePlace /\ AnswersHeard
    BY DEF IInv
  <2>2. \A a, b \in Answers :
          ans[a].pc \in {"send", "accepted"} /\ ans[b].pc \in {"send", "accepted"} /\ ans[a].id = ans[b].id
            => a = b
    BY <2>1 DEF OnePlace
  <2>3. \A a \in Answers : ans[a].pc \in {"send", "accepted"} =>
          ans[a].id \notin pending /\ pc[ans[a].id] # "cancelled"
    BY <2>1 DEF OnePlace, AnswersHeard
  <2> QED
    BY <2>2, <2>3 DEF OneAnswerAccepted
<1> QED
  BY <1>1, Invariance, PTL

\* The table forgets a caller that has left, except after a late put-back and when
\* the caller was dropped with its agent run.
THEOREM EntriesEnd == Spec => []EntriesOutliveNobody
<1>1. IInv => EntriesOutliveNobody
  BY DEF IInv
<1> QED
  BY <1>1, Invariance, PTL

-----------------------------------------------------------------------------
(* The refinement.                                                         *)

\* A step of a caller ends its call, opens it or does not show.
LEMMA CallRefines ==
  ASSUME IInv, NEW i \in Invokes, CallStep(i) \/ Drop(i)
  PROVE  Abstract!Next \/ UNCHANGED Abstract!vars
<1>1. TypeOK /\ AnswersHeard
  BY DEF IInv
<1>2. Heard' = Heard
  BY <1>1, CallMoves DEF Heard
<1>3. pc \in [Invokes -> {"find", "register", "send", "wait", "expired"} \cup Ended]
  BY <1>1 DEF TypeOK
<1>4. CASE FindClient(i)
  <2>1. pc[i] = "find" /\ \E label \in {"register", "refused"} : pc' = [pc EXCEPT ![i] = label]
    BY <1>4 DEF FindClient, Goto
  <2>2. CallState[i] = "idle" /\ \E state \in {"open", "failed"} : CallState' = [CallState EXCEPT ![i] = state]
    BY <1>3, <2>1 DEF CallState
  <2> QED
    BY <1>2, <2>2 DEF Abstract!Next, Abstract!Open
<1>5. CASE Register(i) \/ Requested(i) \/ Elapse(i)
  <2>1. /\ pc[i] \in {"register", "send", "wait"}
        /\ \E label \in {"send", "wait", "expired"} : pc' = [pc EXCEPT ![i] = label]
    BY <1>5 DEF Register, Requested, Elapse, Goto
  <2>2. CallState' = CallState
    BY <1>3, <2>1 DEF CallState
  <2> QED
    BY <1>2, <2>2 DEF Abstract!vars
<1>6. CASE Receive(i)
  <2>1. pc[i] = "wait" /\ pc' = [pc EXCEPT ![i] = IF channel[i] = "answer" THEN "answered" ELSE "cancelled"]
    BY <1>6 DEF Receive, Goto
  <2>2. CASE channel[i] = "answer"
    <3>1. CallState[i] = "open" /\ CallState' = [CallState EXCEPT ![i] = "answered"]
      BY <1>3, <2>1, <2>2 DEF CallState
    <3>2. i \in Heard
      BY <1>1, <2>2 DEF AnswersHeard
    <3> QED
      BY <1>2, <3>1, <3>2 DEF Abstract!Next, Abstract!Answer
  <2>3. CASE channel[i] # "answer"
    <3>1. CallState[i] = "open" /\ CallState' = [CallState EXCEPT ![i] = "failed"]
      BY <1>3, <2>1, <2>3 DEF CallState
    <3> QED
      BY <1>2, <3>1 DEF Abstract!Next, Abstract!Fail
  <2> QED
    BY <2>2, <2>3
<1>7. CASE Expire(i)
  <2>1. pc[i] = "expired" /\ pc' = [pc EXCEPT ![i] = "timeout"]
    BY <1>7 DEF Expire, Goto
  <2>2. CallState[i] = "open" /\ CallState' = [CallState EXCEPT ![i] = "failed"]
    BY <1>3, <2>1 DEF CallState
  <2> QED
    BY <1>2, <2>2 DEF Abstract!Next, Abstract!Fail
<1>8. CASE Drop(i)
  <2>1. \/ pc[i] \in {"find", "register"} /\ pc' = [pc EXCEPT ![i] = "refused"]
        \/ pc[i] \in {"wait", "expired"} /\ pc' = [pc EXCEPT ![i] = "dropped"]
    BY <1>8 DEF Drop, Goto
  <2>2. CallState[i] \in {"idle", "open"} /\ CallState' = [CallState EXCEPT ![i] = "failed"]
    BY <1>3, <2>1 DEF CallState
  <2> QED
    BY <1>2, <2>2 DEF Abstract!Next, Abstract!Open, Abstract!Fail
<1> QED
  BY <1>4, <1>5, <1>6, <1>7, <1>8 DEF CallStep

\* A request that a node reads was sent for a call that is not idle.
LEMMA DeliverRefines ==
  ASSUME IInv, NEW c \in Conns, Deliver(c)
  PROVE  Abstract!Next \/ UNCHANGED Abstract!vars
<1> USE NodeAssumption DEF NodeAssumption
<1>1. TypeOK /\ Requesting /\ Travelling
  BY DEF IInv
<1>2. CallState' = CallState
  BY DEF Deliver, CallState
<1>3. CASE reached' = reached
  BY <1>2, <1>3 DEF Abstract!vars, Heard
<1>4. CASE reached' # reached
  <2>1. writing[c] \in Invokes /\ reached' = [reached EXCEPT ![c] = @ \cup {writing[c]}]
    BY <1>4 DEF Deliver
  <2>2. Heard' = Heard \cup {writing[c]}
    BY <1>1, <2>1 DEF Heard, TypeOK
  <2>3. sendPc[writing[c]] = "sent"
    BY <1>1, <2>1, OutboundAssumption DEF Travelling, OutboundAssumption
  <2>4. pc[writing[c]] # "find"
    BY <1>1, <2>1, <2>3 DEF Requesting
  <2>5. CallState[writing[c]] # "idle"
    BY <2>1, <2>4 DEF CallState
  <2> QED
    BY <1>2, <2>1, <2>2, <2>5 DEF Abstract!Next, Abstract!Hear
<1> QED
  BY <1>3, <1>4

\* invoke_node_command implements RemoteCall: a call ends once, and an answer
\* comes from a node that read the request.
THEOREM Implements == Spec => ImplementsRemoteCall
<1>1. Init => Abstract!Init
  BY DEF Init, Abstract!Init, CallState, Heard
<1>2. IInv /\ [Next]_vars => [Abstract!Next]_(Abstract!vars)
  <2> SUFFICES ASSUME IInv, [Next]_vars PROVE Abstract!Next \/ UNCHANGED Abstract!vars
    OBVIOUS
  <2>1. ASSUME pc' = pc, reached' = reached PROVE UNCHANGED Abstract!vars
    BY <2>1 DEF Abstract!vars, CallState, Heard
  <2>2. ASSUME NEW a \in Answers, AnswerStep(a) \/ \E i \in Invokes : \E n \in Nodes : Submit(a, i, n)
        PROVE  UNCHANGED Abstract!vars
    BY <2>1, <2>2 DEF AnswerStep, Take, PutBack, SendResult, Submit
  <2>3. ASSUME NEW c \in Conns, CancelInvokes(c) PROVE UNCHANGED Abstract!vars
    BY <2>1, <2>3 DEF CancelInvokes
  <2>4. CASE UNCHANGED <<pending, pc, channel, reached, ans, forgotten>>
    BY <2>1, <2>4
  <2> QED
    BY <2>2, <2>3, <2>4, CallRefines, DeliverRefines, OtherSteps
<1> QED
  BY <1>1, <1>2, Invariance, PTL DEF Spec, ImplementsRemoteCall, Abstract!Spec
=============================================================================
