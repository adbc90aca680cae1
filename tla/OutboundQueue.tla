--------------------------- MODULE OutboundQueue ---------------------------
(***************************************************************************)
(* The outbound half of a WebSocket connection: openclaw_send_text, which  *)
(* any number of tasks call, and the connection's sender task.  Between    *)
(* them are an unbounded channel, the counter queued_bytes, which limits   *)
(* what the channel may hold, and the flag closing.  Each access to one of *)
(* them is a step of its own.                                              *)
(*                                                                         *)
(* A frame is one unit long and named by the task that sends it.  The text *)
(* of frames, their numbering and the log are left out.                    *)
(***************************************************************************)
EXTENDS Integers, Sequences, FiniteSets

CONSTANTS Conns,        \* connections
          Senders,      \* tasks that send frames
          Droppable,    \* those that send with drop_if_slow
          MaxBuffered,  \* resolve_openclaw_max_buffered_bytes()
          NoConn,
          CloseFrame,   \* OpenclawOutbound::Close
          NoFrame

ASSUME OutboundAssumption ==
  /\ Droppable \subseteq Senders /\ IsFiniteSet(Senders)
  /\ MaxBuffered \in Nat \ {0}
  /\ NoConn \notin Conns
  /\ CloseFrame \notin Senders /\ NoFrame \notin Senders \cup {CloseFrame}

VARIABLES
  queue,    \* the mpsc channel of a connection
  queued,   \* queued_bytes
  closing,  \* the closing flag
  writing,  \* the frame the sender task is writing to the socket
  task,     \* where the sender task, which owns the channel's receiver, is
  late,     \* history: the senders past the check when the counter was reset
  sendPc,   \* where a sending task is inside openclaw_send_text
  via       \* the connection it sends on

outVars == <<queue, queued, closing, writing, task, late, sendPc, via>>

Sending == {"check", "reserve", "enqueue", "release", "refuse", "close"}

OutboundTypeOK ==
  /\ queue \in [Conns -> Seq(Senders \cup {CloseFrame})]
  /\ queued \in [Conns -> Nat]
  /\ closing \in [Conns -> BOOLEAN]
  /\ writing \in [Conns -> Senders \cup {NoFrame}]
  /\ task \in [Conns -> {"run", "close", "reset", "down"}]
  /\ late \in [Conns -> SUBSET Senders]
  /\ sendPc \in [Senders -> {"idle", "sent", "dropped"} \cup Sending]
  /\ via \in [Senders -> Conns \cup {NoConn}]

OutboundInit ==
  /\ queue = [c \in Conns |-> <<>>]
  /\ queued = [c \in Conns |-> 0]
  /\ closing = [c \in Conns |-> FALSE]
  /\ writing = [c \in Conns |-> NoFrame]
  /\ task = [c \in Conns |-> "run"]
  /\ late = [c \in Conns |-> {}]
  /\ sendPc = [s \in Senders |-> "idle"]
  /\ via = [s \in Senders |-> NoConn]

-----------------------------------------------------------------------------
(* openclaw_send_text.                                                     *)

SendGoto(s, label) == sendPc' = [sendPc EXCEPT ![s] = label]

\* saturating_sub: ResetCount clears the counter under the tasks that took room.
Minus(n, m) == IF n >= m THEN n - m ELSE 0

\* The call.
BeginSend(s, c) ==
  /\ sendPc' = [sendPc EXCEPT ![s] = "check"]
  /\ via' = [via EXCEPT ![s] = c]

\* closing is read first, and not looked at again.
CheckClosing(s) ==
  /\ sendPc[s] = "check"
  /\ SendGoto(s, IF closing[via[s]] THEN "dropped" ELSE "reserve")
  /\ UNCHANGED <<queue, queued, closing, writing, task, late, via>>

\* Mutant: the counter is compared first and increased when the frame is queued.
CompareOnly(s) ==
  /\ sendPc[s] = "reserve"
  /\ SendGoto(s, IF queued[via[s]] + 1 > MaxBuffered THEN "release" ELSE "enqueue")
  /\ UNCHANGED <<queue, queued, closing, writing, task, late, via>>

\* fetch_add: the frame's room is taken before it is known to be there.
Reserve(s) ==
  /\ sendPc[s] = "reserve"
  /\ queued' = [queued EXCEPT ![via[s]] = @ + 1]
  /\ SendGoto(s, IF queued'[via[s]] > MaxBuffered THEN "release" ELSE "enqueue")
  /\ UNCHANGED <<queue, closing, writing, task, late, via>>

\* tx.send fails when the sender task is gone.
Enqueue(s) ==
  /\ sendPc[s] = "enqueue"
  /\ LET c == via[s]
     IN \/ /\ task[c] # "down"
           /\ queue' = [queue EXCEPT ![c] = Append(@, s)]
           /\ SendGoto(s, "sent")
           /\ UNCHANGED queued
        \/ /\ task[c] = "down"
           /\ queued' = [queued EXCEPT ![c] = Minus(@, 1)]
           /\ SendGoto(s, "dropped")
           /\ UNCHANGED queue
  /\ UNCHANGED <<closing, writing, task, late, via>>

\* Mutant: the room that was not there is not given back.
KeepReservation(s) ==
  /\ sendPc[s] = "release"
  /\ SendGoto(s, IF s \in Droppable THEN "dropped" ELSE "refuse")
  /\ UNCHANGED <<queue, queued, closing, writing, task, late, via>>

\* The frame does not fit: its room is given back ...
Release(s) ==
  /\ sendPc[s] = "release"
  /\ queued' = [queued EXCEPT ![via[s]] = Minus(@, 1)]
  /\ SendGoto(s, IF s \in Droppable THEN "dropped" ELSE "refuse")
  /\ UNCHANGED <<queue, closing, writing, task, late, via>>

\* ... and openclaw_request_close, "slow consumer", is called: the first caller
\* that sets closing ...
Refuse(s) ==
  /\ sendPc[s] = "refuse"
  /\ closing' = [closing EXCEPT ![via[s]] = TRUE]
  /\ SendGoto(s, IF closing[via[s]] THEN "dropped" ELSE "close")
  /\ UNCHANGED <<queue, queued, writing, task, late, via>>

\* ... queues the close frame, behind what others queued meanwhile.
RequestClose(s) ==
  /\ sendPc[s] = "close"
  /\ LET c == via[s]
     IN queue' = IF task[c] = "down" THEN queue ELSE [queue EXCEPT ![c] = Append(@, CloseFrame)]
  /\ SendGoto(s, "dropped")
  /\ UNCHANGED <<queued, closing, writing, task, late, via>>

-----------------------------------------------------------------------------
(* The sender task of a connection.                                        *)

\* rx.recv() yields a text: the task starts to write it.
TakeFrame(c) ==
  /\ task[c] = "run" /\ writing[c] = NoFrame /\ queue[c] # <<>>
  /\ Head(queue[c]) # CloseFrame
  /\ writing' = [writing EXCEPT ![c] = Head(queue[c])]
  /\ queue' = [queue EXCEPT ![c] = Tail(@)]
  /\ UNCHANGED <<queued, closing, task, late, sendPc, via>>

\* The socket took the frame: only now its room is free again.
FrameWritten(c) ==
  /\ task[c] = "run" /\ writing[c] # NoFrame
  /\ writing' = [writing EXCEPT ![c] = NoFrame]
  /\ queued' = [queued EXCEPT ![c] = Minus(@, 1)]
  /\ UNCHANGED <<queue, closing, task, late, sendPc, via>>

\* The socket failed: the task ends, and what is queued is dropped.
SocketFails(c) ==
  /\ task[c] = "run" /\ writing[c] # NoFrame
  /\ task' = [task EXCEPT ![c] = "down"]
  /\ writing' = [writing EXCEPT ![c] = NoFrame]
  /\ queue' = [queue EXCEPT ![c] = <<>>]
  /\ UNCHANGED <<queued, closing, late, sendPc, via>>

\* rx.recv() yields the close frame ...
TakeClose(c) ==
  /\ task[c] = "run" /\ writing[c] = NoFrame /\ queue[c] # <<>>
  /\ Head(queue[c]) = CloseFrame
  /\ task' = [task EXCEPT ![c] = "close"]
  /\ queue' = [queue EXCEPT ![c] = Tail(@)]
  /\ closing' = [closing EXCEPT ![c] = TRUE]
  /\ UNCHANGED <<queued, writing, late, sendPc, via>>

\* The tasks that may still add to the counter when nobody passes the check.
Entering(c) == {s \in Senders : via[s] = c /\ sendPc[s] = "reserve"}

\* ... the counter is reset, whatever is queued or about to be ...
ResetCount(c) ==
  /\ task[c] = "close"
  /\ task' = [task EXCEPT ![c] = "reset"]
  /\ queued' = [queued EXCEPT ![c] = 0]
  /\ late' = [late EXCEPT ![c] = Entering(c)]
  /\ UNCHANGED <<queue, closing, writing, sendPc, via>>

\* ... and once the socket took the close frame, or failed, the task ends: the
\* receiver is dropped with what is queued.
CloseWritten(c) ==
  /\ task[c] = "reset"
  /\ task' = [task EXCEPT ![c] = "down"]
  /\ queue' = [queue EXCEPT ![c] = <<>>]
  /\ UNCHANGED <<queued, closing, writing, late, sendPc, via>>

SendStep(s) == \/ CheckClosing(s) \/ Reserve(s) \/ Enqueue(s) \/ Release(s)
               \/ Refuse(s) \/ RequestClose(s)
SenderTask(c) == \/ TakeFrame(c) \/ FrameWritten(c) \/ SocketFails(c)
                 \/ TakeClose(c) \/ ResetCount(c) \/ CloseWritten(c)

-----------------------------------------------------------------------------
(* Properties.                                                             *)

Texts(c) == {n \in DOMAIN queue[c] : queue[c][n] # CloseFrame}
Writing(c) == IF writing[c] = NoFrame THEN 0 ELSE 1
Promised(c) == {s \in Senders : via[s] = c /\ sendPc[s] \in {"enqueue", "release"}}
Counting(c) == task[c] \in {"run", "close"}

\* Until the close frame resets it, queued_bytes is what the channel holds, what
\* is being written and the room taken by tasks that have not queued their frame
\* or given it back yet, whatever the order of their steps.  After the reset it
\* is never more: no room is lost, but what was queued before is not counted.
BytesAccounted ==
  \A c \in Conns :
    LET held == Cardinality(Texts(c)) + Writing(c) + Cardinality(Promised(c))
    IN /\ Counting(c) => queued[c] = held
       /\ task[c] = "reset" => queued[c] <= held

\* The limit holds for what is really buffered, however many tasks send at once,
\* until the reset.  Then only the tasks that were past the closing check may
\* exceed it, by a frame each, until the receiver is dropped.
BufferBounded ==
  \A c \in Conns :
    LET buffered == Cardinality(Texts(c)) + Writing(c)
    IN /\ Counting(c) => buffered <= MaxBuffered
       /\ task[c] = "reset" => buffered <= MaxBuffered + Cardinality(late[c])
=============================================================================
