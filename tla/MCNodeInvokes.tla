--------------------------- MODULE MCNodeInvokes ---------------------------
(* NodeInvokes for TLC: a node that reconnects while its first connection is *)
(* not yet known to be dead, an invocation that may be sent on either of them *)
(* and, on the first, a tick and a chat delta.                               *)
EXTENDS NodeInvokes

CONSTANTS i1, c1, c2, n1, n2, a1, a2, tick, delta

MCTargetOf == [i \in Invokes |-> n1]
MCNodeOf == [c \in Conns |-> n1]
MCCarrierOf == [s \in Senders \ Invokes |-> c1]
=============================================================================
