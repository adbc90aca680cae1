-------------------------- MODULE MCExecApprovals --------------------------
(* ExecApprovals for TLC: tools writing, each under an id of its own, and     *)
(* clients that choose the same approval id.                                  *)
EXTENDS ExecApprovals

CONSTANTS w1, w2, c1, c2, bash, http, id1, id2, x

MCToolOf == [w \in ToolWrites |-> IF w = w1 THEN bash ELSE http]
MCIdOf == [r \in Requests |-> IF r = w1 THEN id1 ELSE IF r = w2 THEN id2 ELSE x]
MCEdits == {{http}, {bash}}
NoEdits == {}
=============================================================================
