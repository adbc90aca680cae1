----------------------------- MODULE MCChatRuns -----------------------------
(* ChatRuns for TLC: two requests with one idempotency key in one session, one *)
(* of them, l, a local command that is kept.                                   *)
EXTENDS ChatRuns

CONSTANTS c, l, run, main

MCRunOf == [s \in Sends |-> run]
MCSessionOf == [s \in Sends |-> main]
MCKind == [s \in Sends |-> IF s = l THEN "remember" ELSE "chat"]
=============================================================================
