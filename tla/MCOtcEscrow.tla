---------------------------- MODULE MCOtcEscrow ----------------------------
(* OtcEscrow for TLC: SOL for tokens, tokens for tokens and SOL for SOL, a    *)
(* free leg, and, in a run of its own, one mint on both sides.                *)
EXTENDS OtcEscrow

CONSTANTS usdc, bonk

Terms(x, n, y, k, e) ==
  [owes |-> [A |-> [asset |-> x, amount |-> n], B |-> [asset |-> y, amount |-> k]], expiry |-> e]
MCTerms == {Terms(usdc, 3, SOL, 2, 1), Terms(SOL, 1, usdc, 0, 2), Terms(usdc, 1, bonk, 4, 1),
            Terms(SOL, 2, SOL, 5, 0)}
SameMint == {Terms(usdc, 1, usdc, 2, 1)}
=============================================================================
