----------------------------- MODULE MCOtcTrade -----------------------------
\* The trader sells lamports for tokens until time 0.
EXTENDS OtcTrade

Lamports == "SOL"
SolForUsdc ==
  {[owes |-> [p \in Parties |-> IF p = "A" THEN [asset |-> Lamports, amount |-> 2]
                                ELSE [asset |-> "usdc", amount |-> 3]],
    expiry |-> 0]}
=============================================================================
