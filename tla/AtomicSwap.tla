----------------------------- MODULE AtomicSwap -----------------------------
(***************************************************************************)
(* What an OTC escrow promises: once two parties have agreed on a deal,    *)
(* either both legs change hands in one step or nothing does, and a deal   *)
(* that is over stays over.  owned is what each party has gained, counting *)
(* what it has deposited, or paid as rent, as its own.                     *)
(***************************************************************************)
EXTENDS Integers

CONSTANTS Parties, Assets, Deals, Leg(_, _, _), Other(_)

VARIABLES outcome, deal, owned

Init ==
  /\ outcome = "none"
  /\ deal \in Deals
  /\ owned = [p \in Parties |-> [x \in Assets |-> 0]]

Agree ==
  /\ outcome = "none" /\ outcome' = "open"
  /\ deal' \in Deals
  /\ UNCHANGED owned

\* Each party gives its leg of the deal and gets the other's.
Swap ==
  /\ outcome = "open" /\ outcome' = "settled"
  /\ owned' = [p \in Parties |-> [x \in Assets |->
                 owned[p][x] - Leg(deal, p, x) + Leg(deal, Other(p), x)]]
  /\ UNCHANGED deal

CallOff ==
  /\ outcome = "open" /\ outcome' = "cancelled"
  /\ UNCHANGED <<deal, owned>>

Next == Agree \/ Swap \/ CallOff
Spec == Init /\ [][Next]_<<outcome, deal, owned>>
=============================================================================
