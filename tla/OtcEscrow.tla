------------------------------ MODULE OtcEscrow ------------------------------
(***************************************************************************)
(* The on-chain OTC escrow program, for one negotiation: its instructions, *)
(* the escrow account with its token vaults, and the receipt that outlives *)
(* it.  An instruction runs atomically, and one that fails changes nothing,*)
(* so a failed one is no step.  A closed escrow keeps its data until the   *)
(* transaction ends (Purge): later instructions of that transaction can    *)
(* still name it.  Anybody may pay into the escrow account and its vaults, *)
(* which are ordinary accounts.  Signatures, account lists and address     *)
(* derivation are left out, and so are accounts made at these addresses    *)
(* before the escrow is; that the parties' own token accounts exist and    *)
(* hold what they fund is assumed.                                         *)
(***************************************************************************)
EXTENDS Integers

CONSTANTS Mints, SOL,
          TermsSet,                            \* the terms a CreateEscrow may carry
          EscrowRent, VaultRent, ReceiptRent,  \* rent-exempt minimums
          MaxTime,                             \* bound on the clock
          MaxStray                             \* bound on the units paid in from outside

Parties == {"A", "B"}
Assets == Mints \cup {SOL}
Legs == [asset : Assets, amount : Nat]

ASSUME EscrowAssumption ==
  /\ SOL \notin Mints
  /\ \A t \in TermsSet : t \in [owes : [Parties -> Legs], expiry : Nat]
  /\ EscrowRent \in Nat /\ VaultRent \in Nat /\ ReceiptRent \in Nat
  /\ MaxTime \in Nat /\ MaxStray \in Nat

VARIABLES
  now,      \* the cluster clock
  receipt,  \* the receipt account: "none", or its status
  escrow,   \* the escrow account: "absent", "live", or "closed" until the transaction ends
  terms, refund, funded,  \* its data: the terms, rent_refund, a_funded and b_funded
  pot,      \* what it holds of each asset: its lamports, the vaults' tokens
  vaults,   \* the mints whose vault exists
  wallet,   \* what each party has gained of each asset
  stray,    \* history: what the pot holds that was paid in from outside the trade
  found     \* history: the lamports of that kind that went to rent_refund

data == <<terms, refund, funded>>
outside == <<stray, found>>
vars == <<now, receipt, escrow, data, pot, vaults, wallet, outside>>

Other(p) == IF p = "A" THEN "B" ELSE "A"
Owed(p) == terms.owes[p]
VaultsOf(t) == {t.owes[p].asset : p \in Parties} \ {SOL}

Init ==
  /\ now = 0 /\ receipt = "none" /\ escrow = "absent"
  /\ terms \in TermsSet /\ refund = "A" /\ funded = [p \in Parties |-> FALSE]
  /\ pot = [x \in Assets |-> 0] /\ vaults = {}
  /\ wallet = [p \in Parties |-> [x \in Assets |-> 0]]
  /\ stray = [x \in Assets |-> 0] /\ found = 0

-----------------------------------------------------------------------------
(* Moving assets.  A step of an instruction maps the holdings to new ones,  *)
(* and ok says whether it, and every step before it, succeeds.              *)

Holdings == [pot |-> pot, vaults |-> vaults, wallet |-> wallet, ok |-> TRUE]

Credit(w, p, x, n) == [w EXCEPT ![p][x] = @ + n]

\* transfer_lamports or token_transfer_from_escrow.
Pay(h, leg, to) ==
  [pot |-> [h.pot EXCEPT ![leg.asset] = @ - leg.amount],
   vaults |-> h.vaults,
   wallet |-> Credit(h.wallet, to, leg.asset, leg.amount),
   ok |-> /\ h.ok /\ leg.amount <= h.pot[leg.asset]
          /\ leg.asset = SOL \/ leg.asset \in h.vaults]

\* token_close_from_escrow: only an existing, empty vault can be closed.
CloseVault(h, leg, to) ==
  IF leg.asset = SOL THEN h
  ELSE [pot |-> h.pot,
        vaults |-> h.vaults \ {leg.asset},
        wallet |-> Credit(h.wallet, to, SOL, VaultRent),
        ok |-> h.ok /\ leg.asset \in h.vaults /\ h.pot[leg.asset] = 0]

\* close_account.
CloseEscrow(h, to) ==
  [pot |-> [h.pot EXCEPT ![SOL] = 0], vaults |-> h.vaults,
   wallet |-> Credit(h.wallet, to, SOL, h.pot[SOL]), ok |-> h.ok]

\* Mutant: A's leg is paid back to A.
SettledSelf(h) ==
  LET h1 == CloseVault(Pay(h, Owed("A"), "A"), Owed("A"), refund)
      h2 == CloseVault(Pay(h1, Owed("B"), "A"), Owed("B"), refund)
  IN CloseEscrow(h2, refund)

\* settle: pay each leg to the other party and close its vault.
Settled(h) ==
  LET h1 == CloseVault(Pay(h, Owed("A"), "B"), Owed("A"), refund)
      h2 == CloseVault(Pay(h1, Owed("B"), "A"), Owed("B"), refund)
  IN CloseEscrow(h2, refund)

\* Mutant: B's leg is not refunded.
RefundedToA(h) ==
  LET h1 == IF funded["A"] THEN Pay(h, Owed("A"), "A") ELSE h
      h3 == CloseVault(CloseVault(h1, Owed("A"), refund), Owed("B"), refund)
  IN CloseEscrow(h3, refund)

\* Mutant: the vaults are closed before they are emptied.
RefundedCloseFirst(h) ==
  LET h1 == CloseVault(CloseVault(h, Owed("A"), refund), Owed("B"), refund)
      h2 == IF funded["A"] THEN Pay(h1, Owed("A"), "A") ELSE h1
      h3 == IF funded["B"] THEN Pay(h2, Owed("B"), "B") ELSE h2
  IN CloseEscrow(h3, refund)

\* cancel: return what was funded and close both vaults.
Refunded(h) ==
  LET h1 == IF funded["A"] THEN Pay(h, Owed("A"), "A") ELSE h
      h2 == IF funded["B"] THEN Pay(h1, Owed("B"), "B") ELSE h1
      h3 == CloseVault(CloseVault(h2, Owed("A"), refund), Owed("B"), refund)
  IN CloseEscrow(h3, refund)

\* The funding transfer of a party.
Deposited(p) ==
  [pot |-> [pot EXCEPT ![Owed(p).asset] = @ + Owed(p).amount],
   vaults |-> vaults,
   wallet |-> Credit(wallet, p, Owed(p).asset, -Owed(p).amount),
   ok |-> TRUE]

Apply(h) == /\ h.ok
            /\ pot' = h.pot /\ vaults' = h.vaults /\ wallet' = h.wallet

\* The escrow account is closed, and stray lamports are paid out with the rest.
Close ==
  /\ escrow' = "closed"
  /\ found' = found + stray[SOL] /\ stray' = [stray EXCEPT ![SOL] = 0]

-----------------------------------------------------------------------------
(* The instructions.                                                       *)

\* The rents a creator pays and gets back when the escrow closes.
Deposit(t) == EscrowRent + (IF t.owes["A"].asset = SOL THEN 0 ELSE VaultRent)
              + (IF t.owes["B"].asset \in {SOL, t.owes["A"].asset} THEN 0 ELSE VaultRent)

\* Mutant: only A's vault is created.
CreateOneVault(p, t) ==
  /\ receipt \in {"none", "open"} /\ escrow = "absent"
  /\ receipt' = "open" /\ escrow' = "live"
  /\ terms' = t /\ refund' = p /\ funded' = [q \in Parties |-> FALSE]
  /\ pot' = [pot EXCEPT ![SOL] = EscrowRent]
  /\ vaults' = {t.owes["A"].asset} \ {SOL}
  /\ wallet' = [wallet EXCEPT ![p][SOL] =
                  @ - Deposit(t) - (IF receipt = "none" THEN ReceiptRent ELSE 0)]
  /\ UNCHANGED <<now, outside>>

\* create_escrow; on a live escrow it changes nothing.
CreateEscrow(p, t) ==
  /\ receipt \in {"none", "open"} /\ escrow = "absent"
  /\ receipt' = "open" /\ escrow' = "live"
  /\ terms' = t /\ refund' = p /\ funded' = [q \in Parties |-> FALSE]
  /\ pot' = [pot EXCEPT ![SOL] = EscrowRent] /\ vaults' = VaultsOf(t)
  /\ wallet' = [wallet EXCEPT ![p][SOL] =
                  @ - Deposit(t) - (IF receipt = "none" THEN ReceiptRent ELSE 0)]
  /\ UNCHANGED <<now, outside>>

\* Mutant: a party may fund its leg again.
FundAgain(p) ==
  /\ escrow # "absent" /\ receipt = "open"
  /\ now <= terms.expiry
  /\ funded' = [funded EXCEPT ![p] = TRUE]
  /\ IF funded'[Other(p)]
     THEN Apply(Settled(Deposited(p))) /\ receipt' = "settled" /\ Close
     ELSE Apply(Deposited(p)) /\ UNCHANGED <<receipt, escrow, outside>>
  /\ UNCHANGED <<now, terms, refund>>

\* fund: the second funding settles and closes the escrow.
Fund(p) ==
  /\ escrow # "absent" /\ receipt = "open"
  /\ now <= terms.expiry /\ ~funded[p]
  /\ funded' = [funded EXCEPT ![p] = TRUE]
  /\ IF funded[Other(p)]
     THEN Apply(Settled(Deposited(p))) /\ receipt' = "settled" /\ Close
     ELSE Apply(Deposited(p)) /\ UNCHANGED <<receipt, escrow, outside>>
  /\ UNCHANGED <<now, terms, refund>>

\* cancel: either party, at any time before the second funding.
Cancel ==
  /\ escrow # "absent" /\ receipt = "open"
  /\ \E p \in Parties : ~funded[p]
  /\ Apply(Refunded(Holdings))
  /\ receipt' = "cancelled" /\ Close
  /\ UNCHANGED <<now, data>>

\* A payment from outside the trade, by anybody, to the escrow account or a vault.
Stray(x) ==
  /\ (x = SOL /\ escrow # "absent") \/ x \in vaults
  /\ stray[x] < MaxStray
  /\ stray' = [stray EXCEPT ![x] = @ + 1] /\ pot' = [pot EXCEPT ![x] = @ + 1]
  /\ UNCHANGED <<now, receipt, escrow, data, vaults, wallet, found>>

\* The transaction ends: an account without lamports disappears.
Purge ==
  /\ escrow = "closed" /\ pot[SOL] = 0 /\ escrow' = "absent"
  /\ UNCHANGED <<now, receipt, data, pot, vaults, wallet, outside>>

Tick ==
  /\ now < MaxTime /\ now' = now + 1
  /\ UNCHANGED <<receipt, escrow, data, pot, vaults, wallet, outside>>

Next ==
  \/ \E p \in Parties : Fund(p) \/ \E t \in TermsSet : CreateEscrow(p, t)
  \/ Cancel \/ Purge \/ Tick \/ \E x \in Assets : Stray(x)

Spec == Init /\ [][Next]_vars

-----------------------------------------------------------------------------
(* Properties.                                                             *)

TypeOK ==
  /\ now \in Nat /\ receipt \in {"none", "open", "settled", "cancelled"}
  /\ escrow \in {"absent", "live", "closed"}
  /\ terms \in TermsSet /\ refund \in Parties /\ funded \in [Parties -> BOOLEAN]
  /\ pot \in [Assets -> Nat] /\ vaults \subseteq Mints
  /\ wallet \in [Parties -> [Assets -> Int]]
  /\ stray \in [Assets -> Nat] /\ found \in Nat

\* The escrow is live exactly while its receipt is open, and is never fully
\* funded: the second funding leaves nothing that could be cancelled.
LiveIffOpen ==
  /\ escrow = "live" <=> receipt = "open"
  /\ escrow = "live" => \E p \in Parties : ~funded[p]

\* What a party's leg takes of an asset.
Leg(t, p, x) == IF t.owes[p].asset = x THEN t.owes[p].amount ELSE 0
InEscrow(p, x) == IF escrow = "live" /\ funded[p] THEN Leg(terms, p, x) ELSE 0

\* The escrow holds its rent, the funded legs and what was paid in from outside, and
\* nothing else.  When it is over its vaults are closed and no token is left in them,
\* and an account that is gone holds no lamports; stray ones are paid out only then.
Backed ==
  /\ vaults = IF escrow = "live" THEN VaultsOf(terms) ELSE {}
  /\ \A x \in Assets :
       pot[x] = InEscrow("A", x) + InEscrow("B", x) + stray[x]
                + (IF x = SOL /\ escrow = "live" THEN EscrowRent ELSE 0)
  /\ \A m \in Mints : m \notin vaults => pot[m] = 0
  /\ escrow = "absent" => pot[SOL] = 0
  /\ receipt \in {"none", "open"} => found = 0

\* What a party has locked up as rent: all but the receipt's comes back.
RentOf(p) == IF p # refund \/ receipt = "none" THEN 0
             ELSE ReceiptRent + (IF escrow = "live" THEN Deposit(terms) ELSE 0)

\* What a party has gained, counting its deposit and its rent as its own, and stray
\* lamports that it was paid as nobody's.
Owned(p, x) == wallet[p][x] + InEscrow(p, x)
               + (IF x = SOL THEN RentOf(p) - (IF p = refund THEN found ELSE 0) ELSE 0)

\* All or nothing: both legs have changed hands, or neither party has lost or
\* gained anything; in no state is one leg paid and the other not.
AllOrNothing ==
  \A p \in Parties, x \in Assets :
    Owned(p, x) = IF receipt = "settled" THEN Leg(terms, Other(p), x) - Leg(terms, p, x) ELSE 0

SharedVault(t) == t.owes["A"].asset = t.owes["B"].asset /\ t.owes["A"].asset # SOL

\* Both legs in one mint, or a unit that somebody has paid into a vault, which
\* neither instruction moves: the vaults cannot be emptied and closed any more.
Stuck == SharedVault(terms) \/ \E m \in Mints : stray[m] > 0

\* A live escrow can be called off, every transfer and close of the refund
\* succeeding, exactly as long as it is not stuck.
RefundPossible == escrow = "live" => (Refunded(Holdings).ok <=> ~Stuck)

\* And so long a half-funded escrow can be completed by the other party.
SettlePossible ==
  escrow = "live" =>
    \A p \in Parties : funded[Other(p)] => (Settled(Deposited(p)).ok <=> ~Stuck)

\* "Cancel/expire and refund any funded leg(s), then close.": whatever the
\* terms, a live escrow can be cancelled.
CancelRefunds == escrow = "live" => Refunded(Holdings).ok

IInv == TypeOK /\ LiveIffOpen /\ Backed /\ AllOrNothing

\* The escrow implements the atomic swap of its terms.
Abstract == INSTANCE AtomicSwap WITH
  outcome <- receipt, deal <- terms, Deals <- TermsSet,
  owned <- [p \in Parties |-> [x \in Assets |-> Owned(p, x)]]
ImplementsAtomicSwap == Abstract!Spec
=============================================================================
