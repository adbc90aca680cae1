--------------------------- MODULE OtcEscrowProofs ---------------------------
(***************************************************************************)
(* The escrow's invariants and its refinement of the atomic swap, for any  *)
(* terms, mints and rents.  The effect of a settlement and of a refund is  *)
(* put together from one lemma for each kind of transfer.                  *)
(***************************************************************************)
EXTENDS OtcEscrow, TLAPS

Wallets == [Parties -> [Assets -> Int]]
HoldingsSet ==
  [pot : [Assets -> Int], vaults : SUBSET Mints, wallet : Wallets, ok : BOOLEAN]

\* What a gain of n of asset y by party q adds to the wallet of p for x.
Gain(p, x, q, y, n) == IF p = q /\ x = y THEN n ELSE 0

-----------------------------------------------------------------------------
(* Transfers.                                                              *)

\* Crediting one party with one asset leaves every other holding alone.
LEMMA CreditEffect ==
  ASSUME NEW w \in Wallets, NEW q \in Parties, NEW y \in Assets, NEW n \in Int
  PROVE  /\ Credit(w, q, y, n) \in Wallets
         /\ \A p \in Parties, x \in Assets :
              Credit(w, q, y, n)[p][x] = w[p][x] + Gain(p, x, q, y, n)
BY DEF Wallets, Credit, Gain

\* A payment moves the leg's amount and keeps the vaults.
LEMMA PayEffect ==
  ASSUME NEW h \in HoldingsSet, NEW leg \in Legs, NEW to \in Parties
  PROVE  LET k == Pay(h, leg, to) IN
         /\ k \in HoldingsSet
         /\ k.vaults = h.vaults
         /\ k.ok <=> /\ h.ok /\ leg.amount <= h.pot[leg.asset]
                     /\ leg.asset = SOL \/ leg.asset \in h.vaults
         /\ \A x \in Assets : k.pot[x] = h.pot[x] - (IF x = leg.asset THEN leg.amount ELSE 0)
         /\ \A p \in Parties, x \in Assets :
              k.wallet[p][x] = h.wallet[p][x] + Gain(p, x, to, leg.asset, leg.amount)
<1>1. leg.asset \in Assets /\ leg.amount \in Int
  BY DEF Legs
<1>2. h.wallet \in Wallets /\ h.pot \in [Assets -> Int]
  BY DEF HoldingsSet
<1>3. Pay(h, leg, to).wallet = Credit(h.wallet, to, leg.asset, leg.amount)
  BY DEF Pay
<1>4. Pay(h, leg, to).pot = [h.pot EXCEPT ![leg.asset] = @ - leg.amount]
  BY DEF Pay
<1>5. Pay(h, leg, to) \in HoldingsSet
  BY <1>1, <1>2, CreditEffect DEF HoldingsSet, Pay
<1>6. \A x \in Assets :
        Pay(h, leg, to).pot[x] = h.pot[x] - (IF x = leg.asset THEN leg.amount ELSE 0)
  BY <1>1, <1>2, <1>4
<1>7. \A p \in Parties, x \in Assets :
        Pay(h, leg, to).wallet[p][x] = h.wallet[p][x] + Gain(p, x, to, leg.asset, leg.amount)
  <2>1. \A p \in Parties, x \in Assets :
          Credit(h.wallet, to, leg.asset, leg.amount)[p][x]
            = h.wallet[p][x] + Gain(p, x, to, leg.asset, leg.amount)
    BY <1>1, <1>2 DEF Credit, Gain, Wallets
  <2> QED
    BY <1>3, <2>1
<1>8. Pay(h, leg, to).vaults = h.vaults
  BY DEF Pay
<1>9. Pay(h, leg, to).ok <=> /\ h.ok /\ leg.amount <= h.pot[leg.asset]
                             /\ leg.asset = SOL \/ leg.asset \in h.vaults
  BY DEF Pay
<1> QED
  BY <1>5, <1>6, <1>7, <1>8, <1>9

\* Closing a vault takes it away, and needs it empty.
LEMMA CloseVaultEffect ==
  ASSUME NEW h \in HoldingsSet, NEW leg \in Legs, NEW to \in Parties
  PROVE  LET k == CloseVault(h, leg, to) IN
         /\ k \in HoldingsSet
         /\ k.pot = h.pot /\ k.vaults = h.vaults \ {leg.asset}
         /\ k.ok <=> (h.ok /\ (leg.asset # SOL =>
                                leg.asset \in h.vaults /\ h.pot[leg.asset] = 0))
         /\ \A p \in Parties, x \in Assets :
              k.wallet[p][x] =
                h.wallet[p][x] + Gain(p, x, to, SOL, IF leg.asset = SOL THEN 0 ELSE VaultRent)
<1> USE EscrowAssumption
<1>1. leg.asset \in Assets /\ SOL \in Assets /\ VaultRent \in Int
  BY DEF Legs, Assets
<1>2. /\ h.wallet \in Wallets /\ h.pot \in [Assets -> Int] /\ h.vaults \subseteq Mints
      /\ h.ok \in BOOLEAN
  BY DEF HoldingsSet
<1>3. CASE leg.asset = SOL
  <2>1. CloseVault(h, leg, to) = h /\ h.vaults \ {leg.asset} = h.vaults
    BY <1>2, <1>3 DEF CloseVault
  <2>2. \A p \in Parties, x \in Assets : h.wallet[p][x] = h.wallet[p][x] + Gain(p, x, to, SOL, 0)
    BY <1>2 DEF Gain, Wallets
  <2>3. h.ok <=> (h.ok /\ (leg.asset # SOL => leg.asset \in h.vaults /\ h.pot[leg.asset] = 0))
    BY <1>2, <1>3
  <2> QED
    BY <1>3, <2>1, <2>2, <2>3
<1>4. CASE leg.asset # SOL
  <2>1. CloseVault(h, leg, to).wallet = Credit(h.wallet, to, SOL, VaultRent)
    BY <1>4 DEF CloseVault
  <2>2. CloseVault(h, leg, to) \in HoldingsSet
    BY <1>1, <1>2, <1>4, CreditEffect DEF HoldingsSet, CloseVault
  <2>3. \A p \in Parties, x \in Assets :
          Credit(h.wallet, to, SOL, VaultRent)[p][x]
            = h.wallet[p][x] + Gain(p, x, to, SOL, VaultRent)
    BY <1>1, <1>2 DEF Credit, Gain, Wallets
  <2>4. /\ CloseVault(h, leg, to).pot = h.pot
        /\ CloseVault(h, leg, to).vaults = h.vaults \ {leg.asset}
    BY <1>4 DEF CloseVault
  <2>5. CloseVault(h, leg, to).ok <=>
          h.ok /\ leg.asset \in h.vaults /\ h.pot[leg.asset] = 0
    BY <1>4 DEF CloseVault
  <2> QED
    BY <1>4, <2>1, <2>2, <2>3, <2>4, <2>5
<1> QED
  BY <1>3, <1>4

\* Closing the escrow account pays out what lamports are left in it.
LEMMA CloseEscrowEffect ==
  ASSUME NEW h \in HoldingsSet, NEW to \in Parties
  PROVE  LET k == CloseEscrow(h, to) IN
         /\ k \in HoldingsSet
         /\ k.vaults = h.vaults /\ k.ok = h.ok
         /\ \A x \in Assets : k.pot[x] = IF x = SOL THEN 0 ELSE h.pot[x]
         /\ \A p \in Parties, x \in Assets :
              k.wallet[p][x] = h.wallet[p][x] + Gain(p, x, to, SOL, h.pot[SOL])
<1>1. SOL \in Assets
  BY DEF Assets
<1>2. h.wallet \in Wallets /\ h.pot \in [Assets -> Int] /\ h.pot[SOL] \in Int
  BY <1>1 DEF HoldingsSet
<1>3. /\ CloseEscrow(h, to).wallet = Credit(h.wallet, to, SOL, h.pot[SOL])
      /\ CloseEscrow(h, to).pot = [h.pot EXCEPT ![SOL] = 0]
  BY DEF CloseEscrow
<1>4. CloseEscrow(h, to) \in HoldingsSet
  BY <1>1, <1>2, CreditEffect DEF HoldingsSet, CloseEscrow
<1> QED
  BY <1>1, <1>2, <1>3, <1>4, CreditEffect DEF CloseEscrow

-----------------------------------------------------------------------------
(* Settlement and refund.                                                  *)

\* The rents a closing escrow returns: those of its vaults.
VaultRents(t) == Deposit(t) - EscrowRent

\* The legs of well-typed terms.
LEMMA LegsTyped ==
  ASSUME TypeOK
  PROVE  /\ Owed("A") \in Legs /\ Owed("B") \in Legs
         /\ refund \in Parties /\ "A" \in Parties /\ "B" \in Parties
         /\ \A p \in Parties, x \in Assets : Leg(terms, p, x) \in Nat
         /\ \A p \in Parties, x \in Assets :
              Leg(terms, p, x) = IF x = Owed(p).asset THEN Owed(p).amount ELSE 0
         /\ SOL \in Assets
BY EscrowAssumption DEF TypeOK, Owed, Parties, Leg, Legs, Assets

\* A settlement that succeeds empties the vaults, closes them and the escrow,
\* and pays both legs; it fails if the legs share a vault, or if one is not empty.
LEMMA SettledEffect ==
  ASSUME TypeOK, NEW h \in HoldingsSet, Settled(h).ok
  PROVE  LET k == Settled(h) IN
         /\ k \in HoldingsSet
         /\ k.vaults = h.vaults \ {Owed("A").asset, Owed("B").asset}
         /\ ~SharedVault(terms)
         /\ \A x \in {Owed("A").asset, Owed("B").asset} : k.pot[x] = 0
         /\ \A x \in Assets : k.pot[x] =
              IF x = SOL THEN 0 ELSE h.pot[x] - Leg(terms, "A", x) - Leg(terms, "B", x)
         /\ \A p \in Parties, x \in Assets : k.wallet[p][x] =
              h.wallet[p][x] + Gain(p, x, "B", x, Leg(terms, "A", x))
                + Gain(p, x, "A", x, Leg(terms, "B", x))
                + Gain(p, x, refund, SOL, VaultRents(terms) + h.pot[SOL]
                                          - Leg(terms, "A", SOL) - Leg(terms, "B", SOL))
<1> DEFINE a == Owed("A")
           b == Owed("B")
           h1 == Pay(h, a, "B")
           h2 == CloseVault(h1, a, refund)
           h3 == Pay(h2, b, "A")
           h4 == CloseVault(h3, b, refund)
           k == CloseEscrow(h4, refund)
<1>k. Settled(h) = k
  BY DEF Settled
<1>t. a \in Legs /\ b \in Legs /\ refund \in Parties /\ "A" \in Parties /\ "B" \in Parties
      /\ SOL \in Assets
  BY LegsTyped
<1>l. \A x \in Assets : /\ Leg(terms, "A", x) = IF x = a.asset THEN a.amount ELSE 0
                        /\ Leg(terms, "B", x) = IF x = b.asset THEN b.amount ELSE 0
                        /\ Leg(terms, "A", x) \in Nat /\ Leg(terms, "B", x) \in Nat
  BY LegsTyped
<1>r. VaultRents(terms) = (IF a.asset = SOL THEN 0 ELSE VaultRent)
                          + (IF b.asset \in {SOL, a.asset} THEN 0 ELSE VaultRent)
  BY EscrowAssumption DEF VaultRents, Deposit, Owed
<1>0. /\ h1 = Pay(h, a, "B") /\ h2 = CloseVault(h1, a, refund)
      /\ h3 = Pay(h2, b, "A") /\ h4 = CloseVault(h3, b, refund)
      /\ k = CloseEscrow(h4, refund) /\ k.ok
  BY <1>k
<1> HIDE DEF a, b, h1, h2, h3, h4, k
<1>1. /\ h1 \in HoldingsSet
      /\ h1.vaults = h.vaults /\ (h1.ok => h.ok)
      /\ \A x \in Assets : h1.pot[x] = h.pot[x] - (IF x = a.asset THEN a.amount ELSE 0)
      /\ \A p \in Parties, x \in Assets :
           h1.wallet[p][x] = h.wallet[p][x] + Gain(p, x, "B", a.asset, a.amount)
  <2>1. h1 = Pay(h, a, "B") /\ a \in Legs /\ "B" \in Parties
    BY <1>0, <1>t
  <2> QED
    BY <2>1, PayEffect
<1>2. /\ h2 \in HoldingsSet
      /\ h2.pot = h1.pot /\ h2.vaults = h1.vaults \ {a.asset}
      /\ h2.ok => (a.asset # SOL => h1.pot[a.asset] = 0)
      /\ \A p \in Parties, x \in Assets :
           h2.wallet[p][x] = h1.wallet[p][x]
             + Gain(p, x, refund, SOL, IF a.asset = SOL THEN 0 ELSE VaultRent)
  <2>1. h2 = CloseVault(h1, a, refund) /\ h1 \in HoldingsSet /\ a \in Legs /\ refund \in Parties
    BY <1>0, <1>t, <1>1
  <2> QED
    BY <2>1, CloseVaultEffect
<1>3. /\ h3 \in HoldingsSet
      /\ h3.vaults = h2.vaults /\ (h3.ok => h2.ok)
      /\ \A x \in Assets : h3.pot[x] = h2.pot[x] - (IF x = b.asset THEN b.amount ELSE 0)
      /\ \A p \in Parties, x \in Assets :
           h3.wallet[p][x] = h2.wallet[p][x] + Gain(p, x, "A", b.asset, b.amount)
  <2>1. h3 = Pay(h2, b, "A") /\ h2 \in HoldingsSet /\ b \in Legs /\ "A" \in Parties
    BY <1>0, <1>t, <1>2
  <2> QED
    BY <2>1, PayEffect
<1>4. /\ h4 \in HoldingsSet
      /\ h4.pot = h3.pot /\ h4.vaults = h3.vaults \ {b.asset}
      /\ h4.ok => (h3.ok /\ (b.asset # SOL => b.asset \in h3.vaults /\ h3.pot[b.asset] = 0))
      /\ \A p \in Parties, x \in Assets :
           h4.wallet[p][x] = h3.wallet[p][x]
             + Gain(p, x, refund, SOL, IF b.asset = SOL THEN 0 ELSE VaultRent)
  <2>1. h4 = CloseVault(h3, b, refund) /\ h3 \in HoldingsSet /\ b \in Legs /\ refund \in Parties
    BY <1>0, <1>t, <1>3
  <2> QED
    BY <2>1, CloseVaultEffect
<1>5. /\ k \in HoldingsSet
      /\ k.vaults = h4.vaults /\ k.ok = h4.ok
      /\ \A x \in Assets : k.pot[x] = IF x = SOL THEN 0 ELSE h4.pot[x]
      /\ \A p \in Parties, x \in Assets :
           k.wallet[p][x] = h4.wallet[p][x] + Gain(p, x, refund, SOL, h4.pot[SOL])
  <2>1. k = CloseEscrow(h4, refund) /\ h4 \in HoldingsSet /\ refund \in Parties
    BY <1>0, <1>t, <1>4
  <2> QED
    BY <2>1, CloseEscrowEffect
<1>6. b.asset # SOL => b.asset # a.asset
  BY <1>0, <1>2, <1>3, <1>4, <1>5
<1>7. ~SharedVault(terms)
  BY <1>6 DEF SharedVault, Owed, a, b
<1>8. \A x \in Assets : h4.pot[x] = h.pot[x] - Leg(terms, "A", x) - Leg(terms, "B", x)
  BY <1>1, <1>2, <1>3, <1>4, <1>l DEF HoldingsSet
<1>9. \A x \in Assets : k.pot[x] =
        IF x = SOL THEN 0 ELSE h.pot[x] - Leg(terms, "A", x) - Leg(terms, "B", x)
  BY <1>5, <1>8
<1>10. k.vaults = h.vaults \ {a.asset, b.asset}
  BY <1>1, <1>2, <1>3, <1>4, <1>5
<1>11. ASSUME NEW p \in Parties, NEW x \in Assets
       PROVE  k.wallet[p][x] =
                h.wallet[p][x] + Gain(p, x, "B", x, Leg(terms, "A", x))
                  + Gain(p, x, "A", x, Leg(terms, "B", x))
                  + Gain(p, x, refund, SOL, VaultRents(terms) + h.pot[SOL]
                                            - Leg(terms, "A", SOL) - Leg(terms, "B", SOL))
  <2> DEFINE va == IF a.asset = SOL THEN 0 ELSE VaultRent
             vb == IF b.asset = SOL THEN 0 ELSE VaultRent
             rest == h.pot[SOL] - Leg(terms, "A", SOL) - Leg(terms, "B", SOL)
  <2>1. k.wallet[p][x] = h.wallet[p][x] + Gain(p, x, "B", a.asset, a.amount)
          + Gain(p, x, refund, SOL, va) + Gain(p, x, "A", b.asset, b.amount)
          + Gain(p, x, refund, SOL, vb) + Gain(p, x, refund, SOL, rest)
    BY <1>1, <1>2, <1>3, <1>4, <1>5, <1>8, <1>t
  <2>2. va \in Int /\ vb \in Int /\ rest \in Int /\ VaultRents(terms) = va + vb
        /\ h.wallet[p][x] \in Int
    BY <1>r, <1>6, <1>l, <1>t, EscrowAssumption DEF HoldingsSet, Wallets
  <2>3. /\ Gain(p, x, "B", a.asset, a.amount) = Gain(p, x, "B", x, Leg(terms, "A", x))
        /\ Gain(p, x, "A", b.asset, b.amount) = Gain(p, x, "A", x, Leg(terms, "B", x))
        /\ Gain(p, x, "B", x, Leg(terms, "A", x)) \in Int
        /\ Gain(p, x, "A", x, Leg(terms, "B", x)) \in Int
    BY <1>l DEF Gain
  <2>4. Gain(p, x, refund, SOL, va) + Gain(p, x, refund, SOL, vb) + Gain(p, x, refund, SOL, rest)
          = Gain(p, x, refund, SOL, va + vb + rest)
        /\ Gain(p, x, refund, SOL, va) \in Int /\ Gain(p, x, refund, SOL, vb) \in Int
        /\ Gain(p, x, refund, SOL, rest) \in Int
    BY <2>2 DEF Gain
  <2>5. va + vb + rest = VaultRents(terms) + h.pot[SOL] - Leg(terms, "A", SOL) - Leg(terms, "B", SOL)
    BY <2>2, <1>l, <1>t DEF HoldingsSet
  <2> HIDE DEF va, vb, rest
  <2> QED
    BY <2>1, <2>2, <2>3, <2>4, <2>5
<1>12. \A x \in {a.asset, b.asset} : k.pot[x] = 0
  <2>1. a.asset # SOL => h1.pot[a.asset] = 0 /\ a.asset # b.asset
    BY <1>0, <1>2, <1>3, <1>4, <1>5, <1>6
  <2>2. b.asset # SOL => h3.pot[b.asset] = 0
    BY <1>0, <1>4, <1>5
  <2>3. a.asset \in Assets /\ b.asset \in Assets /\ h2.pot \in [Assets -> Int]
    BY <1>t, <1>2 DEF Legs, HoldingsSet
  <2>4. a.asset # SOL => h3.pot[a.asset] = 0
    BY <1>2, <1>3, <2>1, <2>3
  <2> QED
    BY <1>4, <1>5, <2>2, <2>3, <2>4
<1> QED
  BY <1>k, <1>5, <1>7, <1>9, <1>10, <1>11, <1>12 DEF k, a, b

\* Returning a party's leg if it is funded.
LEMMA ReturnEffect ==
  ASSUME TypeOK, escrow = "live", NEW h \in HoldingsSet, NEW q \in Parties,
         NEW k, k = IF funded[q] THEN Pay(h, Owed(q), q) ELSE h
  PROVE  /\ k \in HoldingsSet /\ k.vaults = h.vaults
         /\ \A x \in Assets : k.pot[x] = h.pot[x] - InEscrow(q, x)
         /\ \A p \in Parties, x \in Assets :
              k.wallet[p][x] = h.wallet[p][x] + Gain(p, x, q, x, InEscrow(q, x))
<1>1. Owed(q) \in Legs
  BY EscrowAssumption DEF TypeOK, Owed
<1>2. \A x \in Assets : InEscrow(q, x) =
        IF funded[q] /\ x = Owed(q).asset THEN Owed(q).amount ELSE 0
  BY DEF InEscrow, Leg, Owed
<1>3. CASE funded[q]
  <2>1. k = Pay(h, Owed(q), q) /\ Owed(q) \in Legs
    BY <1>1, <1>3
  <2>2. /\ k \in HoldingsSet /\ k.vaults = h.vaults
        /\ \A x \in Assets : k.pot[x] = h.pot[x] - (IF x = Owed(q).asset THEN Owed(q).amount ELSE 0)
        /\ \A p \in Parties, x \in Assets :
             k.wallet[p][x] = h.wallet[p][x] + Gain(p, x, q, Owed(q).asset, Owed(q).amount)
    BY <2>1, PayEffect
  <2>3. \A p \in Parties, x \in Assets :
          Gain(p, x, q, Owed(q).asset, Owed(q).amount) = Gain(p, x, q, x, InEscrow(q, x))
    BY <1>2, <1>3 DEF Gain
  <2> QED
    BY <1>2, <1>3, <2>2, <2>3
<1>4. CASE ~funded[q]
  <2>1. /\ \A x \in Assets : h.pot[x] = h.pot[x] - InEscrow(q, x)
        /\ \A p \in Parties, x \in Assets :
             h.wallet[p][x] = h.wallet[p][x] + Gain(p, x, q, x, InEscrow(q, x))
    BY <1>2, <1>4 DEF HoldingsSet, Wallets, Gain
  <2> QED
    BY <1>4, <2>1
<1> QED
  BY <1>3, <1>4

\* A refund that succeeds returns the funded legs and closes vaults and escrow; it
\* fails if the legs share a vault, or if one is not empty.
LEMMA RefundedEffect ==
  ASSUME TypeOK, escrow = "live", NEW h \in HoldingsSet, Refunded(h).ok
  PROVE  LET k == Refunded(h) IN
         /\ k \in HoldingsSet
         /\ k.vaults = h.vaults \ {Owed("A").asset, Owed("B").asset}
         /\ ~SharedVault(terms)
         /\ \A x \in {Owed("A").asset, Owed("B").asset} : k.pot[x] = 0
         /\ \A x \in Assets : k.pot[x] =
              IF x = SOL THEN 0 ELSE h.pot[x] - InEscrow("A", x) - InEscrow("B", x)
         /\ \A p \in Parties, x \in Assets : k.wallet[p][x] =
              h.wallet[p][x] + Gain(p, x, "A", x, InEscrow("A", x))
                + Gain(p, x, "B", x, InEscrow("B", x))
                + Gain(p, x, refund, SOL, VaultRents(terms) + h.pot[SOL]
                                          - InEscrow("A", SOL) - InEscrow("B", SOL))
<1> DEFINE a == Owed("A")
           b == Owed("B")
           h1 == IF funded["A"] THEN Pay(h, a, "A") ELSE h
           h2 == IF funded["B"] THEN Pay(h1, b, "B") ELSE h1
           h3 == CloseVault(h2, a, refund)
           h4 == CloseVault(h3, b, refund)
           k == CloseEscrow(h4, refund)
<1>k. Refunded(h) = k
  BY DEF Refunded
<1>t. a \in Legs /\ b \in Legs /\ refund \in Parties /\ "A" \in Parties /\ "B" \in Parties
      /\ SOL \in Assets
  BY LegsTyped
<1>l. \A x \in Assets : InEscrow("A", x) \in Nat /\ InEscrow("B", x) \in Nat
  BY LegsTyped DEF InEscrow
<1>r. VaultRents(terms) = (IF a.asset = SOL THEN 0 ELSE VaultRent)
                          + (IF b.asset \in {SOL, a.asset} THEN 0 ELSE VaultRent)
  BY EscrowAssumption DEF VaultRents, Deposit, Owed
<1>0. /\ h1 = (IF funded["A"] THEN Pay(h, Owed("A"), "A") ELSE h)
      /\ h2 = (IF funded["B"] THEN Pay(h1, Owed("B"), "B") ELSE h1)
      /\ h3 = CloseVault(h2, a, refund) /\ h4 = CloseVault(h3, b, refund)
      /\ k = CloseEscrow(h4, refund) /\ k.ok
  BY <1>k
<1> HIDE DEF a, b, h1, h2, h3, h4, k
<1>1. /\ h1 \in HoldingsSet /\ h1.vaults = h.vaults
      /\ \A x \in Assets : h1.pot[x] = h.pot[x] - InEscrow("A", x)
      /\ \A p \in Parties, x \in Assets :
           h1.wallet[p][x] = h.wallet[p][x] + Gain(p, x, "A", x, InEscrow("A", x))
  <2>1. h1 = (IF funded["A"] THEN Pay(h, Owed("A"), "A") ELSE h) /\ "A" \in Parties
    BY <1>0, <1>t
  <2> QED
    BY <2>1, ReturnEffect
<1>2. /\ h2 \in HoldingsSet /\ h2.vaults = h1.vaults
      /\ \A x \in Assets : h2.pot[x] = h1.pot[x] - InEscrow("B", x)
      /\ \A p \in Parties, x \in Assets :
           h2.wallet[p][x] = h1.wallet[p][x] + Gain(p, x, "B", x, InEscrow("B", x))
  <2>1. h2 = (IF funded["B"] THEN Pay(h1, Owed("B"), "B") ELSE h1) /\ "B" \in Parties
        /\ h1 \in HoldingsSet
    BY <1>0, <1>1, <1>t
  <2> QED
    BY <2>1, ReturnEffect
<1>3. /\ h3 \in HoldingsSet
      /\ h3.pot = h2.pot /\ h3.vaults = h2.vaults \ {a.asset}
      /\ h3.ok => (a.asset # SOL => h2.pot[a.asset] = 0)
      /\ \A p \in Parties, x \in Assets :
           h3.wallet[p][x] = h2.wallet[p][x]
             + Gain(p, x, refund, SOL, IF a.asset = SOL THEN 0 ELSE VaultRent)
  <2>1. h3 = CloseVault(h2, a, refund) /\ h2 \in HoldingsSet /\ a \in Legs /\ refund \in Parties
    BY <1>0, <1>t, <1>2
  <2> QED
    BY <2>1, CloseVaultEffect
<1>4. /\ h4 \in HoldingsSet
      /\ h4.pot = h3.pot /\ h4.vaults = h3.vaults \ {b.asset}
      /\ h4.ok => (h3.ok /\ (b.asset # SOL => b.asset \in h3.vaults /\ h3.pot[b.asset] = 0))
      /\ \A p \in Parties, x \in Assets :
           h4.wallet[p][x] = h3.wallet[p][x]
             + Gain(p, x, refund, SOL, IF b.asset = SOL THEN 0 ELSE VaultRent)
  <2>1. h4 = CloseVault(h3, b, refund) /\ h3 \in HoldingsSet /\ b \in Legs /\ refund \in Parties
    BY <1>0, <1>t, <1>3
  <2> QED
    BY <2>1, CloseVaultEffect
<1>5. /\ k \in HoldingsSet
      /\ k.vaults = h4.vaults /\ k.ok = h4.ok
      /\ \A x \in Assets : k.pot[x] = IF x = SOL THEN 0 ELSE h4.pot[x]
      /\ \A p \in Parties, x \in Assets :
           k.wallet[p][x] = h4.wallet[p][x] + Gain(p, x, refund, SOL, h4.pot[SOL])
  <2>1. k = CloseEscrow(h4, refund) /\ h4 \in HoldingsSet /\ refund \in Parties
    BY <1>0, <1>t, <1>4
  <2> QED
    BY <2>1, CloseEscrowEffect
<1>6. b.asset # SOL => b.asset # a.asset
  BY <1>0, <1>3, <1>4, <1>5
<1>7. \A x \in Assets : h4.pot[x] = h.pot[x] - InEscrow("A", x) - InEscrow("B", x)
  BY <1>1, <1>2, <1>3, <1>4, <1>l DEF HoldingsSet
<1>8. \A x \in Assets : k.pot[x] =
        IF x = SOL THEN 0 ELSE h.pot[x] - InEscrow("A", x) - InEscrow("B", x)
  BY <1>5, <1>7
<1>9. k.vaults = h.vaults \ {a.asset, b.asset}
  BY <1>1, <1>2, <1>3, <1>4, <1>5
<1>10. ASSUME NEW p \in Parties, NEW x \in Assets
       PROVE  k.wallet[p][x] =
                h.wallet[p][x] + Gain(p, x, "A", x, InEscrow("A", x))
                  + Gain(p, x, "B", x, InEscrow("B", x))
                  + Gain(p, x, refund, SOL, VaultRents(terms) + h.pot[SOL]
                                            - InEscrow("A", SOL) - InEscrow("B", SOL))
  <2> DEFINE va == IF a.asset = SOL THEN 0 ELSE VaultRent
             vb == IF b.asset = SOL THEN 0 ELSE VaultRent
             rest == h.pot[SOL] - InEscrow("A", SOL) - InEscrow("B", SOL)
  <2>1. k.wallet[p][x] = h.wallet[p][x] + Gain(p, x, "A", x, InEscrow("A", x))
          + Gain(p, x, "B", x, InEscrow("B", x))
          + Gain(p, x, refund, SOL, va) + Gain(p, x, refund, SOL, vb)
          + Gain(p, x, refund, SOL, rest)
    BY <1>1, <1>2, <1>3, <1>4, <1>5, <1>7, <1>t
  <2>2. va \in Int /\ vb \in Int /\ rest \in Int /\ VaultRents(terms) = va + vb
        /\ h.wallet[p][x] \in Int
    BY <1>r, <1>6, <1>l, <1>t, EscrowAssumption DEF HoldingsSet, Wallets
  <2>3. /\ Gain(p, x, "A", x, InEscrow("A", x)) \in Int
        /\ Gain(p, x, "B", x, InEscrow("B", x)) \in Int
    BY <1>l DEF Gain
  <2>4. Gain(p, x, refund, SOL, va) + Gain(p, x, refund, SOL, vb) + Gain(p, x, refund, SOL, rest)
          = Gain(p, x, refund, SOL, va + vb + rest)
        /\ Gain(p, x, refund, SOL, va) \in Int /\ Gain(p, x, refund, SOL, vb) \in Int
        /\ Gain(p, x, refund, SOL, rest) \in Int
    BY <2>2 DEF Gain
  <2>5. va + vb + rest = VaultRents(terms) + h.pot[SOL] - InEscrow("A", SOL) - InEscrow("B", SOL)
    BY <2>2, <1>l, <1>t DEF HoldingsSet
  <2> HIDE DEF va, vb, rest
  <2> QED
    BY <2>1, <2>2, <2>3, <2>4, <2>5
<1>11. ~SharedVault(terms)
  BY <1>6 DEF SharedVault, Owed, a, b
<1>12. \A x \in {a.asset, b.asset} : k.pot[x] = 0
  <2>1. /\ a.asset # SOL => h2.pot[a.asset] = 0
        /\ b.asset # SOL => h3.pot[b.asset] = 0
    BY <1>0, <1>3, <1>4, <1>5
  <2>2. a.asset \in Assets /\ b.asset \in Assets
    BY <1>t DEF Legs
  <2> QED
    BY <1>3, <1>4, <1>5, <2>1, <2>2
<1> QED
  BY <1>k, <1>5, <1>8, <1>9, <1>10, <1>11, <1>12 DEF k, a, b

-----------------------------------------------------------------------------
(* What the instructions do to a well-formed escrow.                       *)

\* The holdings of a well-typed escrow, before and after a deposit.
LEMMA DepositedEffect ==
  ASSUME TypeOK, NEW q \in Parties
  PROVE  /\ Holdings \in HoldingsSet /\ Deposited(q) \in HoldingsSet
         /\ Deposited(q).vaults = vaults
         /\ \A x \in Assets : Deposited(q).pot[x] = pot[x] + Leg(terms, q, x)
         /\ \A p \in Parties, x \in Assets :
              Deposited(q).wallet[p][x] = wallet[p][x] - Gain(p, x, q, x, Leg(terms, q, x))
<1>1. Owed(q).asset \in Assets /\ Owed(q).amount \in Nat /\ -Owed(q).amount \in Int
  BY EscrowAssumption DEF TypeOK, Owed, Legs
<1>2. wallet \in Wallets /\ pot \in [Assets -> Int] /\ vaults \in SUBSET Mints
  BY DEF TypeOK, Wallets
<1>3. Holdings \in HoldingsSet
  BY <1>2 DEF Holdings, HoldingsSet
<1>4. /\ Deposited(q).wallet = Credit(wallet, q, Owed(q).asset, -Owed(q).amount)
      /\ Deposited(q).pot = [pot EXCEPT ![Owed(q).asset] = @ + Owed(q).amount]
      /\ Deposited(q).vaults = vaults
  BY DEF Deposited
<1>5. Deposited(q) \in HoldingsSet
  BY <1>1, <1>2, CreditEffect DEF Deposited, HoldingsSet
<1>6. \A x \in Assets : Leg(terms, q, x) = IF x = Owed(q).asset THEN Owed(q).amount ELSE 0
  BY LegsTyped
<1>7. \A x \in Assets : Deposited(q).pot[x] = pot[x] + Leg(terms, q, x)
  BY <1>1, <1>2, <1>4, <1>6
<1>8. \A p \in Parties, x \in Assets :
        Deposited(q).wallet[p][x] = wallet[p][x] - Gain(p, x, q, x, Leg(terms, q, x))
  BY <1>1, <1>2, <1>4, <1>6 DEF Credit, Gain, Wallets
<1> QED
  BY <1>3, <1>4, <1>5, <1>7, <1>8

\* The sum of the rents, and what is in a live escrow.
LEMMA LiveFacts ==
  ASSUME TypeOK, Backed, escrow = "live"
  PROVE  /\ VaultRents(terms) \in Nat /\ EscrowRent \in Nat
         /\ Deposit(terms) = VaultRents(terms) + EscrowRent
         /\ vaults \ {Owed("A").asset, Owed("B").asset} = {}
         /\ \A x \in Assets : pot[x] = InEscrow("A", x) + InEscrow("B", x) + stray[x]
                                        + (IF x = SOL THEN EscrowRent ELSE 0)
         /\ \A x \in Assets \ {SOL, Owed("A").asset, Owed("B").asset} : pot[x] = 0
         /\ \A x \in Assets : stray[x] \in Nat
         /\ found \in Nat
<1>1. Deposit(terms) \in Nat /\ VaultRents(terms) \in Nat /\ EscrowRent \in Nat
  BY EscrowAssumption DEF VaultRents, Deposit
<1>2. vaults = VaultsOf(terms)
  BY DEF Backed
<1>3. VaultsOf(terms) \subseteq {Owed("A").asset, Owed("B").asset}
  BY DEF VaultsOf, Owed, Parties
<1>4. \A x \in Assets \ {SOL, Owed("A").asset, Owed("B").asset} : pot[x] = 0
  BY <1>2, <1>3 DEF Backed, Assets
<1>5. /\ \A x \in Assets : stray[x] \in Nat
      /\ found \in Nat
  BY DEF TypeOK
<1> QED
  BY <1>1, <1>2, <1>3, <1>4, <1>5 DEF Backed, VaultRents

\* When nothing is in the vaults any more, nothing is there from outside either.
LEMMA NothingLeft ==
  ASSUME TypeOK, Backed, escrow = "live", Close, NEW out, out \in [Assets -> Int],
         \A x \in Assets : out[x] = 0,
         \A x \in Assets \ {SOL} : out[x] = stray[x]
  PROVE  /\ stray' = [x \in Assets |-> 0]
         /\ found' = found + stray[SOL] /\ found' \in Nat
<1>1. stray \in [Assets -> Nat] /\ found \in Nat /\ SOL \in Assets
  BY DEF TypeOK, Assets
<1>2. stray' = [stray EXCEPT ![SOL] = 0] /\ found' = found + stray[SOL]
  BY DEF Close
<1>3. \A x \in Assets : stray'[x] = 0
  BY <1>1, <1>2
<1>4. stray' = [x \in Assets |-> stray'[x]]
  BY <1>1, <1>2
<1> QED
  BY <1>1, <1>2, <1>3, <1>4

\* The second funding settles the deal and leaves nothing in the escrow.
LEMMA SettleStep ==
  ASSUME IInv, NEW q \in Parties, Fund(q), funded[Other(q)]
  PROVE  /\ pot' = [x \in Assets |-> 0] /\ vaults' = {} /\ wallet' \in Wallets
         /\ stray' = [x \in Assets |-> 0] /\ found' \in Nat
         /\ \A p \in Parties, x \in Assets :
              Owned(p, x)' = Leg(terms, Other(p), x) - Leg(terms, p, x)
<1> DEFINE h == Deposited(q)
<1>1. TypeOK /\ escrow = "live" /\ Backed /\ AllOrNothing /\ receipt = "open"
  BY DEF IInv, Fund, LiveIffOpen
<1>2. /\ Settled(h).ok /\ pot' = Settled(h).pot /\ vaults' = Settled(h).vaults
      /\ wallet' = Settled(h).wallet
      /\ receipt' = "settled" /\ escrow' = "closed" /\ terms' = terms /\ refund' = refund
      /\ ~funded[q] /\ Close
  BY DEF Fund, Apply, Close
<1>3. /\ h \in HoldingsSet /\ h.vaults = vaults
      /\ \A x \in Assets : h.pot[x] = pot[x] + Leg(terms, q, x)
      /\ \A p \in Parties, x \in Assets :
           h.wallet[p][x] = wallet[p][x] - Gain(p, x, q, x, Leg(terms, q, x))
  BY <1>1, DepositedEffect
<1> HIDE DEF h
<1>4. /\ Settled(h) \in HoldingsSet
      /\ Settled(h).vaults = h.vaults \ {Owed("A").asset, Owed("B").asset}
      /\ \A x \in {Owed("A").asset, Owed("B").asset} : Settled(h).pot[x] = 0
      /\ \A x \in Assets : Settled(h).pot[x] =
           IF x = SOL THEN 0 ELSE h.pot[x] - Leg(terms, "A", x) - Leg(terms, "B", x)
      /\ \A p \in Parties, x \in Assets : Settled(h).wallet[p][x] =
           h.wallet[p][x] + Gain(p, x, "B", x, Leg(terms, "A", x))
             + Gain(p, x, "A", x, Leg(terms, "B", x))
             + Gain(p, x, refund, SOL, VaultRents(terms) + h.pot[SOL]
                                       - Leg(terms, "A", SOL) - Leg(terms, "B", SOL))
  BY <1>1, <1>2, <1>3, SettledEffect
<1>5. /\ VaultRents(terms) \in Nat /\ EscrowRent \in Nat
      /\ Deposit(terms) = VaultRents(terms) + EscrowRent
      /\ vaults \ {Owed("A").asset, Owed("B").asset} = {}
      /\ \A x \in Assets : pot[x] = InEscrow("A", x) + InEscrow("B", x) + stray[x]
                                     + (IF x = SOL THEN EscrowRent ELSE 0)
      /\ \A x \in Assets \ {SOL, Owed("A").asset, Owed("B").asset} : pot[x] = 0
      /\ \A x \in Assets : stray[x] \in Nat
      /\ found \in Nat
  BY <1>1, LiveFacts
<1>6. \A p \in Parties, x \in Assets :
        /\ InEscrow(p, x) = IF p = q THEN 0 ELSE Leg(terms, p, x)
        /\ Leg(terms, p, x) \in Nat
  BY <1>1, <1>2, LegsTyped DEF InEscrow, Other, Parties
<1>7. \A x \in Assets : pot[x] + Leg(terms, q, x) =
        Leg(terms, "A", x) + Leg(terms, "B", x) + stray[x] + (IF x = SOL THEN EscrowRent ELSE 0)
  BY <1>5, <1>6 DEF Parties
<1>8. \A x \in Assets : pot'[x] = 0
  <2>1. ASSUME NEW x \in Assets \ {SOL, Owed("A").asset, Owed("B").asset}
        PROVE  Settled(h).pot[x] = 0
    <3>1. Leg(terms, "A", x) = 0 /\ Leg(terms, "B", x) = 0 /\ Leg(terms, q, x) = 0
      BY <1>1, LegsTyped DEF Parties
    <3> QED
      BY <1>3, <1>4, <1>5, <3>1
  <2> QED
    BY <1>2, <1>4, <2>1
<1>9. SOL \in Assets /\ refund \in Parties /\ "A" \in Parties /\ "B" \in Parties
  BY <1>1, LegsTyped
<1>10. VaultRents(terms) + h.pot[SOL] - Leg(terms, "A", SOL) - Leg(terms, "B", SOL)
         = Deposit(terms) + stray[SOL]
  BY <1>3, <1>5, <1>6, <1>7, <1>9
<1>13. /\ stray' = [x \in Assets |-> 0]
       /\ found' = found + stray[SOL] /\ found' \in Nat
  <2>1. pot' \in [Assets -> Int]
    BY <1>2, <1>4 DEF HoldingsSet
  <2>2. \A x \in Assets \ {SOL} : pot'[x] = stray[x]
    <3> SUFFICES ASSUME NEW x \in Assets \ {SOL} PROVE pot'[x] = stray[x]
      OBVIOUS
    <3>1. pot'[x] = h.pot[x] - Leg(terms, "A", x) - Leg(terms, "B", x)
      BY <1>2, <1>4
    <3>2. h.pot[x] = Leg(terms, "A", x) + Leg(terms, "B", x) + stray[x]
      BY <1>3, <1>5, <1>6, <1>7, <1>9
    <3> QED
      BY <1>5, <1>6, <1>9, <3>1, <3>2
  <2> QED
    BY <1>1, <1>2, <1>8, <2>1, <2>2, NothingLeft
<1>11. ASSUME NEW p \in Parties, NEW x \in Assets
       PROVE  Owned(p, x)' = Leg(terms, Other(p), x) - Leg(terms, p, x)
  <2>1. wallet'[p][x] = wallet[p][x] - Gain(p, x, q, x, Leg(terms, q, x))
          + Gain(p, x, "B", x, Leg(terms, "A", x)) + Gain(p, x, "A", x, Leg(terms, "B", x))
          + Gain(p, x, refund, SOL, Deposit(terms) + stray[SOL])
    BY <1>2, <1>3, <1>4, <1>10
  <2>2. wallet[p][x] + InEscrow(p, x)
          + (IF x = SOL THEN RentOf(p) - (IF p = refund THEN found ELSE 0) ELSE 0) = 0
    BY <1>1 DEF AllOrNothing, Owned
  <2>3. Owned(p, x)' = wallet'[p][x]
          + (IF x = SOL THEN RentOf(p)' - (IF p = refund THEN found + stray[SOL] ELSE 0) ELSE 0)
    <3>1. InEscrow(p, x)' = 0
      BY <1>2 DEF InEscrow
    <3>2. wallet'[p][x] \in Int
      BY <1>2, <1>4 DEF HoldingsSet, Wallets
    <3> QED
      BY <1>2, <1>13, <3>1, <3>2 DEF Owned
  <2>4. /\ RentOf(p) = IF p = refund THEN ReceiptRent + Deposit(terms) ELSE 0
        /\ RentOf(p)' = IF p = refund THEN ReceiptRent ELSE 0
    BY <1>1, <1>2, EscrowAssumption DEF RentOf
  <2>5. /\ ReceiptRent \in Nat /\ Deposit(terms) \in Nat /\ wallet[p][x] \in Int
        /\ stray[SOL] \in Nat /\ found \in Nat
    BY <1>1, <1>5, <1>9, EscrowAssumption DEF TypeOK
  <2>6. /\ Other("A") = "B" /\ Other("B") = "A" /\ p \in {"A", "B"} /\ q \in {"A", "B"}
        /\ refund \in {"A", "B"} /\ "A" # "B"
    BY <1>9 DEF Other, Parties
  <2>7. Leg(terms, "A", x) \in Nat /\ Leg(terms, "B", x) \in Nat
    BY <1>6, <1>9
  <2>8. InEscrow(p, x) = IF p = q THEN 0 ELSE Leg(terms, p, x)
    BY <1>6
  <2> HIDE DEF Other
  <2> DEFINE own == IF x = SOL /\ p = refund THEN Deposit(terms) ELSE 0
             spare == IF x = SOL /\ p = refund THEN stray[SOL] ELSE 0
             kept == IF x = SOL /\ p = refund THEN ReceiptRent - found ELSE 0
  <2>11. /\ Gain(p, x, refund, SOL, Deposit(terms) + stray[SOL]) = own + spare
         /\ own \in Int /\ spare \in Int /\ kept \in Int
    BY <2>5 DEF Gain
  <2>12. wallet[p][x] + InEscrow(p, x) + kept + own = 0
    <3>1. InEscrow(p, x) \in Nat
      BY <2>6, <2>7, <2>8
    <3>2. CASE x = SOL /\ p = refund
      BY <2>2, <2>4, <2>5, <3>1, <3>2
    <3>3. CASE ~(x = SOL /\ p = refund)
      BY <2>2, <2>4, <2>5, <3>1, <3>3
    <3> QED
      BY <3>2, <3>3
  <2>13. Owned(p, x)' = wallet'[p][x] + kept - spare
    <3>1. wallet'[p][x] \in Int
      BY <1>2, <1>4 DEF HoldingsSet, Wallets
    <3> QED
      BY <2>3, <2>4, <2>5, <3>1
  <2> HIDE DEF own, spare, kept
  <2>14. wallet'[p][x] = wallet[p][x] - Gain(p, x, q, x, Leg(terms, q, x))
           + Gain(p, x, "B", x, Leg(terms, "A", x)) + Gain(p, x, "A", x, Leg(terms, "B", x))
           + own + spare
    <3>1. /\ Gain(p, x, q, x, Leg(terms, q, x)) \in Int
          /\ Gain(p, x, "B", x, Leg(terms, "A", x)) \in Int
          /\ Gain(p, x, "A", x, Leg(terms, "B", x)) \in Int
      BY <2>6, <2>7 DEF Gain
    <3> QED
      BY <2>1, <2>5, <2>11, <3>1
  <2> DEFINE la == Leg(terms, "A", x)
             lb == Leg(terms, "B", x)
             wp == wallet[p][x]
  <2>16. la \in Int /\ lb \in Int /\ wp \in Int /\ own \in Int /\ spare \in Int /\ kept \in Int
    BY <2>5, <2>7, <2>11
  <2>17. /\ Leg(terms, q, x) = (IF q = "A" THEN la ELSE lb)
         /\ Leg(terms, p, x) = (IF p = "A" THEN la ELSE lb)
         /\ Leg(terms, Other(p), x) = (IF p = "A" THEN lb ELSE la)
         /\ Gain(p, x, q, x, Leg(terms, q, x)) = (IF p = q THEN Leg(terms, q, x) ELSE 0)
         /\ Gain(p, x, "B", x, Leg(terms, "A", x)) = (IF p = "A" THEN 0 ELSE la)
         /\ Gain(p, x, "A", x, Leg(terms, "B", x)) = (IF p = "A" THEN lb ELSE 0)
    BY <2>6 DEF Gain
  <2>18. /\ wallet'[p][x] = wp - (IF p = q THEN Leg(terms, p, x) ELSE 0)
                             + (IF p = "A" THEN lb ELSE la) + own + spare
         /\ wp + (IF p = q THEN 0 ELSE Leg(terms, p, x)) + kept + own = 0
    BY <2>6, <2>8, <2>12, <2>14, <2>16, <2>17
  <2> HIDE DEF la, lb, wp
  <2>15. wallet'[p][x] + kept - spare = Leg(terms, Other(p), x) - Leg(terms, p, x)
    <3>1. CASE p = q
      <4>1. wallet'[p][x] = wp - Leg(terms, p, x) + Leg(terms, Other(p), x) + own + spare
            /\ wp + kept + own = 0
        BY <2>16, <2>17, <2>18, <3>1
      <4> QED
        BY <2>16, <2>17, <4>1
    <3>2. CASE p # q
      <4>1. wallet'[p][x] = wp + Leg(terms, Other(p), x) + own + spare
            /\ wp + Leg(terms, p, x) + kept + own = 0
        BY <2>16, <2>17, <2>18, <3>2
      <4> QED
        BY <2>16, <2>17, <4>1
    <3> QED
      BY <3>1, <3>2
  <2> QED
    BY <2>13, <2>15
<1>12. pot' = [x \in Assets |-> 0] /\ vaults' = {} /\ wallet' \in Wallets
  BY <1>2, <1>3, <1>4, <1>5, <1>8 DEF HoldingsSet
<1> QED
  BY <1>11, <1>12, <1>13

\* A cancellation returns what was funded and leaves nothing in the escrow.
LEMMA CancelStep ==
  ASSUME IInv, Cancel
  PROVE  /\ pot' = [x \in Assets |-> 0] /\ vaults' = {} /\ wallet' \in Wallets
         /\ stray' = [x \in Assets |-> 0] /\ found' \in Nat
         /\ \A p \in Parties, x \in Assets : Owned(p, x)' = 0
<1> DEFINE h == Holdings
<1>1. TypeOK /\ escrow = "live" /\ Backed /\ AllOrNothing /\ receipt = "open"
  BY DEF IInv, Cancel, LiveIffOpen
<1>2. /\ Refunded(h).ok /\ pot' = Refunded(h).pot /\ vaults' = Refunded(h).vaults
      /\ wallet' = Refunded(h).wallet
      /\ receipt' = "cancelled" /\ escrow' = "closed" /\ terms' = terms /\ refund' = refund
      /\ Close
  BY DEF Cancel, Apply, Close, data
<1>3. h \in HoldingsSet /\ h.vaults = vaults /\ h.pot = pot /\ h.wallet = wallet
  BY <1>1, DepositedEffect, LegsTyped DEF Holdings
<1> HIDE DEF h
<1>4. /\ Refunded(h) \in HoldingsSet
      /\ Refunded(h).vaults = h.vaults \ {Owed("A").asset, Owed("B").asset}
      /\ \A x \in {Owed("A").asset, Owed("B").asset} : Refunded(h).pot[x] = 0
      /\ \A x \in Assets : Refunded(h).pot[x] =
           IF x = SOL THEN 0 ELSE h.pot[x] - InEscrow("A", x) - InEscrow("B", x)
      /\ \A p \in Parties, x \in Assets : Refunded(h).wallet[p][x] =
           h.wallet[p][x] + Gain(p, x, "A", x, InEscrow("A", x))
             + Gain(p, x, "B", x, InEscrow("B", x))
             + Gain(p, x, refund, SOL, VaultRents(terms) + h.pot[SOL]
                                       - InEscrow("A", SOL) - InEscrow("B", SOL))
  BY <1>1, <1>2, <1>3, RefundedEffect
<1>5. /\ VaultRents(terms) \in Nat /\ EscrowRent \in Nat
      /\ Deposit(terms) = VaultRents(terms) + EscrowRent
      /\ vaults \ {Owed("A").asset, Owed("B").asset} = {}
      /\ \A x \in Assets : pot[x] = InEscrow("A", x) + InEscrow("B", x) + stray[x]
                                     + (IF x = SOL THEN EscrowRent ELSE 0)
      /\ \A x \in Assets \ {SOL, Owed("A").asset, Owed("B").asset} : pot[x] = 0
      /\ \A x \in Assets : stray[x] \in Nat
      /\ found \in Nat
  BY <1>1, LiveFacts
<1>6. SOL \in Assets /\ refund \in Parties /\ "A" \in Parties /\ "B" \in Parties
  BY <1>1, LegsTyped
<1>7. \A p \in Parties, x \in Assets : InEscrow(p, x) \in Nat
  BY <1>1, LegsTyped DEF InEscrow
<1>8. \A x \in Assets : pot'[x] = 0
  <2>1. ASSUME NEW x \in Assets \ {SOL, Owed("A").asset, Owed("B").asset}
        PROVE  Refunded(h).pot[x] = 0
    <3>1. InEscrow("A", x) = 0 /\ InEscrow("B", x) = 0
      BY <1>1, LegsTyped DEF InEscrow
    <3> QED
      BY <1>3, <1>4, <1>5, <3>1
  <2> QED
    BY <1>2, <1>4, <2>1
<1>9. VaultRents(terms) + h.pot[SOL] - InEscrow("A", SOL) - InEscrow("B", SOL)
        = Deposit(terms) + stray[SOL]
  BY <1>3, <1>5, <1>6, <1>7
<1>12. /\ stray' = [x \in Assets |-> 0]
       /\ found' = found + stray[SOL] /\ found' \in Nat
  <2>1. pot' \in [Assets -> Int]
    BY <1>2, <1>4 DEF HoldingsSet
  <2>2. \A x \in Assets \ {SOL} : pot'[x] = stray[x]
    BY <1>2, <1>3, <1>4, <1>5, <1>6, <1>7
  <2> QED
    BY <1>1, <1>2, <1>8, <2>1, <2>2, NothingLeft
<1>10. ASSUME NEW p \in Parties, NEW x \in Assets
       PROVE  Owned(p, x)' = 0
  <2>1. wallet'[p][x] = wallet[p][x] + Gain(p, x, "A", x, InEscrow("A", x))
          + Gain(p, x, "B", x, InEscrow("B", x))
          + Gain(p, x, refund, SOL, Deposit(terms) + stray[SOL])
    BY <1>2, <1>3, <1>4, <1>9
  <2>2. wallet[p][x] + InEscrow(p, x)
          + (IF x = SOL THEN RentOf(p) - (IF p = refund THEN found ELSE 0) ELSE 0) = 0
    BY <1>1 DEF AllOrNothing, Owned
  <2>3. Owned(p, x)' = wallet'[p][x]
          + (IF x = SOL THEN RentOf(p)' - (IF p = refund THEN found + stray[SOL] ELSE 0) ELSE 0)
    <3>1. InEscrow(p, x)' = 0
      BY <1>2 DEF InEscrow
    <3>2. wallet'[p][x] \in Int
      BY <1>2, <1>4 DEF HoldingsSet, Wallets
    <3> QED
      BY <1>2, <1>12, <3>1, <3>2 DEF Owned
  <2>4. /\ RentOf(p) = IF p = refund THEN ReceiptRent + Deposit(terms) ELSE 0
        /\ RentOf(p)' = IF p = refund THEN ReceiptRent ELSE 0
    BY <1>1, <1>2, EscrowAssumption DEF RentOf
  <2>5. /\ ReceiptRent \in Nat /\ Deposit(terms) \in Nat /\ wallet[p][x] \in Int
        /\ stray[SOL] \in Nat /\ found \in Nat
    BY <1>1, <1>5, <1>6, EscrowAssumption DEF TypeOK
  <2>6. p \in {"A", "B"} /\ refund \in {"A", "B"} /\ "A" # "B"
    BY <1>6 DEF Parties
  <2>7. InEscrow("A", x) \in Nat /\ InEscrow("B", x) \in Nat
    BY <1>6, <1>7
  <2> QED
    BY <2>1, <2>2, <2>3, <2>4, <2>5, <2>6, <2>7 DEF Gain
<1>11. pot' = [x \in Assets |-> 0] /\ vaults' = {} /\ wallet' \in Wallets
  BY <1>2, <1>3, <1>4, <1>5, <1>8 DEF HoldingsSet
<1> QED
  BY <1>10, <1>11, <1>12

-----------------------------------------------------------------------------
(* The inductive invariant.                                                *)

LEMMA InitInv == Init => IInv
<1> SUFFICES ASSUME Init PROVE IInv
  OBVIOUS
<1>1. TypeOK
  BY DEF Init, TypeOK, Parties
<1>2. LiveIffOpen /\ Backed
  BY DEF Init, LiveIffOpen, Backed, InEscrow, Assets
<1>3. AllOrNothing
  BY DEF Init, AllOrNothing, Owned, InEscrow, RentOf
<1> QED
  BY <1>1, <1>2, <1>3 DEF IInv

\* Creating an escrow: nothing is deposited, and its creator has paid the rents.
LEMMA CreateStep ==
  ASSUME IInv, NEW q \in Parties, NEW t \in TermsSet, CreateEscrow(q, t)
  PROVE  IInv'
<1>1. TypeOK /\ receipt = "none" /\ AllOrNothing /\ t.owes \in [Parties -> Legs]
  BY EscrowAssumption DEF IInv, CreateEscrow, LiveIffOpen
<1>2. /\ receipt' = "open" /\ escrow' = "live" /\ terms' = t /\ refund' = q
      /\ funded' = [p \in Parties |-> FALSE]
      /\ pot' = [pot EXCEPT ![SOL] = EscrowRent] /\ vaults' = VaultsOf(t)
      /\ wallet' = [wallet EXCEPT ![q][SOL] = @ - Deposit(t) - ReceiptRent]
      /\ now' = now /\ stray' = stray /\ found' = found /\ escrow = "absent"
  BY <1>1, EscrowAssumption DEF CreateEscrow, outside
<1>3. Deposit(t) \in Nat /\ EscrowRent \in Nat /\ ReceiptRent \in Nat /\ SOL \in Assets
  BY EscrowAssumption DEF Deposit, Assets
<1>4. VaultsOf(t) \subseteq Mints
  BY <1>1 DEF VaultsOf, Legs, Assets
<1>5. \A p \in Parties, x \in Assets :
        wallet[p][x] \in Int /\ wallet[p][x] = 0
  <2>1. \A p \in Parties, x \in Assets : Owned(p, x) = wallet[p][x]
    BY <1>1, <1>2 DEF IInv, Backed, LiveIffOpen, TypeOK, Owned, InEscrow, RentOf
  <2> QED
    BY <1>1, <2>1 DEF AllOrNothing, TypeOK
<1>6. \A x \in Assets : pot[x] = 0 /\ stray[x] = 0
  <2>1. \A x \in Assets : InEscrow("A", x) = 0 /\ InEscrow("B", x) = 0 /\ stray[x] \in Nat
    BY <1>1, <1>2 DEF TypeOK, InEscrow
  <2>2. \A x \in Assets : pot[x] = 0
    BY <1>2 DEF IInv, Backed, Assets
  <2> QED
    BY <1>2, <2>1, <2>2 DEF IInv, Backed
<1>7. TypeOK'
  BY <1>1, <1>2, <1>3, <1>4 DEF TypeOK
<1>8. LiveIffOpen'
  BY <1>2 DEF LiveIffOpen, Parties
<1>9. \A p \in Parties, x \in Assets : InEscrow(p, x)' = 0
  BY <1>2 DEF InEscrow
<1>10. Backed'
  <2>1. \A x \in Assets : pot'[x] = IF x = SOL THEN EscrowRent ELSE 0
    BY <1>1, <1>2, <1>3, <1>6 DEF TypeOK
  <2>2. \A x \in Assets : pot'[x] = InEscrow("A", x)' + InEscrow("B", x)' + stray'[x]
                                     + (IF x = SOL /\ escrow' = "live" THEN EscrowRent ELSE 0)
    BY <1>2, <1>3, <1>6, <1>9, <2>1 DEF Parties
  <2>3. \A m \in Mints : pot'[m] = 0
    BY <2>1, EscrowAssumption DEF Assets
  <2>4. found' = 0
    BY <1>1, <1>2 DEF IInv, Backed
  <2>5. vaults' = VaultsOf(terms') /\ VaultsOf(terms)' = VaultsOf(terms')
    BY <1>2 DEF VaultsOf
  <2> QED
    BY <1>2, <2>2, <2>3, <2>4, <2>5 DEF Backed
<1>11. AllOrNothing'
  <2> SUFFICES ASSUME NEW p \in Parties, NEW x \in Assets PROVE Owned(p, x)' = 0
    BY <1>2 DEF AllOrNothing
  <2>1. wallet'[p][x] = IF p = q /\ x = SOL THEN - Deposit(t) - ReceiptRent ELSE 0
    BY <1>1, <1>2, <1>3, <1>5 DEF TypeOK
  <2>2. RentOf(p)' = IF p = q THEN ReceiptRent + Deposit(t) ELSE 0
    BY <1>2 DEF RentOf
  <2>3. found' = 0
    BY <1>1, <1>2 DEF IInv, Backed
  <2> QED
    BY <1>3, <1>9, <2>1, <2>2, <2>3 DEF Owned
<1> QED
  BY <1>7, <1>8, <1>10, <1>11 DEF IInv

\* The first funding: the deposit is in the escrow, and still its party's own.
LEMMA DepositStep ==
  ASSUME IInv, NEW q \in Parties, Fund(q), ~funded[Other(q)]
  PROVE  IInv'
<1>1. TypeOK /\ escrow = "live" /\ Backed /\ AllOrNothing /\ receipt = "open"
  BY DEF IInv, Fund, LiveIffOpen
<1>2. /\ pot' = Deposited(q).pot /\ vaults' = vaults /\ wallet' = Deposited(q).wallet
      /\ UNCHANGED <<receipt, escrow, now, terms, refund, stray, found>>
      /\ funded' = [funded EXCEPT ![q] = TRUE] /\ ~funded[q]
  BY DEF Fund, Apply, Deposited, outside
<1>3. /\ \A x \in Assets : pot'[x] = pot[x] + Leg(terms, q, x)
      /\ \A p \in Parties, x \in Assets :
           wallet'[p][x] = wallet[p][x] - Gain(p, x, q, x, Leg(terms, q, x))
      /\ Deposited(q) \in HoldingsSet
  BY <1>1, <1>2, DepositedEffect
<1>4. \A p \in Parties, x \in Assets : Leg(terms, p, x) \in Nat /\ Leg(terms, p, x)' = Leg(terms, p, x)
  BY <1>1, <1>2, LegsTyped DEF Leg
<1>5. \A p \in Parties, x \in Assets :
        /\ InEscrow(p, x) = 0
        /\ InEscrow(p, x)' = IF p = q THEN Leg(terms, q, x) ELSE 0
  BY <1>1, <1>2, <1>4 DEF TypeOK, InEscrow, Other, Parties
<1>6. TypeOK'
  <2>1. pot' \in [Assets -> Nat]
    BY <1>1, <1>2, <1>3, <1>4 DEF TypeOK, HoldingsSet
  <2>2. wallet' \in [Parties -> [Assets -> Int]]
    BY <1>2, <1>3 DEF HoldingsSet, Wallets
  <2> QED
    BY <1>1, <1>2, <2>1, <2>2 DEF TypeOK
<1>7. LiveIffOpen'
  BY <1>1, <1>2 DEF TypeOK, IInv, LiveIffOpen, Other, Parties
<1>8. Backed'
  <2>1. \A x \in Assets : /\ pot[x] = stray[x] + (IF x = SOL THEN EscrowRent ELSE 0)
                           /\ stray[x] \in Nat
    BY <1>1, <1>5, EscrowAssumption DEF TypeOK, Backed, Parties
  <2>2. \A x \in Assets : InEscrow("A", x)' + InEscrow("B", x)' = Leg(terms, q, x)
    BY <1>4, <1>5 DEF Parties
  <2>3. VaultsOf(terms)' = VaultsOf(terms)
    BY <1>2 DEF VaultsOf
  <2>4. \A x \in Assets :
          pot'[x] = InEscrow("A", x)' + InEscrow("B", x)' + stray[x]
                    + (IF x = SOL THEN EscrowRent ELSE 0)
    BY <1>3, <1>4, <2>1, <2>2, EscrowAssumption
  <2>5. \A m \in Mints : m \notin vaults => pot'[m] = 0
    <3> SUFFICES ASSUME NEW m \in Mints, m \notin vaults PROVE pot'[m] = 0
      OBVIOUS
    <3>1. Leg(terms, q, m) = 0
      BY <1>1, EscrowAssumption DEF Backed, VaultsOf, Leg
    <3>2. m \in Assets /\ pot[m] = 0
      BY <1>1 DEF Backed, Assets
    <3> QED
      BY <1>3, <3>1, <3>2
  <2> QED
    BY <1>1, <1>2, <2>3, <2>4, <2>5 DEF Backed
<1>9. AllOrNothing'
  <2> SUFFICES ASSUME NEW p \in Parties, NEW x \in Assets PROVE Owned(p, x)' = 0
    BY <1>1, <1>2 DEF AllOrNothing
  <2>1. wallet[p][x] + InEscrow(p, x) + (IF x = SOL THEN RentOf(p) ELSE 0) = 0
    <3>1. Owned(p, x) = 0 /\ found = 0
      BY <1>1 DEF AllOrNothing, Backed
    <3>2. RentOf(p) \in Int
      BY <1>1, EscrowAssumption DEF RentOf, Deposit
    <3> QED
      BY <3>1, <3>2 DEF Owned
  <2>2. RentOf(p)' = RentOf(p) /\ found' = 0
    BY <1>1, <1>2 DEF RentOf, Deposit, Backed
  <2>3. RentOf(p) \in Int /\ wallet[p][x] \in Int
    BY <1>1, EscrowAssumption DEF RentOf, Deposit, TypeOK
  <2> QED
    BY <1>3, <1>4, <1>5, <2>1, <2>2, <2>3 DEF Owned, Gain
<1> QED
  BY <1>6, <1>7, <1>8, <1>9 DEF IInv

\* A step that closes the escrow leaves it empty and its deal decided.
LEMMA ClosedInv ==
  ASSUME IInv, escrow' = "closed", receipt' \in {"settled", "cancelled"},
         terms' = terms, refund' = refund, now' = now,
         funded' \in [Parties -> BOOLEAN],
         pot' = [x \in Assets |-> 0], vaults' = {}, wallet' \in Wallets,
         stray' = [x \in Assets |-> 0], found' \in Nat,
         \A p \in Parties, x \in Assets : Owned(p, x)' =
           IF receipt' = "settled" THEN Leg(terms, Other(p), x) - Leg(terms, p, x) ELSE 0
  PROVE  IInv'
<1>1. TypeOK'
  BY DEF IInv, TypeOK, Wallets
<1>2. LiveIffOpen'
  BY DEF LiveIffOpen
<1>3. Backed'
  BY DEF Backed, InEscrow, Assets
<1>4. AllOrNothing'
  BY DEF AllOrNothing, Leg
<1> QED
  BY <1>1, <1>2, <1>3, <1>4 DEF IInv

\* Every step keeps the invariant.
LEMMA NextInv == IInv /\ [Next]_vars => IInv'
<1> SUFFICES ASSUME IInv, [Next]_vars PROVE IInv'
  OBVIOUS
<1>1. ASSUME NEW q \in Parties, Fund(q) PROVE IInv'
  <2>1. CASE ~funded[Other(q)]
    BY <1>1, <2>1, DepositStep
  <2>2. CASE funded[Other(q)]
    <3>1. /\ pot' = [x \in Assets |-> 0] /\ vaults' = {} /\ wallet' \in Wallets
          /\ stray' = [x \in Assets |-> 0] /\ found' \in Nat
          /\ \A p \in Parties, x \in Assets :
               Owned(p, x)' = Leg(terms, Other(p), x) - Leg(terms, p, x)
      BY <1>1, <2>2, SettleStep
    <3>2. /\ escrow' = "closed" /\ receipt' = "settled" /\ terms' = terms
          /\ refund' = refund /\ now' = now /\ funded' \in [Parties -> BOOLEAN]
      BY <1>1, <2>2 DEF Fund, Close, IInv, TypeOK
    <3> QED
      BY <3>1, <3>2, ClosedInv
  <2> QED
    BY <2>1, <2>2
<1>2. ASSUME NEW q \in Parties, NEW t \in TermsSet, CreateEscrow(q, t) PROVE IInv'
  BY <1>2, CreateStep
<1>3. CASE Cancel
  <2>1. /\ pot' = [x \in Assets |-> 0] /\ vaults' = {} /\ wallet' \in Wallets
        /\ stray' = [x \in Assets |-> 0] /\ found' \in Nat
        /\ \A p \in Parties, x \in Assets : Owned(p, x)' = 0
    BY <1>3, CancelStep
  <2>2. /\ escrow' = "closed" /\ receipt' = "cancelled" /\ terms' = terms
        /\ refund' = refund /\ now' = now /\ funded' \in [Parties -> BOOLEAN]
    BY <1>3 DEF Cancel, Close, data, IInv, TypeOK
  <2> QED
    BY <2>1, <2>2, ClosedInv
<1>4. CASE Purge
  <2>1. TypeOK'
    BY <1>4 DEF Purge, data, outside, IInv, TypeOK
  <2>2. LiveIffOpen'
    BY <1>4 DEF Purge, data, outside, IInv, LiveIffOpen
  <2>3. Backed'
    BY <1>4 DEF Purge, data, outside, IInv, Backed, InEscrow
  <2>4. AllOrNothing'
    BY <1>4 DEF Purge, data, outside, IInv, AllOrNothing, Owned, InEscrow, RentOf, Leg
  <2> QED
    BY <2>1, <2>2, <2>3, <2>4 DEF IInv
<1>5. CASE UNCHANGED <<receipt, escrow, data, pot, vaults, wallet, outside>> /\ now' \in Nat
  <2>1. TypeOK'
    BY <1>5 DEF data, outside, IInv, TypeOK
  <2>2. LiveIffOpen'
    BY <1>5 DEF data, outside, IInv, LiveIffOpen
  <2>3. Backed'
    BY <1>5 DEF data, outside, IInv, Backed, InEscrow, VaultsOf, Leg
  <2>4. AllOrNothing'
    BY <1>5 DEF data, outside, IInv, AllOrNothing, Owned, InEscrow, RentOf, Leg, Deposit
  <2> QED
    BY <2>1, <2>2, <2>3, <2>4 DEF IInv
<1>6. Tick \/ UNCHANGED vars =>
        UNCHANGED <<receipt, escrow, data, pot, vaults, wallet, outside>> /\ now' \in Nat
  BY DEF Tick, vars, IInv, TypeOK
<1>7. ASSUME NEW y \in Assets, Stray(y) PROVE IInv'
  <2>1. /\ pot \in [Assets -> Nat] /\ stray \in [Assets -> Nat]
        /\ pot' = [pot EXCEPT ![y] = @ + 1] /\ stray' = [stray EXCEPT ![y] = @ + 1]
        /\ UNCHANGED <<now, receipt, escrow, terms, refund, funded, vaults, wallet, found>>
        /\ y = SOL => escrow # "absent"
        /\ y # SOL => y \in vaults
    BY <1>7, EscrowAssumption DEF Stray, data, IInv, TypeOK
  <2>2. \A x \in Assets : /\ pot'[x] = pot[x] + (IF x = y THEN 1 ELSE 0)
                           /\ stray'[x] = stray[x] + (IF x = y THEN 1 ELSE 0)
    BY <2>1
  <2>3. TypeOK'
    BY <2>1 DEF IInv, TypeOK
  <2>4. LiveIffOpen'
    BY <2>1 DEF IInv, LiveIffOpen
  <2>5. \A p \in Parties, x \in Assets :
          /\ InEscrow(p, x)' = InEscrow(p, x) /\ InEscrow(p, x) \in Nat
          /\ Leg(terms, p, x)' = Leg(terms, p, x)
    BY <2>1, LegsTyped DEF IInv, InEscrow, Leg
  <2>6. Backed'
    <3>1. \A x \in Assets :
            pot[x] = InEscrow("A", x) + InEscrow("B", x) + stray[x]
                     + (IF x = SOL /\ escrow = "live" THEN EscrowRent ELSE 0)
      BY DEF IInv, Backed
    <3>2. \A x \in Assets :
            pot'[x] = InEscrow("A", x) + InEscrow("B", x) + stray'[x]
                      + (IF x = SOL /\ escrow = "live" THEN EscrowRent ELSE 0)
      BY <2>1, <2>2, <2>5, <3>1, EscrowAssumption DEF Parties
    <3>3. \A m \in Mints : m \notin vaults => pot'[m] = 0
      BY <2>1, <2>2, EscrowAssumption DEF IInv, Backed, Assets
    <3>4. escrow = "absent" => pot'[SOL] = 0
      BY <2>1, <2>2 DEF IInv, Backed, Assets
    <3> QED
      BY <2>1, <2>5, <3>2, <3>3, <3>4 DEF IInv, Backed, VaultsOf, Parties
  <2>7. AllOrNothing'
    BY <2>1 DEF IInv, AllOrNothing, Owned, InEscrow, RentOf, Leg, Deposit
  <2> QED
    BY <2>3, <2>4, <2>6, <2>7 DEF IInv
<1> QED
  BY <1>1, <1>2, <1>3, <1>4, <1>5, <1>6, <1>7 DEF Next

\* The inductive invariant holds in every state.
THEOREM Invariant == Spec => []IInv
BY InitInv, NextInv, PTL DEF Spec

\* The escrow's data are well typed; its pots are never overdrawn.
THEOREM TypeCorrect == Spec => []TypeOK
<1>1. IInv => TypeOK
  BY DEF IInv
<1> QED
  BY <1>1, Invariant, PTL

\* No negotiation is settled or cancelled twice, or started anew.
THEOREM Consumed == Spec => []LiveIffOpen
<1>1. IInv => LiveIffOpen
  BY DEF IInv
<1> QED
  BY <1>1, Invariant, PTL

\* The escrow holds its rent, what was deposited, and what was paid in from outside.
THEOREM FullyBacked == Spec => []Backed
<1>1. IInv => Backed
  BY DEF IInv
<1> QED
  BY <1>1, Invariant, PTL

\* In every state both legs have changed hands or neither has.
THEOREM Atomic == Spec => []AllOrNothing
<1>1. IInv => AllOrNothing
  BY DEF IInv
<1> QED
  BY <1>1, Invariant, PTL

-----------------------------------------------------------------------------
(* No money is stuck: refunds and settlements that may run succeed.        *)

\* What a closing escrow account pays out: its rent, and stray lamports.
Kept == EscrowRent + stray[SOL]

\* The escrow's assets, leg by leg.
LEMMA LiveLegs ==
  ASSUME IInv, escrow = "live", ~Stuck
  PROVE  /\ Owed("A") \in Legs /\ Owed("B") \in Legs /\ refund \in Parties
         /\ "A" \in Parties /\ "B" \in Parties /\ Kept \in Nat
         /\ Owed("A").asset # SOL => Owed("A").asset # Owed("B").asset
         /\ vaults = {Owed("A").asset, Owed("B").asset} \ {SOL}
         /\ pot \in [Assets -> Nat]
         /\ \A x \in Assets : pot[x] = InEscrow("A", x) + InEscrow("B", x)
                                        + (IF x = SOL THEN Kept ELSE 0)
         /\ \A p \in Parties, x \in Assets :
              /\ Leg(terms, p, x) = IF x = Owed(p).asset THEN Owed(p).amount ELSE 0
              /\ Leg(terms, p, x) \in Nat
              /\ InEscrow(p, x) = IF funded[p] THEN Leg(terms, p, x) ELSE 0
<1>1. TypeOK /\ Backed
  BY DEF IInv
<1>2. vaults = {Owed("A").asset, Owed("B").asset} \ {SOL}
  BY <1>1 DEF Backed, VaultsOf, Owed, Parties
<1>3. Owed("A").asset # SOL => Owed("A").asset # Owed("B").asset
  BY DEF Stuck, SharedVault, Owed
<1>4. pot \in [Assets -> Nat]
  BY <1>1 DEF TypeOK
<1>5. Kept \in Nat
  BY <1>1, EscrowAssumption DEF TypeOK, Assets, Kept
<1>6. \A p \in Parties, x \in Assets :
        InEscrow(p, x) = IF funded[p] THEN Leg(terms, p, x) ELSE 0
  BY DEF InEscrow
<1>7. \A x \in Assets : pot[x] = InEscrow("A", x) + InEscrow("B", x)
                                   + (IF x = SOL THEN Kept ELSE 0)
  <2>1. \A x \in Assets : pot[x] = InEscrow("A", x) + InEscrow("B", x) + stray[x]
                                      + (IF x = SOL THEN EscrowRent ELSE 0)
    BY <1>1, LiveFacts
  <2>2. /\ \A x \in Assets : stray[x] \in Nat /\ (x # SOL => stray[x] = 0)
        /\ \A p \in Parties, x \in Assets : InEscrow(p, x) \in Nat
    <3>1. stray \in [Assets -> Nat] /\ \A m \in Mints : ~(stray[m] > 0)
      BY <1>1 DEF TypeOK, Stuck
    <3>2. \A x \in Assets : stray[x] \in Nat /\ (x # SOL => stray[x] = 0)
      <4> SUFFICES ASSUME NEW x \in Assets PROVE stray[x] \in Nat /\ (x # SOL => stray[x] = 0)
        OBVIOUS
      <4>1. stray[x] \in Nat
        BY <3>1
      <4>2. x # SOL => ~(stray[x] > 0)
        BY <3>1 DEF Assets
      <4> QED
        BY <4>1, <4>2
    <3> QED
      BY <1>1, <1>6, <3>2, LegsTyped
  <2> QED
    BY <2>1, <2>2, EscrowAssumption DEF Kept, Parties
<1> QED
  BY <1>1, <1>2, <1>3, <1>4, <1>5, <1>6, <1>7, LegsTyped

\* What the return of a leg, and a vault's closing, need in order to succeed.
LEMMA ReturnOk ==
  ASSUME TypeOK, escrow = "live", NEW h \in HoldingsSet, NEW q \in Parties,
         NEW k, k = IF funded[q] THEN Pay(h, Owed(q), q) ELSE h,
         h.ok, funded[q] => Owed(q).amount <= h.pot[Owed(q).asset],
         Owed(q).asset = SOL \/ Owed(q).asset \in h.vaults
  PROVE  /\ k \in HoldingsSet /\ k.vaults = h.vaults /\ k.ok
         /\ \A x \in Assets : k.pot[x] = h.pot[x] - InEscrow(q, x)
<1>1. /\ k \in HoldingsSet /\ k.vaults = h.vaults
      /\ \A x \in Assets : k.pot[x] = h.pot[x] - InEscrow(q, x)
  BY ReturnEffect
<1>2. k.ok
  BY DEF Pay
<1> QED
  BY <1>1, <1>2

LEMMA PayOk ==
  ASSUME NEW h \in HoldingsSet, NEW leg \in Legs, NEW to \in Parties, NEW k, k = Pay(h, leg, to),
         h.ok, leg.amount <= h.pot[leg.asset], leg.asset = SOL \/ leg.asset \in h.vaults
  PROVE  /\ k \in HoldingsSet /\ k.vaults = h.vaults /\ k.ok
         /\ \A x \in Assets : k.pot[x] = h.pot[x] - (IF x = leg.asset THEN leg.amount ELSE 0)
BY PayEffect

LEMMA CloseOk ==
  ASSUME NEW h \in HoldingsSet, NEW leg \in Legs, NEW to \in Parties,
         NEW k, k = CloseVault(h, leg, to),
         h.ok, leg.asset # SOL => leg.asset \in h.vaults /\ h.pot[leg.asset] = 0
  PROVE  k \in HoldingsSet /\ k.pot = h.pot /\ k.vaults = h.vaults \ {leg.asset} /\ k.ok
BY CloseVaultEffect

LEMMA RefundSucceeds ==
  ASSUME IInv, escrow = "live", ~Stuck
  PROVE  Refunded(Holdings).ok
<1> DEFINE a == Owed("A")
           b == Owed("B")
           h == Holdings
           h1 == IF funded["A"] THEN Pay(h, a, "A") ELSE h
           h2 == IF funded["B"] THEN Pay(h1, b, "B") ELSE h1
           h3 == CloseVault(h2, a, refund)
           h4 == CloseVault(h3, b, refund)
<1>1. Refunded(Holdings).ok = h4.ok
  BY DEF Refunded, CloseEscrow
<1>2. /\ a \in Legs /\ b \in Legs /\ refund \in Parties
      /\ "A" \in Parties /\ "B" \in Parties /\ Kept \in Nat
      /\ a.asset # SOL => a.asset # b.asset
      /\ vaults = {a.asset, b.asset} \ {SOL}
  BY LiveLegs
<1>3. a.asset \in Assets /\ b.asset \in Assets /\ a.amount \in Nat /\ b.amount \in Nat /\ TypeOK
  BY <1>2 DEF Legs, IInv
<1>4. h \in HoldingsSet /\ h.vaults = vaults /\ h.pot = pot /\ h.ok = TRUE
  BY <1>2, <1>3, DepositedEffect DEF Holdings
<1>5. \A x \in Assets :
        /\ pot[x] = InEscrow("A", x) + InEscrow("B", x) + (IF x = SOL THEN Kept ELSE 0)
        /\ InEscrow("A", x) = IF funded["A"] /\ x = a.asset THEN a.amount ELSE 0
        /\ InEscrow("B", x) = IF funded["B"] /\ x = b.asset THEN b.amount ELSE 0
        /\ InEscrow("A", x) \in Nat /\ InEscrow("B", x) \in Nat
  <2>1. /\ \A x \in Assets : pot[x] = InEscrow("A", x) + InEscrow("B", x)
                                       + (IF x = SOL THEN Kept ELSE 0)
        /\ \A p \in Parties, x \in Assets :
             /\ Leg(terms, p, x) = IF x = Owed(p).asset THEN Owed(p).amount ELSE 0
             /\ InEscrow(p, x) = IF funded[p] THEN Leg(terms, p, x) ELSE 0
    BY LiveLegs
  <2> QED
    BY <1>2, <1>3, <2>1
<1>6. /\ h1 = IF funded["A"] THEN Pay(h, Owed("A"), "A") ELSE h
      /\ h2 = IF funded["B"] THEN Pay(h1, Owed("B"), "B") ELSE h1
      /\ h3 = CloseVault(h2, a, refund) /\ h4 = CloseVault(h3, b, refund)
      /\ a = Owed("A") /\ b = Owed("B")
  OBVIOUS
<1> HIDE DEF a, b, h, h1, h2, h3, h4
<1>7. /\ h1 \in HoldingsSet /\ h1.vaults = vaults /\ h1.ok
      /\ \A x \in Assets : h1.pot[x] = pot[x] - InEscrow("A", x)
  <2>1. funded["A"] => a.amount <= h.pot[a.asset]
    BY <1>2, <1>3, <1>4, <1>5
  <2>2. a.asset = SOL \/ a.asset \in h.vaults
    BY <1>2, <1>4
  <2>3. /\ h1 \in HoldingsSet /\ h1.vaults = h.vaults /\ h1.ok
        /\ \A x \in Assets : h1.pot[x] = h.pot[x] - InEscrow("A", x)
    BY <1>2, <1>3, <1>4, <1>6, <2>1, <2>2, ReturnOk
  <2> QED
    BY <1>4, <2>3
<1>8. /\ h2 \in HoldingsSet /\ h2.vaults = vaults /\ h2.ok
      /\ \A x \in Assets : h2.pot[x] = h1.pot[x] - InEscrow("B", x)
  <2>1. funded["B"] => b.amount <= h1.pot[b.asset]
    BY <1>2, <1>3, <1>5, <1>7
  <2>2. b.asset = SOL \/ b.asset \in h1.vaults
    BY <1>2, <1>7
  <2>3. /\ h2 \in HoldingsSet /\ h2.vaults = h1.vaults /\ h2.ok
        /\ \A x \in Assets : h2.pot[x] = h1.pot[x] - InEscrow("B", x)
    BY <1>2, <1>3, <1>6, <1>7, <2>1, <2>2, ReturnOk
  <2> QED
    BY <1>7, <2>3
<1>9. \A x \in Assets : h2.pot[x] = IF x = SOL THEN Kept ELSE 0
  <2> SUFFICES ASSUME NEW x \in Assets PROVE h2.pot[x] = IF x = SOL THEN Kept ELSE 0
    OBVIOUS
  <2>1. h2.pot[x] = pot[x] - InEscrow("A", x) - InEscrow("B", x)
    BY <1>7, <1>8
  <2>2. /\ pot[x] = InEscrow("A", x) + InEscrow("B", x) + (IF x = SOL THEN Kept ELSE 0)
        /\ InEscrow("A", x) \in Nat /\ InEscrow("B", x) \in Nat
    BY <1>5
  <2> QED
    BY <1>2, <2>1, <2>2
<1>10. h3 \in HoldingsSet /\ h3.pot = h2.pot /\ h3.vaults = h2.vaults \ {a.asset} /\ h3.ok
  <2>1. a.asset # SOL => a.asset \in h2.vaults /\ h2.pot[a.asset] = 0
    BY <1>2, <1>3, <1>8, <1>9
  <2>2. h2 \in HoldingsSet /\ h2.ok /\ a \in Legs /\ refund \in Parties /\ h3 = CloseVault(h2, a, refund)
    BY <1>2, <1>6, <1>8
  <2> QED
    BY <2>1, <2>2, CloseOk
<1>11. b.asset # SOL => b.asset \in h3.vaults /\ h3.pot[b.asset] = 0
  BY <1>2, <1>3, <1>8, <1>9, <1>10
<1>12. h4.ok
  <2>1. h3 \in HoldingsSet /\ h3.ok /\ b \in Legs /\ refund \in Parties /\ h4 = CloseVault(h3, b, refund)
    BY <1>2, <1>6, <1>10
  <2> QED
    BY <1>11, <2>1, CloseOk
<1> QED
  BY <1>1, <1>12

LEMMA SettlementSucceeds ==
  ASSUME IInv, escrow = "live", ~Stuck, NEW q \in Parties, funded[Other(q)]
  PROVE  Settled(Deposited(q)).ok
<1> DEFINE a == Owed("A")
           b == Owed("B")
           h == Deposited(q)
           h1 == Pay(h, a, "B")
           h2 == CloseVault(h1, a, refund)
           h3 == Pay(h2, b, "A")
           h4 == CloseVault(h3, b, refund)
<1>1. Settled(Deposited(q)).ok = h4.ok
  BY DEF Settled, CloseEscrow
<1>2. /\ a \in Legs /\ b \in Legs /\ refund \in Parties
      /\ "A" \in Parties /\ "B" \in Parties /\ Kept \in Nat
      /\ a.asset # SOL => a.asset # b.asset
      /\ vaults = {a.asset, b.asset} \ {SOL}
      /\ pot \in [Assets -> Nat]
  BY LiveLegs
<1>3. a.asset \in Assets /\ b.asset \in Assets /\ a.amount \in Nat /\ b.amount \in Nat
  BY <1>2 DEF Legs
<1>4. \A x \in Assets : /\ Leg(terms, "A", x) = IF x = a.asset THEN a.amount ELSE 0
                        /\ Leg(terms, "B", x) = IF x = b.asset THEN b.amount ELSE 0
                        /\ Leg(terms, "A", x) \in Nat /\ Leg(terms, "B", x) \in Nat
  BY <1>2, LiveLegs
<1>5. ~funded[q] /\ q \in {"A", "B"} /\ (Other(q) = IF q = "A" THEN "B" ELSE "A")
  BY DEF IInv, LiveIffOpen, Other, Parties
<1>6. /\ h \in HoldingsSet /\ h.vaults = vaults /\ h.ok
      /\ \A x \in Assets : h.pot[x] = pot[x] + Leg(terms, q, x)
  <2>1. TypeOK
    BY DEF IInv
  <2>2. h.ok
    BY DEF Deposited
  <2> QED
    BY <2>1, <2>2, DepositedEffect
<1>7. \A x \in Assets : pot[x] = Leg(terms, Other(q), x) + (IF x = SOL THEN Kept ELSE 0)
  <2>1. /\ \A x \in Assets : pot[x] = InEscrow("A", x) + InEscrow("B", x)
                                       + (IF x = SOL THEN Kept ELSE 0)
        /\ \A p \in Parties, x \in Assets :
             InEscrow(p, x) = IF funded[p] THEN Leg(terms, p, x) ELSE 0
    BY LiveLegs
  <2> QED
    BY <1>2, <1>4, <1>5, <2>1
<1>8. /\ h1 = Pay(h, a, "B") /\ h2 = CloseVault(h1, a, refund)
      /\ h3 = Pay(h2, b, "A") /\ h4 = CloseVault(h3, b, refund)
  OBVIOUS
<1> HIDE DEF h, a, b, h1, h2, h3, h4
<1>9. \A x \in Assets : h.pot[x] = Leg(terms, "A", x) + Leg(terms, "B", x)
                                    + (IF x = SOL THEN Kept ELSE 0)
  BY <1>2, <1>4, <1>5, <1>6, <1>7
<1>10. /\ h1 \in HoldingsSet /\ h1.vaults = h.vaults /\ h1.ok
       /\ \A x \in Assets : h1.pot[x] = h.pot[x] - (IF x = a.asset THEN a.amount ELSE 0)
  <2>1. a.amount <= h.pot[a.asset] /\ (a.asset = SOL \/ a.asset \in h.vaults)
    BY <1>2, <1>3, <1>4, <1>6, <1>9
  <2>2. h \in HoldingsSet /\ h.ok /\ a \in Legs /\ "B" \in Parties /\ h1 = Pay(h, a, "B")
    BY <1>2, <1>6, <1>8
  <2> QED
    BY <2>1, <2>2, PayOk
<1>11. \A x \in Assets : h1.pot[x] = Leg(terms, "B", x) + (IF x = SOL THEN Kept ELSE 0)
  BY <1>2, <1>4, <1>9, <1>10
<1>12. h2 \in HoldingsSet /\ h2.pot = h1.pot /\ h2.vaults = h1.vaults \ {a.asset} /\ h2.ok
  <2>1. a.asset # SOL => a.asset \in h1.vaults /\ h1.pot[a.asset] = 0
    BY <1>2, <1>3, <1>4, <1>6, <1>10, <1>11
  <2>2. h1 \in HoldingsSet /\ h1.ok /\ a \in Legs /\ refund \in Parties /\ h2 = CloseVault(h1, a, refund)
    BY <1>2, <1>8, <1>10
  <2> QED
    BY <2>1, <2>2, CloseOk
<1>13. /\ h3 \in HoldingsSet /\ h3.vaults = h2.vaults /\ h3.ok
       /\ \A x \in Assets : h3.pot[x] = h2.pot[x] - (IF x = b.asset THEN b.amount ELSE 0)
  <2>1. b.amount <= h2.pot[b.asset]
    BY <1>2, <1>3, <1>4, <1>11, <1>12
  <2>2. b.asset = SOL \/ b.asset \in h2.vaults
    BY <1>2, <1>6, <1>10, <1>12
  <2>3. h2 \in HoldingsSet /\ h2.ok /\ b \in Legs /\ "A" \in Parties /\ h3 = Pay(h2, b, "A")
    BY <1>2, <1>8, <1>12
  <2> QED
    BY <2>1, <2>2, <2>3, PayOk
<1>14. b.asset # SOL => b.asset \in h3.vaults /\ h3.pot[b.asset] = 0
  <2>1. b.asset # SOL => b.asset \in h3.vaults
    BY <1>2, <1>6, <1>10, <1>12, <1>13
  <2>2. b.asset # SOL => h3.pot[b.asset] = 0
    BY <1>3, <1>4, <1>11, <1>12, <1>13
  <2> QED
    BY <2>1, <2>2
<1>15. h4.ok
  <2>1. h3 \in HoldingsSet /\ h3.ok /\ b \in Legs /\ refund \in Parties /\ h4 = CloseVault(h3, b, refund)
    BY <1>2, <1>8, <1>13
  <2> QED
    BY <1>14, <2>1, CloseOk
<1> QED
  BY <1>1, <1>15

\* A unit that somebody paid into a vault is in its mint's pot, and its vault open.
LEMMA StrayInVault ==
  ASSUME IInv, escrow = "live", NEW m \in Mints, stray[m] > 0
  PROVE  m \in {Owed("A").asset, Owed("B").asset} /\ m \in Assets /\ m # SOL
<1>1. m \in Assets /\ m # SOL
  BY EscrowAssumption DEF Assets
<1>2. TypeOK /\ Backed
  BY DEF IInv
<1>3. pot[m] = InEscrow("A", m) + InEscrow("B", m) + stray[m] /\ stray[m] \in Nat
  BY <1>1, <1>2, LiveFacts, LegsTyped DEF InEscrow
<1>4. InEscrow("A", m) \in Nat /\ InEscrow("B", m) \in Nat
  BY <1>1, <1>2, LegsTyped DEF InEscrow
<1> QED
  BY <1>1, <1>2, <1>3, <1>4, LiveFacts

LEMMA RefundNeeds ==
  ASSUME IInv, escrow = "live", Refunded(Holdings).ok
  PROVE  ~Stuck
<1> DEFINE h == Holdings
           k == Refunded(h)
<1>1. TypeOK /\ Backed
  BY DEF IInv
<1>2. h \in HoldingsSet /\ h.pot = pot /\ Refunded(h).ok
  BY <1>1, LegsTyped, DepositedEffect DEF Holdings
<1>3. /\ ~SharedVault(terms)
      /\ \A x \in {Owed("A").asset, Owed("B").asset} : k.pot[x] = 0
      /\ \A x \in Assets : k.pot[x] =
           IF x = SOL THEN 0 ELSE pot[x] - InEscrow("A", x) - InEscrow("B", x)
  <2> HIDE DEF h
  <2> QED
    BY <1>1, <1>2, RefundedEffect
<1> HIDE DEF h, k
<1>4. ASSUME NEW m \in Mints, stray[m] > 0 PROVE FALSE
  <2>1. m \in {Owed("A").asset, Owed("B").asset} /\ m \in Assets /\ m # SOL
    BY <1>4, StrayInVault
  <2>2. pot[m] = InEscrow("A", m) + InEscrow("B", m) + stray[m] /\ stray[m] \in Nat
    BY <1>1, <2>1, LiveFacts, LegsTyped DEF InEscrow
  <2>3. InEscrow("A", m) \in Nat /\ InEscrow("B", m) \in Nat
    BY <1>1, <2>1, LegsTyped DEF InEscrow
  <2>4. pot[m] - InEscrow("A", m) - InEscrow("B", m) = 0
    BY <1>3, <2>1
  <2> QED
    BY <1>4, <2>2, <2>3, <2>4
<1> QED
  BY <1>3, <1>4 DEF Stuck

LEMMA SettlementNeeds ==
  ASSUME IInv, escrow = "live", NEW q \in Parties, funded[Other(q)], Settled(Deposited(q)).ok
  PROVE  ~Stuck
<1> DEFINE h == Deposited(q)
           k == Settled(h)
<1>1. TypeOK /\ Backed
  BY DEF IInv
<1>2. /\ h \in HoldingsSet /\ Settled(h).ok
      /\ \A x \in Assets : h.pot[x] = pot[x] + Leg(terms, q, x)
  BY <1>1, DepositedEffect
<1>3. /\ ~SharedVault(terms)
      /\ \A x \in {Owed("A").asset, Owed("B").asset} : k.pot[x] = 0
      /\ \A x \in Assets : k.pot[x] =
           IF x = SOL THEN 0 ELSE h.pot[x] - Leg(terms, "A", x) - Leg(terms, "B", x)
  <2> HIDE DEF h
  <2> QED
    BY <1>1, <1>2, SettledEffect
<1> HIDE DEF h, k
<1>4. ~funded[q] /\ q \in {"A", "B"} /\ (Other(q) = IF q = "A" THEN "B" ELSE "A")
  BY DEF IInv, LiveIffOpen, Other, Parties
<1>5. ASSUME NEW m \in Mints, stray[m] > 0 PROVE FALSE
  <2>1. m \in {Owed("A").asset, Owed("B").asset} /\ m \in Assets /\ m # SOL
    BY <1>5, StrayInVault
  <2>2. pot[m] = InEscrow("A", m) + InEscrow("B", m) + stray[m] /\ stray[m] \in Nat
    BY <1>1, <2>1, LiveFacts, LegsTyped DEF InEscrow
  <2>3. /\ InEscrow("A", m) = (IF q = "A" THEN 0 ELSE Leg(terms, "A", m))
        /\ InEscrow("B", m) = (IF q = "B" THEN 0 ELSE Leg(terms, "B", m))
        /\ Leg(terms, "A", m) \in Nat /\ Leg(terms, "B", m) \in Nat
    BY <1>1, <1>4, <2>1, LegsTyped DEF InEscrow
  <2>4. pot[m] + Leg(terms, q, m) - Leg(terms, "A", m) - Leg(terms, "B", m) = 0
    <3>1. k.pot[m] = 0 /\ k.pot[m] = h.pot[m] - Leg(terms, "A", m) - Leg(terms, "B", m)
      BY <1>3, <2>1
    <3>2. h.pot[m] = pot[m] + Leg(terms, q, m)
      BY <1>2, <2>1
    <3>3. pot[m] \in Nat /\ Leg(terms, q, m) \in Nat
      BY <1>1, <2>1, LegsTyped DEF TypeOK
    <3> QED
      BY <2>3, <3>1, <3>2, <3>3
  <2> QED
    BY <1>4, <1>5, <2>2, <2>3, <2>4
<1> QED
  BY <1>3, <1>5 DEF Stuck

\* A live escrow can be called off exactly as long as its legs have vaults of their
\* own and nobody has paid a token into one of them.
THEOREM Refundable == Spec => []RefundPossible
<1>1. IInv => RefundPossible
  BY RefundSucceeds, RefundNeeds DEF RefundPossible
<1> QED
  BY <1>1, Invariant, PTL

\* And a half-funded escrow can be completed exactly that long.
THEOREM Completable == Spec => []SettlePossible
<1>1. IInv => SettlePossible
  BY SettlementSucceeds, SettlementNeeds DEF SettlePossible
<1> QED
  BY <1>1, Invariant, PTL

-----------------------------------------------------------------------------
(* Refinement of the atomic swap.                                          *)

\* By the invariant, what the parties own is a function of outcome and terms.
OwnedNow == [p \in Parties |-> [x \in Assets |-> Owned(p, x)]]
OwnedBy(r, t) ==
  [p \in Parties |-> [x \in Assets |->
     IF r = "settled" THEN Leg(t, Other(p), x) - Leg(t, p, x) ELSE 0]]

LEMMA OwnedIs == IInv => OwnedNow = OwnedBy(receipt, terms)
BY DEF IInv, AllOrNothing, OwnedNow, OwnedBy

\* The escrow program implements the atomic swap.
THEOREM Refinement == Spec => ImplementsAtomicSwap
<1>1. Init => Abstract!Init
  BY DEF Init, Abstract!Init, Owned, InEscrow, RentOf, Parties, Assets
<1>2. ASSUME IInv, IInv', [Next]_vars
      PROVE  [Abstract!Next]_<<receipt, terms, OwnedNow>>
  <2>1. OwnedNow = OwnedBy(receipt, terms) /\ OwnedNow' = OwnedBy(receipt', terms')
    <3>1. OwnedNow = OwnedBy(receipt, terms)
      BY <1>2, OwnedIs
    <3>2. OwnedNow' = OwnedBy(receipt, terms)'
      BY <1>2 DEF IInv, AllOrNothing, OwnedNow, OwnedBy
    <3>3. OwnedBy(receipt, terms)' = OwnedBy(receipt', terms')
      BY DEF OwnedBy, Leg
    <3> QED
      BY <3>1, <3>2, <3>3
  <2>2. ASSUME NEW q \in Parties, Fund(q), funded[Other(q)] PROVE Abstract!Swap
    <3>1. receipt = "open" /\ receipt' = "settled" /\ terms' = terms /\ terms \in TermsSet
      BY <1>2, <2>2 DEF Fund, IInv, TypeOK
    <3>2. OwnedNow = [p \in Parties |-> [x \in Assets |-> 0]]
      BY <2>1, <3>1 DEF OwnedBy
    <3>3. OwnedNow' = [p \in Parties |-> [x \in Assets |->
                        OwnedNow[p][x] - Leg(terms, p, x) + Leg(terms, Other(p), x)]]
      <4>1. \A p \in Parties, x \in Assets :
              Leg(terms, Other(p), x) - Leg(terms, p, x)
                = OwnedNow[p][x] - Leg(terms, p, x) + Leg(terms, Other(p), x)
        BY <1>2, <3>2, LegsTyped DEF IInv, Other, Parties
      <4> QED
        BY <2>1, <3>1, <4>1 DEF OwnedBy
    <3> QED
      BY <3>1, <3>3 DEF Abstract!Swap, OwnedNow
  <2>3. ASSUME NEW q \in Parties, NEW t \in TermsSet, CreateEscrow(q, t) PROVE Abstract!Agree
    <3>1. receipt = "none" /\ receipt' = "open" /\ terms' \in TermsSet
      BY <1>2, <2>3 DEF CreateEscrow, IInv, LiveIffOpen
    <3>2. OwnedNow' = OwnedNow
      BY <2>1, <3>1 DEF OwnedBy
    <3> QED
      BY <3>1, <3>2 DEF Abstract!Agree, OwnedNow
  <2>4. ASSUME Cancel PROVE Abstract!CallOff
    <3>1. receipt = "open" /\ receipt' = "cancelled" /\ terms' = terms
      BY <2>4 DEF Cancel, data
    <3>2. OwnedNow' = OwnedNow
      BY <2>1, <3>1 DEF OwnedBy
    <3> QED
      BY <3>1, <3>2 DEF Abstract!CallOff, OwnedNow
  <2>5. ASSUME receipt' = receipt, terms' = terms
        PROVE  UNCHANGED <<receipt, terms, OwnedNow>>
    BY <2>1, <2>5
  <2>6. ASSUME NEW q \in Parties, Fund(q), ~funded[Other(q)]
        PROVE  receipt' = receipt /\ terms' = terms
    BY <2>6 DEF Fund
  <2>7. Purge \/ Tick \/ (\E x \in Assets : Stray(x)) \/ UNCHANGED vars =>
          receipt' = receipt /\ terms' = terms
    BY DEF Purge, Tick, Stray, vars, data
  <2> HIDE DEF OwnedNow
  <2>8. ASSUME NEW q \in Parties, Fund(q)
        PROVE  Abstract!Next \/ UNCHANGED <<receipt, terms, OwnedNow>>
    BY <2>2, <2>5, <2>6, <2>8 DEF Abstract!Next
  <2>9. ASSUME NEW q \in Parties, NEW t \in TermsSet, CreateEscrow(q, t)
        PROVE  Abstract!Next
    BY <2>3, <2>9 DEF Abstract!Next
  <2>10. Cancel => Abstract!Next
    BY <2>4 DEF Abstract!Next
  <2>11. Purge \/ Tick \/ (\E x \in Assets : Stray(x)) \/ UNCHANGED vars =>
           UNCHANGED <<receipt, terms, OwnedNow>>
    BY <2>5, <2>7
  <2> QED
    BY <1>2, <2>8, <2>9, <2>10, <2>11 DEF Next
<1> QED
  BY <1>1, <1>2, Invariant, PTL DEF Spec, ImplementsAtomicSwap, Abstract!Spec, OwnedNow

=============================================================================
