------------------------- MODULE IdempotencyProofs -------------------------
(***************************************************************************)
(* Proofs about Idempotency, for every set of requests, assignment of keys *)
(* and value of the TTL and of the cache limit.  The inductive invariant   *)
(* is IInv; each of its parts is preserved by every handler step.          *)
(***************************************************************************)
EXTENDS Idempotency, TLAPS, FiniteSetTheorems

Cache == [Keys -> Entry \cup {NoEntry}]

\* Trimming keeps no more than MaxKeys of the keys present ...
LEMMA SurvivorsBounded ==
  ASSUME NEW d, NEW t, NEW keep \in Survivors(d, t)
  PROVE  keep \subseteq Present(d) /\ Cardinality(keep) <= MaxKeys
<1>1. CASE Cardinality(Present(d)) <= MaxKeys
  BY <1>1 DEF Survivors
<1>2. CASE ~(Cardinality(Present(d)) <= MaxKeys) /\ Cardinality(Live(d, t)) <= MaxKeys
  <2>1. keep = Live(d, t)
    BY <1>2 DEF Survivors
  <2> QED
    BY <1>2, <2>1 DEF Live
<1>3. CASE ~(Cardinality(Present(d)) <= MaxKeys) /\ ~(Cardinality(Live(d, t)) <= MaxKeys)
  <2>1. keep \subseteq Live(d, t) /\ Cardinality(keep) = MaxKeys
    BY <1>3 DEF Survivors
  <2> QED
    BY <2>1, IdempotencyAssumption DEF Live, IdempotencyAssumption
<1> QED
  BY <1>1, <1>2, <1>3

\* ... and gives up a live one only for MaxKeys others that are as new.
LEMMA TrimKeepsNewest ==
  ASSUME NEW d \in Cache, NEW t \in Nat, NEW keep \in Survivors(d, t),
         NEW k \in Present(d), k \notin keep
  PROVE  \/ t - d[k].ts >= TTL
         \/ /\ keep \subseteq Present(d) \ {k}
            /\ Cardinality(keep) = MaxKeys
            /\ \A x \in keep : d[k].ts <= d[x].ts
<1> USE IdempotencyAssumption DEF IdempotencyAssumption, Cache, Entry
<1>1. keep # Present(d)
  OBVIOUS
<1>2. CASE keep = Live(d, t)
  BY <1>2 DEF Live, Present
<1>3. CASE /\ keep \in SUBSET Live(d, t) /\ Cardinality(keep) = MaxKeys
           /\ \A y \in keep, x \in Live(d, t) \ keep : d[x].ts <= d[y].ts
  <2>1. CASE k \in Live(d, t)
    BY <1>3, <2>1 DEF Live
  <2>2. CASE k \notin Live(d, t)
    BY <2>2 DEF Live, Present
  <2> QED
    BY <2>1, <2>2
<1> QED
  BY <1>1, <1>2, <1>3 DEF Survivors

\* Every variable keeps its type.
LEMMA TypeInductive == TypeOK /\ [Next]_vars => TypeOK'
<1> SUFFICES ASSUME TypeOK, [Next]_vars PROVE TypeOK'
  OBVIOUS
<1> USE IdempotencyAssumption DEF IdempotencyAssumption, TypeOK, Leading, Following, Entry, Goto, AnswerWith
<1>0. ASSUME NEW r \in Requests, ReadClock(r) PROVE TypeOK'
  BY <1>0 DEF ReadClock
<1>1. ASSUME NEW r \in Requests, Lookup(r) PROVE TypeOK'
  BY <1>1 DEF Lookup, Fresh
<1>2. ASSUME NEW r \in Requests, Claim(r) PROVE TypeOK'
  BY <1>2 DEF Claim
<1>3. ASSUME NEW r \in Requests, OpReturns(r) \/ OpPanics(r) \/ Subscribe(r) \/ Publish(r) PROVE TypeOK'
  BY <1>3 DEF OpReturns, OpPanics, Subscribe, Publish
<1>4. ASSUME NEW r \in Requests, Put(r) PROVE TypeOK'
  BY <1>4 DEF Put
<1>5. ASSUME NEW r \in Requests, NotifyWaiters(r) PROVE TypeOK'
  BY <1>5 DEF NotifyWaiters
<1>6. ASSUME NEW r \in Requests, Clear(r) PROVE TypeOK'
  BY <1>6 DEF Clear
<1>7. ASSUME NEW r \in Requests, Check(r) PROVE TypeOK'
  BY <1>7 DEF Check
<1>8. CASE Tick
  BY <1>8 DEF Tick
<1>9. CASE UNCHANGED vars
  BY <1>9 DEF vars
<1> QED
  BY <1>0, <1>1, <1>2, <1>3, <1>4, <1>5, <1>6, <1>7, <1>8, <1>9 DEF Next, Step

\* The initial state satisfies every part of the invariant.
LEMMA InitInvariant == Init => IInv
<1> SUFFICES ASSUME Init PROVE IInv
  OBVIOUS
<1> USE IdempotencyAssumption DEF IdempotencyAssumption, Init
<1>1. TypeOK
  BY DEF TypeOK, Entry, Leading, Following
<1>2. Ownership
  BY DEF Ownership, Leading
<1>3. Provenance
  BY DEF Provenance, Following, AnswersFromOwnKey
<1>4. TimesInPast /\ StampsOrdered
  BY DEF TimesInPast, StampsOrdered
<1>5. CacheCovers /\ MissedOnlyExpired
  BY DEF CacheCovers, MissedOnlyExpired
<1>6. CacheBounded
  <2>1. Present(dedupe) = {}
    BY DEF Present
  <2>2. Cardinality({}) = 0 /\ MaxKeys \in Nat
    BY FS_EmptySet
  <2> HIDE DEF Init, IdempotencyAssumption
  <2> QED
    BY <2>1, <2>2 DEF CacheBounded
<1> QED
  BY <1>1, <1>2, <1>3, <1>4, <1>5, <1>6 DEF IInv

LEMMA OwnershipInductive == TypeOK /\ Ownership /\ [Next]_vars => Ownership'
<1> SUFFICES ASSUME TypeOK, Ownership, [Next]_vars PROVE Ownership'
  OBVIOUS
<1> USE IdempotencyAssumption DEF IdempotencyAssumption, TypeOK, Leading, Following, Goto, AnswerWith, Ownership
<1>0. ASSUME NEW r \in Requests, ReadClock(r) PROVE Ownership'
  BY <1>0 DEF ReadClock
<1>1. ASSUME NEW r \in Requests, Lookup(r) PROVE Ownership'
  BY <1>1 DEF Lookup
<1>2. ASSUME NEW r \in Requests, Claim(r) PROVE Ownership'
  BY <1>2 DEF Claim
<1>3. ASSUME NEW r \in Requests, OpReturns(r) \/ OpPanics(r) \/ Subscribe(r) \/ Publish(r) PROVE Ownership'
  BY <1>3 DEF OpReturns, OpPanics, Subscribe, Publish
<1>4. ASSUME NEW r \in Requests, Put(r) PROVE Ownership'
  BY <1>4 DEF Put
<1>5. ASSUME NEW r \in Requests, NotifyWaiters(r) PROVE Ownership'
  BY <1>5 DEF NotifyWaiters
<1>6. ASSUME NEW r \in Requests, Clear(r) PROVE Ownership'
  BY <1>6 DEF Clear
<1>7. ASSUME NEW r \in Requests, Check(r) PROVE Ownership'
  BY <1>7 DEF Check
<1>8. CASE Tick
  BY <1>8 DEF Tick
<1>9. CASE UNCHANGED vars
  BY <1>9 DEF vars
<1> QED
  BY <1>0, <1>1, <1>2, <1>3, <1>4, <1>5, <1>6, <1>7, <1>8, <1>9 DEF Next, Step

LEMMA ProvenanceInductive == TypeOK /\ Ownership /\ Provenance /\ [Next]_vars => Provenance'
<1> SUFFICES ASSUME TypeOK, Ownership, Provenance, [Next]_vars PROVE Provenance'
  OBVIOUS
<1> USE IdempotencyAssumption DEF IdempotencyAssumption, TypeOK, Leading, Following, Entry, Goto, AnswerWith, Ownership, Provenance, AnswersFromOwnKey
<1>0. ASSUME NEW r \in Requests, ReadClock(r) PROVE Provenance'
  BY <1>0 DEF ReadClock
<1>1. ASSUME NEW r \in Requests, Lookup(r) PROVE Provenance'
  BY <1>1 DEF Lookup, Fresh
<1>2. ASSUME NEW r \in Requests, Claim(r) PROVE Provenance'
  BY <1>2 DEF Claim
<1>3. ASSUME NEW r \in Requests, OpReturns(r) \/ OpPanics(r) \/ Subscribe(r) \/ Publish(r) PROVE Provenance'
  BY <1>3 DEF OpReturns, OpPanics, Subscribe, Publish
<1>4. ASSUME NEW r \in Requests, Put(r) PROVE Provenance'
  BY <1>4 DEF Put
<1>5. ASSUME NEW r \in Requests, NotifyWaiters(r) PROVE Provenance'
  BY <1>5 DEF NotifyWaiters
<1>6. ASSUME NEW r \in Requests, Clear(r) PROVE Provenance'
  BY <1>6 DEF Clear
<1>7. ASSUME NEW r \in Requests, Check(r) PROVE Provenance'
  BY <1>7 DEF Check
<1>8. CASE Tick
  BY <1>8 DEF Tick
<1>9. CASE UNCHANGED vars
  BY <1>9 DEF vars
<1> QED
  BY <1>0, <1>1, <1>2, <1>3, <1>4, <1>5, <1>6, <1>7, <1>8, <1>9 DEF Next, Step

LEMMA TimesInductive == TypeOK /\ TimesInPast /\ [Next]_vars => TimesInPast'
<1> SUFFICES ASSUME TypeOK, TimesInPast, [Next]_vars PROVE TimesInPast'
  OBVIOUS
<1> USE IdempotencyAssumption DEF IdempotencyAssumption, TypeOK, Leading, Following, Entry, Goto, AnswerWith, TimesInPast
<1>0. ASSUME NEW r \in Requests, ReadClock(r) PROVE TimesInPast'
  BY <1>0 DEF ReadClock
<1>1. ASSUME NEW r \in Requests, Lookup(r) PROVE TimesInPast'
  BY <1>1 DEF Lookup
<1>2. ASSUME NEW r \in Requests, Claim(r) PROVE TimesInPast'
  BY <1>2 DEF Claim
<1>3. ASSUME NEW r \in Requests, OpReturns(r) \/ OpPanics(r) \/ Subscribe(r) \/ Publish(r) PROVE TimesInPast'
  BY <1>3 DEF OpReturns, OpPanics, Subscribe, Publish
<1>4. ASSUME NEW r \in Requests, Put(r) PROVE TimesInPast'
  BY <1>4 DEF Put
<1>5. ASSUME NEW r \in Requests, NotifyWaiters(r) PROVE TimesInPast'
  BY <1>5 DEF NotifyWaiters
<1>6. ASSUME NEW r \in Requests, Clear(r) PROVE TimesInPast'
  BY <1>6 DEF Clear
<1>7. ASSUME NEW r \in Requests, Check(r) PROVE TimesInPast'
  BY <1>7 DEF Check
<1>8. CASE Tick
  BY <1>8 DEF Tick
<1>9. CASE UNCHANGED vars
  BY <1>9 DEF vars
<1> QED
  BY <1>0, <1>1, <1>2, <1>3, <1>4, <1>5, <1>6, <1>7, <1>8, <1>9 DEF Next, Step

\* A leader's stamp is no older than those of the key's saved results: only the
\* key's leader gets one, and none is saved while it leads.
LEMMA StampsInductive ==
  TypeOK /\ Ownership /\ Provenance /\ TimesInPast /\ StampsOrdered /\ [Next]_vars => StampsOrdered'
<1> SUFFICES ASSUME TypeOK, Ownership, Provenance, TimesInPast, StampsOrdered, [Next]_vars
             PROVE  StampsOrdered'
  OBVIOUS
<1> USE DEF TypeOK, StampsOrdered, Goto, AnswerWith
<1>1. ASSUME NEW r \in Requests, ReadClock(r) PROVE StampsOrdered'
  BY <1>1 DEF ReadClock, Provenance
<1>2. ASSUME NEW r \in Requests, Lookup(r) \/ Claim(r) PROVE StampsOrdered'
  BY <1>2 DEF Lookup, Claim
<1>3. ASSUME NEW r \in Requests, OpReturns(r) PROVE StampsOrdered'
  BY <1>3 DEF OpReturns, Provenance, TimesInPast
<1>4. ASSUME NEW r \in Requests, OpPanics(r) \/ Subscribe(r) \/ Publish(r) PROVE StampsOrdered'
  BY <1>4 DEF OpPanics, Subscribe, Publish
<1>5. ASSUME NEW r \in Requests, Put(r) PROVE StampsOrdered'
  <2>1. ASSUME NEW p \in Requests, KeyOf[p] = KeyOf[r], pc'[p] = "put" PROVE FALSE
    BY <1>5, <2>1 DEF Put, Ownership, Leading
  <2>2. /\ \A p \in Requests \ {r} : savedAt'[p] = savedAt[p] /\ pc'[p] = pc[p]
        /\ clock' = clock
    BY <1>5 DEF Put
  <2> QED
    BY <2>1, <2>2
<1>6. ASSUME NEW r \in Requests, NotifyWaiters(r) PROVE StampsOrdered'
  BY <1>6 DEF NotifyWaiters
<1>7. ASSUME NEW r \in Requests, Clear(r) \/ Check(r) PROVE StampsOrdered'
  BY <1>7 DEF Clear, Check
<1>8. CASE Tick \/ UNCHANGED vars
  BY <1>8 DEF Tick, vars
<1> QED
  BY <1>1, <1>2, <1>3, <1>4, <1>5, <1>6, <1>7, <1>8 DEF Next, Step

\* A saved result keeps its stamp, so a crowded key stays crowded.
LEMMA SavedOnce ==
  ASSUME TypeOK, Provenance, [Next]_vars
  PROVE  \A p \in Requests : savedAt[p] # -1 => savedAt'[p] = savedAt[p] /\ clock'[p] = clock[p]
<1> USE DEF TypeOK, Provenance
<1>1. ASSUME NEW r \in Requests, Put(r)
      PROVE  savedAt' = [savedAt EXCEPT ![r] = now] /\ savedAt[r] = -1 /\ clock' = clock
  BY <1>1 DEF Put
<1>2. ASSUME NEW r \in Requests, ReadClock(r) \/ OpReturns(r)
      PROVE  clock' = [clock EXCEPT ![r] = now] /\ savedAt[r] = -1 /\ savedAt' = savedAt
  BY <1>2 DEF ReadClock, OpReturns
<1>3. \/ \E r \in Requests : Put(r) \/ ReadClock(r) \/ OpReturns(r)
      \/ UNCHANGED <<savedAt, clock>>
  BY DEF Next, Step, Lookup, Claim, OpPanics, Publish, NotifyWaiters, Clear,
     Check, Subscribe, Tick, vars
<1> QED
  BY <1>1, <1>2, <1>3

LEMMA CrowdedStable ==
  ASSUME TypeOK, Provenance, [Next]_vars,
         NEW q \in Requests, savedAt[q] # -1, Crowded(KeyOf[q], clock[q])
  PROVE  Crowded(KeyOf[q], clock[q])'
<1>1. PICK K \in SUBSET (Keys \ {KeyOf[q]}) :
        /\ Cardinality(K) = MaxKeys
        /\ \A x \in K : \E p \in Requests :
             KeyOf[p] = x /\ savedAt[p] # -1 /\ clock[p] >= clock[q]
  BY DEF Crowded
<1>2. \A p \in Requests : savedAt[p] # -1 => savedAt'[p] = savedAt[p] /\ clock'[p] = clock[p]
  BY SavedOnce
<1>3. \A x \in K : \E p \in Requests :
        KeyOf[p] = x /\ savedAt'[p] # -1 /\ clock'[p] >= clock'[q]
  BY <1>1, <1>2
<1> QED
  BY <1>1, <1>3 DEF Crowded

\* The clock never goes back.
LEMMA ClockGrows ==
  ASSUME TypeOK, [Next]_vars
  PROVE  now \in Nat /\ now' \in Nat /\ now <= now'
<1>1. now \in Nat /\ now' \in Nat
  BY TypeInductive, IdempotencyAssumption DEF TypeOK, IdempotencyAssumption
<1>2. now' = now \/ now' = now + 1
  BY DEF Next, Step, ReadClock, Lookup, Claim, OpReturns, OpPanics, Put, Publish,
     NotifyWaiters, Clear, Check, Subscribe, Tick, vars
<1> QED
  BY <1>1, <1>2

LEMMA CacheCoversInductive ==
  TypeOK /\ TimesInPast /\ Provenance /\ StampsOrdered /\ CacheCovers /\ [Next]_vars => CacheCovers'
<1> SUFFICES ASSUME TypeOK, TimesInPast, Provenance, StampsOrdered, CacheCovers, [Next]_vars,
                    NEW q \in Requests, savedAt'[q] # -1
             PROVE  \/ /\ dedupe'[KeyOf[q]] # NoEntry
                       /\ clock'[q] <= dedupe'[KeyOf[q]].ts
                    \/ now' - clock'[q] >= TTL
                    \/ Crowded(KeyOf[q], clock[q])'
  BY DEF CacheCovers
<1> USE IdempotencyAssumption DEF IdempotencyAssumption, TypeOK, Entry, Goto, AnswerWith, TimesInPast
<1>1. now \in Nat /\ now' \in Nat /\ now <= now'
  BY ClockGrows
<1>2. ASSUME savedAt[q] # -1, Crowded(KeyOf[q], clock[q]) PROVE Crowded(KeyOf[q], clock[q])'
  BY <1>2, CrowdedStable
<1>3. ASSUME savedAt[q] # -1 PROVE savedAt'[q] = savedAt[q] /\ clock'[q] = clock[q]
  BY <1>3, SavedOnce
<1>4. clock[q] \in Nat
  OBVIOUS
<1>5. CASE UNCHANGED <<dedupe, savedAt>>
  BY <1>1, <1>2, <1>3, <1>4, <1>5 DEF CacheCovers
<1>6. ASSUME NEW r \in Requests, Lookup(r)
      PROVE  \/ /\ dedupe'[KeyOf[q]] # NoEntry
                /\ clock'[q] <= dedupe'[KeyOf[q]].ts
             \/ now' - clock'[q] >= TTL
             \/ Crowded(KeyOf[q], clock[q])'
  <2>1. now' = now /\ savedAt[q] # -1 /\ clock'[q] = clock[q]
    BY <1>6 DEF Lookup
  <2>2. CASE dedupe'[KeyOf[q]] = dedupe[KeyOf[q]]
    BY <1>2, <2>1, <2>2 DEF CacheCovers
  <2>3. CASE dedupe'[KeyOf[q]] # dedupe[KeyOf[q]]
    <3>1. KeyOf[q] = KeyOf[r] /\ ~Fresh(dedupe[KeyOf[q]], clock[r])
      BY <1>6, <2>3 DEF Lookup
    <3>2. clock[r] \in Nat /\ clock[r] <= now
      OBVIOUS
    <3>3. dedupe[KeyOf[q]] # NoEntry => now - dedupe[KeyOf[q]].ts >= TTL /\ dedupe[KeyOf[q]].ts \in Int
      BY <1>1, <3>1, <3>2 DEF Fresh
    <3> QED
      BY <1>1, <1>2, <1>4, <2>1, <3>3 DEF CacheCovers
  <2> QED
    BY <2>2, <2>3
<1>7. ASSUME NEW r \in Requests, Put(r)
      PROVE  \/ /\ dedupe'[KeyOf[q]] # NoEntry
                /\ clock'[q] <= dedupe'[KeyOf[q]].ts
             \/ now' - clock'[q] >= TTL
             \/ Crowded(KeyOf[q], clock[q])'
  <2> DEFINE filled == [dedupe EXCEPT ![KeyOf[r]] = [ts |-> clock[r], by |-> r]]
  <2>0. PICK keep \in Survivors(filled, clock[r]) :
           dedupe' = [k \in Keys |-> IF k \in keep THEN filled[k] ELSE NoEntry]
    BY <1>7 DEF Put
  <2>1. /\ filled \in Cache /\ filled = [dedupe EXCEPT ![KeyOf[r]] = [ts |-> clock[r], by |-> r]]
        /\ dedupe' = [k \in Keys |-> IF k \in keep THEN filled[k] ELSE NoEntry]
    BY <2>0 DEF Cache
  <2> HIDE DEF filled
  <2>2. /\ pc[r] = "put" /\ now' = now /\ clock' = clock
        /\ savedAt' = [savedAt EXCEPT ![r] = now]
        /\ clock[r] \in Nat /\ clock[r] <= now
    BY <1>7 DEF Put
  <2>3. \/ filled[KeyOf[q]] # NoEntry /\ clock[q] <= filled[KeyOf[q]].ts
        \/ now - clock[q] >= TTL
        \/ Crowded(KeyOf[q], clock[q])'
    <3>1. CASE KeyOf[q] = KeyOf[r]
      <4>1. filled[KeyOf[q]] = [ts |-> clock[r], by |-> r] /\ filled[KeyOf[q]] # NoEntry
        BY <2>1, <3>1
      <4>2. clock[q] <= clock[r]
        BY <2>2, <3>1 DEF StampsOrdered
      <4> QED
        BY <4>1, <4>2
    <3>2. CASE KeyOf[q] # KeyOf[r]
      <4>1. q # r /\ savedAt'[q] = savedAt[q] /\ filled[KeyOf[q]] = dedupe[KeyOf[q]]
        BY <2>1, <2>2, <3>2
      <4> QED
        BY <1>2, <4>1 DEF CacheCovers
    <3> QED
      BY <3>1, <3>2
  <2>4. ASSUME filled[KeyOf[q]] # NoEntry, clock[q] <= filled[KeyOf[q]].ts, KeyOf[q] \notin keep,
               ~(now - clock[q] >= TTL)
        PROVE  Crowded(KeyOf[q], clock[q])'
    <3>1. KeyOf[q] \in Present(filled)
      BY <2>4 DEF Present
    <3>2. filled[KeyOf[q]] \in Entry
      BY <2>1, <2>4 DEF Cache
    <3>3. ~(clock[r] - filled[KeyOf[q]].ts >= TTL)
      BY <1>1, <1>4, <2>2, <2>4, <3>2
    <3>4. /\ keep \subseteq Present(filled) \ {KeyOf[q]}
          /\ Cardinality(keep) = MaxKeys
          /\ \A x \in keep : filled[KeyOf[q]].ts <= filled[x].ts
      <4>1. filled \in Cache /\ clock[r] \in Nat /\ keep \in Survivors(filled, clock[r])
            /\ KeyOf[q] \notin keep
        BY <2>0, <2>1, <2>2, <2>4
      <4>2. \/ clock[r] - filled[KeyOf[q]].ts >= TTL
            \/ /\ keep \subseteq Present(filled) \ {KeyOf[q]}
               /\ Cardinality(keep) = MaxKeys
               /\ \A x \in keep : filled[KeyOf[q]].ts <= filled[x].ts
        BY <3>1, <4>1, TrimKeepsNewest
      <4> QED
        BY <3>3, <4>2
    <3>5. ASSUME NEW x \in keep
          PROVE  \E p \in Requests : KeyOf[p] = x /\ savedAt'[p] # -1 /\ clock[p] >= clock[q]
      <4>1. x \in Keys /\ filled[x] # NoEntry /\ filled[x] \in Entry
        BY <2>1, <3>4 DEF Present, Cache
      <4>2. clock[q] <= filled[x].ts
        BY <1>4, <2>4, <3>2, <3>4, <4>1
      <4>3. CASE x = KeyOf[r]
        <5>1. filled[x] = [ts |-> clock[r], by |-> r] /\ savedAt'[r] # -1
          BY <1>1, <2>1, <2>2, <4>3
        <5> QED
          BY <1>4, <2>2, <4>2, <4>3, <5>1
      <4>4. CASE x # KeyOf[r]
        <5> DEFINE p == dedupe[x].by
        <5>1. dedupe[x] = filled[x]
          BY <2>1, <4>1, <4>4
        <5>2. p \in Requests /\ KeyOf[p] = x /\ savedAt[p] # -1 /\ filled[x].ts = clock[p]
          BY <4>1, <5>1 DEF Provenance
        <5>3. savedAt'[p] # -1 /\ clock[p] \in Nat
          BY <2>2, <4>4, <5>2
        <5> QED
          BY <1>4, <4>2, <5>2, <5>3
      <4> QED
        BY <4>3, <4>4
    <3>6. keep \in SUBSET (Keys \ {KeyOf[q]})
      BY <3>4 DEF Present
    <3> QED
      BY <2>2, <3>4, <3>5, <3>6 DEF Crowded
  <2>5. KeyOf[q] \in keep => dedupe'[KeyOf[q]] = filled[KeyOf[q]]
    BY <2>1
  <2> QED
    BY <2>2, <2>3, <2>4, <2>5
<1>8. \/ UNCHANGED <<dedupe, savedAt>>
      \/ \E r \in Requests : Lookup(r)
      \/ \E r \in Requests : Put(r)
  BY DEF Next, Step, ReadClock, Claim, OpReturns, OpPanics, Publish, NotifyWaiters, Clear,
     Check, Subscribe, Tick, vars
<1> QED
  BY <1>5, <1>6, <1>7, <1>8

\* A cache miss with a saved result of the key is an expired or crowded one,
\* and stays so while the request leads.
LEMMA MissedInductive == TypeOK /\ TimesInPast /\ CacheCovers /\ Provenance /\ MissedOnlyExpired /\ [Next]_vars => MissedOnlyExpired'
<1> SUFFICES ASSUME TypeOK, TimesInPast, CacheCovers, Provenance, MissedOnlyExpired, [Next]_vars,
                    NEW r \in Requests, NEW q \in Requests, r # q, KeyOf[r] = KeyOf[q],
                    pc'[r] \in Leading \cup {"miss"}, savedAt'[q] # -1, savedAt'[q] < lookedAt'[r]
             PROVE  \/ lookedAt'[r] - clock'[q] >= TTL
                    \/ Crowded(KeyOf[q], clock[q])'
  BY DEF MissedOnlyExpired
<1> USE IdempotencyAssumption DEF IdempotencyAssumption, TypeOK, Leading, Following, Entry, Goto, AnswerWith, TimesInPast
<1>1. ASSUME savedAt[q] # -1, Crowded(KeyOf[q], clock[q]) PROVE Crowded(KeyOf[q], clock[q])'
  BY <1>1, CrowdedStable
<1>2. ASSUME NEW p \in Requests, Put(p) PROVE savedAt'[q] = savedAt[q] /\ lookedAt'[r] = lookedAt[r]
  BY <1>2 DEF Put
<1>3. savedAt[q] # -1 /\ savedAt'[q] = savedAt[q] /\ clock'[q] = clock[q]
  <2>1. ASSUME NEW p \in Requests, Put(p) PROVE savedAt[q] # -1
    <3>1. CASE p = q
      <4>1. savedAt'[q] = now /\ lookedAt'[r] = lookedAt[r] /\ lookedAt[r] <= now
        BY <2>1, <3>1 DEF Put
      <4> QED
        BY <4>1
    <3>2. CASE p # q
      BY <2>1, <3>2 DEF Put
    <3> QED
      BY <3>1, <3>2
  <2>2. (\E p \in Requests : Put(p)) \/ savedAt' = savedAt
    BY DEF Next, Step, ReadClock, Lookup, Claim, OpReturns, OpPanics, Publish, NotifyWaiters, Clear,
       Check, Subscribe, Tick, vars
  <2> QED
    BY <2>1, <2>2, SavedOnce
<1>4. CASE Lookup(r)
  <2>1. lookedAt'[r] = now /\ ~Fresh(dedupe[KeyOf[r]], clock[r])
        /\ clock[r] \in Nat /\ clock[r] <= now /\ clock[q] \in Nat /\ now \in Nat
    BY <1>4 DEF Lookup
  <2>2. \/ now - clock[q] >= TTL
        \/ Crowded(KeyOf[q], clock[q])
    BY <1>3, <2>1 DEF Fresh, CacheCovers, Provenance
  <2> QED
    BY <1>1, <1>3, <2>1, <2>2
<1>5. CASE ~Lookup(r)
  <2>1. lookedAt'[r] = lookedAt[r] /\ pc[r] \in Leading \cup {"miss"}
    <3>1. ASSUME NEW p \in Requests, Step(p), p # r PROVE lookedAt'[r] = lookedAt[r] /\ pc[r] \in Leading \cup {"miss"}
      <4>1. CASE NotifyWaiters(p)
        BY <3>1, <4>1 DEF NotifyWaiters
      <4>2. CASE ~NotifyWaiters(p)
        BY <3>1, <4>2 DEF Step, ReadClock, Lookup, Claim, OpReturns, OpPanics, Put, Publish, Clear, Check, Subscribe
      <4> QED
        BY <4>1, <4>2
    <3>2. CASE Step(r)
      BY <3>2, <1>5 DEF Step, ReadClock, Claim, OpReturns, OpPanics, Put, Publish, NotifyWaiters, Clear, Check, Subscribe
    <3>3. CASE Tick \/ UNCHANGED vars
      BY <3>3 DEF Tick, vars
    <3> QED
      BY <3>1, <3>2, <3>3 DEF Next
  <2> QED
    BY <1>1, <1>3, <2>1 DEF MissedOnlyExpired
<1> QED
  BY <1>4, <1>5

\* The cache never grows past its limit.
LEMMA BoundInductive == TypeOK /\ CacheBounded /\ [Next]_vars => CacheBounded'
<1> SUFFICES ASSUME TypeOK, CacheBounded, [Next]_vars PROVE CacheBounded'
  OBVIOUS
<1> USE IdempotencyAssumption DEF IdempotencyAssumption
<1>1. ASSUME NEW r \in Requests, Lookup(r) PROVE CacheBounded'
  <2>1. Present(dedupe)' \subseteq Present(dedupe)
    BY <1>1 DEF Lookup, Present, TypeOK
  <2>2. IsFiniteSet(Present(dedupe))
    BY FS_Subset DEF Present
  <2>3. IsFiniteSet(Present(dedupe)') /\ Cardinality(Present(dedupe)') <= Cardinality(Present(dedupe))
    BY <2>1, <2>2, FS_Subset
  <2>4. Cardinality(Present(dedupe)') \in Nat /\ Cardinality(Present(dedupe)) \in Nat
    BY <2>2, <2>3, FS_CardinalityType
  <2> QED
    BY <2>3, <2>4 DEF CacheBounded
<1>2. ASSUME NEW r \in Requests, Put(r) PROVE CacheBounded'
  <2> DEFINE filled == [dedupe EXCEPT ![KeyOf[r]] = [ts |-> clock[r], by |-> r]]
  <2>1. PICK keep \in Survivors(filled, clock[r]) :
          dedupe' = [k \in Keys |-> IF k \in keep THEN filled[k] ELSE NoEntry]
    BY <1>2 DEF Put
  <2> HIDE DEF filled
  <2>2. keep \subseteq Present(filled) /\ Cardinality(keep) <= MaxKeys
    BY SurvivorsBounded
  <2>3. Present(dedupe)' = keep
    BY <2>1, <2>2 DEF Present
  <2> QED
    BY <2>2, <2>3 DEF CacheBounded
<1>3. CASE UNCHANGED dedupe
  BY <1>3 DEF CacheBounded, Present
<1> QED
  BY <1>1, <1>2, <1>3 DEF Next, Step, ReadClock, Claim, OpReturns, OpPanics, Publish, NotifyWaiters, Clear,
     Check, Subscribe, Tick, vars

LEMMA Inductive == IInv /\ [Next]_vars => IInv'
  BY TypeInductive, OwnershipInductive, ProvenanceInductive, TimesInductive,
     StampsInductive, CacheCoversInductive, MissedInductive, BoundInductive DEF IInv

\* The invariant holds in every reachable state.
THEOREM Invariance == Spec => []IInv
  BY InitInvariant, Inductive, PTL DEF Spec

\* Type correctness.
THEOREM TypeCorrect == Spec => []TypeOK
<1>1. IInv => TypeOK
  BY DEF IInv
<1> QED
  BY <1>1, Invariance, PTL

\* openclaw_idempotent_run never runs two executions of one key side by side,
\* however many duplicates race between the cache miss and the claim.
THEOREM SingleLeader == Spec => []OneLeaderPerKey
<1>1. IInv => OneLeaderPerKey
  BY IdempotencyAssumption DEF IInv, Ownership, OneLeaderPerKey, IdempotencyAssumption
<1> QED
  BY <1>1, Invariance, PTL

\* An answer is always a saved result of the request's own key.
THEOREM OwnAnswers == Spec => []AnswersFromOwnKey
<1>1. IInv => AnswersFromOwnKey
  BY DEF IInv, Provenance
<1> QED
  BY <1>1, Invariance, PTL

\* A repetition of a cached operation needs a result whose stamp expired or that
\* was crowded out by as many as new as the cache holds; clocks read before a
\* handler waits for the cache's lock change nothing of it.
THEOREM NoRerun == Spec => []NoRerunWhileCached
<1>1. IInv => NoRerunWhileCached
  BY DEF IInv, MissedOnlyExpired, NoRerunWhileCached
<1> QED
  BY <1>1, Invariance, PTL

\* openclaw_dedupe_put leaves at most MaxKeys results in the cache.
THEOREM Bounded == Spec => []CacheBounded
<1>1. IInv => CacheBounded
  BY DEF IInv
<1> QED
  BY <1>1, Invariance, PTL

-----------------------------------------------------------------------------
(* What followers wait for.                                                *)

\* The leaders that have not notified their followers yet.
Unannounced == {"run", "put", "publish", "notify", "dead"}

\* A follower that waits, waits for a notification that is still to come (or for
\* a leader whose operation panicked); one that is stranded, and waits for the
\* next notification for ever, has its answer in the entry it holds.
FollowersInformed ==
  \A f \in Requests :
    /\ pc[f] = "parked" => pc[leader[f]] \in Unannounced
    /\ pc[f] = "stranded" => leader[f] \in published

\* The entry a follower looks at is a leader's, or was: then it is published.
LeadersKnown ==
  \A r \in Requests :
    /\ r \in published => pc[r] \in {"notify", "clear", "done"}
    /\ pc[r] \in {"notify", "clear"} => r \in published
    /\ pc[r] \in {"check", "subscribe"} =>
         pc[leader[r]] \in Leading \cup {"dead"} \/ leader[r] \in published

FollowInv == FollowersInformed /\ LeadersKnown

\* A request that leads nobody moves on: nobody who waits, waits for it.
LEMMA FollowMoves ==
  ASSUME TypeOK, Provenance, FollowInv, NEW r \in Requests, NEW label,
         Goto(r, label), UNCHANGED <<published, leader>>,
         pc[r] \notin Leading \cup {"dead", "done"},
         label \notin {"notify", "clear", "check"},
         label = "subscribe" => pc[r] = "check",
         label = "parked" => pc[r] = "subscribe" /\ pc[leader[r]] \in Unannounced,
         label = "stranded" => leader[r] \in published
  PROVE  FollowInv'
<1>1. /\ pc'[r] = label /\ \A f \in Requests \ {r} : pc'[f] = pc[f]
      /\ published' = published /\ leader' = leader
  BY DEF TypeOK, Goto
<1>2. \A f \in Requests : pc[f] \in Following => leader[f] \in Requests
  BY DEF Provenance
<1>3. r \notin published
  BY DEF FollowInv, LeadersKnown, Leading
<1>4. \A f \in Requests :
        /\ pc[f] = "parked" => leader[f] # r
        /\ pc[f] \in {"check", "subscribe"} => leader[f] # r
  BY <1>3 DEF FollowInv, FollowersInformed, LeadersKnown, Leading, Unannounced
<1>5. ASSUME NEW f \in Requests
      PROVE  /\ pc'[f] = "parked" => pc'[leader[f]] \in Unannounced
             /\ pc'[f] = "stranded" => leader[f] \in published
  <2>1. CASE f = r
    BY <1>1, <1>2, <2>1 DEF Unannounced, Leading, Following
  <2>2. CASE f # r
    BY <1>1, <1>2, <1>4, <2>2 DEF FollowInv, FollowersInformed, Following
  <2> QED
    BY <2>1, <2>2
<1>6. ASSUME NEW f \in Requests
      PROVE  /\ f \in published => pc'[f] \in {"notify", "clear", "done"}
             /\ pc'[f] \in {"notify", "clear"} => f \in published
             /\ pc'[f] \in {"check", "subscribe"} =>
                  pc'[leader[f]] \in Leading \cup {"dead"} \/ leader[f] \in published
  <2>1. CASE f = r
    BY <1>1, <1>2, <1>3, <1>4, <2>1 DEF FollowInv, LeadersKnown, Following
  <2>2. CASE f # r
    BY <1>1, <1>2, <1>4, <2>2 DEF FollowInv, LeadersKnown, Following
  <2> QED
    BY <2>1, <2>2
<1> QED
  BY <1>1, <1>5, <1>6 DEF FollowInv, FollowersInformed, LeadersKnown

LEMMA FollowInductive ==
  ASSUME TypeOK, Ownership, Provenance, FollowInv, [Next]_vars PROVE FollowInv'
<1> USE IdempotencyAssumption
    DEF IdempotencyAssumption, TypeOK, Goto, AnswerWith, FollowInv, FollowersInformed, LeadersKnown,
        Leading, Following, Unannounced
<1>f. \A f \in Requests : pc[f] \in Following => leader[f] \in Requests
  BY DEF Provenance
<1>0. ASSUME NEW r \in Requests, ReadClock(r) PROVE FollowInv'
  <2>1. pc[r] = "start" /\ UNCHANGED <<published, leader>> /\ Goto(r, "look")
    BY <1>0 DEF ReadClock
  <2> HIDE DEF TypeOK, Goto, FollowInv
  <2> QED
    BY <2>1, FollowMoves
<1>1. ASSUME NEW r \in Requests, Lookup(r) PROVE FollowInv'
  <2>1. /\ pc[r] = "look" /\ UNCHANGED <<published, leader>>
        /\ Goto(r, "miss") \/ Goto(r, "done")
    BY <1>1 DEF Lookup
  <2> HIDE DEF TypeOK, Goto, FollowInv
  <2> QED
    BY <2>1, FollowMoves
<1>2. ASSUME NEW r \in Requests, Claim(r) PROVE FollowInv'
  <2>1. inflight[KeyOf[r]] # NoRequest => pc[inflight[KeyOf[r]]] \in Leading \cup {"dead"}
    BY DEF Ownership
  <2> QED
    BY <1>f, <1>2, <2>1 DEF Claim
<1>3. ASSUME NEW r \in Requests, OpReturns(r) \/ OpPanics(r) PROVE FollowInv'
  BY <1>f, <1>3 DEF OpReturns, OpPanics
<1>4. ASSUME NEW r \in Requests, Put(r) PROVE FollowInv'
  <2>1. /\ pc[r] = "put" /\ pc' = [pc EXCEPT ![r] = "publish"]
        /\ UNCHANGED <<published, leader>>
    BY <1>4 DEF Put
  <2> QED
    BY <1>f, <2>1
<1>5. ASSUME NEW r \in Requests, Publish(r) PROVE FollowInv'
  BY <1>f, <1>5 DEF Publish
<1>6. ASSUME NEW r \in Requests, NotifyWaiters(r) PROVE FollowInv'
  BY <1>f, <1>6 DEF NotifyWaiters
<1>7. ASSUME NEW r \in Requests, Clear(r) PROVE FollowInv'
  <2>1. /\ pc[r] = "clear" /\ pc' = [pc EXCEPT ![r] = "done"]
        /\ UNCHANGED <<published, leader>>
    BY <1>7 DEF Clear
  <2> QED
    BY <1>f, <2>1
<1>8. ASSUME NEW r \in Requests, Check(r) PROVE FollowInv'
  <2>1. /\ pc[r] = "check" /\ UNCHANGED <<published, leader>>
        /\ Goto(r, "subscribe") \/ Goto(r, "done")
    BY <1>8 DEF Check
  <2> HIDE DEF TypeOK, Goto, FollowInv
  <2> QED
    BY <2>1, FollowMoves
<1>9. ASSUME NEW r \in Requests, Subscribe(r) PROVE FollowInv'
  <2> DEFINE late == pc[leader[r]] \in {"clear", "done"}
  <2>1. /\ pc[r] = "subscribe" /\ UNCHANGED <<published, leader>>
        /\ Goto(r, IF late THEN "stranded" ELSE "parked")
    BY <1>9 DEF Subscribe
  <2>2. leader[r] \in Requests
    BY <1>f, <2>1
  <2>3. IF late THEN leader[r] \in published ELSE pc[leader[r]] \in Unannounced
    BY <2>1, <2>2
  <2> HIDE DEF TypeOK, Goto, FollowInv
  <2>4. CASE late
    BY <2>1, <2>3, <2>4, FollowMoves
  <2>5. CASE ~late
    BY <2>1, <2>3, <2>5, FollowMoves
  <2> QED
    BY <2>4, <2>5
<1>10. CASE Tick \/ UNCHANGED vars
  BY <1>f, <1>10 DEF Tick, vars
<1> QED
  BY <1>0, <1>1, <1>2, <1>3, <1>4, <1>5, <1>6, <1>7, <1>8, <1>9, <1>10 DEF Next, Step

\* No follower waits for a notification that was sent before it began to wait
\* unless it is stranded, and then the answer it misses is there to be read.
THEOREM WaitersInformed == Spec => []FollowersInformed
<1>1. Init => FollowInv
  BY DEF Init, FollowInv, FollowersInformed, LeadersKnown
<1>2. IInv /\ FollowInv /\ [Next]_vars => FollowInv'
  BY FollowInductive DEF IInv
<1>3. FollowInv => FollowersInformed
  BY DEF FollowInv
<1> QED
  BY <1>1, <1>2, <1>3, Invariance, PTL DEF Spec

-----------------------------------------------------------------------------
(* The mechanism implements IdempotentOp.                                  *)

LEMMA RefinesInit == Init => Abstract!Init
  BY IdempotencyAssumption
     DEF Init, Abstract!Init, Executing, Executed, IdempotencyAssumption

\* Claim by the first request of a key begins the abstract execution.
LEMMA ClaimRefines ==
  ASSUME IInv, NEW r \in Requests, Claim(r)
  PROVE  Abstract!Begin(r) \/ UNCHANGED Abstract!vars
<1> USE IdempotencyAssumption DEF IdempotencyAssumption, IInv, TypeOK, Goto
<1>1. pc[r] = "miss" /\ UNCHANGED <<answer, savedAt>>
  BY DEF Claim
<1>2. \A k \in Keys : inflight[k] # r
  BY <1>1 DEF Ownership, Leading
<1>3. Executed' = Executed
  BY <1>1 DEF Executed
<1>4. CASE inflight[KeyOf[r]] = NoRequest
  <2>1. inflight' = [inflight EXCEPT ![KeyOf[r]] = r] /\ pc' = [pc EXCEPT ![r] = "run"]
    BY <1>4 DEF Claim
  <2>2. Executing[KeyOf[r]] = NoRequest
    BY <1>4 DEF Executing
  <2>3. Executing' = [Executing EXCEPT ![KeyOf[r]] = r]
    BY <1>2, <2>1 DEF Executing
  <2> QED
    BY <1>1, <1>3, <2>2, <2>3 DEF Abstract!Begin
<1>5. CASE inflight[KeyOf[r]] # NoRequest
  <2>1. inflight' = inflight /\ pc' = [pc EXCEPT ![r] = "check"]
    BY <1>5 DEF Claim
  <2>2. Executing' = Executing
    BY <1>2, <2>1 DEF Executing
  <2> QED
    BY <1>1, <1>3, <2>2 DEF Abstract!vars
<1> QED
  BY <1>4, <1>5

\* Caching the result completes it.
LEMMA PutRefines ==
  ASSUME IInv, NEW r \in Requests, Put(r)
  PROVE  Abstract!Complete(r)
<1> USE IdempotencyAssumption DEF IdempotencyAssumption, IInv, TypeOK, Goto
<1>1. /\ pc[r] = "put" /\ pc' = [pc EXCEPT ![r] = "publish"]
      /\ savedAt' = [savedAt EXCEPT ![r] = now] /\ UNCHANGED <<inflight, answer>>
  BY DEF Put
<1>2. inflight[KeyOf[r]] = r
  BY <1>1 DEF Ownership, Leading
<1>3. \A k \in Keys : k # KeyOf[r] => inflight[k] # r
  BY DEF Ownership
<1>4. Executing[KeyOf[r]] = r
  BY <1>1, <1>2 DEF Executing
<1>5. Executing' = [Executing EXCEPT ![KeyOf[r]] = NoRequest]
  BY <1>1, <1>2, <1>3 DEF Executing
<1>6. savedAt'[r] # -1 /\ \A q \in Requests : q # r => savedAt'[q] = savedAt[q]
  BY <1>1
<1>7. Executed' = [Executed EXCEPT ![KeyOf[r]] = @ \cup {r}]
  <2>1. \A k \in Keys : Executed'[k] = IF k = KeyOf[r] THEN Executed[k] \cup {r} ELSE Executed[k]
    BY <1>6 DEF Executed
  <2> QED
    BY <2>1 DEF Executed
<1> QED
  BY <1>1, <1>4, <1>5, <1>7 DEF Abstract!Complete

\* A cache hit, a filled result cell and the leader's return are answers.
LEMMA AnswersRefine ==
  ASSUME IInv, NEW r \in Requests, Lookup(r) \/ Check(r) \/ Clear(r)
  PROVE  Abstract!Answer(r) \/ UNCHANGED Abstract!vars
<1> USE IdempotencyAssumption DEF IdempotencyAssumption, IInv, TypeOK, Goto, AnswerWith
<1>1. answer[r] = NoRequest /\ savedAt' = savedAt
  BY DEF Provenance, Lookup, Check, Clear
<1>2. Executed' = Executed
  BY <1>1 DEF Executed
<1>3. \A e \in Requests : e \in Executed[KeyOf[r]] <=> KeyOf[e] = KeyOf[r] /\ savedAt[e] # -1
  BY DEF Executed
<1>4. CASE Lookup(r) \/ Check(r)
  <2>1. inflight' = inflight /\ \A k \in Keys : inflight[k] # r
    BY <1>4 DEF Ownership, Leading, Lookup, Check
  <2>2. \A q \in Requests : q # r => pc'[q] = pc[q]
    BY <1>4 DEF Lookup, Check
  <2>3. Executing' = Executing
    BY <2>1, <2>2 DEF Executing
  <2>4. CASE Lookup(r) /\ Fresh(dedupe[KeyOf[r]], clock[r])
    <3>1. answer' = [answer EXCEPT ![r] = dedupe[KeyOf[r]].by]
      BY <2>4 DEF Lookup
    <3>2. dedupe[KeyOf[r]].by \in Executed[KeyOf[r]]
      BY <1>3, <2>4 DEF Fresh, Entry, Provenance
    <3> QED
      BY <1>1, <1>2, <2>3, <3>1, <3>2 DEF Abstract!Answer
  <2>5. CASE Check(r) /\ leader[r] \in published
    <3>1. answer' = [answer EXCEPT ![r] = leader[r]]
      BY <2>5 DEF Check
    <3>2. leader[r] \in Executed[KeyOf[r]]
      BY <1>3, <2>5 DEF Check, Provenance, Following
    <3> QED
      BY <1>1, <1>2, <2>3, <3>1, <3>2 DEF Abstract!Answer
  <2>6. CASE answer' = answer
    BY <1>2, <2>3, <2>6 DEF Abstract!vars
  <2>7. \/ Lookup(r) /\ Fresh(dedupe[KeyOf[r]], clock[r])
        \/ Check(r) /\ leader[r] \in published
        \/ answer' = answer
    BY <1>4 DEF Lookup, Check
  <2> QED
    BY <2>4, <2>5, <2>6, <2>7
<1>5. CASE Clear(r)
  <2>1. /\ pc[r] = "clear" /\ pc' = [pc EXCEPT ![r] = "done"]
        /\ inflight[KeyOf[r]] = r /\ inflight' = [inflight EXCEPT ![KeyOf[r]] = NoRequest]
        /\ answer' = [answer EXCEPT ![r] = r]
    BY <1>5 DEF Clear, Ownership, Leading
  <2>2. \A k \in Keys : k # KeyOf[r] => inflight[k] # r
    BY DEF Ownership
  <2>3. Executing' = Executing
    BY <2>1, <2>2 DEF Executing
  <2>4. r \in Executed[KeyOf[r]]
    BY <1>3, <2>1 DEF Provenance
  <2> QED
    BY <1>1, <1>2, <2>1, <2>3, <2>4 DEF Abstract!Answer
<1> QED
  BY <1>4, <1>5

\* The remaining steps are invisible.
LEMMA OthersStutter ==
  ASSUME IInv, NEW r \in Requests,
         \/ ReadClock(r) \/ OpReturns(r) \/ OpPanics(r) \/ Publish(r)
         \/ NotifyWaiters(r) \/ Subscribe(r)
  PROVE  UNCHANGED Abstract!vars
<1> USE IdempotencyAssumption DEF IdempotencyAssumption, IInv, TypeOK, Goto
<1>1. UNCHANGED <<inflight, savedAt, answer>>
  BY DEF ReadClock, OpReturns, OpPanics, Publish, NotifyWaiters, Subscribe
<1>2. \A q \in Requests : pc'[q] \in {"run", "put", "dead"} <=> pc[q] \in {"run", "put", "dead"}
  BY DEF ReadClock, OpReturns, OpPanics, Publish, NotifyWaiters, Subscribe
<1>3. Executing' = Executing /\ Executed' = Executed
  BY <1>1, <1>2 DEF Executing, Executed
<1> QED
  BY <1>1, <1>3 DEF Abstract!vars

LEMMA RefinesStep == IInv /\ [Next]_vars => [Abstract!Next]_Abstract!vars
<1> SUFFICES ASSUME IInv, [Next]_vars
             PROVE  Abstract!Next \/ UNCHANGED Abstract!vars
  OBVIOUS
<1>1. ASSUME NEW r \in Requests, Step(r) PROVE Abstract!Next \/ UNCHANGED Abstract!vars
  BY <1>1, ClaimRefines, PutRefines, AnswersRefine, OthersStutter DEF Step, Abstract!Next
<1>2. CASE Tick \/ UNCHANGED vars
  BY <1>2 DEF Tick, vars, Abstract!vars, Executing, Executed
<1> QED
  BY <1>1, <1>2 DEF Next

\* openclaw_idempotent_run keeps the promise of IdempotentOp: executions of a
\* key are serial, and only finished executions of it answer its requests.
THEOREM ImplementsIdempotentOp == Spec => Refinement
<1>1. Init => Abstract!Init
  BY RefinesInit
<1>2. IInv /\ [Next]_vars => [Abstract!Next]_Abstract!vars
  BY RefinesStep
<1> QED
  BY <1>1, <1>2, Invariance, PTL DEF Spec, Refinement, Abstract!Spec
=============================================================================
