--------------------------- MODULE ChatRunsProofs ---------------------------
(***************************************************************************)
(* Proofs about ChatRuns, for any requests, runs, sessions and limits.     *)
(* IInv is inductive: a task holds its run id until its outcome is both    *)
(* broadcast and cached, and only announced turns are ever copied.         *)
(***************************************************************************)
EXTENDS ChatRuns, TLAPS

\* A step is one of the actions, with its parameters.
Step ==
  \/ \E s \in Sends :
       \/ Look(s) \/ LookForRun(s) \/ Register(s) \/ Begin(s) \/ Load(s) \/ Peek(s)
       \/ Provider(s) \/ Cancelled(s) \/ Announce(s) \/ Cache(s) \/ Reload(s)
       \/ Save(s, "restore", "unregister") \/ Unregister(s) \/ Drain(s) \/ Save(s, "save", "done")
  \/ \E x \in Sessions : \/ \E runs \in SUBSET RunIds : Abort(x, runs)
                         \/ \E n \in Notes : Inject(x, n)
                         \/ \E e \in SysEvents : Enqueue(x, e)
  \/ \E m \in noting : SaveNote(m)
  \/ UNCHANGED vars

LEMMA Steps == [Next]_vars => Step
<1> SUFFICES ASSUME Next PROVE Step
  BY DEF Step
<1>1. \A x \in Sessions, r \in RunIds : Abort(x, {r}) => \E runs \in SUBSET RunIds : Abort(x, runs)
  BY \A r \in RunIds : {r} \in SUBSET RunIds
<1>2. \A x \in Sessions : Abort(x, RunIds) => \E runs \in SUBSET RunIds : Abort(x, runs)
  BY RunIds \in SUBSET RunIds
<1> QED
  BY <1>1, <1>2 DEF Next, Send, Task, Step

\* Pushed: the queue never exceeds its limit and never shrinks.
LEMMA PushedBounded ==
  ASSUME NEW q \in Seq(SysEvents), Len(q) <= MaxQueue, NEW e \in SysEvents
  PROVE  /\ Pushed(q, e) \in Seq(SysEvents)
         /\ Len(Pushed(q, e)) <= MaxQueue /\ Len(Pushed(q, e)) >= Len(q)
<1> USE ChatAssumption DEF ChatAssumption
<1>1. Append(q, e) \in Seq(SysEvents) /\ Len(Append(q, e)) = Len(q) + 1
  OBVIOUS
<1>2. CASE Len(q) < MaxQueue
  BY <1>1, <1>2 DEF Pushed
<1>3. CASE Len(q) = MaxQueue
  <2>1. SubSeq(Append(q, e), 2, MaxQueue + 1) \in Seq(SysEvents)
    BY <1>1, <1>3
  <2>2. Len(SubSeq(Append(q, e), 2, MaxQueue + 1)) = MaxQueue
    BY <1>1, <1>3
  <2> QED
    BY <1>3, <2>1, <2>2 DEF Pushed
<1> QED
  BY <1>2, <1>3

-----------------------------------------------------------------------------
(* Each part of the invariant is kept.                                     *)

\* The registry, the cache and the tasks keep their types.
LEMMA RunsTypedInductive == IInv /\ [Next]_vars => RunsTyped'
<1> SUFFICES ASSUME IInv, [Next]_vars PROVE RunsTyped'
  OBVIOUS
<1> USE ChatAssumption DEF ChatAssumption, IInv, TypeOK, RunsTyped, Stages, Outcomes, Lifecycle,
      Goto, Reply, End
<1>1. ASSUME NEW s \in Sends, Look(s) PROVE RunsTyped'
  <2>1. CASE cached[RunOf[s]] # "none"
    BY <1>1, <2>1 DEF Look
  <2>2. CASE ~(cached[RunOf[s]] # "none")
    BY <1>1, <2>2 DEF Look
  <2> QED
    BY <2>1, <2>2
<1>2. ASSUME NEW s \in Sends, LookForRun(s) PROVE RunsTyped'
  <2>1. CASE registry[RunOf[s]] # NoSend
    BY <1>2, <2>1 DEF LookForRun
  <2>2. CASE ~(registry[RunOf[s]] # NoSend)
    BY <1>2, <2>2 DEF LookForRun
  <2> QED
    BY <2>1, <2>2
<1>3. ASSUME NEW s \in Sends, Register(s) PROVE RunsTyped'
  <2>1. CASE registry[RunOf[s]] # NoSend
    BY <1>3, <2>1 DEF Register
  <2>2. CASE ~(registry[RunOf[s]] # NoSend)
    BY <1>3, <2>2 DEF Register
  <2> QED
    BY <2>1, <2>2
<1>4. ASSUME NEW s \in Sends, Begin(s) PROVE RunsTyped'
  <2>1. CASE s \in cancel
    BY <1>4, <2>1 DEF Begin
  <2>2. CASE s \notin cancel /\ Kind[s] # "chat"
    BY <1>4, <2>2 DEF Begin
  <2>3. CASE s \notin cancel /\ Kind[s] = "chat"
    BY <1>4, <2>3 DEF Begin
  <2> QED
    BY <2>1, <2>2, <2>3
<1>5. ASSUME NEW s \in Sends, Load(s) PROVE RunsTyped'
  BY <1>5 DEF Load
<1>6. ASSUME NEW s \in Sends, Peek(s) PROVE RunsTyped'
  BY <1>6 DEF Peek
<1>7. ASSUME NEW s \in Sends, Provider(s) PROVE RunsTyped'
  <2>1. CASE Goto(s, "ask", "stream") /\ UNCHANGED outcome
    BY <1>7, <2>1 DEF Provider
  <2>2. CASE \E from \in {"ask", "stream"} : End(s, from, "error")
    BY <1>7, <2>2 DEF Provider
  <2>3. CASE End(s, "stream", "ok")
    BY <1>7, <2>3 DEF Provider
  <2> QED
    BY <1>7, <2>1, <2>2, <2>3 DEF Provider
<1>8. ASSUME NEW s \in Sends, Cancelled(s) PROVE RunsTyped'
  BY <1>8 DEF Cancelled
<1>9. ASSUME NEW s \in Sends, Announce(s) PROVE RunsTyped'
  BY <1>9 DEF Announce
<1>10. ASSUME NEW s \in Sends, Cache(s) PROVE RunsTyped'
  BY <1>10 DEF Cache, AfterCache, Missing
<1>11. ASSUME NEW s \in Sends, Reload(s) PROVE RunsTyped'
  BY <1>11 DEF Reload
<1>12. ASSUME NEW s \in Sends, Save(s, "restore", "unregister") PROVE RunsTyped'
  BY <1>12 DEF Save
<1>13. ASSUME NEW s \in Sends, Unregister(s) PROVE RunsTyped'
  BY <1>13 DEF Unregister
<1>14. ASSUME NEW s \in Sends, Drain(s) PROVE RunsTyped'
  BY <1>14 DEF Drain
<1>15. ASSUME NEW s \in Sends, Save(s, "save", "done") PROVE RunsTyped'
  BY <1>15 DEF Save
<1>16. CASE \/ \E x \in Sessions : \/ \E runs \in SUBSET RunIds : Abort(x, runs)
                                   \/ \E n \in Notes : Inject(x, n)
                                   \/ \E e \in SysEvents : Enqueue(x, e)
            \/ \E m \in noting : SaveNote(m)
            \/ UNCHANGED vars
  BY <1>16 DEF Abort, Inject, Enqueue, SaveNote, vars
<1> HIDE DEF IInv, TypeOK, RunsTyped, Stages, Outcomes, Lifecycle, Goto, Reply, End
<1> QED
  BY <1>1, <1>2, <1>3, <1>4, <1>5, <1>6, <1>7, <1>8, <1>9, <1>10, <1>11, <1>12, <1>13, <1>14,
     <1>15, <1>16, Steps DEF Step

\* A task passes its stages in order.
LEMMA LifecycleInductive == IInv /\ [Next]_vars => Lifecycle'
<1> SUFFICES ASSUME IInv, [Next]_vars PROVE Lifecycle'
  OBVIOUS
<1> USE ChatAssumption DEF ChatAssumption, IInv, TypeOK, RunsTyped, Stages, Outcomes, Lifecycle,
      Goto, Reply, End
<1>1. ASSUME NEW s \in Sends, Look(s) PROVE Lifecycle'
  <2>1. CASE cached[RunOf[s]] # "none"
    BY <1>1, <2>1 DEF Look
  <2>2. CASE ~(cached[RunOf[s]] # "none")
    BY <1>1, <2>2 DEF Look
  <2> QED
    BY <2>1, <2>2
<1>2. ASSUME NEW s \in Sends, LookForRun(s) PROVE Lifecycle'
  <2>1. CASE registry[RunOf[s]] # NoSend
    BY <1>2, <2>1 DEF LookForRun
  <2>2. CASE ~(registry[RunOf[s]] # NoSend)
    BY <1>2, <2>2 DEF LookForRun
  <2> QED
    BY <2>1, <2>2
<1>3. ASSUME NEW s \in Sends, Register(s) PROVE Lifecycle'
  <2>1. CASE registry[RunOf[s]] # NoSend
    BY <1>3, <2>1 DEF Register
  <2>2. CASE ~(registry[RunOf[s]] # NoSend)
    BY <1>3, <2>2 DEF Register
  <2> QED
    BY <2>1, <2>2
<1>4. ASSUME NEW s \in Sends, Begin(s) PROVE Lifecycle'
  <2>1. CASE s \in cancel
    BY <1>4, <2>1 DEF Begin
  <2>2. CASE s \notin cancel /\ Kind[s] # "chat"
    BY <1>4, <2>2 DEF Begin
  <2>3. CASE s \notin cancel /\ Kind[s] = "chat"
    BY <1>4, <2>3 DEF Begin
  <2> QED
    BY <2>1, <2>2, <2>3
<1>5. ASSUME NEW s \in Sends, Load(s) PROVE Lifecycle'
  BY <1>5 DEF Load
<1>6. ASSUME NEW s \in Sends, Peek(s) PROVE Lifecycle'
  BY <1>6 DEF Peek
<1>7. ASSUME NEW s \in Sends, Provider(s) PROVE Lifecycle'
  <2>1. CASE Goto(s, "ask", "stream") /\ UNCHANGED outcome
    BY <1>7, <2>1 DEF Provider
  <2>2. CASE \E from \in {"ask", "stream"} : End(s, from, "error")
    BY <1>7, <2>2 DEF Provider
  <2>3. CASE End(s, "stream", "ok")
    BY <1>7, <2>3 DEF Provider
  <2> QED
    BY <1>7, <2>1, <2>2, <2>3 DEF Provider
<1>8. ASSUME NEW s \in Sends, Cancelled(s) PROVE Lifecycle'
  BY <1>8 DEF Cancelled
<1>9. ASSUME NEW s \in Sends, Announce(s) PROVE Lifecycle'
  BY <1>9 DEF Announce
<1>10. ASSUME NEW s \in Sends, Cache(s) PROVE Lifecycle'
  BY <1>10 DEF Cache, AfterCache
<1>11. ASSUME NEW s \in Sends, Reload(s) PROVE Lifecycle'
  BY <1>11 DEF Reload
<1>12. ASSUME NEW s \in Sends, Save(s, "restore", "unregister") PROVE Lifecycle'
  BY <1>12 DEF Save
<1>13. ASSUME NEW s \in Sends, Unregister(s) PROVE Lifecycle'
  BY <1>13 DEF Unregister
<1>14. ASSUME NEW s \in Sends, Drain(s) PROVE Lifecycle'
  BY <1>14 DEF Drain
<1>15. ASSUME NEW s \in Sends, Save(s, "save", "done") PROVE Lifecycle'
  BY <1>15 DEF Save
<1>16. CASE \/ \E x \in Sessions : \/ \E runs \in SUBSET RunIds : Abort(x, runs)
                                   \/ \E n \in Notes : Inject(x, n)
                                   \/ \E e \in SysEvents : Enqueue(x, e)
            \/ \E m \in noting : SaveNote(m)
            \/ UNCHANGED vars
  BY <1>16 DEF Abort, Inject, Enqueue, SaveNote, vars
<1> HIDE DEF IInv, TypeOK, RunsTyped, Stages, Outcomes, Lifecycle, Goto, Reply, End
<1> QED
  BY <1>1, <1>2, <1>3, <1>4, <1>5, <1>6, <1>7, <1>8, <1>9, <1>10, <1>11, <1>12, <1>13, <1>14,
     <1>15, <1>16, Steps DEF Step

\* A run id's entry belongs to its only live task.
LEMMA OneRunInductive == IInv /\ [Next]_vars => OneRunPerId'
<1> SUFFICES ASSUME IInv, [Next]_vars PROVE OneRunPerId'
  OBVIOUS
<1> USE ChatAssumption DEF ChatAssumption, IInv, TypeOK, RunsTyped, OneRunPerId, Live, Goto,
      Reply, End
<1>1. ASSUME NEW s \in Sends, Look(s) PROVE OneRunPerId'
  <2>1. CASE cached[RunOf[s]] # "none"
    BY <1>1, <2>1 DEF Look
  <2>2. CASE ~(cached[RunOf[s]] # "none")
    BY <1>1, <2>2 DEF Look
  <2> QED
    BY <2>1, <2>2
<1>2. ASSUME NEW s \in Sends, LookForRun(s) PROVE OneRunPerId'
  <2>1. CASE registry[RunOf[s]] # NoSend
    BY <1>2, <2>1 DEF LookForRun
  <2>2. CASE ~(registry[RunOf[s]] # NoSend)
    BY <1>2, <2>2 DEF LookForRun
  <2> QED
    BY <2>1, <2>2
<1>3. ASSUME NEW s \in Sends, Register(s) PROVE OneRunPerId'
  <2>1. CASE registry[RunOf[s]] # NoSend
    BY <1>3, <2>1 DEF Register
  <2>2. CASE ~(registry[RunOf[s]] # NoSend)
    BY <1>3, <2>2 DEF Register
  <2> QED
    BY <2>1, <2>2
<1>4. ASSUME NEW s \in Sends, Begin(s) PROVE OneRunPerId'
  <2>1. CASE s \in cancel
    BY <1>4, <2>1 DEF Begin
  <2>2. CASE s \notin cancel /\ Kind[s] # "chat"
    BY <1>4, <2>2 DEF Begin
  <2>3. CASE s \notin cancel /\ Kind[s] = "chat"
    BY <1>4, <2>3 DEF Begin
  <2> QED
    BY <2>1, <2>2, <2>3
<1>5. ASSUME NEW s \in Sends, Load(s) PROVE OneRunPerId'
  BY <1>5 DEF Load
<1>6. ASSUME NEW s \in Sends, Peek(s) PROVE OneRunPerId'
  BY <1>6 DEF Peek
<1>7. ASSUME NEW s \in Sends, Provider(s) PROVE OneRunPerId'
  <2>1. CASE Goto(s, "ask", "stream") /\ UNCHANGED outcome
    BY <1>7, <2>1 DEF Provider
  <2>2. CASE \E from \in {"ask", "stream"} : End(s, from, "error")
    BY <1>7, <2>2 DEF Provider
  <2>3. CASE End(s, "stream", "ok")
    BY <1>7, <2>3 DEF Provider
  <2> QED
    BY <1>7, <2>1, <2>2, <2>3 DEF Provider
<1>8. ASSUME NEW s \in Sends, Cancelled(s) PROVE OneRunPerId'
  BY <1>8 DEF Cancelled
<1>9. ASSUME NEW s \in Sends, Announce(s) PROVE OneRunPerId'
  BY <1>9 DEF Announce
<1>10. ASSUME NEW s \in Sends, Cache(s) PROVE OneRunPerId'
  BY <1>10 DEF Cache, AfterCache
<1>11. ASSUME NEW s \in Sends, Reload(s) PROVE OneRunPerId'
  BY <1>11 DEF Reload
<1>12. ASSUME NEW s \in Sends, Save(s, "restore", "unregister") PROVE OneRunPerId'
  BY <1>12 DEF Save
<1>13. ASSUME NEW s \in Sends, Unregister(s) PROVE OneRunPerId'
  BY <1>13 DEF Unregister
<1>14. ASSUME NEW s \in Sends, Drain(s) PROVE OneRunPerId'
  BY <1>14 DEF Drain
<1>15. ASSUME NEW s \in Sends, Save(s, "save", "done") PROVE OneRunPerId'
  BY <1>15 DEF Save
<1>16. CASE \/ \E x \in Sessions : \/ \E runs \in SUBSET RunIds : Abort(x, runs)
                                   \/ \E n \in Notes : Inject(x, n)
                                   \/ \E e \in SysEvents : Enqueue(x, e)
            \/ \E m \in noting : SaveNote(m)
            \/ UNCHANGED vars
  BY <1>16 DEF Abort, Inject, Enqueue, SaveNote, vars
<1> HIDE DEF IInv, TypeOK, RunsTyped, OneRunPerId, Live, Goto, Reply, End
<1> QED
  BY <1>1, <1>2, <1>3, <1>4, <1>5, <1>6, <1>7, <1>8, <1>9, <1>10, <1>11, <1>12, <1>13, <1>14,
     <1>15, <1>16, Steps DEF Step

\* A started run stays in the registry until it is in the cache.
LEMMA RetryInductive == IInv /\ [Next]_vars => RetryFindsRun'
<1> SUFFICES ASSUME IInv, [Next]_vars PROVE RetryFindsRun'
  OBVIOUS
<1> USE ChatAssumption DEF ChatAssumption, IInv, TypeOK, RunsTyped, Outcomes, RetryFindsRun,
      Lifecycle, OneRunPerId, Live, Goto, Reply, End
<1>1. ASSUME NEW s \in Sends, Look(s) PROVE RetryFindsRun'
  <2>1. CASE cached[RunOf[s]] # "none"
    BY <1>1, <2>1 DEF Look
  <2>2. CASE ~(cached[RunOf[s]] # "none")
    BY <1>1, <2>2 DEF Look
  <2> QED
    BY <2>1, <2>2
<1>2. ASSUME NEW s \in Sends, LookForRun(s) PROVE RetryFindsRun'
  <2>1. CASE registry[RunOf[s]] # NoSend
    BY <1>2, <2>1 DEF LookForRun
  <2>2. CASE ~(registry[RunOf[s]] # NoSend)
    BY <1>2, <2>2 DEF LookForRun
  <2> QED
    BY <2>1, <2>2
<1>3. ASSUME NEW s \in Sends, Register(s) PROVE RetryFindsRun'
  <2>1. CASE registry[RunOf[s]] # NoSend
    BY <1>3, <2>1 DEF Register
  <2>2. CASE ~(registry[RunOf[s]] # NoSend)
    BY <1>3, <2>2 DEF Register
  <2> QED
    BY <2>1, <2>2
<1>4. ASSUME NEW s \in Sends, Begin(s) PROVE RetryFindsRun'
  <2>1. CASE s \in cancel
    BY <1>4, <2>1 DEF Begin
  <2>2. CASE s \notin cancel /\ Kind[s] # "chat"
    BY <1>4, <2>2 DEF Begin
  <2>3. CASE s \notin cancel /\ Kind[s] = "chat"
    BY <1>4, <2>3 DEF Begin
  <2> QED
    BY <2>1, <2>2, <2>3
<1>5. ASSUME NEW s \in Sends, Load(s) PROVE RetryFindsRun'
  BY <1>5 DEF Load
<1>6. ASSUME NEW s \in Sends, Peek(s) PROVE RetryFindsRun'
  BY <1>6 DEF Peek
<1>7. ASSUME NEW s \in Sends, Provider(s) PROVE RetryFindsRun'
  <2>1. CASE Goto(s, "ask", "stream") /\ UNCHANGED outcome
    BY <1>7, <2>1 DEF Provider
  <2>2. CASE \E from \in {"ask", "stream"} : End(s, from, "error")
    BY <1>7, <2>2 DEF Provider
  <2>3. CASE End(s, "stream", "ok")
    BY <1>7, <2>3 DEF Provider
  <2> QED
    BY <1>7, <2>1, <2>2, <2>3 DEF Provider
<1>8. ASSUME NEW s \in Sends, Cancelled(s) PROVE RetryFindsRun'
  BY <1>8 DEF Cancelled
<1>9. ASSUME NEW s \in Sends, Announce(s) PROVE RetryFindsRun'
  BY <1>9 DEF Announce
<1>10. ASSUME NEW s \in Sends, Cache(s) PROVE RetryFindsRun'
  BY <1>10 DEF Cache, AfterCache
<1>11. ASSUME NEW s \in Sends, Reload(s) PROVE RetryFindsRun'
  BY <1>11 DEF Reload
<1>12. ASSUME NEW s \in Sends, Save(s, "restore", "unregister") PROVE RetryFindsRun'
  BY <1>12 DEF Save
<1>13. ASSUME NEW s \in Sends, Unregister(s) PROVE RetryFindsRun'
  BY <1>13 DEF Unregister
<1>14. ASSUME NEW s \in Sends, Drain(s) PROVE RetryFindsRun'
  BY <1>14 DEF Drain
<1>15. ASSUME NEW s \in Sends, Save(s, "save", "done") PROVE RetryFindsRun'
  BY <1>15 DEF Save
<1>16. CASE \/ \E x \in Sessions : \/ \E runs \in SUBSET RunIds : Abort(x, runs)
                                   \/ \E n \in Notes : Inject(x, n)
                                   \/ \E e \in SysEvents : Enqueue(x, e)
            \/ \E m \in noting : SaveNote(m)
            \/ UNCHANGED vars
  BY <1>16 DEF Abort, Inject, Enqueue, SaveNote, vars
<1> HIDE DEF IInv, TypeOK, RunsTyped, Outcomes, RetryFindsRun, Lifecycle, OneRunPerId, Live,
      Goto, Reply, End
<1> QED
  BY <1>1, <1>2, <1>3, <1>4, <1>5, <1>6, <1>7, <1>8, <1>9, <1>10, <1>11, <1>12, <1>13, <1>14,
     <1>15, <1>16, Steps DEF Step

\* Announced tasks stay announced, with their outcome.
Kept == announced \subseteq announced' /\ \A t \in announced : outcome'[t] = outcome[t]

\* What was announced stays as it was announced.
LEMMA AnnouncedStays == IInv /\ [Next]_vars => Kept
<1> SUFFICES ASSUME IInv, [Next]_vars PROVE Kept
  OBVIOUS
<1> USE ChatAssumption DEF ChatAssumption, IInv, TypeOK, RunsTyped, Lifecycle, Kept, Goto,
      Reply, End
<1>1. ASSUME NEW s \in Sends, Look(s) PROVE Kept
  <2>1. CASE cached[RunOf[s]] # "none"
    BY <1>1, <2>1 DEF Look
  <2>2. CASE ~(cached[RunOf[s]] # "none")
    BY <1>1, <2>2 DEF Look
  <2> QED
    BY <2>1, <2>2
<1>2. ASSUME NEW s \in Sends, LookForRun(s) PROVE Kept
  <2>1. CASE registry[RunOf[s]] # NoSend
    BY <1>2, <2>1 DEF LookForRun
  <2>2. CASE ~(registry[RunOf[s]] # NoSend)
    BY <1>2, <2>2 DEF LookForRun
  <2> QED
    BY <2>1, <2>2
<1>3. ASSUME NEW s \in Sends, Register(s) PROVE Kept
  <2>1. CASE registry[RunOf[s]] # NoSend
    BY <1>3, <2>1 DEF Register
  <2>2. CASE ~(registry[RunOf[s]] # NoSend)
    BY <1>3, <2>2 DEF Register
  <2> QED
    BY <2>1, <2>2
<1>4. ASSUME NEW s \in Sends, Begin(s) PROVE Kept
  <2>1. CASE s \in cancel
    BY <1>4, <2>1 DEF Begin
  <2>2. CASE s \notin cancel /\ Kind[s] # "chat"
    BY <1>4, <2>2 DEF Begin
  <2>3. CASE s \notin cancel /\ Kind[s] = "chat"
    BY <1>4, <2>3 DEF Begin
  <2> QED
    BY <2>1, <2>2, <2>3
<1>5. ASSUME NEW s \in Sends, Load(s) PROVE Kept
  BY <1>5 DEF Load
<1>6. ASSUME NEW s \in Sends, Peek(s) PROVE Kept
  BY <1>6 DEF Peek
<1>7. ASSUME NEW s \in Sends, Provider(s) PROVE Kept
  <2>1. CASE Goto(s, "ask", "stream") /\ UNCHANGED outcome
    BY <1>7, <2>1 DEF Provider
  <2>2. CASE \E from \in {"ask", "stream"} : End(s, from, "error")
    BY <1>7, <2>2 DEF Provider
  <2>3. CASE End(s, "stream", "ok")
    BY <1>7, <2>3 DEF Provider
  <2> QED
    BY <1>7, <2>1, <2>2, <2>3 DEF Provider
<1>8. ASSUME NEW s \in Sends, Cancelled(s) PROVE Kept
  BY <1>8 DEF Cancelled
<1>9. ASSUME NEW s \in Sends, Announce(s) PROVE Kept
  BY <1>9 DEF Announce
<1>10. ASSUME NEW s \in Sends, Cache(s) PROVE Kept
  BY <1>10 DEF Cache, AfterCache
<1>11. ASSUME NEW s \in Sends, Reload(s) PROVE Kept
  BY <1>11 DEF Reload
<1>12. ASSUME NEW s \in Sends, Save(s, "restore", "unregister") PROVE Kept
  BY <1>12 DEF Save
<1>13. ASSUME NEW s \in Sends, Unregister(s) PROVE Kept
  BY <1>13 DEF Unregister
<1>14. ASSUME NEW s \in Sends, Drain(s) PROVE Kept
  BY <1>14 DEF Drain
<1>15. ASSUME NEW s \in Sends, Save(s, "save", "done") PROVE Kept
  BY <1>15 DEF Save
<1>16. CASE \/ \E x \in Sessions : \/ \E runs \in SUBSET RunIds : Abort(x, runs)
                                   \/ \E n \in Notes : Inject(x, n)
                                   \/ \E e \in SysEvents : Enqueue(x, e)
            \/ \E m \in noting : SaveNote(m)
            \/ UNCHANGED vars
  BY <1>16 DEF Abort, Inject, Enqueue, SaveNote, vars
<1> HIDE DEF IInv, TypeOK, RunsTyped, Lifecycle, Kept, Goto, Reply, End
<1> QED
  BY <1>1, <1>2, <1>3, <1>4, <1>5, <1>6, <1>7, <1>8, <1>9, <1>10, <1>11, <1>12, <1>13, <1>14,
     <1>15, <1>16, Steps DEF Step

\* The messages that were fit for a session stay fit for it.
LEMMA FinishedStays ==
  ASSUME Kept, NEW turns, NEW x, Finished(turns, x) PROVE Finished(turns, x)'
  BY DEF Kept, Finished

\* What a step may do to the transcripts and their copies.
Storing ==
  \/ UNCHANGED <<transcript, copy, noting>>
  \/ \E s \in Sends : Load(s) \/ Reload(s) \/ Save(s, "restore", "unregister") \/ Save(s, "save", "done")
  \/ \E x \in Sessions, n \in Notes : Inject(x, n)
  \/ \E m \in noting : SaveNote(m)

LEMMA StoringSteps == [Next]_vars => Storing
  BY Steps DEF Step, Storing, vars, Look, LookForRun, Register, Begin, Peek, Provider, Cancelled,
     Announce, Cache, Unregister, Drain, Abort, Enqueue

\* Whatever a store leaves of the messages it was given is of their type ...
LEMMA StoreTyped ==
  ASSUME transcript \in [Sessions -> SUBSET Messages], NEW x \in Sessions,
         NEW old \in SUBSET Messages, NEW new \in Messages, Store(x, old, new)
  PROVE  transcript' \in [Sessions -> SUBSET Messages]
<1>1. ASSUME NEW kept \in (SUBSET old) \cup {old \cup {new}} PROVE kept \in SUBSET Messages
  <2>1. CASE kept \in SUBSET old
    BY <2>1
  <2>2. CASE kept = old \cup {new}
    BY <2>2
  <2> QED
    BY <1>1, <2>1, <2>2
<1> QED
  BY <1>1 DEF Store

\* ... and is in the session it was stored for.
LEMMA StoreKeeps ==
  ASSUME transcript \in [Sessions -> SUBSET Messages], NEW x \in Sessions,
         NEW old, NEW new, Store(x, old, new), NEW y \in Sessions, transcript'[y] # transcript[y]
  PROVE  y = x /\ transcript'[y] \subseteq old \cup {new}
<1>1. PICK kept \in (SUBSET old) \cup {old \cup {new}} : transcript' = [transcript EXCEPT ![x] = kept]
  BY DEF Store
<1>2. y = x /\ transcript'[y] = kept
  BY <1>1
<1>3. kept \subseteq old \cup {new}
  <2>1. CASE kept \in SUBSET old
    BY <2>1
  <2>2. CASE kept = old \cup {new}
    BY <2>2
  <2> QED
    BY <2>1, <2>2
<1> QED
  BY <1>2, <1>3

\* Transcripts and copies keep their types.
LEMMA TranscriptsTypedInductive == IInv /\ [Next]_vars => TranscriptsTyped'
<1> SUFFICES ASSUME IInv, [Next]_vars PROVE TranscriptsTyped'
  OBVIOUS
<1> USE ChatAssumption DEF ChatAssumption, IInv, TypeOK, TranscriptsTyped, Messages
<1>1. CASE UNCHANGED <<transcript, copy, noting>>
  BY <1>1
<1>2. ASSUME NEW s \in Sends, Load(s) \/ Reload(s) PROVE TranscriptsTyped'
  BY <1>2 DEF Load, Reload
<1>3. ASSUME NEW s \in Sends, Save(s, "restore", "unregister") \/ Save(s, "save", "done")
      PROVE  TranscriptsTyped'
  <2>1. copy[s] \in SUBSET (Sends \cup Notes) /\ SessionOf[s] \in Sessions
    OBVIOUS
  <2>2. UNCHANGED <<copy, noting>> /\ Store(SessionOf[s], copy[s], s)
    BY <1>3 DEF Save
  <2>3. transcript' \in [Sessions -> SUBSET (Sends \cup Notes)]
    BY <2>1, <2>2, StoreTyped DEF Messages
  <2> QED
    BY <2>2, <2>3
<1>4. ASSUME NEW x \in Sessions, NEW n \in Notes, Inject(x, n) PROVE TranscriptsTyped'
  <2>1. [note |-> n, session |-> x, base |-> transcript[x], saved |-> FALSE]
          \in [note : Notes, session : Sessions, base : SUBSET (Sends \cup Notes), saved : BOOLEAN]
    OBVIOUS
  <2> QED
    BY <1>4, <2>1 DEF Inject
<1>5. ASSUME NEW m \in noting, SaveNote(m) PROVE TranscriptsTyped'
  <2>1. m \in [note : Notes, session : Sessions, base : SUBSET (Sends \cup Notes), saved : BOOLEAN]
    OBVIOUS
  <2>2. [m EXCEPT !.saved = TRUE]
          \in [note : Notes, session : Sessions, base : SUBSET (Sends \cup Notes), saved : BOOLEAN]
    BY <2>1
  <2>3. noting' \subseteq [note : Notes, session : Sessions, base : SUBSET (Sends \cup Notes), saved : BOOLEAN]
    BY <1>5, <2>2 DEF SaveNote
  <2>4. m.base \in SUBSET (Sends \cup Notes) /\ m.note \in Sends \cup Notes /\ m.session \in Sessions
    BY <2>1
  <2>5. transcript' \in [Sessions -> SUBSET (Sends \cup Notes)]
    BY <1>5, <2>4, StoreTyped DEF SaveNote, Messages
  <2> QED
    BY <1>5, <2>3, <2>5 DEF SaveNote
<1> QED
  BY <1>1, <1>2, <1>3, <1>4, <1>5, StoringSteps DEF Storing

\* What is stored is a copy and the task's own, successful turn, or a note.
LEMMA TranscriptInductive == IInv /\ [Next]_vars => TranscriptOnlyFinished'
<1> SUFFICES ASSUME IInv, [Next]_vars, NEW y \in Sessions PROVE Finished(transcript[y], y)'
  BY DEF TranscriptOnlyFinished
<1>1. Kept
  BY AnnouncedStays
<1>2. Finished(transcript[y], y)
  BY DEF IInv, TranscriptOnlyFinished
<1>3. CASE transcript'[y] = transcript[y]
  BY <1>1, <1>2, <1>3 DEF Kept, Finished
<1>4. ASSUME NEW s \in Sends, Save(s, "restore", "unregister") \/ Save(s, "save", "done"),
             transcript'[y] # transcript[y]
      PROVE  Finished(transcript[y], y)'
  <2>0. SessionOf[s] \in Sessions /\ Store(SessionOf[s], copy[s], s)
    BY <1>4, ChatAssumption DEF Save, ChatAssumption
  <2>1. transcript'[y] \subseteq copy[s] \cup {s} /\ y = SessionOf[s]
    BY <1>4, <2>0, StoreKeeps DEF IInv, TypeOK, TranscriptsTyped
  <2>2. s \in announced /\ outcome[s] = "ok"
    BY <1>4 DEF Save, Goto, IInv, Lifecycle
  <2>3. Finished(copy[s], SessionOf[s])
    BY DEF IInv, CopiesFinished
  <2> QED
    BY <1>1, <2>1, <2>2, <2>3 DEF Kept, Finished
<1>5. ASSUME NEW m \in noting, SaveNote(m), transcript'[y] # transcript[y]
      PROVE  Finished(transcript[y], y)'
  <2>0. m.session \in Sessions /\ Store(m.session, m.base, m.note)
    BY <1>5 DEF SaveNote, IInv, TypeOK, TranscriptsTyped
  <2>1. transcript'[y] \subseteq m.base \cup {m.note} /\ y = m.session
    BY <1>5, <2>0, StoreKeeps DEF IInv, TypeOK, TranscriptsTyped
  <2>2. m.note \in Notes
    BY DEF IInv, TypeOK, TranscriptsTyped
  <2>3. m.note \notin Sends
    BY <2>2, ChatAssumption DEF ChatAssumption
  <2>4. Finished(m.base, m.session)
    BY DEF IInv, CopiesFinished
  <2> QED
    BY <1>1, <2>1, <2>3, <2>4 DEF Kept, Finished
<1> QED
  BY <1>3, <1>4, <1>5, StoringSteps DEF Storing, Load, Reload, Inject

\* What is loaded is what was stored.
LEMMA CopiesInductive == IInv /\ [Next]_vars => CopiesFinished'
<1> SUFFICES ASSUME IInv, [Next]_vars PROVE CopiesFinished'
  OBVIOUS
<1>1. Kept
  BY AnnouncedStays
<1>2. /\ \A s \in Sends : Finished(copy[s], SessionOf[s])
      /\ \A m \in noting : Finished(m.base, m.session)
      /\ \A x \in Sessions : Finished(transcript[x], x)
  BY DEF IInv, CopiesFinished, TranscriptOnlyFinished
<1>3. ASSUME NEW t \in Sends PROVE Finished(copy[t], SessionOf[t])'
  <2>1. SessionOf[t] \in Sessions
    BY ChatAssumption DEF ChatAssumption
  <2>2. \/ copy'[t] = copy[t]
        \/ copy'[t] = transcript[SessionOf[t]]
    BY StoringSteps DEF Storing, Load, Reload, Save, Inject, SaveNote, IInv, TypeOK, TranscriptsTyped
  <2> QED
    BY <1>1, <1>2, <2>1, <2>2 DEF Kept, Finished
<1>4. ASSUME NEW k \in noting' PROVE Finished(k.base, k.session)'
  <2>1. CASE k \in noting
    BY <1>1, <1>2, <2>1 DEF Kept, Finished
  <2>2. ASSUME NEW x \in Sessions, NEW n \in Notes, Inject(x, n), k \notin noting
        PROVE  Finished(k.base, k.session)'
    <3>1. k.base = transcript[x] /\ k.session = x
      BY <2>2 DEF Inject
    <3> QED
      BY <1>1, <1>2, <3>1 DEF Kept, Finished
  <2>3. ASSUME NEW m \in noting, SaveNote(m), k \notin noting PROVE Finished(k.base, k.session)'
    <3>1. k = [m EXCEPT !.saved = TRUE]
      BY <2>3 DEF SaveNote
    <3>2. k.base = m.base /\ k.session = m.session
      BY <3>1 DEF IInv, TypeOK, TranscriptsTyped
    <3> QED
      BY <1>1, <1>2, <3>2 DEF Kept, Finished
  <2> QED
    BY <2>1, <2>2, <2>3, StoringSteps DEF Storing, Load, Reload, Save
<1> QED
  BY <1>3, <1>4 DEF CopiesFinished

\* What a request has missed in the cache is put there only by a run that overtakes it.
LEMMA MissInductive == IInv /\ [Next]_vars => MissHolds'
<1> SUFFICES ASSUME IInv, [Next]_vars, NEW t \in Sends, pc'[t] \in {"missed", "idle"},
                    t \notin overtaken'
             PROVE  cached'[RunOf[t]] = "none"
  BY DEF MissHolds
<1> USE ChatAssumption DEF ChatAssumption, IInv, TypeOK, RunsTyped, MissHolds, Goto, Reply, End
<1>1. ASSUME NEW s \in Sends, Look(s) PROVE cached'[RunOf[t]] = "none"
  <2>1. CASE cached[RunOf[s]] # "none"
    BY <1>1, <2>1 DEF Look
  <2>2. CASE ~(cached[RunOf[s]] # "none")
    BY <1>1, <2>2 DEF Look
  <2> QED
    BY <2>1, <2>2
<1>2. ASSUME NEW s \in Sends, LookForRun(s) PROVE cached'[RunOf[t]] = "none"
  <2>1. CASE registry[RunOf[s]] # NoSend
    BY <1>2, <2>1 DEF LookForRun
  <2>2. CASE ~(registry[RunOf[s]] # NoSend)
    BY <1>2, <2>2 DEF LookForRun
  <2> QED
    BY <2>1, <2>2
<1>3. ASSUME NEW s \in Sends, Cache(s) PROVE cached'[RunOf[t]] = "none"
  <2>1. pc[t] = pc'[t]
    BY <1>3 DEF Cache, AfterCache
  <2>2. RunOf[t] # RunOf[s]
    BY <1>3, <2>1 DEF Cache, Missing
  <2> QED
    BY <1>3, <2>1, <2>2 DEF Cache
\* Every other step leaves the cache alone, and no request comes to look.
<1>4. ASSUME NEW s \in Sends, NEW from, NEW to, to \notin {"missed", "idle"}, Goto(s, from, to),
             UNCHANGED <<cached, overtaken>>
      PROVE  cached'[RunOf[t]] = "none"
  BY <1>4
<1>5. CASE UNCHANGED <<pc, cached, overtaken>>
  BY <1>5
<1> HIDE DEF IInv, TypeOK, RunsTyped, MissHolds, Goto
<1>6. ASSUME NEW s \in Sends, Register(s) PROVE cached'[RunOf[t]] = "none"
  BY <1>4, <1>6 DEF Register
<1>7. ASSUME NEW s \in Sends, Begin(s) \/ Load(s) \/ Peek(s) \/ Provider(s) \/ Cancelled(s)
      PROVE  cached'[RunOf[t]] = "none"
  BY <1>4, <1>7 DEF Begin, Load, Peek, Provider, Cancelled
<1>8. ASSUME NEW s \in Sends,
             \/ Announce(s) \/ Reload(s) \/ Save(s, "restore", "unregister")
             \/ Unregister(s) \/ Drain(s) \/ Save(s, "save", "done")
      PROVE  cached'[RunOf[t]] = "none"
  BY <1>4, <1>8 DEF Announce, Reload, Save, Unregister, Drain
<1>9. CASE \/ UNCHANGED vars \/ \E m \in noting : SaveNote(m)
           \/ \E x \in Sessions : \/ \E runs \in SUBSET RunIds : Abort(x, runs)
                                  \/ \E n \in Notes : Inject(x, n)
                                  \/ \E e \in SysEvents : Enqueue(x, e)
  BY <1>5, <1>9 DEF vars, SaveNote, Abort, Inject, Enqueue
<1> QED
  BY <1>1, <1>2, <1>3, <1>6, <1>7, <1>8, <1>9, Steps DEF Step

\* A run is started by its registration, and who was overtaken stays so.
LEMMA StartedBy ==
  IInv /\ [Next]_vars =>
    /\ overtaken \subseteq overtaken'
    /\ \A s \in Sends : answer'[s] = "started" =>
         answer[s] = "started" \/ (Register(s) /\ registry[RunOf[s]] = NoSend)
<1> SUFFICES ASSUME IInv, [Next]_vars
             PROVE  /\ overtaken \subseteq overtaken'
                    /\ \A s \in Sends : answer'[s] = "started" =>
                         answer[s] = "started" \/ (Register(s) /\ registry[RunOf[s]] = NoSend)
  OBVIOUS
<1>1. overtaken \subseteq overtaken'
  BY Steps DEF Step, vars, Look, LookForRun, Register, Begin, Load, Peek, Provider, Cancelled, Announce,
     Cache, Reload, Save, Unregister, Drain, Abort, Inject, SaveNote, Enqueue
<1>2. answer' = answer \/ \E s \in Sends : Look(s) \/ LookForRun(s) \/ Register(s)
  BY Steps DEF Step, vars, Begin, Load, Peek, Provider, Cancelled, Announce,
     Cache, Reload, Save, Unregister, Drain, Abort, Inject, SaveNote, Enqueue
<1>3. ASSUME NEW s \in Sends, Look(s) \/ LookForRun(s) \/ Register(s), NEW t \in Sends,
             answer'[t] = "started", answer[t] # "started"
      PROVE  Register(t) /\ registry[RunOf[t]] = NoSend
  <2>1. answer' = [answer EXCEPT ![s] = answer'[s]] /\ t = s
    BY <1>3 DEF Look, LookForRun, Register, Reply, IInv, TypeOK, RunsTyped
  <2>0. answer \in [Sends -> Outcomes \cup {"none", "in_flight", "started"}]
    BY DEF IInv, TypeOK, RunsTyped
  <2>l. ~Look(s)
    <3>1. cached[RunOf[s]] \in Outcomes \cup {"none"}
      BY ChatAssumption DEF IInv, TypeOK, RunsTyped, ChatAssumption
    <3>2. cached[RunOf[s]] # "started"
      BY <3>1 DEF Outcomes
    <3>3. Look(s) => answer' = answer \/ answer' = [answer EXCEPT ![s] = cached[RunOf[s]]]
      BY DEF Look, Reply
    <3> QED
      BY <1>3, <2>0, <2>1, <3>2, <3>3
  <2>f. ~LookForRun(s)
    <3>1. LookForRun(s) => answer' = answer \/ answer' = [answer EXCEPT ![s] = "in_flight"]
      BY DEF LookForRun, Reply
    <3> QED
      BY <1>3, <2>0, <2>1, <3>1
  <2>2. ~Look(s) /\ ~LookForRun(s)
    BY <2>l, <2>f
  <2>3. registry[RunOf[s]] = NoSend
    BY <1>3, <2>1, <2>2 DEF Register, Reply, IInv, TypeOK, RunsTyped
  <2> QED
    BY <1>3, <2>1, <2>2, <2>3
<1> QED
  BY <1>1, <1>2, <1>3

\* A started run is in one of the two tables, so a request that starts it again has
\* missed it in the first before it was there, and in the second when it was gone.
LEMMA RerunInductive == IInv /\ [Next]_vars => RerunMeansOvertaken'
<1> SUFFICES ASSUME IInv, [Next]_vars, NEW s \in Sends, NEW t \in Sends, s # t, RunOf[s] = RunOf[t],
                    answer'[s] = "started", answer'[t] = "started"
             PROVE  s \in overtaken' \/ t \in overtaken'
  BY DEF RerunMeansOvertaken
<1>1. ASSUME NEW p \in Sends, NEW q \in Sends, Register(p), registry[RunOf[p]] = NoSend,
             answer[q] = "started", RunOf[q] = RunOf[p]
      PROVE  p \in overtaken
  <2>1. registry[RunOf[q]] # q
    BY <1>1, ChatAssumption DEF ChatAssumption
  <2>2. cached[RunOf[p]] # "none"
    BY <1>1, <2>1 DEF IInv, RetryFindsRun
  <2> QED
    BY <1>1, <2>2 DEF Register, Goto, IInv, MissHolds
<1>2. ~(Register(s) /\ registry[RunOf[s]] = NoSend /\ Register(t) /\ registry[RunOf[t]] = NoSend
        /\ answer[s] # "started" /\ answer[t] # "started")
  <2> SUFFICES ASSUME Register(s), registry[RunOf[s]] = NoSend, Register(t), registry[RunOf[t]] = NoSend,
                      answer[s] # "started"
               PROVE  FALSE
    OBVIOUS
  <2>1. answer' = [answer EXCEPT ![t] = "started"]
    BY DEF Register
  <2> QED
    BY <2>1 DEF IInv, TypeOK, RunsTyped
<1> QED
  BY <1>1, <1>2, StartedBy DEF IInv, RerunMeansOvertaken

\* What is cached was broadcast, and what was broadcast stays.
LEMMA CacheInductive == IInv /\ [Next]_vars => CacheMatchesEvents'
<1> SUFFICES ASSUME IInv, [Next]_vars, NEW r \in RunIds, cached'[r] # "none"
             PROVE  \E t \in announced' : RunOf[t] = r /\ outcome'[t] = cached'[r]
  BY DEF CacheMatchesEvents
<1>1. Kept
  BY AnnouncedStays
<1>2. CASE cached'[r] = cached[r]
  BY <1>1, <1>2 DEF Kept, IInv, CacheMatchesEvents
<1>3. ASSUME NEW s \in Sends, Cache(s), cached'[r] # cached[r]
      PROVE  s \in announced /\ RunOf[s] = r /\ outcome[s] = cached'[r]
  <2>1. s \in announced
    BY <1>3 DEF Cache, Goto, IInv, Lifecycle
  <2>2. cached' = [cached EXCEPT ![RunOf[s]] = outcome[s]] /\ cached \in [RunIds -> Outcomes \cup {"none"}]
    BY <1>3 DEF Cache, IInv, TypeOK, RunsTyped
  <2> QED
    BY <1>3, <2>1, <2>2
<1>4. UNCHANGED cached \/ \E s \in Sends : Cache(s)
  BY Steps DEF Step, vars, Look, LookForRun, Register, Begin, Load, Peek, Provider, Cancelled,
     Announce, Reload, Save, Unregister, Drain, Abort, Inject, Enqueue, SaveNote
<1> QED
  BY <1>1, <1>2, <1>3, <1>4 DEF Kept

\* Answers come from the cache.
LEMMA AnswersInductive == IInv /\ [Next]_vars => AnswersMatchEvents'
<1> SUFFICES ASSUME IInv, [Next]_vars, NEW u \in Sends, answer'[u] \in Outcomes
             PROVE  \E t \in announced' : RunOf[t] = RunOf[u] /\ outcome'[t] = answer'[u]
  BY DEF AnswersMatchEvents
<1>1. Kept
  BY AnnouncedStays
<1>2. CASE answer'[u] = answer[u]
  BY <1>1, <1>2 DEF Kept, IInv, AnswersMatchEvents
<1>3. CASE cached[RunOf[u]] # "none" /\ answer'[u] = cached[RunOf[u]]
  <2>1. RunOf[u] \in RunIds
    BY ChatAssumption DEF ChatAssumption
  <2> QED
    BY <1>1, <1>3, <2>1 DEF Kept, IInv, CacheMatchesEvents
<1>4. ASSUME NEW s \in Sends, Look(s) \/ LookForRun(s) \/ Register(s), answer'[u] # answer[u]
      PROVE  cached[RunOf[u]] # "none" /\ answer'[u] = cached[RunOf[u]]
  <2>1. u = s
    BY <1>4 DEF Look, LookForRun, Register, Reply, IInv, TypeOK, RunsTyped
  <2>2. answer'[s] \notin {"in_flight", "started"}
    BY <2>1 DEF Outcomes
  <2> QED
    BY <1>4, <2>1, <2>2 DEF Look, LookForRun, Register, Reply, IInv, TypeOK, RunsTyped
<1>5. UNCHANGED answer \/ \E s \in Sends : Look(s) \/ LookForRun(s) \/ Register(s)
  BY Steps DEF Step, vars, Begin, Load, Peek, Provider, Cancelled, Announce, Cache,
     Reload, Save, Unregister, Drain, Abort, Inject, Enqueue, SaveNote
<1> QED
  BY <1>2, <1>3, <1>4, <1>5

\* What a step may do to the queues of system events.
LEMMA EventSteps ==
  [Next]_vars => \/ UNCHANGED <<queue, last, prompted>>
                 \/ \E s \in Sends : Peek(s) \/ Drain(s)
                 \/ \E x \in Sessions, e \in SysEvents : Enqueue(x, e)
  BY Steps DEF Step, vars, Look, LookForRun, Register, Begin, Load, Provider, Cancelled,
     Announce, Cache, Reload, Save, Unregister, Abort, Inject, SaveNote

\* The queues keep their types and their limit.
LEMMA EventsTypedInductive == IInv /\ [Next]_vars => EventsTyped'
<1> SUFFICES ASSUME IInv, [Next]_vars PROVE EventsTyped'
  OBVIOUS
<1> USE ChatAssumption DEF ChatAssumption, IInv, TypeOK, EventsTyped
<1>1. CASE UNCHANGED <<queue, last, prompted>>
  BY <1>1
<1>2. ASSUME NEW s \in Sends, Peek(s) PROVE EventsTyped'
  <2>1. Range(queue[SessionOf[s]]) \in SUBSET SysEvents
    BY DEF Range
  <2> QED
    BY <1>2, <2>1 DEF Peek
<1>3. ASSUME NEW s \in Sends, Drain(s) PROVE EventsTyped'
  <2>1. CASE prompted[s] # {}
    <3>1. <<>> \in Seq(SysEvents) /\ Len(<<>>) <= MaxQueue
      OBVIOUS
    <3>2. /\ queue' = [queue EXCEPT ![SessionOf[s]] = <<>>]
          /\ last' = [last EXCEPT ![SessionOf[s]] = NoEvent] /\ UNCHANGED prompted
      BY <1>3, <2>1 DEF Drain
    <3>3. queue' \in [Sessions -> Seq(SysEvents)] /\ last' \in [Sessions -> SysEvents \cup {NoEvent}]
      BY <3>1, <3>2
    <3>4. ASSUME NEW x \in Sessions PROVE Len(queue'[x]) <= MaxQueue
      BY <3>1, <3>2
    <3> QED
      BY <3>2, <3>3, <3>4
  <2>2. CASE prompted[s] = {}
    BY <1>3, <2>2 DEF Drain
  <2> QED
    BY <2>1, <2>2
<1>4. ASSUME NEW x \in Sessions, NEW e \in SysEvents, Enqueue(x, e) PROVE EventsTyped'
  <2>1. Pushed(queue[x], e) \in Seq(SysEvents) /\ Len(Pushed(queue[x], e)) <= MaxQueue
    BY PushedBounded
  <2> QED
    BY <1>4, <2>1 DEF Enqueue
<1> QED
  BY <1>1, <1>2, <1>3, <1>4, EventSteps

\* Only the drain of a successful run, whose prompt carried events, shortens a queue.
LEMMA ShorterBySuccess ==
  ASSUME IInv, [Next]_vars, NEW y \in Sessions, Len(queue'[y]) < Len(queue[y])
  PROVE  \E s \in announced : /\ SessionOf[s] = y /\ outcome[s] = "ok"
                              /\ prompted[s] # {} /\ pc[s] # pc'[s]
<1>1. Len(queue[y]) \in Nat
  BY DEF IInv, TypeOK, EventsTyped
<1>2. queue' # queue
  BY <1>1
<1>3. ASSUME NEW x \in Sessions, NEW e \in SysEvents, Enqueue(x, e) PROVE FALSE
  <2>1. /\ Pushed(queue[x], e) \in Seq(SysEvents)
        /\ Len(Pushed(queue[x], e)) >= Len(queue[x])
    BY PushedBounded DEF IInv, TypeOK, EventsTyped
  <2>2. queue'[y] = IF y = x THEN Pushed(queue[x], e) ELSE queue[y]
    BY <1>3 DEF Enqueue, IInv, TypeOK, EventsTyped
  <2> QED
    BY <1>1, <2>1, <2>2
<1>4. ASSUME NEW s \in Sends, Drain(s)
      PROVE  s \in announced /\ SessionOf[s] = y /\ outcome[s] = "ok" /\ prompted[s] # {} /\ pc[s] # pc'[s]
  <2>1. s \in announced /\ outcome[s] = "ok" /\ pc[s] # pc'[s]
    BY <1>4 DEF Drain, Goto, IInv, TypeOK, RunsTyped, Lifecycle
  <2>2. prompted[s] # {}
    BY <1>2, <1>4 DEF Drain
  <2>3. queue' = [queue EXCEPT ![SessionOf[s]] = <<>>]
    BY <1>4, <2>2 DEF Drain
  <2>4. SessionOf[s] = y
    BY <1>1, <2>3 DEF IInv, TypeOK, EventsTyped
  <2> QED
    BY <2>1, <2>2, <2>4
<1>5. \E s \in Sends : Drain(s)
  BY <1>2, <1>3, EventSteps DEF Peek
<1> QED
  BY <1>4, <1>5

-----------------------------------------------------------------------------
(* The theorems.                                                           *)

\* The initial state satisfies every part of the invariant.
LEMMA InitInvariant == Init => IInv
<1> SUFFICES ASSUME Init PROVE IInv
  OBVIOUS
<1> USE ChatAssumption DEF ChatAssumption, Init, Outcomes
<1>1. TypeOK
  BY DEF TypeOK, RunsTyped, TranscriptsTyped, EventsTyped, Stages
<1>2. Lifecycle /\ OneRunPerId
  BY DEF Lifecycle, OneRunPerId, Live
<1>3. RetryFindsRun /\ CacheMatchesEvents /\ AnswersMatchEvents
  BY DEF RetryFindsRun, CacheMatchesEvents, AnswersMatchEvents
<1>5. MissHolds /\ RerunMeansOvertaken
  BY DEF MissHolds, RerunMeansOvertaken
<1>4. TranscriptOnlyFinished /\ CopiesFinished
  BY DEF TranscriptOnlyFinished, CopiesFinished, Finished
<1> QED
  BY <1>1, <1>2, <1>3, <1>4, <1>5 DEF IInv

\* IInv holds in every reachable state.
LEMMA Invariance == Spec => []IInv
<1>1. Init => IInv
  BY InitInvariant
<1>2. IInv /\ [Next]_vars => IInv'
  BY RunsTypedInductive, TranscriptsTypedInductive, EventsTypedInductive, LifecycleInductive,
     OneRunInductive, RetryInductive, MissInductive, RerunInductive, CacheInductive, AnswersInductive, TranscriptInductive,
     CopiesInductive DEF IInv, TypeOK
<1> QED
  BY <1>1, <1>2, PTL DEF Spec

\* Every state is well typed, and a session's queue of system events keeps its
\* limit (OpenclawSystemEvents::enqueue).
THEOREM TypeCorrect == Spec => []TypeOK
  BY Invariance, PTL DEF IInv

\* A run id is served by one task at a time, which an abort can find
\* (openclaw_try_register_chat_run, openclaw_unregister_chat_run).
THEOREM OneRun == Spec => []OneRunPerId
  BY Invariance, PTL DEF IInv

\* A run is started again under its id only by a request that looked into the cache
\* before the run was put there and into the registry when it had left (chat.send).
THEOREM Reruns == Spec => []RerunMeansOvertaken
  BY Invariance, PTL DEF IInv

\* A retry is told the outcome every client was told (openclaw_dedupe_put after
\* the terminal event).
THEOREM Answers == Spec => []AnswersMatchEvents
  BY Invariance, PTL DEF IInv

\* Only successful, announced runs leave turns in a transcript (spawn_chat_run).
THEOREM OnlyFinished == Spec => []TranscriptOnlyFinished
  BY Invariance, PTL DEF IInv

\* System events are cleared only after a final response was produced, by a run
\* whose prompt carried some (spawn_chat_run).
THEOREM ClearedOnSuccess == Spec => EventsClearedOnlyBySuccess
<1>1. IInv /\ [Next]_vars =>
        [\A x \in Sessions : Len(queue'[x]) < Len(queue[x]) =>
           \E s \in announced : /\ SessionOf[s] = x /\ outcome[s] = "ok"
                                /\ prompted[s] # {} /\ pc[s] # pc'[s]]_vars
  BY ShorterBySuccess
<1> QED
  BY <1>1, Invariance, PTL DEF Spec, EventsClearedOnlyBySuccess

-----------------------------------------------------------------------------
(* How a run ends.                                                         *)

\* A run that is over was announced, with its outcome, and its id is in the cache.
EndedRunsTold ==
  \A s \in Sends : pc[s] = "done" /\ answer[s] = "started" =>
    s \in announced /\ outcome[s] \in Outcomes /\ cached[RunOf[s]] # "none"

\* A cached run id stays cached; another run of it may replace the outcome.
LEMMA CachedStays ==
  IInv /\ [Next]_vars => \A r \in RunIds : cached[r] # "none" => cached'[r] # "none"
<1> SUFFICES ASSUME IInv, [Next]_vars, NEW r \in RunIds, cached[r] # "none" PROVE cached'[r] # "none"
  OBVIOUS
<1>1. ASSUME NEW s \in Sends, Cache(s) PROVE cached'[r] # "none"
  <2>1. outcome[s] \in Outcomes
    BY <1>1 DEF Cache, Goto, IInv, Lifecycle
  <2> QED
    BY <1>1, <2>1 DEF Cache, IInv, TypeOK, RunsTyped, Outcomes
<1>2. UNCHANGED cached \/ \E s \in Sends : Cache(s)
  BY Steps DEF Step, vars, Look, LookForRun, Register, Begin, Load, Peek, Provider, Cancelled, Announce,
     Reload, Save, Unregister, Drain, Abort, Inject, SaveNote, Enqueue
<1> QED
  BY <1>1, <1>2

\* A started run becomes "done" by its last step, and no other step touches it.
LEMMA EndsBy ==
  ASSUME IInv, [Next]_vars, NEW s \in Sends, pc'[s] = "done", answer'[s] = "started"
  PROVE  \/ pc[s] = "done" /\ answer[s] = "started"
         \/ pc[s] \in {"unregister", "save"}
<1> USE DEF IInv, TypeOK, RunsTyped, Goto, Reply, End
<1>1. ASSUME NEW t \in Sends, Look(t) \/ LookForRun(t) \/ Register(t)
      PROVE  pc[s] = "done" /\ answer[s] = "started"
  <2>1. /\ answer' = [answer EXCEPT ![t] = answer'[t]] /\ pc' = [pc EXCEPT ![t] = pc'[t]]
        /\ pc'[t] = "done" => answer'[t] # "started"
    BY <1>1, ChatAssumption DEF Look, LookForRun, Register, Outcomes, ChatAssumption
  <2>2. t # s
    BY <2>1
  <2> QED
    BY <2>1, <2>2
<1>2. CASE pc' = pc /\ answer' = answer
  BY <1>2
<1>3. ASSUME NEW t \in Sends, answer' = answer, NEW from, NEW to, Goto(t, from, to),
             to = "done" => from \in {"unregister", "save"}
      PROVE  (pc[s] = "done" /\ answer[s] = "started") \/ pc[s] \in {"unregister", "save"}
  BY <1>3
<1>4. ASSUME NEW t \in Sends, Begin(t) \/ Load(t) \/ Peek(t) \/ Provider(t) \/ Cancelled(t)
      PROVE  (pc[s] = "done" /\ answer[s] = "started") \/ pc[s] \in {"unregister", "save"}
  BY <1>3, <1>4 DEF Begin, Load, Peek, Provider, Cancelled
<1>5. ASSUME NEW t \in Sends,
             \/ Announce(t) \/ Cache(t) \/ Reload(t) \/ Save(t, "restore", "unregister")
             \/ Unregister(t) \/ Drain(t) \/ Save(t, "save", "done")
      PROVE  (pc[s] = "done" /\ answer[s] = "started") \/ pc[s] \in {"unregister", "save"}
  BY <1>3, <1>5 DEF Announce, Cache, AfterCache, Reload, Save, Unregister, Drain
<1>6. CASE \/ UNCHANGED vars \/ \E m \in noting : SaveNote(m)
           \/ \E x \in Sessions : \/ \E runs \in SUBSET RunIds : Abort(x, runs)
                                  \/ \E n \in Notes : Inject(x, n)
                                  \/ \E e \in SysEvents : Enqueue(x, e)
  BY <1>2, <1>6 DEF vars, SaveNote, Abort, Inject, Enqueue
<1> QED
  BY <1>1, <1>4, <1>5, <1>6, Steps DEF Step

LEMMA EndedInductive == IInv /\ EndedRunsTold /\ [Next]_vars => EndedRunsTold'
<1> SUFFICES ASSUME IInv, EndedRunsTold, [Next]_vars,
                    NEW s \in Sends, pc'[s] = "done", answer'[s] = "started"
             PROVE  s \in announced' /\ outcome'[s] \in Outcomes /\ cached'[RunOf[s]] # "none"
  BY DEF EndedRunsTold
<1>1. s \in announced /\ outcome[s] \in Outcomes /\ cached[RunOf[s]] # "none"
  BY EndsBy DEF EndedRunsTold, IInv, Lifecycle
<1>2. RunOf[s] \in RunIds
  BY ChatAssumption DEF ChatAssumption
<1> QED
  BY <1>1, <1>2, AnnouncedStays, CachedStays DEF Kept

\* However a run ends, whether answered, failed or aborted, every client was told
\* how, once, before its id was given up, and a retry finds it in the cache.
THEOREM EndsAreTold == Spec => []EndedRunsTold
<1>1. Init => EndedRunsTold
  BY DEF Init, EndedRunsTold
<1>2. IInv /\ EndedRunsTold /\ [Next]_vars => EndedRunsTold'
  BY EndedInductive
<1> QED
  BY <1>1, <1>2, Invariance, PTL DEF Spec

\* What was announced of a run is never taken back.
THEOREM OutcomeFinal == Spec => [][Kept]_vars
<1>1. IInv /\ [Next]_vars => [Kept]_vars
  BY AnnouncedStays
<1> QED
  BY <1>1, Invariance, PTL DEF Spec
=============================================================================
