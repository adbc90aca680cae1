------------------------ MODULE ExecApprovalsProofs ------------------------
(***************************************************************************)
(* Proofs about ExecApprovals, for any requests, ids and tools.  IInv is   *)
(* inductive: a record and its channel stand for an undecided request, and *)
(* each step moves one request.                                            *)
(***************************************************************************)
EXTENDS ExecApprovals, TLAPS

\* The initial state satisfies every part of the invariant.
LEMMA InitInvariant == Init => IInv
<1> SUFFICES ASSUME Init PROVE IInv
  OBVIOUS
<1> USE ExecAssumption DEF ExecAssumption, Init
<1>1. TypeOK
  BY DEF TypeOK, Decisions
<1>2. Lifecycle
  BY DEF Lifecycle
<1>3. NoOrphanRecord
  BY DEF NoOrphanRecord
<1>4. Channels
  BY DEF Channels, Decisions
<1>5. Resolutions
  BY DEF Resolutions
<1>6. OneDecision
  BY DEF OneDecision
<1>7. DecisionLostOnlyByItsRequest
  BY DEF DecisionLostOnlyByItsRequest
<1>8. FileGranted
  BY DEF FileGranted, Granted
<1>9. WritesAreApproved
  BY DEF WritesAreApproved, Decisions, Granted
<1>10. ToolWaitsItsTime
  BY DEF ToolWaitsItsTime
<1> QED
  BY <1>1, <1>2, <1>3, <1>4, <1>5, <1>6, <1>7, <1>8, <1>9, <1>10 DEF IInv

\* Every variable keeps its type.
LEMMA TypeInductive == IInv /\ [Next]_vars => TypeOK'
<1> SUFFICES ASSUME IInv, [Next]_vars PROVE TypeOK'
  OBVIOUS
<1> USE ExecAssumption DEF ExecAssumption, IInv, TypeOK, Decisions, Finish, Drop
<1>1. ASSUME NEW r \in Requests, Check(r) PROVE TypeOK'
  BY <1>1 DEF Check
<1>2. ASSUME NEW r \in Requests, Create(r) PROVE TypeOK'
  BY <1>2 DEF Create
<1>3. ASSUME NEW r \in Requests, Receive(r) PROVE TypeOK'
  BY <1>3 DEF Receive
<1>4. ASSUME NEW r \in Requests, TimeOut(r) PROVE TypeOK'
  BY <1>4 DEF TimeOut
<1>5. ASSUME NEW r \in Requests, Expire(r) PROVE TypeOK'
  BY <1>5 DEF Expire
<1>6. ASSUME NEW r \in Requests, LoadFile(r) PROVE TypeOK'
  BY <1>6 DEF LoadFile
<1>7. ASSUME NEW r \in Requests, StoreFile(r) PROVE TypeOK'
  BY <1>7 DEF StoreFile, Lifecycle
<1>8. ASSUME NEW i \in Ids, NEW d \in Decisions, Resolve(i, d) PROVE TypeOK'
  BY <1>8 DEF Resolve
<1>9. ASSUME NEW file \in Edits, EditFile(file) PROVE TypeOK'
  BY <1>9 DEF EditFile
<1>10. CASE WriteEdit
  BY <1>10 DEF WriteEdit
<1>11. CASE UNCHANGED vars
  BY <1>11 DEF vars
<1>12. ASSUME NEW r \in Requests, Dropped(r) PROVE TypeOK'
  BY <1>12 DEF Dropped
<1> QED
  BY <1>1, <1>2, <1>3, <1>4, <1>5, <1>6, <1>7, <1>8, <1>9, <1>10, <1>11, <1>12 DEF Next, Request, Operator

\* A request's stage keeps fitting its channel and answer.
LEMMA LifecycleInductive == IInv /\ [Next]_vars => Lifecycle'
<1> SUFFICES ASSUME IInv, [Next]_vars PROVE Lifecycle'
  OBVIOUS
<1> USE ExecAssumption DEF ExecAssumption, IInv, TypeOK, Lifecycle, NoOrphanRecord, Channels, Decisions, Finish, Drop
<1>1. ASSUME NEW r \in Requests, Check(r) PROVE Lifecycle'
  BY <1>1 DEF Check
<1>2. ASSUME NEW r \in Requests, Create(r) PROVE Lifecycle'
  BY <1>2 DEF Create
<1>3. ASSUME NEW r \in Requests, Receive(r) PROVE Lifecycle'
  BY <1>3 DEF Receive
<1>4. ASSUME NEW r \in Requests, TimeOut(r) PROVE Lifecycle'
  BY <1>4 DEF TimeOut
<1>5. ASSUME NEW r \in Requests, Expire(r) PROVE Lifecycle'
  BY <1>5 DEF Expire
<1>6. ASSUME NEW r \in Requests, LoadFile(r) PROVE Lifecycle'
  BY <1>6 DEF LoadFile
<1>7. ASSUME NEW r \in Requests, StoreFile(r) PROVE Lifecycle'
  BY <1>7 DEF StoreFile
<1>8. ASSUME NEW i \in Ids, NEW d \in Decisions, Resolve(i, d) PROVE Lifecycle'
  BY <1>8 DEF Resolve
<1>9. ASSUME NEW file \in Edits, EditFile(file) PROVE Lifecycle'
  BY <1>9 DEF EditFile
<1>10. CASE WriteEdit
  BY <1>10 DEF WriteEdit
<1>11. CASE UNCHANGED vars
  BY <1>11 DEF vars
<1>12. ASSUME NEW r \in Requests, Dropped(r) PROVE Lifecycle'
  BY <1>12 DEF Dropped
<1> QED
  BY <1>1, <1>2, <1>3, <1>4, <1>5, <1>6, <1>7, <1>8, <1>9, <1>10, <1>11, <1>12 DEF Next, Request, Operator

\* Records stay with requests that wait or expire, or are dropped.
LEMMA NoOrphanRecordInductive == IInv /\ [Next]_vars => NoOrphanRecord'
<1> SUFFICES ASSUME IInv, [Next]_vars PROVE NoOrphanRecord'
  OBVIOUS
<1> USE ExecAssumption DEF ExecAssumption, IInv, TypeOK, NoOrphanRecord, Lifecycle, Channels, Decisions, Finish, Drop
<1>1. ASSUME NEW r \in Requests, Check(r) PROVE NoOrphanRecord'
  BY <1>1 DEF Check
<1>2. ASSUME NEW r \in Requests, Create(r) PROVE NoOrphanRecord'
  BY <1>2 DEF Create
<1>3. ASSUME NEW r \in Requests, Receive(r) PROVE NoOrphanRecord'
  BY <1>3 DEF Receive
<1>4. ASSUME NEW r \in Requests, TimeOut(r) PROVE NoOrphanRecord'
  BY <1>4 DEF TimeOut
<1>5. ASSUME NEW r \in Requests, Expire(r) PROVE NoOrphanRecord'
  BY <1>5 DEF Expire
<1>6. ASSUME NEW r \in Requests, LoadFile(r) PROVE NoOrphanRecord'
  BY <1>6 DEF LoadFile
<1>7. ASSUME NEW r \in Requests, StoreFile(r) PROVE NoOrphanRecord'
  BY <1>7 DEF StoreFile
<1>8. ASSUME NEW i \in Ids, NEW d \in Decisions, Resolve(i, d) PROVE NoOrphanRecord'
  BY <1>8 DEF Resolve
<1>9. ASSUME NEW file \in Edits, EditFile(file) PROVE NoOrphanRecord'
  BY <1>9 DEF EditFile
<1>10. CASE WriteEdit
  BY <1>10 DEF WriteEdit
<1>11. CASE UNCHANGED vars
  BY <1>11 DEF vars
<1>12. ASSUME NEW r \in Requests, Dropped(r) PROVE NoOrphanRecord'
  BY <1>12 DEF Dropped
<1> QED
  BY <1>1, <1>2, <1>3, <1>4, <1>5, <1>6, <1>7, <1>8, <1>9, <1>10, <1>11, <1>12 DEF Next, Request, Operator

\* What is sent stays what was decided.
LEMMA ChannelsInductive == IInv /\ [Next]_vars => Channels'
<1> SUFFICES ASSUME IInv, [Next]_vars PROVE Channels'
  OBVIOUS
<1> USE ExecAssumption DEF ExecAssumption, IInv, TypeOK, Channels, Lifecycle, NoOrphanRecord, Resolutions, Decisions, Finish, Drop
<1>1. ASSUME NEW r \in Requests, Check(r) PROVE Channels'
  BY <1>1 DEF Check
<1>2. ASSUME NEW r \in Requests, Create(r) PROVE Channels'
  BY <1>2 DEF Create
<1>3. ASSUME NEW r \in Requests, Receive(r) PROVE Channels'
  BY <1>3 DEF Receive
<1>4. ASSUME NEW r \in Requests, TimeOut(r) PROVE Channels'
  BY <1>4 DEF TimeOut
<1>5. ASSUME NEW r \in Requests, Expire(r) PROVE Channels'
  BY <1>5 DEF Expire
<1>6. ASSUME NEW r \in Requests, LoadFile(r) PROVE Channels'
  BY <1>6 DEF LoadFile
<1>7. ASSUME NEW r \in Requests, StoreFile(r) PROVE Channels'
  BY <1>7 DEF StoreFile
<1>8. ASSUME NEW i \in Ids, NEW d \in Decisions, Resolve(i, d) PROVE Channels'
  BY <1>8 DEF Resolve
<1>9. ASSUME NEW file \in Edits, EditFile(file) PROVE Channels'
  BY <1>9 DEF EditFile
<1>10. CASE WriteEdit
  BY <1>10 DEF WriteEdit
<1>11. CASE UNCHANGED vars
  BY <1>11 DEF vars
<1>12. ASSUME NEW r \in Requests, Dropped(r) PROVE Channels'
  BY <1>12 DEF Dropped
<1> QED
  BY <1>1, <1>2, <1>3, <1>4, <1>5, <1>6, <1>7, <1>8, <1>9, <1>10, <1>11, <1>12 DEF Next, Request, Operator

\* A resolved request keeps its decision and stays without a record.
LEMMA ResolutionsInductive == IInv /\ [Next]_vars => Resolutions'
<1> SUFFICES ASSUME IInv, [Next]_vars PROVE Resolutions'
  OBVIOUS
<1> USE ExecAssumption DEF ExecAssumption, IInv, TypeOK, Resolutions, Lifecycle, NoOrphanRecord, Channels, Decisions, Finish, Drop
<1>1. ASSUME NEW r \in Requests, Check(r) PROVE Resolutions'
  BY <1>1 DEF Check
<1>2. ASSUME NEW r \in Requests, Create(r) PROVE Resolutions'
  BY <1>2 DEF Create
<1>3. ASSUME NEW r \in Requests, Receive(r) PROVE Resolutions'
  BY <1>3 DEF Receive
<1>4. ASSUME NEW r \in Requests, TimeOut(r) PROVE Resolutions'
  BY <1>4 DEF TimeOut
<1>5. ASSUME NEW r \in Requests, Expire(r) PROVE Resolutions'
  BY <1>5 DEF Expire
<1>6. ASSUME NEW r \in Requests, LoadFile(r) PROVE Resolutions'
  BY <1>6 DEF LoadFile
<1>7. ASSUME NEW r \in Requests, StoreFile(r) PROVE Resolutions'
  BY <1>7 DEF StoreFile
<1>8. ASSUME NEW i \in Ids, NEW d \in Decisions, Resolve(i, d) PROVE Resolutions'
  BY <1>8 DEF Resolve
<1>9. ASSUME NEW file \in Edits, EditFile(file) PROVE Resolutions'
  BY <1>9 DEF EditFile
<1>10. CASE WriteEdit
  BY <1>10 DEF WriteEdit
<1>11. CASE UNCHANGED vars
  BY <1>11 DEF vars
<1>12. ASSUME NEW r \in Requests, Dropped(r) PROVE Resolutions'
  BY <1>12 DEF Dropped
<1> QED
  BY <1>1, <1>2, <1>3, <1>4, <1>5, <1>6, <1>7, <1>8, <1>9, <1>10, <1>11, <1>12 DEF Next, Request, Operator

\* A request whose record is gone is not resolved again.
LEMMA OneDecisionInductive == IInv /\ [Next]_vars => OneDecision'
<1> SUFFICES ASSUME IInv, [Next]_vars PROVE OneDecision'
  OBVIOUS
<1> USE ExecAssumption DEF ExecAssumption, IInv, TypeOK, OneDecision, Resolutions, Decisions, Finish, Drop
<1>1. ASSUME NEW r \in Requests, Check(r) PROVE OneDecision'
  BY <1>1 DEF Check
<1>2. ASSUME NEW r \in Requests, Create(r) PROVE OneDecision'
  BY <1>2 DEF Create
<1>3. ASSUME NEW r \in Requests, Receive(r) PROVE OneDecision'
  BY <1>3 DEF Receive
<1>4. ASSUME NEW r \in Requests, TimeOut(r) PROVE OneDecision'
  BY <1>4 DEF TimeOut
<1>5. ASSUME NEW r \in Requests, Expire(r) PROVE OneDecision'
  BY <1>5 DEF Expire
<1>6. ASSUME NEW r \in Requests, LoadFile(r) PROVE OneDecision'
  BY <1>6 DEF LoadFile
<1>7. ASSUME NEW r \in Requests, StoreFile(r) PROVE OneDecision'
  BY <1>7 DEF StoreFile
<1>8. ASSUME NEW i \in Ids, NEW d \in Decisions, Resolve(i, d) PROVE OneDecision'
  BY <1>8 DEF Resolve
<1>9. ASSUME NEW file \in Edits, EditFile(file) PROVE OneDecision'
  BY <1>9 DEF EditFile
<1>10. CASE WriteEdit
  BY <1>10 DEF WriteEdit
<1>11. CASE UNCHANGED vars
  BY <1>11 DEF vars
<1>12. ASSUME NEW r \in Requests, Dropped(r) PROVE OneDecision'
  BY <1>12 DEF Dropped
<1> QED
  BY <1>1, <1>2, <1>3, <1>4, <1>5, <1>6, <1>7, <1>8, <1>9, <1>10, <1>11, <1>12 DEF Next, Request, Operator

\* A decision is lost only to the request's own timeout or end.
LEMMA DecisionLostOnlyByItsRequestInductive == IInv /\ [Next]_vars => DecisionLostOnlyByItsRequest'
<1> SUFFICES ASSUME IInv, [Next]_vars PROVE DecisionLostOnlyByItsRequest'
  OBVIOUS
<1> USE ExecAssumption DEF ExecAssumption, IInv, TypeOK, DecisionLostOnlyByItsRequest, Lifecycle, Resolutions, NoOrphanRecord, Decisions, Finish, Drop
<1>1. ASSUME NEW r \in Requests, Check(r) PROVE DecisionLostOnlyByItsRequest'
  BY <1>1 DEF Check
<1>2. ASSUME NEW r \in Requests, Create(r) PROVE DecisionLostOnlyByItsRequest'
  BY <1>2 DEF Create
<1>3. ASSUME NEW r \in Requests, Receive(r) PROVE DecisionLostOnlyByItsRequest'
  BY <1>3 DEF Receive
<1>4. ASSUME NEW r \in Requests, TimeOut(r) PROVE DecisionLostOnlyByItsRequest'
  BY <1>4 DEF TimeOut
<1>5. ASSUME NEW r \in Requests, Expire(r) PROVE DecisionLostOnlyByItsRequest'
  BY <1>5 DEF Expire
<1>6. ASSUME NEW r \in Requests, LoadFile(r) PROVE DecisionLostOnlyByItsRequest'
  BY <1>6 DEF LoadFile
<1>7. ASSUME NEW r \in Requests, StoreFile(r) PROVE DecisionLostOnlyByItsRequest'
  <2> SUFFICES ASSUME NEW p \in resolved
               PROVE  \/ pc'[p[1]] \in {"wait", "load", "store"} /\ chan'[p[1]] = p[2]
                      \/ pc'[p[1]] = "done" /\ answer'[p[1]] \in {p[2], "timeout"}
                      \/ pc'[p[1]] = "expire"
                      \/ pc'[p[1]] = "dropped" /\ p[1] \in ToolWrites
    BY <1>7 DEF StoreFile
  <2>1. p[1] \in Requests
    OBVIOUS
  <2>2. p[1] = r => p[2] = "allow-always"
    BY <1>7 DEF StoreFile
  <2>3. p[1] = r => pc'[p[1]] = "done" /\ answer'[p[1]] = "allow-always"
    BY <1>7, <2>1 DEF StoreFile
  <2>4. p[1] # r => /\ pc'[p[1]] = pc[p[1]] /\ chan'[p[1]] = chan[p[1]]
                    /\ answer'[p[1]] = answer[p[1]]
    BY <1>7, <2>1 DEF StoreFile
  <2>5. \/ pc[p[1]] \in {"wait", "load", "store"} /\ chan[p[1]] = p[2]
        \/ pc[p[1]] = "done" /\ answer[p[1]] \in {p[2], "timeout"}
        \/ pc[p[1]] = "expire"
        \/ pc[p[1]] = "dropped" /\ p[1] \in ToolWrites
    OBVIOUS
  <2> HIDE DEF IInv, TypeOK, DecisionLostOnlyByItsRequest, Lifecycle, Resolutions, NoOrphanRecord
  <2> QED
    BY <2>2, <2>3, <2>4, <2>5
<1>8. ASSUME NEW i \in Ids, NEW d \in Decisions, Resolve(i, d) PROVE DecisionLostOnlyByItsRequest'
  <2> DEFINE q == pending[i]
  <2>1. q \in Requests /\ chan[q] \in {"open", "dropped"} /\ UNCHANGED <<pc, answer>>
    BY <1>8 DEF Resolve, Channels
  <2>2. chan' = IF chan[q] = "open" THEN [chan EXCEPT ![q] = d] ELSE chan
    BY <1>8, <2>1 DEF Resolve
  <2>3. \A p \in resolved' : p = <<q, d>> \/ p \in resolved
    BY <1>8 DEF Resolve
  <2>4. \A p \in resolved : p[1] \in Requests /\ p[1] # q
    BY <1>8
  <2>5. \/ pc[q] = "wait" /\ chan[q] = "open"
        \/ pc[q] = "expire"
        \/ pc[q] = "dropped" /\ q \in ToolWrites
    BY <1>8, <2>1 DEF Resolve
  <2> QED
    BY <2>1, <2>2, <2>3, <2>4, <2>5
<1>9. ASSUME NEW file \in Edits, EditFile(file) PROVE DecisionLostOnlyByItsRequest'
  BY <1>9 DEF EditFile
<1>10. CASE WriteEdit
  BY <1>10 DEF WriteEdit
<1>11. CASE UNCHANGED vars
  BY <1>11 DEF vars
<1>12. ASSUME NEW r \in Requests, Dropped(r) PROVE DecisionLostOnlyByItsRequest'
  BY <1>12 DEF Dropped
<1> QED
  BY <1>1, <1>2, <1>3, <1>4, <1>5, <1>6, <1>7, <1>8, <1>9, <1>10, <1>11, <1>12 DEF Next, Request, Operator

\* Granted only grows: no step takes a decision or an edit back.
LEMMA GrantedGrows == IInv /\ [Next]_vars => Granted \subseteq Granted'
<1> SUFFICES ASSUME IInv, [Next]_vars PROVE Granted \subseteq Granted'
  OBVIOUS
<1>1. resolved \subseteq resolved' /\ edited \subseteq edited'
  BY DEF Next, vars, Request, Operator, Check, Create, Receive, TimeOut, Expire, LoadFile,
         StoreFile, Resolve, EditFile, WriteEdit, Dropped
<1> QED
  BY <1>1 DEF Granted

\* A request that persists its decision has been granted its tool.
LEMMA PersistedIsGranted ==
  ASSUME IInv, NEW r \in Requests, pc[r] \in {"load", "store"}
  PROVE  r \in ToolWrites /\ <<r, "allow-always">> \in resolved /\ ToolOf[r] \in Granted
<1>1. r \in ToolWrites /\ chan[r] = "allow-always"
  BY DEF IInv, Lifecycle
<1>2. <<r, "allow-always">> \in resolved
  BY <1>1 DEF IInv, Channels, Decisions
<1> QED
  BY <1>1, <1>2 DEF Granted

\* What an edit allows is granted.
LEMMA EditedGranted == edited \subseteq Granted
  BY DEF Granted

\* The file allows only what was granted.
LEMMA FileGrantedInductive == IInv /\ [Next]_vars => FileGranted'
<1> SUFFICES ASSUME IInv, [Next]_vars PROVE FileGranted'
  OBVIOUS
<1>0. Granted \subseteq Granted'
  BY GrantedGrows
<1> USE ExecAssumption DEF ExecAssumption, IInv, TypeOK, FileGranted, Finish
<1>1. ASSUME NEW r \in Requests, Check(r) PROVE FileGranted'
  BY <1>0, <1>1 DEF Check
<1>2. ASSUME NEW r \in Requests, Create(r) PROVE FileGranted'
  BY <1>0, <1>2 DEF Create
<1>3. ASSUME NEW r \in Requests, Receive(r) PROVE FileGranted'
  BY <1>0, <1>3 DEF Receive
<1>4. ASSUME NEW r \in Requests, TimeOut(r) PROVE FileGranted'
  BY <1>0, <1>4 DEF TimeOut
<1>5. ASSUME NEW r \in Requests, Expire(r) PROVE FileGranted'
  BY <1>0, <1>5 DEF Expire
<1>6. ASSUME NEW r \in Requests, LoadFile(r) PROVE FileGranted'
  BY <1>0, <1>6 DEF LoadFile
<1>7. ASSUME NEW r \in Requests, StoreFile(r) PROVE FileGranted'
  BY <1>0, <1>7, PersistedIsGranted DEF StoreFile
<1>8. ASSUME NEW i \in Ids, NEW d \in Decisions, Resolve(i, d) PROVE FileGranted'
  BY <1>0, <1>8 DEF Resolve
<1>9. ASSUME NEW file \in Edits, EditFile(file) PROVE FileGranted'
  BY <1>0, <1>9 DEF EditFile
<1>10. CASE WriteEdit
  BY <1>0, <1>10, EditedGranted DEF WriteEdit
<1>11. CASE UNCHANGED vars
  BY <1>0, <1>11 DEF vars
<1>12. ASSUME NEW r \in Requests, Dropped(r) PROVE FileGranted'
  BY <1>0, <1>12 DEF Dropped
<1> QED
  BY <1>1, <1>2, <1>3, <1>4, <1>5, <1>6, <1>7, <1>8, <1>9, <1>10, <1>11, <1>12 DEF Next, Request, Operator

\* A write that is answered was approved.
LEMMA WritesAreApprovedInductive == IInv /\ [Next]_vars => WritesAreApproved'
<1> SUFFICES ASSUME IInv, [Next]_vars PROVE WritesAreApproved'
  OBVIOUS
<1>0. Granted \subseteq Granted'
  BY GrantedGrows
<1> USE ExecAssumption DEF ExecAssumption, IInv, TypeOK, WritesAreApproved, FileGranted, Channels, Lifecycle, Decisions, Finish
<1>1. ASSUME NEW r \in Requests, Check(r) PROVE WritesAreApproved'
  BY <1>0, <1>1 DEF Check
<1>2. ASSUME NEW r \in Requests, Create(r) PROVE WritesAreApproved'
  BY <1>0, <1>2 DEF Create
<1>3. ASSUME NEW r \in Requests, Receive(r) PROVE WritesAreApproved'
  BY <1>0, <1>3 DEF Receive
<1>4. ASSUME NEW r \in Requests, TimeOut(r) PROVE WritesAreApproved'
  BY <1>0, <1>4 DEF TimeOut
<1>5. ASSUME NEW r \in Requests, Expire(r) PROVE WritesAreApproved'
  BY <1>0, <1>5 DEF Expire
<1>6. ASSUME NEW r \in Requests, LoadFile(r) PROVE WritesAreApproved'
  BY <1>0, <1>6 DEF LoadFile
<1>7. ASSUME NEW r \in Requests, StoreFile(r) PROVE WritesAreApproved'
  BY <1>0, <1>7, PersistedIsGranted DEF StoreFile
<1>8. ASSUME NEW i \in Ids, NEW d \in Decisions, Resolve(i, d) PROVE WritesAreApproved'
  BY <1>0, <1>8 DEF Resolve
<1>9. ASSUME NEW file \in Edits, EditFile(file) PROVE WritesAreApproved'
  BY <1>0, <1>9 DEF EditFile
<1>10. CASE WriteEdit
  BY <1>0, <1>10 DEF WriteEdit
<1>11. CASE UNCHANGED vars
  BY <1>0, <1>11 DEF vars
<1>12. ASSUME NEW r \in Requests, Dropped(r) PROVE WritesAreApproved'
  BY <1>0, <1>12 DEF Dropped
<1> HIDE DEF IInv, TypeOK, WritesAreApproved, FileGranted, Channels, Lifecycle, Finish
<1> QED
  BY <1>1, <1>2, <1>3, <1>4, <1>5, <1>6, <1>7, <1>8, <1>9, <1>10, <1>11, <1>12 DEF Next, Request, Operator

\* No tool is answered without a decision before its timeout.
LEMMA ToolWaitsItsTimeInductive == IInv /\ [Next]_vars => ToolWaitsItsTime'
<1> SUFFICES ASSUME IInv, [Next]_vars PROVE ToolWaitsItsTime'
  OBVIOUS
<1> USE ExecAssumption DEF ExecAssumption, IInv, TypeOK, ToolWaitsItsTime, Lifecycle, Channels, Decisions, Finish, Drop
<1>1. ASSUME NEW r \in Requests, Check(r) PROVE ToolWaitsItsTime'
  BY <1>1 DEF Check
<1>2. ASSUME NEW r \in Requests, Create(r) PROVE ToolWaitsItsTime'
  BY <1>2 DEF Create
<1>3. ASSUME NEW r \in Requests, Receive(r) PROVE ToolWaitsItsTime'
  <2>1. \/ chan[r] \in {"none", "closed"} /\ answer' = [answer EXCEPT ![r] = "none"]
        \/ answer' = answer
        \/ \E d \in Decisions : answer' = [answer EXCEPT ![r] = d]
    BY <1>3 DEF Receive
  <2>2. r \in ToolWrites => chan[r] \notin {"none", "closed"}
    BY <1>3 DEF Receive
  <2> QED
    BY <2>1, <2>2
<1>4. ASSUME NEW r \in Requests, TimeOut(r) PROVE ToolWaitsItsTime'
  BY <1>4 DEF TimeOut
<1>5. ASSUME NEW r \in Requests, Expire(r) PROVE ToolWaitsItsTime'
  BY <1>5 DEF Expire
<1>6. ASSUME NEW r \in Requests, LoadFile(r) PROVE ToolWaitsItsTime'
  BY <1>6 DEF LoadFile
<1>7. ASSUME NEW r \in Requests, StoreFile(r) PROVE ToolWaitsItsTime'
  BY <1>7 DEF StoreFile
<1>8. ASSUME NEW i \in Ids, NEW d \in Decisions, Resolve(i, d) PROVE ToolWaitsItsTime'
  BY <1>8 DEF Resolve
<1>9. ASSUME NEW file \in Edits, EditFile(file) PROVE ToolWaitsItsTime'
  BY <1>9 DEF EditFile
<1>10. CASE WriteEdit
  BY <1>10 DEF WriteEdit
<1>11. CASE UNCHANGED vars
  BY <1>11 DEF vars
<1>12. ASSUME NEW r \in Requests, Dropped(r) PROVE ToolWaitsItsTime'
  BY <1>12 DEF Dropped
<1> QED
  BY <1>1, <1>2, <1>3, <1>4, <1>5, <1>6, <1>7, <1>8, <1>9, <1>10, <1>11, <1>12 DEF Next, Request, Operator

\* IInv holds in every reachable state.
LEMMA Invariance == Spec => []IInv
<1>1. Init => IInv
  BY InitInvariant
<1>2. IInv /\ [Next]_vars => IInv'
  BY TypeInductive, LifecycleInductive, NoOrphanRecordInductive, ChannelsInductive, ResolutionsInductive, OneDecisionInductive, DecisionLostOnlyByItsRequestInductive, FileGrantedInductive, WritesAreApprovedInductive, ToolWaitsItsTimeInductive DEF IInv
<1> QED
  BY <1>1, <1>2, PTL DEF Spec

\* Every state is well typed.
THEOREM TypeCorrect == Spec => []TypeOK
  BY Invariance, PTL DEF IInv

\* A write goes through only if an operator approved that very request or had
\* allowed its tool for good (ensure_tool_write_allowed).
THEOREM Approved == Spec => []WritesAreApproved
  BY Invariance, PTL DEF IInv

\* A request is resolved at most once (resolve_exec_approval).
THEOREM SingleDecision == Spec => []OneDecision
  BY Invariance, PTL DEF IInv

\* A decision an operator took reaches its request, even when ids are shared, unless
\* that request times out or its agent run is dropped (expire_exec_approval, and the
\* time limit around agent.run).
THEOREM DecisionKept == Spec => []DecisionLostOnlyByItsRequest
  BY Invariance, PTL DEF IInv

\* An answered request leaves no pending record behind; only a tool's request that is
\* dropped with its agent run does.
THEOREM NoOrphans == Spec => []NoOrphanRecord
  BY Invariance, PTL DEF IInv

\* No other request's timeout or record ends a tool's request.
THEOREM ToolNotCutShort == Spec => []ToolWaitsItsTime
  BY Invariance, PTL DEF IInv

-----------------------------------------------------------------------------
(* Who can be answered.                                                    *)

\* An operator can answer whoever still waits: its record is in the table, under
\* its own id, or its channel has already told it how it ends.
WaitingIsPending ==
  \A r \in Requests : pc[r] = "wait" /\ chan[r] = "open" => pending[IdOf[r]] = r

LEMMA WaitingInductive == IInv /\ WaitingIsPending /\ [Next]_vars => WaitingIsPending'
<1> SUFFICES ASSUME IInv, WaitingIsPending, [Next]_vars PROVE WaitingIsPending'
  OBVIOUS
<1> USE ExecAssumption DEF ExecAssumption, IInv, TypeOK, NoOrphanRecord, Decisions, Finish, Drop,
        WaitingIsPending
<1>1. ASSUME NEW r \in Requests, Check(r) PROVE WaitingIsPending'
  BY <1>1 DEF Check
<1>2. ASSUME NEW r \in Requests, Create(r) PROVE WaitingIsPending'
  BY <1>2 DEF Create
<1>3. ASSUME NEW r \in Requests, Receive(r) PROVE WaitingIsPending'
  BY <1>3 DEF Receive
<1>4. ASSUME NEW r \in Requests, TimeOut(r) PROVE WaitingIsPending'
  BY <1>4 DEF TimeOut
<1>5. ASSUME NEW r \in Requests, Expire(r) PROVE WaitingIsPending'
  BY <1>5 DEF Expire
<1>6. ASSUME NEW r \in Requests, LoadFile(r) \/ StoreFile(r) PROVE WaitingIsPending'
  BY <1>6 DEF LoadFile, StoreFile
<1>7. ASSUME NEW i \in Ids, NEW d \in Decisions, Resolve(i, d) PROVE WaitingIsPending'
  BY <1>7 DEF Resolve
<1>8. CASE (\E file \in Edits : EditFile(file)) \/ WriteEdit \/ UNCHANGED vars
  BY <1>8 DEF EditFile, WriteEdit, vars
<1>9. ASSUME NEW r \in Requests, Dropped(r) PROVE WaitingIsPending'
  BY <1>9 DEF Dropped
<1> QED
  BY <1>1, <1>2, <1>3, <1>4, <1>5, <1>6, <1>7, <1>8, <1>9 DEF Next, Request, Operator

\* No request is out of the operator's reach while it waits: another one that
\* takes its id over, or removes its record, ends it at the same time.
THEOREM Reachable == Spec => []WaitingIsPending
<1>1. Init => WaitingIsPending
  BY DEF Init, WaitingIsPending
<1>2. IInv /\ WaitingIsPending /\ [Next]_vars => WaitingIsPending'
  BY WaitingInductive
<1> QED
  BY <1>1, <1>2, Invariance, PTL DEF Spec

-----------------------------------------------------------------------------
(* The approvals implement Approval.                                       *)

LEMMA RefinesInit == Init => Abstract!Init
BY DEF Init, Abstract!Init, Granted

\* A request that is told nothing, and an operator who decides nothing.
LEMMA Stutters ==
  ASSUME UNCHANGED <<answer, resolved, edited>> PROVE UNCHANGED Abstract!vars
BY DEF Abstract!vars, Granted

\* What a request that waits is told agrees with what was decided.
LEMMA Finishes ==
  ASSUME IInv, NEW r \in Requests, NEW a, pc[r] # "done", Finish(r, a),
         a \in Abstract!Answers(r), UNCHANGED <<resolved, edited>>
  PROVE  Abstract!Tell(r)
<1>1. answer[r] = "pending" /\ Granted' = Granted
  BY DEF IInv, Lifecycle, Granted
<1> QED
  BY <1>1 DEF Abstract!Tell, Finish

\* Nothing was decided of a request without a record, or whose record was dropped.
LEMMA Undecided ==
  ASSUME IInv, NEW r \in Requests,
         pc[r] \in {"new", "create"} \/ (pc[r] = "wait" /\ chan[r] \notin Decisions)
  PROVE  ~Abstract!Decided(r)
<1> SUFFICES ASSUME NEW d \in Decisions, <<r, d>> \in resolved PROVE FALSE
  BY DEF Abstract!Decided
<1>1. pc[r] \notin {"new", "create"} /\ (pc[r] = "wait" => chan[r] = d)
  BY DEF IInv, Resolutions
<1> QED
  BY <1>1

LEMMA ReceiveRefines ==
  ASSUME IInv, NEW r \in Requests, Receive(r)
  PROVE  Abstract!Tell(r) \/ UNCHANGED Abstract!vars
<1>1. pc[r] = "wait" /\ UNCHANGED <<resolved, edited>>
  BY DEF Receive
<1>2. CASE chan[r] \in {"none", "closed"} /\ Finish(r, "none")
  <2>1. r \notin ToolWrites
    BY <1>2 DEF IInv, Channels
  <2>2. ~Abstract!Decided(r)
    BY <1>1, <1>2, Undecided DEF Decisions
  <2> QED
    BY <1>1, <1>2, <2>1, <2>2, Finishes DEF Abstract!Answers
<1>3. CASE answer' = answer
  BY <1>1, <1>3, Stutters
<1>4. CASE chan[r] \in Decisions /\ Finish(r, chan[r])
  <2>1. <<r, chan[r]>> \in resolved
    BY <1>4 DEF IInv, Channels
  <2> QED
    BY <1>1, <1>4, <2>1, Finishes DEF Abstract!Answers
<1> QED
  BY <1>2, <1>3, <1>4 DEF Receive

LEMMA CheckRefines ==
  ASSUME IInv, NEW r \in Requests, Check(r)
  PROVE  Abstract!Tell(r) \/ UNCHANGED Abstract!vars
<1>1. pc[r] = "new" /\ UNCHANGED <<resolved, edited>>
  BY DEF Check
<1>2. CASE r \in ToolWrites /\ ToolOf[r] \in allowed /\ Finish(r, "allowed")
  <2>1. ToolOf[r] \in Granted
    BY <1>2 DEF IInv, FileGranted
  <2> QED
    BY <1>1, <1>2, <2>1, Finishes DEF Abstract!Answers
<1>3. CASE r \notin ToolWrites /\ Finish(r, "rejected")
  <2>1. ~Abstract!Decided(r)
    BY <1>1, Undecided
  <2> QED
    BY <1>1, <1>3, <2>1, Finishes DEF Abstract!Answers
<1>4. CASE answer' = answer
  BY <1>1, <1>4, Stutters
<1> QED
  BY <1>2, <1>3, <1>4 DEF Check

LEMMA StoreRefines ==
  ASSUME IInv, NEW r \in Requests, StoreFile(r)
  PROVE  Abstract!Tell(r)
<1>1. <<r, "allow-always">> \in resolved /\ "allow-always" \in Decisions
  BY PersistedIsGranted DEF StoreFile, Decisions
<1>2. "allow-always" \in Abstract!Answers(r)
  BY <1>1 DEF Abstract!Answers
<1> QED
  BY <1>2, Finishes DEF StoreFile

\* A resolution is the one decision of the request whose record the id holds.
LEMMA ResolveRefines ==
  ASSUME IInv, NEW i \in Ids, NEW d \in Decisions, Resolve(i, d)
  PROVE  \E r \in Requests : Abstract!Decide(r, d)
<1> DEFINE r == pending[i]
<1>1. r \in Requests /\ r # NoRequest
  BY DEF IInv, TypeOK, Resolve
<1>2. answer[r] = "pending"
  BY <1>1 DEF IInv, NoOrphanRecord, Lifecycle
<1>3. ~Abstract!Decided(r)
  <2> SUFFICES ASSUME NEW e \in Decisions, <<r, e>> \in resolved PROVE FALSE
    BY DEF Abstract!Decided
  <2>1. pending[i] # <<r, e>>[1]
    BY DEF IInv, Resolutions
  <2> QED
    BY <2>1
<1>4. /\ resolved' = resolved \cup {<<r, d>>} /\ UNCHANGED <<edited, answer>>
  BY DEF Resolve
<1>5. Granted' = Granted \cup (IF d = "allow-always" /\ r \in ToolWrites THEN {ToolOf[r]} ELSE {})
  BY <1>4 DEF Granted
<1> QED
  BY <1>1, <1>2, <1>3, <1>4, <1>5 DEF Abstract!Decide

LEMMA RefinesStep == IInv /\ [Next]_vars => [Abstract!Next]_Abstract!vars
<1> SUFFICES ASSUME IInv, [Next]_vars PROVE Abstract!Next \/ UNCHANGED Abstract!vars
  OBVIOUS
<1>1. ASSUME NEW r \in Requests, Request(r) PROVE Abstract!Tell(r) \/ UNCHANGED Abstract!vars
  <2>1. CASE Create(r) \/ TimeOut(r) \/ LoadFile(r)
    BY <2>1, Stutters DEF Create, TimeOut, LoadFile
  <2>2. CASE Expire(r)
    BY <2>2, Finishes DEF Expire, Abstract!Answers
  <2> QED
    BY <1>1, <2>1, <2>2, CheckRefines, ReceiveRefines, StoreRefines DEF Request
<1>2. ASSUME NEW i \in Ids, NEW d \in Decisions, Resolve(i, d) PROVE Abstract!Next
  BY <1>2, ResolveRefines DEF Abstract!Next
<1>3. ASSUME NEW file \in Edits, EditFile(file) PROVE Abstract!Next
  <2>1. Granted' = Granted \cup file /\ file \in SUBSET Tools
    BY <1>3, ExecAssumption DEF EditFile, Granted
  <2> QED
    BY <1>3, <2>1 DEF EditFile, Abstract!Next, Abstract!Allow
<1>4. CASE WriteEdit \/ (\E r \in Requests : Dropped(r)) \/ UNCHANGED vars
  BY <1>4, Stutters DEF WriteEdit, Dropped, vars
<1> QED
  BY <1>1, <1>2, <1>3, <1>4 DEF Next, Operator, Abstract!Next

\* Whatever ids requests share, whenever they time out and whoever edits the file
\* meanwhile: each is decided at most once and told what was decided, unless it
\* timed out; and a tool's request is never told anything else.
THEOREM Implements == Spec => ImplementsApproval
<1>1. Init => Abstract!Init
  BY RefinesInit
<1>2. IInv /\ [Next]_vars => [Abstract!Next]_Abstract!vars
  BY RefinesStep
<1> QED
  BY <1>1, <1>2, Invariance, PTL DEF Spec, ImplementsApproval, Abstract!Spec
=============================================================================
