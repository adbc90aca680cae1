--------------------------- MODULE OtcTradeProofs ---------------------------
(***************************************************************************)
(* A trade only uses the escrow program's instructions, so it inherits     *)
(* what is proved of the escrow; on it rests that the desk's money is      *)
(* never exposed, whatever crashes, fails or is observed too late.         *)
(***************************************************************************)
EXTENDS OtcTrade, OtcEscrowProofs

\* A desk that has decided to fund saw the trader's leg in an escrow that was
\* there; the receipt stays, and while it is open the leg cannot be taken back.
DeskSaw ==
  desk = "fund" => receipt # "none" /\ (receipt = "open" => funded["A"])

TradeInv == DeskSaw /\ DeskNeverExposed

-----------------------------------------------------------------------------
(* The trade's steps are steps of the escrow, or leave it alone.           *)

LEMMA StepOfEscrow == ASSUME IInv, [TradeNext]_allVars PROVE [Next]_vars
<1>1. CASE Commit \/ Time
  BY <1>1 DEF Commit, Time, Next
<1>8. CASE Outsider
  BY <1>8 DEF Outsider, Next, Assets
<1>2. CASE TraderStep
  <2>t. terms \in TermsSet
    BY DEF IInv, TypeOK
  <2>1. CASE Upsert \/ TraderFlush \/ TraderFlushed \/ TraderReports \/ TraderHears \/ TraderOver
    BY <2>1 DEF Upsert, TraderFlush, TraderFlushed, TraderReports, TraderHears, TraderOver
  <2>2. CASE TraderCreate
    BY <2>2, <2>t DEF TraderCreate, Next, Parties
  <2>3. CASE TraderFund
    BY <2>3 DEF TraderFund, Next, Parties
  <2> QED
    BY <1>2, <2>1, <2>2, <2>3 DEF TraderStep
<1>3. CASE Crash \/ Restart \/ RequestFails \/ AutosaveBegins \/ AutosaveEnds
  BY <1>3 DEF Crash, Restart, RequestFails, AutosaveBegins, AutosaveEnds
<1>4. CASE WatcherStep
  <2>1. CASE WatcherCancel
    BY <2>1 DEF WatcherCancel, Next
  <2>2. CASE Poll \/ ReadStatus \/ Drop \/ WatcherFlush \/ WatcherFlushed \/ Judge
    BY <2>2 DEF Poll, ReadStatus, Drop, WatcherFlush, WatcherFlushed, Judge
  <2> QED
    BY <1>4, <2>1, <2>2 DEF WatcherStep
<1>5. CASE DeskStep
  <2>t. terms \in TermsSet
    BY DEF IInv, TypeOK
  <2>1. CASE DeskCreates \/ DeskFunds
    BY <2>1, <2>t DEF DeskCreates, DeskFunds, Next, Parties
  <2>2. CASE DeskBegins \/ DeskLooks \/ DeskFails
    BY <2>2 DEF DeskBegins, DeskLooks, DeskFails
  <2> QED
    BY <1>5, <2>1, <2>2 DEF DeskStep
<1>6. ASSUME NEW s \in Savers, SaveStep(s) \/ WriteFails(s) PROVE UNCHANGED vars
  BY <1>6 DEF SaveStep, WriteFails
<1>7. CASE UNCHANGED allVars
  BY <1>7 DEF allVars
<1> QED
  BY <1>1, <1>2, <1>3, <1>4, <1>5, <1>6, <1>7, <1>8 DEF TradeNext

LEMMA TradeKeepsEscrow == TradeSpec => []IInv /\ [][Next]_vars
<1>1. TradeInit => IInv
  BY InitInv DEF TradeInit
<1>2. IInv /\ [TradeNext]_allVars => IInv'
  BY StepOfEscrow, NextInv
<1>3. IInv /\ [TradeNext]_allVars => [Next]_vars
  BY StepOfEscrow
<1> QED
  BY <1>1, <1>2, <1>3, PTL DEF TradeSpec

\* A trade is a behaviour of the escrow program: all that is proved of the
\* program holds in it.
THEOREM TradeUsesEscrow == TradeSpec => Spec
<1>1. TradeInit => Init
  BY DEF TradeInit
<1> QED
  BY <1>1, TradeKeepsEscrow, PTL DEF TradeSpec, Spec

-----------------------------------------------------------------------------
(* The desk.                                                               *)

LEMMA TradeInitInv == TradeInit => TradeInv
BY DEF TradeInit, Init, TradeInv, DeskSaw, DeskNeverExposed

\* A step of the escrow that is not the desk's: it may fund A, and an escrow is
\* created only before there is a receipt.
LEMMA OthersStep ==
  ASSUME IInv, TradeInv, desk' = desk,
         \/ \E t \in TermsSet : CreateEscrow("A", t)
         \/ Fund("A") \/ Cancel \/ Purge \/ Tick \/ (\E x \in Assets : Stray(x))
         \/ UNCHANGED vars
  PROVE  TradeInv'
<1> USE DEF TradeInv, DeskSaw, DeskNeverExposed
<1>1. ASSUME NEW t \in TermsSet, CreateEscrow("A", t) PROVE TradeInv'
  <2>1. receipt = "none" /\ receipt' = "open" /\ funded' = [q \in Parties |-> FALSE]
    BY <1>1 DEF CreateEscrow, IInv, LiveIffOpen
  <2> QED
    BY <2>1 DEF Parties
<1>2. CASE Fund("A")
  <2>1. receipt = "open" /\ funded' = [funded EXCEPT !["A"] = TRUE] /\ receipt' \in {"open", "settled"}
    BY <1>2 DEF Fund
  <2> QED
    BY <2>1 DEF IInv, TypeOK, Parties
<1>3. CASE Cancel
  BY <1>3 DEF Cancel
<1>4. CASE Purge \/ Tick \/ (\E x \in Assets : Stray(x)) \/ UNCHANGED vars
  BY <1>4 DEF Purge, Tick, Stray, vars, data
<1> QED
  BY <1>1, <1>2, <1>3, <1>4

LEMMA DeskStepInv == ASSUME IInv, TradeInv, DeskStep PROVE TradeInv'
<1> USE DEF TradeInv, DeskSaw, DeskNeverExposed
<1>1. CASE DeskBegins
  BY <1>1 DEF DeskBegins, vars, data
<1>2. CASE DeskLooks
  <2>1. UNCHANGED vars
    BY <1>2 DEF DeskLooks
  <2>2. desk' = "fund" => escrow = "live" /\ funded["A"]
    BY <1>2 DEF DeskLooks, DeskAt
  <2>3. escrow = "live" => receipt = "open"
    BY DEF IInv, LiveIffOpen
  <2> QED
    BY <2>1, <2>2, <2>3 DEF vars, data
<1>3. CASE DeskCreates
  <2>1. desk' = "look" /\ funded' = [q \in Parties |-> FALSE]
    BY <1>3 DEF DeskCreates, DeskAt, CreateEscrow
  <2> QED
    BY <2>1 DEF Parties
\* The trader's leg is there, so the desk's funding settles.
<1>4. CASE DeskFunds
  <2>1. desk = "fund" /\ desk' = "idle" /\ receipt = "open"
    BY <1>4 DEF DeskFunds, DeskAt, Fund
  <2>2. funded["A"] /\ Other("B") = "A"
    BY <2>1 DEF Other
  <2>3. receipt' = "settled"
    BY <1>4, <2>2 DEF DeskFunds, Fund
  <2> QED
    BY <2>1, <2>3
<1>5. CASE DeskFails
  BY <1>5 DEF DeskFails, DeskAt, vars, data
<1> QED
  BY <1>1, <1>2, <1>3, <1>4, <1>5 DEF DeskStep

LEMMA TradeNextInv == ASSUME IInv, TradeInv, [TradeNext]_allVars PROVE TradeInv'
<1>1. CASE Commit \/ Time
  BY <1>1, OthersStep DEF Commit, Time, tradeVars
<1>8. CASE Outsider
  BY <1>8, OthersStep DEF Outsider, tradeVars, Assets
<1>2. CASE TraderStep
  <2>t. terms \in TermsSet /\ desk' = desk
    BY <1>2 DEF IInv, TypeOK, TraderStep, Upsert, TraderFlush, TraderFlushed, TraderCreate, TraderFund,
                TraderReports, TraderHears, TraderOver
  <2>1. CASE Upsert \/ TraderFlush \/ TraderFlushed \/ TraderReports \/ TraderHears \/ TraderOver
    BY <2>1, <2>t, OthersStep DEF Upsert, TraderFlush, TraderFlushed, TraderReports, TraderHears, TraderOver
  <2>2. CASE TraderCreate
    BY <2>2, <2>t, OthersStep DEF TraderCreate
  <2>3. CASE TraderFund
    BY <2>3, <2>t, OthersStep DEF TraderFund
  <2> QED
    BY <1>2, <2>1, <2>2, <2>3 DEF TraderStep
<1>3. CASE Crash \/ Restart \/ RequestFails \/ AutosaveBegins \/ AutosaveEnds
  BY <1>3, OthersStep DEF Crash, Restart, RequestFails, WatcherAt, AutosaveBegins, AutosaveEnds
<1>4. CASE WatcherStep
  <2>1. desk' = desk
    BY <1>4 DEF WatcherStep, Poll, ReadStatus, Drop, WatcherFlush, WatcherFlushed, Judge, WatcherCancel,
                WatcherAt
  <2>2. Cancel \/ UNCHANGED vars
    BY <1>4 DEF WatcherStep, Poll, ReadStatus, Drop, WatcherFlush, WatcherFlushed, Judge, WatcherCancel
  <2> QED
    BY <2>1, <2>2, OthersStep
<1>5. CASE DeskStep
  BY <1>5, DeskStepInv
<1>6. ASSUME NEW s \in Savers, SaveStep(s) \/ WriteFails(s) PROVE TradeInv'
  BY <1>6, OthersStep DEF SaveStep, WriteFails
<1>7. CASE UNCHANGED allVars
  BY <1>7, OthersStep DEF allVars, tradeVars
<1> QED
  BY <1>1, <1>2, <1>3, <1>4, <1>5, <1>6, <1>7, <1>8 DEF TradeNext

\* Whatever the two processes see too late, and wherever the trader crashes, the
\* desk's money is in the escrow only inside the instruction that settles.
THEOREM DeskSafe == TradeSpec => []DeskNeverExposed
<1>1. IInv /\ TradeInv /\ [TradeNext]_allVars => TradeInv'
  BY TradeNextInv
<1>2. TradeInv => DeskNeverExposed
  BY DEF TradeInv
<1> QED
  BY <1>1, <1>2, TradeInitInv, TradeKeepsEscrow, PTL DEF TradeSpec

\* Both legs change hands or neither does, though the trader crashes at will.
THEOREM TradeIsAtomic == TradeSpec => []AllOrNothing
BY TradeUsesEscrow, Atomic, PTL

-----------------------------------------------------------------------------
(* The trader's tasks and its store.                                       *)

Places == Saving \cup {"idle", "saved", "failed"}

\* What a save does to its own place, and to no other.
LEMMA SaverMoves ==
  ASSUME TradeTypeOK, NEW s \in Savers, NEW to \in Places, saver' = [saver EXCEPT ![s] = to]
  PROVE  /\ saver' \in [Savers -> Places] /\ saver'[s] = to
         /\ \A q \in Savers : q # s => saver'[q] = saver[q]
BY DEF TradeTypeOK, Places

\* What a step of a save does: it moves its own place, and other saves stay under
\* way, or not, though a file they have open changes its name or goes.
SaverStepped(s) ==
  /\ saver[s] \in Saving /\ saver' \in [Savers -> Places] /\ saver'[s] # "idle"
  /\ \A q \in Savers \ {s} :
       saver'[q] = saver[q] \/ (saver[q] \in Filling /\ saver'[q] \in {"fillfile", "fillgone"})

LEMMA SaveMoves ==
  ASSUME TradeTypeOK, NEW s \in Savers, SaveStep(s) \/ WriteFails(s)
  PROVE  SaverStepped(s)
<1>p. /\ Saving = {"write", "rename", "remove", "again", "fill", "fillfile", "fillgone"}
      /\ Places = Saving \cup {"idle", "saved", "failed"} /\ saver \in [Savers -> Places]
  BY DEF Saving, Filling, Places, TradeTypeOK
<1>1. CASE \E to \in Places \ {"idle"} : saver[s] \in Saving /\ saver' = [saver EXCEPT ![s] = to]
  BY <1>1, SaverMoves DEF SaverStepped
<1>2. ASSUME NEW to \in Places \ {"idle"}, saver[s] \in Saving, 
             saver' = [q \in Savers |-> IF q = s THEN to ELSE Renamed(saver[q])]
      PROVE  SaverStepped(s)
  <2>1. \A q \in Savers : Renamed(saver[q]) \in Places
    BY <1>p DEF Renamed
  <2>2. saver' \in [Savers -> Places] /\ saver'[s] = to
    BY <1>2, <2>1
  <2>3. \A q \in Savers \ {s} : saver'[q] = Renamed(saver[q])
    BY <1>2
  <2>4. ASSUME NEW q \in Savers \ {s}
        PROVE  saver'[q] = saver[q] \/ (saver[q] \in Filling /\ saver'[q] \in {"fillfile", "fillgone"})
    BY <2>3 DEF Renamed, Filling
  <2> QED
    BY <1>2, <2>2, <2>4 DEF SaverStepped
<1>3. ASSUME NEW to \in Places \ {"idle"}, saver[s] \in Saving, 
             saver' = [q \in Savers |-> IF q = s THEN to ELSE Removed(saver[q])]
      PROVE  SaverStepped(s)
  <2>1. \A q \in Savers : Removed(saver[q]) \in Places
    BY <1>p DEF Removed
  <2>2. saver' \in [Savers -> Places] /\ saver'[s] = to
    BY <1>3, <2>1
  <2>3. \A q \in Savers \ {s} : saver'[q] = Removed(saver[q])
    BY <1>3
  <2>4. ASSUME NEW q \in Savers \ {s}
        PROVE  saver'[q] = saver[q] \/ (saver[q] \in Filling /\ saver'[q] \in {"fillfile", "fillgone"})
    BY <2>3 DEF Removed, Filling
  <2> QED
    BY <1>3, <2>2, <2>4 DEF SaverStepped
<1>4. CASE Truncate(s) \/ Fill(s) \/ WriteFails(s)
  BY <1>1, <1>4, <1>p DEF Truncate, Fill, WriteFails, Filling
<1>5. CASE FirstRename(s) \/ SecondRename(s)
  BY <1>1, <1>2, <1>5, <1>p DEF FirstRename, SecondRename, Rename
<1>6. CASE RemoveFile(s)
  BY <1>3, <1>6, <1>p DEF RemoveFile
<1> QED
  BY <1>4, <1>5, <1>6 DEF SaveStep

LEMMA SaveTyped == ASSUME TradeTypeOK, NEW s \in Savers, SaveStep(s) \/ WriteFails(s) PROVE TradeTypeOK'
<1>s. "trader" \in Savers /\ "watcher" \in Savers /\ Saved \in {"watch", "empty"}
  BY DEF Savers, Saved
<1>1. file' \in {"none", "torn", "watch", "empty"} /\ tmp' \in {"none", "torn", "watch", "empty"}
  BY <1>s DEF SaveStep, WriteFails, Truncate, Fill, FirstRename, SecondRename, RemoveFile, Rename,
              TradeTypeOK, storeVars
<1>2. UNCHANGED <<up, trader, watcher, watched, dirty, desk, misled, lost>>
  BY DEF SaveStep, WriteFails, storeVars, history
<1>3. "idle" \notin Saving /\ "idle" \notin Filling
  BY DEF Saving, Filling
<1>4. /\ saver' \in [Savers -> Places]
      /\ \A q \in Savers : saver'[q] # "idle" => saver[q] # "idle"
  BY <1>3, SaveMoves DEF SaverStepped
<1>5. /\ saver'["watcher"] # "idle" => watcher = "flushing"
      /\ saver'["trader"] # "idle" => trader \in {"flush", "lastflush"}
  BY <1>4, <1>s DEF TradeTypeOK
<1> QED
  BY <1>1, <1>2, <1>4, <1>5 DEF TradeTypeOK, Places

LEMMA StopTyped == ASSUME TradeTypeOK, Stop, desk' = desk PROVE TradeTypeOK'
BY DEF TradeTypeOK, Stop, Idle, Savers

LEMMA TraderTyped == ASSUME TradeTypeOK, TraderStep PROVE TradeTypeOK'
<1>s. "trader" \in Savers /\ "watcher" \in Savers /\ "write" \in Places /\ "idle" \in Places
  BY DEF Savers, Saving, Places
<1>d. desk' = desk
  BY DEF TraderStep, Upsert, TraderFlush, TraderFlushed, TraderCreate, TraderFund, TraderReports,
         TraderHears, TraderOver
<1>0. CASE Stop
  BY <1>0, <1>d, StopTyped
<1>1. CASE Upsert
  BY <1>1, <1>s DEF Upsert, Store, TradeTypeOK, history
<1>2. CASE TraderFlush
  <2>1. saver' = [saver EXCEPT !["trader"] = "write"]
    BY <1>2 DEF TraderFlush, BeginSave
  <2> QED
    BY <1>2, <2>1, <1>s, SaverMoves DEF TraderFlush, TradeTypeOK, storeVars, history, Places
<1>3. CASE TraderFlushed /\ ~Stop
  <2>1. /\ trader' = "create" /\ saver' = [saver EXCEPT !["trader"] = "idle"]
        /\ UNCHANGED <<up, watcher, storeVars, history>>
    BY <1>3 DEF TraderFlushed
  <2> QED
    BY <2>1, <1>s, <1>d, SaverMoves DEF TradeTypeOK, storeVars, history, Places
<1>4. CASE (TraderCreate \/ TraderFund \/ TraderReports) /\ ~Stop
  <2>1. /\ trader \notin {"flush", "lastflush"} /\ trader' \in {"fund", "funded", "listen"}
        /\ UNCHANGED <<up, watcher, saver, storeVars, history>>
    BY <1>4 DEF TraderCreate, TraderFund, TraderReports
  <2> QED
    BY <2>1, <1>d DEF TradeTypeOK, storeVars, history
<1>5. CASE TraderHears \/ TraderOver
  <2>1. CASE TraderRemoves
    <3>1. misled' \in BOOLEAN
      BY <1>5 DEF TraderHears, TraderOver, TradeTypeOK, history
    <3>2. trader \notin {"flush", "lastflush"}
      BY <1>5 DEF TraderHears, TraderOver
    <3>3. trader' = "lastflush" /\ UNCHANGED <<up, watcher, saver, file, tmp, lost>>
      BY <2>1 DEF TraderRemoves, Store
    <3>4. watched' \in BOOLEAN /\ dirty' \in BOOLEAN
      BY <2>1 DEF TraderRemoves, Store
    <3>5. desk' = desk
      BY <1>5 DEF TraderHears, TraderOver
    <3> QED
      BY <3>1, <3>2, <3>3, <3>4, <3>5, <1>d DEF TradeTypeOK
  <2>2. CASE ~TraderRemoves
    <3>1. trader = "listen" /\ trader' = "wait" /\ UNCHANGED <<up, watcher, saver, storeVars, history>>
      BY <1>5, <2>2 DEF TraderHears, TraderOver
    <3> QED
      BY <3>1, <1>d DEF TradeTypeOK, storeVars, history
  <2> QED
    BY <2>1, <2>2
<1> QED
  BY <1>0, <1>1, <1>2, <1>3, <1>4, <1>5 DEF TraderStep

LEMMA WatcherTyped == ASSUME TradeTypeOK, WatcherStep \/ RequestFails PROVE TradeTypeOK'
<1>s. /\ "trader" \in Savers /\ "watcher" \in Savers /\ "trader" # "watcher"
      /\ "write" \in Places /\ "idle" \in Places
  BY DEF Savers, Saving, Places
<1>1. CASE Poll \/ ReadStatus \/ Judge \/ WatcherCancel \/ RequestFails
  <2>1. /\ UNCHANGED <<up, trader, saver, storeVars, desk, history>>
        /\ watcher \in {"poll", "read", "judge", "cancel"}
        /\ watcher' \in {"poll", "read", "judge", "cancel", "drop"}
    BY <1>1 DEF Poll, ReadStatus, Judge, WatcherCancel, RequestFails, WatcherAt
  <2> QED
    BY <2>1 DEF TradeTypeOK, storeVars, history
<1>2. CASE Drop
  <2>1. /\ watcher = "drop" /\ watcher' = "flush"
        /\ UNCHANGED <<up, trader, saver, file, tmp, desk, misled, lost>>
    BY <1>2 DEF Drop, WatcherAt, Store, history
  <2>2. watched' \in BOOLEAN /\ dirty' \in BOOLEAN
    BY <1>2 DEF Drop, Store
  <2> QED
    BY <2>1, <2>2 DEF TradeTypeOK
<1>3. CASE WatcherFlush
  <2>1. /\ saver' = [saver EXCEPT !["watcher"] = "write"] /\ watcher' = "flushing"
        /\ UNCHANGED <<up, trader, storeVars, desk, history>>
    BY <1>3 DEF WatcherFlush, BeginSave, WatcherAt
  <2> QED
    BY <2>1, <1>s, SaverMoves DEF TradeTypeOK, storeVars, history, Places
<1>4. CASE WatcherFlushed
  <2>1. /\ saver' = [saver EXCEPT !["watcher"] = "idle"] /\ watcher' = "poll"
        /\ UNCHANGED <<up, trader, storeVars, desk, history>>
    BY <1>4 DEF WatcherFlushed, WatcherAt
  <2> QED
    BY <2>1, <1>s, SaverMoves DEF TradeTypeOK, storeVars, history, Places
<1> QED
  BY <1>1, <1>2, <1>3, <1>4 DEF WatcherStep

LEMMA DeskTyped ==
  ASSUME TradeTypeOK, DeskStep
  PROVE  TradeTypeOK' /\ UNCHANGED <<up, trader, watcher, saver, storeVars, history>>
<1>1. UNCHANGED <<up, trader, watcher, saver, storeVars, history>>
  BY DEF DeskStep, DeskBegins, DeskLooks, DeskCreates, DeskFunds, DeskFails, DeskAt
<1>2. desk' \in {"idle", "look", "create", "fund"}
  BY DEF DeskStep, DeskBegins, DeskLooks, DeskCreates, DeskFunds, DeskFails, DeskAt
<1> QED
  BY <1>1, <1>2 DEF TradeTypeOK, storeVars, history

LEMMA TradeTyped == ASSUME TradeTypeOK, [TradeNext]_allVars PROVE TradeTypeOK'
<1>s. /\ "trader" \in Savers /\ "watcher" \in Savers /\ "autosave" \in Savers
      /\ "trader" # "autosave" /\ "watcher" # "autosave" /\ "write" \in Places /\ "idle" \in Places
  BY DEF Savers, Saving, Places
<1>1. CASE Commit \/ Time \/ Outsider \/ UNCHANGED allVars
  BY <1>1 DEF Commit, Time, Outsider, allVars, tradeVars, storeVars, history, TradeTypeOK
<1>2. CASE Crash
  BY <1>2, StopTyped DEF Crash
<1>3. CASE Restart
  BY <1>3 DEF Restart, TradeTypeOK, history
<1>4. CASE AutosaveBegins
  <2>1. saver' = [saver EXCEPT !["autosave"] = "write"] /\ dirty' \in BOOLEAN
    BY <1>4 DEF AutosaveBegins, BeginSave
  <2>2. /\ saver' \in [Savers -> Places]
        /\ saver'["watcher"] = saver["watcher"] /\ saver'["trader"] = saver["trader"]
    BY <2>1, <1>s, SaverMoves
  <2> QED
    BY <1>4, <2>1, <2>2 DEF AutosaveBegins, TradeTypeOK, history, Places
<1>5. CASE AutosaveEnds
  <2>1. saver' = [saver EXCEPT !["autosave"] = "idle"] /\ dirty' \in BOOLEAN
    BY <1>5 DEF AutosaveEnds, TradeTypeOK
  <2>2. /\ saver' \in [Savers -> Places]
        /\ saver'["watcher"] = saver["watcher"] /\ saver'["trader"] = saver["trader"]
    BY <2>1, <1>s, SaverMoves
  <2> QED
    BY <1>5, <2>1, <2>2 DEF AutosaveEnds, TradeTypeOK, history, Places
<1>6. ASSUME NEW s \in Savers, SaveStep(s) \/ WriteFails(s) PROVE TradeTypeOK'
  BY <1>6, SaveTyped
<1> QED
  BY <1>1, <1>2, <1>3, <1>4, <1>5, <1>6, TraderTyped, WatcherTyped, DeskTyped DEF TradeNext

LEMMA TradeInitTyped == TradeInit => TradeTypeOK
BY DEF TradeInit, TradeTypeOK, Idle, Savers

\* Every task is at one of its places, and a save of the watcher or of the main
\* task is under way only while that task waits for it.
THEOREM TradeTypeCorrect == TradeSpec => []TradeTypeOK
<1>1. TradeTypeOK /\ [TradeNext]_allVars => TradeTypeOK'
  BY TradeTyped
<1> QED
  BY <1>1, TradeInitTyped, PTL DEF TradeSpec

-----------------------------------------------------------------------------
(* The stored watch.                                                       *)

Over == receipt \in {"settled", "cancelled"}

\* The watch is in the memory of a trader that runs, or in the file of one that does
\* not; and the watcher has not found the receipt missing.
InReach == IF up THEN watched ELSE file = "watch"
Watching == receipt = "open" /\ InReach /\ watcher # "drop"

\* A trader that is down has no watcher and saves nothing.
Down == ~up => trader = "stopped" /\ watcher = "poll" /\ ~watched /\ saver = Idle

LEMMA OverStays == Over /\ [Next]_vars => Over'
BY DEF Over, Next, vars, data, CreateEscrow, Fund, Cancel, Purge, Tick, Stray

LEMMA OpenEnds == receipt = "open" /\ [Next]_vars => receipt' = "open" \/ Over'
BY DEF Over, Next, vars, data, CreateEscrow, Fund, Cancel, Purge, Tick, Stray

LEMMA DownInit == TradeInit => Down
BY DEF TradeInit, Down

LEMMA DownStays == ASSUME TradeTypeOK, Down, [TradeNext]_allVars PROVE Down'
<1>1. CASE Stop
  BY <1>1 DEF Stop, Down
<1>2. CASE TraderStep /\ ~Stop
  <2>1. up /\ up' = up
    BY <1>2 DEF TraderStep, Upsert, TraderFlush, TraderFlushed, TraderCreate, TraderFund, TraderReports,
                TraderHears, TraderOver, TraderRemoves
  <2> QED
    BY <2>1 DEF Down
<1>3. CASE WatcherStep \/ RequestFails
  <2>1. up /\ up' = up
    BY <1>3 DEF WatcherStep, RequestFails, Poll, ReadStatus, Drop, WatcherFlush, WatcherFlushed, Judge,
                WatcherCancel, WatcherAt
  <2> QED
    BY <2>1 DEF Down
<1>4. CASE AutosaveBegins \/ AutosaveEnds \/ Restart
  BY <1>4 DEF AutosaveBegins, AutosaveEnds, Restart, Down
<1>5. ASSUME NEW s \in Savers, SaveStep(s) \/ WriteFails(s) PROVE Down'
  BY <1>5 DEF SaveStep, WriteFails, Down
<1>6. CASE DeskStep
  BY <1>6, DeskTyped DEF Down, storeVars
<1>7. CASE Commit \/ Time \/ Outsider \/ UNCHANGED allVars
  BY <1>7 DEF Commit, Time, Outsider, allVars, tradeVars, storeVars, Down
<1> QED
  BY <1>1, <1>2, <1>3, <1>4, <1>5, <1>6, <1>7 DEF TradeNext, Crash

\* The history says what takes a watch away while the receipt is open.
LEMMA WatchingStays ==
  ASSUME TradeTypeOK, Down, Watching, [TradeNext]_allVars, receipt' = "open"
  PROVE  Watching' \/ Forsaken'
<1> USE DEF Watching, InReach, Forsaken
<1>1. CASE Stop
  BY <1>1 DEF Stop, TradeTypeOK
<1>2. CASE TraderStep /\ ~Stop
  <2>1. CASE TraderHears \/ TraderOver
    <3>1. \/ UNCHANGED <<up, watcher, watched, file>>
          \/ misled' = (misled \/ receipt = "open")
          \/ Over
      BY <2>1, <1>2 DEF TraderHears, TraderOver, storeVars, Over
    <3>2. receipt = "open" /\ ~Over
      BY DEF Over
    <3>3. CASE misled' = (misled \/ receipt = "open")
      BY <3>2, <3>3, Zenon
    <3> QED
      BY <3>1, <3>2, <3>3
  <2>2. CASE Upsert \/ TraderFlush
    BY <2>2 DEF Upsert, TraderFlush, Store, storeVars
  <2>3. CASE TraderFlushed \/ TraderCreate \/ TraderFund \/ TraderReports
    BY <2>3, <1>2 DEF TraderFlushed, TraderCreate, TraderFund, TraderReports, storeVars
  <2> QED
    BY <1>2, <2>1, <2>2, <2>3 DEF TraderStep
<1>3. CASE WatcherStep \/ RequestFails
  <2>1. UNCHANGED <<up, watched>> /\ watcher' # "drop" /\ up
    BY <1>3 DEF WatcherStep, RequestFails, Poll, ReadStatus, Drop, WatcherFlush, WatcherFlushed, Judge,
                WatcherCancel, WatcherAt, storeVars
  <2> QED
    BY <2>1
<1>4. CASE AutosaveBegins \/ AutosaveEnds
  BY <1>4 DEF AutosaveBegins, AutosaveEnds
<1>5. CASE Restart
  BY <1>5 DEF Restart, Down
<1>6. ASSUME NEW s \in Savers, SaveStep(s) \/ WriteFails(s) PROVE Watching'
  BY <1>6 DEF SaveStep, WriteFails, storeVars
<1>7. CASE DeskStep
  BY <1>7, DeskTyped DEF storeVars
<1>8. CASE Commit \/ Time \/ Outsider \/ UNCHANGED allVars
  BY <1>8 DEF Commit, Time, Outsider, allVars, tradeVars, storeVars
<1> QED
  BY <1>1, <1>2, <1>3, <1>4, <1>5, <1>6, <1>7, <1>8 DEF TradeNext, Crash

LEMMA ForsakenStays == ASSUME TradeTypeOK, Forsaken, [TradeNext]_allVars PROVE Forsaken'
<1> USE DEF Forsaken
<1>1. CASE Stop
  BY <1>1 DEF Stop
<1>2. CASE TraderStep /\ ~Stop
  <2>1. CASE TraderHears
    <3>1. lost' = lost /\ (misled' = misled \/ misled' = (misled \/ receipt = "open"))
      BY <2>1, <1>2 DEF TraderHears, TraderRemoves, history
    <3> QED
      BY <3>1, Zenon
  <2>2. CASE ~TraderHears
    <3>1. UNCHANGED <<misled, lost>>
      BY <2>2, <1>2 DEF TraderStep, Upsert, TraderFlush, TraderFlushed, TraderCreate, TraderFund,
                        TraderReports, TraderOver, TraderRemoves, history
    <3> QED
      BY <3>1
  <2> QED
    BY <2>1, <2>2
<1>3. CASE WatcherStep \/ RequestFails
  BY <1>3 DEF WatcherStep, RequestFails, Poll, ReadStatus, Drop, WatcherFlush, WatcherFlushed, Judge,
              WatcherCancel, WatcherAt, history
<1>4. CASE AutosaveBegins \/ AutosaveEnds \/ Restart
  BY <1>4 DEF AutosaveBegins, AutosaveEnds, Restart, history
<1>5. ASSUME NEW s \in Savers, SaveStep(s) \/ WriteFails(s) PROVE Forsaken'
  BY <1>5 DEF SaveStep, WriteFails, history
<1>6. CASE DeskStep
  BY <1>6, DeskTyped DEF history
<1>7. CASE Commit \/ Time \/ Outsider \/ UNCHANGED allVars
  BY <1>7 DEF Commit, Time, Outsider, allVars, tradeVars, history
<1> QED
  BY <1>1, <1>2, <1>3, <1>4, <1>5, <1>6, <1>7 DEF TradeNext, Crash

\* From the moment the watch of an open escrow is stored until the receipt is over,
\* the watch is in the memory of a running trader or in the file of a stopped one,
\* and the escrow can be called off unless it is stuck; or a believed message or a
\* stop before the watch was in the file, which the history records, has forsaken it.
StaysRefundable == \/ Over \/ Forsaken
                   \/ InReach /\ (~Stuck => CanCancel)
StoredStaysRefundable == Stored => []StaysRefundable

THEOREM WatchSurvives == TradeSpec => []StoredStaysRefundable
<1> DEFINE TInv == IInv /\ TradeTypeOK /\ Down
           Promise == Watching \/ Over \/ Forsaken
<1>1. TradeInit => TInv
  BY InitInv, DownInit, TradeInitTyped DEF TradeInit
<1>2. TInv /\ [TradeNext]_allVars => TInv'
  BY StepOfEscrow, NextInv, TradeTyped, DownStays
<1>3. TInv /\ Stored => Promise
  BY DEF Stored, Watching, InReach, Down
<1>4. TInv /\ Promise /\ [TradeNext]_allVars => Promise'
  <2> SUFFICES ASSUME TInv, Promise, [TradeNext]_allVars PROVE Promise'
    OBVIOUS
  <2>1. [Next]_vars
    BY StepOfEscrow
  <2> QED
    BY <2>1, OverStays, OpenEnds, WatchingStays, ForsakenStays DEF Watching
<1>5. TInv /\ Promise => StaysRefundable
  <2> SUFFICES ASSUME TInv, Watching PROVE StaysRefundable
    BY DEF StaysRefundable
  <2>1. escrow = "live" /\ \E p \in Parties : ~funded[p]
    BY DEF Watching, IInv, LiveIffOpen
  <2>2. ~Stuck => Refunded(Holdings).ok
    BY <2>1, RefundSucceeds
  <2> QED
    BY <2>1, <2>2 DEF StaysRefundable, Watching, CanCancel
<1> QED
  BY <1>1, <1>2, <1>3, <1>4, <1>5, PTL DEF TradeSpec, StoredStaysRefundable

-----------------------------------------------------------------------------
(* Saves that overlap.                                                     *)

Busy == Saving \cup {"failed"}
OwedBesides(s) == dirty \/ \E q \in Savers \ {s} : saver[q] \in Busy

\* What a save finds in the temporary file, when it has filled or lost its own, is the
\* watch, unless another save, which has truncated it since, is still under way.
TmpOwed ==
  watched /\ tmp \notin {"none", "watch"} =>
    \A s \in Savers : saver[s] \in Saving \ {"write", "fill"} => OwedBesides(s)

\* The watcher flushes only what it has dropped, and no watch is stored after that.
Dropped ==
  /\ trader = "accept" => ~watched /\ watcher = "poll"
  /\ watcher \in {"flush", "flushing"} => ~watched

SaveInv == SaveOwed /\ TmpOwed /\ Dropped

LEMMA SaveInitInv == TradeInit => SaveInv
BY DEF TradeInit, SaveInv, SaveOwed, TmpOwed, Dropped

\* Without a watch nothing is owed.
LEMMA UnwatchedOwes == ASSUME ~watched', Dropped' PROVE SaveInv'
BY DEF SaveInv, SaveOwed, TmpOwed

\* A save that has begun or is done with owes no less.
LEMMA SaverOwed ==
  ASSUME TradeTypeOK, SaveInv, Dropped', NEW s \in Savers, NEW to \in {"write", "idle"},
         saver' = [saver EXCEPT ![s] = to], UNCHANGED <<watched, file, tmp>>,
         to = "idle" => saver[s] \notin Saving /\ (saver[s] = "failed" => dirty'),
         dirty => dirty' \/ to = "write"
  PROVE  SaveInv'
<1>1. /\ saver'[s] = to /\ \A q \in Savers : q # s => saver'[q] = saver[q]
      /\ "write" \in Saving /\ "idle" \notin Busy
  <2>1. to \in Places /\ "write" \in Saving /\ "idle" \notin Busy
    BY DEF Places, Saving, Filling, Busy
  <2> QED
    BY <2>1, SaverMoves
<1>2. SaveOwed'
  BY <1>1 DEF SaveInv, SaveOwed, Busy
<1>3. TmpOwed'
  <2> SUFFICES ASSUME watched, tmp \notin {"none", "watch"}, NEW q \in Savers,
                      saver'[q] \in Saving \ {"write", "fill"}
               PROVE  OwedBesides(q)'
    BY DEF TmpOwed
  <2>1. q # s /\ saver[q] = saver'[q]
    BY <1>1 DEF Busy
  <2>2. OwedBesides(q)
    BY <2>1 DEF SaveInv, TmpOwed
  <2> QED
    BY <1>1, <2>1, <2>2 DEF OwedBesides, Busy
<1> QED
  BY <1>2, <1>3 DEF SaveInv

LEMMA SaveStepOwed ==
  ASSUME TradeTypeOK, SaveInv, NEW s \in Savers, SaveStep(s) \/ WriteFails(s)
  PROVE  SaveInv'
<1>p. Saving = {"write", "rename", "remove", "again", "fill", "fillfile", "fillgone"}
  BY DEF Saving, Filling
<1>1. /\ UNCHANGED <<trader, watcher, watched, dirty>> /\ SaverStepped(s)
      /\ saver[s] \in Saving
  BY SaveMoves DEF SaveStep, WriteFails, storeVars, SaverStepped
<1>2. Dropped'
  BY <1>1 DEF SaveInv, Dropped
<1>3. CASE ~watched
  BY <1>1, <1>2, <1>3, UnwatchedOwes
<1>4. CASE watched
  <2>w. Saved = "watch"
    BY <1>4 DEF Saved
  \* The others are as busy as before.
  <2>q. \A q \in Savers \ {s} : saver[q] \in Busy <=> saver'[q] \in Busy
    BY <1>1, <1>p DEF SaverStepped, Busy, Filling
  <2>1. CASE saver'[s] \in Busy
    <3>1. SaveOwed'
      BY <2>1 DEF SaveOwed, Busy
    <3>2. TmpOwed'
      <4> SUFFICES ASSUME tmp' \notin {"none", "watch"}, NEW q \in Savers,
                          saver'[q] \in Saving \ {"write", "fill"}
                   PROVE  OwedBesides(q)'
        BY DEF TmpOwed
      <4>1. CASE q # s
        BY <2>1, <4>1 DEF OwedBesides
      <4>2. CASE q = s
        <5>1. saver[s] # "write" /\ saver[s] # "fill" /\ tmp' = tmp
          <6>1. ~Truncate(s) /\ ~WriteFails(s)
            BY <4>2, <1>p DEF Truncate, WriteFails, TradeTypeOK
          <6>2. CASE Fill(s)
            BY <6>2, <2>w, <4>2 DEF Fill, Filling
          <6>3. CASE FirstRename(s) \/ SecondRename(s)
            BY <6>3, <4>2 DEF FirstRename, SecondRename, Rename
          <6>4. CASE RemoveFile(s)
            BY <6>4 DEF RemoveFile
          <6> QED
            BY <6>1, <6>2, <6>3, <6>4 DEF SaveStep
        <5>2. OwedBesides(s)
          BY <1>1, <1>4, <4>2, <5>1 DEF SaveInv, TmpOwed
        <5> QED
          BY <1>1, <2>q, <4>2, <5>2 DEF OwedBesides
      <4> QED
        BY <4>1, <4>2
    <3> QED
      BY <1>2, <3>1, <3>2 DEF SaveInv
  \* The save is done: it has put the temporary file in place.
  <2>2. CASE saver'[s] \notin Busy
    <3>1. /\ saver[s] \in {"rename", "again"} /\ tmp # "none" /\ file' = tmp /\ tmp' = "none"
      <4>1. ~Truncate(s) /\ ~Fill(s) /\ ~WriteFails(s)
        BY <2>2, <1>p DEF Truncate, Fill, WriteFails, TradeTypeOK, Busy
      <4>2. ~RemoveFile(s)
        BY <2>2, <1>p DEF RemoveFile, Busy
      <4> QED
        BY <2>2, <4>1, <4>2, <1>p DEF SaveStep, FirstRename, SecondRename, Rename, TradeTypeOK, Busy
    <3>2. file' = "watch" \/ OwedBesides(s)
      BY <3>1, <1>4, <1>p DEF SaveInv, TmpOwed
    <3>3. OwedBesides(s)' \/ file' = "watch"
      BY <1>1, <2>q, <3>2 DEF OwedBesides
    <3> QED
      BY <3>1, <3>3, <1>2 DEF SaveInv, SaveOwed, TmpOwed, OwedBesides, Busy
  <2> QED
    BY <2>1, <2>2
<1> QED
  BY <1>3, <1>4

LEMMA DroppedStays == ASSUME TradeTypeOK, Down, Dropped, [TradeNext]_allVars PROVE Dropped'
<1> USE DEF Dropped
<1>0. CASE Restart
  BY <1>0 DEF Restart, Down
<1>1. CASE Stop
  BY <1>1 DEF Stop
<1>2. CASE TraderStep /\ ~Stop
  <2>1. CASE Upsert
    BY <2>1 DEF Upsert, Store
  <2>2. CASE ~Upsert
    <3>1. watcher' = watcher /\ trader' # "accept" /\ (watched' = watched \/ ~watched')
      BY <1>2, <2>2 DEF TraderStep, TraderFlush, TraderFlushed, TraderCreate, TraderFund, TraderReports,
                        TraderHears, TraderOver, TraderRemoves, Store, storeVars
    <3> QED
      BY <3>1
  <2> QED
    BY <2>1, <2>2
<1>3. CASE Poll
  BY <1>3 DEF Poll, WatcherAt, storeVars
<1>4. CASE RequestFails \/ ReadStatus \/ Judge \/ WatcherCancel \/ WatcherFlushed
  <2>1. /\ watcher # "poll" /\ watcher' \in {"poll", "drop", "judge", "cancel"}
        /\ UNCHANGED <<trader, watched>>
    BY <1>4 DEF RequestFails, ReadStatus, Judge, WatcherCancel, WatcherFlushed, WatcherAt, storeVars
  <2> QED
    BY <2>1
<1>5. CASE Drop
  BY <1>5 DEF Drop, WatcherAt, Store
<1>6. CASE WatcherFlush
  BY <1>6 DEF WatcherFlush, WatcherAt, storeVars
<1>7. CASE AutosaveBegins \/ AutosaveEnds
  BY <1>7 DEF AutosaveBegins, AutosaveEnds
<1>8. ASSUME NEW s \in Savers, SaveStep(s) \/ WriteFails(s) PROVE Dropped'
  BY <1>8 DEF SaveStep, WriteFails, storeVars
<1>9. CASE DeskStep \/ Commit \/ Time \/ Outsider \/ UNCHANGED allVars
  BY <1>9, DeskTyped DEF Commit, Time, Outsider, allVars, tradeVars, storeVars
<1> QED
  BY <1>0, <1>1, <1>2, <1>3, <1>4, <1>5, <1>6, <1>7, <1>8, <1>9 DEF TradeNext, Crash, WatcherStep

LEMMA SaveNextInv == ASSUME TradeTypeOK, Down, SaveInv, [TradeNext]_allVars PROVE SaveInv'
<1>s. /\ "trader" \in Savers /\ "watcher" \in Savers /\ "autosave" \in Savers
      /\ "saved" \notin Saving /\ "failed" \notin Saving
  BY DEF Savers, Saving, Filling
<1>d. Dropped'
  BY DroppedStays DEF SaveInv
<1>1. CASE ~watched'
  BY <1>1, <1>d, UnwatchedOwes
\* The file may hold an older state: whatever is stored is due, and no save is under way.
<1>2. CASE Upsert
  <2>1. dirty' /\ ~Locked /\ UNCHANGED saver
    BY <1>2 DEF Upsert, Store
  <2> QED
    BY <1>d, <2>1 DEF SaveInv, SaveOwed, TmpOwed, Locked
<1>3. CASE TraderFlush \/ (TraderFlushed /\ ~Stop)
  <2>1. \/ saver' = [saver EXCEPT !["trader"] = "write"]
        \/ saver' = [saver EXCEPT !["trader"] = "idle"] /\ saver["trader"] = "saved"
    BY <1>3 DEF TraderFlush, TraderFlushed, BeginSave
  <2>2. UNCHANGED <<watched, dirty, file, tmp>>
    BY <1>3 DEF TraderFlush, TraderFlushed, storeVars
  <2> QED
    BY <1>d, <1>s, <2>1, <2>2, SaverOwed
<1>4. CASE AutosaveBegins \/ AutosaveEnds
  <2>1. \/ saver' = [saver EXCEPT !["autosave"] = "write"]
        \/ /\ saver' = [saver EXCEPT !["autosave"] = "idle"]
           /\ saver["autosave"] \in {"saved", "failed"}
           /\ dirty \/ saver["autosave"] = "failed" => dirty'
    BY <1>4 DEF AutosaveBegins, AutosaveEnds, BeginSave
  <2>2. UNCHANGED <<watched, file, tmp>>
    BY <1>4 DEF AutosaveBegins, AutosaveEnds
  <2> QED
    BY <1>d, <1>s, <2>1, <2>2, SaverOwed
<1>5. CASE Restart
  <2>1. ~up /\ watched' = (file = "watch") /\ UNCHANGED <<saver, file, tmp>>
    BY <1>5 DEF Restart
  <2>2. saver = Idle
    BY <2>1 DEF Down
  <2>3. \A s \in Savers : saver[s] = "idle"
    BY <2>2 DEF Idle
  <2> QED
    BY <1>d, <2>1, <2>3 DEF SaveInv, SaveOwed, TmpOwed, Saving, Filling
<1>6. ASSUME NEW s \in Savers, SaveStep(s) \/ WriteFails(s) PROVE SaveInv'
  BY <1>6, SaveStepOwed
\* All other steps leave the store and its savers alone.
<1>7. CASE UNCHANGED <<saver, storeVars>>
  BY <1>7, <1>d DEF SaveInv, SaveOwed, TmpOwed, OwedBesides, storeVars
<1>8. CASE TraderStep
  <2>1. CASE Stop \/ TraderRemoves
    BY <2>1, <1>1 DEF Stop, TraderRemoves, Store
  <2>2. CASE ~Stop /\ ~TraderRemoves
    BY <1>2, <1>3, <1>7, <1>8, <2>2 DEF TraderStep, TraderCreate, TraderFund, TraderReports, TraderHears,
                                        TraderOver
  <2> QED
    BY <2>1, <2>2
<1>9. CASE WatcherStep \/ RequestFails
  <2>1. CASE Drop
    BY <2>1, <1>1 DEF Drop, Store
  <2>2. CASE WatcherFlush \/ WatcherFlushed
    <3>1. ~watched'
      BY <2>2 DEF WatcherFlush, WatcherFlushed, WatcherAt, SaveInv, Dropped, storeVars
    <3> QED
      BY <3>1, <1>1
  <2>3. CASE Poll \/ ReadStatus \/ Judge \/ WatcherCancel \/ RequestFails
    <3>1. UNCHANGED <<saver, storeVars>>
      BY <2>3 DEF Poll, ReadStatus, Judge, WatcherCancel, RequestFails
    <3> QED
      BY <3>1, <1>7
  <2> QED
    BY <1>9, <2>1, <2>2, <2>3 DEF WatcherStep
<1>10. CASE Crash
  BY <1>10, <1>1 DEF Crash, Stop
<1>11. CASE DeskStep \/ Commit \/ Time \/ Outsider \/ UNCHANGED allVars
  <2>1. UNCHANGED <<saver, storeVars>>
    BY <1>11, DeskTyped DEF Commit, Time, Outsider, allVars, tradeVars
  <2> QED
    BY <2>1, <1>7
<1> QED
  BY <1>4, <1>5, <1>6, <1>8, <1>9, <1>10, <1>11 DEF TradeNext

\* However the three tasks' saves overlap in the one temporary file, tear or remove
\* the file, fail or are cut short by a crash: while the watch is in memory and not
\* in the file, a save is under way or due.
THEOREM SavesAreOwed == TradeSpec => []SaveOwed
<1>1. TradeInit => TradeTypeOK /\ Down /\ SaveInv
  BY TradeInitTyped, DownInit, SaveInitInv
<1>2. TradeTypeOK /\ Down /\ SaveInv /\ [TradeNext]_allVars => (TradeTypeOK /\ Down /\ SaveInv)'
  BY TradeTyped, DownStays, SaveNextInv
<1>3. SaveInv => SaveOwed
  BY DEF SaveInv
<1> QED
  BY <1>1, <1>2, <1>3, PTL DEF TradeSpec
=============================================================================
