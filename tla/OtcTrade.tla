------------------------------ MODULE OtcTrade ------------------------------
(***************************************************************************)
(* One trade between a trader (party A) and a desk (party B) around the    *)
(* escrow program: the trader's process with its main task, the store of   *)
(* watched escrows, the store's autosave task and the watcher that cancels *)
(* an expired escrow, and the desk's settlement task.  The trader may      *)
(* crash at any point and is then started again with --watch-only, which   *)
(* loads the store's file.                                                 *)
(*                                                                         *)
(* The transactions are the instructions of OtcEscrow, one each.  Messages *)
(* only say when to look at the chain, and either side looks at any time;  *)
(* but for the one that says Settled, which the trader believes.  The      *)
(* store holds one watch; what it says is left out.                        *)
(***************************************************************************)
EXTENDS OtcEscrow

CONSTANTS MaxCrashes,  \* bound on crashes of the trader
          MaxFailures  \* bound on failed requests and failed writes

ASSUME TradeAssumption == MaxCrashes \in Nat /\ MaxFailures \in Nat

VARIABLES
  up,        \* the trader's process runs
  trader,    \* where its main task is
  watcher,   \* where spawn_otc_auto_cancel_watcher is
  saver,     \* where a task is inside save_to_file
  watched,   \* the store's map holds the watch
  dirty,     \* the autosave task has something to save
  file, tmp, \* the store's file and its temporary file: "none", or what it holds;
             \* "torn" when it is truncated and not yet written
  desk,      \* where process_desk_accept is
  crashes, failures,
  misled,    \* history: a message made the trader drop the watch of an open escrow
  lost       \* history: the trader stopped when its watch was not in the file

storeVars == <<watched, dirty, file, tmp>>
history == <<misled, lost>>
tradeVars == <<up, trader, watcher, saver, storeVars, desk, crashes, failures, history>>
allVars == <<vars, tradeVars>>

Savers == {"trader", "watcher", "autosave"}
Filling == {"fill", "fillfile", "fillgone"}   \* the file that was truncated is tmp, file, or gone
Saving == {"write", "rename", "remove", "again"} \cup Filling
Idle == [s \in Savers |-> "idle"]

TradeInit ==
  /\ Init
  /\ up = TRUE /\ trader = "accept" /\ watcher = "poll" /\ saver = Idle
  /\ watched = FALSE /\ dirty = FALSE /\ file = "none" /\ tmp = "none"
  /\ desk = "idle" /\ crashes = 0 /\ failures = 0 /\ misled = FALSE /\ lost = FALSE

\* An exit, wanted or not: what was only in memory is gone.
Stop ==
  /\ up' = FALSE /\ trader' = "stopped" /\ watcher' = "poll" /\ saver' = Idle
  /\ watched' = FALSE /\ dirty' = FALSE
  /\ lost' = (lost \/ (watched /\ file # "watch"))
  /\ UNCHANGED <<file, tmp, misled>>

-----------------------------------------------------------------------------
(* The store.                                                              *)

\* save_to_file keeps the map's read lock to its end.
Locked == \E s \in Savers : saver[s] \in Saving
Saved == IF watched THEN "watch" ELSE "empty"

BeginSave(s) == saver' = [saver EXCEPT ![s] = "write"]

\* All tasks write the same temporary file, which is truncated first ...
Truncate(s) ==
  /\ saver[s] = "write"
  /\ tmp' = "torn" /\ saver' = [saver EXCEPT ![s] = "fill"]
  /\ UNCHANGED file

\* ... and then filled, whatever name it has by then.
Fill(s) ==
  /\ saver[s] \in Filling
  /\ tmp' = IF saver[s] = "fill" THEN Saved ELSE tmp
  /\ file' = IF saver[s] = "fillfile" THEN Saved ELSE file
  /\ saver' = [saver EXCEPT ![s] = "rename"]

\* The disk may refuse a write, also when the file is truncated.
WriteFails(s) ==
  /\ up /\ saver[s] \in {"write"} \cup Filling
  /\ failures < MaxFailures /\ failures' = failures + 1
  /\ saver' = [saver EXCEPT ![s] = "failed"]
  /\ UNCHANGED <<vars, up, trader, watcher, storeVars, desk, crashes, history>>

\* What a task has open when the files change their names.
Renamed(place) == CASE place = "fill" -> "fillfile" [] place = "fillfile" -> "fillgone"
                    [] OTHER -> place
Removed(place) == IF place = "fillfile" THEN "fillgone" ELSE place

Rename(s, otherwise) ==
  IF tmp # "none"
  THEN /\ file' = tmp /\ tmp' = "none"
       /\ saver' = [q \in Savers |-> IF q = s THEN "saved" ELSE Renamed(saver[q])]
  ELSE UNCHANGED <<file, tmp>> /\ saver' = [saver EXCEPT ![s] = otherwise]

FirstRename(s) == saver[s] = "rename" /\ Rename(s, "remove")

\* The rename failed: the file is removed, and the rename tried again.
RemoveFile(s) ==
  /\ saver[s] = "remove"
  /\ file' = "none"
  /\ saver' = [q \in Savers |-> IF q = s THEN "again" ELSE Removed(saver[q])]
  /\ UNCHANGED tmp

SecondRename(s) == saver[s] = "again" /\ Rename(s, "failed")

SaveStep(s) ==
  /\ up
  /\ Truncate(s) \/ Fill(s) \/ FirstRename(s) \/ RemoveFile(s) \/ SecondRename(s)
  /\ UNCHANGED <<vars, up, trader, watcher, watched, dirty, desk, crashes, failures, history>>

\* upsert and remove wait for the map's write lock and mark the store dirty.
Store(entry) == ~Locked /\ watched' = entry /\ dirty' = TRUE /\ UNCHANGED <<file, tmp>>

\* run_autosave: a tick or a notification finds the store dirty ...
AutosaveBegins ==
  /\ up /\ saver["autosave"] = "idle" /\ dirty
  /\ dirty' = FALSE /\ BeginSave("autosave")
  /\ UNCHANGED <<vars, up, trader, watcher, watched, file, tmp, desk, crashes, failures, history>>

\* Mutant: a failed save is not tried again.
AutosaveForgets ==
  /\ up /\ saver["autosave"] \in {"saved", "failed"}
  /\ saver' = [saver EXCEPT !["autosave"] = "idle"]
  /\ UNCHANGED <<vars, up, trader, watcher, storeVars, desk, crashes, failures, history>>

\* ... and a failed save leaves it dirty.
AutosaveEnds ==
  /\ up /\ saver["autosave"] \in {"saved", "failed"}
  /\ dirty' = (dirty \/ saver["autosave"] = "failed")
  /\ saver' = [saver EXCEPT !["autosave"] = "idle"]
  /\ UNCHANGED <<vars, up, trader, watcher, watched, file, tmp, desk, crashes, failures, history>>

-----------------------------------------------------------------------------
(* The chain, as the two processes find it.                                *)

\* A funding, or a cancellation, would succeed.
CanFund(p) ==
  /\ escrow # "absent" /\ receipt = "open" /\ now <= terms.expiry /\ ~funded[p]
  /\ funded[Other(p)] => Settled(Deposited(p)).ok
CanCancel == /\ escrow # "absent" /\ receipt = "open"
             /\ \E p \in Parties : ~funded[p]
             /\ Refunded(Holdings).ok

-----------------------------------------------------------------------------
(* The trader's main task, after it accepted a quote.                      *)

Upsert ==
  /\ up /\ trader = "accept"
  /\ Store(TRUE) /\ trader' = "flush"
  /\ UNCHANGED <<vars, up, watcher, saver, desk, crashes, failures, history>>

\* flush, before the escrow is created or after the watch was removed.
TraderFlush ==
  /\ up /\ trader \in {"flush", "lastflush"} /\ saver["trader"] = "idle"
  /\ BeginSave("trader")
  /\ UNCHANGED <<vars, up, trader, watcher, storeVars, desk, crashes, failures, history>>

\* A flush that fails ends the process, and so does the last one.
TraderFlushed ==
  /\ up /\ saver["trader"] \in {"saved", "failed"}
  /\ IF saver["trader"] = "failed" \/ trader = "lastflush"
     THEN Stop
     ELSE /\ trader' = "create" /\ saver' = [saver EXCEPT !["trader"] = "idle"]
          /\ UNCHANGED <<up, watcher, storeVars, history>>
  /\ UNCHANGED <<vars, desk, crashes, failures>>

\* The escrow is created unless it is there; the process ends if neither works.
TraderCreate ==
  /\ up /\ trader = "create"
  /\ \/ /\ CreateEscrow("A", terms) /\ trader' = "fund"
        /\ UNCHANGED <<up, watcher, saver, storeVars, history>>
     \/ /\ escrow = "live" /\ trader' = "fund"
        /\ UNCHANGED <<vars, up, watcher, saver, storeVars, history>>
     \/ escrow = "absent" /\ receipt \in {"settled", "cancelled"} /\ Stop /\ UNCHANGED vars
  /\ UNCHANGED <<desk, crashes, failures>>

TraderFund ==
  /\ up /\ trader = "fund"
  /\ \/ /\ Fund("A") /\ trader' = "funded"
        /\ UNCHANGED <<up, watcher, saver, storeVars, history>>
     \/ ~CanFund("A") /\ Stop /\ UNCHANGED vars
  /\ UNCHANGED <<desk, crashes, failures>>

\* await_escrow_closed: an escrow that is closed at once ends the process, which
\* leaves the watch.
TraderReports ==
  /\ up /\ trader = "funded"
  /\ \/ escrow # "live" /\ Stop
     \/ trader' = "listen" /\ UNCHANGED <<up, watcher, saver, storeVars, history>>
  /\ UNCHANGED <<vars, desk, crashes, failures>>

\* The watch is removed, and the process about to end.
TraderRemoves ==
  Store(FALSE) /\ trader' = "lastflush" /\ UNCHANGED <<up, watcher, saver, lost>>

\* wait_for_settled_notification: a signed Settled for this deal, whoever signed
\* it, is believed, and the chain is not looked at; or the wait ends.
TraderHears ==
  /\ up /\ trader = "listen"
  /\ \/ TraderRemoves /\ misled' = (misled \/ receipt = "open")
     \/ trader' = "wait" /\ UNCHANGED <<up, watcher, saver, storeVars, history>>
  /\ UNCHANGED <<vars, desk, crashes, failures>>

\* The receipt is over.
TraderOver ==
  /\ up /\ trader = "wait" /\ receipt \in {"settled", "cancelled"}
  /\ TraderRemoves
  /\ UNCHANGED <<vars, desk, crashes, failures, misled>>

Crash ==
  /\ up /\ crashes < MaxCrashes
  /\ crashes' = crashes + 1 /\ Stop
  /\ UNCHANGED <<vars, desk, failures>>

\* Mutant: the file is not loaded.
RestartEmpty ==
  /\ ~up
  /\ up' = TRUE
  /\ UNCHANGED <<vars, trader, watcher, saver, watched, dirty, file, tmp, desk, crashes, failures, history>>

\* --watch-only: the store is loaded and the watcher runs.  A file that does not
\* parse is not loaded, and the process ends at once.
Restart ==
  /\ ~up /\ file # "torn"
  /\ up' = TRUE /\ watched' = (file = "watch")
  /\ UNCHANGED <<vars, trader, watcher, saver, dirty, file, tmp, desk, crashes, failures, history>>

-----------------------------------------------------------------------------
(* The watcher.                                                            *)

WatcherAt(from, to) ==
  /\ up /\ watcher = from /\ watcher' = to
  /\ UNCHANGED <<up, trader, desk, crashes, history>>

Poll == WatcherAt("poll", "read") /\ watched /\ UNCHANGED <<vars, saver, storeVars, failures>>

\* A request to the node may fail: the watch is looked at again later.
RequestFails ==
  /\ failures < MaxFailures /\ failures' = failures + 1
  /\ \E from \in {"read", "cancel"} : WatcherAt(from, "poll")
  /\ UNCHANGED <<vars, saver, storeVars>>

\* Mutant: a settled escrow stays in the store.
ReadStatusKeeps ==
  /\ \/ receipt \in {"none", "cancelled"} /\ WatcherAt("read", "drop")
     \/ receipt = "settled" /\ WatcherAt("read", "poll")
     \/ receipt = "open" /\ WatcherAt("read", "judge")
  /\ UNCHANGED <<vars, saver, storeVars, failures>>

\* A watch whose receipt is over, or missing, is dropped.
ReadStatus ==
  /\ \/ receipt # "open" /\ WatcherAt("read", "drop")
     \/ receipt = "open" /\ WatcherAt("read", "judge")
  /\ UNCHANGED <<vars, saver, storeVars, failures>>

Drop == WatcherAt("drop", "flush") /\ Store(FALSE) /\ UNCHANGED <<vars, saver, failures>>

WatcherFlush ==
  /\ saver["watcher"] = "idle" /\ BeginSave("watcher") /\ WatcherAt("flush", "flushing")
  /\ UNCHANGED <<vars, storeVars, failures>>

\* The outcome of its flush is ignored.
WatcherFlushed ==
  /\ saver["watcher"] \in {"saved", "failed"} /\ WatcherAt("flushing", "poll")
  /\ saver' = [saver EXCEPT !["watcher"] = "idle"]
  /\ UNCHANGED <<vars, storeVars, failures>>

Judge ==
  /\ \/ now <= terms.expiry /\ WatcherAt("judge", "poll")
     \/ now > terms.expiry /\ WatcherAt("judge", "cancel")
  /\ UNCHANGED <<vars, saver, storeVars, failures>>

\* A cancellation that comes too late fails; either way the watcher polls again.
WatcherCancel ==
  /\ WatcherAt("cancel", "poll")
  /\ Cancel \/ (~CanCancel /\ UNCHANGED vars)
  /\ UNCHANGED <<saver, storeVars, failures>>

-----------------------------------------------------------------------------
(* The desk: process_desk_accept, one at a time for a quote.               *)

DeskAt(from, to) ==
  /\ desk = from /\ desk' = to
  /\ UNCHANGED <<up, trader, watcher, saver, storeVars, crashes, failures, history>>

\* An accept, a report or the reconcile tick.  The receipt must not be over, if
\* it can be read.
DeskBegins ==
  /\ desk = "idle" /\ desk' = "look"
  /\ \/ receipt \in {"none", "open"} /\ UNCHANGED failures
     \/ failures < MaxFailures /\ failures' = failures + 1
  /\ UNCHANGED <<vars, up, trader, watcher, saver, storeVars, crashes, history>>

\* What the desk sees decides what it does next.  It funds after the trader.
DeskLooks ==
  /\ \/ escrow # "live" /\ DeskAt("look", "create")
     \/ escrow = "live" /\ funded["A"] /\ ~funded["B"] /\ now <= terms.expiry
        /\ DeskAt("look", "fund")
     \/ escrow = "live" /\ (~funded["A"] \/ funded["B"] \/ now > terms.expiry)
        /\ DeskAt("look", "idle")
  /\ UNCHANGED vars

\* Mutant: the desk funds an escrow it has just created.
DeskCreatesAndFunds == CreateEscrow("B", terms) /\ DeskAt("create", "fund")

\* With create_escrow_if_missing.
DeskCreates == CreateEscrow("B", terms) /\ DeskAt("create", "look")

DeskFunds == Fund("B") /\ DeskAt("fund", "idle")

\* A request fails, or the desk stops: it begins again later.
DeskFails == \E from \in {"look", "create", "fund"} : DeskAt(from, "idle") /\ UNCHANGED vars

-----------------------------------------------------------------------------
\* A transaction is one instruction, and is seen when it has ended.
Commit == Purge /\ UNCHANGED tradeVars

Time == Tick /\ UNCHANGED tradeVars
Outsider == (\E m \in Mints : Stray(m)) /\ UNCHANGED tradeVars
WatcherStep == \/ Poll \/ ReadStatus \/ Drop \/ WatcherFlush \/ WatcherFlushed \/ Judge
               \/ WatcherCancel
TraderStep == \/ Upsert \/ TraderFlush \/ TraderFlushed \/ TraderCreate \/ TraderFund
              \/ TraderReports \/ TraderHears \/ TraderOver
DeskStep == DeskBegins \/ DeskLooks \/ DeskCreates \/ DeskFunds \/ DeskFails

TradeNext ==
  \/ Commit
  \/ /\ escrow # "closed"
     /\ \/ Time \/ Outsider \/ TraderStep \/ Crash \/ Restart
        \/ WatcherStep \/ RequestFails
        \/ AutosaveBegins \/ AutosaveEnds
        \/ \E s \in Savers : SaveStep(s) \/ WriteFails(s)
        \/ DeskStep

TradeSpec == TradeInit /\ [][TradeNext]_allVars

\* The trader's three tasks run, it is started again after a crash, transactions end
\* and time passes.  The desk need not do anything.
FairTradeSpec ==
  /\ TradeSpec
  /\ WF_allVars(Commit) /\ WF_allVars(Time) /\ WF_allVars(Restart)
  /\ WF_allVars(TraderStep \/ SaveStep("trader"))
  /\ WF_allVars(WatcherStep \/ SaveStep("watcher"))
  /\ WF_allVars(AutosaveBegins \/ AutosaveEnds \/ SaveStep("autosave"))

-----------------------------------------------------------------------------
(* Properties.                                                             *)

\* Each task is at one of its places, and a watcher's or a trader's save is
\* under way only while that task waits for it.
TradeTypeOK ==
  /\ trader \in {"accept", "flush", "create", "fund", "funded", "listen", "wait",
                "lastflush", "stopped"}
  /\ watcher \in {"poll", "read", "judge", "cancel", "drop", "flush", "flushing"}
  /\ saver \in [Savers -> Saving \cup {"idle", "saved", "failed"}]
  /\ desk \in {"idle", "look", "create", "fund"}
  /\ file \in {"none", "torn", "watch", "empty"} /\ tmp \in {"none", "torn", "watch", "empty"}
  /\ up \in BOOLEAN /\ watched \in BOOLEAN /\ dirty \in BOOLEAN
  /\ misled \in BOOLEAN /\ lost \in BOOLEAN
  /\ saver["watcher"] # "idle" => watcher = "flushing"
  /\ saver["trader"] # "idle" => trader \in {"flush", "lastflush"}

\* The desk's money is never left waiting in the escrow: though it funds on
\* what it read some time before, its funding settles or fails.
DeskNeverExposed == receipt = "open" => ~funded["B"]

\* The watch of an open escrow is in the memory of a trader that runs, whose watcher
\* has not found the receipt missing, or in the file of one that does not.
Stored ==
  receipt = "open" /\ IF up THEN watched /\ watcher # "drop" ELSE file = "watch"

\* What takes a stored watch from its escrow: a message that said Settled, and a stop
\* of the process before the watch was in the file, or while a save had removed or
\* torn it.
Forsaken == misled \/ lost

\* "... so we can safely resume after crashes": once the watch of an open
\* escrow is stored the escrow comes to an end, settled or refunded, though the
\* trader crashes at any point and the desk does nothing; unless the watch is
\* forsaken, or the escrow is stuck.
StoredMeansRefunded == Stored ~> receipt \in {"settled", "cancelled"} \/ Forsaken \/ Stuck

\* A watch that is not in the file will be: a save is under way, or due, also when
\* an overlapping one has just removed or torn the file.
SaveOwed ==
  watched /\ file # "watch" => dirty \/ \E s \in Savers : saver[s] \in Saving \cup {"failed"}

\* Every watch ends: at last neither the store nor its file holds one, so a
\* trader started again has nothing to do; unless its escrow is stuck.
EveryWatchEnds == <>[](Stuck \/ (~watched /\ file # "watch"))

\* "Persist a watch entry before funding so we can safely resume after
\* crashes.": what the trader has funded is watched, or in the file.
FundedIsStored == receipt = "open" /\ funded["A"] => watched \/ file = "watch"
=============================================================================
