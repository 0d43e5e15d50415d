--------------------------- MODULE StockRecovery ---------------------------
(***************************************************************************)
(* One reservation from the heap row it stages to the row recovery finds.  *)
(* V0InventoryRecoverableRuntime (crates/andromeda-inventory-demo) stages  *)
(* the next stock row in a heap page, the local dispatcher of              *)
(* crates/andromeda-exec logs begin, row and commit and flushes, and only  *)
(* then the row is published.  After a crash crates/andromeda-recovery     *)
(* plans which records to redo and replays them, checking the chain of     *)
(* page LSNs, from an empty page or from a page of a snapshot, as the      *)
(* manifest says that the root pointer names (RootPointer).                *)
(*                                                                         *)
(* The WAL is any log with durable prefixes (DurableLog; FileWal           *)
(* implements it).  A row is the quantity it holds, slots are numbered     *)
(* from 1, and contract bindings, page sizes and frames are left out.      *)
(***************************************************************************)
EXTENDS Integers, Sequences, Functions

CONSTANTS Stock,          \* the quantity in the first cold snapshot
          Quantity,       \* the quantities reserved
          MaxTx,          \* bound: the largest transaction id
          MaxCrashes      \* bound

ASSUME StockAssumption == /\ Stock \in Nat /\ Quantity \subseteq Nat \ {0}
                          /\ MaxTx \in Nat /\ MaxCrashes \in Nat

VARIABLES log, durable,   \* the WAL
          mode,           \* "open", "down", "recovered", or "refused" by recovery
          store,          \* HeapInventoryProductStockStore
          call,           \* the invocation that borrows the runtime
          last_tx,        \* the last transaction id issued
          pointer, synced, \* the root pointer: the manifests named by the two files
          recovered,      \* the heap page of the replay context
          reserved,       \* history: what each transaction reserves
          effective,      \* history: the transactions behind the visible stock
          late,           \* history: an invocation failed after its commit was appended
          reseeded,       \* history: a store was built anew over a log with its rows
          published,      \* history: the generation of the last manifest published
          unsettled,      \* history: a manifest was written over one not known to be synced
          crashes

walVars == <<log, durable>>
rootVars == <<pointer, synced, published, unsettled>>
history == <<reserved, effective, late, reseeded, crashes>>
vars == <<walVars, mode, store, call, last_tx, rootVars, recovered, history>>

Tx == 1 .. MaxTx
Deleted == -1
Row == 0 .. Stock

LogRecord ==
  [kind : {"TxBegin", "TxCommit", "TxRollback"}, tx : Tx]
    \cup [kind : {"RowInsert"}, tx : Tx, slot : Nat, tuple : Row, expected_previous_page_lsn : Nat]

Wal == INSTANCE DurableLog WITH Record <- LogRecord

Root == INSTANCE RootPointer

\* What the root pointer names: the redo start and the page of the snapshot.
manifest == Root!read_root_pointer(pointer)
NoManifest == manifest = Root!None

NoCall == [kind |-> "None"]

Total(transactions) == SumFunctionOnSet(reserved, transactions)

-----------------------------------------------------------------------------
(* The heap-backed store.                                                  *)

from_cold_snapshot(stock) ==
  [page |-> <<stock>>, visible_slot_id |-> 1, page_lsn |-> 0, prepared |-> 0]

visible_stock == store.page[store.visible_slot_id]

\* The first deleted slot is taken again, and otherwise a new one.
allocate_slot(page) ==
  IF \E s \in DOMAIN page : page[s] = Deleted
  THEN CHOOSE s \in DOMAIN page : page[s] = Deleted /\ \A t \in 1 .. s - 1 : page[t] # Deleted
  ELSE Len(page) + 1

insert_product_stock(page, row) ==
  LET slot == allocate_slot(page)
  IN  IF slot > Len(page) THEN Append(page, row) ELSE [page EXCEPT ![slot] = row]

\* The insert the prepared row will have been, once the log gives it an LSN.
prepared_reserve_stock_redo_template(tx) ==
  [kind |-> "RowInsert", tx |-> tx, slot |-> store.prepared, tuple |-> store.page[store.prepared],
   expected_previous_page_lsn |-> store.page_lsn]

abort_prepared_reserve_stock ==
  store' = IF store.prepared = 0 THEN store
           ELSE [store EXCEPT !.page[store.prepared] = Deleted, !.prepared = 0]

\* Mutant: the page LSN is left at the record before.
PublishKeepsPageLsn(redo_record_lsn) ==
  store' = [store EXCEPT !.visible_slot_id = store.prepared, !.prepared = 0]

publish_committed_reserve_stock_with_redo(redo_record_lsn) ==
  /\ redo_record_lsn > store.page_lsn
  /\ store' = [store EXCEPT !.visible_slot_id = store.prepared,
                            !.page_lsn = redo_record_lsn,
                            !.prepared = 0]

-----------------------------------------------------------------------------
(* One invocation at a time: the runtime is borrowed mutably.              *)

Begin(kind) ==
  /\ mode = "open" /\ call = NoCall
  /\ last_tx < MaxTx
  /\ last_tx' = last_tx + 1
  /\ call' = [kind |-> kind, tx |-> last_tx', step |-> "begun"]
  /\ UNCHANGED <<walVars, mode, rootVars, recovered, effective, late, reseeded, crashes>>

\* prepare_reserve_stock and the admission of the transaction.
prepare_reserve_stock(quantity) ==
  /\ store.prepared = 0
  /\ visible_stock >= quantity
  /\ Begin("reserve")
  /\ store' = [store EXCEPT !.page = insert_product_stock(store.page, visible_stock - quantity),
                            !.prepared = allocate_slot(store.page)]
  /\ reserved' = [reserved EXCEPT ![last_tx'] = quantity]

\* An invocation whose business rule failed: nothing is staged.
rollback_after_admission ==
  /\ Begin("rollback")
  /\ reserved' = [reserved EXCEPT ![last_tx'] = 0]
  /\ UNCHANGED store

LogStep(kind, step, next, record) ==
  /\ call # NoCall
  /\ call.kind \in kind /\ call.step = step
  /\ Wal!AppendRecord(record)
  /\ call' = [call EXCEPT !.step = next]
  /\ UNCHANGED <<mode, store, last_tx, rootVars, recovered, history>>

append_begin ==
  LogStep({"reserve", "rollback"}, "begun", "logged", [kind |-> "TxBegin", tx |-> call.tx])

append_mutation ==
  LogStep({"reserve"}, "logged", "written",
          prepared_reserve_stock_redo_template(call.tx))

append_commit ==
  LogStep({"reserve"}, "written", "ended", [kind |-> "TxCommit", tx |-> call.tx])

append_rollback ==
  LogStep({"rollback"}, "logged", "ended", [kind |-> "TxRollback", tx |-> call.tx])

\* Mutant: what the flush reached is not compared with the commit record.
AnyEvidence(durable_lsn) == TRUE

\* WalDurabilityEvidence::validate: the last record of the call is its terminal one.
EvidenceCovers(durable_lsn) == durable_lsn >= Len(log)

\* An append or the flush fails, or falls short, and the staged row is given up.
InvocationFails(lsn) ==
  /\ call.kind \in {"reserve", "rollback"} /\ call.step # "durable"
  /\ lsn \in durable .. Len(log)
  /\ lsn # durable => call.step = "ended"
  /\ Wal!Flush(lsn)
  /\ abort_prepared_reserve_stock
  /\ call' = NoCall
  /\ late' = (late \/ (call.kind = "reserve" /\ call.step = "ended"))
  /\ UNCHANGED <<mode, last_tx, rootVars, recovered, reserved, effective, reseeded, crashes>>

flush_through(lsn) ==
  /\ call # NoCall /\ call.step = "ended"
  /\ lsn \in durable .. Len(log)
  /\ EvidenceCovers(lsn)
  /\ Wal!Flush(lsn)
  /\ call' = [call EXCEPT !.step = "durable"]
  /\ UNCHANGED <<mode, store, last_tx, rootVars, recovered, history>>

Complete ==
  /\ call # NoCall /\ call.step = "durable"
  /\ call' = NoCall
  /\ IF call.kind = "reserve"
     THEN /\ publish_committed_reserve_stock_with_redo(Len(log) - 1)
          /\ effective' = effective \cup {call.tx}
     ELSE UNCHANGED <<store, effective>>
  /\ UNCHANGED <<walVars, mode, last_tx, rootVars, recovered, reserved, late, reseeded, crashes>>

\* execute_encoded_inventory_reserve_stock: the caller hands over the stock it has
\* observed, and the invocation works on a store of its own.
ObservedStock ==
  /\ mode = "open" /\ call = NoCall
  /\ store.page_lsn # 0
  /\ store' = from_cold_snapshot(visible_stock)
  /\ reseeded' = TRUE
  /\ UNCHANGED <<walVars, mode, call, last_tx, rootVars, recovered, reserved, effective, late, crashes>>

-----------------------------------------------------------------------------
(* Checkpoints and crashes.                                                *)

LiveSlots(page) == {s \in DOMAIN page : page[s] # Deleted}

\* A snapshot of the page between two invocations; redo starts at a record that the
\* log has, at or after the checkpoint.  Its manifest gets the next generation.
NextManifest(start) ==
  [generation |-> manifest.generation + 1,
   required_wal_start_lsn |-> start,
   page |-> [page_lsn |-> store.page_lsn,
             slots |-> [s \in LiveSlots(store.page) |-> store.page[s]]]]

\* write_root_pointer reads both files, and truncates and writes the inactive one;
\* a write that fails leaves it cut short.
Checkpoint(start) ==
  /\ mode = "open" /\ call = NoCall
  /\ store.page_lsn > manifest.page.page_lsn
  /\ start \in store.page_lsn .. durable
  /\ \/ /\ Root!WritePointerFile(Root!InactiveFile, NextManifest(start))
        /\ call' = [kind |-> "checkpoint", step |-> "written", file |-> Root!InactiveFile]
     \/ /\ Root!WritePointerFile(Root!InactiveFile, Root!None)
        /\ UNCHANGED call
  /\ unsettled' = (unsettled \/ ~ \E f \in Root!File : pointer[f] = manifest /\ synced[f] = manifest)
  /\ UNCHANGED <<walVars, mode, store, last_tx, published, recovered, history>>

\* It syncs the file and returns, or the sync fails.
PublishManifest ==
  /\ call.kind = "checkpoint"
  /\ call' = NoCall
  /\ \/ /\ Root!fsync_pointer_file(call.file)
        /\ published' = pointer[call.file].generation
     \/ UNCHANGED <<pointer, synced, published>>
  /\ UNCHANGED <<walVars, mode, store, last_tx, unsettled, recovered, history>>

Crash(lsn) ==
  /\ mode = "open"
  /\ crashes < MaxCrashes
  /\ lsn \in durable .. Len(log)
  /\ Wal!Crash(lsn)
  /\ Root!PointerCrash
  /\ mode' = "down" /\ call' = NoCall
  /\ store' = from_cold_snapshot(0)
  /\ crashes' = crashes + 1
  /\ UNCHANGED <<last_tx, published, unsettled, recovered, reserved, effective, late, reseeded>>

-----------------------------------------------------------------------------
(* The redo plan and its replay.                                           *)

NoPage == [page_lsn |-> 0, slots |-> <<>>]
Refused == [page_lsn |-> -1, slots |-> <<>>]

Logged(kind, tx) == \E i \in DOMAIN log : log[i].kind = kind /\ log[i].tx = tx

summarize_transaction(tx) ==
  CASE Logged("TxBegin", tx) /\ Logged("TxCommit", tx) /\ ~ Logged("TxRollback", tx) -> "Committed"
    [] Logged("TxBegin", tx) /\ ~ Logged("TxCommit", tx) /\ Logged("TxRollback", tx) -> "RolledBack"
    [] Logged("TxBegin", tx) /\ ~ Logged("TxCommit", tx) /\ ~ Logged("TxRollback", tx) -> "Open"
    [] OTHER -> "Incomplete"

\* Whether the record at this LSN is replayed.
redo_decision_for_record(lsn) ==
  /\ lsn >= manifest.required_wal_start_lsn
  /\ log[lsn].kind = "RowInsert"
  /\ summarize_transaction(log[lsn].tx) = "Committed"

\* With a start of 0 the log may be empty; otherwise it has to hold the start.
validate_wal_coverage == Len(log) >= manifest.required_wal_start_lsn

validate_conflicting_terminal_records ==
  \A i, j \in DOMAIN log : 
    log[i].tx = log[j].tx /\ {log[i].kind, log[j].kind} \subseteq {"TxCommit", "TxRollback"} => i = j

\* Mutant: the record is only asked to be newer than the page.
NewerIsEnough(page, lsn) == page.page_lsn <= lsn

validate_lsn_transition(page, lsn) ==
  \/ page.page_lsn = lsn
  \/ page.page_lsn < lsn /\ page.page_lsn = log[lsn].expected_previous_page_lsn

apply_insert(page, lsn) ==
  LET slot == log[lsn].slot
  IN  IF \/ page = Refused
         \/ ~ validate_lsn_transition(page, lsn)
         \/ slot \in DOMAIN page.slots /\ page.slots[slot] # log[lsn].tuple
      THEN Refused
      ELSE [page_lsn |-> lsn,
            slots |-> [s \in DOMAIN page.slots \cup {slot} |->
                        IF s = slot THEN log[lsn].tuple ELSE page.slots[s]]]

\* In the order of the log, from the page of the snapshot.
execute_redo_plan(base) ==
  LET redone[lsn \in Nat] ==
        IF lsn = 0 THEN base
        ELSE IF redo_decision_for_record(lsn) THEN apply_insert(redone[lsn - 1], lsn)
        ELSE redone[lsn - 1]
  IN  redone[Len(log)]

replay_wal_from_lsn_into_context ==
  /\ mode = "down"
  /\ recovered' = IF ~ NoManifest /\ validate_wal_coverage /\ validate_conflicting_terminal_records
                  THEN execute_redo_plan(manifest.page)
                  ELSE Refused
  /\ mode' = IF recovered' = Refused THEN "refused" ELSE "recovered"
  /\ UNCHANGED <<walVars, store, call, last_tx, rootVars, history>>

\* The newest row of the recovered page is in its last slot.
RecoveredStock ==
  LET slots == DOMAIN recovered.slots
  IN  IF slots = {} THEN Stock
      ELSE recovered.slots[CHOOSE s \in slots : \A t \in slots : t <= s]

\* The transactions that a recovery from this manifest takes for committed.
CommittedSinceStart ==
  {tx \in Tx : \E i, j \in DOMAIN log : /\ i >= manifest.required_wal_start_lsn
                                        /\ log[i].kind = "RowInsert" /\ log[i].tx = tx
                                        /\ log[j].kind = "TxCommit" /\ log[j].tx = tx}

recovered_transaction_id_floor ==
  LET ids == {log[i].tx : i \in DOMAIN log}
  IN  IF ids = {} THEN 0 ELSE CHOOSE tx \in ids : \A other \in ids : other <= tx

\* The store is built again from what was recovered, and the ids go on from the log.
Restart ==
  /\ mode = "recovered"
  /\ mode' = "open"
  /\ store' = from_cold_snapshot(RecoveredStock)
  /\ last_tx' = recovered_transaction_id_floor
  /\ effective' = effective \cup CommittedSinceStart
  /\ reseeded' = (reseeded \/ recovered.page_lsn # 0)
  /\ recovered' = NoPage
  /\ UNCHANGED <<walVars, call, rootVars, reserved, late, crashes>>

-----------------------------------------------------------------------------
Init ==
  /\ Wal!Init
  /\ mode = "open"
  /\ store = from_cold_snapshot(Stock)
  /\ call = NoCall
  /\ last_tx = 0
  /\ \E start \in {0, 1} :
       pointer = [f \in Root!File |->
                   IF f = "manifest_root_a"
                   THEN [generation |-> 1, required_wal_start_lsn |-> start, page |-> NoPage]
                   ELSE Root!None]
  /\ synced = pointer
  /\ published = 1 /\ unsettled = FALSE
  /\ recovered = NoPage
  /\ reserved = [tx \in Tx |-> 0]
  /\ effective = {}
  /\ late = FALSE /\ reseeded = FALSE /\ crashes = 0

Lsn == 0 .. Len(log)

Next ==
  \/ \E quantity \in Quantity : prepare_reserve_stock(quantity)
  \/ rollback_after_admission
  \/ append_begin \/ append_mutation \/ append_commit \/ append_rollback
  \/ \E lsn \in Lsn : flush_through(lsn) \/ InvocationFails(lsn)
  \/ Complete
  \/ ObservedStock
  \/ \E lsn \in Lsn : Checkpoint(lsn) \/ Crash(lsn)
  \/ PublishManifest
  \/ replay_wal_from_lsn_into_context
  \/ Restart

Spec == Init /\ [][Next]_vars

-----------------------------------------------------------------------------
\* The row a reader of the store sees is what the reservations made known to callers
\* leave of the stock, and a crash at this moment would not take one of them away: the
\* row is staged before the log is written and published after, and failures, restarts
\* and new stores come in between.
PublishedIsDurable ==
  mode = "open" =>
    /\ visible_stock = Stock - Total(effective)
    /\ \A tx \in effective : \E i \in 1 .. durable : log[i].kind = "TxCommit" /\ log[i].tx = tx

\* A recovery that succeeds counts every reservation once: the newest recovered row is
\* what the reservations behind the stock before the crash, and those committed in the
\* log that the plan starts from, leave.  No failed invocation whose commit was flushed
\* later, no row of an unfinished one and no snapshot makes it lose or repeat one.
StockAddsUp ==
  mode = "recovered" => RecoveredStock = Stock - Total(effective \cup CommittedSinceStart)

\* Recovery refuses a log of this runtime for these reasons only: no root pointer is
\* left, the manifest names a start the log does not reach, an invocation failed after
\* its commit record was appended, or a store was built anew over a log that already has
\* rows of the page.  Crashes, failed appends, rollbacks and checkpoints alone never lead
\* there.
RefusedOnlyAfterLateFailure ==
  mode = "refused" => late \/ reseeded \/ NoManifest \/ ~ validate_wal_coverage

\* A manifest that was published is the one startup finds, or a later one, whatever
\* stops between writing a pointer and syncing it.  The exception is a write while the
\* newest record, left by a write that failed or was cut off, is not synced itself:
\* then the file that is written over is the only safe one.
PublishedManifestSurvives ==
  unsettled \/ manifest.generation >= published

\* "Recovery must reconstruct heap state from durable WAL and durable pages only" (the
\* README of andromeda-storage-heap): as long as one store is used on a log that reaches
\* the start, recovery succeeds, also after an invocation that reported an error.
CommittedIsReconstructed ==
  mode = "refused" => reseeded \/ NoManifest \/ ~ validate_wal_coverage
=============================================================================
