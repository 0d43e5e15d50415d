----------------------------- MODULE CommitLog -----------------------------
(***************************************************************************)
(* The commit log of crates/andromeda-transaction-log on top of a durable  *)
(* log: terminal records are appended and flushed under one lifecycle      *)
(* lock, then published in memory, in an entry table and in the MVCC       *)
(* status table (crates/andromeda-mvcc, status.rs).  Readers repair the    *)
(* status table and garbage collection drops entries without that lock.    *)
(* After a crash the bridge of crates/andromeda-recovery maps the durable  *)
(* records to transactions, or refuses the whole log.                      *)
(*                                                                         *)
(* The WAL is any log with durable prefixes (DurableLog; FileWal           *)
(* implements it).  Payloads, timestamps and the evidence in entries       *)
(* other than the LSN of the record are left out.                          *)
(***************************************************************************)
EXTENDS Integers, Sequences

CONSTANTS Tx,
          MaxLsn          \* the largest LSN (u64::MAX)

ASSUME CommitLogAssumption == MaxLsn \in Nat

VARIABLES log, durable,   \* the WAL
          mode,           \* "open", "down", or "refused" by recovery
          entries,        \* commit_entries and rollback_entries: LSN of the record, or 0
          status,         \* the status table, "None" if it has no entry
          decision,       \* the call that holds lifecycle_lock
          acked           \* history: the outcome a caller was told, "None" if none

walVars == <<log, durable>>
vars == <<walVars, mode, entries, status, decision, acked>>

Kind == {"TxCommit", "TxRollback"}
LogRecord == [kind : Kind \cup {"TxBegin", "Other"}, tx : Tx]
Outcome(kind) == IF kind = "TxCommit" THEN "Committed" ELSE "RolledBack"
Opposite(kind) == IF kind = "TxCommit" THEN "TxRollback" ELSE "TxCommit"
Terminal == {"Committed", "RolledBack"}

Wal == INSTANCE DurableLog WITH Record <- LogRecord

NoDecision == [kind |-> "None"]
Decision == [kind : Kind, tx : Tx, lsn : 1 .. MaxLsn, step : {"appended", "flushed", "inserted"}]

Rec(kind, tx) == [kind |-> kind, tx |-> tx]
HasTerminal(tx) == \E i \in DOMAIN log : log[i].tx = tx /\ log[i].kind \in Kind

-----------------------------------------------------------------------------
(* The callers: ids are new to the log (the allocator is seeded from it),  *)
(* and no work is logged for a transaction once its end was tried.  The    *)
(* end may be tried again, after an error, a garbage collection or a crash *)
(* that left the transaction incomplete.                                   *)

append_tx_begin(tx) ==
  /\ mode = "open" /\ Len(log) < MaxLsn
  /\ \A i \in DOMAIN log : log[i].tx # tx
  /\ Wal!AppendRecord(Rec("TxBegin", tx))
  /\ UNCHANGED <<mode, entries, status, decision, acked>>

append_other(tx) ==
  /\ mode = "open" /\ Len(log) < MaxLsn
  /\ \E i \in DOMAIN log : log[i].tx = tx
  /\ ~ HasTerminal(tx)
  /\ Wal!AppendRecord(Rec("Other", tx))
  /\ UNCHANGED <<mode, entries, status, decision, acked>>

-----------------------------------------------------------------------------
(* TransactionStatusTable.                                                 *)

record_in_flight(tx) ==
  /\ mode = "open"
  /\ status[tx] \notin Terminal
  /\ status' = [status EXCEPT ![tx] = "InFlight"]
  /\ UNCHANGED <<walVars, mode, entries, decision, acked>>

\* An outcome replaces no other outcome.
record_validated_terminal_status(tx, outcome) ==
  /\ status[tx] \in {"None", "InFlight", outcome}
  /\ status' = [status EXCEPT ![tx] = outcome]

-----------------------------------------------------------------------------
(* record_commit and record_rollback.                                      *)

\* The entry is there: it is returned, and the status repaired.
ReturnExisting(kind, tx) ==
  /\ mode = "open" /\ decision = NoDecision
  /\ entries[kind][tx] # 0
  /\ record_validated_terminal_status(tx, Outcome(kind))
  /\ acked' = [acked EXCEPT ![tx] = Outcome(kind)]
  /\ UNCHANGED <<walVars, mode, entries, decision>>

\* Mutant: only the entries are looked at, not the status table.
RejectsByEntryOnly(kind, tx) == entries[Opposite(kind)][tx] # 0

\* reject_commit_after_rollback, reject_rollback_after_commit.
RejectedAfterOpposite(kind, tx) ==
  entries[Opposite(kind)][tx] # 0 \/ status[tx] = Outcome(Opposite(kind))

append(kind, tx) ==
  /\ mode = "open" /\ decision = NoDecision /\ Len(log) < MaxLsn
  /\ \E i \in DOMAIN log : log[i].tx = tx
  /\ entries[kind][tx] = 0
  /\ ~ RejectedAfterOpposite(kind, tx)
  /\ Wal!AppendRecord(Rec(kind, tx))
  /\ decision' = [kind |-> kind, tx |-> tx, lsn |-> Len(log) + 1, step |-> "appended"]
  /\ UNCHANGED <<mode, entries, status, acked>>

\* Mutant: a flush that ended early counts.
CoversAnything(durable_lsn, record_lsn) == durable_lsn > 0

validate_durable_flush_covers_record(durable_lsn, record_lsn) == durable_lsn >= record_lsn

flush_through(lsn) ==
  /\ decision # NoDecision
  /\ decision.step = "appended"
  /\ lsn \in durable .. Len(log)
  /\ validate_durable_flush_covers_record(lsn, decision.lsn)
  /\ Wal!Flush(lsn)
  /\ decision' = [decision EXCEPT !.step = "flushed"]
  /\ UNCHANGED <<mode, entries, status, acked>>

\* The flush fails, with some of the log on disk, or falls short.  The record stays in
\* the log.
FlushFails(lsn) ==
  /\ decision # NoDecision
  /\ decision.step = "appended"
  /\ lsn \in durable .. Len(log)
  /\ Wal!Flush(lsn)
  /\ decision' = NoDecision
  /\ UNCHANGED <<mode, entries, status, acked>>

InsertEntry ==
  /\ decision # NoDecision
  /\ decision.step = "flushed"
  /\ entries' = [entries EXCEPT ![decision.kind][decision.tx] = decision.lsn]
  /\ decision' = [decision EXCEPT !.step = "inserted"]
  /\ UNCHANGED <<walVars, mode, status, acked>>

Publish ==
  /\ decision # NoDecision
  /\ decision.step = "inserted"
  /\ record_validated_terminal_status(decision.tx, Outcome(decision.kind))
  /\ acked' = [acked EXCEPT ![decision.tx] = Outcome(decision.kind)]
  /\ decision' = NoDecision
  /\ UNCHANGED <<walVars, mode, entries>>

-----------------------------------------------------------------------------
(* Without the lifecycle lock.                                             *)

\* is_committed and is_rolled_back: a status that is missing is taken from an entry.
rebuild_status_for_transaction(kind, tx) ==
  /\ mode = "open"
  /\ status[tx] = "None"
  /\ entries[kind][tx] # 0 /\ entries[Opposite(kind)][tx] = 0
  /\ record_validated_terminal_status(tx, Outcome(kind))
  /\ UNCHANGED <<walVars, mode, entries, decision, acked>>

gc_remove(tx) ==
  /\ mode = "open"
  /\ entries["TxCommit"][tx] # 0
  /\ entries' = [entries EXCEPT !["TxCommit"][tx] = 0]
  /\ UNCHANGED <<walVars, mode, status, decision, acked>>

-----------------------------------------------------------------------------
(* Crash and recovery.                                                     *)

NoEntries == [kind \in Kind |-> [tx \in Tx |-> 0]]
NoStatus == [tx \in Tx |-> "None"]

Crash(lsn) ==
  /\ mode = "open"
  /\ mode' = "down"
  /\ lsn \in durable .. Len(log)
  /\ Wal!Crash(lsn)
  /\ entries' = NoEntries /\ status' = NoStatus /\ decision' = NoDecision
  /\ UNCHANGED acked

\* Mutant: a second terminal record is accepted.
AcceptsSecondTerminal(l) ==
  \A i \in DOMAIN l : l[i].kind # "TxBegin" => \E j \in 1 .. i - 1 : l[j] = Rec("TxBegin", l[i].tx)

\* Mutant: a transaction without a terminal record is refused as well.
RefusesIncomplete(l) ==
  \A i \in DOMAIN l : \E j \in DOMAIN l : l[j].tx = l[i].tx /\ l[j].kind \in Kind

\* map_tx_wal_replay_records: one begin, before everything else, and nothing after the
\* terminal record, not even a record that repeats it at another LSN.
map_tx_wal_replay_records(l) ==
  \A i \in DOMAIN l :
    /\ l[i].kind = "TxBegin" => \A j \in 1 .. i - 1 : l[j].tx # l[i].tx
    /\ l[i].kind # "TxBegin" =>
         /\ \E j \in 1 .. i - 1 : l[j] = Rec("TxBegin", l[i].tx)
         /\ \A j \in 1 .. i - 1 : l[j].kind \in Kind => l[j].tx # l[i].tx

\* The LSN of the record of this kind for tx, or 0.
ReplayedLsn(l, kind, tx) ==
  IF \E i \in DOMAIN l : l[i] = Rec(kind, tx)
  THEN CHOOSE i \in DOMAIN l : l[i] = Rec(kind, tx)
  ELSE 0

\* reconstruct_from_tx_wal_replay, on a manager without entries.
reconstruct_from_tx_wal_replay ==
  /\ mode = "down"
  /\ map_tx_wal_replay_records(log)
  /\ mode' = "open"
  /\ entries' = [kind \in Kind |-> [tx \in Tx |-> ReplayedLsn(log, kind, tx)]]
  /\ status' = [tx \in Tx |-> IF entries'["TxCommit"][tx] # 0 THEN "Committed"
                              ELSE IF entries'["TxRollback"][tx] # 0 THEN "RolledBack"
                              ELSE "None"]
  /\ UNCHANGED <<walVars, decision, acked>>

\* Conflicting records: recovery fails, and fails again whenever it is tried.
RecoveryRefused ==
  /\ mode \in {"down", "refused"}
  /\ ~ map_tx_wal_replay_records(log)
  /\ mode' = "refused"
  /\ UNCHANGED <<walVars, entries, status, decision, acked>>

-----------------------------------------------------------------------------
Init ==
  /\ Wal!Init
  /\ mode = "open"
  /\ entries = NoEntries /\ status = NoStatus
  /\ decision = NoDecision
  /\ acked = [tx \in Tx |-> "None"]

RecordTerminal ==
  \/ \E kind \in Kind, tx \in Tx : ReturnExisting(kind, tx) \/ append(kind, tx)
  \/ \E lsn \in 0 .. MaxLsn : flush_through(lsn) \/ FlushFails(lsn)
  \/ InsertEntry
  \/ Publish

Next ==
  \/ \E tx \in Tx : \/ append_tx_begin(tx) \/ append_other(tx)
                    \/ record_in_flight(tx)
                    \/ gc_remove(tx)
  \/ RecordTerminal
  \/ \E kind \in Kind, tx \in Tx : rebuild_status_for_transaction(kind, tx)
  \/ \E lsn \in 0 .. MaxLsn : Crash(lsn)
  \/ reconstruct_from_tx_wal_replay
  \/ RecoveryRefused

Spec == Init /\ [][Next]_vars

-----------------------------------------------------------------------------
TypeOK ==
  /\ log \in Seq(LogRecord) /\ Len(log) <= MaxLsn
  /\ durable \in 0 .. MaxLsn
  /\ mode \in {"open", "down", "refused"}
  /\ entries \in [Kind -> [Tx -> 0 .. MaxLsn]]
  /\ status \in [Tx -> {"None", "InFlight"} \cup Terminal]
  /\ decision \in Decision \cup {NoDecision}
  /\ acked \in [Tx -> {"None"} \cup Terminal]

Durable(kind, tx) == \E i \in DOMAIN log : i <= durable /\ log[i] = Rec(kind, tx)

\* "No transaction is visible before its commit record is flushed" (wal_adapter.rs):
\* an outcome in the status table has its record in the durable prefix, through
\* failed flushes, repairs by readers, garbage collection and recovery.
DurableBeforeVisible ==
  \A kind \in Kind, tx \in Tx : status[tx] = Outcome(kind) => Durable(kind, tx)

\* The tables never hold two outcomes for a transaction, and publication is never
\* refused after the record is durable: the checks under the lifecycle lock hold up
\* against readers and garbage collection that do not take it.
OneOutcome ==
  /\ \A kind \in Kind, tx \in Tx :
       entries[kind][tx] # 0 => /\ entries[Opposite(kind)][tx] = 0
                                /\ status[tx] # Outcome(Opposite(kind))
  /\ decision # NoDecision =>
       ~ RejectedAfterOpposite(decision.kind, decision.tx)

\* A caller that was told an outcome is never told another one, nor sees it vanish
\* from the status table, whatever fails, retries or crashes in between: "once
\* visible, transaction never becomes invisible" (wal_adapter.rs).
AckedAgreesWithStatus ==
  mode = "open" => \A tx \in Tx : acked[tx] # "None" => status[tx] = acked[tx]

\* The outcome a caller was told is never replaced.
AckedIsFinal == [][\A tx \in Tx : acked[tx] # "None" => acked'[tx] = acked[tx]]_vars

\* Recovery refuses a log only because some transaction has two terminal records, left
\* by a retry: crashes at every step of every decision, incomplete transactions and
\* work cut off by the crash are never taken for a conflict.
Repeated(l) ==
  \E i, j \in DOMAIN l : i # j /\ l[i].tx = l[j].tx /\ l[i].kind \in Kind /\ l[j].kind \in Kind

RefusedOnlyAfterRetry == mode = "refused" => Repeated(log)

\* "Callers should treat Storage errors as transient and retry" and "Calling twice with
\* same tx_id returns same LSN (no double-write)" (wal_adapter.rs): a caller that asks
\* for the same outcome again after an error leaves a log that recovery accepts.
Conflicting(l) ==
  \E i, j \in DOMAIN l : l[i].tx = l[j].tx /\ l[i].kind = "TxCommit" /\ l[j].kind = "TxRollback"

RetryIsSafe == mode = "refused" => Conflicting(log)
=============================================================================
