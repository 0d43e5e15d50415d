------------------------------ MODULE MvccStore ------------------------------
(***************************************************************************)
(* Multi-version rows under snapshots: the row header, the snapshot and    *)
(* the status table of crates/andromeda-mvcc, driven by the one store of   *)
(* the repository that keeps rows in them, InventoryBusinessMvccStore of   *)
(* crates/andromeda-inventory-demo.  One product; its stock row has a      *)
(* chain of versions and every reservation is a row of its own.  The store *)
(* is called through &mut self, so a call is one step; transactions        *)
(* interleave call by call.                                                *)
(*                                                                         *)
(* Timestamps, active lists and transaction ids are the caller's.  The     *)
(* module takes the callers the tests show: one logical clock; a snapshot  *)
(* carries the last timestamp handed out and lists the transactions in     *)
(* flight, and a write takes the next one; a transaction reads through its *)
(* newest snapshot.                                                        *)
(***************************************************************************)
EXTENDS Integers, Sequences, FiniteSets, FiniteSetsExt

CONSTANTS Tx,         \* transaction ids of the writers and readers
          Seeder,     \* transaction id that seeds the stock
          NoTx,       \* no transaction: Option<TransactionId>::None
          Stock,      \* quantity the product is seeded with
          Quantity,   \* quantities a command reserves
          MaxTs,      \* bound: last timestamp the clock hands out
          MaxHeld     \* bound: snapshots held at the same time

ASSUME TxAssumption == Seeder \notin Tx /\ NoTx \notin Tx \cup {Seeder}
ASSUME QuantityAssumption == Stock \in Nat /\ Quantity \subseteq Nat \ {0}
ASSUME BoundAssumption == MaxTs \in Nat /\ MaxHeld \in Nat

None == 0   \* no timestamp, no version

VARIABLES clock,          \* last timestamp handed out by the callers' clock
          statuses,       \* TransactionStatusTable, "None" without an entry
          versions,       \* versions of the stock row, oldest first; the index orders
                          \* them as version_id does
          reservations,   \* reservation rows, in the order of their ids
          snapshots       \* snapshots the callers hold

vars == <<clock, statuses, versions, reservations, snapshots>>

Status == {"InFlight", "Committed", "RolledBack"}
IsolationPolicy == {"ReadCommitted", "RepeatableRead"}

Version == [begin_ts : 1 .. MaxTs, end_ts : 0 .. MaxTs,
            creator_tx_id : Tx \cup {Seeder}, deleter_tx_id : Tx \cup {NoTx},
            previous_version_ptr : Nat, quantity : 0 .. Stock]
Reservation == [begin_ts : 1 .. MaxTs, creator_tx_id : Tx, quantity : Quantity]
Snapshot == [timestamp : 1 .. MaxTs, isolation_policy : IsolationPolicy,
             transaction_id : Tx \cup {NoTx}, active_tx_ids : SUBSET Tx]

-----------------------------------------------------------------------------
is_current_transaction(s, t) == s.transaction_id = t
is_transaction_active(s, t) == t \in s.active_tx_ids

\* A writer the table does not know is in flight.
status_for_snapshot(t) == IF statuses[t] = "None" THEN "InFlight" ELSE statuses[t]

\* The outcome of a committed transaction, as the two visibility rules read it.
CommitIsSeen(s, t) ==
  \/ s.isolation_policy = "ReadCommitted"
  \/ is_current_transaction(s, t)
  \/ ~ is_transaction_active(s, t)

\* Mutant: a committed writer is visible under both policies.
IgnoresActiveList(s, t) ==
  \/ status_for_snapshot(t) = "Committed"
  \/ status_for_snapshot(t) = "InFlight" /\ is_current_transaction(s, t)

creator_is_visible(s, t) ==
  \/ status_for_snapshot(t) = "Committed" /\ CommitIsSeen(s, t)
  \/ status_for_snapshot(t) = "InFlight" /\ is_current_transaction(s, t)

\* Mutant: a delete counts from its commit on, whatever its timestamp.
DeleteIgnoresTimestamp(s, t, end_ts) ==
  \/ status_for_snapshot(t) = "Committed" /\ CommitIsSeen(s, t)
  \/ status_for_snapshot(t) = "InFlight" /\ is_current_transaction(s, t)

delete_is_visible(s, t, end_ts) ==
  \/ /\ status_for_snapshot(t) = "Committed"
     /\ end_ts <= s.timestamp
     /\ CommitIsSeen(s, t)
  \/ status_for_snapshot(t) = "InFlight" /\ is_current_transaction(s, t)

\* visible_in_snapshot of a row that was never closed, and of any row.
OpenRowVisible(s, row) ==
  /\ creator_is_visible(s, row.creator_tx_id)
  /\ row.begin_ts <= s.timestamp \/ is_current_transaction(s, row.creator_tx_id)

visible_in_snapshot(s, row) ==
  /\ OpenRowVisible(s, row)
  /\ row.end_ts = None \/ ~ delete_is_visible(s, row.deleter_tx_id, row.end_ts)

\* The index of the newest visible version, None if there is none.
visible_stock_version(s) ==
  LET seen == {i \in DOMAIN versions : visible_in_snapshot(s, versions[i])}
  IN  IF seen = {} THEN None ELSE Max(seen)

read_reservations(s) == {i \in DOMAIN reservations : OpenRowVisible(s, reservations[i])}

-----------------------------------------------------------------------------
\* open_version is a header without an end; close_version keeps the rest of
\* the header, an earlier end included, under the new one.
open_version(ts, t, previous, quantity) ==
  [begin_ts |-> ts, end_ts |-> None, creator_tx_id |-> t, deleter_tx_id |-> NoTx,
   previous_version_ptr |-> previous, quantity |-> quantity]

close_version(row, ts, t) == [row EXCEPT !.end_ts = ts, !.deleter_tx_id = t]

seed_committed_stock ==
  /\ versions = <<>>               \* the callers seed a product once
  /\ clock < MaxTs
  /\ clock' = clock + 1
  /\ versions' = <<open_version(clock + 1, Seeder, None, Stock)>>
  /\ statuses' = [statuses EXCEPT ![Seeder] = "Committed"]
  /\ UNCHANGED <<reservations, snapshots>>

\* record_in_flight, when the transaction manager begins the transaction.
record_in_flight(t) ==
  /\ statuses[t] = "None"
  /\ statuses' = [statuses EXCEPT ![t] = "InFlight"]
  /\ UNCHANGED <<clock, versions, reservations, snapshots>>

\* The owner must be in flight; a snapshot may also have no owner.  A caller
\* that refreshes its transaction's snapshot no longer reads through the old one.
with_context_validated(t, policy) ==
  LET s == [timestamp |-> clock, isolation_policy |-> policy, transaction_id |-> t,
            active_tx_ids |-> {u \in Tx : statuses[u] = "InFlight"}]
  IN  /\ clock > 0
      /\ t # NoTx => statuses[t] = "InFlight"
      /\ snapshots' = {x \in snapshots : t = NoTx \/ x.transaction_id # t} \cup {s}
      /\ Cardinality(snapshots') <= MaxHeld
      /\ UNCHANGED <<clock, statuses, versions, reservations>>

\* The caller drops a snapshot.
Drop(s) ==
  /\ s \in snapshots
  /\ snapshots' = snapshots \ {s}
  /\ UNCHANGED <<clock, statuses, versions, reservations>>

\* Mutant: only a committed successor is a conflict.
OnlyCommittedConflicts(observed) ==
  \E i \in DOMAIN versions :
    i > observed /\ statuses[versions[i].creator_tx_id] = "Committed"

reject_if_stock_has_conflicting_successor(observed) ==
  \E i \in DOMAIN versions :
    i > observed /\ statuses[versions[i].creator_tx_id] # "RolledBack"

\* A call refused by the visibility, conflict or quantity check, or by the
\* status table, writes nothing.
reserve_stock(s, quantity) ==
  LET t == s.transaction_id
      observed == visible_stock_version(s)
      left == versions[observed].quantity - quantity
      ts == clock + 1
  IN  /\ s \in snapshots
      /\ t # NoTx
      /\ observed # None
      /\ ~ reject_if_stock_has_conflicting_successor(observed)
      /\ left >= 0
      /\ statuses[t] \in {"None", "InFlight"}
      /\ clock < MaxTs
      /\ clock' = ts
      /\ statuses' = [statuses EXCEPT ![t] = "InFlight"]
      /\ versions' = Append([versions EXCEPT ![observed] = close_version(@, ts, t)],
                            open_version(ts, t, observed, left))
      /\ reservations' = Append(reservations,
           [begin_ts |-> ts, creator_tx_id |-> t, quantity |-> quantity])
      /\ UNCHANGED snapshots

record_terminal_from_durable_evidence(t, outcome) ==
  /\ statuses[t] \in {"None", "InFlight"}
  /\ statuses' = [statuses EXCEPT ![t] = outcome]
  /\ UNCHANGED <<clock, versions, reservations, snapshots>>

commit_transaction_after_durable_wal(t) ==
  record_terminal_from_durable_evidence(t, "Committed")

rollback_transaction_after_durable_wal(t) ==
  record_terminal_from_durable_evidence(t, "RolledBack")

-----------------------------------------------------------------------------
Init ==
  /\ clock = 0
  /\ statuses = [t \in Tx \cup {Seeder} |-> "None"]
  /\ versions = <<>>
  /\ reservations = <<>>
  /\ snapshots = {}

\* The steps of the store and of the transactions that call it.
StoreStep ==
  \/ seed_committed_stock
  \/ \E t \in Tx : \/ record_in_flight(t)
                   \/ commit_transaction_after_durable_wal(t)
                   \/ rollback_transaction_after_durable_wal(t)
  \/ \E s \in snapshots, q \in Quantity : reserve_stock(s, q)

Next ==
  \/ StoreStep
  \/ \E t \in Tx \cup {NoTx}, p \in IsolationPolicy : with_context_validated(t, p)
  \/ \E s \in snapshots : Drop(s)

Spec == Init /\ [][Next]_vars

-----------------------------------------------------------------------------
\* The variables keep the types of the source; a closed version has a deleter
\* and ends after it begins (MvccRowHeader::validate).
TypeOK ==
  /\ clock \in 0 .. MaxTs
  /\ statuses \in [Tx \cup {Seeder} -> Status \cup {"None"}]
  /\ versions \in Seq(Version)
  /\ reservations \in Seq(Reservation)
  /\ snapshots \subseteq Snapshot
  /\ \A i \in DOMAIN versions :
       /\ versions[i].end_ts = None <=> versions[i].deleter_tx_id = NoTx
       /\ versions[i].end_ts # None => versions[i].end_ts > versions[i].begin_ts

Live(i) == statuses[versions[i].creator_tx_id] # "RolledBack"

\* No update is lost: the versions no rollback has taken back form one chain,
\* each the successor of the live version before it, whatever order the
\* transactions wrote, committed and rolled back in; and a version with a live
\* successor carries the end and the deleter that successor gave it, although
\* close_version overwrites the end left by a writer that rolled back.
OneLiveChain ==
  \A i, j \in DOMAIN versions :
    /\ i < j /\ Live(i) /\ Live(j)
    /\ \A k \in i + 1 .. j - 1 : ~ Live(k)
    => /\ versions[j].previous_version_ptr = i
       /\ versions[i].deleter_tx_id = versions[j].creator_tx_id
       /\ versions[i].end_ts = versions[j].begin_ts

\* What a reader who opens a snapshot now would hold.
Fresh == [timestamp |-> clock, isolation_policy |-> "ReadCommitted",
          transaction_id |-> NoTx, active_tx_ids |-> {}]

\* Every snapshot sees a whole number of transactions: the stock it reads and
\* the reservations it reads add up to the seeded quantity.  The stock row is
\* never missing, and neither side of a transaction shows without the other,
\* for old and new snapshots, both policies, and owners in flight or finished.
SnapshotsAddUp ==
  versions # <<>> =>
    \A s \in snapshots \cup {Fresh} :
      LET i == visible_stock_version(s)
          reserved(k) == reservations[k].quantity
      IN  /\ i # None
          /\ versions[i].quantity + MapThenSumSet(reserved, read_reservations(s)) = Stock

Reads(s) == <<visible_stock_version(s), read_reservations(s)>>

\* The step is a write or the rollback of the transaction that owns s.
OwnStep(s) ==
  \/ versions' # versions /\ versions'[Len(versions')].creator_tx_id = s.transaction_id
  \/ /\ s.transaction_id # NoTx
     /\ statuses'[s.transaction_id] = "RolledBack"
     /\ statuses[s.transaction_id] # "RolledBack"

\* What a repeatable-read snapshot reads does not change while it is held,
\* unless its own transaction writes or rolls back: no write, commit or
\* rollback of another transaction, nor the commit of its own, shows through.
RepeatableReads ==
  [][\/ UNCHANGED <<statuses, versions, reservations>>
     \/ \A s \in snapshots :
          s.isolation_policy = "RepeatableRead" /\ ~ OwnStep(s) => Reads(s)' = Reads(s)]_vars
==============================================================================
