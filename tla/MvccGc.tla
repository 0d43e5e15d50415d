------------------------------- MODULE MvccGc --------------------------------
(***************************************************************************)
(* Garbage collection of row versions: the registry of active snapshots    *)
(* and the rule of crates/andromeda-mvcc that says which versions may be   *)
(* reclaimed, over the store of MvccStore.                                 *)
(*                                                                         *)
(* Nothing in the repository removes a version yet; "the actual deletion   *)
(* is expected to be done by a higher-level coordinator".  A scan of that  *)
(* coordinator asks the collector about every version, one at a time,      *)
(* between the steps of the transactions; `garbage` holds the reclamation  *)
(* commands that come of it.                                               *)
(* A transaction's snapshot is registered when it is taken and released    *)
(* when it is dropped or replaced.  A snapshot without owner has no handle *)
(* (the registry refuses transaction id zero).                             *)
(***************************************************************************)
EXTENDS MvccStore

VARIABLES active,                  \* ActiveSnapshotRegistry: the registered handles
          cached_min_visible_ts,   \* its cached minimum
          garbage                  \* the ReclamationCommands emitted so far

gcVars == <<vars, active, cached_min_visible_ts, garbage>>

INF == MaxTs + 1   \* u64::MAX: no snapshot is active

SnapshotHandle(s) == [begin_ts |-> s.timestamp, tx_id |-> s.transaction_id]

\* Mutant: the minimum is only ever the timestamp of the newest handle.
NewestBeginTs(handles) ==
  IF handles = {} THEN INF ELSE Max({h.begin_ts : h \in handles})

MinBeginTs(handles) ==
  IF handles = {} THEN INF ELSE Min({h.begin_ts : h \in handles})

\* register_snapshot and release_snapshot recompute the minimum under the lock.
Registry(handles) ==
  /\ active' = handles
  /\ cached_min_visible_ts' = MinBeginTs(handles)

-----------------------------------------------------------------------------
\* A snapshot is taken and registered.  The handle of the one it replaces is
\* released first, so it is never refused as registered already.
register_snapshot(t, policy) ==
  /\ with_context_validated(t, policy)
  /\ IF t = NoTx
     THEN UNCHANGED <<active, cached_min_visible_ts>>
     ELSE Registry({h \in active : h.tx_id # t} \cup {[begin_ts |-> clock, tx_id |-> t]})
  /\ UNCHANGED garbage

\* A snapshot is dropped and its handle released.
release_snapshot(s) ==
  /\ Drop(s)
  /\ Registry(active \ {SnapshotHandle(s)})
  /\ UNCHANGED garbage

minimum_visible_timestamp == cached_min_visible_ts

is_version_reclaimable(creator, end_ts) ==
  /\ end_ts # None
  /\ \/ status_for_snapshot(creator) = "RolledBack"
     \/ status_for_snapshot(creator) = "Committed" /\ end_ts < minimum_visible_timestamp

\* The scan reaches a version and finds it reclaimable.
ReclamationCommand(i) == [version_id |-> i, end_ts |-> versions[i].end_ts]

Collect(i) ==
  /\ is_version_reclaimable(versions[i].creator_tx_id, versions[i].end_ts)
  /\ garbage' = garbage \cup {ReclamationCommand(i)}
  /\ UNCHANGED <<vars, active, cached_min_visible_ts>>

GcInit ==
  /\ Init
  /\ active = {}
  /\ cached_min_visible_ts = INF
  /\ garbage = {}

GcNext ==
  \/ StoreStep /\ UNCHANGED <<active, cached_min_visible_ts, garbage>>
  \/ \E t \in Tx \cup {NoTx}, p \in IsolationPolicy : register_snapshot(t, p)
  \/ \E s \in snapshots : release_snapshot(s)
  \/ \E i \in DOMAIN versions : Collect(i)

GcSpec == GcInit /\ [][GcNext]_gcVars

-----------------------------------------------------------------------------
Registered(s) == SnapshotHandle(s) \in active

\* The transaction that closed version i has committed, and did so before every
\* registered snapshot was taken.
DeleteIsSettled(i) ==
  /\ statuses[versions[i].deleter_tx_id] = "Committed"
  /\ \A s \in snapshots : Registered(s) => ~ is_transaction_active(s, versions[i].deleter_tx_id)

\* What the collector once called reclaimable is of no use to any snapshot, then
\* or later: versions of transactions that rolled back, and versions whose delete
\* is settled, are seen by nobody, whatever snapshots came and went since the
\* scan passed.  (A version that was closed anew since is not the one the command
\* was about.)
GarbageIsUnseen ==
  \A i \in DOMAIN versions : \A s \in snapshots :
    /\ ReclamationCommand(i) \in garbage
    /\ Registered(s)
    /\ Live(i) => DeleteIsSettled(i)
    => ~ visible_in_snapshot(s, versions[i])
==============================================================================
