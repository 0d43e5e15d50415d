# A TLA+ verification of Andromeda's transaction core

Andromeda is a database engine in Rust, split into about ninety crates under
`crates/`. This directory holds TLA+ models of the parts that decide whether
the engine is a correct database: locks and deadlock detection, transactions,
savepoints, the write-ahead log, the commit log, the buffer pool, multi-version
rows and their garbage collection, one invocation from the staged row to
recovery with the root pointer it starts from, WAL shipping and retention, and
the cluster membership. TLC checks each model on a small instance, and TLAPS
proves most of the safety properties for every value of the constants.

Everything is translated from the source. `PROJECT.json` maps each definition
to the lines it models and lists the runs, the hazards of the code, the
disagreements found between code and documentation, and the theorems.

## The system and how its parts interact

A transaction gets an id from the **transaction manager**, which keeps a state
machine and a savepoint stack for each live transaction and mirrors the outcome
in the MVCC status table. Locks are asked for through the **lock coordinator**,
which first asks the manager whether the transaction may lock and then calls
the **lock manager**; the **deadlock detector** looks for circles in copies of
its table and suggests whom to abort. A write is recorded in the **write set**
of the transaction, so that a **savepoint** can be rolled back to. Before an
outcome is visible, the **commit log** appends a terminal record to the **file
WAL** and flushes it; after a crash the recovery bridge rebuilds the outcomes
from the durable records. Pages live in the **buffer pool**, which may write a
page only when the WAL is durable up to its last change. Readers see **row
versions** through snapshots and the status table; versions no snapshot needs
are handed to **garbage collection**.

The **local runtime** puts an invocation together: it stages a row in a heap
page, logs begin, row and commit, flushes, and publishes the row. **Recovery**
reads the **root pointer**, starts from the manifest it names and replays the
committed rows. The log is also **shipped** to replicas; **WAL garbage
collection** removes segments that recovery, snapshots, backups and replicas no
longer need. The **membership store** says which node is the primary, and a
promotion changes it after a majority has voted and the audit log has a marker.

| Part | Crate | Modules |
| --- | --- | --- |
| lock manager | `andromeda-locking` | `LockManager`, `TransactionProofs` |
| deadlock detection | `andromeda-locking` | `DeadlockDetector` (over the lock table), `MCDeadlockDetector` |
| savepoints and write set | `andromeda-savepoint` | `Savepoints`, `NestedSavepoints` (abstract), `MCLockCoordinator`, `TransactionProofs` |
| transaction manager | `andromeda-transaction` | `TransactionManager`, `LockCoordinatorProofs` |
| lock coordinator | `andromeda-transaction` | `LockCoordinator` (composes the manager and the lock table), `MCLockCoordinator`, `LockCoordinatorProofs` |
| file WAL | `andromeda-wal` | `FileWal`, `DurableLog` (abstract), `MCStockRecovery`, `DiskProofs` |
| commit log, replay bridge | `andromeda-transaction-log`, `andromeda-recovery` | `CommitLog` (over `DurableLog`), `CommitLogProofs` |
| buffer pool, page writes | `andromeda-buffer-pool`, `andromeda-disk-page-store` | `BufferPool`, `BufferPoolLemmas`, `BufferPoolProofs` |
| row versions, snapshots, garbage | `andromeda-mvcc`, `andromeda-inventory-demo` | `MvccStore`, `MvccGc` (over it), `MCMvccGc` |
| local runtime, stock store, redo | `andromeda-exec`, `andromeda-inventory-demo`, `andromeda-storage-heap`, `andromeda-recovery` | `StockRecovery` (over `DurableLog` and `RootPointer`), `MCStockRecovery` |
| root pointer | `andromeda-manifest` | `RootPointer`, `DiskProofs` |
| WAL shipping and retention | `andromeda-hadr`, `andromeda-wal` | `WalShipping`, `WalRetention` (over it), `MCWalRetention` |
| cluster membership, promotion | `andromeda-hadr`, `andromeda-cli` | `HadrMembership`, `MCHadrMembership`, `HadrProofs`, `HadrJournalProofs` |

The two abstract modules say what a component promises. `DurableLog` is used
three times: `FileWal` is shown to implement it, and `CommitLog` and
`StockRecovery` are built on it. What is shown of these two therefore holds over
the file WAL as long as a flush that returns success has made its records
durable. `ReportedSurvives` states just that, and it has one exception: after a
failed header write the file WAL reports the LSN as durable without writing the
header again.

## How the models correspond to the code

An operation that runs under one mutex, or through `&mut self`, is one action.
An operation that lets a lock go, or that issues several writes a crash may
separate, is one action per part. A call that is rejected and changes nothing
is a stutter and has no action. Definitions keep the names of the Rust
functions. Definitions whose comment starts with "Mutant" are wrong variants of
the definition that follows; no specification uses them, and they serve to
confirm that each property can fail.

**LockManager.** `entries` maps a resource to its holders and its queue;
`tracked` is the set of keys of the map; `next_sequence` is the counter. The
queue is a set of waiters with sequence numbers: requests are numbered under
the mutex and pushed at the back, so the numbers give the position. Release and
`release_all` contain the promotion loop of `entry.rs`. The mode tables are
those of `mode.rs`, all six modes.

**Savepoints.** The stack and the write set are separate structures in the
crate; `create_with_rollback_ordinal` and `RollbackToSavepoint` are the pairs
of calls that its documentation prescribes. `NestedSavepoints` has no ordinals:
a savepoint remembers a set of writes. The refinement maps a marker to the
writes up to it.

**TransactionManager.** `last_issued` is the atomic counter. Allocation and
registration are separate actions, because `begin` takes the mutex only after
the id was allocated; `seed` is what recovery does with the counter.
`begin_inner` keeps the refusals of the code: an id that is live loses nothing
but itself, and one whose status has ended keeps that status while its machine
is already in. `IdsAreFresh` shows that neither happens. `live`,
`status` and `evidence` are the state machine, the status table and the LSN a
transaction ended with.

**LockCoordinator.** A call is two steps: `Validate` under the manager's mutex,
then `Acquire`, `Release` or `ReleaseAll` on the lock table. `calls` holds the
validated call of a thread. Any thread may call for any transaction at any time,
as `&self` allows. `cleaned` has the transactions whose `release_all` returned,
`overtaken` those of them for which another thread was inside `acquire` when it
ran; both appear only in properties.

**FileWal.** The file is a header, which claims a number of records, and a
sequence of cells. `stable` and `stable_header` are what has been synced. A
flush is four steps (`sync_data`, `Advance`, `write_file_wal_header`,
`sync_all`), each write or sync may fail, and a crash may come between any two.
A crash keeps what was synced; every other cell independently survives or is
torn (a missing tail is a tail of torn cells). Opening scans the records that
the header claims, truncates the rest and syncs. A failed sync is modelled as
leaving the data unsynced; a kernel that drops dirty pages after a failed
`fsync` is not modelled.

**CommitLog.** `decision` is the call that holds the lifecycle lock, with the
step it has reached: appended, flushed, inserted, published. Repair by readers
and `gc_remove` run without that lock and interleave with every step. A failed
flush ends the call with an error and leaves the record in the log; the caller
may try again. After `Crash`, replay either rebuilds the tables or refuses the
log as a whole.

**BufferPool.** `pool` holds the frames, the page table, the dirty tracker and
the Clock cursor; `store` is the page file; `wal` what is appended and durable;
`applied` is a history of the changes each page received. A call is one step,
except a flush: it takes one step per candidate because the WAL advances beside
it. A failing page write leaves the old image, the new one or a torn page,
according to where the write stopped. `new_page` gets its id from the caller,
and nothing in the pool refuses an id that was used before; `CanAllocate` takes
a caller that allocates each id once.

**MvccStore.** The visibility rules of `snapshot.rs` and `version.rs` for both
isolation policies, with the store that writes stock and reservation rows. The
code leaves timestamps and lists of active transactions to its caller. The
model takes callers like those of the tests: one logical clock, a snapshot
lists the transactions in flight, a write takes the next timestamp, and a
transaction reads through its newest snapshot. Without the last of these,
`SnapshotsAddUp` fails: a transaction that writes through a newer snapshot and
reads through an older one sees its own reservation beside an older stock
version.

**DeadlockDetector.** A decision is two steps. `ObserveLockManager` copies the
lock table and derives the wait-for graph; `decide_deadlock` runs the
depth-first search of `cycle.rs` and the victim policy on that copy, while the
table goes on changing. `AbortVictim` is the coordinator, which no code under
`crates/` provides; it and the transactions are external. A transaction may
leave a queue or give up a lock at any time.

**MvccGc.** The registry of active snapshots with its cached minimum, and the
rule of `collector.rs`, over `MvccStore`. A scan asks about one version at a
time between the steps of transactions; `garbage` holds the commands it emitted.

**StockRecovery.** `store` is the heap page of `HeapInventoryProductStockStore`
with its visible and its prepared slot; `call` is the invocation that borrows
the runtime, with the step it has reached. Every append and the flush may fail,
and a failed flush may still have made records durable. `Crash` stops the
machine; replay plans the redo, validates it and folds it over the page of the
manifest, checking the chain of page LSNs; `Restart` builds the next store.
`ObservedStock` is the entry point that builds a store for each call. A
checkpoint is two steps, the write of the inactive pointer file and its sync.
The histories (`effective`, `late`, `reseeded`, `published`, `unsettled`) appear
only in properties. The entry point also returns early, without dropping the
staged row, when a check fails after `prepare` (`vertical_slice_entry.rs:216`,
`231`). With this store these checks repeat what was validated before, or ask
for evidence that a successful commit always carries, so none can fail here and
they have no action.

**RootPointer.** Two files, each with what a process reads and what is synced.
A machine that stops keeps of an unsynced file the old record, the new one or
neither; a process that stops leaves the files as they are. A missing, short or
corrupt file is `None`. Who writes manifests is not in the repository: the
generation is one more than the one read, as the header of `root_pointer.rs`
asks for.

**WalShipping, WalRetention.** A replica accepts batches that continue its log
and attests ranges. The transport is external: whatever was attested once may
arrive at any later time, any number of times, or never. The tracker merges
ranges and derives a safe LSN. The collector reads its boundaries once and then
removes one segment per step, while everything beside it moves. The context
trait that offers candidates has no production implementation; it is taken to
follow `ReclaimabilityEvidence`.

**HadrMembership.** An operator is a process that runs one command. `dir` is the
store file, its temporary and its backup; `crash_dirs` are the contents that a
crash may leave, collapsed to one by a sync of the directory. `persist` is a
step per write, rename and sync. The journal is kept with the snapshot and
replayed by `validate_record_replay` as the code does, and the limits on nodes
and records are the constants `validate` refuses a snapshot by. A promotion is
built the way the command line builds it (`build_promotion_attempt`): the votes
and the positions of the nodes are arguments, and nothing in the repository
compares them with what the nodes hold. `tokens` has the fencing tokens that
were returned. A command that fails ends the process; the next one opens the
store again, as the command line does. A caller that keeps a store handle after
a failed `persist` is not modelled: when the sync after the move to the backup
fails (`file_backed.rs:101`) there is no store file, and the next change on that
handle would start from an empty snapshot and remove the backup (`file_backed.rs:66`,
`90`).

## What the runs check

Passing runs:

- **locks** (three transactions, two resources, Shared and Exclusive, three
  queued requests; all requests but two of the Shared ones). Two transactions never hold conflicting modes; the front
  waiter is always blocked by a holder, so no promotion is forgotten; a lock is
  never granted past an older conflicting request. The search agrees with a
  reference definition of a circle on every lock table that arises, and picks
  the right victim. A circle that was reported is opened by its members only,
  so a suggestion does not go stale through others. Every transaction ends,
  except behind a circle that closes through a place in a queue. `LockInv`, the
  inductive invariant of the proof, is checked too.
- **coordinator** (two transactions, two threads, Shared and Exclusive on one
  resource; any thread for any transaction). Ids are never handed out twice; the
  status table agrees with the state machines; an end is final; locks are kept
  while the transaction grows; a cleaned-up transaction holds and waits for
  nothing, unless its cleanup overtook an acquire. Beside it, the savepoints
  (three names, four savepoints, five writes): markers and ordinals implement
  snapshots of the write set; a marker is never ahead of the write set.
- **commit_log** (two transactions, five records). An outcome is visible only
  when its record is durable; the tables never hold two outcomes; what a caller
  was told never changes; recovery refuses a log only if a retry has put two
  terminal records for a transaction into it.
- **buffer_pool** (three pages, two frames, two LSNs). No page on disk has a
  change that is not durable in the WAL; no update is lost through eviction;
  the first dirty LSN bounds where redo must start; the page table, the frames
  and the dirty tracker agree.
- **mvcc_snapshots** (three transactions, one row, four timestamps). At most
  one live chain of versions, so no lost update; stock plus reservations add up
  in every snapshot, so a snapshot contains whole transactions; a
  repeatable-read snapshot never changes what it shows except by its owner's
  writes; what the collector called reclaimable is seen by no registered
  snapshot, then or later, provided its delete is settled.
- **stock_recovery** (three transactions, two crashes). The row a reader sees is
  what the acknowledged reservations leave, and each of them is durable; the
  recovered row counts every committed reservation once; a published manifest
  is found again; recovery refuses a log for four named reasons only. Beside it,
  the file WAL (three records): it implements `DurableLog`; what was reported
  durable survives a crash at any moment; opening finds every record that the
  header claims; what an observer reads outside a flush survives a crash too.
  "Reported" excludes what was reported before the last header write failed and
  no later flush succeeded: the code then returns `Ok` for an LSN that only the
  in-memory value covers.
- **wal_retention** (two replicas, two segments of two records). A safe LSN
  stands on recorded evidence, and evidence on what the replica holds; a removed
  segment was held by every replica known when the boundaries were read.
- **membership** (four nodes, one operator, three commands, two faults; an empty
  store or one with three members). No snapshot that a command returned is lost;
  a promotion has its audit marker before it is in any file; no two fencing
  tokens are returned for one epoch; the replay of the journal accepts and
  reproduces every change and every promotion within the limits.

`MCLockCoordinator` and `MCStockRecovery` each hold two specifications that share
no state. Their next-state relation moves one while the other is in its initial
state, so that all behaviours of each are explored and none of their product.
TLC counts such a sum as two actions; run on its own with the same bounds, each of
the four specifications fires every one of its actions.

Several properties except a case that the code does get wrong. Each exception is
needed: TLC reaches a violation when it is dropped (`EveryTransactionEnds` behind
a circle through a queue, `ObservedOutsideFlushSurvives` within a flush,
`GarbageIsUnseen` for an unsettled delete, `PublishedManifestSurvives` after an
unsettled write, `RefusedOnlyAfterLateFailure` with a second store on a log). The
hazards in `PROJECT.json` say so at their lines.

Runs that show a disagreement with the documentation. TLC finds a
counterexample; `PROJECT.json` quotes the lines.

- **coordinator_cleanup**: a thread has validated an `acquire`; the transaction
  commits and another thread runs `release_all`; the first thread then takes the
  lock. A committed transaction that was cleaned up holds a lock nobody releases.
- **commit_retry**: the flush of a commit record fails, the caller retries as the
  adapter contract advises, and a second commit record is appended. After a
  crash that keeps both, recovery refuses the log with all its outcomes.
- **wal_gc_recovery**: a segment is eligible for removal when it starts *after*
  the start of recovery, so the collector removes what recovery reads and keeps
  what it does not need.
- **stock_late_failure**: the flush after a commit record fails, the caller gets
  an error and the staged row is dropped. The next reservation flushes both
  commits, with a row that names the same previous page LSN. After a crash,
  replay applies the first row and refuses the log at the second. In the
  shortest counterexample the second reservation is not acknowledged yet; two
  more steps acknowledge it before the crash.

### Bounds

The bounds are named constants that the guards use. They are the smallest at
which the interesting cases occur. Three lock transactions over two resources:
a circle of two and a bystander, or a circle through a queue. Three
records in the WAL: durable, synced but not claimed, and unsynced. Five in the
commit log: two transactions begin and end, with room for one retry. Three
pages over two frames: eviction is forced. Four timestamps: the seed and a
write by each transaction. Three stock transactions: one that fails late, one
that succeeds after it and one after a restart, with reservations of different
size so that one counted twice is told from one lost; two crashes let a second
recovery run over the log of the first. Two segments and replicas that start
below or inside the first: one segment may go while another must stay (in this
instance only the second can go, by the rule that `wal_gc_recovery` is about).
Three membership commands with two faults: two promotions, one after a change,
and a crash during the recovery from a failure; four nodes with a limit of three
and ten records over six of the founders: both limits are met. Transactions in
`MvccStore`, replicas, nodes, threads and savepoint names are interchangeable,
since the code only compares them for equality, and their runs use symmetry. The
locks run uses none: victims are chosen by id, and ties too.

### Deadlock and fairness

`CHECK_DEADLOCK FALSE` is set where the system really may stop: ids, commands or
log records run out, every transaction has ended, or recovery has refused.

Fairness is assumed in the locks run only. A transaction that waits for nothing
eventually ends, and a coordinator keeps asking for decisions, finishes them and
acts on them (weak fairness of each). The first is what a client does; the
others are what a user of `decide_deadlock` is for. No transaction that waits is
assumed to give up, and a transaction need not release early. Elsewhere no
liveness is claimed: the code has no thread of its own, every operation is a
call that returns at once, and nothing obliges a caller to flush or to retry.

## What is proved

| Module | Theorems | What they say |
| --- | --- | --- |
| `TransactionProofs` | `LockInvariant`, `HoldersNeverConflict`, `FrontAlwaysBlocked`, `NobodyEverBarges` | exclusion, no lost wakeup and FIFO order, for any transactions, resources and modes |
| | `MarkersNeverAhead`, `RefinesNested` | savepoints implement nested snapshots, for any names and limits |
| `LockCoordinatorProofs` | `StatusAlwaysMirrors`, `IdsAlwaysFresh`, `OutcomeAlwaysFinal` | status, freshness and finality, for any number of transactions |
| | `CoordInvariant`, `CoordUsesManager`, `CoordUsesLocks` | the coordinator is a client of both its parts: each keeps its own specification |
| | `LocksAlwaysKept`, `CleanedStaysGone` | two-phase locking, and cleanup that is final unless it overtakes an acquire, for any number of threads on any transactions |
| `DiskProofs` | `ClaimsAlwaysScan`, `ReportsAlwaysSurvive`, `RefinesDurableLog`, `ObservationsSurvive` | the file WAL is a log with durable prefixes, for any records and length |
| | `ManifestAlwaysFound` | a published manifest is found again, for any stock, transactions and crashes |
| `CommitLogProofs` | `VisibleIsDurable`, `OutcomesAgree`, `AckedNeverChanges`, `RefusalNeedsRetry` | durable before visible, one final outcome, and when recovery refuses |
| `BufferPoolProofs` | `PoolInvariant`, `TablesAlwaysAgree`, `WalAlwaysBeforePage`, `UpdatesNeverLost`, `TrackerAlwaysCovers` | the four properties of the pool, for any pages, frames and LSNs |
| `HadrProofs` | `HadrInvariant`, `MarkersComeFirst`, `AckedAlwaysSurvives` | audit before promotion and crash-safe publication, for any cluster |
| `HadrJournalProofs` | `JournalAlwaysReplays`, `TokensAreUnique` | the journal explains every snapshot, changes and promotions within any limits, and no epoch has two tokens, for any cluster and history |

The assumptions on constants are the named `ASSUME`s of the modules: limits are
natural numbers, modes are lock modes, `Torn` is not a record, the nodes of a
cluster are finitely many. Two theorems have a hypothesis of their own, which is
what the code needs to be right: `AckedAlwaysSurvives` and `TokensAreUnique` that
one operator at a time has the store open (`Operators = {op}`). TLC refutes both
properties without it.

A module of proofs may extend two components that share no state; the names of
`Savepoints` and `FileWal` are chosen so that it can (`SavepointSpec`, `WalSpec`).
`BufferPoolLemmas` has the lemmas on the operators of the
pool, `BufferPoolProofs` those on its steps.

*Locks.* Exclusion and wakeup are not inductive alone. `LockInv` adds that
sequence numbers are unique and below the counter, that a queue is finite, and
that an entry in use is tracked. The promotion loop is a chain of single
promotions; `PromotionLoop` shows by induction along the chain that the entry
keeps its invariant, and that where the loop stops the front is blocked. An
upgrade in place needs the lemma that an upgrade only adds conflicts. For
`NoBarging`, the same induction shows that the loop takes requests off the front of
the queue only.

*Savepoints.* `SavepointInv` says that markers grow with savepoint ids and that
each is 0 or the ordinal of an entry; with it, cutting the write set at a
marker cuts no savepoint below.

*Transaction manager.* The invariant is the conjunction of the properties and
the types; one lemma treats transitions within the in-flight states, another
those that end a transaction.

*Lock coordinator.* A call is validated under one mutex and acts under another,
so what was validated may have changed. `CoordInv` says what has not: a call that
will release a lock is for a transaction that is past growing, one that will
release all is for a transaction that has ended, and neither can be undone.
`LocksAlwaysKept` needs no more. `CleanedStaysGone` adds `CleanupInv`: once its
cleanup has overtaken no acquire, a transaction is in no entry and no thread is
inside an acquire for it. It stays so because no acquire is validated for an ended
transaction (`NoAcquireAfterEnd`) and a release promotes only those that wait.

*File WAL.* `HeaderInv` holds whatever fails: the header claims synced records
only. `ReportInv` bounds reports by the durable LSN and, unless a header write
failed, by the header in the file and on disk. The refinement takes the file as
the log and the least of header, synced header and synced length as the durable
prefix. For observers it is enough that the signal and the durable LSN move
together.

*Root pointer.* That a newer manifest is readable is not inductive: what counts
is which file is safe. `RootInv` says that, unless a write was unsettled, one
file is synced, holds the published generation or a later one, and is not the
file being written. To know that a write goes to the other file, it adds that
no generation is in both files and that nothing synced is newer than what can be
read. One lemma treats each step that touches the files; all others leave them
alone.

*Commit log.* `CommitInv` follows the record: the call that holds the lock has
its record in the log, an entry is the LSN of a durable record of its kind, an
acknowledged outcome is durable, and memory is empty until recovery succeeds.

*Buffer pool.* `PoolInv` has three parts. `Tables`: page table, frames and
tracker name each other. `Content`: the image in a frame, or on disk for a page
that is not resident, has every change made; a clean frame has nothing the disk
lacks; the dirty range covers every change that is not durable and begins before
every change that the disk lacks. `Around`: what is on disk is durable, and a
page nobody was handed has no changes. Each call is a composition of operators on
a pool (the Clock sweep, the eviction, the admission, the dirty mark); a lemma
for each says how it moves `Tables` and `Content`, and the step lemmas combine
them. The Clock sweep is a choice of the first evictable frame behind the cursor,
which exists because a set of naturals has a least element.

*Membership.* `TypeInv` and `MarkInv` say that every file a crash may leave holds
a snapshot, is absent or is torn, and that every promotion in it, or in what an
operator is about to write, has its marker; each step of `persist` moves, copies
or removes contents that were there (`StepRearranges`). For the acknowledged snapshot,
`PublishInv` says at each step of `persist` which of the three files holds it:
opening would leave a file in place that decodes and is new enough, in every
directory that a crash may leave. For the journal, `JournalInv` says that the
replay of the records of every snapshot gives its epoch and nodes; `replayed` is
a recursive function, shown to take records one by one, and the two code paths,
`model.rs` and `membership_state_validation.rs`, are compared change by change.
`TokenInv` puts them together: an epoch whose token was returned is acknowledged,
what is acknowledged survives, and a promotion is published in a later epoch.

## What is only model-checked

- `EveryTransactionEnds`: liveness under fairness is out of the prover's reach.
- `DecisionIsRight`, `OnlyMembersOpenCircles`: the search is a `RECURSIVE`
  operator, which the prover cannot use; `LockManager` itself has none.
- `StockAddsUp`, `PublishedIsDurable` and `SnapshotsAddUp` add up quantities over
  sets of transactions or rows; what such a sum does when an element joins is an
  induction over data that the prover cannot do.
- `RefusedOnlyAfterLateFailure`, `OneLiveChain`, `RepeatableReads`,
  `GarbageIsUnseen`, `SafeLsnIsEvidenced` and `RemovedWasShipped` have no proof yet.

## Further observations

Noticed while translating, and in part confirmed with TLC while the models were
built. The hazards in `PROJECT.json` give most of the lines.

- Locks: promoting the second of two queued requests of one transaction replaces
  the mode it holds by the mode asked for, unless the held one covers it
  (`entry.rs:86`): IntentExclusive and then Shared ends as Shared. A deadlock that
  closes through a place in a queue has no edge in the graph (`graph.rs:41`).
- Coordinator: locks may be released while the transaction is Committing, before
  the commit is durable; waiters may be promoted after their commit request.
- Committing has no exit for a commit whose log write failed (`state.rs:65`).
- Savepoints: `create`, which `TransactionManager::create_savepoint` uses, takes
  the savepoint's id as the rollback ordinal (`stack.rs:133`), so rolling back
  undoes the wrong writes.
- File WAL: the signal is raised before the header is synced (`wal.rs:352`), so
  within a flush an observer can read an LSN that a crash takes back.
- Buffer pool: `new_page` passes the page's own LSN as the durable LSN, writes the
  page before it has a frame, and leaves it allocated when it finds none.
  `unpin_page` with a dirty LSN that is refused leaves the pin.
- MVCC: garbage collection compares the deleter's timestamp but not its status,
  so a version closed by a transaction in flight looks reclaimable
  (`collector.rs:78`); `GarbageIsUnseen` therefore asks for a settled delete. The
  scheduler skips its tick while the minimum is unchanged (`task.rs:116`).
- Root pointer: after a write whose sync failed, or a process that stopped before
  it, the newest readable record is not safe; the next write truncates the only
  safe file, and a power failure then leaves none (`root_pointer.rs:276`).
  `PublishedManifestSurvives` excepts it.
- Stock store: the default entry builds a store per call with page LSN 0, so the
  second call's record is refused by recovery (`vertical_slice_entry.rs:182`). A
  manifest with start 1 over an empty log is refused.
- Membership: two operators at once can get a fencing token of one epoch, since
  nothing locks the file between processes (`file_backed.rs:219`). A journal at
  its limit refuses every further command, promotions included
  (`membership_state_validation.rs:33`); nothing shortens it.
- Retention: a replica seeded in the middle of the log never moves its safe LSN
  and pins the log (`tracker.rs:170`).
- Undo: `next_undo_record` takes the oldest record of a chain, and its comment
  says the most recent (`undo.rs:129`).

## What is not modelled

The models stand for about 6,500 lines in 77 source files, some four percent of
the repository's Rust outside its tests. Nothing here speaks for the rest.

`PROJECT.json` lists every other part with the reason. Left out for good:
codecs and formats (pure encoding), the SRPL compiler and interpreter
(sequential, out of TLC's reach), stateless decisions (admission, resources,
optimizer, permissions), observability, hardware descriptors, benchmarks and
the command line. Within the modelled parts: a kernel that drops dirty pages
after a failed `fsync`; the detector's deadline and ordering limits; heap
updates and deletes, which no code logs; the in-memory quorum runtime, which
nothing persists; segment compaction.

## Plan

1. The audit journal: append, anchor, lock file and compaction under crashes.
2. Undo chains, startup classification and index rebuild, and the recovery of
   the buffer pool's pages composed with `BufferPool`.
3. Stream life cycle and result streams; catalog publication; backup and restore.
4. The B-tree's split and search against a reference map.
5. Proofs for `MvccStore` (`OneLiveChain`, `RepeatableReads`), `WalRetention`
   (`RemovedWasShipped`) and `StockRecovery` (`RefusedOnlyAfterLateFailure`).
