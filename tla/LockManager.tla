---------------------------- MODULE LockManager ----------------------------
(***************************************************************************)
(* The lock manager of crates/andromeda-locking: a table of resources,     *)
(* each with the transactions that hold a lock on it and a FIFO queue of   *)
(* the transactions that wait for one.  Every operation runs under the     *)
(* mutex `inner`, so each is one action.  No call blocks: a request that   *)
(* cannot be granted is queued, and a later release promotes it.           *)
(*                                                                         *)
(* A queue (a VecDeque) is the set of its waiter records: a record is      *)
(* pushed at the back with the sequence number allocated under the mutex,  *)
(* so the position in the deque is the order of the sequence numbers.      *)
(***************************************************************************)
EXTENDS Integers, FiniteSets

CONSTANTS Tx,           \* non-zero transaction ids
          Resource,     \* lock resources
          Mode,         \* the lock modes the transactions ask for
          MaxSequence   \* largest value of the sequence counter (u64::MAX)

LockMode == {"Shared", "Exclusive", "IntentShared", "IntentExclusive",
             "SchemaShared", "SchemaExclusive"}

ASSUME ModeAssumption == Mode \subseteq LockMode
ASSUME SequenceAssumption == MaxSequence \in Nat

VARIABLES entries,        \* resource -> its holders and waiters
          tracked,        \* the resources that have an entry in the table
          next_sequence   \* last sequence number handed out

vars == <<entries, tracked, next_sequence>>

LockHolder == [tx_id : Tx, mode : Mode]
LockWaiter == [tx_id : Tx, mode : Mode, sequence : 1 .. MaxSequence]
LockEntry  == [holders : SUBSET LockHolder, waiters : SUBSET LockWaiter]

EmptyEntry == [holders |-> {}, waiters |-> {}]

-----------------------------------------------------------------------------
(* The mode tables of mode.rs.                                             *)

\* The pairs of modes that two transactions may hold at once.
CompatibleModes ==
  {<<"Shared", "Shared">>, <<"Shared", "IntentShared">>, <<"Shared", "SchemaShared">>,
   <<"IntentShared", "Shared">>, <<"IntentShared", "IntentShared">>,
   <<"IntentShared", "IntentExclusive">>, <<"IntentShared", "SchemaShared">>,
   <<"IntentExclusive", "IntentShared">>, <<"IntentExclusive", "IntentExclusive">>,
   <<"IntentExclusive", "SchemaShared">>,
   <<"SchemaShared", "Shared">>, <<"SchemaShared", "IntentShared">>,
   <<"SchemaShared", "IntentExclusive">>, <<"SchemaShared", "SchemaShared">>}

is_compatible_with(existing, requested) == <<existing, requested>> \in CompatibleModes

held_mode_covers_requested(held, requested) ==
  \/ held = "Exclusive" /\ requested \in {"Shared", "IntentShared", "IntentExclusive"}
  \/ held = "IntentExclusive" /\ requested = "IntentShared"
  \/ held = "SchemaExclusive" /\ requested = "SchemaShared"

is_v0_upgrade(held, requested) ==
  <<held, requested>> \in {<<"Shared", "Exclusive">>,
                           <<"IntentShared", "IntentExclusive">>,
                           <<"SchemaShared", "SchemaExclusive">>}

-----------------------------------------------------------------------------
(* Promotion of waiters (entry.rs).                                        *)

Holds(e, t) == \E h \in e.holders : h.tx_id = t
HeldBy(e, t) == CHOOSE h \in e.holders : h.tx_id = t

\* The front of the queue.
Front(e) == CHOOSE w \in e.waiters : \A v \in e.waiters : w.sequence <= v.sequence

waiter_is_compatible_with_holders(e, w) ==
  \A h \in e.holders : h.tx_id # w.tx_id => is_compatible_with(h.mode, w.mode)

\* Mutant: promotion forgets that the transaction may already hold the resource.
PushesSecondHolder(e, w) == e.holders \cup {[tx_id |-> w.tx_id, mode |-> w.mode]}

\* A transaction that already holds the resource has its record's mode replaced,
\* unless the held mode is the waiter's mode or covers it.
promote_waiter_to_holder(e, w) ==
  LET granted == [tx_id |-> w.tx_id, mode |-> w.mode]
  IN  IF Holds(e, w.tx_id)
      THEN LET h == HeldBy(e, w.tx_id)
           IN  IF h.mode = w.mode \/ held_mode_covers_requested(h.mode, w.mode)
               THEN e.holders
               ELSE (e.holders \ {h}) \cup {granted}
      ELSE e.holders \cup {granted}

FrontCanBePromoted(e) ==
  e.waiters # {} /\ waiter_is_compatible_with_holders(e, Front(e))

\* One iteration of the loop; an entry whose front is blocked is left alone.
PromoteFront(e) ==
  IF FrontCanBePromoted(e)
  THEN [holders |-> promote_waiter_to_holder(e, Front(e)),
        waiters |-> e.waiters \ {Front(e)}]
  ELSE e

\* Mutant: an `if` instead of the loop, only the front is promoted.
PromotesFrontOnly(e) == PromoteFront(e)

\* The loop pops one waiter in each iteration, so it has stopped after as many
\* iterations as there are waiters.
promote_compatible_waiters(e) ==
  LET run[i \in 0 .. Cardinality(e.waiters)] ==
        IF i = 0 THEN e ELSE PromoteFront(run[i - 1])
  IN  run[Cardinality(e.waiters)]

-----------------------------------------------------------------------------
(* acquire: the branches of one call, which returns as soon as one applies. *)

BlockingHolders(e, t, m) ==
  {h \in e.holders : h.tx_id # t /\ ~ is_compatible_with(h.mode, m)}

\* Mutant: acquire looks at the holders only, and lets a request overtake.
IgnoresOlderWaiters(e, m) == FALSE

HasOlderIncompatibleWaiter(e, m) ==
  \E w \in e.waiters : ~ is_compatible_with(w.mode, m)

\* Mutant: acquire looks at the queue only.
MustWaitForQueueOnly(e, t, m) == HasOlderIncompatibleWaiter(e, m)

MustWait(e, t, m) ==
  BlockingHolders(e, t, m) # {} \/ HasOlderIncompatibleWaiter(e, m)

AlreadyWaiting(e, t, m) == \E w \in e.waiters : w.tx_id = t /\ w.mode = m

\* The holder's own mode already serves the request, or cannot be converted.
HeldOrNotConvertible(e, t, m) ==
  /\ Holds(e, t)
  /\ LET held == HeldBy(e, t).mode
     IN  held = m \/ held_mode_covers_requested(held, m) \/ ~ is_v0_upgrade(held, m)

\* Granted.
AcquireGranted(t, r, m) ==
  LET e == entries[r]
  IN  /\ ~ Holds(e, t)
      /\ ~ AlreadyWaiting(e, t, m)
      /\ ~ MustWait(e, t, m)
      /\ entries' = [entries EXCEPT ![r].holders = @ \cup {[tx_id |-> t, mode |-> m]}]
      /\ tracked' = tracked \cup {r}
      /\ UNCHANGED next_sequence

\* Upgraded: the holder's record gets the requested mode in place.
AcquireUpgraded(t, r, m) ==
  LET e == entries[r]
  IN  /\ Holds(e, t)
      /\ ~ HeldOrNotConvertible(e, t, m)
      /\ ~ MustWait(e, t, m)
      /\ entries' = [entries EXCEPT ![r].holders =
                       (@ \ {HeldBy(e, t)}) \cup {[tx_id |-> t, mode |-> m]}]
      /\ UNCHANGED <<tracked, next_sequence>>

\* The request has to wait, and is not in the queue yet.
MustEnqueue(t, r, m) ==
  LET e == entries[r]
  IN  /\ ~ HeldOrNotConvertible(e, t, m)
      /\ ~ AlreadyWaiting(e, t, m)
      /\ MustWait(e, t, m)

\* Waiting, WaitingUpgrade.
AcquireWaiting(t, r, m) ==
  /\ MustEnqueue(t, r, m)
  /\ next_sequence < MaxSequence
  /\ next_sequence' = next_sequence + 1
  /\ entries' = [entries EXCEPT ![r].waiters =
                   @ \cup {[tx_id |-> t, mode |-> m, sequence |-> next_sequence + 1]}]
  /\ tracked' = tracked \cup {r}

\* AlreadyHeld, the repeated Waiting and WaitingUpgrade, and the two errors
\* (conversion not supported, sequence counter overflow): nothing changes.
AcquireUnchanged(t, r, m) ==
  LET e == entries[r]
  IN  /\ \/ HeldOrNotConvertible(e, t, m)
         \/ AlreadyWaiting(e, t, m) /\ (Holds(e, t) => MustWait(e, t, m))
         \/ MustEnqueue(t, r, m) /\ next_sequence = MaxSequence
      /\ UNCHANGED vars

acquire(t, r, m) ==
  \/ AcquireGranted(t, r, m)
  \/ AcquireUpgraded(t, r, m)
  \/ AcquireWaiting(t, r, m)
  \/ AcquireUnchanged(t, r, m)

-----------------------------------------------------------------------------
(* release and release_all.                                                *)

\* Mutant: the queue goes with the records of t.
RetainDropsQueue(e, t) ==
  IF \E w \in e.holders \cup e.waiters : w.tx_id = t
  THEN [holders |-> {h \in e.holders : h.tx_id # t}, waiters |-> {}]
  ELSE e

\* The entry without the records of t.
Retain(e, t) ==
  [holders |-> {h \in e.holders : h.tx_id # t},
   waiters |-> {w \in e.waiters : w.tx_id # t}]

\* Waiters are promoted only if a record of t was removed.
Released(e, t) ==
  IF Retain(e, t) = e THEN e ELSE promote_compatible_waiters(Retain(e, t))

\* An entry found empty is dropped, even if this call removed nothing from it.
release(t, r) ==
  /\ r \in tracked
  /\ entries' = [entries EXCEPT ![r] = Released(@, t)]
  /\ tracked' = IF Released(entries[r], t) = EmptyEntry THEN tracked \ {r} ELSE tracked
  /\ UNCHANGED next_sequence

\* Only the entries that lost a record are promoted or dropped.
release_all(t) ==
  /\ entries' = [r \in Resource |-> Released(entries[r], t)]
  /\ tracked' = {r \in tracked : Retain(entries[r], t) # entries[r]
                                   => Released(entries[r], t) # EmptyEntry}
  /\ UNCHANGED next_sequence

ensure_entry(r) ==
  /\ tracked' = tracked \cup {r}
  /\ UNCHANGED <<entries, next_sequence>>

-----------------------------------------------------------------------------
Init ==
  /\ entries = [r \in Resource |-> EmptyEntry]
  /\ tracked = {}
  /\ next_sequence = 0

Next ==
  \/ \E t \in Tx, r \in Resource, m \in Mode : acquire(t, r, m)
  \/ \E t \in Tx, r \in Resource : release(t, r)
  \/ \E t \in Tx : release_all(t)
  \/ \E r \in Resource : ensure_entry(r)

Spec == Init /\ [][Next]_vars
-----------------------------------------------------------------------------
(* Properties.                                                             *)

TypeOK ==
  /\ entries \in [Resource -> LockEntry]
  /\ tracked \subseteq Resource
  /\ next_sequence \in 0 .. MaxSequence

\* What every entry of the table satisfies.
HoldersExclude(e) ==
  \A g, h \in e.holders : g.tx_id # h.tx_id => is_compatible_with(g.mode, h.mode)

HoldersUnique(e) ==
  \A g, h \in e.holders : g.tx_id = h.tx_id => g = h

FrontBlocked(e) ==
  e.waiters # {} => ~ waiter_is_compatible_with_holders(e, Front(e))

QueueOrdered(e) ==
  \A v, w \in e.waiters :
    /\ v.sequence = w.sequence => v = w
    /\ v.tx_id = w.tx_id /\ v.mode = w.mode => v = w

\* The point of the lock table: two transactions never hold one resource in
\* modes that exclude each other, whatever mix of immediate grants, upgrades
\* in place and promotions by other transactions' releases got them there.
MutualExclusion == \A r \in Resource : HoldersExclude(entries[r])

\* A transaction has one holder record per resource: re-entry, upgrade and
\* promotion never leave a second one that a mode change would miss.
OneHolderPerTx == \A r \in Resource : HoldersUnique(entries[r])

\* No lost wakeup: a call never waits, so a queue moves only when some release
\* promotes its front.  Hence the front of every queue must be blocked by a lock
\* that another transaction still holds and will release; a front that nobody
\* blocks would wait for ever.
NoLostWakeup == \A r \in Resource : FrontBlocked(entries[r])

\* The table never forgets a resource that somebody holds or waits for: the
\* entry is dropped only when it is empty.
TrackedWhileInUse ==
  \A r \in Resource : entries[r] # EmptyEntry => r \in tracked

\* Sequence numbers order a queue: no two waiters share one, none is newer than
\* the counter, and a repeated request is not queued twice.
QueueWellFormed ==
  \A r \in Resource :
    /\ QueueOrdered(entries[r])
    /\ \A w \in entries[r].waiters : w.sequence <= next_sequence

\* The inductive invariant: the properties above hold together, and every queue
\* is finite (the promotion loop terminates).
LockInv ==
  /\ TypeOK
  /\ MutualExclusion
  /\ OneHolderPerTx
  /\ NoLostWakeup
  /\ TrackedWhileInUse
  /\ QueueWellFormed
  /\ \A r \in Resource : IsFiniteSet(entries[r].waiters)

\* FIFO fairness: no step gives a transaction a lock that excludes a request
\* still waiting, unless that transaction's own request is older.
NoBarging ==
  [][\A r \in Resource :
       \A h \in entries'[r].holders \ entries[r].holders :
       \A w \in entries[r].waiters \cap entries'[r].waiters :
         \/ is_compatible_with(w.mode, h.mode)
         \/ \E v \in entries[r].waiters :
              v.tx_id = h.tx_id /\ v.mode = h.mode /\ v.sequence < w.sequence]_vars
=============================================================================
