--------------------------- MODULE LockCoordinator ---------------------------
(***************************************************************************)
(* The lock coordinator of crates/andromeda-transaction: lock calls made   *)
(* on behalf of the transactions of a TransactionManager.  Each call first *)
(* validates the transaction under the manager's mutex, lets that mutex    *)
(* go, and then runs on the LockManager under the lock table's own mutex:  *)
(* other threads may do anything in between.                               *)
(***************************************************************************)
EXTENDS TransactionManager, FiniteSets

CONSTANTS Thread,             \* threads that make coordinator calls
          Resource, Mode,     \* of the lock manager
          MaxSequence

VARIABLES entries, tracked, next_sequence,   \* the lock manager
          calls,     \* thread -> its validated call, NoCall if it is in none
          cleaned,   \* history: the transactions whose release_all has returned
          overtaken  \* history: those of them that another thread was inside acquire
                     \* for when their last release_all ran

lockVars == <<entries, tracked, next_sequence>>
coordVars == <<vars, lockVars, calls, cleaned, overtaken>>

ASSUME CoordinatorAssumption == MaxSequence \in Nat

Locks == INSTANCE LockManager WITH Tx <- TransactionId

NoCall == [op |-> "none"]
Call == [op : {"acquire"}, tx : TransactionId, resource : Resource, mode : Mode]
          \cup [op : {"release"}, tx : TransactionId, resource : Resource]
          \cup [op : {"release_all"}, tx : TransactionId]

\* Some thread has validated an acquire for the transaction and not made it yet.
InAcquire(id) == \E th \in Thread : calls[th].op = "acquire" /\ calls[th].tx = id

-----------------------------------------------------------------------------
(* The validations (manager_core.rs).                                      *)

\* Mutant: any registered transaction may acquire.
AnyLiveMayAcquire(id) == live[id] # "None"

require_lock_acquire_transaction(id) == live[id] = "Active" /\ status[id] = "InFlight"

\* Mutant: the two-phase check of release is left out.
AnyInFlightMayRelease(id) == status[id] = "InFlight"

require_known_transaction(id) ==
  status[id] = "InFlight" /\ live[id] \in {"Committing", "RollingBack"}

require_terminal_cleanup_transaction(id) == status[id] \in {"Committed", "RolledBack"}

Validated(c) ==
  \/ c.op = "acquire" /\ require_lock_acquire_transaction(c.tx)
  \/ c.op = "release" /\ require_known_transaction(c.tx)
  \/ c.op = "release_all" /\ require_terminal_cleanup_transaction(c.tx)

\* First half of acquire, release and release_all.
Validate(th, c) ==
  /\ calls[th] = NoCall
  /\ Validated(c)
  /\ calls' = [calls EXCEPT ![th] = c]
  /\ UNCHANGED <<vars, lockVars, cleaned, overtaken>>

\* Second half.
Return(th) ==
  /\ calls' = [calls EXCEPT ![th] = NoCall]
  /\ UNCHANGED vars

Acquire(th) ==
  /\ calls[th].op = "acquire"
  /\ Locks!acquire(calls[th].tx, calls[th].resource, calls[th].mode)
  /\ Return(th)
  /\ UNCHANGED <<cleaned, overtaken>>

Release(th) ==
  /\ calls[th].op = "release"
  /\ \/ Locks!release(calls[th].tx, calls[th].resource)
     \/ calls[th].resource \notin tracked /\ UNCHANGED lockVars
  /\ Return(th)
  /\ UNCHANGED <<cleaned, overtaken>>

ReleaseAll(th) ==
  /\ calls[th].op = "release_all"
  /\ Locks!release_all(calls[th].tx)
  /\ cleaned' = cleaned \cup {calls[th].tx}
  /\ overtaken' = IF InAcquire(calls[th].tx) THEN overtaken \cup {calls[th].tx}
                  ELSE overtaken \ {calls[th].tx}
  /\ Return(th)

\* A call of the transaction manager, by any thread.
Manage ==
  /\ \/ allocate
     \/ \E floor \in 0 .. MaxId : seed(floor)
     \/ \E id \in TransactionId : begin_inner(id) \/ ChangeState(id) \/ UseSavepoints(id)
  /\ UNCHANGED <<lockVars, calls, cleaned, overtaken>>

CoordInit ==
  /\ Init
  /\ Locks!Init
  /\ calls = [th \in Thread |-> NoCall]
  /\ cleaned = {} /\ overtaken = {}

CoordNext ==
  \/ Manage
  \/ \E th \in Thread : \/ \E c \in Call : Validate(th, c)
                        \/ Acquire(th) \/ Release(th) \/ ReleaseAll(th)

CoordSpec == CoordInit /\ [][CoordNext]_coordVars

-----------------------------------------------------------------------------
Holding(id) == {r \in Resource : Locks!Holds(entries[r], id)}
Waiting(id) == {r \in Resource : \E w \in entries[r].waiters : w.tx_id = id}

\* Two phases: no lock is given up before the transaction has requested commit or
\* rollback, whoever's call it is that changes the table.
LocksKeptWhileGrowing ==
  [][\A id \in TransactionId :
       Holding(id) \subseteq Holding(id)' \/ live[id] \notin {"Active", "Failed", "Poisoned"}]_coordVars

\* "All lock records are removed atomically, completing the 2PL protocol"
\* (lock_coordinator.rs, release_all), and "no new lock acquisitions are permitted" past
\* the growing phase (acquire): a transaction that has been cleaned up is never in
\* the lock table again, as a holder that nobody would release or as a waiter that
\* would be promoted later.
CleanedHoldsNothing ==
  \A id \in cleaned : Holding(id) = {} /\ Waiting(id) = {}

\* The acquire that was under way when release_all ran is the only way back: a
\* release_all that overtakes no acquire of its transaction removes the transaction from
\* the table for good, whatever releases, promotions and later calls follow.
OnlyOvertakenReturn ==
  \A id \in cleaned \ overtaken : Holding(id) = {} /\ Waiting(id) = {}
=============================================================================
