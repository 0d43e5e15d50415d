----------------------------- MODULE Savepoints -----------------------------
(***************************************************************************)
(* The savepoints of one transaction (crates/andromeda-savepoint): a stack *)
(* of named savepoints, each with a rollback marker, and the write set the *)
(* markers point into.  The two structures are separate in the code; the   *)
(* operations below are the pairs of calls that keep them together, as     *)
(* the crate documents them: a savepoint is created with the write set's   *)
(* rollback_ordinal, and a rollback hands the marker of the stack's target *)
(* to the write set.                                                       *)
(*                                                                         *)
(* Both Vecs are sets of records here: ids and ordinals are allocated in   *)
(* increasing order and entries are only pushed at the end or cut off at   *)
(* the end (surviving lock evidence is pushed back in its old order), so   *)
(* the position in the Vec is the order of the ids and of the ordinals.    *)
(***************************************************************************)
EXTENDS Integers

CONSTANTS SavepointName,   \* savepoint names, not empty
          MaxSavepointId,  \* largest value of next_id (u64::MAX)
          MaxOrdinal       \* largest value of next_ordinal (u64::MAX)

ASSUME BoundAssumption == MaxSavepointId \in Nat \ {0} /\ MaxOrdinal \in Nat \ {0}

\* Insert, Update, Delete and Custom are all undone, LockEvidence is not.
OperationKind == {"Write", "LockEvidence"}

VARIABLES next_id, stack,          \* SavepointStack
          next_ordinal, write_set    \* TxWriteSet

savepointVars == <<next_id, stack, next_ordinal, write_set>>

Savepoint == [id : 1 .. MaxSavepointId, name : SavepointName, rollback_ordinal : 0 .. MaxOrdinal]
WriteSetEntry == [ordinal : 1 .. MaxOrdinal, operation_kind : OperationKind]

Undoable(e) == e.operation_kind # "LockEvidence"

\* Mutant: the marker points at the next ordinal instead of the last one.
NextOrdinalInstead(es) == next_ordinal

\* The ordinal of the last entry, 0 if there is none.
rollback_ordinal(es) ==
  IF es = {} THEN 0
  ELSE CHOOSE o \in {e.ordinal : e \in es} : \A e \in es : e.ordinal <= o

record_operation(kind) ==
  /\ next_ordinal < MaxOrdinal
  /\ write_set' = write_set \cup {[ordinal |-> next_ordinal, operation_kind |-> kind]}
  /\ next_ordinal' = next_ordinal + 1
  /\ UNCHANGED <<next_id, stack>>

create_with_rollback_ordinal(n, ordinal) ==
  /\ \A s \in stack : s.name # n
  /\ next_id < MaxSavepointId
  /\ stack' = stack \cup {[id |-> next_id, name |-> n, rollback_ordinal |-> ordinal]}
  /\ next_id' = next_id + 1
  /\ UNCHANGED <<next_ordinal, write_set>>

\* Releasing a savepoint leaves the write set alone.
ReleaseSavepoint(s) ==
  /\ stack' = {d \in stack : d.id < s.id}
  /\ UNCHANGED <<next_id, next_ordinal, write_set>>

\* What the write set keeps; the other entries are returned to be undone.
rollback_to(es, marker) ==
  {e \in es : e.ordinal <= marker \/ ~ Undoable(e)}

\* Mutant: the descendants of the target stay on the stack.
KeepsDescendants(s) ==
  /\ write_set' = IF s.rollback_ordinal > rollback_ordinal(write_set) THEN write_set
                ELSE rollback_to(write_set, s.rollback_ordinal)
  /\ UNCHANGED <<next_id, stack, next_ordinal>>

\* The stack first drops the descendants of the target; the write set refuses
\* a marker that is ahead of it.
RollbackToSavepoint(s) ==
  /\ stack' = {d \in stack : d.id <= s.id}
  /\ write_set' = IF s.rollback_ordinal > rollback_ordinal(write_set) THEN write_set
                ELSE rollback_to(write_set, s.rollback_ordinal)
  /\ UNCHANGED <<next_id, next_ordinal>>

\* The transaction requests rollback: its savepoints are cleared and its writes
\* are drained.
full_rollback ==
  /\ stack' = {}
  /\ write_set' = {}
  /\ UNCHANGED <<next_id, next_ordinal>>

\* The transaction requests commit.
clear ==
  /\ stack' = {}
  /\ UNCHANGED <<next_id, next_ordinal, write_set>>

SavepointInit ==
  /\ next_id = 1 /\ stack = {}
  /\ next_ordinal = 1 /\ write_set = {}

\* The operations that do not create savepoints.
UseStack ==
  \/ \E kind \in OperationKind : record_operation(kind)
  \/ \E s \in stack : ReleaseSavepoint(s)
  \/ \E s \in stack : RollbackToSavepoint(s)
  \/ full_rollback
  \/ clear

SavepointNext ==
  \/ UseStack
  \/ \E n \in SavepointName : create_with_rollback_ordinal(n, rollback_ordinal(write_set))

SavepointSpec == SavepointInit /\ [][SavepointNext]_savepointVars

-----------------------------------------------------------------------------
SavepointTypeOK ==
  /\ next_id \in 1 .. MaxSavepointId
  /\ stack \subseteq Savepoint
  /\ next_ordinal \in 1 .. MaxOrdinal
  /\ write_set \subseteq WriteSetEntry

\* The refinement mapping: the writes a savepoint remembers are the undoable
\* entries up to its marker.
WritesUpTo(marker) ==
  {e.ordinal : e \in {d \in write_set : Undoable(d) /\ d.ordinal <= marker}}

Remembered(s) == [id |-> s.id, name |-> s.name, writes |-> WritesUpTo(s.rollback_ordinal)]

Nested == INSTANCE NestedSavepoints
            WITH Name    <- SavepointName,
                 WriteId <- 1 .. MaxOrdinal,
                 Id      <- 1 .. MaxSavepointId,
                 writes  <- WritesUpTo(MaxOrdinal),
                 saved   <- {Remembered(s) : s \in stack}

\* Rolling back to a savepoint gives back exactly the writes that were there when
\* it was created, for every nesting of savepoints and every mix of writes, partial
\* rollbacks, releases and lock evidence: markers and ordinals implement snapshots.
ImplementsNested == Nested!Spec

\* The write set never refuses the marker of an active savepoint: after the stack
\* has dropped the descendants of the target, "savepoint rollback marker is ahead
\* of the write-set" would leave the transaction half rolled back.
MarkersWithinWriteSet == \A s \in stack : s.rollback_ordinal <= rollback_ordinal(write_set)

\* The inductive invariant.  A marker is the ordinal of an entry that is still in
\* the write set (or 0), markers grow with the stack, and ids and ordinals are
\* unique and older than the counters.
MarkersAreEntries ==
  \A s \in stack : s.rollback_ordinal = 0 \/ \E e \in write_set : e.ordinal = s.rollback_ordinal

SavepointInv ==
  /\ SavepointTypeOK
  /\ \A e \in write_set : e.ordinal < next_ordinal
  /\ \A d, e \in write_set : d.ordinal = e.ordinal => d = e
  /\ \A s \in stack : s.id < next_id
  /\ \A r, s \in stack : r.id <= s.id => r.rollback_ordinal <= s.rollback_ordinal
  /\ \A r, s \in stack : r.id = s.id => r = s
  /\ MarkersAreEntries
=============================================================================
