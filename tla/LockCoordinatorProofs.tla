----------------------- MODULE LockCoordinatorProofs ------------------------
(***************************************************************************)
(* Proofs about TransactionManager and about LockCoordinator, which adds   *)
(* the lock calls of threads to it, for every number of transaction ids,   *)
(* LSNs, savepoint names, threads, resources and lock modes.               *)
(***************************************************************************)
EXTENDS LockCoordinator, FiniteSetTheorems, TLAPS

-----------------------------------------------------------------------------
(* Natural numbers.  Induction is stated over sets, so that the provers    *)
(* can instantiate it.                                                     *)

\* A non-empty set of naturals has a least element.
LEMMA NatHasMin ==
  ASSUME NEW S \in SUBSET Nat, S # {}
  PROVE  \E x \in S : \A y \in S : x <= y
<1>1. PICK x \in S : \A y \in S : ~ (<<y, x>> \in OpToRel(<, Nat))
  BY NatLessThanWellFounded, WFMin, Zenon
<1>2. \A y \in S : ~ (y < x)
  BY <1>1, Zenon DEF OpToRel
<1>3. \A y \in S : x <= y
  BY <1>2
<1> QED
  BY <1>3

\* Induction along the iterations 0 .. n of a loop.
LEMMA LoopInduction ==
  ASSUME NEW n \in Nat, NEW S,
         0 \in S,
         \A i \in 1 .. n : i - 1 \in S => i \in S
  PROVE  \A i \in 0 .. n : i \in S
<1> DEFINE T == {i \in 0 .. n : i \notin S}
<1>1. SUFFICES ASSUME T # {} PROVE FALSE
  OBVIOUS
<1>2. PICK x \in T : \A y \in T : x <= y
  <2>1. T \in SUBSET Nat
    OBVIOUS
  <2> HIDE DEF T
  <2> QED BY <1>1, <2>1, NatHasMin
<1>3. x \in 1 .. n /\ x - 1 \in 0 .. n /\ ~(x <= x - 1)
  OBVIOUS
<1>4. x - 1 \in S
  BY <1>2, <1>3
<1> QED
  BY <1>3, <1>4


(***************************************************************************)
(* The transaction manager.                                                *)
(***************************************************************************)

\* The part of the invariant that savepoint calls cannot disturb.
StateTypeOK ==
  /\ last_issued \in 0 .. MaxId
  /\ issued \subseteq TransactionId
  /\ live \in [TransactionId -> LiveState \cup {"None"}]
  /\ evidence \in [TransactionId -> 0 .. MaxLsn]
  /\ status \in [TransactionId -> {"None", "InFlight", "Committed", "RolledBack"}]

StateInv == StateTypeOK /\ StatusMirrorsMachine /\ EndedOnEvidence /\ IdsAreFresh

\* A new or recovered manager satisfies the invariant.
LEMMA InitInv == Init => StateInv
<1> SUFFICES ASSUME Init PROVE StateInv
  OBVIOUS
<1> USE DEF Init
<1>1. StateTypeOK
  BY IdAssumption, LsnAssumption DEF StateTypeOK, LiveState, InFlightState, TransactionId
<1>2. StatusMirrorsMachine
  BY DEF StatusMirrorsMachine, InFlightState
<1>3. EndedOnEvidence
  BY DEF EndedOnEvidence
<1>4. IdsAreFresh
  BY DEF IdsAreFresh
<1> QED
  BY <1>1, <1>2, <1>3, <1>4 DEF StateInv

\* A transition of one machine that leaves the status alone, because both states
\* are in flight or the machine is disposed.
LEMMA MachineStep ==
  ASSUME StateInv, NEW id \in TransactionId, NEW s \in LiveState \cup {"None"},
         live' = [live EXCEPT ![id] = s],
         UNCHANGED <<last_issued, issued, status>>,
         \/ live[id] \in InFlightState /\ s \in InFlightState /\ UNCHANGED evidence
         \/ /\ live[id] \in {"Committed", "RolledBack"} /\ s = "None"
            /\ evidence' = [evidence EXCEPT ![id] = 0]
  PROVE  StateInv'
<1> USE DEF StateInv
<1>1. StateTypeOK'
  BY LsnAssumption DEF StateTypeOK
<1>2. StatusMirrorsMachine'
  BY DEF StateTypeOK, StatusMirrorsMachine, InFlightState, LiveState
<1>3. EndedOnEvidence'
  BY DEF StateTypeOK, EndedOnEvidence, InFlightState, LiveState
<1>4. id \notin issued
  BY DEF IdsAreFresh, InFlightState
<1>5. IdsAreFresh'
  BY <1>4 DEF StateTypeOK, IdsAreFresh
<1> QED
  BY <1>1, <1>2, <1>3, <1>5

\* The end of a transaction on durable evidence.
LEMMA EndStep ==
  ASSUME StateInv, NEW id \in TransactionId, NEW s \in {"Committed", "RolledBack"},
         NEW lsn \in 0 .. MaxLsn, lsn # 0,
         live[id] \in InFlightState,
         live' = [live EXCEPT ![id] = s],
         status' = [status EXCEPT ![id] = s],
         evidence' = [evidence EXCEPT ![id] = lsn],
         UNCHANGED <<last_issued, issued>>
  PROVE  StateInv'
<1> USE DEF StateInv
<1>1. StateTypeOK'
  BY DEF StateTypeOK, LiveState
<1>2. StatusMirrorsMachine'
  BY DEF StateTypeOK, StatusMirrorsMachine, InFlightState, LiveState
<1>3. EndedOnEvidence'
  BY DEF StateTypeOK, EndedOnEvidence, InFlightState, LiveState
<1>4. status[id] = "InFlight" /\ live[id] # "None"
  BY DEF StatusMirrorsMachine, InFlightState
<1>5. IdsAreFresh'
  BY <1>4 DEF StateTypeOK, IdsAreFresh
<1> QED
  BY <1>1, <1>2, <1>3, <1>5

\* The entry a transition adds is named by the transition.
LEMMA ApplyStep ==
  ASSUME NEW id \in TransactionId, NEW event, apply(id, event)
  PROVE  \E s \in LiveState \cup {"None"} :
           /\ live' = [live EXCEPT ![id] = s]
           /\ event \in {"CommitRequested", "RollbackRequested", "Fail", "Poison"} =>
                live[id] \in InFlightState /\ s \in InFlightState
           /\ event = "Dispose" => live[id] \in {"Committed", "RolledBack"} /\ s = "None"
           /\ event = "DurableWalFlushed" => live[id] \in InFlightState /\ s = "Committed"
           /\ event = "RollbackComplete" => live[id] \in InFlightState /\ s = "RolledBack"
<1>1. PICK s \in LiveState \cup {"None"} :
        <<live[id], event, s>> \in Transitions /\ live' = [live EXCEPT ![id] = s]
  BY DEF apply
<1> WITNESS s \in LiveState \cup {"None"}
<1> QED
  BY <1>1 DEF Transitions, InFlightState

\* A begin registers its id: neither of its checks can fail.
LEMMA BeginStep ==
  ASSUME StateInv, NEW id \in TransactionId, begin_inner(id)
  PROVE  /\ id \in issued /\ live[id] = "None" /\ status[id] = "None"
         /\ issued' = issued \ {id}
         /\ live' = [live EXCEPT ![id] = "Active"]
         /\ status' = [status EXCEPT ![id] = "InFlight"]
         /\ UNCHANGED <<last_issued, evidence>>
<1>1. id \in issued /\ live[id] = "None" /\ status[id] = "None"
  BY DEF begin_inner, StateInv, IdsAreFresh
<1> QED
  BY <1>1 DEF begin_inner

\* Allocation, recovery seeds and registration keep ids fresh.
LEMMA AllocatorStep ==
  ASSUME StateInv,
         \/ allocate
         \/ \E floor \in 0 .. MaxId : seed(floor)
         \/ \E id \in TransactionId : begin_inner(id)
  PROVE  StateInv'
<1> USE DEF StateInv
<1>1. CASE allocate
  <2>1. last_issued + 1 \in TransactionId
    BY <1>1, IdAssumption DEF allocate, StateTypeOK, TransactionId
  <2>2. live[last_issued + 1] = "None" /\ status[last_issued + 1] = "None"
    BY <2>1, <1>1 DEF IdsAreFresh, StatusMirrorsMachine, StateTypeOK, LiveState, TransactionId
  <2>3. StateTypeOK'
    BY <2>1, <1>1, IdAssumption DEF allocate, StateTypeOK, TransactionId
  <2>4. IdsAreFresh'
    BY <2>1, <2>2, <1>1 DEF allocate, IdsAreFresh, StateTypeOK, TransactionId
  <2> QED
    BY <2>3, <2>4, <1>1 DEF allocate, StatusMirrorsMachine, EndedOnEvidence
<1>2. ASSUME NEW floor \in 0 .. MaxId, seed(floor) PROVE StateInv'
  <2>1. StateTypeOK' /\ IdsAreFresh'
    BY <1>2, IdAssumption DEF seed, IdsAreFresh, StateTypeOK, TransactionId
  <2> QED
    BY <2>1, <1>2 DEF seed, StatusMirrorsMachine, EndedOnEvidence
<1>3. ASSUME NEW id \in TransactionId, begin_inner(id) PROVE StateInv'
  <2>1. /\ id \in issued /\ live[id] = "None" /\ status[id] = "None"
        /\ issued' = issued \ {id}
        /\ live' = [live EXCEPT ![id] = "Active"]
        /\ status' = [status EXCEPT ![id] = "InFlight"]
        /\ UNCHANGED <<last_issued, evidence>>
    BY <1>3, BeginStep
  <2>2. StateTypeOK'
    BY <2>1 DEF StateTypeOK, LiveState, InFlightState
  <2>3. StatusMirrorsMachine'
    BY <2>1 DEF StatusMirrorsMachine, StateTypeOK, InFlightState
  <2>4. EndedOnEvidence'
    BY <2>1 DEF EndedOnEvidence, StateTypeOK
  <2>5. IdsAreFresh'
    BY <2>1 DEF IdsAreFresh, StateTypeOK
  <2> QED
    BY <2>2, <2>3, <2>4, <2>5
<1> QED
  BY <1>1, <1>2, <1>3

\* Every step of the manager preserves the invariant.
LEMMA NextInv == StateInv /\ [Next]_vars => StateInv'
<1> SUFFICES ASSUME StateInv, [Next]_vars PROVE StateInv'
  OBVIOUS
<1>1. CASE UNCHANGED vars
  BY <1>1 DEF vars, StateInv, StateTypeOK, StatusMirrorsMachine, EndedOnEvidence, IdsAreFresh
<1>2. CASE \/ allocate
           \/ \E floor \in 0 .. MaxId : seed(floor)
           \/ \E id \in TransactionId : begin_inner(id)
  BY <1>2, AllocatorStep
<1>3. ASSUME NEW id \in TransactionId,
             request_commit(id) \/ request_rollback(id) \/ poison(id) \/ fail(id)
      PROVE  StateInv'
  <2>1. PICK event \in {"CommitRequested", "RollbackRequested", "Fail", "Poison"} :
          apply(id, event)
    BY <1>3 DEF request_commit, request_rollback, poison, fail
  <2>2. UNCHANGED <<last_issued, issued, status, evidence>>
    BY <1>3 DEF request_commit, request_rollback, poison, fail
  <2> QED
    BY <2>1, <2>2, ApplyStep, MachineStep
<1>4. ASSUME NEW id \in TransactionId, dispose(id) PROVE StateInv'
  BY <1>4, ApplyStep, MachineStep DEF dispose
<1>5. ASSUME NEW id \in TransactionId, NEW record_lsn \in 0 .. MaxLsn,
             NEW durable_lsn \in 0 .. MaxLsn,
             commit_durable_after_wal_record(id, record_lsn, durable_lsn)
      PROVE  StateInv'
  BY <1>5, ApplyStep, EndStep
     DEF commit_durable_after_wal_record, validate_terminal_durable_evidence
<1>6. ASSUME NEW id \in TransactionId, NEW record_lsn \in 0 .. MaxLsn,
             NEW durable_lsn \in 0 .. MaxLsn,
             rollback_durable_after_wal_record(id, record_lsn, durable_lsn)
      PROVE  StateInv'
  BY <1>6, ApplyStep, EndStep
     DEF rollback_durable_after_wal_record, validate_terminal_durable_evidence
<1>7. ASSUME NEW id \in TransactionId, UseSavepoints(id) PROVE StateInv'
  BY <1>7 DEF UseSavepoints, create_savepoint, release_savepoint, rollback_to_savepoint,
       StateInv, StateTypeOK, StatusMirrorsMachine, EndedOnEvidence, IdsAreFresh
<1> QED
  BY <1>1, <1>2, <1>3, <1>4, <1>5, <1>6, <1>7 DEF Next, ChangeState

\* StateInv holds in every reachable state.
THEOREM ManagerInvariant == Spec => []StateInv
BY InitInv, NextInv, PTL DEF Spec

\* Readers of the status table and the state machines never disagree, in particular
\* a status is terminal only when the machine ended on durable evidence
\* (manager_core.rs, the methods ending in _after_wal_record).
THEOREM StatusAlwaysMirrors == Spec => [](StatusMirrorsMachine /\ EndedOnEvidence)
<1>1. StateInv => StatusMirrorsMachine /\ EndedOnEvidence
  BY DEF StateInv
<1> QED
  BY <1>1, ManagerInvariant, PTL

\* No id is given out twice by allocate, seed and begin (allocator.rs).
THEOREM IdsAlwaysFresh == Spec => []IdsAreFresh
<1>1. StateInv => IdsAreFresh
  BY DEF StateInv
<1> QED
  BY <1>1, ManagerInvariant, PTL

\* One step never changes an outcome.
LEMMA OutcomeStep ==
  StateInv /\ [Next]_vars =>
    [\A id \in TransactionId :
       status[id] \in {"Committed", "RolledBack"} => status'[id] = status[id]]_vars
<1> SUFFICES ASSUME StateInv, Next, NEW t \in TransactionId,
                    status[t] \in {"Committed", "RolledBack"}
             PROVE  status'[t] = status[t]
  OBVIOUS
<1>1. t \notin issued
  BY DEF StateInv, IdsAreFresh
<1>2. live[t] \notin InFlightState
  BY DEF StateInv, StatusMirrorsMachine
<1>3. ASSUME NEW id \in TransactionId, begin_inner(id) PROVE status'[t] = status[t]
  BY <1>3, <1>1, BeginStep DEF StateInv, StateTypeOK
<1>4. ASSUME NEW id \in TransactionId, NEW record_lsn \in 0 .. MaxLsn,
             NEW durable_lsn \in 0 .. MaxLsn,
             \/ commit_durable_after_wal_record(id, record_lsn, durable_lsn)
             \/ rollback_durable_after_wal_record(id, record_lsn, durable_lsn)
      PROVE  status'[t] = status[t]
  <2>1. live[id] \in InFlightState
    BY <1>4, ApplyStep DEF commit_durable_after_wal_record, rollback_durable_after_wal_record
  <2> QED
    BY <2>1, <1>4, <1>2 DEF commit_durable_after_wal_record,
       rollback_durable_after_wal_record, StateInv, StateTypeOK
<1>5. CASE UNCHANGED status
  BY <1>5
<1> QED
  BY <1>3, <1>4, <1>5 DEF Next, ChangeState, UseSavepoints, allocate, seed, request_commit,
     request_rollback, poison, fail, dispose, create_savepoint, release_savepoint,
     rollback_to_savepoint

\* An outcome is final: commits stay committed and rollbacks rolled back, after
\* dispose too (manager_core.rs, dispose keeps the status entry).
THEOREM OutcomeAlwaysFinal == Spec => OutcomeIsFinal
BY ManagerInvariant, OutcomeStep, PTL DEF Spec, OutcomeIsFinal

(***************************************************************************)
(* The lock coordinator.                                                   *)
(***************************************************************************)

Owners(e) == {h.tx_id : h \in e.holders}
Queued(e) == {w.tx_id : w \in e.waiters}

TypedEntry(e) == e \in Locks!LockEntry /\ IsFiniteSet(e.waiters)

\* From e to f, waiters leave the queue, some of them as new owners, and no owner
\* goes: what promotion does to an entry.
OnlyPromotes(e, f) ==
  /\ TypedEntry(f)
  /\ f.waiters \subseteq e.waiters
  /\ Owners(e) \subseteq Owners(f) /\ Owners(f) \subseteq Owners(e) \cup Queued(e)

\* A non-empty queue has a front.
LEMMA FrontInQueue ==
  ASSUME NEW e, TypedEntry(e), e.waiters # {}
  PROVE  Locks!Front(e) \in e.waiters
<1> DEFINE S == {w.sequence : w \in e.waiters}
<1>1. S \in SUBSET Nat /\ S # {}
  BY CoordinatorAssumption DEF TypedEntry, Locks!LockEntry, Locks!LockWaiter
<1>2. PICK x \in S : \A y \in S : x <= y
  <2> HIDE DEF S
  <2> QED BY <1>1, NatHasMin
<1>3. \E w \in e.waiters : \A v \in e.waiters : w.sequence <= v.sequence
  BY <1>2
<1> QED
  BY <1>3 DEF Locks!Front

\* One iteration of the promotion loop.
LEMMA PromoteFrontOnlyPromotes ==
  ASSUME NEW e, TypedEntry(e)
  PROVE  OnlyPromotes(e, Locks!PromoteFront(e))
<1>1. CASE ~ Locks!FrontCanBePromoted(e)
  BY <1>1 DEF Locks!PromoteFront, OnlyPromotes
<1>2. CASE Locks!FrontCanBePromoted(e)
  <2> DEFINE w == Locks!Front(e)
             n == [tx_id |-> w.tx_id, mode |-> w.mode]
             hs == Locks!promote_waiter_to_holder(e, w)
             f == [holders |-> hs, waiters |-> e.waiters \ {w}]
  <2>1. Locks!PromoteFront(e) = f
    BY <1>2 DEF Locks!PromoteFront
  <2>2. w \in e.waiters
    BY <1>2, FrontInQueue DEF Locks!FrontCanBePromoted
  <2>3. n \in Locks!LockHolder /\ n.tx_id = w.tx_id /\ w.tx_id \in Queued(e)
    BY <2>2 DEF TypedEntry, Locks!LockEntry, Locks!LockWaiter, Locks!LockHolder, Queued
  <2>4. hs = e.holders \/ hs = e.holders \cup {n}
          \/ (\E h \in e.holders : h.tx_id = w.tx_id /\ hs = (e.holders \ {h}) \cup {n})
    BY DEF Locks!promote_waiter_to_holder, Locks!Holds, Locks!HeldBy
  <2>5. IsFiniteSet(e.waiters \ {w})
    BY <2>2, FS_RemoveElement DEF TypedEntry
  <2> HIDE DEF w, n, hs
  <2>6. f.holders = hs /\ f.waiters = e.waiters \ {w}
    OBVIOUS
  <2>7. hs \subseteq e.holders \cup {n}
    BY <2>4
  <2>8. TypedEntry(f)
    BY <2>3, <2>5, <2>7 DEF TypedEntry, Locks!LockEntry
  <2>9. Owners(f) \subseteq Owners(e) \cup Queued(e)
    BY <2>3, <2>6, <2>7 DEF Owners
  <2>10. Owners(e) \subseteq Owners(f)
    <3>1. \A h \in e.holders : \E g \in hs : g.tx_id = h.tx_id
      BY <2>3, <2>4
    <3> QED BY <2>6, <3>1 DEF Owners
  <2> QED BY <2>1, <2>6, <2>8, <2>9, <2>10 DEF OnlyPromotes
<1> QED
  BY <1>1, <1>2

\* The promotion loop runs: its equation has a solution.
LEMMA PromotionRuns ==
  ASSUME NEW e, NEW n \in Nat
  PROVE  \E g : g = [i \in 0 .. n |-> IF i = 0 THEN e ELSE Locks!PromoteFront(g[i - 1])]
<1> DEFINE IsRun(g, k) ==
             g = [i \in 0 .. k |-> IF i = 0 THEN e ELSE Locks!PromoteFront(g[i - 1])]
           S == {k \in 0 .. n : \E g : IsRun(g, k)}
<1>1. 0 \in S
  <2>1. IsRun([i \in 0 .. 0 |-> e], 0)
    OBVIOUS
  <2>2. \E g : IsRun(g, 0)
    BY <2>1
  <2> HIDE DEF IsRun
  <2> QED BY <2>2
<1>2. \A k \in 1 .. n : k - 1 \in S => k \in S
  <2>1. SUFFICES ASSUME NEW k \in 1 .. n, NEW g, IsRun(g, k - 1)
                 PROVE  \E h : IsRun(h, k)
    OBVIOUS
  <2> DEFINE h == [i \in 0 .. k |-> IF i = k THEN Locks!PromoteFront(g[k - 1]) ELSE g[i]]
  <2>2. \A i \in 0 .. k : h[i] = IF i = 0 THEN e ELSE Locks!PromoteFront(h[i - 1])
    <3>1. \A i \in 0 .. k - 1 : h[i] = g[i]
      OBVIOUS
    <3>2. \A i \in 0 .. k - 1 : g[i] = IF i = 0 THEN e ELSE Locks!PromoteFront(g[i - 1])
      BY <2>1
    <3>3. h[k] = Locks!PromoteFront(g[k - 1])
      OBVIOUS
    <3> HIDE DEF h
    <3> QED BY <3>1, <3>2, <3>3
  <2>3. IsRun(h, k)
    BY <2>2
  <2> QED BY <2>3
<1>3. n \in S
  <2> HIDE DEF S
  <2> QED BY <1>1, <1>2, LoopInduction
<1> QED
  BY <1>3

\* The whole loop only promotes.
LEMMA PromotionOnlyPromotes ==
  ASSUME NEW e, TypedEntry(e)
  PROVE  OnlyPromotes(e, Locks!promote_compatible_waiters(e))
<1> DEFINE n == Cardinality(e.waiters)
           run == CHOOSE g : g = [i \in 0 .. n |->
                                    IF i = 0 THEN e ELSE Locks!PromoteFront(g[i - 1])]
           S == {i \in 0 .. n : OnlyPromotes(e, run[i])}
<1>1. n \in Nat
  BY FS_CardinalityType DEF TypedEntry
<1>2. Locks!promote_compatible_waiters(e) = run[n]
  <2>1. Locks!Cardinality(e.waiters) = n
    BY DEF Locks!Cardinality, Cardinality
  <2> QED BY <2>1 DEF Locks!promote_compatible_waiters
<1>3. run = [i \in 0 .. n |-> IF i = 0 THEN e ELSE Locks!PromoteFront(run[i - 1])]
  <2> HIDE DEF n
  <2> QED BY <1>1, PromotionRuns
<1> HIDE DEF run
<1>4. 0 \in S
  <2>1. run[0] = e
    BY <1>1, <1>3
  <2> QED BY <1>1, <2>1 DEF OnlyPromotes
<1>5. \A i \in 1 .. n : i - 1 \in S => i \in S
  <2>1. SUFFICES ASSUME NEW i \in 1 .. n, OnlyPromotes(e, run[i - 1])
                 PROVE  OnlyPromotes(e, run[i])
    BY <1>1
  <2>2. run[i] = Locks!PromoteFront(run[i - 1])
    BY <1>1, <1>3
  <2>3. OnlyPromotes(run[i - 1], run[i])
    BY <2>1, <2>2, PromoteFrontOnlyPromotes DEF OnlyPromotes
  <2>4. Queued(run[i - 1]) \subseteq Queued(e)
    BY <2>1 DEF OnlyPromotes, Queued
  <2> QED BY <2>1, <2>3, <2>4 DEF OnlyPromotes
<1>6. n \in S
  <2> HIDE DEF S, n
  <2> QED BY <1>1, <1>4, <1>5, LoopInduction
<1> QED
  BY <1>2, <1>6

\* A release or release_all takes the transaction out of the entry, and nobody else.
LEMMA ReleasedEntry ==
  ASSUME NEW e, TypedEntry(e), NEW t, NEW f, f = Locks!Released(e, t)
  PROVE  /\ TypedEntry(f)
         /\ t \notin Owners(f) \cup Queued(f)
         /\ Queued(f) \subseteq Queued(e)
         /\ Owners(e) \ {t} \subseteq Owners(f)
         /\ Owners(f) \subseteq Owners(e) \cup Queued(e)
<1> DEFINE k == Locks!Retain(e, t)
<1>1. /\ k.holders = {h \in e.holders : h.tx_id # t}
      /\ k.waiters = {w \in e.waiters : w.tx_id # t}
      /\ k \in Locks!LockEntry
  BY DEF Locks!Retain, TypedEntry, Locks!LockEntry
<1>2. CASE k = e
  <2>1. f = e
    BY <1>2 DEF Locks!Released
  <2> HIDE DEF k
  <2> QED BY <1>1, <1>2, <2>1 DEF Owners, Queued
<1>3. CASE k # e
  <2>1. f = Locks!promote_compatible_waiters(k)
    BY <1>3 DEF Locks!Released
  <2> HIDE DEF k
  <2>2. TypedEntry(k)
    BY <1>1, FS_Subset DEF TypedEntry
  <2>3. OnlyPromotes(k, f)
    BY <2>1, <2>2, PromotionOnlyPromotes
  <2>4. /\ Owners(k) = Owners(e) \ {t} /\ Queued(k) = Queued(e) \ {t}
    BY <1>1 DEF Owners, Queued
  <2>5. Queued(f) \subseteq Queued(k)
    BY <2>3 DEF OnlyPromotes, Queued
  <2> QED BY <2>3, <2>4, <2>5 DEF OnlyPromotes
<1> QED
  BY <1>2, <1>3

\* From entry e to f only the records of t are added or replaced.
OnlyAdds(e, f, t) ==
  /\ TypedEntry(f)
  /\ Queued(f) \subseteq Queued(e) \cup {t}
  /\ Owners(e) \subseteq Owners(f) /\ Owners(f) \subseteq Owners(e) \cup {t}

\* The type of the lock table.
TableOK ==
  /\ DOMAIN entries = Resource
  /\ \A r \in Resource : TypedEntry(entries[r])
  /\ next_sequence \in 0 .. MaxSequence

\* acquire adds records of the calling transaction, and no others.
LEMMA AcquireAdds ==
  ASSUME TableOK, NEW t \in TransactionId, NEW r \in Resource, NEW m \in Mode,
         Locks!acquire(t, r, m)
  PROVE  TableOK' /\ \A s \in Resource : OnlyAdds(entries[s], entries'[s], t)
<1> DEFINE e == entries[r]
           h == [tx_id |-> t, mode |-> m]
<1>0. /\ \A s \in Resource : TypedEntry(entries[s]) /\ OnlyAdds(entries[s], entries[s], t)
      /\ e \in Locks!LockEntry /\ IsFiniteSet(e.waiters)
      /\ h \in Locks!LockHolder /\ h.tx_id = t
  BY DEF TableOK, TypedEntry, OnlyAdds, Locks!LockHolder
<1>1. ASSUME NEW f, OnlyAdds(e, f, t), entries' = [entries EXCEPT ![r] = f],
             next_sequence' \in 0 .. MaxSequence
      PROVE  TableOK' /\ \A s \in Resource : OnlyAdds(entries[s], entries'[s], t)
  BY <1>0, <1>1 DEF TableOK, OnlyAdds
<1>2. CASE Locks!AcquireGranted(t, r, m)
  <2> DEFINE f == [e EXCEPT !.holders = @ \cup {h}]
  <2>1. f.holders = e.holders \cup {h} /\ f.waiters = e.waiters /\ f \in Locks!LockEntry
    BY <1>0 DEF Locks!LockEntry
  <2>2. entries' = [entries EXCEPT ![r] = f] /\ next_sequence' = next_sequence
    BY <1>2 DEF Locks!AcquireGranted
  <2> HIDE DEF f, h, e
  <2>3. OnlyAdds(e, f, t)
    BY <1>0, <2>1 DEF OnlyAdds, TypedEntry, Owners, Queued
  <2> QED BY <1>1, <2>2, <2>3 DEF TableOK
<1>3. CASE Locks!AcquireUpgraded(t, r, m)
  <2> DEFINE k == Locks!HeldBy(e, t)
             f == [e EXCEPT !.holders = (@ \ {k}) \cup {h}]
  <2>1. f.holders = (e.holders \ {k}) \cup {h} /\ f.waiters = e.waiters /\ f \in Locks!LockEntry
    BY <1>0 DEF Locks!LockEntry
  <2>2. entries' = [entries EXCEPT ![r] = f] /\ next_sequence' = next_sequence
    BY <1>3 DEF Locks!AcquireUpgraded
  <2>3. k \in e.holders /\ k.tx_id = t
    BY <1>3 DEF Locks!AcquireUpgraded, Locks!Holds, Locks!HeldBy
  <2> HIDE DEF f, h, e, k
  <2>4. OnlyAdds(e, f, t)
    BY <1>0, <2>1, <2>3 DEF OnlyAdds, TypedEntry, Owners, Queued
  <2> QED BY <1>1, <2>2, <2>4 DEF TableOK
<1>4. CASE Locks!AcquireWaiting(t, r, m)
  <2> DEFINE q == next_sequence + 1
             w == [tx_id |-> t, mode |-> m, sequence |-> q]
             f == [e EXCEPT !.waiters = @ \cup {w}]
  <2>1. q \in 1 .. MaxSequence /\ q \in 0 .. MaxSequence
    BY <1>4, CoordinatorAssumption DEF TableOK, Locks!AcquireWaiting
  <2>2. entries' = [entries EXCEPT ![r] = f] /\ next_sequence' = q
    BY <1>4 DEF Locks!AcquireWaiting
  <2> HIDE DEF q
  <2>3. w \in Locks!LockWaiter /\ w.tx_id = t
    BY <2>1 DEF Locks!LockWaiter
  <2>4. f.holders = e.holders /\ f.waiters = e.waiters \cup {w} /\ f \in Locks!LockEntry
    BY <1>0, <2>3 DEF Locks!LockEntry
  <2>5. IsFiniteSet(e.waiters \cup {w})
    BY <1>0, FS_AddElement
  <2> HIDE DEF f, h, e, w
  <2>6. OnlyAdds(e, f, t)
    BY <1>0, <2>3, <2>4, <2>5 DEF OnlyAdds, TypedEntry, Owners, Queued
  <2> QED BY <1>1, <2>1, <2>2, <2>6
<1>5. CASE Locks!AcquireUnchanged(t, r, m)
  <2>1. entries' = entries /\ next_sequence' = next_sequence
    BY <1>5 DEF Locks!AcquireUnchanged, Locks!vars
  <2> QED BY <1>0, <2>1 DEF TableOK
<1> QED
  BY <1>2, <1>3, <1>4, <1>5 DEF Locks!acquire

\* From the entries of the table to the next ones, only records of t are removed,
\* and only waiters become owners.
OnlyTakes(t) ==
  \A s \in Resource :
    /\ Queued(entries'[s]) \subseteq Queued(entries[s])
    /\ Owners(entries[s]) \ {t} \subseteq Owners(entries'[s])
    /\ Owners(entries'[s]) \subseteq Owners(entries[s]) \cup Queued(entries[s])

\* release and release_all do that, and release_all leaves no record of t.
LEMMA ReleaseTakes ==
  ASSUME TableOK, NEW t,
         (\E r \in Resource : Locks!release(t, r)) \/ Locks!release_all(t)
  PROVE  /\ TableOK' /\ OnlyTakes(t)
         /\ Locks!release_all(t) =>
              \A s \in Resource : t \notin Owners(entries'[s]) \cup Queued(entries'[s])
<1>1. \A s \in Resource :
        /\ TypedEntry(Locks!Released(entries[s], t))
        /\ t \notin Owners(Locks!Released(entries[s], t)) \cup Queued(Locks!Released(entries[s], t))
        /\ Queued(Locks!Released(entries[s], t)) \subseteq Queued(entries[s])
        /\ Owners(entries[s]) \ {t} \subseteq Owners(Locks!Released(entries[s], t))
        /\ Owners(Locks!Released(entries[s], t)) \subseteq Owners(entries[s]) \cup Queued(entries[s])
  BY ReleasedEntry DEF TableOK
<1>2. ASSUME NEW r \in Resource, Locks!release(t, r)
      PROVE  TableOK' /\ OnlyTakes(t)
  <2>1. /\ entries' = [entries EXCEPT ![r] = Locks!Released(entries[r], t)]
        /\ next_sequence' = next_sequence
    BY <1>2 DEF Locks!release
  <2> QED BY <1>1, <2>1 DEF TableOK, OnlyTakes
<1>3. ASSUME Locks!release_all(t)
      PROVE  /\ TableOK' /\ OnlyTakes(t)
             /\ \A s \in Resource : t \notin Owners(entries'[s]) \cup Queued(entries'[s])
  <2>1. /\ entries' = [s \in Resource |-> Locks!Released(entries[s], t)]
        /\ next_sequence' = next_sequence
    BY <1>3 DEF Locks!release_all
  <2> QED BY <1>1, <2>1 DEF TableOK, OnlyTakes
<1> QED
  BY <1>2, <1>3

-----------------------------------------------------------------------------
(* The calls of the threads.                                               *)

Terminal(id) == status[id] \in {"Committed", "RolledBack"}
PastGrowing(id) == live[id] \in {"Committing", "RollingBack"} \/ Terminal(id)

\* A call that may take locks away is for a transaction that has asked for its
\* end, also when the manager has moved on since the validation.
CallsOK ==
  /\ calls \in [Thread -> Call \cup {NoCall}]
  /\ \A th \in Thread :
       /\ calls[th].op = "release" => PastGrowing(calls[th].tx)
       /\ calls[th].op = "release_all" => Terminal(calls[th].tx)
  /\ \A id \in cleaned : id \in TransactionId /\ Terminal(id)

CoordInv == StateInv /\ TableOK /\ CallsOK

\* The coordinator starts with no locks and the manager's invariant.
LEMMA CoordInitInv == CoordInit => CoordInv
<1> SUFFICES ASSUME CoordInit PROVE CoordInv
  OBVIOUS
<1>1. StateInv
  BY InitInv DEF CoordInit
<1>2. TableOK
  <2>1. \A r \in Resource : entries[r] = [holders |-> {}, waiters |-> {}]
    BY DEF CoordInit, Locks!Init, Locks!EmptyEntry
  <2> QED BY <2>1, FS_EmptySet, CoordinatorAssumption
          DEF CoordInit, Locks!Init, TableOK, TypedEntry, Locks!LockEntry
<1>3. CallsOK
  BY DEF CoordInit, CallsOK, NoCall
<1> QED
  BY <1>1, <1>2, <1>3 DEF CoordInv

\* What a call in progress names.
LEMMA CallFields ==
  ASSUME CallsOK, NEW th \in Thread
  PROVE  /\ calls[th].op = "acquire" => /\ calls[th].tx \in TransactionId
                                        /\ calls[th].resource \in Resource
                                        /\ calls[th].mode \in Mode
         /\ calls[th].op = "release" => /\ calls[th].tx \in TransactionId
                                        /\ calls[th].resource \in Resource
         /\ calls[th].op = "release_all" => calls[th].tx \in TransactionId
<1>1. calls[th] \in Call \cup {NoCall}
  BY DEF CallsOK
<1> QED
  BY <1>1 DEF Call, NoCall

\* No step of the manager leads a transaction back before the request for its end.
LEMMA NoWayBack ==
  ASSUME StateInv, [Next]_vars, NEW t \in TransactionId
  PROVE  /\ Terminal(t) => Terminal(t)'
         /\ PastGrowing(t) => PastGrowing(t)'
<1>1. Terminal(t) => Terminal(t)'
  <2>1. CASE UNCHANGED vars
    BY <2>1 DEF vars, Terminal
  <2>2. CASE ~ UNCHANGED vars
    BY <2>2, OutcomeStep DEF Terminal
  <2> QED BY <2>1, <2>2
<1>2. ASSUME live[t] \in {"Committing", "RollingBack"} PROVE PastGrowing(t)'
  <2>1. CASE live'[t] = live[t]
    BY <1>2, <2>1 DEF PastGrowing
  <2>2. CASE live'[t] # live[t]
    <3>1. t \notin issued
      BY <1>2 DEF StateInv, IdsAreFresh
    <3>2. \A id \in TransactionId \ {t} : \A s : [live EXCEPT ![id] = s][t] = live[t]
      BY DEF StateInv, StateTypeOK
    <3>3. ChangeState(t)
      <4>1. ~ UNCHANGED live /\ Next
        BY <2>2 DEF vars
      <4>2. ASSUME NEW id \in TransactionId, begin_inner(id) PROVE FALSE
        <5>1. id \in issued /\ live' = [live EXCEPT ![id] = "Active"]
          BY <4>2, BeginStep
        <5> QED BY <2>2, <3>1, <3>2, <5>1
      <4>3. ASSUME NEW id \in TransactionId, ChangeState(id) PROVE id = t
        <5>1. \E event : apply(id, event)
          BY <4>3 DEF ChangeState, request_commit, request_rollback, poison, fail, dispose,
             commit_durable_after_wal_record, rollback_durable_after_wal_record
        <5> QED BY <2>2, <3>2, <5>1 DEF apply
      <4>4. ASSUME NEW id \in TransactionId, UseSavepoints(id) PROVE FALSE
        BY <4>1, <4>4 DEF UseSavepoints, create_savepoint, release_savepoint,
           rollback_to_savepoint
      <4> QED BY <4>1, <4>2, <4>3, <4>4 DEF Next, allocate, seed
    <3>4. \E record_lsn, durable_lsn \in 0 .. MaxLsn :
            \/ commit_durable_after_wal_record(t, record_lsn, durable_lsn)
            \/ rollback_durable_after_wal_record(t, record_lsn, durable_lsn)
      BY <1>2, <3>3 DEF ChangeState, request_commit, request_rollback, poison, fail, dispose,
         apply, Transitions
    <3> QED BY <3>4 DEF commit_durable_after_wal_record, rollback_durable_after_wal_record,
            PastGrowing, Terminal, StateInv, StateTypeOK
  <2> QED BY <2>1, <2>2
<1> QED
  BY <1>1, <1>2 DEF PastGrowing

\* The steps of the coordinator, as its proofs split them.
LEMMA CoordSteps ==
  ASSUME CoordInv, [CoordNext]_coordVars
  PROVE  \/ [Next]_vars /\ UNCHANGED <<lockVars, calls, cleaned, overtaken>>
         \/ UNCHANGED vars /\ \E th \in Thread :
              \/ \E c \in Call : Validate(th, c)
              \/ Acquire(th) \/ Release(th) \/ ReleaseAll(th)
<1>1. CASE UNCHANGED coordVars
  BY <1>1 DEF coordVars
<1>2. CASE Manage
  BY <1>2 DEF Manage, Next
<1>3. CASE \E th \in Thread : \/ \E c \in Call : Validate(th, c)
                              \/ Acquire(th) \/ Release(th) \/ ReleaseAll(th)
  BY <1>3 DEF Validate, Acquire, Release, ReleaseAll, Return
<1> QED
  BY <1>1, <1>2, <1>3 DEF CoordNext

\* Every step of the coordinator keeps the invariant.
LEMMA CoordNextInv == CoordInv /\ [CoordNext]_coordVars => CoordInv'
<1> SUFFICES ASSUME CoordInv, [CoordNext]_coordVars PROVE CoordInv'
  OBVIOUS
<1>1. CASE [Next]_vars /\ UNCHANGED <<lockVars, calls, cleaned, overtaken>>
  <2>1. StateInv'
    BY <1>1, NextInv DEF CoordInv
  <2>2. TableOK'
    BY <1>1 DEF CoordInv, TableOK, lockVars
  <2>3. \A id \in TransactionId : /\ Terminal(id) => Terminal(id)'
                                  /\ PastGrowing(id) => PastGrowing(id)'
    BY <1>1, NoWayBack DEF CoordInv
  <2>4. calls' = calls /\ cleaned' = cleaned
    BY <1>1
  <2>5. CallsOK'
    <3>1. ASSUME NEW th \in Thread, calls[th].op = "release"
          PROVE  PastGrowing(calls[th].tx)'
      BY <2>3, <2>4, <3>1, CallFields DEF CoordInv, CallsOK, PastGrowing, Terminal
    <3>2. ASSUME NEW th \in Thread, calls[th].op = "release_all"
          PROVE  Terminal(calls[th].tx)'
      BY <2>3, <2>4, <3>2, CallFields DEF CoordInv, CallsOK, Terminal
    <3>3. \A id \in cleaned : id \in TransactionId /\ Terminal(id)'
      BY <2>3 DEF CoordInv, CallsOK
    <3> QED BY <2>4, <3>1, <3>2, <3>3 DEF CoordInv, CallsOK
  <2> QED BY <2>1, <2>2, <2>5 DEF CoordInv
<1>2. ASSUME UNCHANGED vars, NEW th \in Thread,
             \/ \E c \in Call : Validate(th, c)
             \/ Acquire(th) \/ Release(th) \/ ReleaseAll(th)
      PROVE  CoordInv'
  <2>1. /\ StateInv' /\ \A id : /\ Terminal(id)' <=> Terminal(id)
                                /\ PastGrowing(id)' <=> PastGrowing(id)
    BY <1>2 DEF CoordInv, vars, StateInv, StateTypeOK, StatusMirrorsMachine, EndedOnEvidence,
       IdsAreFresh, Terminal, PastGrowing
  <2>2. CASE \E c \in Call : Validate(th, c)
    <3>1. PICK c \in Call : Validate(th, c)
      BY <2>2
    <3>2. TableOK' /\ cleaned' = cleaned
      BY <3>1 DEF CoordInv, TableOK, Validate, lockVars
    <3>3. calls' = [calls EXCEPT ![th] = c] /\ Validated(c)
      BY <3>1 DEF Validate
    <3>4. /\ c.op = "release" => PastGrowing(c.tx)
          /\ c.op = "release_all" => Terminal(c.tx)
      BY <3>3 DEF Validated, require_known_transaction, require_terminal_cleanup_transaction,
         PastGrowing, Terminal
    <3>5. CallsOK'
      BY <2>1, <3>2, <3>3, <3>4 DEF CoordInv, CallsOK, Terminal, PastGrowing, vars
    <3> QED BY <2>1, <3>2, <3>5 DEF CoordInv
  <2>3. CASE Acquire(th)
    <3>1. TableOK'
      BY <2>3, CallFields, AcquireAdds DEF CoordInv, Acquire
    <3>2. calls' = [calls EXCEPT ![th] = NoCall] /\ cleaned' = cleaned
      BY <2>3 DEF Acquire, Return
    <3>3. CallsOK'
      BY <1>2, <2>1, <3>2 DEF CoordInv, CallsOK, Terminal, PastGrowing, vars, NoCall
    <3> QED BY <2>1, <3>1, <3>3 DEF CoordInv
  <2>4. CASE Release(th)
    <3>1. TableOK'
      <4>1. CASE UNCHANGED lockVars
        BY <4>1 DEF CoordInv, TableOK, lockVars
      <4>2. CASE Locks!release(calls[th].tx, calls[th].resource)
        BY <2>4, <4>2, CallFields, ReleaseTakes DEF CoordInv, Release
      <4> QED BY <2>4, <4>1, <4>2 DEF Release
    <3>2. calls' = [calls EXCEPT ![th] = NoCall] /\ cleaned' = cleaned
      BY <2>4 DEF Release, Return
    <3>3. CallsOK'
      BY <1>2, <2>1, <3>2 DEF CoordInv, CallsOK, Terminal, PastGrowing, vars, NoCall
    <3> QED BY <2>1, <3>1, <3>3 DEF CoordInv
  <2>5. CASE ReleaseAll(th)
    <3>1. TableOK'
      BY <2>5, ReleaseTakes DEF CoordInv, ReleaseAll
    <3>2. calls' = [calls EXCEPT ![th] = NoCall] /\ cleaned' = cleaned \cup {calls[th].tx}
      BY <2>5 DEF ReleaseAll, Return
    <3>3. calls[th].tx \in TransactionId /\ Terminal(calls[th].tx)
      BY <2>5, CallFields DEF CoordInv, CallsOK, ReleaseAll
    <3>4. CallsOK'
      BY <1>2, <2>1, <3>2, <3>3 DEF CoordInv, CallsOK, Terminal, PastGrowing, vars, NoCall
    <3> QED BY <2>1, <3>1, <3>4 DEF CoordInv
  <2> QED BY <1>2, <2>2, <2>3, <2>4, <2>5
<1> QED
  BY <1>1, <1>2, CoordSteps

\* The inductive invariant of the coordinator: the manager's tables agree, the lock table is
\* well-formed, and a call that will release locks, validated earlier, is still for a
\* transaction that has asked for its end.
THEOREM CoordInvariant == CoordSpec => []CoordInv
BY CoordInitInv, CoordNextInv, PTL DEF CoordSpec

\* The coordinator is a client of the transaction manager like any other: whatever
\* its threads do, the manager behaves as specified, so what is proved of it above
\* holds here too.
THEOREM CoordUsesManager == CoordSpec => Spec
<1>1. CoordInit => Init
  BY DEF CoordInit
<1>2. CoordInv /\ [CoordNext]_coordVars => [Next]_vars
  BY CoordSteps
<1> QED
  BY <1>1, <1>2, CoordInvariant, PTL DEF CoordSpec, Spec

\* And a client of the lock manager like any other: each call is one of the calls
\* LockManager allows, made for a transaction id and with the arguments it was
\* validated with.
THEOREM CoordUsesLocks == CoordSpec => Locks!Spec
<1>1. CoordInit => Locks!Init
  BY DEF CoordInit
<1>2. CoordInv /\ [CoordNext]_coordVars => [Locks!Next]_Locks!vars
  <2> SUFFICES ASSUME CoordInv, [CoordNext]_coordVars PROVE Locks!Next \/ UNCHANGED lockVars
    BY DEF lockVars, Locks!vars
  <2>1. ASSUME NEW th \in Thread, Acquire(th) PROVE Locks!Next
    BY <2>1, CallFields DEF CoordInv, Acquire, Locks!Next
  <2>2. ASSUME NEW th \in Thread, Release(th) PROVE Locks!Next \/ UNCHANGED lockVars
    BY <2>2, CallFields DEF CoordInv, Release, Locks!Next
  <2>3. ASSUME NEW th \in Thread, ReleaseAll(th) PROVE Locks!Next
    BY <2>3, CallFields DEF CoordInv, ReleaseAll, Locks!Next
  <2>4. ASSUME NEW th \in Thread, NEW c \in Call, Validate(th, c) PROVE UNCHANGED lockVars
    BY <2>4 DEF Validate
  <2> QED BY <2>1, <2>2, <2>3, <2>4, CoordSteps
<1> QED
  BY <1>1, <1>2, CoordInvariant, PTL DEF CoordSpec, Locks!Spec

-----------------------------------------------------------------------------
(* What the coordinator promises.                                          *)

\* What a transaction holds and waits for, in the terms of its entries.
LEMMA HoldingOwners ==
  ASSUME NEW id
  PROVE  /\ Holding(id) = {r \in Resource : id \in Owners(entries[r])}
         /\ Waiting(id) = {r \in Resource : id \in Queued(entries[r])}
BY DEF Holding, Waiting, Locks!Holds, Owners, Queued

\* Two-phase locking: no call, of whichever thread, takes a lock from a transaction
\* that has not asked for commit or rollback, although the lock manager no longer
\* looks at the transaction manager when it runs, and even when threads share a
\* transaction.
THEOREM LocksAlwaysKept == CoordSpec => LocksKeptWhileGrowing
<1>1. CoordInv /\ [CoordNext]_coordVars =>
        [\A id \in TransactionId :
           Holding(id) \subseteq Holding(id)' \/ live[id] \notin {"Active", "Failed", "Poisoned"}]_coordVars
  <2> SUFFICES ASSUME CoordInv, [CoordNext]_coordVars, NEW id \in TransactionId,
                      live[id] \in {"Active", "Failed", "Poisoned"}
               PROVE  Holding(id) \subseteq Holding(id)'
    OBVIOUS
  <2>1. ~ PastGrowing(id)
    BY DEF PastGrowing, Terminal, CoordInv, StateInv, StatusMirrorsMachine, InFlightState
  <2>2. SUFFICES \A r \in Resource : id \in Owners(entries[r]) => id \in Owners(entries'[r])
    BY DEF Holding, Locks!Holds, Owners
  <2>3. CASE UNCHANGED entries
    BY <2>3
  <2>4. ASSUME NEW th \in Thread, Acquire(th)
        PROVE  \A r \in Resource : id \in Owners(entries[r]) => id \in Owners(entries'[r])
    BY <2>4, CallFields, AcquireAdds DEF CoordInv, Acquire, OnlyAdds
  <2>5. ASSUME NEW th \in Thread, Release(th), ~ UNCHANGED entries
        PROVE  \A r \in Resource : id \in Owners(entries[r]) => id \in Owners(entries'[r])
    <3>1. Locks!release(calls[th].tx, calls[th].resource) /\ calls[th].op = "release"
      BY <2>5 DEF Release, lockVars
    <3>2. calls[th].tx # id /\ calls[th].resource \in Resource
      BY <2>1, <3>1, CallFields DEF CoordInv, CallsOK
    <3>3. OnlyTakes(calls[th].tx)
      BY <3>1, <3>2, ReleaseTakes DEF CoordInv
    <3> QED BY <3>2, <3>3 DEF OnlyTakes
  <2>6. ASSUME NEW th \in Thread, ReleaseAll(th)
        PROVE  \A r \in Resource : id \in Owners(entries[r]) => id \in Owners(entries'[r])
    <3>1. calls[th].tx # id
      BY <2>1, <2>6 DEF CoordInv, CallsOK, ReleaseAll, PastGrowing
    <3>2. OnlyTakes(calls[th].tx)
      BY <2>6, ReleaseTakes DEF CoordInv, ReleaseAll
    <3> QED BY <3>1, <3>2 DEF OnlyTakes
  <2> QED BY <2>3, <2>4, <2>5, <2>6, CoordSteps DEF Validate, lockVars
<1> QED
  BY <1>1, CoordInvariant, PTL DEF CoordSpec, LocksKeptWhileGrowing

\* Once its clean-up has overtaken no acquire, a transaction is in no entry and no thread
\* is inside an acquire for it.
CleanupInv ==
  /\ CoordInv
  /\ \A id \in cleaned \ overtaken :
       /\ ~ InAcquire(id)
       /\ \A r \in Resource : id \notin Owners(entries[r]) \cup Queued(entries[r])

\* Nothing is cleaned up at the start.
LEMMA CleanupInitInv == CoordInit => CleanupInv
BY CoordInitInv DEF CoordInit, CleanupInv

\* No acquire is validated for a transaction that has ended.
LEMMA NoAcquireAfterEnd ==
  ASSUME CoordInv, NEW id \in cleaned, require_lock_acquire_transaction(id)
  PROVE  FALSE
BY DEF CoordInv, CallsOK, Terminal, require_lock_acquire_transaction

\* Every step keeps the locks of ended transactions gone.
LEMMA CleanupNextInv == CleanupInv /\ [CoordNext]_coordVars => CleanupInv'
<1> SUFFICES ASSUME CleanupInv, [CoordNext]_coordVars PROVE CleanupInv'
  OBVIOUS
<1>1. CoordInv'
  BY CoordNextInv DEF CleanupInv
<1>2. SUFFICES ASSUME NEW id \in cleaned' \ overtaken'
               PROVE  /\ ~ InAcquire(id)'
                      /\ \A r \in Resource : id \notin Owners(entries'[r]) \cup Queued(entries'[r])
  BY <1>1 DEF CleanupInv, InAcquire, Owners, Queued
<1> DEFINE Gone == \A r \in Resource : id \notin Owners(entries[r]) \cup Queued(entries[r])
           StaysGone == \A r \in Resource : id \notin Owners(entries'[r]) \cup Queued(entries'[r])
<1>3. id \in cleaned \ overtaken => ~ InAcquire(id) /\ Gone
  BY DEF CleanupInv
<1>4. CASE UNCHANGED <<lockVars, calls, cleaned, overtaken>>
  BY <1>2, <1>3, <1>4 DEF InAcquire, lockVars
<1>5. ASSUME NEW th \in Thread, NEW c \in Call, Validate(th, c)
      PROVE  ~ InAcquire(id)' /\ StaysGone
  <2>1. calls' = [calls EXCEPT ![th] = c] /\ UNCHANGED <<entries, cleaned, overtaken>>
    BY <1>5 DEF Validate, lockVars
  <2>2. ~ InAcquire(id) /\ Gone
    BY <1>2, <1>3, <2>1
  <2>3. ~ (c.op = "acquire" /\ c.tx = id)
    BY <1>2, <1>5, <2>1, NoAcquireAfterEnd DEF Validate, Validated, CleanupInv
  <2>4. ~ InAcquire(id)'
    BY <2>1, <2>2, <2>3 DEF InAcquire, CleanupInv, CoordInv, CallsOK
  <2> QED BY <2>1, <2>2, <2>4
<1>6. ASSUME NEW th \in Thread, Return(th), ~ InAcquire(id) PROVE ~ InAcquire(id)'
  BY <1>6 DEF Return, InAcquire, NoCall, CleanupInv, CoordInv, CallsOK
<1>7. ASSUME NEW th \in Thread, Acquire(th) PROVE ~ InAcquire(id)' /\ StaysGone
  <2>1. UNCHANGED <<cleaned, overtaken>> /\ Return(th) /\ calls[th].op = "acquire"
    BY <1>7 DEF Acquire
  <2>2. ~ InAcquire(id) /\ Gone
    BY <1>2, <1>3, <2>1
  <2>3. calls[th].tx # id
    BY <2>1, <2>2 DEF InAcquire
  <2>4. \A r \in Resource : OnlyAdds(entries[r], entries'[r], calls[th].tx)
    BY <1>7, CallFields, AcquireAdds DEF CleanupInv, CoordInv, Acquire
  <2>5. StaysGone
    BY <2>2, <2>3, <2>4 DEF OnlyAdds
  <2> QED BY <1>6, <2>1, <2>2, <2>5
<1>8. ASSUME NEW th \in Thread, Release(th) PROVE ~ InAcquire(id)' /\ StaysGone
  <2>1. UNCHANGED <<cleaned, overtaken>> /\ Return(th) /\ calls[th].op = "release"
    BY <1>8 DEF Release
  <2>2. ~ InAcquire(id) /\ Gone
    BY <1>2, <1>3, <2>1
  <2>3. CASE UNCHANGED lockVars
    BY <1>6, <2>1, <2>2, <2>3 DEF lockVars
  <2>4. CASE Locks!release(calls[th].tx, calls[th].resource)
    <3>1. OnlyTakes(calls[th].tx)
      BY <2>1, <2>4, CallFields, ReleaseTakes DEF CleanupInv, CoordInv
    <3>2. StaysGone
      BY <2>2, <3>1 DEF OnlyTakes
    <3> QED BY <1>6, <2>1, <2>2, <3>2
  <2> QED BY <1>8, <2>3, <2>4 DEF Release
<1>9. ASSUME NEW th \in Thread, ReleaseAll(th) PROVE ~ InAcquire(id)' /\ StaysGone
  <2> DEFINE t == calls[th].tx
  <2>1. /\ OnlyTakes(t)
        /\ \A s \in Resource : t \notin Owners(entries'[s]) \cup Queued(entries'[s])
    BY <1>9, ReleaseTakes DEF CleanupInv, CoordInv, ReleaseAll
  <2>2. /\ cleaned' = cleaned \cup {t} /\ Return(th)
        /\ overtaken' = IF InAcquire(t) THEN overtaken \cup {t} ELSE overtaken \ {t}
    BY <1>9 DEF ReleaseAll
  <2> HIDE DEF t
  <2>3. CASE id = t
    <3>1. ~ InAcquire(id)
      BY <1>2, <2>2, <2>3
    <3> QED BY <1>6, <2>1, <2>2, <2>3, <3>1
  <2>4. CASE id # t
    <3>1. ~ InAcquire(id) /\ Gone
      BY <1>2, <1>3, <2>2, <2>4
    <3>2. StaysGone
      BY <2>1, <3>1 DEF OnlyTakes
    <3> QED BY <1>6, <2>2, <3>1, <3>2
  <2> QED BY <2>3, <2>4
<1> QED
  BY <1>4, <1>5, <1>7, <1>8, <1>9, CoordSteps DEF CleanupInv

\* Terminal cleanup, for every number of threads that share transactions in any way: the
\* acquires under way when release_all runs are the only ones that can bring the
\* transaction back.  When there is none it is gone for good, and neither a call that was
\* validated before, nor a promotion, nor a later call puts it into the table again.
THEOREM CleanedStaysGone == CoordSpec => []OnlyOvertakenReturn
<1>1. CleanupInv => OnlyOvertakenReturn
  BY HoldingOwners DEF CleanupInv, OnlyOvertakenReturn
<1> QED
  BY CleanupInitInv, CleanupNextInv, <1>1, PTL DEF CoordSpec
=============================================================================
