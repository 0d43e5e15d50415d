------------------------- MODULE TransactionManager -------------------------
(***************************************************************************)
(* The transaction manager of crates/andromeda-transaction: an atomic id   *)
(* allocator, and under one mutex the state machines of the live           *)
(* transactions, their savepoint names and the MVCC status table that      *)
(* mirrors them.  A call that fails leaves the state alone, so only calls  *)
(* that succeed are actions, except begin, which loses its id.  Traces     *)
(* sent to the transition sink are left out.                               *)
(***************************************************************************)
EXTENDS Integers, Sequences, Functions

CONSTANTS MaxId,    \* largest transaction id (u64::MAX)
          MaxLsn,   \* largest LSN a caller passes as durable evidence
          Name      \* savepoint names

ASSUME IdAssumption == MaxId \in Nat
ASSUME LsnAssumption == MaxLsn \in Nat

TransactionId == 1 .. MaxId

InFlightState == {"Active", "Committing", "Failed", "RollingBack", "Poisoned"}
LiveState == InFlightState \cup {"Committed", "RolledBack"}

VARIABLES last_issued,   \* the allocator
          issued,        \* ids allocated by a begin that has not registered them yet
          live,          \* id -> state of its machine, "None" if it is not registered
          evidence,      \* id -> durable commit or rollback LSN of its machine, 0 if none
          status,        \* id -> status, "None" if the table has no entry
          savepoints     \* id -> names on its savepoint stack, bottom first

vars == <<last_issued, issued, live, evidence, status, savepoints>>

-----------------------------------------------------------------------------
\* TransactionState::apply, with dispose's removal of the machine as "None".
Transitions ==
  {<<"Active", "CommitRequested", "Committing">>,
   <<"Committing", "DurableWalFlushed", "Committed">>,
   <<"Committed", "Dispose", "None">>,
   <<"Active", "RollbackRequested", "RollingBack">>,
   <<"Active", "Fail", "Failed">>,
   <<"Failed", "RollbackRequested", "RollingBack">>,
   <<"Active", "Poison", "Poisoned">>,
   <<"Poisoned", "RollbackRequested", "RollingBack">>,
   <<"RollingBack", "RollbackComplete", "RolledBack">>,
   <<"RolledBack", "Dispose", "None">>}

apply(id, event) ==
  \E s \in LiveState \cup {"None"} :
    /\ <<live[id], event, s>> \in Transitions
    /\ live' = [live EXCEPT ![id] = s]

-----------------------------------------------------------------------------
allocate ==
  /\ last_issued < MaxId
  /\ last_issued' = last_issued + 1
  /\ issued' = issued \cup {last_issued + 1}
  /\ UNCHANGED <<live, evidence, status, savepoints>>

\* Mutant: the floor may move backwards.
SeedUnchecked(floor) ==
  /\ last_issued' = floor
  /\ UNCHANGED <<issued, live, evidence, status, savepoints>>

\* The compare_exchange loop gives up as soon as floor < current.
seed(floor) ==
  /\ floor >= last_issued
  /\ last_issued' = floor
  /\ UNCHANGED <<issued, live, evidence, status, savepoints>>

\* A live id is refused before anything is registered.  A status that has ended is
\* refused by status.record, after the machine and its savepoints are in.
begin_inner(id) ==
  /\ id \in issued
  /\ issued' = issued \ {id}
  /\ IF live[id] # "None"
       THEN UNCHANGED <<live, savepoints, status>>
       ELSE /\ live' = [live EXCEPT ![id] = "Active"]
            /\ savepoints' = [savepoints EXCEPT ![id] = <<>>]
            /\ status' = [status EXCEPT ![id] =
                            IF @ \in {"Committed", "RolledBack"} THEN @ ELSE "InFlight"]
  /\ UNCHANGED <<last_issued, evidence>>

request_commit(id) ==
  /\ apply(id, "CommitRequested")
  /\ savepoints' = [savepoints EXCEPT ![id] = <<>>]
  /\ UNCHANGED <<last_issued, issued, evidence, status>>

validate_terminal_durable_evidence(record_lsn, durable_lsn) ==
  record_lsn # 0 /\ durable_lsn # 0 /\ durable_lsn >= record_lsn

\* The machine moves first, the status table follows.
commit_durable_after_wal_record(id, record_lsn, durable_lsn) ==
  /\ validate_terminal_durable_evidence(record_lsn, durable_lsn)
  /\ apply(id, "DurableWalFlushed")
  /\ evidence' = [evidence EXCEPT ![id] = durable_lsn]
  /\ status' = [status EXCEPT ![id] = "Committed"]
  /\ UNCHANGED <<last_issued, issued, savepoints>>

\* Mutant: readers are told of the rollback before it is durable.
RollbackVisibleEarly(id) ==
  /\ apply(id, "RollbackRequested")
  /\ savepoints' = [savepoints EXCEPT ![id] = <<>>]
  /\ status' = [status EXCEPT ![id] = "RolledBack"]
  /\ UNCHANGED <<last_issued, issued, evidence>>

request_rollback(id) ==
  /\ apply(id, "RollbackRequested")
  /\ savepoints' = [savepoints EXCEPT ![id] = <<>>]
  /\ UNCHANGED <<last_issued, issued, evidence, status>>

rollback_durable_after_wal_record(id, record_lsn, durable_lsn) ==
  /\ validate_terminal_durable_evidence(record_lsn, durable_lsn)
  /\ apply(id, "RollbackComplete")
  /\ evidence' = [evidence EXCEPT ![id] = durable_lsn]
  /\ status' = [status EXCEPT ![id] = "RolledBack"]
  /\ UNCHANGED <<last_issued, issued, savepoints>>

poison(id) ==
  apply(id, "Poison") /\ UNCHANGED <<last_issued, issued, evidence, status, savepoints>>

fail(id) ==
  apply(id, "Fail") /\ UNCHANGED <<last_issued, issued, evidence, status, savepoints>>

\* Mutant: the status entry goes with the machine.
DisposeForgets(id) ==
  /\ apply(id, "Dispose")
  /\ evidence' = [evidence EXCEPT ![id] = 0]
  /\ savepoints' = [savepoints EXCEPT ![id] = <<>>]
  /\ status' = [status EXCEPT ![id] = "None"]
  /\ UNCHANGED <<last_issued, issued>>

\* The status table keeps the outcome.
dispose(id) ==
  /\ apply(id, "Dispose")
  /\ evidence' = [evidence EXCEPT ![id] = 0]
  /\ savepoints' = [savepoints EXCEPT ![id] = <<>>]
  /\ UNCHANGED <<last_issued, issued, status>>

-----------------------------------------------------------------------------
require_active_in_flight(id) == live[id] = "Active" /\ status[id] = "InFlight"

Depth(id, n) == CHOOSE i \in DOMAIN savepoints[id] : savepoints[id][i] = n

create_savepoint(id, n) ==
  /\ require_active_in_flight(id)
  /\ n \notin Range(savepoints[id])
  /\ savepoints' = [savepoints EXCEPT ![id] = Append(@, n)]
  /\ UNCHANGED <<last_issued, issued, live, evidence, status>>

release_savepoint(id, n) ==
  /\ require_active_in_flight(id)
  /\ n \in Range(savepoints[id])
  /\ savepoints' = [savepoints EXCEPT ![id] = SubSeq(@, 1, Depth(id, n) - 1)]
  /\ UNCHANGED <<last_issued, issued, live, evidence, status>>

rollback_to_savepoint(id, n) ==
  /\ require_active_in_flight(id)
  /\ n \in Range(savepoints[id])
  /\ savepoints' = [savepoints EXCEPT ![id] = SubSeq(@, 1, Depth(id, n))]
  /\ UNCHANGED <<last_issued, issued, live, evidence, status>>

-----------------------------------------------------------------------------
\* Both constructors: new starts at 0, with_recovered_floor at a recovered id.
Init ==
  /\ last_issued \in 0 .. MaxId
  /\ issued = {}
  /\ live = [id \in TransactionId |-> "None"]
  /\ evidence = [id \in TransactionId |-> 0]
  /\ status = [id \in TransactionId |-> "None"]
  /\ savepoints = [id \in TransactionId |-> <<>>]

\* The operations that change the state of one transaction.
ChangeState(id) ==
  \/ request_commit(id)
  \/ request_rollback(id)
  \/ poison(id)
  \/ fail(id)
  \/ dispose(id)
  \/ \E record_lsn, durable_lsn \in 0 .. MaxLsn :
       \/ commit_durable_after_wal_record(id, record_lsn, durable_lsn)
       \/ rollback_durable_after_wal_record(id, record_lsn, durable_lsn)

UseSavepoints(id) ==
  \E n \in Name : \/ create_savepoint(id, n)
                  \/ release_savepoint(id, n)
                  \/ rollback_to_savepoint(id, n)

Next ==
  \/ allocate
  \/ \E floor \in 0 .. MaxId : seed(floor)
  \/ \E id \in TransactionId : begin_inner(id) \/ ChangeState(id) \/ UseSavepoints(id)

Spec == Init /\ [][Next]_vars

-----------------------------------------------------------------------------
TypeOK ==
  /\ last_issued \in 0 .. MaxId
  /\ issued \subseteq TransactionId
  /\ live \in [TransactionId -> LiveState \cup {"None"}]
  /\ evidence \in [TransactionId -> 0 .. MaxLsn]
  /\ status \in [TransactionId -> {"None", "InFlight", "Committed", "RolledBack"}]
  /\ savepoints \in [TransactionId -> Seq(Name)]

\* The status table that MVCC readers use agrees with the state machines: a
\* transaction is InFlight for readers exactly while its machine is short of a
\* durable end, and a transaction that was disposed keeps its outcome.
StatusMirrorsMachine ==
  \A id \in TransactionId :
    /\ live[id] \in InFlightState <=> status[id] = "InFlight"
    /\ live[id] \in {"Committed", "RolledBack"} => status[id] = live[id]

\* A transaction is visible as ended only on durable evidence for its machine.
EndedOnEvidence ==
  \A id \in TransactionId : live[id] \in {"Committed", "RolledBack"} <=> evidence[id] # 0

\* An id is given out once: whatever begins, recovery seeds and slow registrations
\* are interleaved, an id that is about to be registered is new to the machines and
\* to the status table, so begin_inner never finds it live or ended.
IdsAreFresh ==
  /\ \A id \in issued : live[id] = "None" /\ status[id] = "None"
  /\ \A id \in TransactionId : id > last_issued => id \notin issued /\ status[id] = "None"

\* An outcome is final: no later call turns a commit into a rollback, a rollback
\* into a commit, or an ended transaction into one in flight.
OutcomeIsFinal ==
  [][\A id \in TransactionId :
       status[id] \in {"Committed", "RolledBack"} => status'[id] = status[id]]_vars
=============================================================================
