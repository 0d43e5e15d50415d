----------------------------- MODULE WalShipping -----------------------------
(***************************************************************************)
(* WAL shipping of andromeda-hadr (shipping_contract): a replica accepts   *)
(* batches that continue its log, and the primary's                        *)
(* WalReplicaSafeLsnTracker turns the evidence the replicas send back into *)
(* a safe LSN for each of them.                                            *)
(*                                                                         *)
(* The transport is not part of the code.  Evidence may be lost, repeated  *)
(* or reordered: whatever a replica could attest once may be recorded at   *)
(* any later time, any number of times.                                    *)
(***************************************************************************)
EXTENDS Integers, FiniteSets, Sequences, SequencesExt, TLC

CONSTANTS
  Replicas,  \* replica ids, never zero
  Bases,     \* the LSNs of the snapshots a replica may be seeded from
  MaxLsn,    \* bound on the log
  NotJoined  \* the base of a replica that holds nothing yet

ASSUME ShippingAssumption ==
  /\ MaxLsn \in Nat
  /\ Bases \subseteq 0..MaxLsn
  /\ NotJoined \notin 0..MaxLsn

VARIABLES
  tip,               \* the last LSN of the primary's log
  base,              \* the snapshot a replica was seeded from
  tail,              \* the last LSN a replica holds durably
  accepted,          \* the ranges a replica has accepted
  required_replicas, \* replicas that retention waits for
  safe_lsn,          \* safe_lsn_by_replica
  validated,         \* validated_ranges_by_replica
  recorded           \* history: the LSNs some recorded range covered

replica_vars == <<base, tail, accepted>>
tracker_vars == <<required_replicas, safe_lsn, validated, recorded>>
shipping_vars == <<tip, replica_vars, tracker_vars>>

Larger(a, b) == IF a >= b THEN a ELSE b
Smaller(a, b) == IF a <= b THEN a ELSE b

(***************************************************************************)
(* The replica.  WalShipmentBatch::validate accepts the batch first..last  *)
(* only when it starts at the expected LSN; delayed and repeated batches   *)
(* are refused and change nothing.                                         *)
(***************************************************************************)
expected_next_lsn(r) == tail[r] + 1

genesis(r) ==
  /\ base[r] = NotJoined
  /\ \E b \in Bases :
       /\ b <= tip
       /\ base' = [base EXCEPT ![r] = b]
       /\ tail' = [tail EXCEPT ![r] = b]
  /\ UNCHANGED <<tip, accepted, tracker_vars>>

WalShipmentBatch_validate(r, first, last) ==
  first = expected_next_lsn(r) /\ first <= last

Receive(r) ==
  /\ base[r] # NotJoined
  /\ \E first, last \in 1..tip :
       /\ WalShipmentBatch_validate(r, first, last)
       /\ tail' = [tail EXCEPT ![r] = last]
       /\ accepted' = [accepted EXCEPT ![r] = @ \cup {<<first, last>>}]
  /\ UNCHANGED <<tip, base, tracker_vars>>

(***************************************************************************)
(* The ranges of one replica: merged_ranges maps the first LSN of a range  *)
(* to its last one.                                                        *)
(***************************************************************************)
NoRanges == [merged |-> [s \in {} |-> 0], shipped_max |-> 0]

Without(m, s) == [k \in DOMAIN m \ {s} |-> m[k]]

are_connected(left_start, left_end, right_start, right_end) ==
  left_start <= right_end + 1 /\ right_start <= left_end + 1

\* One turn of the loop that absorbs the following ranges; it stops at the
\* first range that does not connect.
Absorb(acc, s) ==
  IF acc.open /\ are_connected(acc.start, acc.end, s, acc.rest[s])
  THEN [acc EXCEPT !.start = Smaller(@, s), !.end = Larger(@, acc.rest[s]),
                   !.rest = Without(@, s)]
  ELSE [acc EXCEPT !.open = FALSE]

insert_range(st, first, last) ==
  LET m     == st.merged
      below == {s \in DOMAIN m : s <= first}
      prev  == CHOOSE s \in below : \A k \in below : k <= s
      new   == [start |-> first, end |-> last, rest |-> m, open |-> TRUE]
      joined == IF below # {} /\ are_connected(prev, m[prev], first, last)
                THEN [start |-> Smaller(prev, first), end |-> Larger(m[prev], last),
                      rest |-> Without(m, prev), open |-> TRUE]
                ELSE new
      following == {s \in DOMAIN joined.rest : s >= joined.start}
      acc == FoldLeft(Absorb, joined, SetToSortSeq(following, <))
  IN [merged |-> (acc.start :> acc.end) @@ acc.rest,
      shipped_max |-> Larger(st.shipped_max, last)]

contiguous_durable_prefix(st) ==
  LET first == CHOOSE s \in DOMAIN st.merged : \A k \in DOMAIN st.merged : s <= k
  IN <<first, st.merged[first]>>

(***************************************************************************)
(* The tracker.                                                            *)
(***************************************************************************)
register_required_replica(r) ==
  /\ r \notin required_replicas
  /\ required_replicas' = required_replicas \cup {r}
  /\ UNCHANGED <<tip, replica_vars, safe_lsn, validated, recorded>>

record_validated_range(st, range) == insert_range(st, range[1], range[2])

\* Mutant: an ACK only has to lie in the first validated range.
IgnoresPrefixStart(r, st, ack) ==
  /\ r \in required_replicas
  /\ DOMAIN st.merged # {}
  /\ ack <= contiguous_durable_prefix(st)[2]

validate_ack_binding(r, st, ack) ==
  /\ r \in required_replicas
  /\ DOMAIN st.merged # {}
  /\ ack <= st.shipped_max
  /\ LET prefix == contiguous_durable_prefix(st)
     IN /\ prefix[1] <= safe_lsn[r] + 1
        /\ prefix[1] <= ack
        /\ ack <= prefix[2]

record_ack_bound(r, st, ack) ==
  /\ validate_ack_binding(r, st, ack)
  /\ ack > safe_lsn[r]
  /\ safe_lsn' = [safe_lsn EXCEPT ![r] = ack]

\* Evidence is one accepted range and an ACK that the codec lets through: no
\* further than the durable prefix of the replica.  When the ACK is refused
\* the tracker is restored, so the range is not recorded either.
advance_replica_safe_lsn_from_evidence(r) ==
  /\ \E range \in accepted[r], ack \in 1..tail[r] :
       LET st == record_validated_range(validated[r], range)
       IN /\ record_ack_bound(r, st, ack)
          /\ validated' = [validated EXCEPT ![r] = st]
          /\ recorded' = [recorded EXCEPT ![r] = @ \cup range[1]..range[2]]
  /\ UNCHANGED <<tip, replica_vars, required_replicas>>

NoBoundary == MaxLsn + 1   \* stands for Lsn::MAX

\* Mutant: the boundary follows the fastest replica.
FastestReplica ==
  IF required_replicas = {} THEN NoBoundary
  ELSE CHOOSE l \in {safe_lsn[r] : r \in required_replicas} :
         \A r \in required_replicas : safe_lsn[r] <= l

retention_boundary_lsn ==
  IF required_replicas = {} THEN NoBoundary
  ELSE CHOOSE l \in {safe_lsn[r] : r \in required_replicas} :
         \A r \in required_replicas : l <= safe_lsn[r]

(***************************************************************************)
(* The primary's log grows by one durable record.                          *)
(***************************************************************************)
Append_record ==
  /\ tip < MaxLsn
  /\ tip' = tip + 1
  /\ UNCHANGED <<replica_vars, tracker_vars>>

ShippingInit ==
  /\ tip = 0
  /\ base = [r \in Replicas |-> NotJoined]
  /\ tail = [r \in Replicas |-> 0]
  /\ accepted = [r \in Replicas |-> {}]
  /\ required_replicas \in SUBSET Replicas
  /\ safe_lsn = [r \in Replicas |-> 0]
  /\ validated = [r \in Replicas |-> NoRanges]
  /\ recorded = [r \in Replicas |-> {}]

ShippingNext ==
  \/ Append_record
  \/ \E r \in Replicas :
       \/ genesis(r) \/ Receive(r)
       \/ register_required_replica(r) \/ advance_replica_safe_lsn_from_evidence(r)

(***************************************************************************)
(* Properties.                                                             *)
(***************************************************************************)
\* The safe LSN of a replica stands on evidence: every LSN from the first up
\* to it was covered by a validated range, in whatever order the ranges came,
\* and the replica holds it.  A replica seeded from a snapshot in the middle
\* of the log has no evidence for what is before it (validate_ack_binding).
SafeLsnIsEvidenced ==
  \A r \in Replicas :
    /\ 1..safe_lsn[r] \subseteq recorded[r]
    /\ \A l \in recorded[r] : base[r] < l /\ l <= tail[r]
=============================================================================
