----------------------------- MODULE HadrProofs -----------------------------
(***************************************************************************)
(* Proofs about HadrMembership, for every number of nodes, commands and    *)
(* faults.                                                                 *)
(***************************************************************************)
EXTENDS HadrMembership, FiniteSetTheorems, TLAPS

-----------------------------------------------------------------------------
(* Natural numbers.  Induction is stated over sets, so that the provers    *)
(* can instantiate it.                                                     *)

\* A non-empty set of naturals has a least element.
LEMMA NatHasMin ==
  ASSUME NEW S \in SUBSET Nat, S # {}
  PROVE  \E x \in S : \A y \in S : x <= y
<1>1. PICK x \in S : \A y \in S : ~ (<<y, x>> \in OpToRel(<, Nat))
  BY NatLessThanWellFounded, WFMin, Zenon
<1>2. \A y \in S : ~ (y < x)
  BY <1>1, Zenon DEF OpToRel
<1>3. \A y \in S : x <= y
  BY <1>2
<1> QED
  BY <1>3

\* Induction along the iterations 0 .. n of a loop.
LEMMA LoopInduction ==
  ASSUME NEW n \in Nat, NEW S,
         0 \in S,
         \A i \in 1 .. n : i - 1 \in S => i \in S
  PROVE  \A i \in 0 .. n : i \in S
<1> DEFINE T == {i \in 0 .. n : i \notin S}
<1>1. SUFFICES ASSUME T # {} PROVE FALSE
  OBVIOUS
<1>2. PICK x \in T : \A y \in T : x <= y
  <2>1. T \in SUBSET Nat
    OBVIOUS
  <2> HIDE DEF T
  <2> QED BY <1>1, <2>1, NatHasMin
<1>3. x \in 1 .. n /\ x - 1 \in 0 .. n /\ ~(x <= x - 1)
  OBVIOUS
<1>4. x - 1 \in S
  BY <1>2, <1>3
<1> QED
  BY <1>3, <1>4


RoleOf == [role : Roles, role_epoch : Nat]
NodeMap == UNION {[ids -> RoleOf] : ids \in SUBSET Nodes}
File == Snapshot \cup {Absent, Torn}
Directory == [main : File, tmp : File, bak : File]
AttemptType == [candidate : Nodes, observed : Nat, candidate_lsn : Lsns, audit_lsn : Lsns,
                voters : SUBSET Nodes]
PlanType == [candidate : Nodes, epoch : Nat, lsn : Lsns]
Pc == {"idle", "open", "attempt", "planned", "audited", "write", "unlink", "backup", "publish", "sync",
       "cleanup"}
Proc == [pc : Pc, target : Snapshot, plan : PlanType \cup AttemptType \cup {NoPlan}]

\* The promotions in the journal of a snapshot have their markers among m.
Marked(s, m) ==
  \A i \in DOMAIN s.records :
    s.records[i].kind = "PrimaryPromoted" =>
      [node |-> s.records[i].node, epoch |-> s.records[i].epoch, lsn |-> s.records[i].lsn] \in m

\* t is a later snapshot than s, with no promotion that s has not.
Later(s, t) ==
  /\ t \in Snapshot /\ t.epoch > s.epoch /\ t.records # <<>>
  /\ \A m : Marked(s, m) => Marked(t, m)

-----------------------------------------------------------------------------
(* Snapshots.                                                              *)

\* A map from registered nodes to their roles.
LEMMA IsNodeMap ==
  ASSUME NEW ids \in SUBSET Nodes, NEW nodes \in [ids -> RoleOf]
  PROVE  nodes \in NodeMap
  BY DEF NodeMap

\* The type of snapshots in the terms of this module.
LEMMA SnapshotIs == Snapshot = [epoch : Nat, nodes : NodeMap, records : Seq(JournalRecord)]
  BY DEF Snapshot, NodeMap, RoleOf

\* The parts of a snapshot.
LEMMA SnapshotFields ==
  ASSUME NEW s \in Snapshot
  PROVE  /\ s.epoch \in Nat /\ s.records \in Seq(JournalRecord)
         /\ DOMAIN s.nodes \subseteq Nodes /\ s.nodes \in [DOMAIN s.nodes -> RoleOf]
         /\ s.nodes \in NodeMap
<1>1. /\ s.epoch \in Nat /\ s.records \in Seq(JournalRecord)
      /\ DOMAIN s.nodes \subseteq Nodes /\ s.nodes \in [DOMAIN s.nodes -> RoleOf]
  BY DEF Snapshot, RoleOf
<1> QED
  BY <1>1, IsNodeMap

\* push_epoch_advanced starts the epoch and records it.
LEMMA EpochPushed ==
  ASSUME NEW s \in Snapshot, NEW target \in Nat, target > s.epoch
  PROVE  LET t == push_epoch_advanced(s, target)
         IN  /\ Later(s, t) /\ t.nodes = s.nodes /\ t.epoch = target
             /\ t.records = Append(s.records, [kind |-> "EpochAdvanced", previous |-> s.epoch,
                                               epoch |-> target])
<1> DEFINE r == [kind |-> "EpochAdvanced", previous |-> s.epoch, epoch |-> target]
           t == push_epoch_advanced(s, target)
<1>1. s.epoch \in Nat /\ s.records \in Seq(JournalRecord) /\ s.nodes \in NodeMap
  BY SnapshotFields
<1>2. r \in JournalRecord /\ r.kind # "PrimaryPromoted"
  BY <1>1 DEF JournalRecord
<1>3. t = [s EXCEPT !.epoch = target, !.records = Append(s.records, r)]
  BY SnapshotIs, Zenon DEF push_epoch_advanced
<1> HIDE DEF r, t
<1>4. Append(s.records, r) \in Seq(JournalRecord)
  BY <1>1, <1>2
<1>5. t \in Snapshot /\ t.epoch = target /\ t.nodes = s.nodes /\ t.records = Append(s.records, r)
  BY <1>1, <1>3, <1>4, SnapshotIs, Zenon
<1>6. ASSUME NEW m, Marked(s, m) PROVE Marked(t, m)
  <2> SUFFICES ASSUME NEW i \in DOMAIN t.records, t.records[i].kind = "PrimaryPromoted"
               PROVE  [node |-> t.records[i].node, epoch |-> t.records[i].epoch,
                       lsn |-> t.records[i].lsn] \in m
    BY DEF Marked
  <2>1. i \in DOMAIN s.records /\ t.records[i] = s.records[i]
    BY <1>1, <1>2, <1>5
  <2> QED
    BY <1>6, <2>1 DEF Marked
<1>7. t.records # <<>>
  BY <1>1, <1>2, <1>5
<1> QED
  BY <1>5, <1>6, <1>7 DEF Later, t, r

\* t is s with these nodes and one more record.
Recorded(s, t, nodes, r) ==
  /\ t \in Snapshot /\ t.epoch = s.epoch /\ t.nodes = nodes
  /\ t.records = Append(s.records, r) /\ t.records # <<>>
  /\ \A m : Marked(s, m)
            /\ (r.kind = "PrimaryPromoted" =>
                  [node |-> r.node, epoch |-> r.epoch, lsn |-> r.lsn] \in m)
            => Marked(t, m)

\* A change adds a record to the snapshot of its epoch.
LEMMA RecordAdded ==
  ASSUME NEW s \in Snapshot, NEW nodes \in NodeMap, NEW r \in JournalRecord
  PROVE  Recorded(s, WithRecord(s, nodes, r), nodes, r)
<1> DEFINE t == WithRecord(s, nodes, r)
<1>1. s.epoch \in Nat /\ s.records \in Seq(JournalRecord)
  BY SnapshotIs, Zenon
<1>2. t = [s EXCEPT !.nodes = nodes, !.records = Append(s.records, r)]
  BY SnapshotIs, Zenon DEF WithRecord
<1> HIDE DEF t
<1>3. Append(s.records, r) \in Seq(JournalRecord)
  BY <1>1
<1>4. t \in Snapshot /\ t.epoch = s.epoch /\ t.records = Append(s.records, r) /\ t.nodes = nodes
  BY <1>1, <1>2, <1>3, SnapshotIs, Zenon
<1>5. ASSUME NEW m, Marked(s, m),
             r.kind = "PrimaryPromoted" =>
               [node |-> r.node, epoch |-> r.epoch, lsn |-> r.lsn] \in m
      PROVE  Marked(t, m)
  <2> SUFFICES ASSUME NEW i \in DOMAIN t.records, t.records[i].kind = "PrimaryPromoted"
               PROVE  [node |-> t.records[i].node, epoch |-> t.records[i].epoch,
                       lsn |-> t.records[i].lsn] \in m
    BY DEF Marked
  <2>1. \/ i \in DOMAIN s.records /\ t.records[i] = s.records[i]
        \/ t.records[i] = r
    BY <1>1, <1>4
  <2> QED
    BY <1>5, <2>1 DEF Marked
<1>6. t.records # <<>>
  BY <1>1, <1>4
<1> QED
  BY <1>4, <1>5, <1>6 DEF t, Recorded

\* SetRole keeps the set of nodes.
LEMMA RolesSet ==
  ASSUME NEW nodes \in NodeMap, NEW ids, NEW role \in Roles, NEW e \in Nat
  PROVE  SetRole(nodes, ids, role, e) \in NodeMap
<1>1. PICK reg \in SUBSET Nodes : nodes \in [reg -> RoleOf]
  BY DEF NodeMap
<1>2. SetRole(nodes, ids, role, e) \in [reg -> RoleOf]
  BY <1>1 DEF SetRole, RoleOf
<1> QED
  BY <1>1, <1>2, IsNodeMap

\* A change of the nodes in the next epoch, with a record that is no promotion.
LEMMA NextEpoch ==
  ASSUME NEW s \in Snapshot, NEW nodes \in NodeMap, NEW r \in JournalRecord,
         r.kind # "PrimaryPromoted"
  PROVE  LET t == WithRecord(push_epoch_advanced(s, s.epoch + 1), nodes, r)
         IN  Later(s, t) /\ t.epoch = s.epoch + 1
<1> DEFINE u == push_epoch_advanced(s, s.epoch + 1)
           t == WithRecord(u, nodes, r)
<1>1. s.epoch \in Nat /\ s.epoch + 1 \in Nat /\ s.epoch + 1 > s.epoch
  BY SnapshotFields
<1>2. Later(s, u) /\ u.epoch = s.epoch + 1
  BY <1>1, EpochPushed, Zenon
<1> HIDE DEF u
<1>3. u \in Snapshot
  BY <1>2 DEF Later
<1>4. Recorded(u, t, nodes, r)
  BY <1>3, RecordAdded
<1> HIDE DEF t
<1>5. Later(s, t) /\ t.epoch = s.epoch + 1
  BY <1>1, <1>2, <1>4 DEF Later, Recorded
<1> QED
  BY <1>5 DEF t, u

\* register_node makes a later snapshot, with no promotion.
LEMMA RegisterIsLater ==
  ASSUME NEW s \in Snapshot, NEW id \in Nodes, NEW role \in Roles
  PROVE  Later(s, register_node(s, id, role)) /\ register_node(s, id, role).epoch = s.epoch + 1
<1> DEFINE nodes == WithNode(s.nodes, id, role, s.epoch + 1)
           r == [kind |-> "NodeRegistered", node |-> id, role |-> role, epoch |-> s.epoch + 1]
<1>1. s.epoch + 1 \in Nat
  BY SnapshotFields
<1>2. r \in JournalRecord /\ r.kind # "PrimaryPromoted"
  BY <1>1 DEF JournalRecord
<1>4. nodes \in NodeMap
  <2> DEFINE reg == DOMAIN s.nodes \cup {id}
  <2>1. s.nodes \in [DOMAIN s.nodes -> RoleOf] /\ DOMAIN s.nodes \subseteq Nodes
    BY SnapshotFields
  <2>2. [role |-> role, role_epoch |-> s.epoch + 1] \in RoleOf
    BY <1>1 DEF RoleOf
  <2>3. nodes \in [reg -> RoleOf] /\ reg \in SUBSET Nodes
    BY <2>1, <2>2 DEF WithNode
  <2> HIDE DEF reg, nodes
  <2> QED
    BY <2>3, IsNodeMap
<1>5. register_node(s, id, role) = WithRecord(push_epoch_advanced(s, s.epoch + 1), nodes, r)
  BY DEF register_node
<1> HIDE DEF nodes, r
<1> QED
  BY <1>2, <1>4, <1>5, NextEpoch

\* Every change is a later snapshot, and promotes nobody.
LEMMA ChangeIsLater ==
  ASSUME NEW s \in Snapshot, NEW t \in Changes(s)
  PROVE  Later(s, t)
<1> DEFINE e == s.epoch + 1
           reg == DOMAIN s.nodes
<1>1. s.epoch \in Nat /\ e \in Nat /\ s.nodes \in NodeMap
  BY SnapshotFields
<1>2. reg \subseteq Nodes /\ s.nodes \in [reg -> RoleOf]
  BY SnapshotFields
<1>3. ASSUME NEW n \in Nodes \ reg, NEW role \in Roles, t = register_node(s, n, role)
      PROVE  Later(s, t)
  BY <1>3, RegisterIsLater
<1>4. ASSUME NEW n \in reg, NEW role \in Roles \ {"Primary"}, t = update_node_role(s, n, role)
      PROVE  Later(s, t)
  <2> DEFINE r == [kind |-> "NodeRoleUpdated", node |-> n, role |-> role, epoch |-> e]
             nodes == SetRole(s.nodes, {n}, role, e)
  <2>1. r \in JournalRecord /\ r.kind # "PrimaryPromoted"
    BY <1>1, <1>2 DEF JournalRecord
  <2>2. nodes \in NodeMap
    BY <1>1, RolesSet
  <2>3. t = WithRecord(push_epoch_advanced(s, s.epoch + 1), nodes, r)
    BY <1>4 DEF update_node_role
  <2> HIDE DEF nodes, r
  <2> QED
    BY <2>1, <2>2, <2>3, NextEpoch
<1>5. ASSUME NEW n \in reg, t = deregister_node(s, n)
      PROVE  Later(s, t)
  <2> DEFINE r == [kind |-> "NodeDeregistered", node |-> n, epoch |-> e]
             nodes == [k \in reg \ {n} |-> s.nodes[k]]
  <2>1. r \in JournalRecord /\ r.kind # "PrimaryPromoted"
    BY <1>1, <1>2 DEF JournalRecord
  <2>2. nodes \in [reg \ {n} -> RoleOf] /\ reg \ {n} \in SUBSET Nodes
    BY <1>2
  <2>3. t = WithRecord(push_epoch_advanced(s, s.epoch + 1), nodes, r)
    BY <1>5 DEF deregister_node
  <2> HIDE DEF nodes, r
  <2>4. nodes \in NodeMap
    BY <2>2, IsNodeMap
  <2> QED
    BY <2>1, <2>3, <2>4, NextEpoch
<1>6. ASSUME NEW n \in reg, t = fence_node(s, n)
      PROVE  Later(s, t)
  <2> DEFINE r == [kind |-> "NodeFenced", node |-> n, epoch |-> e]
             ids == {n} \ {k \in DOMAIN s.nodes : s.nodes[k].role = "Replica"}
             nodes == SetRole(s.nodes, ids, "Replica", e)
  <2>1. r \in JournalRecord /\ r.kind # "PrimaryPromoted"
    BY <1>1, <1>2 DEF JournalRecord
  <2>2. nodes \in NodeMap
    <3> HIDE DEF ids
    <3> QED BY <1>1, RolesSet, Zenon DEF Roles
  <2>3. t = WithRecord(push_epoch_advanced(s, s.epoch + 1), nodes, r)
    BY <1>6 DEF fence_node
  <2> HIDE DEF nodes, r
  <2> QED
    BY <2>1, <2>2, <2>3, NextEpoch
<1>7. ASSUME NEW f \in s.epoch + 1 .. s.epoch + MaxSkip, t = push_epoch_advanced(s, f)
      PROVE  Later(s, t)
  <2>1. f \in Nat /\ f > s.epoch
    BY <1>1, MembershipAssumption
  <2> QED
    BY <1>7, <2>1, EpochPushed, Zenon
<1> QED
  BY <1>3, <1>4, <1>5, <1>6, <1>7 DEF Changes

\* t has the epoch and, beyond those of s, one promotion.
Promotes(s, t, epoch, marker) ==
  /\ t \in Snapshot /\ t.epoch = epoch /\ t.records # <<>>
  /\ \A m : Marked(s, m) /\ marker \in m => Marked(t, m)

\* promote_primary is a later snapshot, and promotes the node it is given only.
LEMMA PromotedIsLater ==
  ASSUME NEW s \in Snapshot, NEW id \in Nodes, NEW target \in Nat, target > s.epoch,
         NEW lsn \in Lsns
  PROVE  Promotes(s, promote_primary(s, id, target, lsn), target,
                  [node |-> id, epoch |-> target, lsn |-> lsn])
<1> DEFINE u == push_epoch_advanced(s, target)
           nodes == SetRole(SetRole(s.nodes, Demoted(s.nodes, id), "Replica", target),
                            {id}, "Primary", target)
           r == [kind |-> "PrimaryPromoted", node |-> id, epoch |-> target, lsn |-> lsn]
           t == WithRecord(u, nodes, r)
<1>1. s.nodes \in NodeMap /\ "Replica" \in Roles /\ "Primary" \in Roles
  BY SnapshotIs, Zenon DEF Roles
<1>2. nodes \in NodeMap
  BY <1>1, RolesSet
<1>3. r \in JournalRecord /\ [node |-> r.node, epoch |-> r.epoch, lsn |-> r.lsn]
                               = [node |-> id, epoch |-> target, lsn |-> lsn]
  BY DEF JournalRecord
<1>4. Later(s, u) /\ u.epoch = target /\ u \in Snapshot
  BY EpochPushed, Zenon DEF Later
<1>5. t = promote_primary(s, id, target, lsn)
  BY DEF promote_primary
<1> HIDE DEF u, nodes, r
<1>6. Recorded(u, t, nodes, r)
  BY <1>2, <1>3, <1>4, RecordAdded
<1> HIDE DEF t
<1> QED
  BY <1>3, <1>4, <1>5, <1>6 DEF Later, Promotes, Recorded

\* The empty snapshot is one, with no promotion.
LEMMA EmptyIsSnapshot ==
  EmptySnapshot \in Snapshot /\ EmptySnapshot.epoch = 0 /\ \A m : Marked(EmptySnapshot, m)
<1>1. NoNodes \in NodeMap
  <2>1. NoNodes \in [{} -> RoleOf]
    BY DEF NoNodes
  <2> QED
    BY <2>1, IsNodeMap, Zenon
<1>2. <<>> \in Seq(JournalRecord)
  OBVIOUS
<1>3. EmptySnapshot \in Snapshot
  BY <1>1, <1>2, SnapshotIs, Zenon DEF EmptySnapshot
<1>4. EmptySnapshot.epoch = 0 /\ EmptySnapshot.records = <<>>
  BY DEF EmptySnapshot
<1> QED
  BY <1>3, <1>4 DEF Marked

\* The store that the first nodes of an order have founded.
Registered(x, i, order) == register_node(x, order[i], IF i = 1 THEN "Primary" ELSE "Replica")

\* The recursive function of Founded is the function that its equation describes.
LEMMA BuiltExists ==
  ASSUME NEW order, NEW n \in Nat
  PROVE  \E g : g = [i \in 0 .. n |-> IF i = 0 THEN EmptySnapshot ELSE Registered(g[i - 1], i, order)]
<1> DEFINE IsRun(g, k) ==
      g = [i \in 0 .. k |-> IF i = 0 THEN EmptySnapshot ELSE Registered(g[i - 1], i, order)]
           S == {k \in 0 .. n : \E g : IsRun(g, k)}
<1>1. 0 \in S
  <2>1. IsRun([i \in 0 .. 0 |-> EmptySnapshot], 0)
    OBVIOUS
  <2>2. \E g : IsRun(g, 0)
    BY <2>1, Zenon
  <2> HIDE DEF IsRun
  <2> QED BY <2>2
<1>2. \A k \in 1 .. n : k - 1 \in S => k \in S
  <2>1. SUFFICES ASSUME NEW k \in 1 .. n, NEW g, IsRun(g, k - 1)
                 PROVE  \E h : IsRun(h, k)
    OBVIOUS
  <2> DEFINE h == [i \in 0 .. k |-> IF i = k THEN Registered(g[k - 1], k, order) ELSE g[i]]
  <2>2. \A i \in 0 .. k : h[i] = IF i = 0 THEN EmptySnapshot ELSE Registered(h[i - 1], i, order)
    <3>1. \A i \in 0 .. k - 1 : h[i] = g[i]
      OBVIOUS
    <3>2. \A i \in 0 .. k - 1 :
            g[i] = IF i = 0 THEN EmptySnapshot ELSE Registered(g[i - 1], i, order)
      BY <2>1
    <3>3. h[k] = Registered(g[k - 1], k, order)
      OBVIOUS
    <3> HIDE DEF h
    <3> QED BY <3>1, <3>2, <3>3
  <2>3. IsRun(h, k)
    BY <2>2
  <2> QED BY <2>3, Zenon
<1>3. n \in S
  <2> HIDE DEF S
  <2> QED BY <1>1, <1>2, LoopInduction
<1> QED
  BY <1>3

IsFounding(g, k, order) ==
  /\ g[0] = EmptySnapshot
  /\ \A i \in 1 .. k : g[i] = Registered(g[i - 1], i, order)
  /\ Founded(k, order) = g[k]

\* The store is what the last registration made of it.
LEMMA FoundedIs ==
  ASSUME NEW k \in Nat, NEW order
  PROVE  \E g : IsFounding(g, k, order)
<1> DEFINE built == CHOOSE g : g = [i \in 0 .. k |-> IF i = 0 THEN EmptySnapshot
                                                  ELSE Registered(g[i - 1], i, order)]
<1>1. Founded(k, order) = built[k]
  BY DEF Founded, Registered
<1>2. built = [i \in 0 .. k |-> IF i = 0 THEN EmptySnapshot ELSE Registered(built[i - 1], i, order)]
  BY BuiltExists, Zenon
<1> HIDE DEF built
<1>3. built[0] = EmptySnapshot /\ \A i \in 1 .. k : built[i] = Registered(built[i - 1], i, order)
  BY <1>2
<1>4. IsFounding(built, k, order)
  BY <1>1, <1>3 DEF IsFounding
<1> QED
  BY <1>4, Zenon

\* A founded store is a snapshot without promotions.
LEMMA FoundedIsSnapshot ==
  ASSUME NEW k \in 0 .. Cardinality(Nodes), NEW order \in Bijection(1 .. Cardinality(Nodes), Nodes)
  PROVE  Founded(k, order) \in Snapshot /\ \A m : Marked(Founded(k, order), m)
<1>1. Cardinality(Nodes) \in Nat /\ k \in Nat
  <2>1. Cardinality(Nodes) \in Nat
    BY FS_CardinalityType, MembershipAssumption
  <2> QED
    BY <2>1
<1>2. order \in [1 .. Cardinality(Nodes) -> Nodes]
  BY DEF Bijection, Injection
<1>3. PICK g : IsFounding(g, k, order)
  BY <1>1, FoundedIs
<1> DEFINE Inv(i) == g[i] \in Snapshot /\ \A m : Marked(g[i], m)
           S == {i \in 0 .. k : Inv(i)}
<1>4. 0 \in S
  BY <1>1, <1>3, EmptyIsSnapshot DEF IsFounding
<1>5. \A i \in 1 .. k : i - 1 \in S => i \in S
  <2> HIDE DEF Inv
  <2>1. SUFFICES ASSUME NEW i \in 1 .. k, Inv(i - 1) PROVE Inv(i)
    BY <1>1
  <2> USE DEF Inv
  <2>2. order[i] \in Nodes
    BY <1>1, <1>2
  <2>3. Later(g[i - 1], g[i])
    BY <1>3, <2>1, <2>2, RegisterIsLater DEF IsFounding, Registered, Roles
  <2> QED
    BY <2>1, <2>3 DEF Later
<1>6. \A i \in 0 .. k : i \in S
  <2> HIDE DEF S
  <2> QED
    BY <1>1, <1>4, <1>5, LoopInduction, Zenon
<1> QED
  BY <1>1, <1>3, <1>6 DEF IsFounding

-----------------------------------------------------------------------------
(* Types and markers.                                                      *)

TypeInv ==
  /\ crash_dirs \subseteq Directory /\ dir \in crash_dirs
  /\ procs \in [Operators -> Proc]
  /\ acked \in Nat
  /\ \A p \in Operators : procs[p].pc \in {"planned", "audited"} => procs[p].plan \in PlanType
  /\ \A p \in Operators : procs[p].pc = "attempt" => procs[p].plan \in AttemptType

FilesMarked(d, m) ==
  /\ d.main \in Snapshot => Marked(d.main, m)
  /\ d.tmp \in Snapshot => Marked(d.tmp, m)
  /\ d.bak \in Snapshot => Marked(d.bak, m)

\* The promotions have markers wherever they are: in a file that a crash may leave and in
\* what an operator is about to write.
MarkInv ==
  /\ \A d \in crash_dirs : FilesMarked(d, markers)
  /\ \A p \in Operators : Marked(procs[p].target, markers)
  /\ \A p \in Operators : procs[p].pc = "audited" => Marker(procs[p].plan) \in markers

\* What an operator may put into the files.
Contents(p) == {dir.main, dir.tmp, dir.bak, Absent, Torn, procs[p].target}
Rearranged(p) == [main : Contents(p), tmp : Contents(p), bak : Contents(p)]

\* recover_interrupted_publish, and each step of it, moves and removes files.
LEMMA RecoveryRearranges ==
  ASSUME dir \in Directory, NEW p \in Operators
  PROVE  /\ dir \in Rearranged(p)
         /\ Restored(dir) \in Rearranged(p)
         /\ WithoutBackup(Restored(dir)) \in Rearranged(p)
         /\ recover_interrupted_publish(dir) \in Rearranged(p)
<1>1. dir \in Rearranged(p)
  BY DEF Directory, Rearranged, Contents
<1>2. ASSUME NEW d \in Rearranged(p) PROVE WithoutBackup(d) \in Rearranged(p) /\ WithoutTmp(d) \in Rearranged(p)
  BY <1>2 DEF WithoutBackup, WithoutTmp, Rearranged, Contents
<1>3. Restored(dir) \in Rearranged(p)
  BY <1>1, Zenon DEF Restored, Rearranged, Contents
<1> QED
  BY <1>1, <1>2, <1>3 DEF recover_interrupted_publish

\* Every step of an operator leaves directories that were possible before, or that it
\* has rearranged.
LEMMA StepRearranges ==
  ASSUME TypeInv, NEW p \in Operators, Command(p) \/ persist(p)
  PROVE  /\ dir' \in crash_dirs'
         /\ \A d \in crash_dirs' : d \in crash_dirs \/ d \in Rearranged(p)
<1>1. dir \in Directory /\ dir \in crash_dirs
  BY DEF TypeInv
<1>2. /\ dir \in Rearranged(p)
      /\ Restored(dir) \in Rearranged(p)
      /\ WithoutBackup(Restored(dir)) \in Rearranged(p)
      /\ recover_interrupted_publish(dir) \in Rearranged(p)
  BY <1>1, RecoveryRearranges
<1>3. ASSUME NEW t \in Contents(p) PROVE [dir EXCEPT !.tmp = t] \in Rearranged(p)
  BY <1>2, <1>3 DEF Rearranged
<1>4. /\ [dir EXCEPT !.bak = Absent] \in Rearranged(p)
      /\ [dir EXCEPT !.bak = dir.main, !.main = Absent] \in Rearranged(p)
      /\ [dir EXCEPT !.main = dir.tmp, !.tmp = Absent] \in Rearranged(p)
  BY <1>2, Zenon DEF Rearranged, Contents
<1>5. CASE open(p) \/ OpenFails(p)
  BY <1>1, <1>2, <1>5 DEF open, OpenFails, Unsynced
<1>6. CASE Change(p) \/ BuildAttempt(p) \/ Plan(p) \/ append_primary_promotion_marker_durably(p)
           \/ AuditFails(p) \/ PublishPlan(p)
  BY <1>1, <1>6 DEF Change, BuildAttempt, Plan, append_primary_promotion_marker_durably, AuditFails, PublishPlan
<1>7. CASE write_tmp(p)
  <2>1. [dir EXCEPT !.tmp = procs[p].target] \in Rearranged(p)
        /\ [dir EXCEPT !.tmp = Torn] \in Rearranged(p)
    BY <1>3 DEF Contents
  <2> QED
    BY <1>7, <2>1 DEF write_tmp, Fail, Unsynced
<1>8. CASE remove_stale_backup(p)
  BY <1>1, <1>2, <1>4, <1>8 DEF remove_stale_backup, Fail, Unsynced, Synced
<1>9. CASE backup_main(p)
  BY <1>1, <1>2, <1>4, <1>9 DEF backup_main, Fail, Unsynced, Synced
<1>10. CASE publish(p)
  BY <1>1, <1>2, <1>4, <1>10 DEF publish, Fail, Unsynced, Synced
<1>11. CASE sync_published(p) \/ remove_committed_backup(p)
  BY <1>1, <1>2, <1>4, <1>11 DEF sync_published, remove_committed_backup, Fail, Unsynced, Synced
<1> QED
  BY <1>5, <1>6, <1>7, <1>8, <1>9, <1>10, <1>11 DEF Command, persist

-----------------------------------------------------------------------------
(* The steps of an operator.                                               *)

\* The operator p goes on as r.
Moves(p, r) ==
  /\ procs' = [procs EXCEPT ![p] = r]
  /\ r \in Proc
  /\ r.pc \in {"planned", "audited"} => r.plan \in PlanType
  /\ r.pc = "attempt" => r.plan \in AttemptType
  /\ markers \subseteq markers'
  /\ Marked(r.target, markers')
  /\ r.pc = "audited" => Marker(r.plan) \in markers'

\* Markers that are added leave the promotions marked.
LEMMA MarkedStays ==
  ASSUME NEW s, NEW m, NEW n, m \subseteq n, Marked(s, m)
  PROVE  Marked(s, n)
  BY DEF Marked

\* An attempt is made of nodes of the cluster, and so is the plan it becomes.
LEMMA AttemptsTyped ==
  ASSUME NEW s \in Snapshot
  PROVE  /\ build_promotion_attempt(s) \subseteq AttemptType
         /\ \A a \in AttemptType : PlanOf(s, a) \in PlanType
<1>1. DOMAIN s.nodes \subseteq Nodes /\ s.epoch \in Nat
  BY SnapshotFields
<1>2. build_promotion_attempt(s) \subseteq AttemptType
  BY <1>1 DEF build_promotion_attempt, AttemptType
<1>3. ASSUME NEW a \in AttemptType PROVE PlanOf(s, a) \in PlanType
  <2>1. a.observed \in Nat /\ a.candidate \in Nodes /\ a.candidate_lsn \in Lsns
    BY DEF AttemptType
  <2>2. proposed_promotion_epoch(s, a.observed) \in Nat
    BY <1>1, <2>1 DEF proposed_promotion_epoch
  <2> QED
    BY <2>1, <2>2 DEF PlanOf, PlanType
<1> QED
  BY <1>2, <1>3

\* Every command and every step of persist leaves the operator with a plan whose marker
\* is in the log and with a snapshot whose promotions are.
LEMMA OperatorMoves ==
  ASSUME TypeInv, MarkInv, NEW p \in Operators, Command(p) \/ persist(p)
  PROVE  \E r : Moves(p, r)
<1> DEFINE now == procs[p]
           s == load_or_empty(dir)
           At(pc) == [now EXCEPT !.pc = pc]
<1>1. /\ now \in Proc /\ procs \in [Operators -> Proc] /\ Marked(now.target, markers)
      /\ now.pc = "audited" => Marker(now.plan) \in markers
      /\ now.pc \in {"planned", "audited"} => now.plan \in PlanType
      /\ now.pc = "attempt" => now.plan \in AttemptType
  BY DEF TypeInv, MarkInv
<1>2. /\ Idle \in Proc /\ Idle.pc = "idle" /\ Idle.target = EmptySnapshot
      /\ Ready \in Proc /\ Ready.pc = "open" /\ Ready.target = EmptySnapshot
      /\ Idle.plan = NoPlan /\ Ready.plan = NoPlan
      /\ \A m : Marked(EmptySnapshot, m)
  BY EmptyIsSnapshot DEF Idle, Ready, Proc, Pc
<1>3. dir.main # Torn => s \in Snapshot /\ Marked(s, markers)
  BY EmptyIsSnapshot DEF TypeInv, MarkInv, FilesMarked, Directory, File, load_or_empty
<1>4. ASSUME NEW pc \in Pc, Goto(p, pc), markers \subseteq markers',
             pc = "audited" => now.pc = "planned" /\ Marker(now.plan) \in markers',
             pc \notin {"attempt", "planned"}
      PROVE  Moves(p, At(pc))
  <2>1. At(pc) \in Proc /\ At(pc).pc = pc /\ At(pc).target = now.target /\ At(pc).plan = now.plan
    BY <1>1 DEF Proc
  <2>2. procs' = [procs EXCEPT ![p] = At(pc)]
    BY <1>1, <1>4 DEF Goto
  <2>3. Marked(now.target, markers')
    BY <1>1, <1>4, MarkedStays
  <2> QED
    BY <1>1, <1>4, <2>1, <2>2, <2>3 DEF Moves
<1>5. ASSUME End(p), markers \subseteq markers' PROVE Moves(p, Idle)
  BY <1>2, <1>5 DEF End, Moves
<1>6. CASE open(p)
  <2>1. procs' = [procs EXCEPT ![p] = Ready] /\ markers' = markers
    BY <1>6 DEF open
  <2> QED
    BY <1>2, <2>1, Zenon DEF Moves
<1>7. CASE OpenFails(p)
  <2>1. procs' = [procs EXCEPT ![p] = now] /\ markers' = markers /\ now.pc = "idle"
    BY <1>1, <1>7 DEF OpenFails
  <2> QED
    BY <1>1, <2>1, Zenon DEF Moves
<1>8. CASE Change(p)
  <2>1. PICK t \in Changes(s) : procs' = [procs EXCEPT ![p].pc = "write", ![p].target = t]
    BY <1>8, Zenon DEF Change
  <2>2. s \in Snapshot /\ Marked(s, markers) /\ markers' = markers
    BY <1>3, <1>8 DEF Change
  <2>3. t \in Snapshot /\ Marked(t, markers')
    BY <2>2, ChangeIsLater DEF Later
  <2> DEFINE r == [now EXCEPT !.pc = "write", !.target = t]
  <2>4. r \in Proc /\ r.pc = "write" /\ r.target = t /\ r.plan = now.plan
    BY <1>1, <2>3, Zenon DEF Proc, Pc
  <2>5. procs' = [procs EXCEPT ![p] = r]
    BY <1>1, <2>1, Zenon
  <2> QED
    BY <2>2, <2>3, <2>4, <2>5, Zenon DEF Moves
<1>9. CASE BuildAttempt(p)
  <2>1. PICK a \in build_promotion_attempt(dir.main) :
          procs' = [procs EXCEPT ![p].pc = "attempt", ![p].plan = a]
    BY <1>9, Zenon DEF BuildAttempt
  <2>2. dir.main \in Snapshot /\ markers' = markers
    BY <1>9 DEF BuildAttempt, TypeInv, Directory, File
  <2>3. a \in AttemptType
    BY <2>2, AttemptsTyped
  <2> DEFINE r == [now EXCEPT !.pc = "attempt", !.plan = a]
  <2>4. r \in Proc /\ r.pc = "attempt" /\ r.target = now.target /\ r.plan = a
    BY <1>1, <2>3, Zenon DEF Proc, Pc
  <2>5. procs' = [procs EXCEPT ![p] = r]
    BY <1>1, <2>1, Zenon
  <2> QED
    BY <1>1, <2>2, <2>3, <2>4, <2>5, Zenon DEF Moves
<1>10. CASE append_primary_promotion_marker_durably(p)
  BY <1>4, <1>10 DEF append_primary_promotion_marker_durably, Pc
<1>11. CASE AuditFails(p)
  BY <1>5, <1>11 DEF AuditFails
<1>12. CASE PublishPlan(p)
  <2> DEFINE plan == now.plan
             t == promote_primary(s, plan.candidate, plan.epoch, plan.lsn)
             r == [now EXCEPT !.pc = "write", !.target = t]
  <2>1. markers' = markers /\ plan \in PlanType /\ s \in Snapshot /\ Marked(s, markers)
        /\ Marker(plan) \in markers
    BY <1>1, <1>3, <1>12 DEF PublishPlan
  <2>2. CASE Promotable(s, plan.candidate, plan.epoch) /\ procs' = [procs EXCEPT ![p].pc = "write", ![p].target = t]
    <3>1. plan.candidate \in Nodes /\ plan.epoch \in Nat /\ plan.lsn \in Lsns
          /\ plan.epoch > s.epoch
      BY <2>1, <2>2 DEF PlanType, Promotable
    <3>2. Promotes(s, t, plan.epoch, Marker(plan))
      BY <2>1, <3>1, PromotedIsLater DEF Marker
    <3>3. t \in Snapshot /\ Marked(t, markers)
      BY <2>1, <3>2 DEF Promotes
    <3> HIDE DEF t
    <3>4. r \in Proc /\ r.pc = "write" /\ r.target = t /\ r.plan = now.plan
      BY <1>1, <3>3, Zenon DEF Proc, Pc
    <3>5. procs' = [procs EXCEPT ![p] = r]
      BY <1>1, <2>2, Zenon
    <3> QED
      BY <2>1, <3>3, <3>4, <3>5, Zenon DEF Moves
  <2>3. CASE End(p)
    BY <1>5, <2>1, <2>3
  <2> QED
    BY <1>12, <2>2, <2>3 DEF PublishPlan
<1>13. CASE persist(p)
  <2>1. markers' = markers
    BY <1>13 DEF persist, write_tmp, remove_stale_backup, backup_main, publish, sync_published,
                 remove_committed_backup
  <2>2. End(p) \/ \E pc \in {"unlink", "backup", "publish", "sync", "cleanup"} : Goto(p, pc)
    BY <1>13 DEF persist, write_tmp, remove_stale_backup, backup_main, publish, sync_published,
                 remove_committed_backup, Return, Fail, Proceed
  <2> QED
    BY <1>4, <1>5, <2>1, <2>2 DEF Pc
<1>14. CASE Plan(p)
  <2> DEFINE plan == PlanOf(dir.main, now.plan)
             r == [now EXCEPT !.pc = "planned", !.plan = plan]
  <2>1. now.plan \in AttemptType /\ markers' = markers /\ dir.main \in Snapshot \cup {Absent}
    BY <1>1, <1>14 DEF Plan, TypeInv, Directory, File
  <2>2. CASE dir.main # Absent /\ procs' = [procs EXCEPT ![p].pc = "planned", ![p].plan = plan]
    <3>1. plan \in PlanType
      BY <2>1, <2>2, AttemptsTyped
    <3> HIDE DEF plan
    <3>2. r \in Proc /\ r.pc = "planned" /\ r.target = now.target /\ r.plan = plan
      BY <1>1, <3>1, Zenon DEF Proc, Pc
    <3>3. procs' = [procs EXCEPT ![p] = r]
      BY <1>1, <2>2, Zenon
    <3> QED
      BY <1>1, <2>1, <3>1, <3>2, <3>3, Zenon DEF Moves
  <2>3. CASE End(p)
    BY <1>5, <2>1, <2>3
  <2> QED
    BY <1>14, <2>2, <2>3 DEF Plan
<1> QED
  BY <1>6, <1>7, <1>8, <1>9, <1>10, <1>11, <1>12, <1>13, <1>14 DEF Command

\* A directory made of what an operator may put there has decodable content and marked
\* promotions.
LEMMA RearrangedIsFine ==
  ASSUME TypeInv, MarkInv, NEW p \in Operators, NEW d \in Rearranged(p)
  PROVE  d \in Directory /\ FilesMarked(d, markers)
<1>1. dir \in Directory /\ FilesMarked(dir, markers)
      /\ procs[p].target \in Snapshot /\ Marked(procs[p].target, markers)
  BY DEF TypeInv, MarkInv, Proc
<1>2. Absent \notin Snapshot /\ Torn \notin Snapshot
  BY MembershipAssumption
<1>3. \A f \in Contents(p) : f \in File /\ (f \in Snapshot => Marked(f, markers))
  BY <1>1, <1>2 DEF Contents, FilesMarked, Directory, File
<1> QED
  BY <1>3 DEF Rearranged, Directory, FilesMarked

\* A founded or absent store satisfies the invariant.
LEMMA HadrInitInv == Init => TypeInv /\ MarkInv
<1> SUFFICES ASSUME Init PROVE TypeInv /\ MarkInv
  OBVIOUS
<1>1. PICK k \in Founders, order \in Bijection(1 .. Cardinality(Nodes), Nodes) :
        dir = [main |-> IF k = 0 THEN Absent ELSE Founded(k, order),
               tmp |-> Absent, bak |-> Absent]
  BY DEF Init
<1>2. k \in 0 .. Cardinality(Nodes)
  BY MembershipAssumption
<1>3. Founded(k, order) \in Snapshot /\ Marked(Founded(k, order), markers)
  BY <1>2, FoundedIsSnapshot
<1>4. Absent \notin Snapshot
  BY MembershipAssumption
<1>5. dir \in Directory /\ FilesMarked(dir, markers) /\ dir.main # Torn
  BY <1>1, <1>3, <1>4, MembershipAssumption DEF Directory, File, FilesMarked
<1>6. Idle \in Proc /\ Idle.pc = "idle" /\ Idle.target = EmptySnapshot
  BY EmptyIsSnapshot DEF Idle, Proc, Pc
<1>7. load_or_empty(dir) \in Snapshot
  BY <1>5, EmptyIsSnapshot DEF load_or_empty, Directory, File
<1>8. acked \in Nat
  BY <1>7, SnapshotFields DEF Init
<1>9. TypeInv
  BY <1>5, <1>6, <1>8 DEF Init, TypeInv
<1>10. MarkInv
  BY <1>5, <1>6, EmptyIsSnapshot DEF Init, MarkInv
<1> QED
  BY <1>9, <1>10

\* Only the end of persist acknowledges.
LEMMA AckedIs ==
  ASSUME NEW p \in Operators, Command(p) \/ persist(p)
  PROVE  acked' = acked \/ acked' = procs[p].target.epoch
<1>1. CASE remove_committed_backup(p)
  BY <1>1 DEF remove_committed_backup, Return
<1>2. CASE Command(p)
  BY <1>2 DEF Command, open, OpenFails, Change, BuildAttempt, Plan, PublishPlan, AuditFails,
              append_primary_promotion_marker_durably
<1>3. CASE write_tmp(p) \/ remove_stale_backup(p) \/ backup_main(p) \/ publish(p)
           \/ sync_published(p)
  BY <1>3 DEF write_tmp, remove_stale_backup, backup_main, publish, sync_published
<1> QED
  BY <1>1, <1>2, <1>3 DEF persist

\* Every step keeps the invariant.
LEMMA HadrNextInv == TypeInv /\ MarkInv /\ [Next]_vars => TypeInv' /\ MarkInv'
<1> SUFFICES ASSUME TypeInv, MarkInv, [Next]_vars PROVE TypeInv' /\ MarkInv'
  OBVIOUS
<1>1. CASE UNCHANGED vars
  BY <1>1 DEF vars, TypeInv, MarkInv
<1>2. CASE Crash
  <2>1. Idle \in Proc /\ Idle.pc = "idle" /\ Idle.target = EmptySnapshot
    BY EmptyIsSnapshot DEF Idle, Proc, Pc
  <2>2. TypeInv'
    BY <1>2, <2>1 DEF Crash, TypeInv
  <2>3. MarkInv'
    BY <1>2, <2>1, EmptyIsSnapshot DEF Crash, MarkInv
  <2> QED
    BY <2>2, <2>3
<1>3. ASSUME NEW p \in Operators, Command(p) \/ persist(p) PROVE TypeInv' /\ MarkInv'
  <2>1. PICK r : Moves(p, r)
    BY <1>3, OperatorMoves
  <2>2. /\ dir' \in crash_dirs'
        /\ \A d \in crash_dirs' : d \in crash_dirs \/ d \in Rearranged(p)
    BY <1>3, StepRearranges
  <2>3. ASSUME NEW d \in crash_dirs' PROVE d \in Directory /\ FilesMarked(d, markers)
    BY <2>2, <2>3, RearrangedIsFine DEF TypeInv, MarkInv
  <2>4. ASSUME NEW d \in crash_dirs' PROVE FilesMarked(d, markers')
    BY <2>1, <2>3, <2>4, MarkedStays DEF FilesMarked, Moves
  <2>5. acked' \in Nat
    <3>1. acked' = acked \/ acked' = procs[p].target.epoch
      BY <1>3, AckedIs
    <3>2. procs[p].target.epoch \in Nat
      BY SnapshotFields DEF TypeInv, Proc
    <3> QED
      BY <3>1, <3>2 DEF TypeInv
  <2>6. /\ procs' \in [Operators -> Proc] /\ procs'[p] = r
        /\ \A q \in Operators : q # p => procs'[q] = procs[q]
    BY <2>1 DEF Moves, TypeInv
  <2>7. TypeInv'
    BY <2>1, <2>2, <2>3, <2>5, <2>6 DEF TypeInv, Moves
  <2>8. ASSUME NEW q \in Operators
        PROVE  /\ Marked(procs'[q].target, markers')
               /\ procs'[q].pc = "audited" => Marker(procs'[q].plan) \in markers'
    <3>1. CASE q = p
      BY <2>1, <2>6, <3>1 DEF Moves
    <3>2. CASE q # p
      <4>1. procs'[q] = procs[q] /\ markers \subseteq markers' /\ Marked(procs[q].target, markers)
        BY <2>1, <2>6, <3>2 DEF Moves, MarkInv
      <4> QED
        BY <4>1, MarkedStays DEF MarkInv
    <3> QED
      BY <3>1, <3>2
  <2>9. MarkInv'
    BY <2>4, <2>8 DEF MarkInv
  <2> QED
    BY <2>7, <2>9
<1> QED
  BY <1>1, <1>2, <1>3 DEF Next

\* The files and the operators keep their types, and the promotions in
\* every file a crash may leave and in every snapshot being written have markers.
THEOREM HadrInvariant == Spec => [](TypeInv /\ MarkInv)
  BY HadrInitInv, HadrNextInv, PTL DEF Spec

\* Whatever the operators do and however often they fail or crash, a promotion that is in
\* a file of the store has its marker in the audit log: PromotionBoundary appends it
\* durably before promote_primary, and every file is made of snapshots derived from others
\* by changes that add no promotion, or by that one.
THEOREM MarkersComeFirst == Spec => []MarkerBeforePrimary
<1>1. TypeInv /\ MarkInv => MarkerBeforePrimary
  <2> SUFFICES ASSUME TypeInv, MarkInv, NEW s \in Snapshots PROVE Marked(s, markers)
    BY DEF MarkerBeforePrimary, Marked
  <2>1. dir \in Directory /\ FilesMarked(dir, markers)
    BY DEF TypeInv, MarkInv
  <2>2. s \in {dir.main, dir.tmp, dir.bak} \ {Absent, Torn}
    BY <2>1 DEF Snapshots, Directory
  <2> QED
    BY <2>1, <2>2 DEF Directory, File, FilesMarked
<1> QED
  BY <1>1, HadrInvariant, PTL

-----------------------------------------------------------------------------
(* Publication by one operator.  The proof is for a store that one process *)
(* at a time has open; two that interleave their renames can lose a        *)
(* snapshot, since the second one's temporary replaces the first one's.    *)

\* The file that opening the store would leave in place.
Effective(d) == IF d.main = Absent THEN d.bak ELSE d.main

Good(d, a) ==
  /\ Effective(d) # Torn
  /\ a > 0 => Effective(d) # Absent /\ Effective(d).epoch >= a

Persisting == {"write", "unlink", "backup", "publish", "sync", "cleanup"}

\* Where the acknowledged snapshot and the one being written are, at each step.
StepInv(now, d) ==
  /\ now.pc \in {"open", "attempt", "planned", "audited", "write", "unlink", "backup"} => d.bak = Absent
  /\ now.pc \in {"unlink", "backup", "publish"} => d.tmp = now.target
  /\ now.pc = "publish" => d.main = Absent
  /\ now.pc \in {"sync", "cleanup"} => d.main = now.target

PublishInv(op) ==
  /\ \A d \in crash_dirs : Good(d, acked)
  /\ procs[op].pc \in Persisting => procs[op].target.epoch > acked
  /\ StepInv(procs[op], dir)
  /\ procs[op].pc = "cleanup" => crash_dirs = {dir}

\* recover_interrupted_publish and each step of it keep the file it will leave in place.
LEMMA RecoveryKeeps ==
  ASSUME NEW d \in Directory
  PROVE  /\ Effective(Restored(d)) = Effective(d)
         /\ Effective(WithoutBackup(Restored(d))) = Effective(d)
         /\ Effective(recover_interrupted_publish(d)) = Effective(d)
         /\ recover_interrupted_publish(d).main = Effective(d)
         /\ recover_interrupted_publish(d).bak = Absent
<1> DEFINE e == Restored(d)
           f == WithoutBackup(e)
<1>1. e \in Directory /\ e.main = Effective(d) /\ (e.main = Absent => e.bak = Absent)
  <2>1. CASE d.main = Absent /\ d.bak # Absent
    <3>1. e = [d EXCEPT !.main = d.bak, !.bak = Absent]
      BY <2>1 DEF Restored
    <3>2. Absent \in File /\ d.bak \in File
      BY DEF Directory, File
    <3>3. e \in Directory
      BY <3>1, <3>2, Zenon DEF Directory
    <3>4. e.main = d.bak /\ e.bak = Absent
      BY <3>1 DEF Directory
    <3> QED
      BY <2>1, <3>3, <3>4 DEF Effective
  <2>2. CASE ~(d.main = Absent /\ d.bak # Absent)
    BY <2>2 DEF Restored, Effective
  <2> QED
    BY <2>1, <2>2
<1> HIDE DEF e
<1>2. f \in Directory /\ f.main = Effective(d) /\ f.bak = Absent
  BY <1>1, MembershipAssumption DEF WithoutBackup, Directory, File
<1> HIDE DEF f
<1>3. WithoutTmp(f).main = Effective(d) /\ WithoutTmp(f).bak = Absent
  BY <1>2 DEF WithoutTmp, Directory
<1>4. Effective(e) = Effective(d) /\ Effective(f) = Effective(d)
      /\ Effective(WithoutTmp(f)) = Effective(d)
  BY <1>1, <1>2, <1>3 DEF Effective
<1>5. recover_interrupted_publish(d) = WithoutTmp(f)
  BY DEF recover_interrupted_publish, f, e
<1> QED
  BY <1>3, <1>4, <1>5 DEF e, f

\* The directory changes of one step of persist: which file is the one to open.
LEMMA StepKeeps ==
  ASSUME dir \in Directory, NEW t \in File
  PROVE  /\ Effective([dir EXCEPT !.tmp = t]) = Effective(dir)
         /\ dir.main # Absent =>
              /\ Effective([dir EXCEPT !.bak = Absent]) = Effective(dir)
              /\ Effective([dir EXCEPT !.bak = dir.main, !.main = Absent]) = Effective(dir)
         /\ dir.tmp # Absent =>
              Effective([dir EXCEPT !.main = dir.tmp, !.tmp = Absent]) = dir.tmp
  BY DEF Effective, Directory

\* A directory that shows the same file is as good.
LEMMA GoodSame ==
  ASSUME NEW d, NEW e, NEW a, Good(d, a), Effective(e) = Effective(d)
  PROVE  Good(e, a)
  BY DEF Good

\* The snapshot that a command starts from is at least as new as the acknowledged one.
LEMMA LoadedIsNew ==
  ASSUME dir \in Directory, acked \in Nat, Good(dir, acked), dir.bak = Absent, dir.main # Torn
  PROVE  load_or_empty(dir) \in Snapshot /\ load_or_empty(dir).epoch >= acked
<1>1. CASE dir.main = Absent
  <2>1. ~(acked > 0)
    BY <1>1 DEF Good, Effective
  <2> QED
    BY <1>1, <2>1, EmptyIsSnapshot DEF load_or_empty
<1>2. CASE dir.main # Absent
  <2>1. dir.main \in Snapshot /\ dir.main.epoch \in Nat
    BY <1>2, SnapshotFields DEF Directory, File
  <2>2. acked > 0 => dir.main.epoch >= acked
    BY <1>2 DEF Good, Effective
  <2> QED
    BY <1>2, <2>1, <2>2 DEF load_or_empty
<1> QED
  BY <1>1, <1>2

\* What a step has to show: the directories it adds are good, and the operator is where
\* its files are.
LEMMA PublishStep ==
  ASSUME NEW op, Operators = {op}, procs \in [Operators -> Proc], NEW r \in Proc,
         procs' = [procs EXCEPT ![op] = r], acked' = acked, PublishInv(op),
         dir' \in crash_dirs',
         \A d \in crash_dirs' : d \in crash_dirs \/ Good(d, acked),
         r.pc \in Persisting => r.target.epoch > acked,
         StepInv(r, dir'),
         r.pc = "cleanup" => crash_dirs' = {dir'}
  PROVE  PublishInv(op)'
<1>1. procs'[op] = r
  OBVIOUS
<1> QED
  BY <1>1 DEF PublishInv

\* Opening the store.
LEMMA OpenPublishes ==
  ASSUME NEW op, Operators = {op}, TypeInv, PublishInv(op), open(op) \/ OpenFails(op)
  PROVE  PublishInv(op)'
<1> DEFINE d == recover_interrupted_publish(dir)
<1>1. dir \in Directory /\ procs \in [Operators -> Proc] /\ Good(dir, acked) /\ acked' = acked
  BY DEF TypeInv, PublishInv, open, OpenFails
<1>2. Good(Restored(dir), acked) /\ Good(WithoutBackup(Restored(dir)), acked) /\ Good(d, acked)
      /\ d.bak = Absent
  BY <1>1, RecoveryKeeps, GoodSame
<1>3. CASE open(op)
  <2>1. Ready \in Proc /\ Ready.pc = "open"
    BY EmptyIsSnapshot DEF Ready, Idle, Proc, Pc
  <2>2. /\ procs' = [procs EXCEPT ![op] = Ready] /\ dir' = d
        /\ crash_dirs' = crash_dirs \cup {Restored(dir), WithoutBackup(Restored(dir)), d}
    BY <1>3 DEF open
  <2>3. StepInv(Ready, dir')
    BY <1>2, <2>1, <2>2 DEF StepInv
  <2>4. Ready.pc \notin Persisting
    BY <2>1 DEF Persisting
  <2> HIDE DEF d
  <2> QED
    BY <1>1, <1>2, <2>1, <2>2, <2>3, <2>4, PublishStep, Zenon
<1>4. CASE OpenFails(op)
  <2>1. procs' = [procs EXCEPT ![op] = procs[op]] /\ procs[op] \in Proc /\ procs[op].pc = "idle"
    BY <1>1, <1>4 DEF OpenFails
  <2>2. PICK f \in {Restored(dir), WithoutBackup(Restored(dir))} :
          dir' = f /\ crash_dirs' = crash_dirs \cup {f}
    BY <1>4 DEF OpenFails, Unsynced
  <2>3. Good(f, acked)
    BY <1>2, <2>2
  <2>4. StepInv(procs[op], dir') /\ procs[op].pc \notin Persisting
    BY <2>1 DEF StepInv, Persisting
  <2> QED
    BY <1>1, <2>1, <2>2, <2>3, <2>4, PublishStep, Zenon
<1> QED
  BY <1>3, <1>4

\* Commands on the open store: the new snapshot is newer than the acknowledged one.
LEMMA CommandPublishes ==
  ASSUME NEW op, Operators = {op}, TypeInv, PublishInv(op),
         Change(op) \/ BuildAttempt(op) \/ Plan(op) \/ append_primary_promotion_marker_durably(op)
           \/ AuditFails(op) \/ PublishPlan(op)
  PROVE  PublishInv(op)'
<1> DEFINE now == procs[op]
           s == load_or_empty(dir)
<1>1. /\ dir \in Directory /\ procs \in [Operators -> Proc] /\ now \in Proc
      /\ Good(dir, acked) /\ acked \in Nat /\ StepInv(now, dir)
  BY DEF TypeInv, PublishInv
<1>2. /\ dir' = dir /\ crash_dirs' = crash_dirs /\ acked' = acked /\ dir' \in crash_dirs'
      /\ now.pc \in {"open", "attempt", "planned", "audited"}
  BY DEF TypeInv, Change, BuildAttempt, Plan, append_primary_promotion_marker_durably, AuditFails, PublishPlan
<1>3. dir.bak = Absent
  BY <1>1, <1>2 DEF StepInv
<1>4. dir.main # Torn => s \in Snapshot /\ s.epoch >= acked
  BY <1>1, <1>3, LoadedIsNew
<1>5. ASSUME NEW r \in Proc, procs' = [procs EXCEPT ![op] = r],
             r.pc \in {"idle", "attempt", "planned", "audited", "write"},
             r.pc = "write" => r.target.epoch > acked
      PROVE  PublishInv(op)'
  <2>1. StepInv(r, dir') /\ (r.pc \in Persisting => r.target.epoch > acked) /\ r.pc # "cleanup"
    BY <1>2, <1>3, <1>5 DEF StepInv, Persisting
  <2> QED
    BY <1>1, <1>2, <1>5, <2>1, PublishStep, Zenon
<1>6. ASSUME NEW t \in Snapshot, procs' = [procs EXCEPT ![op].pc = "write", ![op].target = t],
             t.epoch > s.epoch, dir.main # Torn
      PROVE  PublishInv(op)'
  <2> DEFINE r == [now EXCEPT !.pc = "write", !.target = t]
  <2>1. r \in Proc /\ r.pc = "write" /\ r.target = t
    BY <1>1, <1>6, Zenon DEF Proc, Pc
  <2>2. procs' = [procs EXCEPT ![op] = r]
    BY <1>1, <1>6, Zenon
  <2>3. t.epoch > acked
    BY <1>1, <1>4, <1>6, SnapshotFields
  <2> HIDE DEF r
  <2> QED
    BY <1>5, <2>1, <2>2, <2>3, Zenon
<1>7. ASSUME End(op) PROVE PublishInv(op)'
  <2>1. Idle \in Proc /\ Idle.pc = "idle"
    BY EmptyIsSnapshot DEF Idle, Proc, Pc
  <2> QED
    BY <1>5, <1>7, <2>1, Zenon DEF End
<1>8. CASE Change(op)
  <2>1. PICK t \in Changes(s) : procs' = [procs EXCEPT ![op].pc = "write", ![op].target = t]
    BY <1>8, Zenon DEF Change
  <2>2. dir.main # Torn
    BY <1>8 DEF Change
  <2>3. t \in Snapshot /\ t.epoch > s.epoch
    BY <1>4, <2>2, ChangeIsLater DEF Later
  <2> QED
    BY <1>6, <2>1, <2>2, <2>3, Zenon
<1>9. CASE BuildAttempt(op)
  <2>1. PICK a \in build_promotion_attempt(dir.main) :
          procs' = [procs EXCEPT ![op].pc = "attempt", ![op].plan = a]
    BY <1>9, Zenon DEF BuildAttempt
  <2>2. dir.main \in Snapshot
    BY <1>1, <1>9, Zenon DEF BuildAttempt, Directory, File
  <2>3. a \in AttemptType
    BY <2>2, AttemptsTyped
  <2> DEFINE r == [now EXCEPT !.pc = "attempt", !.plan = a]
  <2>4. r \in Proc /\ r.pc = "attempt"
    BY <1>1, <2>3, Zenon DEF Proc, Pc
  <2>5. procs' = [procs EXCEPT ![op] = r]
    BY <1>1, <2>1, Zenon
  <2> HIDE DEF r
  <2> QED
    BY <1>5, <2>4, <2>5, Zenon
<1>10. CASE append_primary_promotion_marker_durably(op)
  <2> DEFINE r == [now EXCEPT !.pc = "audited"]
  <2>1. r \in Proc /\ r.pc = "audited" /\ procs' = [procs EXCEPT ![op] = r]
    BY <1>1, <1>10 DEF append_primary_promotion_marker_durably, Goto, Proc, Pc
  <2> HIDE DEF r
  <2> QED
    BY <1>5, <2>1, Zenon
<1>11. CASE AuditFails(op)
  BY <1>7, <1>11 DEF AuditFails
<1>12. CASE PublishPlan(op)
  <2> DEFINE plan == now.plan
             t == promote_primary(s, plan.candidate, plan.epoch, plan.lsn)
  <2>1. plan \in PlanType /\ s \in Snapshot /\ dir.main # Torn
    BY <1>4, <1>12 DEF PublishPlan, TypeInv
  <2>2. CASE Promotable(s, plan.candidate, plan.epoch) /\ procs' = [procs EXCEPT ![op].pc = "write", ![op].target = t]
    <3>1. plan.candidate \in Nodes /\ plan.epoch \in Nat /\ plan.lsn \in Lsns
          /\ plan.epoch > s.epoch
      BY <2>1, <2>2 DEF PlanType, Promotable
    <3> HIDE DEF s, plan
    <3>2. Promotes(s, t, plan.epoch, Marker(plan))
      BY <2>1, <3>1, PromotedIsLater DEF Marker
    <3> HIDE DEF t
    <3>3. t \in Snapshot /\ t.epoch > s.epoch
      BY <3>1, <3>2 DEF Promotes
    <3> QED
      BY <1>6, <2>1, <2>2, <3>3, Zenon
  <2> QED
    BY <1>7, <1>12, <2>2 DEF PublishPlan
<1>13. CASE Plan(op)
  <2> DEFINE plan == PlanOf(dir.main, now.plan)
             r == [now EXCEPT !.pc = "planned", !.plan = plan]
  <2>1. now.plan \in AttemptType /\ dir.main \in Snapshot \cup {Absent}
    BY <1>1, <1>13 DEF Plan, TypeInv, Directory, File
  <2>2. CASE dir.main # Absent /\ procs' = [procs EXCEPT ![op].pc = "planned", ![op].plan = plan]
    <3>1. plan \in PlanType
      BY <2>1, <2>2, AttemptsTyped
    <3> HIDE DEF plan
    <3>2. r \in Proc /\ r.pc = "planned"
      BY <1>1, <3>1, Zenon DEF Proc, Pc
    <3>3. procs' = [procs EXCEPT ![op] = r]
      BY <1>1, <2>2, Zenon
    <3> HIDE DEF r
    <3> QED
      BY <1>5, <3>2, <3>3, Zenon
  <2> QED
    BY <1>7, <1>13, <2>2 DEF Plan
<1> QED
  BY <1>8, <1>9, <1>10, <1>11, <1>12, <1>13

\* The steps of persist.
LEMMA PersistPublishes ==
  ASSUME NEW op, Operators = {op}, TypeInv, PublishInv(op), persist(op)
  PROVE  PublishInv(op)'
<1> DEFINE now == procs[op]
           At(pc) == [now EXCEPT !.pc = pc]
<1>1. /\ dir \in Directory /\ dir \in crash_dirs /\ procs \in [Operators -> Proc] /\ now \in Proc
      /\ Good(dir, acked) /\ acked \in Nat /\ StepInv(now, dir)
      /\ now.pc \in Persisting => now.target.epoch > acked
      /\ now.pc = "cleanup" => crash_dirs = {dir}
  BY DEF TypeInv, PublishInv
<1>2. /\ now.target \in Snapshot /\ now.target.epoch \in Nat
      /\ now.target \in File /\ now.target # Absent /\ now.target # Torn
      /\ Torn \in File /\ Absent \in File
  BY <1>1, SnapshotFields, MembershipAssumption DEF Proc, File
<1>3. ASSUME NEW pc \in Persisting, Goto(op, pc)
      PROVE  /\ At(pc) \in Proc /\ At(pc).pc = pc /\ At(pc).target = now.target
             /\ procs' = [procs EXCEPT ![op] = At(pc)]
  BY <1>1, <1>3 DEF Goto, Proc, Pc, Persisting
<1>4. Idle \in Proc /\ Idle.pc = "idle" /\ Idle.pc \notin Persisting /\ \A d : StepInv(Idle, d)
  BY EmptyIsSnapshot DEF Idle, Proc, Pc, Persisting, StepInv
<1>5. ASSUME NEW d, Good(d, acked), Fail(op, d), acked' = acked PROVE PublishInv(op)'
  <2>1. procs' = [procs EXCEPT ![op] = Idle] /\ dir' = d /\ crash_dirs' = crash_dirs \cup {d}
    BY <1>5 DEF Fail, End, Unsynced
  <2> QED
    BY <1>1, <1>4, <1>5, <2>1, PublishStep, Zenon
<1>6. ASSUME NEW pc \in Persisting, Goto(op, pc), acked' = acked, StepInv(At(pc), dir'),
             now.pc \in Persisting, dir' \in crash_dirs',
             \A d \in crash_dirs' : d \in crash_dirs \/ Good(d, acked),
             pc = "cleanup" => crash_dirs' = {dir'}
      PROVE  PublishInv(op)'
  <2> HIDE DEF At
  <2>1. /\ At(pc) \in Proc /\ At(pc).pc = pc /\ At(pc).target = now.target
        /\ procs' = [procs EXCEPT ![op] = At(pc)]
    BY <1>3, <1>6
  <2>2. At(pc).pc \in Persisting => At(pc).target.epoch > acked
    BY <1>1, <1>6, <2>1
  <2> QED
    BY <1>1, <1>6, <2>1, <2>2, PublishStep, Zenon
<1>7. CASE write_tmp(op)
  <2> DEFINE d == [dir EXCEPT !.tmp = now.target]
             torn == [dir EXCEPT !.tmp = Torn]
  <2>1. Good(d, acked) /\ Good(torn, acked)
    BY <1>1, <1>2, StepKeeps, GoodSame
  <2>2. d.tmp = now.target /\ d.bak = dir.bak /\ dir.bak = Absent /\ now.pc = "write" /\ acked' = acked
    BY <1>1, <1>7 DEF write_tmp, StepInv, Directory
  <2>3. CASE dir' = d /\ crash_dirs' = crash_dirs \cup {torn, d} /\ Goto(op, "unlink")
    <3>1. StepInv(At("unlink"), dir') /\ "unlink" \in Persisting /\ now.pc \in Persisting
      BY <1>3, <2>2, <2>3 DEF StepInv, Persisting
    <3> HIDE DEF d, torn, At
    <3> QED
      BY <1>6, <2>1, <2>2, <2>3, <3>1
  <2>4. CASE \E f \in {torn, d} : Fail(op, f)
    BY <1>5, <2>1, <2>2, <2>4
  <2> QED
    BY <1>7, <2>3, <2>4 DEF write_tmp, Proceed
<1>8. CASE remove_stale_backup(op)
  <2>1. /\ dir.bak = Absent /\ now.pc = "unlink" /\ acked' = acked /\ dir.tmp = now.target
    BY <1>1, <1>8 DEF remove_stale_backup, StepInv
  <2>2. dir' = dir /\ crash_dirs' = crash_dirs /\ Goto(op, "backup")
    BY <1>8, <2>1 DEF remove_stale_backup, Proceed
  <2>3. StepInv(At("backup"), dir') /\ "backup" \in Persisting /\ now.pc \in Persisting
    BY <1>3, <2>1, <2>2 DEF StepInv, Persisting
  <2> HIDE DEF At
  <2> QED
    BY <1>1, <1>6, <2>1, <2>2, <2>3
<1>9. CASE backup_main(op)
  <2> DEFINE d == [dir EXCEPT !.bak = dir.main, !.main = Absent]
  <2>1. /\ now.pc = "backup" /\ acked' = acked /\ dir.tmp = now.target
        /\ d.main = Absent /\ d.tmp = dir.tmp
    BY <1>1, <1>9 DEF backup_main, StepInv, Directory
  <2>2. dir.main # Absent => Good(d, acked)
    BY <1>1, <1>2, StepKeeps, GoodSame, Zenon
  <2>3. ASSUME Goto(op, "publish"), (dir' = dir /\ dir.main = Absent) \/ dir' = d
        PROVE  StepInv(At("publish"), dir') /\ "publish" \in Persisting /\ now.pc \in Persisting
    <3>1. dir'.tmp = now.target /\ dir'.main = Absent
      BY <2>1, <2>3, Zenon
    <3> QED
      BY <1>3, <2>1, <2>3, <3>1 DEF StepInv, Persisting
  <2>4. CASE dir.main = Absent
    <3>1. dir' = dir /\ crash_dirs' = crash_dirs /\ Goto(op, "publish")
      BY <1>9, <2>4 DEF backup_main, Proceed
    <3> HIDE DEF At, d
    <3> QED
      BY <1>1, <1>6, <2>1, <2>3, <2>4, <3>1
  <2>5. CASE dir.main # Absent
    <3>1. CASE dir' = d /\ crash_dirs' = {d} /\ Goto(op, "publish")
      <4> HIDE DEF At, d
      <4> QED
        BY <1>6, <2>1, <2>2, <2>3, <2>5, <3>1
    <3>2. CASE \E f \in {dir, d} : Fail(op, f)
      BY <1>1, <1>5, <2>1, <2>2, <2>5, <3>2
    <3> QED
      BY <1>9, <2>5, <3>1, <3>2 DEF backup_main, Proceed, Synced
  <2> QED
    BY <2>4, <2>5
<1>10. CASE publish(op)
  <2> DEFINE d == [dir EXCEPT !.main = dir.tmp, !.tmp = Absent]
  <2>1. /\ now.pc = "publish" /\ acked' = acked /\ dir.tmp = now.target
        /\ d.main = now.target
    BY <1>1, <1>10 DEF publish, StepInv, Directory
  <2>2. Effective(d) = now.target /\ now.target.epoch > acked
    BY <1>1, <1>2, <2>1, StepKeeps, Zenon DEF Persisting
  <2>3. Good(d, acked)
    BY <1>1, <1>2, <2>2 DEF Good
  <2>4. CASE dir' = d /\ crash_dirs' = crash_dirs \cup {d} /\ Goto(op, "sync")
    <3>1. StepInv(At("sync"), dir') /\ "sync" \in Persisting /\ now.pc \in Persisting
      BY <1>3, <2>1, <2>4 DEF StepInv, Persisting
    <3> HIDE DEF d, At
    <3> QED
      BY <1>6, <2>1, <2>3, <2>4, <3>1
  <2>5. CASE \E f \in {dir, Restored(dir)} : Fail(op, f)
    <3>1. Good(Restored(dir), acked)
      BY <1>1, RecoveryKeeps, GoodSame
    <3> QED
      BY <1>1, <1>5, <2>1, <2>5, <3>1
  <2> QED
    BY <1>10, <2>4, <2>5 DEF publish, Proceed, Unsynced
<1>11. CASE sync_published(op)
  <2>1. now.pc = "sync" /\ acked' = acked /\ dir.main = now.target
    BY <1>1, <1>11 DEF sync_published, StepInv
  <2>2. CASE dir' = dir /\ crash_dirs' = {dir} /\ Goto(op, "cleanup")
    <3>1. StepInv(At("cleanup"), dir') /\ "cleanup" \in Persisting /\ now.pc \in Persisting
      BY <1>3, <2>1, <2>2 DEF StepInv, Persisting
    <3> HIDE DEF At
    <3> QED
      BY <1>1, <1>6, <2>1, <2>2, <3>1
  <2>3. CASE Fail(op, dir)
    BY <1>1, <1>5, <2>1, <2>3
  <2> QED
    BY <1>11, <2>2, <2>3 DEF sync_published, Proceed, Synced
<1>12. CASE remove_committed_backup(op)
  <2> DEFINE d == [dir EXCEPT !.bak = Absent]
  <2>1. now.pc = "cleanup" /\ dir.main = now.target /\ now.target.epoch > acked
    BY <1>1, <1>12 DEF remove_committed_backup, StepInv, Persisting
  <2>2. Effective(d) = now.target /\ Effective(dir) = now.target
    BY <1>1, <1>2, <2>1, StepKeeps DEF Effective
  <2>3. CASE /\ dir' = d /\ crash_dirs' = {d} /\ End(op)
             /\ acked' = IF now.target.epoch > acked THEN now.target.epoch ELSE acked
    <3>1. now.target.epoch >= acked'
      BY <1>1, <1>2, <2>1, <2>3
    <3>2. Good(d, acked')
      BY <1>2, <2>2, <3>1 DEF Good
    <3>3. procs'[op] = Idle
      BY <1>1, <2>3 DEF End
    <3> HIDE DEF d
    <3> QED
      BY <1>4, <2>3, <3>2, <3>3 DEF PublishInv
  <2>4. CASE (\E f \in {dir, d} : Fail(op, f)) /\ acked' = acked
    <3>1. Good(d, acked)
      BY <1>1, <2>2, GoodSame
    <3> QED
      BY <1>1, <1>5, <2>4, <3>1
  <2> QED
    BY <1>12, <2>3, <2>4 DEF remove_committed_backup, Return, Synced
<1> QED
  BY <1>7, <1>8, <1>9, <1>10, <1>11, <1>12 DEF persist

\* Every step of the only operator, and a crash, keep the publication invariant.
LEMMA PublishNextInv ==
  ASSUME NEW op, Operators = {op}
  PROVE  TypeInv /\ PublishInv(op) /\ [Next]_vars => PublishInv(op)'
<1> SUFFICES ASSUME TypeInv, PublishInv(op), [Next]_vars PROVE PublishInv(op)'
  OBVIOUS
<1>1. CASE UNCHANGED vars
  BY <1>1 DEF vars, PublishInv
<1>2. CASE Crash
  <2>1. procs'[op] = Idle /\ dir' \in crash_dirs /\ crash_dirs' = {dir'} /\ acked' = acked
    BY <1>2 DEF Crash
  <2>2. Idle.pc = "idle" /\ Idle.pc \notin Persisting /\ StepInv(Idle, dir')
    BY DEF Idle, Persisting, StepInv
  <2> QED
    BY <2>1, <2>2 DEF PublishInv
<1>3. CASE Command(op)
  BY <1>3, OpenPublishes, CommandPublishes DEF Command
<1>4. CASE persist(op)
  BY <1>4, PersistPublishes
<1> QED
  BY <1>1, <1>2, <1>3, <1>4 DEF Next

\* A store that nobody has open satisfies the publication invariant.
LEMMA PublishInitInv ==
  ASSUME NEW op, Operators = {op}
  PROVE  Init /\ TypeInv => PublishInv(op)
<1> SUFFICES ASSUME Init, TypeInv PROVE PublishInv(op)
  OBVIOUS
<1>1. dir.bak = Absent /\ crash_dirs = {dir} /\ procs[op] = Idle /\ acked = load_or_empty(dir).epoch
  BY DEF Init
<1>2. dir \in Directory /\ acked \in Nat
  BY DEF TypeInv
<1>3. dir.main # Torn
  <2>1. PICK k \in Founders, order \in Bijection(1 .. Cardinality(Nodes), Nodes) :
          dir = [main |-> IF k = 0 THEN Absent ELSE Founded(k, order),
                 tmp |-> Absent, bak |-> Absent]
    BY DEF Init
  <2>2. Founded(k, order) \in Snapshot
    BY MembershipAssumption, FoundedIsSnapshot
  <2> QED
    BY <2>1, <2>2, MembershipAssumption
<1>4. Good(dir, acked)
  <2>1. CASE dir.main = Absent
    BY <1>1, <2>1, EmptyIsSnapshot, MembershipAssumption DEF Good, Effective, load_or_empty
  <2>2. CASE dir.main # Absent
    BY <1>1, <1>2, <1>3, <2>2 DEF Good, Effective, load_or_empty
  <2> QED
    BY <2>1, <2>2
<1>5. Idle.pc = "idle" /\ Idle.pc \notin Persisting /\ StepInv(Idle, dir)
  BY DEF Idle, Persisting, StepInv
<1> QED
  BY <1>1, <1>4, <1>5 DEF PublishInv

\* When one operator at a time has the store open, for every number of commands, failed
\* steps and crashes: whatever a crash leaves, opening the store finds a snapshot that
\* decodes and is at least as new as every acknowledged one.
THEOREM AckedAlwaysSurvives ==
  ASSUME NEW CONSTANT op, Operators = {op}
  PROVE  Spec => []AckedSurvives
<1>1. TypeInv /\ PublishInv(op) => AckedSurvives
  <2> SUFFICES ASSUME TypeInv, PublishInv(op), NEW d \in crash_dirs
               PROVE  LET m == recover_interrupted_publish(d).main
                      IN  m # Torn /\ (acked > 0 => m # Absent /\ m.epoch >= acked)
    BY DEF AckedSurvives, TypeInv
  <2>1. d \in Directory /\ Good(d, acked)
    BY DEF TypeInv, PublishInv
  <2>2. recover_interrupted_publish(d).main = Effective(d)
    BY <2>1, RecoveryKeeps
  <2> QED
    BY <2>1, <2>2 DEF Good
<1>2. Init /\ TypeInv => PublishInv(op)
  BY PublishInitInv
<1>3. TypeInv /\ PublishInv(op) /\ [Next]_vars => PublishInv(op)'
  BY PublishNextInv
<1> QED
  BY <1>1, <1>2, <1>3, HadrInvariant, PTL DEF Spec
=============================================================================
