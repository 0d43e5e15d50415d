-------------------------- MODULE HadrJournalProofs -------------------------
(***************************************************************************)
(* Proofs about HadrMembership: that the replay of the journal explains    *)
(* every snapshot that the code writes, and that no epoch has two tokens.  *)
(***************************************************************************)
EXTENDS HadrProofs

-----------------------------------------------------------------------------
(* The replay of the journal.                                              *)

IsReplay(g, n, records) ==
  g = [i \in 0 .. n |-> IF i = 0 THEN NothingReplayed ELSE ReplayRecord(g[i - 1], records[i])]

\* The recursive function of the replay is the function that its equation describes.
LEMMA ReplayExists ==
  ASSUME NEW records, NEW n \in Nat
  PROVE  \E g : IsReplay(g, n, records)
<1> DEFINE S == {k \in 0 .. n : \E g : IsReplay(g, k, records)}
<1>1. 0 \in S
  <2>1. IsReplay([i \in 0 .. 0 |-> NothingReplayed], 0, records)
    BY DEF IsReplay
  <2> QED
    BY <2>1
<1>2. \A k \in 1 .. n : k - 1 \in S => k \in S
  <2>1. SUFFICES ASSUME NEW k \in 1 .. n, NEW g, IsReplay(g, k - 1, records)
                 PROVE  \E h : IsReplay(h, k, records)
    OBVIOUS
  <2> DEFINE h == [i \in 0 .. k |-> IF i = k THEN ReplayRecord(g[k - 1], records[k]) ELSE g[i]]
  <2>2. \A i \in 0 .. k :
          h[i] = IF i = 0 THEN NothingReplayed ELSE ReplayRecord(h[i - 1], records[i])
    <3>1. \A i \in 0 .. k - 1 : h[i] = g[i]
      OBVIOUS
    <3>2. \A i \in 0 .. k - 1 :
            g[i] = IF i = 0 THEN NothingReplayed ELSE ReplayRecord(g[i - 1], records[i])
      BY <2>1 DEF IsReplay
    <3>3. h[k] = ReplayRecord(g[k - 1], records[k])
      OBVIOUS
    <3> HIDE DEF h
    <3> QED
      BY <3>1, <3>2, <3>3
  <2>3. IsReplay(h, k, records)
    BY <2>2 DEF IsReplay
  <2> QED
    BY <2>3, Zenon
<1>3. n \in S
  <2> HIDE DEF S
  <2> QED
    BY <1>1, <1>2, LoopInduction
<1> QED
  BY <1>3

\* Two replays of journals that begin alike agree as far as they do.
LEMMA ReplaysAgree ==
  ASSUME NEW n \in Nat, NEW m \in Nat, n <= m, NEW a, NEW b, NEW g, NEW h,
         IsReplay(g, n, a), IsReplay(h, m, b), \A i \in 1 .. n : a[i] = b[i]
  PROVE  \A i \in 0 .. n : g[i] = h[i]
<1> DEFINE S == {i \in 0 .. n : g[i] = h[i]}
<1>1. 0 \in S
  BY DEF IsReplay
<1>2. \A i \in 1 .. n : i - 1 \in S => i \in S
  <2> SUFFICES ASSUME NEW i \in 1 .. n, g[i - 1] = h[i - 1] PROVE g[i] = h[i]
    OBVIOUS
  <2>1. g[i] = ReplayRecord(g[i - 1], a[i])
    BY DEF IsReplay
  <2>2. h[i] = ReplayRecord(h[i - 1], b[i])
    BY DEF IsReplay
  <2> QED
    BY <2>1, <2>2
<1>3. \A i \in 0 .. n : i \in S
  <2> HIDE DEF S
  <2> QED
    BY <1>1, <1>2, LoopInduction
<1> QED
  BY <1>3

\* The replay of a journal, as its equation describes it.
LEMMA ReplayedIs ==
  ASSUME NEW records, Len(records) \in Nat
  PROVE  \E g : IsReplay(g, Len(records), records) /\ replayed(records) = g[Len(records)]
<1> DEFINE st == CHOOSE g : g = [i \in 0 .. Len(records) |->
                    IF i = 0 THEN NothingReplayed ELSE ReplayRecord(g[i - 1], records[i])]
<1>1. replayed(records) = st[Len(records)]
  BY DEF replayed
<1>2. \E g : g = [i \in 0 .. Len(records) |->
                    IF i = 0 THEN NothingReplayed ELSE ReplayRecord(g[i - 1], records[i])]
  BY ReplayExists DEF IsReplay
<1>3. IsReplay(st, Len(records), records)
  BY <1>2, Zenon DEF IsReplay
<1> QED
  BY <1>1, <1>3, Zenon

\* The replay takes the records one by one.
LEMMA ReplayedAppend ==
  ASSUME NEW S, NEW records \in Seq(S), NEW r \in S
  PROVE  replayed(Append(records, r)) = ReplayRecord(replayed(records), r)
<1> DEFINE n == Len(records)
           longer == Append(records, r)
<1>1. n \in Nat /\ Len(longer) = n + 1 /\ longer[n + 1] = r /\ \A i \in 1 .. n : records[i] = longer[i]
  OBVIOUS
<1> HIDE DEF longer
<1>2. PICK g : IsReplay(g, n, records) /\ replayed(records) = g[n]
  BY <1>1, ReplayedIs
<1>3. PICK h : IsReplay(h, n + 1, longer) /\ replayed(longer) = h[n + 1]
  BY <1>1, ReplayedIs
<1> HIDE DEF n
<1>4. g[n] = h[n]
  <2>1. n + 1 \in Nat /\ n <= n + 1 /\ n \in 0 .. n
    BY <1>1
  <2> QED
    BY <1>1, <1>2, <1>3, <2>1, ReplaysAgree
<1>5. h[n + 1] = ReplayRecord(h[n], longer[n + 1])
  BY <1>1, <1>3 DEF IsReplay
<1> QED
  BY <1>1, <1>2, <1>3, <1>4, <1>5 DEF longer

\* An empty journal replays to an empty cluster.
LEMMA ReplayedNothing == replayed(<<>>) = NothingReplayed
<1>1. Len(<<>>) = 0
  OBVIOUS
<1>2. PICK g : IsReplay(g, 0, <<>>) /\ replayed(<<>>) = g[0]
  BY <1>1, ReplayedIs
<1> QED
  BY <1>2 DEF IsReplay

\* The replay of the journal explains the snapshot, which validate then accepts if it is
\* within its limits.
Explained(s) ==
  /\ \A n \in DOMAIN s.nodes : s.nodes[n].role_epoch <= s.epoch
  /\ \A i \in DOMAIN s.records : s.records[i].epoch <= s.epoch
  /\ Cardinality(Primaries(s.nodes)) <= 1
  /\ replayed(s.records).ok
  /\ replayed(s.records).epoch = s.epoch
  /\ replayed(s.records).nodes = s.nodes

\* validate replays every journal but an empty one.
LEMMA ValidatedIsExplained ==
  ASSUME NEW s
  PROVE  /\ Explained(s) /\ WithinLimits(s) => validate(s)
         /\ validate(s) /\ s.records # <<>> => Explained(s)
  BY DEF Explained, validate, validate_record_replay

\* An empty snapshot has an empty journal.
LEMMA EmptyIsExplained == Explained(EmptySnapshot)
<1>1. /\ EmptySnapshot.records = <<>> /\ EmptySnapshot.epoch = 0 /\ EmptySnapshot.nodes = NoNodes
      /\ DOMAIN NoNodes = {}
  BY DEF EmptySnapshot, NoNodes
<1>2. Primaries(NoNodes) = {}
  BY <1>1 DEF Primaries
<1>3. Cardinality(Primaries(NoNodes)) <= 1
  BY <1>2, FS_EmptySet
<1>4. /\ replayed(<<>>).ok /\ replayed(<<>>).epoch = 0 /\ replayed(<<>>).nodes = NoNodes
  BY ReplayedNothing DEF NothingReplayed
<1> QED
  BY <1>1, <1>3, <1>4 DEF Explained

\* The replay accepts a new epoch.
LEMMA EpochReplayed ==
  ASSUME NEW s \in Snapshot, Explained(s), NEW target \in Nat, target > s.epoch
  PROVE  LET t == push_epoch_advanced(s, target)
         IN  Explained(t) /\ replayed(t.records).action_seen = FALSE
<1> DEFINE t == push_epoch_advanced(s, target)
           r == [kind |-> "EpochAdvanced", previous |-> s.epoch, epoch |-> target]
           st == replayed(s.records)
<1>1. /\ t.nodes = s.nodes /\ t.epoch = target /\ t.records = Append(s.records, r)
  BY EpochPushed
<1>2. /\ s.records \in Seq(JournalRecord) /\ s.epoch \in Nat /\ s.nodes \in [DOMAIN s.nodes -> RoleOf]
      /\ r \in JournalRecord
  BY SnapshotFields DEF JournalRecord
<1> HIDE DEF t
<1>3. replayed(t.records) = ReplayRecord(st, r)
  BY <1>1, <1>2, ReplayedAppend
<1>4. st.ok /\ st.epoch = s.epoch /\ st.nodes = s.nodes
  BY DEF Explained
<1>5. r.kind = "EpochAdvanced" /\ r.previous = st.epoch /\ r.previous < r.epoch /\ r.epoch = target
  BY <1>2, <1>4
<1> HIDE DEF st, r
<1>6. /\ ReplayRecord(st, r).ok /\ ReplayRecord(st, r).epoch = target
      /\ ReplayRecord(st, r).nodes = st.nodes /\ ReplayRecord(st, r).action_seen = FALSE
  BY <1>4, <1>5, Zenon DEF ReplayRecord
<1>7. /\ replayed(t.records).ok /\ replayed(t.records).epoch = t.epoch
      /\ replayed(t.records).nodes = t.nodes /\ replayed(t.records).action_seen = FALSE
  BY <1>1, <1>3, <1>4, <1>6
<1>8. \A n \in DOMAIN t.nodes : t.nodes[n].role_epoch <= t.epoch
  <2> TAKE n \in DOMAIN t.nodes
  <2>1. s.nodes[n].role_epoch \in Nat /\ s.nodes[n].role_epoch <= s.epoch
    BY <1>1, <1>2 DEF RoleOf, Explained
  <2> QED
    BY <1>1, <1>2, <2>1
<1>9. \A i \in DOMAIN t.records : t.records[i].epoch <= t.epoch
  <2> TAKE i \in DOMAIN t.records
  <2>1. CASE i \in DOMAIN s.records
    <3>1. t.records[i] = s.records[i] /\ s.records[i] \in JournalRecord
      BY <1>1, <1>2, <2>1
    <3>2. s.records[i].epoch \in Nat
      BY <3>1 DEF JournalRecord
    <3>3. s.records[i].epoch <= s.epoch
      BY <2>1 DEF Explained
    <3> QED
      BY <1>1, <1>2, <3>1, <3>2, <3>3
  <2>2. CASE i \notin DOMAIN s.records
    <3>1. t.records[i] = r
      BY <1>1, <1>2, <2>2
    <3> QED
      BY <1>1, <1>5, <3>1
  <2> QED
    BY <2>1, <2>2
<1>10. Cardinality(Primaries(t.nodes)) <= 1
  BY <1>1 DEF Explained
<1> QED
  BY <1>7, <1>8, <1>9, <1>10 DEF Explained, t

\* The replay accepts a record that fits the nodes, in the epoch that has just begun.
LEMMA ActionReplayed ==
  ASSUME NEW s \in Snapshot, Explained(s), replayed(s.records).action_seen = FALSE, s.epoch > 0,
         NEW nodes \in NodeMap, NEW r \in JournalRecord,
         r.kind # "EpochAdvanced", r.epoch = s.epoch,
         Replayable(s.nodes, r), nodes = ReplayNodes(s.nodes, r),
         \A n \in DOMAIN nodes : nodes[n].role_epoch <= s.epoch,
         Cardinality(Primaries(nodes)) <= 1
  PROVE  Explained(WithRecord(s, nodes, r))
<1> DEFINE t == WithRecord(s, nodes, r)
           st == replayed(s.records)
<1>1. t.nodes = nodes /\ t.epoch = s.epoch /\ t.records = Append(s.records, r)
  <2>1. Recorded(s, t, nodes, r)
    BY RecordAdded
  <2> QED
    BY <2>1 DEF Recorded
<1>2. s.records \in Seq(JournalRecord) /\ s.epoch \in Nat
  BY SnapshotFields
<1> HIDE DEF t
<1>3. replayed(t.records) = ReplayRecord(st, r)
  BY <1>1, <1>2, ReplayedAppend
<1>4. st.ok /\ st.epoch = s.epoch /\ st.nodes = s.nodes /\ st.action_seen = FALSE
  BY DEF Explained
<1> HIDE DEF st
<1>5. /\ r.epoch = st.epoch /\ st.epoch # 0 /\ ~st.action_seen /\ Replayable(st.nodes, r)
  BY <1>2, <1>4
<1>6. ReplayRecord(st, r).ok /\ ReplayRecord(st, r).epoch = st.epoch
      /\ ReplayRecord(st, r).nodes = ReplayNodes(st.nodes, r)
  BY <1>4, <1>5, Zenon DEF ReplayRecord
<1>7. /\ replayed(t.records).ok /\ replayed(t.records).epoch = t.epoch
      /\ replayed(t.records).nodes = t.nodes
  BY <1>1, <1>3, <1>4, <1>6
<1>8. \A i \in DOMAIN t.records : t.records[i].epoch <= t.epoch
  <2> TAKE i \in DOMAIN t.records
  <2>1. CASE i \in DOMAIN s.records
    <3>1. t.records[i] = s.records[i]
      BY <1>1, <1>2, <2>1
    <3> QED
      BY <1>1, <2>1, <3>1 DEF Explained
  <2>2. CASE i \notin DOMAIN s.records
    <3>1. t.records[i] = r
      BY <1>1, <1>2, <2>2
    <3> QED
      BY <1>1, <1>2, <3>1
  <2> QED
    BY <2>1, <2>2
<1> QED
  BY <1>1, <1>7, <1>8 DEF Explained, t

\* A set has at most one element exactly when its elements are equal.
LEMMA AtMostOne ==
  ASSUME NEW S, IsFiniteSet(S)
  PROVE  Cardinality(S) <= 1 <=> \A a, b \in S : a = b
<1>1. ASSUME NEW a \in S, NEW b \in S, a # b PROVE Cardinality(S) >= 2
  <2>1. IsFiniteSet({a}) /\ Cardinality({a}) = 1
    BY FS_Singleton, Zenon
  <2>2. b \notin {a} /\ {a} \cup {b} = {a, b}
    BY <1>1
  <2>3. Cardinality({a} \cup {b}) = Cardinality({a}) + 1
    BY <2>1, <2>2, FS_AddElement, Zenon
  <2>4. Cardinality({a, b}) <= Cardinality(S)
    BY FS_Subset
  <2>5. Cardinality({a} \cup {b}) = 2
    BY <2>1, <2>3
  <2>6. Cardinality(S) \in Nat
    BY FS_CardinalityType
  <2> QED
    BY <2>2, <2>4, <2>5, <2>6
<1>2. ASSUME \A a, b \in S : a = b PROVE Cardinality(S) <= 1
  <2>1. CASE S = {}
    BY <2>1, FS_EmptySet
  <2>2. CASE S # {}
    <3>1. PICK a \in S : TRUE
      BY <2>2
    <3>2. S = {a}
      BY <1>2
    <3> QED
      BY <3>2, FS_Singleton
  <2> QED
    BY <2>1, <2>2
<1>3. Cardinality(S) \in Nat
  BY FS_CardinalityType
<1>4. Cardinality(S) <= 1 => ~(Cardinality(S) >= 2)
  BY <1>3
<1> QED
  BY <1>1, <1>2, <1>4

\* The roles were given no later than the epoch.
RoleEpochs(nodes, e) == \A n \in DOMAIN nodes : nodes[n].role_epoch <= e

\* The replay accepts a change of the nodes in the next epoch.
LEMMA NextExplained ==
  ASSUME NEW s \in Snapshot, Explained(s), NEW nodes \in NodeMap, NEW r \in JournalRecord,
         r.kind # "EpochAdvanced", r.epoch = s.epoch + 1,
         Replayable(s.nodes, r), nodes = ReplayNodes(s.nodes, r),
         RoleEpochs(nodes, s.epoch + 1), Cardinality(Primaries(nodes)) <= 1
  PROVE  Explained(WithRecord(push_epoch_advanced(s, s.epoch + 1), nodes, r))
<1> DEFINE u == push_epoch_advanced(s, s.epoch + 1)
<1>1. s.epoch \in Nat /\ s.epoch + 1 \in Nat /\ s.epoch + 1 > s.epoch
  BY SnapshotFields
<1>2. u \in Snapshot /\ u.nodes = s.nodes /\ u.epoch = s.epoch + 1
  BY <1>1, EpochPushed, Zenon DEF Later
<1>3. Explained(u) /\ replayed(u.records).action_seen = FALSE
  BY <1>1, EpochReplayed, Zenon
<1> HIDE DEF u
<1>4. u.epoch > 0 /\ r.epoch = u.epoch /\ Replayable(u.nodes, r) /\ nodes = ReplayNodes(u.nodes, r)
      /\ \A n \in DOMAIN nodes : nodes[n].role_epoch <= u.epoch
  BY <1>1, <1>2 DEF RoleEpochs
<1>5. Explained(WithRecord(u, nodes, r))
  BY <1>2, <1>3, <1>4, ActionReplayed, Zenon
<1> QED
  BY <1>5 DEF u

\* Roles that were given in time stay so.
LEMMA EpochsStay ==
  ASSUME NEW s \in Snapshot, Explained(s)
  PROVE  /\ RoleEpochs(s.nodes, s.epoch + 1)
         /\ \A ids, role : RoleEpochs(SetRole(s.nodes, ids, role, s.epoch + 1), s.epoch + 1)
         /\ \A id, role : RoleEpochs(WithNode(s.nodes, id, role, s.epoch + 1), s.epoch + 1)
<1>1. s.epoch \in Nat /\ s.nodes \in [DOMAIN s.nodes -> RoleOf]
  BY SnapshotFields
<1>2. ASSUME NEW n \in DOMAIN s.nodes PROVE s.nodes[n].role_epoch <= s.epoch + 1
  <2>1. s.nodes[n].role_epoch \in Nat /\ s.nodes[n].role_epoch <= s.epoch
    BY <1>1 DEF RoleOf, Explained
  <2> QED
    BY <1>1, <2>1
<1>3. ASSUME NEW role PROVE [role |-> role, role_epoch |-> s.epoch + 1].role_epoch <= s.epoch + 1
  BY <1>1
<1>4. ASSUME NEW ids, NEW role, NEW n \in DOMAIN s.nodes
      PROVE  SetRole(s.nodes, ids, role, s.epoch + 1)[n].role_epoch <= s.epoch + 1
  BY <1>2, <1>3 DEF SetRole
<1>5. ASSUME NEW id, NEW role, NEW n \in DOMAIN s.nodes \cup {id}
      PROVE  WithNode(s.nodes, id, role, s.epoch + 1)[n].role_epoch <= s.epoch + 1
  BY <1>2, <1>3 DEF WithNode
<1>6. RoleEpochs(s.nodes, s.epoch + 1)
  BY <1>2 DEF RoleEpochs
<1>7. ASSUME NEW ids, NEW role PROVE RoleEpochs(SetRole(s.nodes, ids, role, s.epoch + 1), s.epoch + 1)
  BY <1>4 DEF RoleEpochs, SetRole
<1>8. ASSUME NEW id, NEW role PROVE RoleEpochs(WithNode(s.nodes, id, role, s.epoch + 1), s.epoch + 1)
  BY <1>5 DEF RoleEpochs, WithNode
<1> QED
  BY <1>6, <1>7, <1>8

\* The registration of a node, of a primary only where there is none.
LEMMA RegisterExplained ==
  ASSUME NEW s \in Snapshot, Explained(s), NEW id \in Nodes \ DOMAIN s.nodes, NEW role \in Roles,
         Cardinality(Primaries(WithNode(s.nodes, id, role, s.epoch + 1))) <= 1
  PROVE  Explained(register_node(s, id, role))
<1> DEFINE nodes == WithNode(s.nodes, id, role, s.epoch + 1)
           r == [kind |-> "NodeRegistered", node |-> id, role |-> role, epoch |-> s.epoch + 1]
<1>1. /\ s.epoch + 1 \in Nat
      /\ s.nodes \in [DOMAIN s.nodes -> RoleOf] /\ DOMAIN s.nodes \subseteq Nodes
  BY SnapshotFields
<1>2. r \in JournalRecord
  BY <1>1 DEF JournalRecord
<1>3. nodes \in NodeMap
  <2> DEFINE reg == DOMAIN s.nodes \cup {id}
  <2>1. [role |-> role, role_epoch |-> s.epoch + 1] \in RoleOf
    BY <1>1 DEF RoleOf
  <2>2. nodes \in [reg -> RoleOf] /\ reg \in SUBSET Nodes
    BY <1>1, <2>1 DEF WithNode
  <2> HIDE DEF reg, nodes
  <2> QED
    BY <2>2, IsNodeMap
<1>4. role = "Primary" => Primaries(s.nodes) = {}
  <2> SUFFICES ASSUME role = "Primary", NEW m \in Primaries(s.nodes) PROVE FALSE
    OBVIOUS
  <2>1. m \in DOMAIN s.nodes /\ m # id /\ s.nodes[m].role = "Primary"
    BY DEF Primaries
  <2>2. nodes[m] = s.nodes[m] /\ nodes[id].role = "Primary" /\ DOMAIN nodes = DOMAIN s.nodes \cup {id}
    BY <2>1 DEF WithNode
  <2> HIDE DEF nodes
  <2>3. m \in Primaries(nodes) /\ id \in Primaries(nodes)
    BY <2>1, <2>2 DEF Primaries
  <2>4. IsFiniteSet(Primaries(nodes))
    <3>1. Primaries(nodes) \subseteq Nodes
      BY <1>1, <2>2 DEF Primaries
    <3> QED
      BY <3>1, FS_Subset, MembershipAssumption
  <2>5. \A a, b \in Primaries(nodes) : a = b
    BY <2>4, AtMostOne DEF nodes
  <2> QED
    BY <2>1, <2>3, <2>5
<1>5. Replayable(s.nodes, r)
  BY <1>4 DEF Replayable
<1>6. nodes = ReplayNodes(s.nodes, r)
  BY DEF ReplayNodes
<1>7. RoleEpochs(nodes, s.epoch + 1)
  BY EpochsStay
<1>8. register_node(s, id, role) = WithRecord(push_epoch_advanced(s, s.epoch + 1), nodes, r)
  BY DEF register_node
<1>9. r.kind # "EpochAdvanced" /\ r.epoch = s.epoch + 1
  OBVIOUS
<1>10. Cardinality(Primaries(nodes)) <= 1
  OBVIOUS
<1> HIDE DEF nodes, r
<1> QED
  BY <1>2, <1>3, <1>5, <1>6, <1>7, <1>8, <1>9, <1>10, NextExplained

\* What registration makes of the nodes.
LEMMA RegisteredNodes ==
  ASSUME NEW s \in Snapshot, NEW id \in Nodes, NEW role \in Roles
  PROVE  register_node(s, id, role).nodes = WithNode(s.nodes, id, role, s.epoch + 1)
<1> DEFINE u == push_epoch_advanced(s, s.epoch + 1)
           nodes == WithNode(s.nodes, id, role, s.epoch + 1)
           r == [kind |-> "NodeRegistered", node |-> id, role |-> role, epoch |-> s.epoch + 1]
           t == register_node(s, id, role)
<1>1. s.epoch + 1 \in Nat /\ s.epoch + 1 > s.epoch
  BY SnapshotFields
<1>2. u \in Snapshot
  BY <1>1, EpochPushed, Zenon DEF Later
<1>3. t = [u EXCEPT !.nodes = nodes, !.records = Append(u.records, r)]
  BY <1>2, SnapshotIs, Zenon DEF register_node, WithRecord
<1> HIDE DEF u, nodes, r, t
<1>4. t.nodes = nodes
  BY <1>2, <1>3, SnapshotIs, Zenon
<1> QED
  BY <1>4 DEF t, nodes

\* Whatever change the store's checks let through, the replay reproduces it, unless it
\* leaves two primaries.
LEMMA ChangeExplained ==
  ASSUME NEW s \in Snapshot, Explained(s), NEW t \in Changes(s),
         Cardinality(Primaries(t.nodes)) <= 1
  PROVE  Explained(t)
<1> DEFINE e == s.epoch + 1
           reg == DOMAIN s.nodes
           u == push_epoch_advanced(s, s.epoch + 1)
<1>1. s.epoch \in Nat /\ e \in Nat /\ s.nodes \in NodeMap /\ s.epoch + 1 > s.epoch
  BY SnapshotFields
<1>2. reg \subseteq Nodes /\ s.nodes \in [reg -> RoleOf]
  BY SnapshotFields
<1>3. u \in Snapshot
  BY <1>1, EpochPushed, Zenon DEF Later
<1>4. ASSUME NEW nodes \in NodeMap, NEW r \in JournalRecord, t = WithRecord(u, nodes, r),
             r.kind # "EpochAdvanced", r.epoch = e,
             Replayable(s.nodes, r), nodes = ReplayNodes(s.nodes, r), RoleEpochs(nodes, e)
      PROVE  Explained(t)
  <2> HIDE DEF u
  <2>1. Recorded(u, t, nodes, r)
    BY <1>4, <1>3, RecordAdded
  <2>2. Cardinality(Primaries(nodes)) <= 1
    BY <2>1 DEF Recorded
  <2> USE DEF u
  <2> QED
    BY <1>4, <2>2, NextExplained
<1>5. ASSUME NEW n \in Nodes \ reg, NEW role \in Roles, t = register_node(s, n, role)
      PROVE  Explained(t)
  BY <1>5, RegisteredNodes, RegisterExplained
<1>6. ASSUME NEW n \in reg, NEW role \in Roles \ {"Primary"}, t = update_node_role(s, n, role)
      PROVE  Explained(t)
  <2> DEFINE r == [kind |-> "NodeRoleUpdated", node |-> n, role |-> role, epoch |-> e]
             nodes == SetRole(s.nodes, {n}, role, e)
  <2>1. r \in JournalRecord /\ r.kind # "EpochAdvanced" /\ r.epoch = e
    BY <1>1, <1>2 DEF JournalRecord
  <2>2. nodes \in NodeMap
    BY <1>1, RolesSet
  <2>3. t = WithRecord(u, nodes, r)
    BY <1>6 DEF update_node_role
  <2>4. Replayable(s.nodes, r)
    BY DEF Replayable
  <2>5. nodes = ReplayNodes(s.nodes, r)
    BY DEF ReplayNodes
  <2>6. RoleEpochs(nodes, e)
    BY EpochsStay
  <2> HIDE DEF nodes, r
  <2> QED
    BY <1>4, <2>1, <2>2, <2>3, <2>4, <2>5, <2>6
<1>7. ASSUME NEW n \in reg, t = deregister_node(s, n)
      PROVE  Explained(t)
  <2> DEFINE r == [kind |-> "NodeDeregistered", node |-> n, epoch |-> e]
             nodes == [k \in reg \ {n} |-> s.nodes[k]]
  <2>1. r \in JournalRecord /\ r.kind # "EpochAdvanced" /\ r.epoch = e
    BY <1>1, <1>2 DEF JournalRecord
  <2>2. nodes \in [reg \ {n} -> RoleOf] /\ reg \ {n} \in SUBSET Nodes
    BY <1>2
  <2>3. t = WithRecord(u, nodes, r)
    BY <1>7 DEF deregister_node
  <2>4. Replayable(s.nodes, r)
    BY DEF Replayable
  <2>5. nodes = ReplayNodes(s.nodes, r)
    BY DEF ReplayNodes
  <2>6. RoleEpochs(nodes, e)
    BY EpochsStay DEF RoleEpochs
  <2> HIDE DEF nodes, r
  <2>7. nodes \in NodeMap
    BY <2>2, IsNodeMap
  <2> QED
    BY <1>4, <2>1, <2>3, <2>4, <2>5, <2>6, <2>7
<1>8. ASSUME NEW n \in reg, t = fence_node(s, n)
      PROVE  Explained(t)
  <2> DEFINE r == [kind |-> "NodeFenced", node |-> n, epoch |-> e]
             ids == {n} \ {k \in DOMAIN s.nodes : s.nodes[k].role = "Replica"}
             nodes == SetRole(s.nodes, ids, "Replica", e)
  <2>1. r \in JournalRecord /\ r.kind # "EpochAdvanced" /\ r.epoch = e
    BY <1>1, <1>2 DEF JournalRecord
  <2>2. nodes \in NodeMap
    <3> HIDE DEF ids
    <3> QED BY <1>1, RolesSet, Zenon DEF Roles
  <2>3. t = WithRecord(u, nodes, r)
    BY <1>8 DEF fence_node
  <2>4. Replayable(s.nodes, r)
    BY DEF Replayable
  <2>5. nodes = ReplayNodes(s.nodes, r)
    <3>1. ReplayNodes(s.nodes, r) = ReplayFenced(s.nodes, r)
      BY DEF ReplayNodes
    <3>2. \A k \in reg : k \in ids <=> k = n /\ s.nodes[k].role # "Replica"
      OBVIOUS
    <3> HIDE DEF ids
    <3> QED
      BY <3>1, <3>2 DEF ReplayFenced, SetRole
  <2>6. RoleEpochs(nodes, e)
    BY EpochsStay
  <2> HIDE DEF nodes, r
  <2> QED
    BY <1>4, <2>1, <2>2, <2>3, <2>4, <2>5, <2>6
<1>9. ASSUME NEW f \in s.epoch + 1 .. s.epoch + MaxSkip, t = push_epoch_advanced(s, f)
      PROVE  Explained(t)
  <2>1. f \in Nat /\ f > s.epoch
    BY <1>1, MembershipAssumption
  <2> QED
    BY <1>9, <2>1, EpochReplayed, Zenon
<1> QED
  BY <1>5, <1>6, <1>7, <1>8, <1>9 DEF Changes

\* Whatever promotion promote_primary lets through, the replay reproduces it, and the node
\* it is given is the only primary.
LEMMA PromotionExplained ==
  ASSUME NEW s \in Snapshot, Explained(s), NEW id \in Nodes, NEW target \in Nat, NEW lsn \in Lsns,
         Promotable(s, id, target)
  PROVE  Explained(promote_primary(s, id, target, lsn))
<1> DEFINE u == push_epoch_advanced(s, target)
           nodes == SetRole(SetRole(s.nodes, Demoted(s.nodes, id), "Replica", target),
                            {id}, "Primary", target)
           r == [kind |-> "PrimaryPromoted", node |-> id, epoch |-> target, lsn |-> lsn]
<1>1. /\ s.epoch \in Nat /\ target > s.epoch /\ target > 0
      /\ s.nodes \in NodeMap /\ s.nodes \in [DOMAIN s.nodes -> RoleOf]
  BY SnapshotFields DEF Promotable
<1>2. u \in Snapshot /\ u.nodes = s.nodes /\ u.epoch = target
  BY <1>1, EpochPushed, Zenon DEF Later
<1>3. Explained(u) /\ replayed(u.records).action_seen = FALSE
  BY <1>1, EpochReplayed, Zenon
<1>4. nodes \in NodeMap
  BY <1>1, RolesSet DEF Roles
<1>5. r \in JournalRecord /\ r.kind # "EpochAdvanced" /\ r.epoch = target
  BY DEF JournalRecord
<1>6. Replayable(s.nodes, r)
  BY DEF Replayable, Promotable
<1>7. \A n \in DOMAIN s.nodes :
        nodes[n] = IF n = id THEN [role |-> "Primary", role_epoch |-> target]
                   ELSE IF s.nodes[n].role \in {"Primary", "Candidate"}
                        THEN [role |-> "Replica", role_epoch |-> target] ELSE s.nodes[n]
  BY DEF SetRole, Demoted
<1>8. DOMAIN nodes = DOMAIN s.nodes
  BY DEF SetRole
<1>9. nodes = ReplayNodes(s.nodes, r)
  <2>1. ReplayNodes(s.nodes, r) = ReplayPromoted(s.nodes, r)
    BY DEF ReplayNodes
  <2> QED
    BY <1>7, <2>1 DEF ReplayPromoted, SetRole
<1>10. \A n \in DOMAIN nodes : nodes[n].role_epoch <= target
  <2>1. \A n \in DOMAIN s.nodes : s.nodes[n].role_epoch \in Nat /\ s.nodes[n].role_epoch <= s.epoch
    BY <1>1 DEF Explained, RoleOf
  <2> HIDE DEF nodes
  <2> QED
    BY <1>1, <1>7, <1>8, <2>1
<1>11. Cardinality(Primaries(nodes)) <= 1
  <2> HIDE DEF nodes
  <2>1. Primaries(nodes) \subseteq {id}
    BY <1>7, <1>8 DEF Primaries
  <2>2. IsFiniteSet({id}) /\ Cardinality({id}) = 1
    BY FS_Singleton, Zenon
  <2>3. Cardinality(Primaries(nodes)) <= Cardinality({id})
    BY <2>1, <2>2, FS_Subset
  <2> QED
    BY <2>2, <2>3
<1>12. promote_primary(s, id, target, lsn) = WithRecord(u, nodes, r)
  BY DEF promote_primary
<1> HIDE DEF u, nodes, r
<1>13. u.epoch > 0 /\ r.epoch = u.epoch /\ Replayable(u.nodes, r) /\ nodes = ReplayNodes(u.nodes, r)
       /\ \A n \in DOMAIN nodes : nodes[n].role_epoch <= u.epoch
  BY <1>1, <1>2, <1>5, <1>6, <1>9, <1>10
<1> QED
  BY <1>2, <1>3, <1>4, <1>5, <1>11, <1>12, <1>13, ActionReplayed, Zenon

\* The journal of a founded store explains it: its nodes are distinct, and only the first
\* is a primary.
LEMMA FoundedExplained ==
  ASSUME NEW k \in 0 .. Cardinality(Nodes), NEW order \in Bijection(1 .. Cardinality(Nodes), Nodes)
  PROVE  Explained(Founded(k, order))
<1>1. Cardinality(Nodes) \in Nat /\ k \in Nat
  <2>1. Cardinality(Nodes) \in Nat
    BY FS_CardinalityType, MembershipAssumption
  <2> QED
    BY <2>1
<1>2. /\ order \in [1 .. Cardinality(Nodes) -> Nodes]
      /\ \A i, j \in 1 .. Cardinality(Nodes) : order[i] = order[j] => i = j
  BY DEF Bijection, Injection, IsInjective
<1>3. PICK g : IsFounding(g, k, order)
  BY <1>1, FoundedIs
<1> DEFINE Inv(i) == /\ g[i] \in Snapshot /\ Explained(g[i])
                     /\ \A n \in DOMAIN g[i].nodes : \E j \in 1 .. i : n = order[j]
                     /\ Primaries(g[i].nodes) \subseteq {order[1]}
           S == {i \in 0 .. k : Inv(i)}
<1>4. 0 \in S
  <2>1. DOMAIN EmptySnapshot.nodes = {}
    BY DEF EmptySnapshot, NoNodes
  <2>2. Inv(0)
    BY <1>3, <2>1, EmptyIsSnapshot, EmptyIsExplained DEF Primaries, IsFounding
  <2> HIDE DEF Inv
  <2> QED
    BY <1>1, <2>2
<1>5. \A i \in 1 .. k : i - 1 \in S => i \in S
  <2> HIDE DEF Inv
  <2>1. SUFFICES ASSUME NEW i \in 1 .. k, Inv(i - 1) PROVE Inv(i)
    BY <1>1
  <2> DEFINE s == g[i - 1]
             id == order[i]
             role == IF i = 1 THEN "Primary" ELSE "Replica"
             nodes == WithNode(s.nodes, id, role, s.epoch + 1)
  <2>2. /\ s \in Snapshot /\ Explained(s)
        /\ \A n \in DOMAIN s.nodes : \E j \in 1 .. i - 1 : n = order[j]
        /\ Primaries(s.nodes) \subseteq {order[1]}
    BY <2>1 DEF Inv
  <2>3. i \in 1 .. Cardinality(Nodes) /\ id \in Nodes /\ role \in Roles
    BY <1>1, <1>2 DEF Roles
  <2>4. id \notin DOMAIN s.nodes
    <3> SUFFICES ASSUME NEW j \in 1 .. i - 1, id = order[j] PROVE FALSE
      BY <2>2
    <3>1. j \in 1 .. Cardinality(Nodes) /\ j # i
      BY <1>1, <2>3
    <3> QED
      BY <1>2, <2>3, <3>1
  <2>5. g[i] = register_node(s, id, role)
    BY <1>3 DEF IsFounding, Registered
  <2> HIDE DEF s, id, role
  <2>6. g[i].nodes = nodes /\ g[i] \in Snapshot
    <3>1. g[i].nodes = nodes
      BY <2>2, <2>3, <2>5, RegisteredNodes
    <3>2. Later(s, g[i])
      BY <2>2, <2>3, <2>5, RegisterIsLater
    <3> QED
      BY <3>1, <3>2 DEF Later
  <2>7. /\ DOMAIN nodes = DOMAIN s.nodes \cup {id}
        /\ \A n \in DOMAIN s.nodes : n # id => nodes[n] = s.nodes[n]
        /\ nodes[id].role = role
    BY DEF WithNode
  <2> HIDE DEF nodes
  <2>8. Primaries(nodes) \subseteq {order[1]}
    <3> SUFFICES ASSUME NEW n \in Primaries(nodes) PROVE n = order[1]
      OBVIOUS
    <3>1. CASE n = id
      <4>1. role = "Primary"
        BY <2>7, <3>1 DEF Primaries
      <4> QED
        BY <3>1, <4>1 DEF role, id
    <3>2. CASE n # id
      BY <2>2, <2>7, <3>2 DEF Primaries
    <3> QED
      BY <3>1, <3>2
  <2>9. Cardinality(Primaries(nodes)) <= 1
    <3>1. IsFiniteSet({order[1]}) /\ Cardinality({order[1]}) = 1
      BY FS_Singleton, Zenon
    <3>2. Cardinality(Primaries(nodes)) <= Cardinality({order[1]})
      BY <2>8, <3>1, FS_Subset
    <3> QED
      BY <3>1, <3>2
  <2>10. Explained(g[i])
    BY <2>2, <2>3, <2>4, <2>5, <2>9, RegisterExplained DEF nodes
  <2>11. \A n \in DOMAIN nodes : \E j \in 1 .. i : n = order[j]
    <3> TAKE n \in DOMAIN nodes
    <3>1. CASE n = id
      BY <1>1, <3>1 DEF id
    <3>2. CASE n \in DOMAIN s.nodes
      <4>1. PICK j \in 1 .. i - 1 : n = order[j]
        BY <2>2, <3>2
      <4>2. j \in 1 .. i
        BY <1>1
      <4> QED
        BY <4>1, <4>2
    <3> QED
      BY <2>7, <3>1, <3>2
  <2> QED
    BY <2>6, <2>8, <2>10, <2>11 DEF Inv
<1>6. \A i \in 0 .. k : i \in S
  <2> HIDE DEF S
  <2> QED
    BY <1>1, <1>4, <1>5, LoopInduction, Zenon
<1>7. Inv(k)
  <2> HIDE DEF Inv
  <2> QED
    BY <1>1, <1>6
<1> QED
  BY <1>3, <1>7 DEF IsFounding

-----------------------------------------------------------------------------
(* Every snapshot is explained by its journal.                             *)

FilesExplained(d) ==
  /\ d.main \in Snapshot => Explained(d.main)
  /\ d.tmp \in Snapshot => Explained(d.tmp)
  /\ d.bak \in Snapshot => Explained(d.bak)

\* The snapshots in every file that a crash may leave, and those about to be written.
JournalInv ==
  /\ \A d \in crash_dirs : FilesExplained(d)
  /\ \A p \in Operators : Explained(procs[p].target)

\* A new target has been validated.
LEMMA TargetExplained ==
  ASSUME TypeInv, JournalInv, NEW p \in Operators, Command(p) \/ persist(p), NEW q \in Operators
  PROVE  Explained(procs'[q].target)
<1>1. procs \in [Operators -> Proc] /\ dir \in Directory /\ Explained(procs[q].target)
  BY DEF TypeInv, JournalInv
<1>2. Idle.target = EmptySnapshot /\ Ready.target = EmptySnapshot
  BY DEF Idle, Ready
<1>3. ASSUME NEW pc, Goto(p, pc) PROVE procs'[q].target = procs[q].target
  BY <1>1, <1>3 DEF Goto, Proc
<1>4. ASSUME End(p) PROVE Explained(procs'[q].target)
  <2>1. procs'[q] = IF q = p THEN Idle ELSE procs[q]
    BY <1>1, <1>4 DEF End
  <2> QED
    BY <1>1, <1>2, <2>1, EmptyIsExplained
<1>5. CASE open(p) \/ OpenFails(p)
  <2>1. procs'[q] = Ready \/ procs'[q] = procs[q]
    BY <1>1, <1>5 DEF open, OpenFails
  <2> QED
    BY <1>1, <1>2, <2>1, EmptyIsExplained
<1>6. ASSUME NEW t, t.records # <<>>, validate(t),
             procs' = [procs EXCEPT ![p].pc = "write", ![p].target = t]
      PROVE  Explained(procs'[q].target)
  <2>1. procs'[q].target = IF q = p THEN t ELSE procs[q].target
    BY <1>1, <1>6 DEF Proc
  <2> QED
    BY <1>1, <1>6, <2>1, ValidatedIsExplained
<1>7. dir.main # Torn => load_or_empty(dir) \in Snapshot
  BY <1>1, EmptyIsSnapshot DEF Directory, File, load_or_empty
<1>8. CASE Change(p)
  <2>1. PICK t \in Changes(load_or_empty(dir)) :
          validate(t) /\ procs' = [procs EXCEPT ![p].pc = "write", ![p].target = t]
    BY <1>8, Zenon DEF Change
  <2>2. dir.main # Torn
    BY <1>8 DEF Change
  <2>3. t.records # <<>>
    BY <1>7, <2>1, <2>2, ChangeIsLater DEF Later
  <2> QED
    BY <1>6, <2>1, <2>3, Zenon
<1>9. CASE BuildAttempt(p) \/ Plan(p)
  <2>1. ASSUME NEW pc, NEW plan, procs' = [procs EXCEPT ![p].pc = pc, ![p].plan = plan]
        PROVE  procs'[q].target = procs[q].target
    BY <1>1, <2>1 DEF Proc
  <2> QED
    BY <1>1, <1>4, <1>9, <2>1, Zenon DEF BuildAttempt, Plan
<1>10. CASE append_primary_promotion_marker_durably(p) \/ AuditFails(p)
  BY <1>1, <1>3, <1>4, <1>10 DEF append_primary_promotion_marker_durably, AuditFails
<1>11. CASE PublishPlan(p)
  <2> DEFINE plan == procs[p].plan
             s == load_or_empty(dir)
             t == promote_primary(s, plan.candidate, plan.epoch, plan.lsn)
  <2>1. plan \in PlanType /\ s \in Snapshot
    BY <1>7, <1>11 DEF PublishPlan, TypeInv
  <2>2. CASE /\ Promotable(s, plan.candidate, plan.epoch) /\ validate(t)
             /\ procs' = [procs EXCEPT ![p].pc = "write", ![p].target = t]
    <3>1. plan.candidate \in Nodes /\ plan.epoch \in Nat /\ plan.lsn \in Lsns
          /\ plan.epoch > s.epoch
      BY <2>1, <2>2 DEF PlanType, Promotable
    <3>2. Promotes(s, t, plan.epoch, Marker(plan))
      BY <2>1, <3>1, PromotedIsLater DEF Marker
    <3> HIDE DEF t
    <3>3. t.records # <<>>
      BY <3>2 DEF Promotes
    <3> QED
      BY <1>6, <2>2, <3>3, Zenon
  <2> QED
    BY <1>4, <1>11, <2>2 DEF PublishPlan
<1>12. CASE persist(p)
  <2>1. End(p) \/ \E pc \in {"unlink", "backup", "publish", "sync", "cleanup"} : Goto(p, pc)
    BY <1>12 DEF persist, write_tmp, remove_stale_backup, backup_main, publish, sync_published,
                 remove_committed_backup, Return, Fail, Proceed
  <2> QED
    BY <1>1, <1>3, <1>4, <2>1
<1> QED
  BY <1>5, <1>8, <1>9, <1>10, <1>11, <1>12 DEF Command

\* The founding snapshot is explained by its journal.
LEMMA JournalInitInv == Init /\ TypeInv => JournalInv
<1> SUFFICES ASSUME Init, TypeInv PROVE JournalInv
  OBVIOUS
<1>1. PICK k \in Founders, order \in Bijection(1 .. Cardinality(Nodes), Nodes) :
        dir = [main |-> IF k = 0 THEN Absent ELSE Founded(k, order),
               tmp |-> Absent, bak |-> Absent]
  BY DEF Init
<1>2. k \in 0 .. Cardinality(Nodes) /\ Absent \notin Snapshot
  BY MembershipAssumption
<1>3. Explained(Founded(k, order))
  BY <1>2, FoundedExplained
<1>4. FilesExplained(dir)
  BY <1>1, <1>2, <1>3 DEF FilesExplained
<1>5. \A p \in Operators : procs[p].target = EmptySnapshot
  BY DEF Init, Idle
<1> QED
  BY <1>4, <1>5, EmptyIsExplained DEF Init, JournalInv

\* Every step writes only snapshots that their journals explain.
LEMMA JournalNextInv == TypeInv /\ JournalInv /\ [Next]_vars => JournalInv'
<1> SUFFICES ASSUME TypeInv, JournalInv, [Next]_vars PROVE JournalInv'
  OBVIOUS
<1>1. CASE UNCHANGED vars
  BY <1>1 DEF vars, JournalInv
<1>2. CASE Crash
  <2>1. \A p \in Operators : procs'[p].target = EmptySnapshot
    BY <1>2 DEF Crash, Idle
  <2> QED
    BY <1>2, <2>1, EmptyIsExplained DEF Crash, JournalInv
<1>3. ASSUME NEW p \in Operators, Command(p) \/ persist(p) PROVE JournalInv'
  <2>1. \A q \in Operators : Explained(procs'[q].target)
    BY <1>3, TargetExplained
  <2>2. \A d \in crash_dirs' : d \in crash_dirs \/ d \in Rearranged(p)
    BY <1>3, StepRearranges
  <2>3. ASSUME NEW d \in Rearranged(p) PROVE FilesExplained(d)
    <3>1. FilesExplained(dir) /\ Explained(procs[p].target)
      BY DEF TypeInv, JournalInv
    <3>2. Absent \notin Snapshot /\ Torn \notin Snapshot
      BY MembershipAssumption
    <3>3. \A f \in Contents(p) : f \in Snapshot => Explained(f)
      BY <3>1, <3>2 DEF Contents, FilesExplained
    <3> QED
      BY <3>3 DEF Rearranged, FilesExplained
  <2> QED
    BY <2>1, <2>2, <2>3 DEF JournalInv
<1> QED
  BY <1>1, <1>2, <1>3 DEF Next

\* For every cluster and whatever its history, the replay of the journal reproduces every
\* change and every promotion the store's checks let through: model.rs and
\* membership_state_validation.rs agree, and only the limits and a second primary are refused.
THEOREM JournalAlwaysReplays == Spec => []JournalReplaysChanges
<1>1. TypeInv /\ JournalInv => JournalReplaysChanges
  <2> DEFINE s == load_or_empty(dir)
  <2> SUFFICES ASSUME TypeInv, JournalInv, dir.main # Torn
               PROVE  /\ \A t \in Changes(s) :
                           WithinLimits(t) /\ Cardinality(Primaries(t.nodes)) <= 1 => validate(t)
                      /\ \A t \in Promotions(s) : WithinLimits(t) => validate(t)
    BY DEF JournalReplaysChanges
  <2>1. s \in Snapshot /\ Explained(s)
    BY EmptyIsSnapshot, EmptyIsExplained
       DEF TypeInv, JournalInv, FilesExplained, Directory, File, load_or_empty
  <2> HIDE DEF s
  <2>2. ASSUME NEW t \in Changes(s), WithinLimits(t), Cardinality(Primaries(t.nodes)) <= 1
        PROVE  validate(t)
    BY <2>1, <2>2, ChangeExplained, ValidatedIsExplained
  <2>3. ASSUME NEW t \in Promotions(s), WithinLimits(t) PROVE validate(t)
    <3>1. PICK n \in Nodes, e \in s.epoch + 1 .. s.epoch + MaxSkip, l \in Lsns :
            Promotable(s, n, s.epoch + 1) /\ t = promote_primary(s, n, e, l)
      BY DEF Promotions
    <3>2. e \in Nat /\ Promotable(s, n, e)
      BY <2>1, <3>1, SnapshotFields, MembershipAssumption DEF Promotable
    <3> QED
      BY <2>1, <2>3, <3>1, <3>2, PromotionExplained, ValidatedIsExplained
  <2> QED
    BY <2>2, <2>3
<1> QED
  BY <1>1, JournalInitInv, JournalNextInv, HadrInvariant, PTL DEF Spec

-----------------------------------------------------------------------------
(* Fencing tokens of one operator.                                         *)

\* A returned token is no newer than what is acknowledged, and a promotion being written
\* is the snapshot of its epoch.
TokenInv(op) ==
  /\ OnePrimaryPerEpoch
  /\ \A t \in tokens : t.epoch \in Nat /\ t.epoch <= acked
  /\ procs[op].pc \in {"idle", "open"} => procs[op].plan = NoPlan
  /\ procs[op].pc \in Persisting /\ procs[op].plan # NoPlan =>
       procs[op].plan.epoch = procs[op].target.epoch

\* Until it returns, a command gives no token and keeps its plan with its snapshot.
LEMMA CommandKeepsTokens ==
  ASSUME NEW op, Operators = {op}, TypeInv, TokenInv(op), Command(op)
  PROVE  TokenInv(op)'
<1> DEFINE now == procs[op]
           s == load_or_empty(dir)
<1>1. procs \in [Operators -> Proc] /\ now \in Proc /\ dir \in Directory
  BY DEF TypeInv
<1>2. tokens' = tokens /\ acked' = acked
  BY DEF Command, open, OpenFails, Change, BuildAttempt, Plan, PublishPlan, AuditFails,
         append_primary_promotion_marker_durably
<1>3. ASSUME NEW r \in Proc, procs' = [procs EXCEPT ![op] = r],
             r.pc \in {"idle", "open"} => r.plan = NoPlan,
             r.pc \in Persisting /\ r.plan # NoPlan => r.plan.epoch = r.target.epoch
      PROVE  TokenInv(op)'
  <2>1. procs'[op] = r
    BY <1>1, <1>3
  <2> QED
    BY <1>2, <1>3, <2>1 DEF TokenInv, OnePrimaryPerEpoch
<1>4. /\ Idle \in Proc /\ Idle.pc = "idle" /\ Idle.plan = NoPlan /\ Idle.pc \notin Persisting
      /\ Ready \in Proc /\ Ready.pc = "open" /\ Ready.plan = NoPlan /\ Ready.pc \notin Persisting
  BY EmptyIsSnapshot DEF Idle, Ready, Proc, Pc, Persisting
<1>5. ASSUME End(op) PROVE TokenInv(op)'
  BY <1>3, <1>4, <1>5, Zenon DEF End
<1>6. CASE open(op)
  BY <1>3, <1>4, <1>6, Zenon DEF open
<1>7. CASE OpenFails(op)
  <2>1. procs' = procs
    BY <1>7 DEF OpenFails
  <2> QED
    BY <1>2, <2>1 DEF TokenInv, OnePrimaryPerEpoch
<1>8. CASE Change(op)
  <2>1. PICK t \in Changes(s) : procs' = [procs EXCEPT ![op].pc = "write", ![op].target = t]
    BY <1>8, Zenon DEF Change
  <2>2. now.plan = NoPlan
    BY <1>8 DEF Change, TokenInv
  <2>3. procs'[op].pc = "write" /\ procs'[op].plan = NoPlan
    BY <1>1, <2>1, <2>2 DEF Proc
  <2> QED
    BY <1>2, <2>3 DEF TokenInv, OnePrimaryPerEpoch
<1>9. ASSUME NEW pc \in {"attempt", "planned", "audited"}, procs'[op].pc = pc
      PROVE  TokenInv(op)'
  <2>1. pc \notin {"idle", "open"} /\ pc \notin Persisting
    BY <1>9 DEF Persisting
  <2> QED
    BY <1>2, <1>9, <2>1 DEF TokenInv, OnePrimaryPerEpoch
<1>10. CASE BuildAttempt(op)
  <2>1. PICK a : procs' = [procs EXCEPT ![op].pc = "attempt", ![op].plan = a]
    BY <1>10, Zenon DEF BuildAttempt
  <2>2. procs'[op].pc = "attempt"
    BY <1>1, <2>1 DEF Proc
  <2> QED
    BY <1>9, <2>2
<1>11. CASE Plan(op)
  <2>1. ASSUME NEW plan, procs' = [procs EXCEPT ![op].pc = "planned", ![op].plan = plan]
        PROVE  procs'[op].pc = "planned"
    BY <1>1, <2>1 DEF Proc
  <2> QED
    BY <1>5, <1>9, <1>11, <2>1, Zenon DEF Plan
<1>12. CASE append_primary_promotion_marker_durably(op)
  <2>1. procs'[op].pc = "audited"
    BY <1>1, <1>12 DEF append_primary_promotion_marker_durably, Goto, Proc
  <2> QED
    BY <1>9, <2>1
<1>13. CASE AuditFails(op)
  BY <1>5, <1>13 DEF AuditFails
<1>14. CASE PublishPlan(op)
  <2> DEFINE plan == now.plan
             t == promote_primary(s, plan.candidate, plan.epoch, plan.lsn)
  <2>1. plan \in PlanType /\ s \in Snapshot
    BY <1>1, <1>14, EmptyIsSnapshot DEF PublishPlan, TypeInv, load_or_empty, Directory, File
  <2>2. CASE Promotable(s, plan.candidate, plan.epoch)
             /\ procs' = [procs EXCEPT ![op].pc = "write", ![op].target = t]
    <3>1. plan.candidate \in Nodes /\ plan.epoch \in Nat /\ plan.lsn \in Lsns
          /\ plan.epoch > s.epoch
      BY <2>1, <2>2 DEF PlanType, Promotable
    <3> HIDE DEF s
    <3>2. Promotes(s, t, plan.epoch, Marker(plan))
      BY <2>1, <3>1, PromotedIsLater DEF Marker
    <3> HIDE DEF t
    <3>3. t.epoch = plan.epoch
      BY <3>2 DEF Promotes
    <3>4. procs'[op].pc = "write" /\ procs'[op].plan = plan /\ procs'[op].target = t
      BY <1>1, <2>2 DEF Proc
    <3> QED
      BY <1>2, <3>3, <3>4 DEF TokenInv, OnePrimaryPerEpoch
  <2> QED
    BY <1>5, <1>14, <2>2 DEF PublishPlan
<1> QED
  BY <1>6, <1>7, <1>8, <1>10, <1>11, <1>12, <1>13, <1>14 DEF Command

\* The token of a promotion has the epoch of the snapshot that persist has just published,
\* which is newer than every acknowledged one.
LEMMA PersistKeepsTokens ==
  ASSUME NEW op, Operators = {op}, TypeInv, PublishInv(op), TokenInv(op), persist(op)
  PROVE  TokenInv(op)'
<1> DEFINE now == procs[op]
<1>1. procs \in [Operators -> Proc] /\ now \in Proc /\ acked \in Nat
  BY DEF TypeInv
<1>2. now.pc \in Persisting
  BY DEF persist, write_tmp, remove_stale_backup, backup_main, publish, sync_published,
         remove_committed_backup, Persisting
<1>3. now.target.epoch \in Nat /\ now.target.epoch > acked
  BY <1>1, <1>2, SnapshotFields DEF PublishInv, Proc
<1>4. Idle.pc = "idle" /\ Idle.plan = NoPlan /\ Idle.pc \notin Persisting
  BY DEF Idle, Persisting
<1>5. ASSUME End(op) PROVE procs'[op] = Idle
  BY <1>1, <1>5 DEF End
<1>6. ASSUME tokens' = tokens, acked' = acked,
             End(op) \/ \E pc \in Persisting : Goto(op, pc)
      PROVE  TokenInv(op)'
  <2>1. CASE End(op)
    BY <1>4, <1>5, <1>6, <2>1 DEF TokenInv, OnePrimaryPerEpoch
  <2>2. ASSUME NEW pc \in Persisting, Goto(op, pc) PROVE TokenInv(op)'
    <3>1. procs'[op].pc = pc /\ procs'[op].plan = now.plan /\ procs'[op].target = now.target
      BY <1>1, <2>2 DEF Goto, Proc
    <3>2. pc \notin {"idle", "open"}
      BY <2>2 DEF Persisting
    <3> QED
      BY <1>2, <1>6, <3>1, <3>2 DEF TokenInv, OnePrimaryPerEpoch
  <2> QED
    BY <1>6, <2>1, <2>2
<1>7. CASE write_tmp(op) \/ remove_stale_backup(op) \/ backup_main(op) \/ publish(op)
           \/ sync_published(op)
  <2>1. tokens' = tokens /\ acked' = acked
    BY <1>7 DEF write_tmp, remove_stale_backup, backup_main, publish, sync_published
  <2>2. End(op) \/ \E pc \in {"unlink", "backup", "publish", "sync", "cleanup"} : Goto(op, pc)
    BY <1>7 DEF write_tmp, remove_stale_backup, backup_main, publish, sync_published, Fail, Proceed
  <2> QED
    BY <1>6, <2>1, <2>2 DEF Persisting
<1>8. CASE remove_committed_backup(op)
  <2>1. CASE Return(op)
    <3> DEFINE new == [node |-> now.plan.candidate, epoch |-> now.plan.epoch]
    <3>1. procs'[op] = Idle /\ acked' = now.target.epoch
      BY <1>3, <1>5, <2>1 DEF Return
    <3>2. \A t \in tokens : t.epoch \in Nat /\ t.epoch <= acked' /\ t.epoch # now.target.epoch
      <4>1. \A t \in tokens : t.epoch \in Nat /\ t.epoch <= acked
        BY DEF TokenInv
      <4> HIDE DEF now
      <4> QED
        BY <1>1, <1>3, <3>1, <4>1
    <3>3. CASE now.plan = NoPlan
      <4>1. tokens' = tokens
        BY <2>1, <3>3 DEF Return
      <4> QED
        BY <1>4, <3>1, <3>2, <4>1 DEF TokenInv, OnePrimaryPerEpoch
    <3>4. CASE now.plan # NoPlan
      <4>1. tokens' = tokens \cup {new} /\ new.epoch = now.target.epoch
        BY <1>2, <2>1, <3>4 DEF Return, TokenInv
      <4> HIDE DEF new
      <4>2. \A t \in tokens' : t.epoch \in Nat /\ t.epoch <= acked'
        BY <1>3, <3>1, <3>2, <4>1
      <4>3. OnePrimaryPerEpoch'
        BY <3>2, <4>1 DEF TokenInv, OnePrimaryPerEpoch
      <4> QED
        BY <1>4, <3>1, <4>2, <4>3 DEF TokenInv
    <3> QED
      BY <3>3, <3>4
  <2>2. CASE \E f : Fail(op, f) /\ acked' = acked /\ tokens' = tokens
    BY <1>6, <2>2 DEF Fail
  <2> QED
    BY <1>8, <2>1, <2>2, Zenon DEF remove_committed_backup
<1> QED
  BY <1>7, <1>8 DEF persist

\* When one operator at a time has the store open, for every cluster and every number of
\* commands, failed steps and crashes: no epoch is given to two primaries.  An epoch whose
\* token was returned is acknowledged, what is acknowledged survives, and every promotion
\* is published in an epoch beyond it.
THEOREM TokensAreUnique ==
  ASSUME NEW CONSTANT op, Operators = {op}
  PROVE  Spec => []OnePrimaryPerEpoch
<1>1. Init => TokenInv(op)
  <2> SUFFICES ASSUME Init PROVE TokenInv(op)
    OBVIOUS
  <2>1. procs[op] = Idle /\ tokens = {}
    BY DEF Init
  <2>2. Idle.plan = NoPlan /\ Idle.pc \notin Persisting
    BY DEF Idle, Persisting
  <2> QED
    BY <2>1, <2>2 DEF TokenInv, OnePrimaryPerEpoch
<1>2. TypeInv /\ PublishInv(op) /\ TokenInv(op) /\ [Next]_vars => TokenInv(op)'
  <2> SUFFICES ASSUME TypeInv, PublishInv(op), TokenInv(op), [Next]_vars PROVE TokenInv(op)'
    OBVIOUS
  <2>1. CASE UNCHANGED vars
    BY <2>1 DEF vars, TokenInv, OnePrimaryPerEpoch
  <2>2. CASE Crash
    <3>1. procs'[op] = Idle /\ tokens' = tokens /\ acked' = acked
      BY <2>2 DEF Crash
    <3>2. Idle.plan = NoPlan /\ Idle.pc \notin Persisting
      BY DEF Idle, Persisting
    <3> QED
      BY <3>1, <3>2 DEF TokenInv, OnePrimaryPerEpoch
  <2>3. CASE Command(op)
    BY <2>3, CommandKeepsTokens
  <2>4. CASE persist(op)
    BY <2>4, PersistKeepsTokens
  <2> QED
    BY <2>1, <2>2, <2>3, <2>4 DEF Next
<1>3. TokenInv(op) => OnePrimaryPerEpoch
  BY DEF TokenInv
<1>4. Init /\ TypeInv => PublishInv(op)
  BY PublishInitInv
<1>5. TypeInv /\ PublishInv(op) /\ [Next]_vars => PublishInv(op)'
  BY PublishNextInv
<1> QED
  BY <1>1, <1>2, <1>3, <1>4, <1>5, HadrInvariant, PTL DEF Spec
=============================================================================
