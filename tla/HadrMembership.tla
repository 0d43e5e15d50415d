--------------------------- MODULE HadrMembership ---------------------------
(***************************************************************************)
(* The durable cluster membership of andromeda-hadr: the snapshot and its  *)
(* journal (membership_store/model.rs, membership_state_validation.rs),    *)
(* the file that holds it (membership_store/file_backed.rs), and the       *)
(* promotion of a replica to primary (the promote command of the CLI,      *)
(* promotion_boundary, promotion_quorum_evidence.rs, quorum.rs).           *)
(*                                                                         *)
(* An operator is a process that runs one command: it opens the store,     *)
(* changes the membership or promotes a replica, and persists.  A write,   *)
(* rename or sync may fail, and a crash may come between any two of them.  *)
(***************************************************************************)
EXTENDS Integers, FiniteSets, Sequences, Functions

CONSTANTS
  Nodes,        \* HadrNodeId, never zero
  Operators,    \* processes that run commands on the store
  Lsns,         \* the WAL positions a command line can name
  HADR_MEMBERSHIP_MAX_NODES,    \* the most nodes a snapshot may have
  HADR_MEMBERSHIP_MAX_RECORDS,  \* the most records a journal may have
  Founders,     \* numbers of nodes registered at the start
  MaxCommands,  \* bound on the commands of a behaviour
  MaxSkip,      \* bound on how far one command moves the epoch
  MaxFaults,    \* bound on the failed steps and crashes of a behaviour
  Absent,       \* no such file
  Torn          \* a file whose content does not decode

Roles == {"Primary", "Replica", "Candidate"}

\* What a file of the store decodes to: the epoch, the role of each registered node,
\* and the journal.
JournalRecord ==
  [kind : {"EpochAdvanced"}, previous : Nat, epoch : Nat]
    \cup [kind : {"NodeRegistered", "NodeRoleUpdated"}, node : Nodes, role : Roles, epoch : Nat]
    \cup [kind : {"NodeDeregistered", "NodeFenced"}, node : Nodes, epoch : Nat]
    \cup [kind : {"PrimaryPromoted"}, node : Nodes, epoch : Nat, lsn : Lsns]

Snapshot ==
  [epoch : Nat,
   nodes : UNION {[ids -> [role : Roles, role_epoch : Nat]] : ids \in SUBSET Nodes},
   records : Seq(JournalRecord)]

ASSUME MembershipAssumption ==
  /\ IsFiniteSet(Nodes) /\ Absent \notin Nodes
  /\ Founders \subseteq 0..Cardinality(Nodes)
  /\ HADR_MEMBERSHIP_MAX_NODES \in Nat /\ HADR_MEMBERSHIP_MAX_RECORDS \in Nat
  /\ \A k \in Founders : /\ k <= HADR_MEMBERSHIP_MAX_NODES
                         /\ 2 * k <= HADR_MEMBERSHIP_MAX_RECORDS
  /\ MaxCommands \in Nat /\ MaxSkip \in Nat \ {0} /\ MaxFaults \in Nat
  /\ Lsns \subseteq Nat /\ Lsns # {}
  /\ Absent # Torn /\ {Absent, Torn} \cap Snapshot = {}

VARIABLES
  dir,        \* the files: the store, its temporary and its backup
  crash_dirs, \* the directory contents a crash may leave
  procs,      \* what each operator is doing
  markers,    \* the promotions in the durable audit log
  acked,      \* the epoch of the newest snapshot returned to a caller
  tokens,     \* the fencing tokens returned to callers
  commands,   \* commands so far
  faults      \* failed steps and crashes so far

vars == <<dir, crash_dirs, procs, markers, acked, tokens, commands, faults>>

is_promotion_eligible_role(role) == role \in {"Replica", "Candidate"}

(***************************************************************************)
(* Snapshots.  `nodes' maps a registered node to its role; keeping it a    *)
(* function stands for the sort by id and the check for duplicates.        *)
(***************************************************************************)
NoNodes == [n \in {} |-> [role |-> "Replica", role_epoch |-> 0]]
EmptySnapshot == [epoch |-> 0, nodes |-> NoNodes, records |-> <<>>]

push_epoch_advanced(s, target) ==
  [s EXCEPT !.epoch = target,
            !.records = Append(@, [kind |-> "EpochAdvanced",
                                   previous |-> s.epoch, epoch |-> target])]

\* Role and epoch of some nodes replaced, in the epoch that starts.
SetRole(nodes, ids, role, epoch) ==
  [n \in DOMAIN nodes |-> IF n \in ids
                          THEN [role |-> role, role_epoch |-> epoch]
                          ELSE nodes[n]]

\* The node joins in this role, in the epoch that starts.
WithNode(nodes, id, role, epoch) ==
  [n \in DOMAIN nodes \cup {id} |-> IF n = id THEN [role |-> role, role_epoch |-> epoch]
                                    ELSE nodes[n]]

WithRecord(s, nodes, record) ==
  [s EXCEPT !.nodes = nodes, !.records = Append(@, record)]

register_node(s, id, role) ==
  WithRecord(push_epoch_advanced(s, s.epoch + 1),
             WithNode(s.nodes, id, role, s.epoch + 1),
             [kind |-> "NodeRegistered", node |-> id, role |-> role, epoch |-> s.epoch + 1])

update_node_role(s, id, role) ==
  WithRecord(push_epoch_advanced(s, s.epoch + 1),
             SetRole(s.nodes, {id}, role, s.epoch + 1),
             [kind |-> "NodeRoleUpdated", node |-> id, role |-> role, epoch |-> s.epoch + 1])

deregister_node(s, id) ==
  WithRecord(push_epoch_advanced(s, s.epoch + 1),
             [n \in DOMAIN s.nodes \ {id} |-> s.nodes[n]],
             [kind |-> "NodeDeregistered", node |-> id, epoch |-> s.epoch + 1])

fence_node(s, id) ==
  WithRecord(push_epoch_advanced(s, s.epoch + 1),
             SetRole(s.nodes, {id} \ {n \in DOMAIN s.nodes : s.nodes[n].role = "Replica"},
                     "Replica", s.epoch + 1),
             [kind |-> "NodeFenced", node |-> id, epoch |-> s.epoch + 1])

\* The other primaries and candidates become replicas.
Demoted(nodes, id) ==
  {n \in DOMAIN nodes \ {id} : nodes[n].role \in {"Primary", "Candidate"}}

promote_primary(s, id, target, lsn) ==
  WithRecord(push_epoch_advanced(s, target),
             SetRole(SetRole(s.nodes, Demoted(s.nodes, id), "Replica", target),
                     {id}, "Primary", target),
             [kind |-> "PrimaryPromoted", node |-> id, epoch |-> target, lsn |-> lsn])

(***************************************************************************)
(* validate: nodes and journal are within their limits, and the journal is *)
(* replayed from nothing and must give the nodes and the epoch of the      *)
(* snapshot.                                                               *)
(***************************************************************************)
Primaries(nodes) == {n \in DOMAIN nodes : nodes[n].role = "Primary"}

\* What the replay of one action record requires of the nodes so far.
Replayable(nodes, r) ==
  CASE r.kind = "NodeRegistered" ->
         /\ r.node \notin DOMAIN nodes
         /\ r.role = "Primary" => Primaries(nodes) = {}
    [] r.kind = "NodeRoleUpdated" ->
         /\ r.node \in DOMAIN nodes
         /\ r.role = "Primary" => Primaries(nodes) \subseteq {r.node}
    [] r.kind = "PrimaryPromoted" ->
         /\ r.node \in DOMAIN nodes
         /\ is_promotion_eligible_role(nodes[r.node].role)
    [] OTHER -> r.node \in DOMAIN nodes

\* Mutant: the replay of a fence keeps the epoch of the old role.
ReplayKeepsRoleEpoch(nodes, r) == [nodes EXCEPT ![r.node].role = "Replica"]

ReplayFenced(nodes, r) ==
  [n \in DOMAIN nodes |->
     IF n = r.node /\ nodes[n].role # "Replica"
     THEN [role |-> "Replica", role_epoch |-> r.epoch] ELSE nodes[n]]

ReplayPromoted(nodes, r) ==
  [n \in DOMAIN nodes |->
     IF n = r.node THEN [role |-> "Primary", role_epoch |-> r.epoch]
     ELSE IF nodes[n].role \in {"Primary", "Candidate"}
          THEN [role |-> "Replica", role_epoch |-> r.epoch]
          ELSE nodes[n]]

ReplayNodes(nodes, r) ==
  CASE r.kind = "NodeRegistered" ->
         WithNode(nodes, r.node, r.role, r.epoch)
    [] r.kind = "NodeRoleUpdated" -> SetRole(nodes, {r.node}, r.role, r.epoch)
    [] r.kind = "NodeDeregistered" -> [n \in DOMAIN nodes \ {r.node} |-> nodes[n]]
    [] r.kind = "NodeFenced" -> ReplayFenced(nodes, r)
    [] r.kind = "PrimaryPromoted" -> ReplayPromoted(nodes, r)

ReplayRecord(st, r) ==
  IF r.kind = "EpochAdvanced"
  THEN [ok |-> st.ok /\ r.previous = st.epoch /\ r.previous < r.epoch,
        epoch |-> r.epoch, nodes |-> st.nodes, action_seen |-> FALSE]
  ELSE LET ok == /\ r.epoch = st.epoch /\ st.epoch # 0
                 /\ ~st.action_seen
                 /\ Replayable(st.nodes, r)
       IN [ok |-> st.ok /\ ok, epoch |-> st.epoch,
           nodes |-> IF ok THEN ReplayNodes(st.nodes, r) ELSE st.nodes,
           action_seen |-> TRUE]

NothingReplayed == [ok |-> TRUE, epoch |-> 0, nodes |-> NoNodes, action_seen |-> FALSE]

\* The records in their order, from nothing.
replayed(records) ==
  LET st[i \in 0 .. Len(records)] ==
        IF i = 0 THEN NothingReplayed ELSE ReplayRecord(st[i - 1], records[i])
  IN st[Len(records)]

validate_record_replay(s) ==
  LET st == replayed(s.records)
  IN s.records # <<>> => st.ok /\ st.epoch = s.epoch /\ st.nodes = s.nodes

WithinLimits(s) ==
  /\ Cardinality(DOMAIN s.nodes) <= HADR_MEMBERSHIP_MAX_NODES
  /\ Len(s.records) <= HADR_MEMBERSHIP_MAX_RECORDS

validate(s) ==
  /\ WithinLimits(s)
  /\ \A n \in DOMAIN s.nodes : s.nodes[n].role_epoch <= s.epoch
  /\ \A i \in DOMAIN s.records : s.records[i].epoch <= s.epoch
  /\ Cardinality(Primaries(s.nodes)) <= 1
  /\ validate_record_replay(s)

(***************************************************************************)
(* Changes.  A change is a snapshot the store's own checks let through;    *)
(* with_records then validates it, and a change it refuses is an error     *)
(* that leaves the store alone.                                            *)
(***************************************************************************)
Changes(s) ==
  LET reg == DOMAIN s.nodes
  IN {register_node(s, n, r) : n \in Nodes \ reg, r \in Roles}
     \cup {update_node_role(s, n, r) : n \in reg, r \in Roles \ {"Primary"}}
     \cup {deregister_node(s, n) : n \in reg}
     \cup {fence_node(s, n) : n \in reg}
     \cup {push_epoch_advanced(s, e) : e \in s.epoch + 1 .. s.epoch + MaxSkip}

\* The promotions the store's promote_primary lets through, whoever asks.
Promotable(s, id, target) ==
  /\ target > s.epoch
  /\ id \in DOMAIN s.nodes
  /\ is_promotion_eligible_role(s.nodes[id].role)

Promotions(s) ==
  {promote_primary(s, n, e, l) :
     n \in {n \in Nodes : Promotable(s, n, s.epoch + 1)},
     e \in s.epoch + 1 .. s.epoch + MaxSkip, l \in Lsns}

(***************************************************************************)
(* Promotion.  The promote command loads the snapshot and makes an attempt *)
(* of it and of its arguments: every voter it names grants, in the loaded  *)
(* epoch and at --audit-lsn, and the candidate is at --candidate-lsn.  The *)
(* planner then decides about the attempt over a snapshot loaded again.    *)
(***************************************************************************)
quorum_size(members) == Cardinality(members) \div 2 + 1

\* The attempts that some arguments give: there is a primary and it is not
\* the candidate; the voters are as many as --commit-quorum, among them the
\* candidate if it is a member.
build_promotion_attempt(s) ==
  {a \in [candidate : Nodes, observed : {s.epoch}, candidate_lsn : Lsns, audit_lsn : Lsns,
          voters : SUBSET DOMAIN s.nodes] :
     /\ Primaries(s.nodes) \notin {{}, {a.candidate}}
     /\ a.candidate_lsn >= a.audit_lsn
     /\ Cardinality(a.voters) >= quorum_size(DOMAIN s.nodes)
     /\ a.candidate \in DOMAIN s.nodes => a.candidate \in a.voters}

proposed_promotion_epoch(s, observed) ==
  (IF observed > s.epoch THEN observed ELSE s.epoch) + 1

\* The proposed epoch is beyond every epoch in the attempt, so that the
\* checks against the voters' epochs and the active token pass.
decide_promotion(s, a) ==
  /\ a.candidate \in DOMAIN s.nodes
  /\ is_promotion_eligible_role(s.nodes[a.candidate].role)
  /\ a.voters \subseteq DOMAIN s.nodes
  /\ Cardinality(a.voters) >= quorum_size(DOMAIN s.nodes)
  /\ a.candidate_lsn >= a.audit_lsn

NoPlan == [candidate |-> Absent]

PlanOf(s, a) == [candidate |-> a.candidate, lsn |-> a.candidate_lsn,
                 epoch |-> proposed_promotion_epoch(s, a.observed)]

(***************************************************************************)
(* The files.  A file that was synced before a rename keeps its content;   *)
(* directory changes since the last directory sync may be lost, the newest *)
(* first.                                                                  *)
(***************************************************************************)
Idle == [pc |-> "idle", target |-> EmptySnapshot, plan |-> NoPlan]
Ready == [Idle EXCEPT !.pc = "open"]

Unsynced(d) == dir' = d /\ crash_dirs' = crash_dirs \cup {d}
Synced(d) == dir' = d /\ crash_dirs' = {d}

Restored(d) == IF d.main = Absent /\ d.bak # Absent
               THEN [d EXCEPT !.main = d.bak, !.bak = Absent] ELSE d
WithoutBackup(d) == IF d.main # Absent THEN [d EXCEPT !.bak = Absent] ELSE d
WithoutTmp(d) == IF d.main # Absent THEN [d EXCEPT !.tmp = Absent] ELSE d

\* Mutant: an interrupted publication is finished from the temporary file.
FinishesFromTmp(d) ==
  IF d.main = Absent /\ d.tmp # Absent
  THEN [d EXCEPT !.main = d.tmp, !.tmp = Absent]
  ELSE WithoutTmp(WithoutBackup(Restored(d)))

recover_interrupted_publish(d) == WithoutTmp(WithoutBackup(Restored(d)))

load_or_empty(d) == IF d.main = Absent THEN EmptySnapshot ELSE d.main

Fault == faults < MaxFaults /\ faults' = faults + 1

Started == commands < MaxCommands /\ commands' = commands + 1

\* A command ends and with it the process that held the store open.
End(p) == procs' = [procs EXCEPT ![p] = Idle]
Goto(p, pc) == procs' = [procs EXCEPT ![p].pc = pc]

open(p) ==
  /\ procs[p].pc = "idle"
  /\ LET d == recover_interrupted_publish(dir)
     IN /\ dir' = d
        /\ crash_dirs' = crash_dirs \cup {Restored(dir), WithoutBackup(Restored(dir)), d}
        /\ d.main # Torn
  /\ procs' = [procs EXCEPT ![p] = Ready]
  /\ UNCHANGED <<markers, acked, tokens, commands, faults>>

\* A rename or a removal of the recovery fails and the open with it.
OpenFails(p) ==
  /\ procs[p].pc = "idle"
  /\ Fault
  /\ \E d \in {Restored(dir), WithoutBackup(Restored(dir))} : Unsynced(d)
  /\ UNCHANGED <<procs, markers, acked, tokens, commands>>

(***************************************************************************)
(* Commands on an open store.                                              *)
(***************************************************************************)
Change(p) ==
  /\ procs[p].pc = "open"
  /\ Started
  /\ dir.main # Torn
  /\ \E s \in Changes(load_or_empty(dir)) :
       /\ validate(s)
       /\ procs' = [procs EXCEPT ![p].pc = "write", ![p].target = s]
  /\ UNCHANGED <<dir, crash_dirs, markers, acked, tokens, faults>>

BuildAttempt(p) ==
  /\ procs[p].pc = "open"
  /\ Started
  /\ dir.main \notin {Absent, Torn}
  /\ \E a \in build_promotion_attempt(dir.main) :
       procs' = [procs EXCEPT ![p].pc = "attempt", ![p].plan = a]
  /\ UNCHANGED <<dir, crash_dirs, markers, acked, tokens, faults>>

\* The store is loaded again; a missing file or a refusal ends the command.
Plan(p) ==
  /\ procs[p].pc = "attempt"
  /\ dir.main # Torn
  /\ LET s == dir.main
         a == procs[p].plan
     IN IF s # Absent /\ decide_promotion(s, a)
        THEN procs' = [procs EXCEPT ![p].pc = "planned", ![p].plan = PlanOf(s, a)]
        ELSE End(p)
  /\ UNCHANGED <<dir, crash_dirs, markers, acked, tokens, commands, faults>>

Marker(plan) == [node |-> plan.candidate, epoch |-> plan.epoch, lsn |-> plan.lsn]

\* Mutant: the promotion is published without waiting for the audit log.
SkipsMarker(p) ==
  /\ procs[p].pc = "planned"
  /\ Goto(p, "audited")
  /\ UNCHANGED <<dir, crash_dirs, markers, acked, tokens, commands, faults>>

append_primary_promotion_marker_durably(p) ==
  /\ procs[p].pc = "planned"
  /\ markers' = markers \cup {Marker(procs[p].plan)}
  /\ Goto(p, "audited")
  /\ UNCHANGED <<dir, crash_dirs, acked, tokens, commands, faults>>

\* The append or its sync fails; the marker may be in the log or not.
AuditFails(p) ==
  /\ procs[p].pc = "planned"
  /\ Fault
  /\ markers' \in {markers, markers \cup {Marker(procs[p].plan)}}
  /\ End(p)
  /\ UNCHANGED <<dir, crash_dirs, acked, tokens, commands>>

\* The store is loaded once more: it may have changed since the plan.  A
\* promotion that promote_primary or validate refuses is an error.
PublishPlan(p) ==
  /\ procs[p].pc = "audited"
  /\ dir.main # Torn
  /\ LET plan == procs[p].plan
         s == load_or_empty(dir)
         t == promote_primary(s, plan.candidate, plan.epoch, plan.lsn)
     IN IF Promotable(s, plan.candidate, plan.epoch) /\ validate(t)
        THEN procs' = [procs EXCEPT ![p].pc = "write", ![p].target = t]
        ELSE End(p)
  /\ UNCHANGED <<dir, crash_dirs, markers, acked, tokens, commands, faults>>

(***************************************************************************)
(* persist.  Each step is a change of the directory and the sync after it. *)
(* A step that fails ends the command with an error.                       *)
(***************************************************************************)
Fail(p, d) == Fault /\ Unsynced(d) /\ End(p)

Proceed(p, pc) == Goto(p, pc) /\ UNCHANGED faults

write_tmp(p) ==
  /\ procs[p].pc = "write"
  /\ LET d == [dir EXCEPT !.tmp = procs[p].target]
         torn == [dir EXCEPT !.tmp = Torn]
     IN \/ /\ dir' = d
           /\ crash_dirs' = crash_dirs \cup {torn, d}
           /\ Proceed(p, "unlink")
        \/ \E f \in {torn, d} : Fail(p, f)
  /\ UNCHANGED <<markers, acked, tokens, commands>>

remove_stale_backup(p) ==
  /\ procs[p].pc = "unlink"
  /\ IF dir.bak = Absent
     THEN Proceed(p, "backup") /\ UNCHANGED <<dir, crash_dirs>>
     ELSE LET d == [dir EXCEPT !.bak = Absent]
          IN \/ Synced(d) /\ Proceed(p, "backup")
             \/ \E f \in {dir, d} : Fail(p, f)
  /\ UNCHANGED <<markers, acked, tokens, commands>>

backup_main(p) ==
  /\ procs[p].pc = "backup"
  /\ IF dir.main = Absent
     THEN Proceed(p, "publish") /\ UNCHANGED <<dir, crash_dirs>>
     ELSE LET d == [dir EXCEPT !.bak = dir.main, !.main = Absent]
          IN \/ Synced(d) /\ Proceed(p, "publish")
             \/ \E f \in {dir, d} : Fail(p, f)
  /\ UNCHANGED <<markers, acked, tokens, commands>>

publish(p) ==
  /\ procs[p].pc = "publish"
  /\ \/ /\ dir.tmp # Absent
        /\ Unsynced([dir EXCEPT !.main = dir.tmp, !.tmp = Absent])
        /\ Proceed(p, "sync")
     \/ \E f \in {dir, Restored(dir)} : Fail(p, f)
  /\ UNCHANGED <<markers, acked, tokens, commands>>

\* The caller gets the snapshot and, for a promotion, the fencing token.
Return(p) ==
  LET target == procs[p].target
      plan == procs[p].plan
  IN /\ acked' = IF target.epoch > acked THEN target.epoch ELSE acked
     /\ tokens' = IF plan = NoPlan THEN tokens
                  ELSE tokens \cup {[node |-> plan.candidate, epoch |-> plan.epoch]}
     /\ End(p)

\* Mutant: persist returns after the rename, before the directory is synced.
ReturnsUnsynced(p) ==
  /\ procs[p].pc = "sync"
  /\ Return(p)
  /\ UNCHANGED <<dir, crash_dirs, markers, commands, faults>>

sync_published(p) ==
  /\ procs[p].pc = "sync"
  /\ \/ Synced(dir) /\ Proceed(p, "cleanup")
     \/ Fail(p, dir)
  /\ UNCHANGED <<markers, acked, tokens, commands>>

remove_committed_backup(p) ==
  /\ procs[p].pc = "cleanup"
  /\ LET d == [dir EXCEPT !.bak = Absent]
     IN \/ Synced(d) /\ Return(p) /\ UNCHANGED faults
        \/ /\ dir.bak # Absent
           /\ \E f \in {dir, d} : Fail(p, f)
           /\ UNCHANGED <<acked, tokens>>
  /\ UNCHANGED <<markers, commands>>

\* The machine stops; every process is gone and the disk keeps one of the
\* contents that were not made certain by a sync.
Crash ==
  /\ Fault
  /\ dir' \in crash_dirs
  /\ crash_dirs' = {dir'}
  /\ procs' = [p \in Operators |-> Idle]
  /\ UNCHANGED <<markers, acked, tokens, commands>>

\* A store in which the first k of an order of the nodes were registered,
\* the very first as the primary.
Founded(k, order) ==
  LET built[i \in 0..k] ==
        IF i = 0 THEN EmptySnapshot
        ELSE register_node(built[i - 1], order[i], IF i = 1 THEN "Primary" ELSE "Replica")
  IN built[k]

Init ==
  /\ \E k \in Founders, order \in Bijection(1 .. Cardinality(Nodes), Nodes) :
       dir = [main |-> IF k = 0 THEN Absent ELSE Founded(k, order),
              tmp |-> Absent, bak |-> Absent]
  /\ crash_dirs = {dir}
  /\ procs = [p \in Operators |-> Idle]
  /\ markers = {} /\ acked = load_or_empty(dir).epoch
  /\ tokens = {} /\ commands = 0 /\ faults = 0

Command(p) ==
  \/ open(p) \/ OpenFails(p) \/ Change(p) \/ BuildAttempt(p) \/ Plan(p)
  \/ append_primary_promotion_marker_durably(p) \/ AuditFails(p) \/ PublishPlan(p)

persist(p) ==
  \/ write_tmp(p) \/ remove_stale_backup(p) \/ backup_main(p)
  \/ publish(p) \/ sync_published(p) \/ remove_committed_backup(p)

Next == Crash \/ \E p \in Operators : Command(p) \/ persist(p)

Spec == Init /\ [][Next]_vars

(***************************************************************************)
(* Properties.                                                             *)
(***************************************************************************)
Snapshots == {dir[f] : f \in DOMAIN dir} \ {Absent, Torn}

\* Whatever directory content a crash leaves, opening the store finds a file
\* that decodes and whose epoch is at least that of every snapshot a command
\* returned: persist syncs each rename before it gives up the older file, and
\* recover_interrupted_publish falls back on the backup.
AckedSurvives ==
  \A d \in crash_dirs \cup {dir} :
    LET m == recover_interrupted_publish(d).main
    IN /\ m # Torn
       /\ acked > 0 => m # Absent /\ m.epoch >= acked

\* A promotion that is in any file of the store, published or about to be, has
\* its marker in the durable audit log: PromotionBoundary appends the marker
\* before it touches the membership.
MarkerBeforePrimary ==
  \A s \in Snapshots : \A i \in DOMAIN s.records :
    LET r == s.records[i]
    IN r.kind = "PrimaryPromoted" =>
         [node |-> r.node, epoch |-> r.epoch, lsn |-> r.lsn] \in markers

\* No two promotions that succeeded gave different nodes the same epoch, so
\* that of two nodes which hold a fencing token the older one is recognised:
\* an epoch whose token was returned is durable in the store and is never
\* proposed again, whatever crashes and failures come between.
OnePrimaryPerEpoch ==
  \A a, b \in tokens : a.epoch = b.epoch => a.node = b.node

\* The journal explains every change: whatever change or promotion the
\* store's own checks let through, the replay of the journal reproduces it.
\* validate refuses only a second primary and a snapshot above its limits,
\* never a change because model.rs and membership_state_validation.rs
\* disagree about it; and no promotion leaves a second primary.
JournalReplaysChanges ==
  (\E p \in Operators : procs[p].pc \in {"open", "audited"}) /\ dir.main # Torn =>
     LET s == load_or_empty(dir)
     IN /\ \A t \in Changes(s) :
             WithinLimits(t) /\ Cardinality(Primaries(t.nodes)) <= 1 => validate(t)
        /\ \A t \in Promotions(s) : WithinLimits(t) => validate(t)
=============================================================================
