---------------------------- MODULE WalRetention ----------------------------
(***************************************************************************)
(* WAL garbage collection (andromeda-wal: gc, segment_reclaimability) over *)
(* the replica tracker of WalShipping.  The collector reads its boundaries *)
(* once and then removes one segment at a time, while the log grows,       *)
(* replicas register and acknowledge, backups finish and checkpoints move  *)
(* the start of recovery.                                                  *)
(***************************************************************************)
EXTENDS WalShipping

CONSTANT SegmentSize  \* records in a segment

ASSUME RetentionAssumption == SegmentSize \in Nat \ {0}

VARIABLES
  required_wal_start_lsn,  \* of the published manifest
  min_active_snapshot_lsn, \* the oldest snapshot still open
  archived,                \* segments in a completed backup
  removed,                 \* segments removed, with the replicas known to the
                           \* boundaries under which they were
  gc                       \* the collector: its candidates and those replicas

gc_vars == <<archived, removed, gc>>
retention_vars == <<required_wal_start_lsn, min_active_snapshot_lsn, gc_vars>>
vars == <<shipping_vars, retention_vars>>

Segments == 1..(MaxLsn \div SegmentSize)
creation_lsn(seg) == (seg - 1) * SegmentSize + 1
sealing_lsn(seg) == seg * SegmentSize
Sealed == {seg \in Segments : sealing_lsn(seg) <= tip}
Gone == {rm.segment : rm \in removed}

IdleGc == [running |-> FALSE, candidates |-> <<>>, members |-> {}]

(***************************************************************************)
(* Decisions.                                                              *)
(***************************************************************************)
RetentionBoundaryPolicy_valid(bd) ==
  bd.required_recovery_lsn <= bd.min_active_snapshot_lsn

can_reclaim_segment(seg, bd) ==
  /\ creation_lsn(seg) > bd.required_recovery_lsn
  /\ sealing_lsn(seg) < bd.min_active_snapshot_lsn
  /\ sealing_lsn(seg) <= bd.min_standby_received_lsn
  /\ sealing_lsn(seg) < bd.pitr_retention_lsn

WalGcCandidate_is_eligible(seg) ==
  /\ sealing_lsn(seg) < min_active_snapshot_lsn
  /\ creation_lsn(seg) > required_wal_start_lsn

(***************************************************************************)
(* The collector.  The context, which is not part of the code, is taken to *)
(* offer the sealed segments that the reclaimability policy lets through.  *)
(***************************************************************************)
identify_gc_candidates(bd) ==
  {seg \in Sealed \ Gone : can_reclaim_segment(seg, bd)}

identify_candidates ==
  /\ ~gc.running
  /\ \E pitr \in 1..NoBoundary :
       LET bd == [required_recovery_lsn |-> required_wal_start_lsn,
                  min_active_snapshot_lsn |-> min_active_snapshot_lsn,
                  min_standby_received_lsn |-> retention_boundary_lsn,
                  pitr_retention_lsn |-> pitr]
           found == {seg \in identify_gc_candidates(bd) : WalGcCandidate_is_eligible(seg)}
       IN /\ RetentionBoundaryPolicy_valid(bd)
          /\ found # {}
          /\ gc' = [running |-> TRUE, candidates |-> SetToSortSeq(found, <),
                    members |-> required_replicas]
  /\ UNCHANGED <<shipping_vars, required_wal_start_lsn, min_active_snapshot_lsn,
                 archived, removed>>

NextCandidate ==
  IF Len(gc.candidates) = 1 THEN IdleGc ELSE [gc EXCEPT !.candidates = Tail(@)]

\* A segment whose archive is pending or unknown stays; an error of the
\* context ends the run.
remove_if_archived ==
  /\ gc.running
  /\ LET seg == Head(gc.candidates)
     IN \/ /\ seg \in archived
           /\ removed' = removed \cup {[segment |-> seg, members |-> gc.members]}
           /\ gc' = NextCandidate
        \/ /\ gc' = NextCandidate \/ gc' = IdleGc
           /\ UNCHANGED removed
  /\ UNCHANGED <<shipping_vars, required_wal_start_lsn, min_active_snapshot_lsn, archived>>

(***************************************************************************)
(* What runs beside the collector.                                         *)
(***************************************************************************)
\* A manifest is published: recovery will start at a later LSN.
PublishManifest ==
  /\ \E l \in 1..tip :
       /\ l > required_wal_start_lsn
       /\ required_wal_start_lsn' = l
  /\ UNCHANGED <<shipping_vars, min_active_snapshot_lsn, gc_vars>>

\* The oldest snapshot is closed.
CloseSnapshot ==
  /\ \E l \in 1..tip + 1 :
       /\ l > min_active_snapshot_lsn
       /\ min_active_snapshot_lsn' = l
  /\ UNCHANGED <<shipping_vars, required_wal_start_lsn, gc_vars>>

Archive ==
  /\ \E seg \in Sealed \ archived : archived' = archived \cup {seg}
  /\ UNCHANGED <<shipping_vars, required_wal_start_lsn, min_active_snapshot_lsn,
                 removed, gc>>

Init ==
  /\ ShippingInit
  /\ required_wal_start_lsn = 1
  /\ min_active_snapshot_lsn = 1
  /\ archived = {}
  /\ removed = {}
  /\ gc = IdleGc

Next ==
  \/ ShippingNext /\ UNCHANGED retention_vars
  \/ identify_candidates \/ remove_if_archived
  \/ PublishManifest \/ CloseSnapshot \/ Archive

Spec == Init /\ [][Next]_vars

(***************************************************************************)
(* Properties.                                                             *)
(***************************************************************************)
LsnsOf(seg) == creation_lsn(seg)..sealing_lsn(seg)

\* A removed segment is held by every replica that retention knew of when the
\* collector read its boundaries, although the removal comes later: the safe
\* LSN never overstates what a replica holds and never goes back.
RemovedWasShipped ==
  \A rm \in removed : \A r \in rm.members : \A l \in LsnsOf(rm.segment) :
    base[r] # NotJoined /\ base[r] < l /\ l <= tail[r]

\* gc.rs: "Manifest boundary is respected; no segment required by recovery is
\* removed".  Recovery reads every record from required_wal_start_lsn on.
RecoveryWalKept ==
  \A rm \in removed : \A l \in LsnsOf(rm.segment) : l < required_wal_start_lsn
=============================================================================
