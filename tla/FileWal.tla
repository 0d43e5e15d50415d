------------------------------ MODULE FileWal ------------------------------
(***************************************************************************)
(* The file WAL of crates/andromeda-wal: one file with a header that       *)
(* claims how many records are durable, and the records.  A flush syncs    *)
(* the records, advances the durable LSN in memory and the signal that     *)
(* observers in other threads read, then writes the header and syncs       *)
(* again.  Opening the file trusts the records the header covers, as far   *)
(* as they scan.                                                           *)
(*                                                                         *)
(* The file is a header and a sequence of cells, a record or Torn bytes,   *)
(* as the operating system sees it.  What has not been synced may or may   *)
(* not be on disk when the machine stops, cell by cell; the 80 bytes of    *)
(* the header are written to disk as a whole.  The Vec of records in       *)
(* memory and its boundaries mirror the cells while the WAL is open.       *)
(***************************************************************************)
EXTENDS Integers, Sequences

CONSTANTS Record,
          Torn,          \* bytes that do not scan
          MaxLsn         \* LSN of the last record that may be appended (u64::MAX)

ASSUME FileWalAssumption == MaxLsn \in Nat /\ Torn \notin Record

VARIABLES file, header,            \* the file; header is the count of records it claims
          stable, stable_header,   \* how many cells, and which header, are surely on disk
          step,                    \* what the owner of the WAL is doing
          target,                  \* LSN of the flush it is in
          durable_lsn,
          shared_durable_lsn,      \* the atomic signal of the observers
          reported,                \* history: LSN last returned as durable
          observed,                \* history: largest LSN an observer has read
          faulted                  \* history: has the last header write or its sync failed?

fileVars == <<file, header, stable, stable_header>>
memVars == <<step, target, durable_lsn, shared_durable_lsn>>
histVars == <<reported, observed, faulted>>
fileWalVars == <<fileVars, memVars, histVars>>

Step == {"down", "opening", "idle", "syncing", "synced", "advanced", "header_written"}

WalLsn == 0 .. MaxLsn
Least(m, n) == IF m < n THEN m ELSE n

-----------------------------------------------------------------------------
\* scan_open_file_wal: the records the header claims, up to the first that does
\* not scan.
Scans(f, n) == \A i \in 1 .. n : f[i] # Torn

Scanned(f, claimed) ==
  LET n == Least(claimed, Len(f))
  IN  CHOOSE k \in 0 .. n : Scans(f, k) /\ (k < n => f[k + 1] = Torn)

\* The file is truncated to the scanned prefix and gets a header that says so.  The
\* cells cut off are beyond every header the disk may hold, so it does not matter
\* if a crash before the sync brings them back.
OpenScan ==
  /\ step = "down"
  /\ step' = "opening"
  /\ file' = SubSeq(file, 1, Scanned(file, header))
  /\ header' = Scanned(file, header)
  /\ stable' = Scanned(file, header)
  /\ UNCHANGED <<stable_header, target, durable_lsn, shared_durable_lsn, histVars>>

OpenSync ==
  /\ step = "opening"
  /\ step' = "idle"
  /\ stable_header' = header
  /\ durable_lsn' = header
  /\ shared_durable_lsn' = header
  /\ reported' = header
  /\ faulted' = FALSE
  /\ UNCHANGED <<file, header, stable, target, observed>>

append(r) ==
  /\ step = "idle"
  /\ Len(file) < MaxLsn
  /\ file' = Append(file, r)
  /\ UNCHANGED <<header, stable, stable_header, memVars, histVars>>

-----------------------------------------------------------------------------
(* flush_through(lsn).                                                     *)

\* validate_flush_target: what is durable already is reported again.
FlushAlreadyDurable(lsn) ==
  /\ step = "idle"
  /\ lsn <= durable_lsn
  /\ reported' = durable_lsn
  /\ UNCHANGED <<fileVars, memVars, observed, faulted>>

\* Mutant: the signal moves when the flush starts, before the records are synced.
SignalsEarly(lsn) ==
  /\ step = "idle"
  /\ durable_lsn < lsn /\ lsn <= Len(file)
  /\ step' = "syncing"
  /\ target' = lsn
  /\ shared_durable_lsn' = lsn
  /\ UNCHANGED <<fileVars, durable_lsn, histVars>>

FlushStart(lsn) ==
  /\ step = "idle"
  /\ durable_lsn < lsn /\ lsn <= Len(file)
  /\ step' = "syncing"
  /\ target' = lsn
  /\ UNCHANGED <<fileVars, durable_lsn, shared_durable_lsn, histVars>>

\* Mutant: the records are not synced before the header is written.
SkipsSyncData ==
  /\ step = "syncing"
  /\ step' = "synced"
  /\ UNCHANGED <<fileVars, target, durable_lsn, shared_durable_lsn, histVars>>

sync_data ==
  /\ step = "syncing"
  /\ step' = "synced"
  /\ stable' = Len(file)
  /\ stable_header' = header
  /\ UNCHANGED <<file, header, target, durable_lsn, shared_durable_lsn, histVars>>

\* The error is returned; durable_lsn has not moved.
SyncDataFails ==
  /\ step = "syncing"
  /\ step' = "idle"
  /\ UNCHANGED <<fileVars, target, durable_lsn, shared_durable_lsn, histVars>>

Advance ==
  /\ step = "synced"
  /\ step' = "advanced"
  /\ durable_lsn' = target
  /\ shared_durable_lsn' = target
  /\ UNCHANGED <<fileVars, target, histVars>>

write_file_wal_header ==
  /\ step = "advanced"
  /\ step' = "header_written"
  /\ header' = target
  /\ UNCHANGED <<file, stable, stable_header, target, durable_lsn, shared_durable_lsn,
                 histVars>>

\* Mutant: success is returned without the second sync.
SkipsSyncAll ==
  /\ step = "header_written"
  /\ step' = "idle"
  /\ reported' = durable_lsn
  /\ faulted' = FALSE
  /\ UNCHANGED <<fileVars, target, durable_lsn, shared_durable_lsn, observed>>

sync_all ==
  /\ step = "header_written"
  /\ step' = "idle"
  /\ stable' = Len(file)
  /\ stable_header' = header
  /\ reported' = durable_lsn
  /\ faulted' = FALSE
  /\ UNCHANGED <<file, header, target, durable_lsn, shared_durable_lsn, observed>>

\* The error is returned, but durable_lsn has moved already.
HeaderFails ==
  /\ step \in {"advanced", "header_written"}
  /\ step' = "idle"
  /\ faulted' = TRUE
  /\ UNCHANGED <<fileVars, target, durable_lsn, shared_durable_lsn, reported, observed>>

-----------------------------------------------------------------------------
\* FileWalDurabilityObserver, in another thread.
current_durable_lsn ==
  /\ step \notin {"down", "opening"}
  /\ shared_durable_lsn > observed
  /\ observed' = shared_durable_lsn
  /\ UNCHANGED <<fileVars, memVars, reported, faulted>>

\* The machine stops.  What is found on disk is all there is.
WalCrash ==
  /\ step # "down"
  /\ step' = "down"
  /\ \E lost \in SUBSET ((stable + 1) .. Len(file)) :
       file' = [i \in 1 .. Len(file) |-> IF i \in lost THEN Torn ELSE file[i]]
  /\ header' \in {header, stable_header}
  /\ stable' = Len(file)
  /\ stable_header' = header'
  /\ target' = 0 /\ durable_lsn' = 0 /\ shared_durable_lsn' = 0
  /\ UNCHANGED histVars

\* A new file, with its header synced.
WalInit ==
  /\ file = <<>> /\ header = 0
  /\ stable = 0 /\ stable_header = 0
  /\ step = "idle" /\ target = 0
  /\ durable_lsn = 0 /\ shared_durable_lsn = 0
  /\ reported = 0 /\ observed = 0 /\ faulted = FALSE

FileWal_flush_through ==
  \/ \E lsn \in WalLsn : FlushAlreadyDurable(lsn) \/ FlushStart(lsn)
  \/ sync_data \/ SyncDataFails
  \/ Advance
  \/ write_file_wal_header
  \/ sync_all
  \/ HeaderFails

WalNext ==
  \/ OpenScan \/ OpenSync
  \/ \E r \in Record : append(r)
  \/ FileWal_flush_through
  \/ current_durable_lsn
  \/ WalCrash

WalSpec == WalInit /\ [][WalNext]_fileWalVars

-----------------------------------------------------------------------------
TypeOK ==
  /\ file \in Seq(Record \cup {Torn}) /\ Len(file) <= MaxLsn
  /\ header \in WalLsn /\ stable \in WalLsn /\ stable_header \in WalLsn
  /\ step \in Step
  /\ target \in WalLsn /\ durable_lsn \in WalLsn /\ shared_durable_lsn \in WalLsn
  /\ reported \in WalLsn /\ observed \in WalLsn /\ faulted \in BOOLEAN

\* The least a crash in this state would leave for recovery.
Surviving == Least(Least(header, stable_header), stable)

\* The records that are durable by the evidence flush_through and open have given
\* survive a crash at any moment.  The exception is a flush whose header write or sync
\* failed: durable_lsn has moved, so a retry reports it, until the next flush succeeds.
ReportedSurvives == faulted \/ reported <= Surviving

\* The header on disk never claims a record that may be torn, whichever write or sync
\* failed and wherever the machine stopped: opening scans all the header claims, and
\* never takes an unsynced tail for corruption inside the durable prefix.
OpenFindsAllClaimed == step = "down" => Scanned(file, header) = header

\* The WAL is a log with durable prefixes: the records in memory, or those that
\* would be scanned when the WAL is down.
Log == INSTANCE DurableLog
         WITH log     <- IF step = "down" THEN SubSeq(file, 1, Scanned(file, header)) ELSE file,
              durable <- Surviving

\* Appends, flushes, the failure of any of their writes and syncs, crashes and
\* reopening, in every order and cut short at every sync, implement the abstract log:
\* what was safe from crashes once stays safe, no hole and no foreign record appears.
ImplementsDurableLog == Log!Spec

\* The signal the buffer pool relies on: a durable LSN that an observer reads is one
\* recovery would find after a crash at this moment, in every state but two: while a
\* flush stands between its advance of the signal and the sync of the header, and after
\* that header write or sync has failed.
ObservedOutsideFlushSurvives ==
  [][observed' # observed =>
       step \in {"advanced", "header_written"} \/ faulted \/ observed' <= Surviving]_fileWalVars

\* The inductive invariant, in two parts.  The first holds whatever fails: the header
\* claims synced records only.
HeaderInv ==
  /\ TypeOK
  /\ stable <= Len(file) /\ header <= stable /\ stable_header <= stable
  /\ step # "down" => Scans(file, Len(file))
  /\ step = "down" => header = stable_header /\ Scans(file, header)
  /\ step = "opening" => header = Len(file)
  /\ step \in {"syncing", "synced", "advanced", "header_written"} => target <= Len(file)
  /\ step \in {"synced", "advanced", "header_written"} => stable = Len(file)

\* The second is about reports: durable_lsn bounds them, and unless a header write has
\* failed they are covered by the header, in the file and on disk.
ReportInv ==
  /\ step \notin {"down", "opening"} => reported <= durable_lsn /\ header <= durable_lsn
  /\ step \in {"syncing", "synced"} => durable_lsn <= target
  /\ step \in {"advanced", "header_written"} => durable_lsn = target
  /\ step = "header_written" => header = target
  /\ ~ faulted =>
       /\ reported <= header /\ reported <= stable_header
       /\ step \in {"idle", "syncing", "synced", "advanced"} => header = stable_header
       /\ step \in {"idle", "syncing", "synced"} => durable_lsn = header

WalInv == HeaderInv /\ ReportInv
=============================================================================
