---------------------------- MODULE DiskProofs ----------------------------
(***************************************************************************)
(* Proofs about FileWal, for every set of records and every length of the  *)
(* log, and, at the end, about the root pointer of StockRecovery, which    *)
(* shares no state with it: what the two leave on the disk.                *)
(***************************************************************************)
EXTENDS FileWal, StockRecovery, TLAPS

\* Scanning a claim without torn cells returns the claim.
LEMMA ScannedAll ==
  ASSUME NEW f \in Seq(Record \cup {Torn}), NEW n \in Nat, n <= Len(f), Scans(f, n)
  PROVE  Scanned(f, n) = n
<1>1. Least(n, Len(f)) = n
  BY DEF Least
<1>2. ASSUME NEW k \in 0 .. n, Scans(f, k) /\ (k < n => f[k + 1] = Torn) PROVE k = n
  BY <1>2 DEF Scans
<1>3. n \in 0 .. n /\ Scans(f, n) /\ (n < n => f[n + 1] = Torn)
  OBVIOUS
<1>4. Scanned(f, n) \in 0 .. n /\ Scans(f, Scanned(f, n))
        /\ (Scanned(f, n) < n => f[Scanned(f, n) + 1] = Torn)
  <2> DEFINE P(k) == Scans(f, k) /\ (k < n => f[k + 1] = Torn)
  <2>1. Scanned(f, n) = CHOOSE k \in 0 .. n : P(k)
    BY <1>1 DEF Scanned
  <2>2. \E k \in 0 .. n : P(k)
    BY <1>3
  <2>3. (CHOOSE k \in 0 .. n : P(k)) \in 0 .. n /\ P(CHOOSE k \in 0 .. n : P(k))
    BY <2>2, Zenon
  <2> QED
    BY <2>1, <2>3
<1> QED
  BY <1>2, <1>4

\* A new file satisfies the invariant.
LEMMA InitInv == WalInit => WalInv
<1> SUFFICES ASSUME WalInit PROVE HeaderInv /\ ReportInv
  BY DEF WalInv
<1>1. faulted \in BOOLEAN
  BY DEF WalInit
<1>2. HeaderInv
  BY <1>1, FileWalAssumption DEF WalInit, HeaderInv, TypeOK, Scans, WalLsn, Step
<1>3. ReportInv
  BY DEF WalInit, ReportInv
<1> QED
  BY <1>2, <1>3

\* The cells that a crash finds are a log of the same length, untouched up to what
\* was synced.
LEMMA CrashFile ==
  ASSUME HeaderInv, WalCrash
  PROVE  /\ file' \in Seq(Record \cup {Torn}) /\ Len(file') = Len(file)
         /\ \A i \in 1 .. stable : file'[i] = file[i]
<1>1. PICK lost \in SUBSET ((stable + 1) .. Len(file)) :
        file' = [i \in 1 .. Len(file) |-> IF i \in lost THEN Torn ELSE file[i]]
  BY DEF WalCrash
<1>2. file \in Seq(Record \cup {Torn}) /\ Len(file) \in Nat /\ stable \in Nat /\ stable <= Len(file)
  BY FileWalAssumption DEF HeaderInv, TypeOK, WalLsn
<1>3. \A i \in 1 .. Len(file) : file'[i] \in Record \cup {Torn}
  BY <1>1, <1>2
<1>4. file' \in Seq(Record \cup {Torn}) /\ Len(file') = Len(file)
  BY <1>1, <1>2, <1>3
<1>5. \A i \in 1 .. stable : file'[i] = file[i]
  BY <1>1, <1>2
<1> QED
  BY <1>4, <1>5

\* No failure and no crash makes the header claim what is not synced.
LEMMA HeaderStep == HeaderInv /\ [WalNext]_fileWalVars => HeaderInv'
<1> SUFFICES ASSUME HeaderInv, [WalNext]_fileWalVars PROVE HeaderInv'
  OBVIOUS
<1> USE FileWalAssumption DEF HeaderInv, TypeOK, WalLsn, Step, histVars
<1>1. CASE UNCHANGED fileWalVars
  BY <1>1 DEF fileWalVars, fileVars, memVars, histVars, Scans
<1>2. CASE OpenScan
  <2>1. Scanned(file, header) = header
    BY <1>2, ScannedAll DEF OpenScan
  <2>2. file' \in Seq(Record \cup {Torn}) /\ Len(file') = header
        /\ \A i \in 1 .. header : file'[i] = file[i]
    BY <2>1, <1>2 DEF OpenScan
  <2> QED
    BY <2>1, <2>2, <1>2 DEF OpenScan, Scans
<1>3. CASE OpenSync
  BY <1>3 DEF OpenSync, Scans
<1>4. ASSUME NEW r \in Record, append(r) PROVE HeaderInv'
  <2>1. file' \in Seq(Record \cup {Torn}) /\ Len(file') = Len(file) + 1
    BY <1>4 DEF append
  <2>2. \A i \in 1 .. Len(file) + 1 : file'[i] = IF i = Len(file) + 1 THEN r ELSE file[i]
    BY <1>4 DEF append
  <2>3. Scans(file', Len(file'))
    BY <2>1, <2>2, <1>4 DEF append, Scans
  <2> QED
    BY <2>1, <2>3, <1>4 DEF append, memVars
<1>5. ASSUME NEW lsn \in WalLsn, FlushAlreadyDurable(lsn) \/ FlushStart(lsn) PROVE HeaderInv'
  BY <1>5 DEF FlushAlreadyDurable, FlushStart, fileVars, memVars, Scans
<1>6. CASE sync_data \/ SyncDataFails \/ Advance
  <2>1. CASE sync_data
    BY <2>1 DEF sync_data, Scans
  <2>2. CASE SyncDataFails
    BY <2>2 DEF SyncDataFails, fileVars, Scans
  <2>3. CASE Advance
    BY <2>3 DEF Advance, fileVars, Scans
  <2> QED
    BY <1>6, <2>1, <2>2, <2>3
<1>7. CASE write_file_wal_header \/ sync_all \/ HeaderFails
  BY <1>7 DEF write_file_wal_header, sync_all, HeaderFails, fileVars, Scans
<1>8. CASE current_durable_lsn
  BY <1>8 DEF current_durable_lsn, fileVars, memVars, Scans
<1>9. CASE WalCrash
  <2>1. header' <= stable /\ header' \in WalLsn /\ stable_header' = header'
    BY <1>9 DEF WalCrash
  <2>2. Scans(file', header')
    BY <2>1, <1>9, CrashFile DEF WalCrash, Scans
  <2> QED
    BY <2>1, <2>2, <1>9, CrashFile DEF WalCrash
<1> QED
  BY <1>1, <1>2, <1>3, <1>4, <1>5, <1>6, <1>7, <1>8, <1>9 DEF WalNext, FileWal_flush_through

\* A report is covered by the header, unless the last header write has failed.
LEMMA ReportStep ==
  ASSUME WalInv, [WalNext]_fileWalVars
  PROVE  ReportInv'
<1> USE FileWalAssumption DEF WalInv, HeaderInv, ReportInv, TypeOK, WalLsn, Step, histVars
<1>1. CASE UNCHANGED fileWalVars
  BY <1>1 DEF fileWalVars, fileVars, memVars, histVars
<1>2. CASE OpenScan
  <2>1. Scanned(file, header) = header
    BY <1>2, ScannedAll DEF OpenScan
  <2> QED
    BY <2>1, <1>2 DEF OpenScan
<1>3. CASE OpenSync
  BY <1>3 DEF OpenSync
<1>4. ASSUME NEW r \in Record, append(r) PROVE ReportInv'
  BY <1>4 DEF append, memVars
<1>5. ASSUME NEW lsn \in WalLsn, FlushAlreadyDurable(lsn) \/ FlushStart(lsn) PROVE ReportInv'
  BY <1>5 DEF FlushAlreadyDurable, FlushStart, fileVars, memVars
<1>6. CASE sync_data \/ SyncDataFails \/ Advance
  BY <1>6 DEF sync_data, SyncDataFails, Advance, fileVars
<1>7. CASE write_file_wal_header \/ sync_all \/ HeaderFails
  BY <1>7 DEF write_file_wal_header, sync_all, HeaderFails, fileVars
<1>8. CASE current_durable_lsn
  BY <1>8 DEF current_durable_lsn, fileVars, memVars
<1>9. CASE WalCrash
  BY <1>9 DEF WalCrash
<1> QED
  BY <1>1, <1>2, <1>3, <1>4, <1>5, <1>6, <1>7, <1>8, <1>9 DEF WalNext, FileWal_flush_through

\* The header on disk claims synced records only, with any failures.
THEOREM HeaderInvariant == WalSpec => []HeaderInv
<1>1. WalInit => HeaderInv
  BY InitInv DEF WalInv
<1> QED
  BY <1>1, HeaderStep, PTL DEF WalSpec

\* Opening finds every record the header claims (scan_open_file_wal never stops
\* inside the durable prefix), with any failures and crashes.
THEOREM ClaimsAlwaysScan == WalSpec => []OpenFindsAllClaimed
<1>1. HeaderInv => OpenFindsAllClaimed
  BY ScannedAll, FileWalAssumption DEF HeaderInv, TypeOK, WalLsn, OpenFindsAllClaimed
<1> QED
  BY <1>1, HeaderInvariant, PTL

\* The inductive invariant.
THEOREM WalInvariant == WalSpec => []WalInv
<1>1. WalInv /\ [WalNext]_fileWalVars => WalInv'
  BY HeaderStep, ReportStep DEF WalInv
<1> QED
  BY <1>1, InitInv, PTL DEF WalSpec

\* What flush_through has reported durable survives a crash at any moment, unless the
\* last header write or its sync has failed.
THEOREM ReportsAlwaysSurvive == WalSpec => []ReportedSurvives
<1>1. WalInv => ReportedSurvives
  BY FileWalAssumption
     DEF WalInv, HeaderInv, ReportInv, TypeOK, WalLsn, ReportedSurvives, Surviving, Least
<1> QED
  BY <1>1, WalInvariant, PTL

\* The record the abstract log has.
Records == IF step = "down" THEN SubSeq(file, 1, Scanned(file, header)) ELSE file

\* Every step of the file WAL is a step of the abstract log, or changes neither the
\* records nor what would survive a crash.
LEMMA StepLog ==
  ASSUME WalInv, WalInv', [WalNext]_fileWalVars
  PROVE  [Log!Next]_<<Records, Surviving>>
<1> USE FileWalAssumption DEF WalInv, HeaderInv, TypeOK, WalLsn, Step, histVars
<1>0. step = "down" => Scanned(file, header) = header
  <2> SUFFICES ASSUME step = "down" PROVE Scanned(file, header) = header
    OBVIOUS
  <2>1. file \in Seq(Record \cup {Torn}) /\ header \in Nat /\ header <= Len(file) /\ Scans(file, header)
    OBVIOUS
  <2> QED
    BY <2>1, ScannedAll
<1>0a. step' = "down" => Scanned(file', header') = header'
  <2> SUFFICES ASSUME step' = "down" PROVE Scanned(file', header') = header'
    OBVIOUS
  <2>1. /\ file' \in Seq(Record \cup {Torn}) /\ header' \in Nat
        /\ header' <= Len(file') /\ Scans(file', header')
    OBVIOUS
  <2> QED
    BY <2>1, ScannedAll
<1>0e. /\ header \in Nat /\ stable_header \in Nat /\ stable \in Nat /\ Len(file) \in Nat
       /\ stable <= Len(file) /\ header <= stable /\ (step = "down" => header = stable_header)
  <2>1. file \in Seq(Record \cup {Torn})
    OBVIOUS
  <2>2. header \in Nat /\ stable_header \in Nat /\ stable \in Nat
    OBVIOUS
  <2>3. stable <= Len(file) /\ header <= stable
    OBVIOUS
  <2>4. step = "down" => header = stable_header
    OBVIOUS
  <2> HIDE DEF WalInv, HeaderInv, TypeOK, WalLsn, Step
  <2> QED
    BY <2>1, <2>2, <2>3, <2>4
<1>0f. /\ header' \in Nat /\ stable_header' \in Nat /\ stable' \in Nat /\ Len(file') \in Nat
       /\ stable' <= Len(file') /\ header' <= stable' /\ (step' = "down" => header' = stable_header')
  <2>1. file' \in Seq(Record \cup {Torn})
    OBVIOUS
  <2>2. header' \in Nat /\ stable_header' \in Nat /\ stable' \in Nat
    OBVIOUS
  <2>3. stable' <= Len(file') /\ header' <= stable'
    OBVIOUS
  <2>4. step' = "down" => header' = stable_header'
    OBVIOUS
  <2> HIDE DEF WalInv, HeaderInv, TypeOK, WalLsn, Step
  <2> QED
    BY <2>1, <2>2, <2>3, <2>4
<1>0b. /\ Surviving \in Nat /\ Surviving <= header /\ Surviving <= stable_header
       /\ Surviving <= Len(file) /\ (step = "down" => Surviving = header)
  <2> HIDE DEF WalInv, HeaderInv, TypeOK, WalLsn, Step
  <2> QED
    BY <1>0e DEF Surviving, Least
<1>0c. Surviving' \in Nat /\ Surviving' <= Len(file') /\ (step' = "down" => Surviving' = header')
  <2> HIDE DEF WalInv, HeaderInv, TypeOK, WalLsn, Step
  <2> QED
    BY <1>0f DEF Surviving, Least
<1>0d. ASSUME Records' = Records, Surviving <= Surviving', Surviving' <= Len(Records)
       PROVE  [Log!Next]_<<Records, Surviving>>
  <2>1. Log!Flush(Surviving')
    BY <1>0d DEF Log!Flush, Records
  <2>2. Surviving' \in Surviving .. Len(Records)
    BY <1>0b, <1>0c, <1>0d, SMT
  <2> QED
    BY <2>1, <2>2 DEF Log!Next, Records
<1>1. CASE UNCHANGED fileWalVars
  BY <1>1 DEF fileWalVars, fileVars, memVars, Records, Surviving
<1>2. CASE OpenScan
  <2>1. Records' = Records
    BY <1>0, <1>2 DEF OpenScan, Records
  <2>2. Surviving' = Surviving
    BY <1>0, <1>0b, <1>2 DEF OpenScan, Surviving, Least
  <2> QED
    BY <2>1, <2>2
<1>3. CASE append(file'[Len(file')]) /\ file'[Len(file')] \in Record
  <2>1. Records = file /\ Records' = file' /\ Surviving' = Surviving
    BY <1>3 DEF append, memVars, Records, Surviving
  <2> QED
    BY <2>1, <1>3 DEF append, Log!Next, Log!AppendRecord, Records
<1>4. ASSUME step # "down", step' # "down", file' = file, Surviving <= Surviving'
      PROVE  [Log!Next]_<<Records, Surviving>>
  <2>1. Records = file /\ Records' = file
    BY <1>4 DEF Records
  <2> QED
    BY <2>1, <1>4, <1>0c, <1>0d
<1>5. CASE OpenSync
  <2>1. step # "down" /\ step' # "down" /\ file' = file
    BY <1>5 DEF OpenSync
  <2>2. Surviving <= Surviving'
    BY <1>5 DEF OpenSync, Surviving, Least
  <2> QED
    BY <2>1, <2>2, <1>4
<1>6. CASE FileWal_flush_through
  <2>1. step # "down" /\ step' # "down" /\ file' = file
    BY <1>6 DEF FileWal_flush_through, FlushAlreadyDurable, FlushStart, sync_data, SyncDataFails, Advance,
                write_file_wal_header, sync_all, HeaderFails, fileVars, memVars
  <2>2. /\ header \in Nat /\ header' \in Nat /\ stable \in Nat /\ stable' \in Nat
        /\ stable_header \in Nat /\ stable <= Len(file) /\ Len(file) \in Nat
    OBVIOUS
  <2>3. /\ header <= header' /\ stable <= stable'
        /\ (stable_header' = stable_header \/ stable_header' = header)
    <3>1. CASE write_file_wal_header
      BY <3>1 DEF write_file_wal_header, ReportInv
    <3>2. CASE sync_data \/ sync_all
      BY <3>2, <2>2 DEF sync_data, sync_all
    <3>3. CASE UNCHANGED <<header, stable, stable_header>>
      BY <3>3, <2>2
    <3> QED
      BY <3>1, <3>2, <3>3, <1>6 DEF FileWal_flush_through, FlushAlreadyDurable, FlushStart, SyncDataFails,
         Advance, HeaderFails, fileVars
  <2>4. Surviving <= Surviving'
    <3> HIDE DEF WalInv, HeaderInv, TypeOK, WalLsn, Step
    <3>1. /\ Least(header, stable_header) \in Nat
          /\ Least(header', stable_header') \in Nat
          /\ Least(header, stable_header) <= Least(header', stable_header')
      <4>1. ASSUME NEW h \in Nat, NEW k \in Nat, NEW g \in Nat, h <= g
            PROVE  Least(h, k) \in Nat /\ Least(h, k) <= Least(g, k) /\ Least(h, k) <= Least(g, h)
                     /\ Least(g, k) \in Nat /\ Least(g, h) \in Nat
        BY <4>1 DEF Least
      <4>2. header \in Nat /\ stable_header \in Nat /\ header' \in Nat /\ header <= header'
        BY <2>2, <2>3
      <4> QED
        BY <4>1, <4>2, <2>3
    <3>2. ASSUME NEW m \in Nat, NEW n \in Nat, m <= n PROVE Least(m, stable) <= Least(n, stable')
      BY <2>2, <2>3, <3>2 DEF Least
    <3> QED
      BY <3>1, <3>2 DEF Surviving
  <2> QED
    BY <2>1, <2>4, <1>4
<1>7. CASE current_durable_lsn
  <2>1. step # "down" /\ step' # "down" /\ file' = file /\ Surviving' = Surviving
    BY <1>7 DEF current_durable_lsn, fileVars, memVars, Surviving
  <2> QED
    BY <2>1, <1>0b, <1>4
<1>8. CASE WalCrash
  <2>1. step # "down" /\ step' = "down"
    BY <1>8 DEF WalCrash
  <2>2. header' <= stable /\ header' \in Nat
    BY <1>8 DEF WalCrash
  <2>3. \A i \in 1 .. header' : file'[i] = file[i]
    BY <2>2, <1>8, CrashFile
  <2>4. Records = file /\ Records' = SubSeq(file', 1, header')
    BY <2>1, <1>0a DEF Records
  <2>5. header' <= Len(file) /\ Len(file') = Len(file) /\ file' \in Seq(Record \cup {Torn})
    BY <2>2, <1>8, CrashFile
  <2>6. SubSeq(file', 1, header') = SubSeq(file, 1, header')
    <3>1. file \in Seq(Record \cup {Torn})
      OBVIOUS
    <3> HIDE DEF WalInv, HeaderInv, TypeOK, WalLsn, Step
    <3>2. /\ SubSeq(file', 1, header') = [i \in 1 .. header' |-> file'[i]]
          /\ SubSeq(file, 1, header') = [i \in 1 .. header' |-> file[i]]
      BY <2>2, <2>5, <3>1
    <3> QED
      BY <2>3, <3>2, Zenon
  <2>7. header' \in Surviving .. Len(file)
    <3>1. header' = header \/ header' = stable_header
      BY <1>8 DEF WalCrash
    <3>2. Surviving <= header'
      BY <3>1, <1>0b
    <3> HIDE DEF WalInv, HeaderInv, TypeOK, WalLsn, Step
    <3> QED
      BY <3>2, <2>2, <2>5, <1>0b
  <2>8. Log!Crash(header')
    BY <2>1, <2>4, <2>6, <1>0c DEF Log!Crash, Records
  <2> QED
    BY <2>7, <2>8, <2>4 DEF Log!Next, Records
<1>9. ASSUME NEW r \in Record, append(r)
      PROVE  append(file'[Len(file')]) /\ file'[Len(file')] \in Record
  BY <1>9 DEF append
<1> QED
  BY <1>1, <1>2, <1>3, <1>5, <1>6, <1>7, <1>8, <1>9 DEF WalNext

\* The file WAL implements the abstract log: no failure and no crash at any point of
\* open and flush_through loses a record that was safe from crashes before.
THEOREM RefinesDurableLog == WalSpec => ImplementsDurableLog
<1>1. WalInit => Log!Init
  BY DEF WalInit, Log!Init, Surviving, Least
<1>2. WalInv /\ WalInv' /\ [WalNext]_fileWalVars => [Log!Next]_Log!vars
  BY StepLog DEF Records, Log!vars
<1> QED
  BY <1>1, <1>2, WalInvariant, PTL DEF WalSpec, ImplementsDurableLog, Log!Spec

\* The atomic signal and the durable LSN of the owner move together.
Signalled == shared_durable_lsn = durable_lsn

\* Every step that moves the durable LSN moves the signal with it.
LEMMA SignalStep == Signalled /\ [WalNext]_fileWalVars => Signalled'
<1> USE DEF Signalled, fileVars, memVars, histVars, fileWalVars
<1> SUFFICES ASSUME Signalled, [WalNext]_fileWalVars PROVE Signalled'
  OBVIOUS
<1>1. CASE UNCHANGED fileWalVars
  BY <1>1
<1>2. CASE OpenScan \/ OpenSync \/ WalCrash
  BY <1>2 DEF OpenScan, OpenSync, WalCrash
<1>3. ASSUME NEW r \in Record, append(r) PROVE Signalled'
  BY <1>3 DEF append
<1>4. ASSUME NEW lsn \in WalLsn, FlushAlreadyDurable(lsn) \/ FlushStart(lsn) PROVE Signalled'
  BY <1>4 DEF FlushAlreadyDurable, FlushStart
<1>5. CASE sync_data \/ SyncDataFails \/ Advance
  BY <1>5 DEF sync_data, SyncDataFails, Advance
<1>6. CASE write_file_wal_header \/ sync_all \/ HeaderFails
  BY <1>6 DEF write_file_wal_header, sync_all, HeaderFails
<1>7. CASE current_durable_lsn
  BY <1>7 DEF current_durable_lsn
<1> QED
  BY <1>1, <1>2, <1>3, <1>4, <1>5, <1>6, <1>7 DEF WalNext, FileWal_flush_through

\* Only current_durable_lsn changes what observers have seen.
LEMMA OnlyObserversObserve ==
  ASSUME [WalNext]_fileWalVars, observed' # observed
  PROVE  current_durable_lsn
<1> USE DEF fileVars, memVars, histVars, fileWalVars
<1>1. CASE UNCHANGED fileWalVars
  BY <1>1
<1>2. CASE OpenScan \/ OpenSync \/ WalCrash
  BY <1>2 DEF OpenScan, OpenSync, WalCrash
<1>3. ASSUME NEW r \in Record, append(r) PROVE FALSE
  BY <1>3 DEF append
<1>4. ASSUME NEW lsn \in WalLsn, FlushAlreadyDurable(lsn) \/ FlushStart(lsn) PROVE FALSE
  BY <1>4 DEF FlushAlreadyDurable, FlushStart
<1>5. CASE sync_data \/ SyncDataFails \/ Advance
  BY <1>5 DEF sync_data, SyncDataFails, Advance
<1>6. CASE write_file_wal_header \/ sync_all \/ HeaderFails
  BY <1>6 DEF write_file_wal_header, sync_all, HeaderFails
<1> QED
  BY <1>1, <1>2, <1>3, <1>4, <1>5, <1>6 DEF WalNext, FileWal_flush_through

\* FileWalDurabilityObserver reads an LSN that survives a crash at that moment, unless it
\* reads between the advance and the header's sync, or after that has failed.
THEOREM ObservationsSurvive == WalSpec => ObservedOutsideFlushSurvives
<1> DEFINE Sound ==
      observed' # observed =>
        step \in {"advanced", "header_written"} \/ faulted \/ observed' <= Surviving
<1>1. WalInit => Signalled
  BY DEF WalInit, Signalled
<1>2. WalInv /\ Signalled /\ [WalNext]_fileWalVars => [Sound]_fileWalVars
  <2> SUFFICES ASSUME WalInv, Signalled, [WalNext]_fileWalVars, observed' # observed,
                      step \notin {"advanced", "header_written"}, ~ faulted
               PROVE  observed' <= Surviving
    OBVIOUS
  <2>1. current_durable_lsn
    BY OnlyObserversObserve
  <2>2. observed' = durable_lsn /\ step \in {"idle", "syncing", "synced"}
    BY <2>1 DEF current_durable_lsn, Signalled, WalInv, HeaderInv, TypeOK, Step
  <2>3. durable_lsn = header /\ header = stable_header /\ header <= stable
    BY <2>2 DEF WalInv, HeaderInv, ReportInv
  <2> QED
    BY <2>2, <2>3, FileWalAssumption DEF Surviving, Least, WalInv, HeaderInv, TypeOK, WalLsn
<1>3. WalSpec => [][Sound]_fileWalVars
  BY <1>1, <1>2, SignalStep, WalInvariant, PTL DEF WalSpec
<1> QED
  BY <1>3 DEF ObservedOutsideFlushSurvives

-----------------------------------------------------------------------------
(* The root pointer of StockRecovery.                                      *)

RootA == "manifest_root_a"
RootB == "manifest_root_b"

Generations(f) == {pointer[f].generation, synced[f].generation}

\* What the files hold: generations are numbers, the newest one is readable, and no
\* generation but that of an empty file is in both files, so that which file is the
\* active one is never in doubt.
FilesInv ==
  /\ DOMAIN pointer = Root!File /\ DOMAIN synced = Root!File
  /\ pointer = [f \in Root!File |-> pointer[f]]
  /\ synced = [f \in Root!File |-> synced[f]]
  /\ \A f \in Root!File : Generations(f) \subseteq Nat
  /\ \A f \in Root!File : synced[f].generation <= manifest.generation
  /\ Generations(RootA) \cap Generations(RootB) \subseteq {0}
  /\ published \in Nat

\* One file is safe on the disk, holds the published manifest or a later one, and is
\* not the file being written.
SafeFile(f) ==
  /\ pointer[f] = synced[f]
  /\ pointer[f].generation >= published
  /\ call.kind = "checkpoint" => call.file # f

\* The write in progress has put its record into its file.
CallInv ==
  /\ "kind" \in DOMAIN call
  /\ call.kind = "checkpoint" => /\ call.step = "written"
                                 /\ call.file \in Root!File
                                 /\ pointer[call.file].generation > 0

\* The inductive invariant.
RootInv ==
  /\ FilesInv
  /\ CallInv
  /\ published > 0
  /\ unsettled \/ \E f \in Root!File : SafeFile(f)

-----------------------------------------------------------------------------
\* select_valid_pointer returns one of its arguments, and a newest one.
LEMMA NewestOfTwo ==
  ASSUME NEW a, NEW b, a.generation \in Nat, b.generation \in Nat
  PROVE  LET newest == Root!select_valid_pointer(a, b)
         IN  /\ newest \in {a, b}
             /\ newest.generation >= a.generation
             /\ newest.generation >= b.generation
  BY DEF Root!select_valid_pointer

\* The manifest read is that of one of the files, and no readable one is newer.
LEMMA ActiveIsNewest ==
  ASSUME FilesInv
  PROVE  /\ manifest \in {pointer[RootA], pointer[RootB]}
         /\ \A f \in Root!File : pointer[f].generation <= manifest.generation
         /\ manifest.generation \in Nat
  BY DEF FilesInv, Generations, manifest, Root!read_root_pointer,
         Root!select_valid_pointer, Root!File, RootA, RootB

\* Steps that leave the files alone, and start or end no write of them.
LEMMA OtherSteps ==
  ASSUME RootInv, UNCHANGED rootVars, "kind" \in DOMAIN call',
         call' = call \/ call'.kind # "checkpoint"
  PROVE  RootInv'
<1>1. FilesInv'
  BY DEF RootInv, FilesInv, Generations, manifest, Root!read_root_pointer,
         Root!select_valid_pointer, rootVars
<1>2. CallInv'
  BY DEF RootInv, CallInv, rootVars
<1>3. published' > 0 /\ (unsettled \/ \E f \in Root!File : SafeFile(f))'
  BY DEF RootInv, SafeFile, rootVars
<1> QED BY <1>1, <1>2, <1>3 DEF RootInv

\* The inactive file is not the one that names the active manifest, if there is one.
LEMMA InactiveIsNotActive ==
  ASSUME FilesInv, NEW f \in Root!File, pointer[f] = manifest, manifest.generation > 0
  PROVE  Root!InactiveFile \in Root!File \ {f}
<1>1. /\ pointer[RootA].generation \in Nat /\ pointer[RootB].generation \in Nat
      /\ pointer[RootA].generation # pointer[RootB].generation \/ pointer[RootA].generation = 0
  BY DEF FilesInv, Generations, Root!File, RootA, RootB
<1>2. manifest = IF pointer[RootA].generation >= pointer[RootB].generation THEN pointer[RootA] ELSE pointer[RootB]
  BY DEF manifest, Root!read_root_pointer, Root!select_valid_pointer, RootA, RootB
<1>3. Root!InactiveFile = IF pointer[RootA].generation > pointer[RootB].generation THEN RootB ELSE RootA
  BY DEF Root!InactiveFile, RootA, RootB
<1>4. Root!File = {RootA, RootB} /\ RootA # RootB
  BY DEF Root!File, RootA, RootB
<1> HIDE DEF RootA, RootB
<1>5. CASE pointer[RootA].generation > pointer[RootB].generation
  <2>1. manifest = pointer[RootA] /\ Root!InactiveFile = RootB
    BY <1>1, <1>2, <1>3, <1>5
  <2>2. f # RootB
    BY <1>1, <1>5, <2>1
  <2> QED BY <1>4, <2>1, <2>2
<1>6. CASE pointer[RootA].generation < pointer[RootB].generation
  <2>1. manifest = pointer[RootB] /\ Root!InactiveFile = RootA
    BY <1>1, <1>2, <1>3, <1>6
  <2>2. f # RootA
    BY <1>1, <1>6, <2>1
  <2> QED BY <1>4, <2>1, <2>2
<1> QED BY <1>1, <1>2, <1>5, <1>6

-----------------------------------------------------------------------------
\* A write of the inactive file, complete or cut short.
LEMMA WriteKeepsFiles ==
  ASSUME FilesInv, NEW content, content = Root!None \/ content.generation = manifest.generation + 1,
         Root!WritePointerFile(Root!InactiveFile, content), published' = published
  PROVE  FilesInv'
<1>1. Root!InactiveFile \in {RootA, RootB} /\ Root!File = {RootA, RootB} /\ RootA # RootB
  BY DEF Root!InactiveFile, Root!File, RootA, RootB
<1> PICK inactive \in {RootA, RootB} : inactive = Root!InactiveFile
  BY <1>1
<1>2. content.generation \in Nat
  BY ActiveIsNewest DEF Root!None
<1>3. /\ pointer' = [pointer EXCEPT ![inactive] = content]
      /\ synced' = synced
  BY DEF Root!WritePointerFile
<1>4. pointer'[inactive] = content /\ \A f \in Root!File \ {inactive} : pointer'[f] = pointer[f]
  BY <1>1, <1>3 DEF FilesInv
<1>5. PICK other \in {RootA, RootB} : other # inactive
  BY <1>1
<1>6. manifest.generation = pointer[other].generation
  BY <1>1, <1>5 DEF FilesInv, Generations, manifest, Root!read_root_pointer,
                    Root!select_valid_pointer, Root!InactiveFile, RootA, RootB
<1>7. /\ pointer'[RootA].generation \in Nat /\ pointer'[RootB].generation \in Nat
      /\ manifest' = Root!select_valid_pointer(pointer'[RootA], pointer'[RootB])
  <2>1. \A f \in Root!File : pointer'[f].generation \in Nat
    BY <1>1, <1>2, <1>4 DEF FilesInv, Generations
  <2> QED BY <1>1, <2>1 DEF manifest, Root!read_root_pointer, RootA, RootB
<1>8. manifest'.generation >= pointer'[other].generation
  BY <1>5, <1>7, NewestOfTwo
<1>9. pointer'[other] = pointer[other] /\ manifest'.generation \in Nat
  BY <1>1, <1>4, <1>5, <1>7, NewestOfTwo
<1>10. \A f \in Root!File : synced'[f].generation <= manifest'.generation
  <2> TAKE f \in Root!File
  <2>1. synced[f].generation \in Nat /\ manifest.generation \in Nat
    BY ActiveIsNewest DEF FilesInv, Generations
  <2>2. manifest.generation <= manifest'.generation
    BY <1>6, <1>8, <1>9
  <2> QED BY <1>3, <1>9, <2>1, <2>2 DEF FilesInv
<1>11. Generations(RootA)' \cap Generations(RootB)' \subseteq {0}
  <2>1. content.generation # 0 => content.generation \notin Generations(other)
    <3>1. \A g \in Generations(other) : g \in Nat /\ g <= manifest.generation
      BY <1>1, <1>5, ActiveIsNewest DEF FilesInv, Generations
    <3> QED BY <3>1, ActiveIsNewest DEF Root!None
  <2>2. Generations(inactive) \cap Generations(other) \subseteq {0}
    BY <1>1, <1>5 DEF FilesInv
  <2>3. /\ Generations(other)' = Generations(other)
        /\ Generations(inactive)' \subseteq Generations(inactive) \cup {content.generation}
    BY <1>3, <1>4, <1>5, <1>9 DEF Generations
  <2>4. Generations(inactive)' \cap Generations(other)' \subseteq {0}
    BY <2>1, <2>2, <2>3
  <2>5. (inactive = RootA /\ other = RootB) \/ (inactive = RootB /\ other = RootA)
    BY <1>1, <1>5
  <2> QED BY <2>4, <2>5
<1>12. \A f \in Root!File : Generations(f)' \subseteq Nat
  BY <1>1, <1>3, <1>7 DEF FilesInv, Generations
<1>13. /\ DOMAIN pointer' = Root!File /\ DOMAIN synced' = Root!File
       /\ pointer' = [f \in Root!File |-> pointer'[f]]
       /\ synced' = [f \in Root!File |-> synced'[f]]
  BY <1>3 DEF FilesInv
<1> QED BY <1>10, <1>11, <1>12, <1>13 DEF FilesInv

\* write_root_pointer up to its sync: the file that names the active manifest is left alone,
\* and unless the step is recorded as unsettled that file is safe.
LEMMA CheckpointKeeps ==
  ASSUME RootInv, NEW start, Checkpoint(start)
  PROVE  RootInv'
<1>1. PICK content :
        /\ Root!WritePointerFile(Root!InactiveFile, content)
        /\ \/ /\ content.generation = manifest.generation + 1
              /\ call' = [kind |-> "checkpoint", step |-> "written", file |-> Root!InactiveFile]
           \/ content = Root!None /\ call' = NoCall
  <2>1. CASE /\ Root!WritePointerFile(Root!InactiveFile, NextManifest(start))
             /\ call' = [kind |-> "checkpoint", step |-> "written", file |-> Root!InactiveFile]
    <3>1. NextManifest(start).generation = manifest.generation + 1
      BY DEF NextManifest
    <3> QED BY <2>1, <3>1
  <2>2. CASE Root!WritePointerFile(Root!InactiveFile, Root!None) /\ UNCHANGED call
    <3>1. call' = NoCall
      BY <2>2 DEF Checkpoint
    <3> QED BY <2>2, <3>1
  <2> QED BY <2>1, <2>2 DEF Checkpoint
<1>2. FilesInv' /\ published' > 0
  BY <1>1, WriteKeepsFiles DEF RootInv, Checkpoint
<1>3. Root!InactiveFile \in Root!File
  BY DEF Root!InactiveFile, Root!File
<1>4. CallInv'
  <2>1. manifest.generation \in Nat /\ pointer'[Root!InactiveFile] = content
    BY <1>1, <1>3, ActiveIsNewest DEF RootInv, FilesInv, Root!WritePointerFile
  <2>2. CASE call' = NoCall
    BY <2>2 DEF CallInv, NoCall
  <2>3. CASE /\ content.generation = manifest.generation + 1
             /\ call' = [kind |-> "checkpoint", step |-> "written", file |-> Root!InactiveFile]
    <3>1. pointer'[Root!InactiveFile].generation > 0
      BY <2>1, <2>3
    <3>2. call'.kind = "checkpoint" /\ call'.step = "written" /\ call'.file = Root!InactiveFile
      BY <2>3
    <3>3. "kind" \in DOMAIN call'
      BY <2>3
    <3> QED BY <1>3, <3>1, <3>2, <3>3 DEF CallInv
  <2> QED BY <1>1, <2>2, <2>3
<1>5. ASSUME ~ unsettled'
      PROVE  \E f \in Root!File : SafeFile(f)'
  <2>1. PICK f \in Root!File : pointer[f] = manifest /\ synced[f] = manifest
    BY <1>5 DEF Checkpoint
  <2>2. PICK g \in Root!File : SafeFile(g)
    BY <1>5 DEF Checkpoint, RootInv
  <2>3. manifest.generation >= published /\ manifest.generation > 0
    <3>1. /\ pointer[g].generation <= manifest.generation
          /\ manifest.generation \in Nat
      BY <2>2, ActiveIsNewest DEF RootInv
    <3>2. pointer[g].generation \in Nat
      BY <2>2 DEF RootInv, FilesInv, Generations
    <3>3. pointer[g].generation >= published /\ published > 0 /\ published \in Nat
      BY <2>2 DEF RootInv, FilesInv, SafeFile
    <3> QED BY <3>1, <3>2, <3>3
  <2>4. Root!InactiveFile # f
    BY <2>1, <2>3, InactiveIsNotActive DEF RootInv
  <2>5. pointer'[f] = pointer[f] /\ synced' = synced /\ published' = published
    BY <1>1, <2>4 DEF Root!WritePointerFile, RootInv, FilesInv, Checkpoint
  <2>6. call'.kind = "checkpoint" => call'.file # f
    BY <1>1, <2>4 DEF NoCall
  <2> QED BY <2>1, <2>3, <2>5, <2>6 DEF SafeFile
<1> QED BY <1>2, <1>4, <1>5 DEF RootInv

\* The sync of the written file makes that file the safe one; a sync that fails changes
\* nothing.
LEMMA PublishKeeps ==
  ASSUME RootInv, PublishManifest
  PROVE  RootInv'
<1>1. call.file \in {RootA, RootB} /\ Root!File = {RootA, RootB} /\ RootA # RootB
  BY DEF RootInv, CallInv, PublishManifest, Root!File, RootA, RootB
<1>2. CallInv' /\ call'.kind # "checkpoint"
  BY DEF PublishManifest, CallInv, NoCall
<1>3. CASE UNCHANGED <<pointer, synced, published>>
  BY <1>2, <1>3, OtherSteps DEF PublishManifest, CallInv, rootVars
<1>4. CASE /\ Root!fsync_pointer_file(call.file)
           /\ published' = pointer[call.file].generation
  <2> PICK inactive \in {RootA, RootB} : inactive = call.file
    BY <1>1
  <2>1. pointer' = pointer /\ synced' = [synced EXCEPT ![inactive] = pointer[inactive]]
    BY <1>4 DEF Root!fsync_pointer_file
  <2>2. synced'[inactive] = pointer[inactive] /\ \A f \in Root!File \ {inactive} : synced'[f] = synced[f]
    BY <1>1, <2>1 DEF RootInv, FilesInv
  <2>3. manifest' = manifest
    BY <2>1 DEF manifest, Root!read_root_pointer
  <2>4. \A f \in Root!File : Generations(f)' \subseteq Generations(f)
    BY <2>1, <2>2 DEF Generations
  <2>5. \A f \in Root!File : synced'[f].generation <= manifest'.generation
    BY <2>2, <2>3, ActiveIsNewest DEF RootInv, FilesInv
  <2>6. FilesInv'
    <3>1. Generations(RootA)' \cap Generations(RootB)' \subseteq {0}
      BY <1>1, <2>4 DEF RootInv, FilesInv
    <3>2. \A f \in Root!File : Generations(f)' \subseteq Nat
      BY <2>4 DEF RootInv, FilesInv
    <3>3. published' \in Nat
      BY <1>1, <1>4 DEF RootInv, FilesInv, Generations
    <3> QED BY <2>1, <2>5, <3>1, <3>2, <3>3 DEF RootInv, FilesInv
  <2>7. published' > 0
    BY <1>4 DEF RootInv, CallInv, PublishManifest
  <2>8. SafeFile(inactive)'
    BY <1>2, <1>4, <2>1, <2>2, <2>6 DEF SafeFile, FilesInv
  <2> QED BY <1>1, <1>2, <2>6, <2>7, <2>8 DEF RootInv
<1> QED BY <1>3, <1>4 DEF PublishManifest

\* A process that stops changes no file; a machine that stops keeps the safe one.
LEMMA CrashKeeps ==
  ASSUME RootInv, NEW lsn, Crash(lsn)
  PROVE  RootInv'
<1>1. CallInv' /\ call'.kind # "checkpoint" /\ published' = published /\ unsettled' = unsettled
  BY DEF Crash, CallInv, NoCall
<1>2. CASE UNCHANGED Root!rootVars
  BY <1>1, <1>2, OtherSteps DEF rootVars, Root!rootVars, CallInv
<1>3. CASE ~ UNCHANGED Root!rootVars
  <2>1. /\ pointer' = [f \in Root!File |-> pointer'[f]] /\ DOMAIN pointer' = Root!File
        /\ synced' = pointer'
        /\ \A f \in Root!File : pointer'[f] \in {synced[f], pointer[f], Root!None}
        /\ \A f \in Root!File : pointer[f] = synced[f] => pointer'[f] = synced[f]
    BY <1>3 DEF Crash, Root!PointerCrash, Root!File
  <2>2. \A f \in Root!File : Generations(f)' \subseteq Generations(f) \cup {0}
    BY <2>1 DEF Generations, Root!None
  <2>3. Root!File = {RootA, RootB}
    BY DEF Root!File, RootA, RootB
  <2>4. /\ Generations(RootA)' \cap Generations(RootB)' \subseteq {0}
        /\ \A f \in Root!File : Generations(f)' \subseteq Nat
    BY <2>2, <2>3 DEF RootInv, FilesInv
  <2>5. \A f \in Root!File : synced'[f].generation <= manifest'.generation
    <3>1. \A f \in Root!File : pointer'[f].generation \in Nat
      BY <2>4 DEF Generations
    <3>2. manifest' = Root!select_valid_pointer(pointer'[RootA], pointer'[RootB])
      BY DEF manifest, Root!read_root_pointer, RootA, RootB
    <3>3. manifest'.generation >= pointer'[RootA].generation /\ manifest'.generation >= pointer'[RootB].generation
          /\ manifest'.generation \in Nat
      BY <2>3, <3>1, <3>2, NewestOfTwo
    <3> QED BY <2>1, <2>3, <3>1, <3>3
  <2>6. FilesInv'
    BY <1>1, <2>1, <2>4, <2>5 DEF RootInv, FilesInv
  <2>7. \A f \in Root!File : SafeFile(f) => SafeFile(f)'
    BY <1>1, <2>1 DEF SafeFile
  <2> QED BY <1>1, <2>6, <2>7 DEF RootInv
<1> QED BY <1>2, <1>3

\* The invariant is preserved by every step: invocations and recovery do not write the files.
LEMMA RootNextInv ==
  ASSUME RootInv, [Next]_vars
  PROVE  RootInv'
<1>0. "kind" \in DOMAIN call
  BY DEF RootInv, CallInv
<1>1. CASE UNCHANGED vars
  BY <1>0, <1>1, OtherSteps DEF vars, rootVars
<1>2. ASSUME NEW quantity \in Quantity, prepare_reserve_stock(quantity)
      PROVE  RootInv'
  BY <1>2, OtherSteps DEF prepare_reserve_stock, Begin, rootVars
<1>3. CASE rollback_after_admission
  BY <1>3, OtherSteps DEF rollback_after_admission, Begin, rootVars
<1>4. CASE append_begin \/ append_mutation \/ append_commit \/ append_rollback
  <2>1. /\ UNCHANGED rootVars
        /\ call.kind \in {"reserve", "rollback"}
        /\ \E next : call' = [call EXCEPT !.step = next]
    BY <1>4 DEF append_begin, append_mutation, append_commit, append_rollback, LogStep
  <2>2. "kind" \in DOMAIN call' /\ call'.kind = call.kind
    BY <1>0, <2>1
  <2> QED BY <2>1, <2>2, OtherSteps
<1>5. ASSUME NEW lsn \in Lsn, flush_through(lsn)
      PROVE  RootInv'
  <2>1. /\ UNCHANGED rootVars
        /\ call.kind # "checkpoint"
        /\ call' = [call EXCEPT !.step = "durable"]
    BY <1>5 DEF flush_through, RootInv, CallInv
  <2>2. "kind" \in DOMAIN call' /\ call'.kind = call.kind
    BY <1>0, <2>1
  <2> QED BY <2>1, <2>2, OtherSteps
<1>6. ASSUME NEW lsn \in Lsn, InvocationFails(lsn)
      PROVE  RootInv'
  BY <1>6, OtherSteps DEF InvocationFails, NoCall
<1>7. CASE Complete
  BY <1>7, OtherSteps DEF Complete, NoCall
<1>8. CASE ObservedStock \/ replay_wal_from_lsn_into_context \/ Restart
  BY <1>0, <1>8, OtherSteps DEF ObservedStock, replay_wal_from_lsn_into_context, Restart
<1>9. ASSUME NEW lsn \in Lsn, Checkpoint(lsn) \/ Crash(lsn)
      PROVE  RootInv'
  BY <1>9, CheckpointKeeps, CrashKeeps
<1>10. CASE PublishManifest
  BY <1>10, PublishKeeps
<1> QED BY <1>1, <1>2, <1>3, <1>4, <1>5, <1>6, <1>7, <1>8, <1>9, <1>10 DEF Next

\* It holds of a database whose first manifest is in file A.
LEMMA RootInitInv ==
  ASSUME Init
  PROVE  RootInv
<1>1. PICK start \in {0, 1} :
        pointer = [f \in Root!File |->
                    IF f = RootA
                    THEN [generation |-> 1, required_wal_start_lsn |-> start, page |-> NoPage]
                    ELSE Root!None]
  BY DEF Init, RootA
<1>2. synced = pointer /\ published = 1 /\ call = NoCall
  BY DEF Init
<1>3. RootA \in Root!File /\ RootB \in Root!File /\ RootA # RootB
  BY DEF Root!File, RootA, RootB
<1>4. /\ pointer[RootA].generation = 1
      /\ pointer[RootB].generation = 0
      /\ \A f \in Root!File : pointer[f].generation \in {0, 1}
  BY <1>1, <1>3 DEF Root!None
<1>5. manifest = pointer[RootA]
  BY <1>4 DEF manifest, Root!read_root_pointer, Root!select_valid_pointer, RootA, RootB
<1>6. FilesInv
  BY <1>1, <1>2, <1>4, <1>5 DEF FilesInv, Generations
<1>7. CallInv /\ SafeFile(RootA)
  BY <1>2, <1>4 DEF CallInv, SafeFile, NoCall
<1> QED BY <1>2, <1>3, <1>6, <1>7 DEF RootInv

\* A manifest that write_root_pointer published is the one that read_root_pointer finds
\* later, or a newer one, through failed writes, failed syncs and crashes, unless a record
\* was written while the newest one was not synced.
THEOREM ManifestAlwaysFound == Spec => []PublishedManifestSurvives
<1>1. Init => RootInv
  BY RootInitInv
<1>2. RootInv /\ [Next]_vars => RootInv'
  BY RootNextInv
<1>3. RootInv => PublishedManifestSurvives
  <2> SUFFICES ASSUME RootInv, ~ unsettled
               PROVE  manifest.generation >= published
    BY DEF PublishedManifestSurvives
  <2>1. PICK f \in Root!File : SafeFile(f)
    BY DEF RootInv
  <2> QED BY <2>1, ActiveIsNewest DEF RootInv, FilesInv, Generations, SafeFile
<1> QED BY <1>1, <1>2, <1>3, PTL DEF Spec
=============================================================================
