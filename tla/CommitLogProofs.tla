-------------------------- MODULE CommitLogProofs --------------------------
(***************************************************************************)
(* Proofs about CommitLog, for every set of transactions and every length  *)
(* of the log, with callers that retry.                                    *)
(***************************************************************************)
EXTENDS CommitLog, TLAPS

\* An entry is the LSN of a durable record of its kind.
EntriesDurable ==
  \A kind \in Kind, tx \in Tx :
    entries[kind][tx] # 0 => /\ entries[kind][tx] <= durable
                             /\ log[entries[kind][tx]] = Rec(kind, tx)

\* The call that holds the lock has its record in the log.
DecisionInv ==
  decision # NoDecision =>
    /\ mode = "open"
    /\ decision.lsn <= Len(log) /\ log[decision.lsn] = Rec(decision.kind, decision.tx)
    /\ decision.step # "appended" => decision.lsn <= durable

\* An outcome that a caller was told is durable.
AckedDurable ==
  \A kind \in Kind, tx \in Tx : acked[tx] = Outcome(kind) => Durable(kind, tx)

\* What is in memory is gone until recovery succeeds, and what is left of the log is
\* durable.
DownInv ==
  mode # "open" => /\ entries = NoEntries /\ status = NoStatus /\ decision = NoDecision
                   /\ durable = Len(log)

WalOK == durable <= Len(log)

CommitInv ==
  /\ TypeOK /\ WalOK /\ EntriesDurable /\ DecisionInv /\ DurableBeforeVisible
  /\ OneOutcome /\ AckedAgreesWithStatus /\ AckedDurable /\ DownInv

-----------------------------------------------------------------------------
\* A record in the durable prefix stays there.
LEMMA DurableStays ==
  ASSUME TypeOK, WalOK, durable' \in Nat, durable' >= durable,
         \A i \in 1 .. durable : i \in DOMAIN log' /\ log'[i] = log[i],
         NEW kind \in Kind, NEW tx \in Tx, Durable(kind, tx)
  PROVE  Durable(kind, tx)'
BY CommitLogAssumption DEF TypeOK, WalOK, Durable, Rec

\* Appending a record keeps the others.
LEMMA AppendFacts ==
  ASSUME TypeOK, NEW r \in LogRecord, Len(log) < MaxLsn, Wal!AppendRecord(r)
  PROVE  /\ log' \in Seq(LogRecord) /\ Len(log') = Len(log) + 1 /\ durable' = durable
         /\ \A i \in 1 .. Len(log) : i \in DOMAIN log' /\ log'[i] = log[i]
         /\ log'[Len(log) + 1] = r
BY CommitLogAssumption DEF TypeOK, Wal!AppendRecord

\* The first state satisfies the invariant.
LEMMA InitInv == Init => CommitInv
<1> SUFFICES ASSUME Init PROVE CommitInv
  OBVIOUS
<1> USE CommitLogAssumption DEF Init, Wal!Init, NoEntries, NoStatus, Outcome, Terminal
<1>1. TypeOK
  BY DEF TypeOK, LogRecord
<1>2. WalOK /\ EntriesDurable /\ DecisionInv /\ DownInv
  BY DEF WalOK, EntriesDurable, DecisionInv, DownInv
<1>3. DurableBeforeVisible /\ AckedAgreesWithStatus /\ AckedDurable
  BY DEF DurableBeforeVisible, AckedAgreesWithStatus, AckedDurable
<1>4. OneOutcome
  BY DEF OneOutcome, Opposite, Kind
<1> QED
  BY <1>1, <1>2, <1>3, <1>4 DEF CommitInv

\* Appending a record that is no decision.
LEMMA AppendStep ==
  ASSUME CommitInv, NEW r \in LogRecord, mode = "open", Len(log) < MaxLsn,
         Wal!AppendRecord(r), UNCHANGED <<mode, entries, status, decision, acked>>
  PROVE  CommitInv'
<1> USE CommitLogAssumption DEF CommitInv
<1>1. TypeOK'
  BY AppendFacts DEF TypeOK
<1>2. WalOK'
  BY AppendFacts DEF WalOK, TypeOK
<1>3. \A kind \in Kind, tx \in Tx : Durable(kind, tx) => Durable(kind, tx)'
  BY AppendFacts, DurableStays DEF TypeOK, WalOK
<1>4. EntriesDurable'
  BY AppendFacts DEF EntriesDurable, TypeOK, WalOK
<1>5. DecisionInv'
  BY AppendFacts DEF DecisionInv, TypeOK, Decision
<1>6. DurableBeforeVisible' /\ AckedDurable'
  BY <1>3 DEF DurableBeforeVisible, AckedDurable
<1>7. OneOutcome' /\ AckedAgreesWithStatus' /\ DownInv'
  BY DEF OneOutcome, AckedAgreesWithStatus, DownInv, RejectedAfterOpposite
<1> QED
  BY <1>1, <1>2, <1>4, <1>5, <1>6, <1>7

\* The append of a terminal record, with the lock taken.
LEMMA AppendTerminalStep ==
  ASSUME CommitInv, NEW kind \in Kind, NEW tx \in Tx, append(kind, tx)
  PROVE  CommitInv'
<1> DEFINE r == Rec(kind, tx)
<1> USE CommitLogAssumption DEF CommitInv
<1>0. r \in LogRecord /\ Wal!AppendRecord(r) /\ Len(log) < MaxLsn /\ TypeOK
  BY DEF append, LogRecord, Rec
<1>a. /\ log' \in Seq(LogRecord) /\ Len(log') = Len(log) + 1 /\ durable' = durable
      /\ \A i \in 1 .. Len(log) : i \in DOMAIN log' /\ log'[i] = log[i]
      /\ log'[Len(log) + 1] = r
  BY <1>0, AppendFacts
<1>b. /\ decision' = [kind |-> kind, tx |-> tx, lsn |-> Len(log) + 1, step |-> "appended"]
      /\ UNCHANGED <<mode, entries, status, acked>> /\ mode = "open"
      /\ ~ RejectedAfterOpposite(kind, tx)
  BY DEF append
<1>c. decision' \in Decision
  BY <1>b, <1>0 DEF Decision, TypeOK
<1> HIDE DEF r
<1>1. TypeOK'
  BY <1>a, <1>b, <1>c, <1>0 DEF TypeOK
<1>2. WalOK'
  BY <1>a DEF WalOK, TypeOK
<1>3. \A k \in Kind, t \in Tx : Durable(k, t) => Durable(k, t)'
  BY <1>a, DurableStays DEF TypeOK, WalOK
<1>4. EntriesDurable'
  <2>1. ASSUME NEW k \in Kind, NEW t \in Tx, entries[k][t] # 0
        PROVE  /\ entries[k][t] <= durable /\ log[entries[k][t]] = Rec(k, t)
               /\ entries[k][t] \in 1 .. Len(log)
    BY <2>1 DEF EntriesDurable, TypeOK, WalOK
  <2> QED
    BY <2>1, <1>a, <1>b DEF EntriesDurable
<1>5. DecisionInv'
  BY <1>a, <1>b DEF DecisionInv, r, TypeOK
<1>6. DurableBeforeVisible' /\ AckedDurable'
  BY <1>3, <1>b DEF DurableBeforeVisible, AckedDurable
<1>7. OneOutcome'
  BY <1>b DEF OneOutcome, RejectedAfterOpposite
<1>8. AckedAgreesWithStatus' /\ DownInv'
  BY <1>b DEF AckedAgreesWithStatus, DownInv
<1> QED
  BY <1>1, <1>2, <1>4, <1>5, <1>6, <1>7, <1>8

\* The end of a flush, good or bad.
LEMMA FlushStep ==
  ASSUME CommitInv, NEW lsn \in 0 .. MaxLsn, flush_through(lsn) \/ FlushFails(lsn)
  PROVE  CommitInv'
<1> USE CommitLogAssumption DEF CommitInv
<1>a. /\ decision # NoDecision /\ decision \in Decision /\ decision.step = "appended"
      /\ log' = log /\ durable' = lsn /\ lsn >= durable /\ lsn <= Len(log)
      /\ UNCHANGED <<mode, entries, status, acked>>
  BY DEF flush_through, FlushFails, Wal!Flush, TypeOK
<1>b. \/ decision' = [decision EXCEPT !.step = "flushed"] /\ decision.lsn <= lsn
      \/ decision' = NoDecision
  BY DEF flush_through, FlushFails, validate_durable_flush_covers_record, TypeOK, Decision
<1>c. decision' \in Decision \cup {NoDecision}
  BY <1>a, <1>b DEF Decision
<1>d. decision' # NoDecision =>
        /\ decision'.kind = decision.kind /\ decision'.tx = decision.tx
        /\ decision'.lsn = decision.lsn /\ decision.lsn <= lsn
  BY <1>a, <1>b DEF Decision
<1>1. TypeOK'
  BY <1>a, <1>c DEF TypeOK
<1>2. WalOK'
  BY <1>a DEF WalOK
<1>3. \A k \in Kind, t \in Tx : Durable(k, t) => Durable(k, t)'
  BY <1>a, DurableStays DEF TypeOK, WalOK
<1>4. EntriesDurable'
  BY <1>a DEF EntriesDurable, TypeOK
<1>5. DecisionInv'
  BY <1>a, <1>d DEF DecisionInv
<1>6. DurableBeforeVisible' /\ AckedDurable'
  BY <1>3, <1>a DEF DurableBeforeVisible, AckedDurable
<1>7. OneOutcome'
  BY <1>a, <1>d DEF OneOutcome, RejectedAfterOpposite
<1>8. AckedAgreesWithStatus' /\ DownInv'
  BY <1>a DEF AckedAgreesWithStatus, DownInv
<1> QED
  BY <1>1, <1>2, <1>4, <1>5, <1>6, <1>7, <1>8

\* The entry of a durable record.
LEMMA InsertStep == ASSUME CommitInv, InsertEntry PROVE CommitInv'
<1> USE CommitLogAssumption DEF CommitInv
<1>a. /\ decision # NoDecision /\ decision \in Decision /\ decision.step = "flushed"
      /\ entries' = [entries EXCEPT ![decision.kind][decision.tx] = decision.lsn]
      /\ decision' = [decision EXCEPT !.step = "inserted"]
      /\ UNCHANGED <<log, durable, mode, status, acked>>
  BY DEF InsertEntry, walVars, TypeOK
<1>b. /\ decision' \in Decision /\ decision' # NoDecision
      /\ decision'.kind = decision.kind /\ decision'.tx = decision.tx
      /\ decision'.lsn = decision.lsn
  BY <1>a DEF Decision, NoDecision, Kind
<1>c. /\ decision.kind \in Kind /\ decision.tx \in Tx /\ decision.lsn \in 1 .. MaxLsn
  BY <1>a DEF Decision
<1>d. \A k \in Kind, t \in Tx :
        entries'[k][t] = IF k = decision.kind /\ t = decision.tx THEN decision.lsn ELSE entries[k][t]
  BY <1>a, <1>c DEF TypeOK
<1>e. \A k \in Kind : Opposite(k) \in Kind /\ Opposite(k) # k /\ Opposite(Opposite(k)) = k
  BY DEF Opposite, Kind
<1>1. TypeOK'
  BY <1>a, <1>b, <1>c DEF TypeOK
<1>4. EntriesDurable'
  BY <1>a, <1>c, <1>d DEF EntriesDurable, DecisionInv
<1>5. DecisionInv'
  BY <1>a, <1>b DEF DecisionInv
<1>6. DurableBeforeVisible' /\ AckedDurable' /\ WalOK'
  BY <1>a DEF DurableBeforeVisible, AckedDurable, Durable, WalOK
<1>7. OneOutcome'
  <2>1. ~ RejectedAfterOpposite(decision.kind, decision.tx)
    BY <1>a DEF OneOutcome
  <2>2. ~ RejectedAfterOpposite(decision.kind, decision.tx)'
    BY <2>1, <1>a, <1>b, <1>c, <1>d, <1>e DEF RejectedAfterOpposite
  <2>3. ASSUME NEW k \in Kind, NEW t \in Tx, entries'[k][t] # 0
        PROVE  entries'[Opposite(k)][t] = 0 /\ status'[t] # Outcome(Opposite(k))
    BY <2>1, <2>3, <1>a, <1>c, <1>d, <1>e DEF OneOutcome, RejectedAfterOpposite
  <2> QED
    BY <2>2, <2>3, <1>b DEF OneOutcome, RejectedAfterOpposite
<1>8. AckedAgreesWithStatus' /\ DownInv'
  BY <1>a DEF AckedAgreesWithStatus, DownInv, DecisionInv
<1> QED
  BY <1>1, <1>4, <1>5, <1>6, <1>7, <1>8

\* An outcome with a durable record gets into the status table.
LEMMA StatusStep ==
  ASSUME CommitInv, NEW kind \in Kind, NEW tx \in Tx, mode = "open",
         Durable(kind, tx), entries[Opposite(kind)][tx] = 0,
         record_validated_terminal_status(tx, Outcome(kind)),
         acked' = acked \/ acked' = [acked EXCEPT ![tx] = Outcome(kind)],
         decision' = NoDecision \/ (decision' = decision /\ entries[kind][tx] # 0),
         UNCHANGED <<log, durable, mode, entries>>
  PROVE  CommitInv' /\ \A t \in Tx : acked[t] # "None" => acked'[t] = acked[t]
<1> USE CommitLogAssumption DEF CommitInv
<1>a. /\ status[tx] \in {"None", "InFlight", Outcome(kind)}
      /\ status' = [status EXCEPT ![tx] = Outcome(kind)]
  BY DEF record_validated_terminal_status
<1>b. \A k \in Kind : /\ Outcome(k) \in Terminal /\ Opposite(k) \in Kind
                       /\ Outcome(Opposite(k)) # Outcome(k) /\ Opposite(Opposite(k)) = k
                       /\ \A j \in Kind : Outcome(j) = Outcome(k) => j = k
  BY DEF Outcome, Opposite, Kind, Terminal
<1>c. \A t \in Tx : status'[t] = IF t = tx THEN Outcome(kind) ELSE status[t]
  BY <1>a DEF TypeOK
<1>d. /\ \A t \in Tx : acked'[t] = acked[t] \/ (t = tx /\ acked'[t] = Outcome(kind))
      /\ acked' \in [Tx -> {"None"} \cup Terminal]
  <2>1. acked \in [Tx -> {"None"} \cup Terminal]
    BY DEF TypeOK
  <2>2. CASE acked' = acked
    BY <2>1, <2>2
  <2>3. CASE acked' = [acked EXCEPT ![tx] = Outcome(kind)]
    BY <2>1, <2>3, <1>b
  <2> QED
    BY <2>2, <2>3
<1>1. TypeOK'
  <2>1. decision' \in Decision \cup {NoDecision}
    BY DEF TypeOK
  <2>2. status' \in [Tx -> {"None", "InFlight"} \cup Terminal]
    BY <1>a, <1>b DEF TypeOK
  <2> QED
    BY <2>1, <2>2, <1>d DEF TypeOK
<1>2. WalOK' /\ EntriesDurable' /\ DecisionInv' /\ DownInv'
  BY DEF WalOK, EntriesDurable, DecisionInv, DownInv
<1>3. DurableBeforeVisible'
  BY <1>b, <1>c DEF DurableBeforeVisible, Durable
<1>4. AckedDurable'
  BY <1>b, <1>d DEF AckedDurable, Durable
<1>5. OneOutcome'
  <2>1. ASSUME NEW k \in Kind, NEW t \in Tx, entries[k][t] # 0
        PROVE  entries[Opposite(k)][t] = 0 /\ status'[t] # Outcome(Opposite(k))
    <3>1. CASE t = tx
      <4>1. k = kind
        BY <2>1, <3>1, <1>b DEF Kind, Opposite
      <4> QED
        BY <4>1, <3>1, <1>b, <1>c, <2>1 DEF OneOutcome
    <3>2. CASE t # tx
      BY <3>2, <1>c, <2>1 DEF OneOutcome
    <3> QED
      BY <3>1, <3>2
  <2>2. ASSUME decision' # NoDecision
        PROVE  ~ RejectedAfterOpposite(decision.kind, decision.tx)'
    <3>1. /\ decision' = decision /\ entries[kind][tx] # 0 /\ decision \in Decision
          /\ ~ RejectedAfterOpposite(decision.kind, decision.tx)
      BY <2>2 DEF OneOutcome, TypeOK
    <3>2. decision.kind \in Kind /\ decision.tx \in Tx
      BY <3>1 DEF Decision
    <3>3. decision.tx = tx => decision.kind = kind
      BY <3>1, <3>2 DEF RejectedAfterOpposite, Kind, Opposite
    <3> QED
      BY <3>1, <3>2, <3>3, <1>b, <1>c DEF RejectedAfterOpposite
  <2> QED
    BY <2>1, <2>2 DEF OneOutcome, RejectedAfterOpposite
<1>6. /\ AckedAgreesWithStatus'
      /\ \A t \in Tx : acked[t] # "None" => acked'[t] = acked[t]
  <2>1. acked[tx] # "None" => acked[tx] = Outcome(kind)
    BY <1>a DEF AckedAgreesWithStatus, TypeOK, Terminal
  <2> QED
    BY <2>1, <1>c, <1>d DEF AckedAgreesWithStatus
<1> QED
  BY <1>1, <1>2, <1>3, <1>4, <1>5, <1>6

\* Calls that return an entry, publish, or repair the status table.
LEMMA PublishStep ==
  ASSUME CommitInv,
         \/ Publish
         \/ \E kind \in Kind, tx \in Tx :
              ReturnExisting(kind, tx) \/ rebuild_status_for_transaction(kind, tx)
  PROVE  CommitInv' /\ \A t \in Tx : acked[t] # "None" => acked'[t] = acked[t]
<1> USE CommitLogAssumption
<1>1. CASE Publish
  <2>1. /\ decision # NoDecision /\ decision \in Decision /\ decision.step = "inserted"
        /\ ~ RejectedAfterOpposite(decision.kind, decision.tx)
        /\ mode = "open" /\ decision.lsn <= durable /\ decision.lsn <= Len(log)
        /\ log[decision.lsn] = Rec(decision.kind, decision.tx)
    BY <1>1 DEF Publish, CommitInv, TypeOK, OneOutcome, DecisionInv
  <2>2. decision.kind \in Kind /\ decision.tx \in Tx /\ decision.lsn \in 1 .. MaxLsn
    BY <2>1 DEF Decision
  <2>3. Durable(decision.kind, decision.tx)
    BY <2>1, <2>2 DEF Durable, CommitInv, TypeOK
  <2>4. entries[Opposite(decision.kind)][decision.tx] = 0
    BY <2>1 DEF RejectedAfterOpposite
  <2> QED
    <3>1. /\ record_validated_terminal_status(decision.tx, Outcome(decision.kind))
          /\ acked' = [acked EXCEPT ![decision.tx] = Outcome(decision.kind)]
          /\ decision' = NoDecision /\ UNCHANGED <<log, durable, mode, entries>>
      BY <1>1 DEF Publish, walVars
    <3> QED
      BY <2>1, <2>2, <2>3, <2>4, <3>1, StatusStep
<1>2. ASSUME NEW kind \in Kind, NEW tx \in Tx,
             ReturnExisting(kind, tx) \/ rebuild_status_for_transaction(kind, tx)
      PROVE  CommitInv' /\ \A t \in Tx : acked[t] # "None" => acked'[t] = acked[t]
  <2>1. /\ mode = "open" /\ entries[kind][tx] # 0
        /\ record_validated_terminal_status(tx, Outcome(kind))
        /\ decision' = decision /\ UNCHANGED <<log, durable, mode, entries>>
        /\ acked' = acked \/ acked' = [acked EXCEPT ![tx] = Outcome(kind)]
    BY <1>2 DEF ReturnExisting, rebuild_status_for_transaction, walVars
  <2>2. Durable(kind, tx) /\ entries[Opposite(kind)][tx] = 0
    BY <2>1 DEF CommitInv, EntriesDurable, Durable, OneOutcome, TypeOK, WalOK
  <2> QED
    BY <2>1, <2>2, StatusStep
<1> QED
  BY <1>1, <1>2

\* The steps that leave log and decision alone and publish nothing.
LEMMA TableStep ==
  ASSUME CommitInv, NEW tx \in Tx, record_in_flight(tx) \/ gc_remove(tx)
  PROVE  CommitInv'
<1> USE CommitLogAssumption DEF CommitInv
<1>1. CASE record_in_flight(tx)
  <2>a. /\ \A t \in Tx : status'[t] = IF t = tx THEN "InFlight" ELSE status[t]
        /\ status[tx] \notin Terminal /\ mode = "open"
        /\ UNCHANGED <<log, durable, mode, entries, decision, acked>>
    BY <1>1 DEF record_in_flight, TypeOK, walVars
  <2>b. \A k \in Kind : Outcome(k) # "InFlight" /\ Outcome(k) \in Terminal
    BY DEF Outcome, Terminal
  <2>1. TypeOK'
    BY <1>1, <2>a DEF TypeOK, record_in_flight
  <2>2. WalOK' /\ EntriesDurable' /\ DecisionInv' /\ DownInv' /\ AckedDurable'
    BY <2>a DEF WalOK, EntriesDurable, DecisionInv, DownInv, AckedDurable, Durable
  <2>3. DurableBeforeVisible'
    BY <2>a, <2>b DEF DurableBeforeVisible, Durable
  <2>4. OneOutcome'
    <3>1. \A k \in Kind : Opposite(k) \in Kind
      BY DEF Opposite, Kind
    <3>2. decision # NoDecision => decision.kind \in Kind /\ decision.tx \in Tx
      BY DEF TypeOK, Decision
    <3> QED
      BY <2>a, <2>b, <3>1, <3>2 DEF OneOutcome, RejectedAfterOpposite
  <2>5. AckedAgreesWithStatus'
    BY <2>a DEF AckedAgreesWithStatus, TypeOK, Terminal
  <2> QED
    BY <2>1, <2>2, <2>3, <2>4, <2>5
<1>2. CASE gc_remove(tx)
  <2>a. /\ \A k \in Kind, t \in Tx : entries'[k][t] = entries[k][t] \/ entries'[k][t] = 0
        /\ entries' \in [Kind -> [Tx -> 0 .. MaxLsn]] /\ mode = "open"
        /\ UNCHANGED <<log, durable, mode, status, decision, acked>>
    BY <1>2 DEF gc_remove, TypeOK, walVars, Kind
  <2>1. TypeOK'
    BY <2>a DEF TypeOK
  <2>2. WalOK' /\ EntriesDurable' /\ DecisionInv' /\ DownInv' /\ AckedDurable'
    BY <2>a DEF WalOK, EntriesDurable, DecisionInv, DownInv, AckedDurable, Durable
  <2>3. DurableBeforeVisible' /\ AckedAgreesWithStatus'
    BY <2>a DEF DurableBeforeVisible, Durable, AckedAgreesWithStatus
  <2>4. OneOutcome'
    <3>1. \A k \in Kind : Opposite(k) \in Kind
      BY DEF Opposite, Kind
    <3>2. decision # NoDecision => decision.kind \in Kind /\ decision.tx \in Tx
      BY DEF TypeOK, Decision
    <3> QED
      BY <2>a, <3>1, <3>2 DEF OneOutcome, RejectedAfterOpposite
  <2> QED
    BY <2>1, <2>2, <2>3, <2>4
<1> QED
  BY <1>1, <1>2

\* A crash keeps the durable prefix and nothing in memory.
LEMMA CrashStep ==
  ASSUME CommitInv, NEW lsn \in 0 .. MaxLsn, Crash(lsn)
  PROVE  CommitInv'
<1> USE CommitLogAssumption
<1>0. /\ TypeOK /\ WalOK /\ mode' = "down" /\ lsn >= durable /\ lsn <= Len(log)
      /\ log' = SubSeq(log, 1, lsn) /\ durable' = lsn /\ acked' = acked
      /\ entries' = NoEntries /\ status' = NoStatus /\ decision' = NoDecision
  BY DEF Crash, Wal!Crash, CommitInv, TypeOK
<1>a. /\ log' \in Seq(LogRecord) /\ Len(log') = lsn
      /\ \A i \in 1 .. durable : i \in DOMAIN log' /\ log'[i] = log[i]
  BY <1>0 DEF TypeOK
<1>1. TypeOK'
  BY <1>0, <1>a DEF TypeOK, NoEntries, NoStatus, Terminal
<1>2. WalOK' /\ EntriesDurable' /\ DecisionInv' /\ DownInv'
  BY <1>0, <1>a DEF WalOK, EntriesDurable, DecisionInv, DownInv, NoEntries
<1>3. \A k \in Kind, t \in Tx : Durable(k, t) => Durable(k, t)'
  BY <1>0, <1>a, DurableStays DEF TypeOK
<1>4. AckedDurable'
  BY <1>0, <1>3 DEF AckedDurable, CommitInv
<1>5. DurableBeforeVisible' /\ AckedAgreesWithStatus'
  BY <1>0 DEF DurableBeforeVisible, AckedAgreesWithStatus, NoStatus, Outcome
<1>6. OneOutcome'
  BY <1>0 DEF OneOutcome, NoEntries
<1> QED
  BY <1>1, <1>2, <1>4, <1>5, <1>6 DEF CommitInv

\* What replay finds for a transaction.
LEMMA ReplayedFacts ==
  ASSUME NEW l \in Seq(LogRecord), NEW kind \in Kind, NEW tx \in Tx
  PROVE  LET n == ReplayedLsn(l, kind, tx)
         IN  /\ n \in 0 .. Len(l)
             /\ n # 0 => l[n] = Rec(kind, tx)
             /\ (\E i \in DOMAIN l : l[i] = Rec(kind, tx)) => n # 0
<1>1. CASE \E i \in DOMAIN l : l[i] = Rec(kind, tx)
  <2>1. ReplayedLsn(l, kind, tx) \in DOMAIN l /\ l[ReplayedLsn(l, kind, tx)] = Rec(kind, tx)
    BY <1>1, Zenon DEF ReplayedLsn
  <2> QED
    BY <2>1
<1>2. CASE ~ \E i \in DOMAIN l : l[i] = Rec(kind, tx)
  BY <1>2 DEF ReplayedLsn
<1> QED
  BY <1>1, <1>2

\* A log that replay accepts has one outcome per transaction.
LEMMA OneTerminal ==
  ASSUME NEW l \in Seq(LogRecord), map_tx_wal_replay_records(l),
         NEW kind \in Kind, NEW tx \in Tx,
         ReplayedLsn(l, kind, tx) # 0
  PROVE  ReplayedLsn(l, Opposite(kind), tx) = 0
<1> DEFINE m == ReplayedLsn(l, kind, tx)
           n == ReplayedLsn(l, Opposite(kind), tx)
<1>0. Opposite(kind) \in Kind /\ Opposite(kind) # kind
  BY DEF Opposite, Kind
<1>1. SUFFICES ASSUME n # 0 PROVE FALSE
  OBVIOUS
<1>2. m \in DOMAIN l /\ n \in DOMAIN l /\ m \in Nat /\ n \in Nat
      /\ l[m] = Rec(kind, tx) /\ l[n] = Rec(Opposite(kind), tx)
  BY <1>0, <1>1, ReplayedFacts
<1> HIDE DEF m, n
<1>3. /\ l[m].tx = tx /\ l[n].tx = tx /\ l[m].kind = kind /\ l[n].kind = Opposite(kind)
      /\ kind # "TxBegin" /\ Opposite(kind) # "TxBegin"
  BY <1>2, <1>0 DEF Rec, Kind
<1>4. m # n
  BY <1>0, <1>3
<1>5. \A i \in DOMAIN l : l[i].kind # "TxBegin" =>
        \A j \in 1 .. i - 1 : l[j].kind \in Kind => l[j].tx # l[i].tx
  BY DEF map_tx_wal_replay_records
<1>6. ~ (m < n)
  <2> SUFFICES ASSUME m < n PROVE FALSE
    OBVIOUS
  <2>1. m \in 1 .. n - 1
    BY <1>2
  <2> QED
    BY <2>1, <1>0, <1>2, <1>3, <1>5
<1>7. ~ (n < m)
  <2> SUFFICES ASSUME n < m PROVE FALSE
    OBVIOUS
  <2>1. n \in 1 .. m - 1
    BY <1>2
  <2> QED
    BY <2>1, <1>0, <1>2, <1>3, <1>5
<1> QED
  BY <1>2, <1>4, <1>6, <1>7

\* Recovery rebuilds the tables from a log with one outcome per transaction.
LEMMA RecoverStep ==
  ASSUME CommitInv, reconstruct_from_tx_wal_replay
  PROVE  CommitInv'
<1> USE CommitLogAssumption
<1>0. /\ TypeOK /\ WalOK /\ AckedDurable /\ mode = "down" /\ mode' = "open"
      /\ map_tx_wal_replay_records(log) /\ log' = log /\ durable' = Len(log)
      /\ decision' = decision /\ acked' = acked /\ decision = NoDecision
  BY DEF reconstruct_from_tx_wal_replay, walVars, CommitInv, DownInv
<1>a. entries' = [kind \in Kind |-> [tx \in Tx |-> ReplayedLsn(log, kind, tx)]]
  BY DEF reconstruct_from_tx_wal_replay
<1>b. \A kind \in Kind, tx \in Tx :
        /\ entries'[kind][tx] = ReplayedLsn(log, kind, tx)
        /\ entries'[kind][tx] \in 0 .. Len(log)
        /\ entries'[kind][tx] # 0 => log[entries'[kind][tx]] = Rec(kind, tx)
        /\ Durable(kind, tx) => entries'[kind][tx] # 0
        /\ entries'[kind][tx] # 0 => entries'[Opposite(kind)][tx] = 0
  BY <1>0, <1>a, ReplayedFacts, OneTerminal DEF TypeOK, Durable, Opposite, Kind
<1>c. \A tx \in Tx : status'[tx] = IF entries'["TxCommit"][tx] # 0 THEN "Committed"
                                  ELSE IF entries'["TxRollback"][tx] # 0 THEN "RolledBack"
                                  ELSE "None"
  BY DEF reconstruct_from_tx_wal_replay
<1>d. \A kind \in Kind, tx \in Tx : status'[tx] = Outcome(kind) <=> entries'[kind][tx] # 0
  BY <1>b, <1>c DEF Outcome, Opposite, Kind
<1>1. TypeOK'
  <2>1. entries' \in [Kind -> [Tx -> 0 .. MaxLsn]]
    <3>1. \A kind \in Kind, tx \in Tx : ReplayedLsn(log, kind, tx) \in 0 .. MaxLsn
      BY <1>0, <1>b DEF TypeOK
    <3> QED
      BY <1>a, <3>1
  <2>2. status' \in [Tx -> {"None", "InFlight"} \cup Terminal]
    BY DEF reconstruct_from_tx_wal_replay, Terminal
  <2> QED
    BY <1>0, <2>1, <2>2 DEF TypeOK
<1>2. WalOK' /\ DecisionInv' /\ DownInv'
  BY <1>0 DEF WalOK, DecisionInv, DownInv
<1>3. EntriesDurable'
  BY <1>0, <1>b DEF EntriesDurable
<1>4. DurableBeforeVisible'
  <2>1. \A kind \in Kind, tx \in Tx :
          entries'[kind][tx] # 0 => /\ entries'[kind][tx] \in DOMAIN log
                                    /\ entries'[kind][tx] <= Len(log)
                                    /\ log[entries'[kind][tx]] = Rec(kind, tx)
    BY <1>0, <1>b DEF TypeOK
  <2> QED
    BY <1>0, <1>d, <2>1 DEF DurableBeforeVisible, Durable
<1>5. AckedDurable' /\ AckedAgreesWithStatus'
  <2>1. \A tx \in Tx : acked[tx] # "None" => \E kind \in Kind : acked[tx] = Outcome(kind)
    BY <1>0 DEF TypeOK, Terminal, Outcome, Kind
  <2>2. \A kind \in Kind, tx \in Tx : acked[tx] = Outcome(kind) => status'[tx] = Outcome(kind)
    BY <1>0, <1>b, <1>d DEF AckedDurable
  <2>3. AckedAgreesWithStatus'
    BY <2>1, <2>2, <1>0 DEF AckedAgreesWithStatus
  <2>4. AckedDurable'
    BY <1>0 DEF AckedDurable, Durable, TypeOK, WalOK
  <2> QED
    BY <2>3, <2>4
<1>6. OneOutcome'
  <2>1. \A kind \in Kind : Opposite(kind) \in Kind
    BY DEF Opposite, Kind
  <2> QED
    BY <1>0, <1>b, <1>d, <2>1 DEF OneOutcome
<1> QED
  BY <1>1, <1>2, <1>3, <1>4, <1>5, <1>6 DEF CommitInv

\* A refusal changes no table.
LEMMA RefusedStep ==
  ASSUME CommitInv, RecoveryRefused
  PROVE  CommitInv'
<1> USE CommitLogAssumption
<1>0. /\ TypeOK /\ WalOK /\ mode \in {"down", "refused"} /\ mode' = "refused"
      /\ log' = log /\ durable' = Len(log)
      /\ UNCHANGED <<entries, status, decision, acked>>
      /\ entries = NoEntries /\ status = NoStatus /\ decision = NoDecision
  BY DEF RecoveryRefused, walVars, CommitInv, DownInv
<1>1. TypeOK'
  BY <1>0 DEF TypeOK
<1>2. WalOK' /\ EntriesDurable' /\ DecisionInv' /\ DownInv'
  BY <1>0 DEF WalOK, EntriesDurable, DecisionInv, DownInv, NoEntries
<1>3. AckedDurable'
  BY <1>0 DEF CommitInv, AckedDurable, Durable, TypeOK, WalOK
<1>4. DurableBeforeVisible' /\ AckedAgreesWithStatus'
  BY <1>0 DEF DurableBeforeVisible, AckedAgreesWithStatus, NoStatus, Outcome
<1>5. OneOutcome'
  BY <1>0 DEF OneOutcome, NoEntries
<1> QED
  BY <1>1, <1>2, <1>3, <1>4, <1>5 DEF CommitInv

-----------------------------------------------------------------------------
\* Every step keeps the invariant, and an outcome a caller was told.
LEMMA NextInv ==
  ASSUME CommitInv, [Next]_vars
  PROVE  CommitInv' /\ \A t \in Tx : acked[t] # "None" => acked'[t] = acked[t]
<1>1. CASE UNCHANGED vars
  <2>1. UNCHANGED <<log, durable, mode, entries, status, decision, acked>>
    BY <1>1 DEF vars, walVars
  <2> QED
    BY <2>1 DEF CommitInv, TypeOK, WalOK, EntriesDurable, DecisionInv, DurableBeforeVisible,
                OneOutcome, RejectedAfterOpposite, AckedAgreesWithStatus, AckedDurable,
                Durable, DownInv
<1>2. ASSUME NEW tx \in Tx, append_tx_begin(tx) \/ append_other(tx)
      PROVE  CommitInv' /\ acked' = acked
  <2>1. Rec("TxBegin", tx) \in LogRecord /\ Rec("Other", tx) \in LogRecord
    BY DEF Rec, LogRecord
  <2> QED
    BY <1>2, <2>1, AppendStep DEF append_tx_begin, append_other
<1>3. ASSUME NEW tx \in Tx, record_in_flight(tx) \/ gc_remove(tx)
      PROVE  CommitInv' /\ acked' = acked
  BY <1>3, TableStep DEF record_in_flight, gc_remove
<1>4. ASSUME NEW kind \in Kind, NEW tx \in Tx, append(kind, tx)
      PROVE  CommitInv' /\ acked' = acked
  BY <1>4, AppendTerminalStep DEF append
<1>5. ASSUME NEW lsn \in 0 .. MaxLsn, flush_through(lsn) \/ FlushFails(lsn)
      PROVE  CommitInv' /\ acked' = acked
  BY <1>5, FlushStep DEF flush_through, FlushFails
<1>6. CASE InsertEntry
  BY <1>6, InsertStep DEF InsertEntry
<1>7. CASE \/ Publish
           \/ \E kind \in Kind, tx \in Tx :
                ReturnExisting(kind, tx) \/ rebuild_status_for_transaction(kind, tx)
  BY <1>7, PublishStep
<1>8. ASSUME NEW lsn \in 0 .. MaxLsn, Crash(lsn) PROVE CommitInv' /\ acked' = acked
  BY <1>8, CrashStep DEF Crash
<1>9. CASE reconstruct_from_tx_wal_replay
  BY <1>9, RecoverStep DEF reconstruct_from_tx_wal_replay
<1>10. CASE RecoveryRefused
  BY <1>10, RefusedStep DEF RecoveryRefused
<1> QED
  BY <1>1, <1>2, <1>3, <1>4, <1>5, <1>6, <1>7, <1>8, <1>9, <1>10 DEF Next, RecordTerminal

\* The invariant that the other theorems rest on.
THEOREM CommitLogInvariant == Spec => []CommitInv
<1>1. CommitInv /\ [Next]_vars => CommitInv'
  BY NextInv
<1> QED
  BY <1>1, InitInv, PTL DEF Spec

\* No outcome is visible in the status table before its record is durable.
THEOREM VisibleIsDurable == Spec => []DurableBeforeVisible
<1>1. CommitInv => DurableBeforeVisible
  BY DEF CommitInv
<1> QED
  BY <1>1, CommitLogInvariant, PTL

\* The tables hold one outcome per transaction, the one callers were told, through
\* failed flushes, retries, garbage collection, crashes and recovery.
THEOREM OutcomesAgree == Spec => [](OneOutcome /\ AckedAgreesWithStatus)
<1>1. CommitInv => OneOutcome /\ AckedAgreesWithStatus
  BY DEF CommitInv
<1> QED
  BY <1>1, CommitLogInvariant, PTL

\* A caller is never told another outcome.
THEOREM AckedNeverChanges == Spec => AckedIsFinal
<1>1. CommitInv /\ [Next]_vars =>
        [\A tx \in Tx : acked[tx] # "None" => acked'[tx] = acked[tx]]_vars
  BY NextInv
<1> QED
  BY <1>1, CommitLogInvariant, PTL DEF Spec, AckedIsFinal

-----------------------------------------------------------------------------
\* The shape of the log: a transaction begins once, before its other records, and
\* work is not logged after a terminal record.
WellPlaced(l, i) ==
  /\ l[i].kind = "TxBegin" => \A j \in 1 .. i - 1 : l[j].tx # l[i].tx
  /\ l[i].kind # "TxBegin" => \E j \in 1 .. i - 1 : l[j] = Rec("TxBegin", l[i].tx)
  /\ l[i].kind = "Other" => \A j \in 1 .. i - 1 : l[j].kind \in Kind => l[j].tx # l[i].tx

LogShape(l) == \A i \in DOMAIN l : WellPlaced(l, i)

\* Whether a record is in its place depends on the records up to it only.
LEMMA SamePlace ==
  ASSUME NEW l, NEW m, NEW i, WellPlaced(l, i), m[i] = l[i], \A j \in 1 .. i - 1 : m[j] = l[j]
  PROVE  WellPlaced(m, i)
<1>1. m[i].kind = "TxBegin" => \A j \in 1 .. i - 1 : m[j].tx # m[i].tx
  BY DEF WellPlaced
<1>2. m[i].kind # "TxBegin" => \E j \in 1 .. i - 1 : m[j] = Rec("TxBegin", m[i].tx)
  BY DEF WellPlaced
<1>3. m[i].kind = "Other" => \A j \in 1 .. i - 1 : m[j].kind \in Kind => m[j].tx # m[i].tx
  BY DEF WellPlaced
<1> QED
  BY <1>1, <1>2, <1>3 DEF WellPlaced

\* Of such a log, replay refuses only one with a repeated terminal record.
LEMMA RefusalIsRepeat ==
  ASSUME NEW l \in Seq(LogRecord), LogShape(l), ~ map_tx_wal_replay_records(l)
  PROVE  Repeated(l)
<1>1. PICK i \in DOMAIN l :
        /\ l[i].kind # "TxBegin"
        /\ \E j \in 1 .. i - 1 : l[j].kind \in Kind /\ l[j].tx = l[i].tx
  BY DEF LogShape, WellPlaced, map_tx_wal_replay_records
<1>2. PICK j \in 1 .. i - 1 : l[j].kind \in Kind /\ l[j].tx = l[i].tx
  BY <1>1
<1>3. l[i] \in LogRecord /\ j \in DOMAIN l /\ i # j
  BY <1>2
<1>4. l[i].kind \in Kind
  BY <1>1, <1>2, <1>3 DEF LogShape, WellPlaced, LogRecord, Kind
<1> QED
  BY <1>2, <1>3, <1>4 DEF Repeated

\* Appending a record keeps the shape.
LEMMA AppendShape ==
  ASSUME NEW l \in Seq(LogRecord), LogShape(l), NEW r \in LogRecord,
         r.kind = "TxBegin" => \A i \in DOMAIN l : l[i].tx # r.tx,
         r.kind # "TxBegin" => \E i \in DOMAIN l : l[i].tx = r.tx,
         r.kind = "Other" => \A i \in DOMAIN l : l[i].kind \in Kind => l[i].tx # r.tx
  PROVE  LogShape(Append(l, r))
<1> DEFINE m == Append(l, r)
<1>1. /\ DOMAIN m = 1 .. Len(l) + 1 /\ DOMAIN l = 1 .. Len(l) /\ Len(l) \in Nat
      /\ m[Len(l) + 1] = r /\ \A i \in 1 .. Len(l) : m[i] = l[i]
  OBVIOUS
<1> HIDE DEF m
<1>2. r.kind # "TxBegin" => \E j \in 1 .. Len(l) : l[j] = Rec("TxBegin", r.tx)
  <2> SUFFICES ASSUME r.kind # "TxBegin" PROVE \E j \in 1 .. Len(l) : l[j] = Rec("TxBegin", r.tx)
    OBVIOUS
  <2>1. PICK i \in DOMAIN l : l[i].tx = r.tx
    OBVIOUS
  <2>2. CASE l[i].kind = "TxBegin"
    <3>1. l[i] \in LogRecord
      BY <1>1
    <3>2. l[i] = Rec("TxBegin", r.tx)
      BY <3>1, <2>1, <2>2 DEF LogRecord, Rec
    <3> QED
      BY <3>2, <1>1
  <2>3. CASE l[i].kind # "TxBegin"
    <3>1. PICK j \in 1 .. i - 1 : l[j] = Rec("TxBegin", l[i].tx)
      BY <2>3 DEF LogShape, WellPlaced
    <3> QED
      BY <3>1, <2>1, <1>1
  <2> QED
    BY <2>2, <2>3
<1>3. ASSUME NEW i \in 1 .. Len(l) PROVE WellPlaced(m, i)
  <2>1. m[i] = l[i] /\ \A j \in 1 .. i - 1 : m[j] = l[j]
    BY <1>1
  <2>2. WellPlaced(l, i)
    BY <1>1 DEF LogShape
  <2> QED
    BY <2>1, <2>2, SamePlace
<1>4. WellPlaced(m, Len(l) + 1)
  <2>1. 1 .. (Len(l) + 1) - 1 = 1 .. Len(l)
    BY <1>1
  <2>2. \A j \in 1 .. Len(l) : m[j] = l[j] /\ j \in DOMAIN l
    BY <1>1
  <2> QED
    BY <1>1, <1>2, <2>1, <2>2 DEF WellPlaced
<1>5. LogShape(m)
  BY <1>1, <1>3, <1>4 DEF LogShape
<1> QED
  BY <1>5 DEF m

\* A prefix keeps the shape.
LEMMA PrefixShape ==
  ASSUME NEW l \in Seq(LogRecord), LogShape(l), NEW n \in 0 .. Len(l)
  PROVE  LogShape(SubSeq(l, 1, n))
<1> DEFINE m == SubSeq(l, 1, n)
<1>1. DOMAIN m = 1 .. n /\ DOMAIN l = 1 .. Len(l) /\ \A i \in 1 .. n : m[i] = l[i]
  OBVIOUS
<1> HIDE DEF m
<1>2. ASSUME NEW i \in 1 .. n PROVE WellPlaced(m, i)
  <2>1. m[i] = l[i] /\ \A j \in 1 .. i - 1 : m[j] = l[j]
    BY <1>1
  <2>2. WellPlaced(l, i)
    BY <1>1 DEF LogShape
  <2> QED
    BY <2>1, <2>2, SamePlace
<1>3. LogShape(m)
  BY <1>1, <1>2 DEF LogShape
<1> QED
  BY <1>3 DEF m

ShapeInv == LogShape(log) /\ RefusedOnlyAfterRetry

\* Every step keeps the shape of the log, and recovery refuses repeats only.
LEMMA ShapeStep ==
  ASSUME CommitInv, ShapeInv, [Next]_vars
  PROVE  ShapeInv'
<1>0. log \in Seq(LogRecord)
  BY DEF CommitInv, TypeOK
<1>1. ASSUME NEW r \in LogRecord, Wal!AppendRecord(r), mode = "open", mode' = mode,
             r.kind = "TxBegin" => \A i \in DOMAIN log : log[i].tx # r.tx,
             r.kind # "TxBegin" => \E i \in DOMAIN log : log[i].tx = r.tx,
             r.kind = "Other" => ~ HasTerminal(r.tx)
      PROVE  ShapeInv'
  <2>1. LogShape(Append(log, r))
    BY <1>0, <1>1, AppendShape DEF ShapeInv, HasTerminal
  <2> QED
    BY <1>1, <2>1 DEF ShapeInv, RefusedOnlyAfterRetry, Wal!AppendRecord
<1>2. CASE UNCHANGED <<log, mode>>
  BY <1>2 DEF ShapeInv, RefusedOnlyAfterRetry
<1>3. ASSUME NEW tx \in Tx, append_tx_begin(tx) PROVE ShapeInv'
  <2>1. Rec("TxBegin", tx) \in LogRecord /\ Rec("TxBegin", tx).kind = "TxBegin" /\ Rec("TxBegin", tx).tx = tx
    BY DEF Rec, LogRecord
  <2> QED
    BY <1>1, <1>3, <2>1 DEF append_tx_begin
<1>4. ASSUME NEW tx \in Tx, append_other(tx) PROVE ShapeInv'
  <2>1. Rec("Other", tx) \in LogRecord /\ Rec("Other", tx).kind = "Other" /\ Rec("Other", tx).tx = tx
    BY DEF Rec, LogRecord
  <2> QED
    BY <1>1, <1>4, <2>1 DEF append_other
<1>5. ASSUME NEW kind \in Kind, NEW tx \in Tx, append(kind, tx) PROVE ShapeInv'
  <2>1. Rec(kind, tx) \in LogRecord /\ Rec(kind, tx).kind \notin {"TxBegin", "Other"} /\ Rec(kind, tx).tx = tx
    BY DEF Rec, LogRecord, Kind
  <2> QED
    BY <1>1, <1>5, <2>1 DEF append
<1>6. ASSUME NEW lsn \in 0 .. MaxLsn, Crash(lsn) PROVE ShapeInv'
  <2>1. lsn \in 0 .. Len(log) /\ log' = SubSeq(log, 1, lsn) /\ mode' = "down"
    BY <1>6, <1>0 DEF Crash, Wal!Crash, CommitInv, TypeOK
  <2> QED
    BY <2>1, <1>0, PrefixShape DEF ShapeInv, RefusedOnlyAfterRetry
<1>7. CASE RecoveryRefused
  BY <1>7, <1>0, RefusalIsRepeat DEF RecoveryRefused, walVars, ShapeInv, RefusedOnlyAfterRetry
<1>8. CASE reconstruct_from_tx_wal_replay
  BY <1>8 DEF reconstruct_from_tx_wal_replay, walVars, ShapeInv, RefusedOnlyAfterRetry
<1>9. CASE \/ \E tx \in Tx : record_in_flight(tx) \/ gc_remove(tx)
           \/ \E kind \in Kind, tx \in Tx :
                ReturnExisting(kind, tx) \/ rebuild_status_for_transaction(kind, tx)
           \/ InsertEntry \/ Publish
           \/ \E lsn \in 0 .. MaxLsn : flush_through(lsn) \/ FlushFails(lsn)
  <2>1. UNCHANGED <<log, mode>>
    BY <1>9 DEF record_in_flight, gc_remove, ReturnExisting, rebuild_status_for_transaction,
       InsertEntry, Publish, flush_through, FlushFails, Wal!Flush, walVars
  <2> QED
    BY <2>1, <1>2
<1>10. CASE UNCHANGED vars
  BY <1>10, <1>2 DEF vars, walVars
<1> QED
  BY <1>3, <1>4, <1>5, <1>6, <1>7, <1>8, <1>9, <1>10 DEF Next, RecordTerminal

\* Recovery refuses a log only if some transaction has two terminal records in it.
THEOREM RefusalNeedsRetry == Spec => []RefusedOnlyAfterRetry
<1>1. Init => ShapeInv
  BY DEF Init, Wal!Init, ShapeInv, LogShape, RefusedOnlyAfterRetry
<1>2. CommitInv /\ ShapeInv /\ [Next]_vars => ShapeInv'
  BY ShapeStep
<1>3. ShapeInv => RefusedOnlyAfterRetry
  BY DEF ShapeInv
<1> QED
  BY <1>1, <1>2, <1>3, CommitLogInvariant, PTL DEF Spec
=============================================================================
