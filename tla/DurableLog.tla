----------------------------- MODULE DurableLog -----------------------------
(***************************************************************************)
(* What a write-ahead log promises its users: records are appended in      *)
(* order, a flush makes a prefix durable, and a crash takes some suffix    *)
(* away but no durable record, and never leaves a hole or a record that    *)
(* was not appended.  What a crash leaves is durable.                      *)
(***************************************************************************)
EXTENDS Integers, Sequences

CONSTANT Record

VARIABLES log,       \* the records, at their LSNs 1, 2, ...
          durable    \* the LSN up to which no crash takes records away, 0 if none

vars == <<log, durable>>

Init == log = <<>> /\ durable = 0

AppendRecord(r) ==
  /\ log' = Append(log, r)
  /\ UNCHANGED durable

Flush(lsn) ==
  /\ durable' = lsn
  /\ UNCHANGED log

Crash(lsn) ==
  /\ log' = SubSeq(log, 1, lsn)
  /\ durable' = lsn

Next ==
  \/ \E r \in Record : AppendRecord(r)
  \/ \E lsn \in durable .. Len(log) : Flush(lsn) \/ Crash(lsn)

Spec == Init /\ [][Next]_vars
=============================================================================
