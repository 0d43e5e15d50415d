-------------------------- MODULE NestedSavepoints --------------------------
(***************************************************************************)
(* What savepoints promise, without ordinals or markers: a savepoint       *)
(* remembers the writes of the transaction at the moment it was created,   *)
(* and rolling back to it restores exactly those writes.  The savepoints   *)
(* of a transaction form a stack; a savepoint with a larger id was         *)
(* created later, inside the ones below it.                                *)
(***************************************************************************)
EXTENDS Integers

CONSTANTS Name,    \* savepoint names
          WriteId,  \* identities of writes
          Id        \* savepoint ids, integers

VARIABLES writes,   \* the writes that the transaction would commit
          saved     \* the active savepoints, each with the writes it remembers

vars == <<writes, saved>>

Init == writes = {} /\ saved = {}

Write == \E w \in WriteId \ writes : writes' = writes \cup {w} /\ UNCHANGED saved

Create(n) ==
  /\ \A s \in saved : s.name # n
  /\ \E i \in Id : /\ \A s \in saved : s.id < i
                    /\ saved' = saved \cup {[id |-> i, name |-> n, writes |-> writes]}
  /\ UNCHANGED writes

Release(s) ==
  /\ saved' = {d \in saved : d.id < s.id}
  /\ UNCHANGED writes

RollbackTo(s) ==
  /\ saved' = {d \in saved : d.id <= s.id}
  /\ writes' = s.writes

\* The whole transaction rolls back, or stops using its savepoints and commits.
Abort == writes' = {} /\ saved' = {}

Finish == saved' = {} /\ UNCHANGED writes

Next ==
  \/ Write
  \/ \E n \in Name : Create(n)
  \/ \E s \in saved : Release(s) \/ RollbackTo(s)
  \/ Abort
  \/ Finish

Spec == Init /\ [][Next]_vars
=============================================================================
