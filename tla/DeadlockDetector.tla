------------------------- MODULE DeadlockDetector --------------------------
(***************************************************************************)
(* The deadlock detection of crates/andromeda-locking over the lock table. *)
(* A coordinator asks for a decision: the lock table is cloned under its   *)
(* mutex, a wait-for graph is derived from the clone, a depth-first search *)
(* looks for a cycle in it, and one member of the cycle is suggested as    *)
(* victim.  The detector aborts nobody.  The coordinator does that, later, *)
(* while the transactions go on: a suggestion is about a past lock table.  *)
(*                                                                         *)
(* The coordinator and the transactions are external.  A transaction id is *)
(* used once; a transaction asks for locks while it does not wait, and may *)
(* release them, or leave a queue, until its final release_all.            *)
(***************************************************************************)
EXTENDS LockManager, Sequences

CONSTANTS StartOrder,     \* ordering metadata: transaction -> its start order
          victim_policy,  \* the victim policy of the detector
          Asked           \* bound: the lock requests that the transactions make

S == INSTANCE SequencesExt

VARIABLES ended,        \* transactions that have given up all their locks
          observed,     \* the graph of the decision in progress
          suggestion    \* the victim suggestion the coordinator has not yet acted on

detectorVars == <<vars, ended, observed, suggestion>>

NoSuggestion == [victim |-> 0, participants |-> {}]

DeadlockVictimPolicy ==
  {"YoungestTransactionStartOrder", "YoungestTransactionId", "OldestTransactionId"}

ASSUME DetectorAssumption ==
  /\ Tx \subseteq Nat \ {0}
  /\ DOMAIN StartOrder \subseteq Tx
  /\ \A t \in DOMAIN StartOrder : StartOrder[t] \in Nat \ {0}
  /\ victim_policy \in DeadlockVictimPolicy
  /\ Asked \subseteq Tx \X Resource \X Mode

-----------------------------------------------------------------------------
(* The wait-for graph (graph.rs): pairs of a waiting and a blocking one.   *)

from_lock_table_snapshot(table) ==
  UNION {UNION {{<<w.tx_id, h.tx_id>> : h \in BlockingHolders(table[r], w.tx_id, w.mode)} :
                w \in table[r].waiters} :
         r \in Resource}

Sorted(ids) == S!SetToSortSeq(ids, <)

blockers_for(graph, t) == Sorted({e[2] : e \in {f \in graph : f[1] = t}})
transaction_ids(graph) == Sorted({e[1] : e \in graph} \cup {e[2] : e \in graph})

-----------------------------------------------------------------------------
(* The search (cycle.rs).  Its state is the stack of the transactions being *)
(* visited, those that are done, and the cycle once one is found.  The      *)
(* transactions marked Visiting are those on the stack.                    *)

NothingVisited == [stack |-> <<>>, visited |-> {}, cycle |-> <<>>]

OnStack(s, t) == \E i \in 1 .. Len(s.stack) : s.stack[i] = t

StackFrom(s, t) ==
  SubSeq(s.stack, CHOOSE i \in 1 .. Len(s.stack) : s.stack[i] = t, Len(s.stack))

RECURSIVE dfs_cycle_from(_, _, _)

\* Mutant: a blocker that was already visited is not told from one on the stack.
VisitTakesVisitedForCycle(graph, s, t) ==
  CASE s.cycle # <<>>    -> s
    [] OnStack(s, t)     -> [s EXCEPT !.cycle = StackFrom(s, t)]
    [] t \in s.visited   -> [s EXCEPT !.cycle = s.stack]
    [] OTHER             -> dfs_cycle_from(graph, s, t)

\* One turn of the loop over the blockers, which returns at the first cycle.
VisitBlocker(graph, s, t) ==
  CASE s.cycle # <<>>    -> s
    [] OnStack(s, t)     -> [s EXCEPT !.cycle = StackFrom(s, t)]
    [] t \in s.visited   -> s
    [] OTHER             -> dfs_cycle_from(graph, s, t)

dfs_cycle_from(graph, s, t) ==
  LET entered == [s EXCEPT !.stack = Append(@, t)]
      done    == S!FoldLeft(LAMBDA r, b : VisitBlocker(graph, r, b),
                            entered, blockers_for(graph, t))
  IN  IF done.cycle # <<>>
      THEN done
      ELSE [done EXCEPT !.stack = s.stack, !.visited = @ \cup {t}]

find_first_cycle(graph) ==
  S!FoldLeft(LAMBDA s, t : IF s.cycle # <<>> \/ t \in s.visited THEN s
                           ELSE dfs_cycle_from(graph, s, t),
             NothingVisited, transaction_ids(graph)).cycle

-----------------------------------------------------------------------------
(* The victim (victim.rs) and the decision (detector.rs, api.rs).          *)

select_youngest_by_start_order(cycle) ==
  CHOOSE t \in cycle : \A u \in cycle :
    \/ StartOrder[u] < StartOrder[t]
    \/ StartOrder[u] = StartOrder[t] /\ u <= t

SelectVictim(cycle) ==
  CASE victim_policy = "YoungestTransactionStartOrder" -> select_youngest_by_start_order(cycle)
    [] victim_policy = "YoungestTransactionId" -> CHOOSE t \in cycle : \A u \in cycle : u <= t
    [] victim_policy = "OldestTransactionId"   -> CHOOSE t \in cycle : \A u \in cycle : t <= u

\* No cycle, and a cycle that is Deferred because the start order of a member is
\* not known, give the coordinator no victim.
detect(graph) ==
  LET cycle == S!ToSet(find_first_cycle(graph))
  IN  IF \/ cycle = {}
         \/ /\ victim_policy = "YoungestTransactionStartOrder"
            /\ ~ (cycle \subseteq DOMAIN StartOrder)
      THEN NoSuggestion
      ELSE [victim |-> SelectVictim(cycle), participants |-> cycle]

\* A decision starts: the lock table is cloned and the graph derived from the
\* clone.  The decision on an empty graph is NoCycle, which changes nothing.
ObserveLockManager ==
  /\ observed = {} /\ suggestion = NoSuggestion
  /\ observed' = from_lock_table_snapshot(entries)
  /\ UNCHANGED <<vars, ended, suggestion>>

\* Mutant: the deadline is taken for expired while it is not, so every decision
\* is TimedOut.
DecideTimesOut ==
  /\ observed # {}
  /\ observed' = {}
  /\ UNCHANGED <<vars, ended, suggestion>>

\* It ends, with the clock of the plain API, which stands still; an attempt with
\* a deadline may also end as TimedOut, with the same effect as NoCycle.
decide_deadlock ==
  /\ observed # {}
  /\ suggestion' = detect(observed)
  /\ observed' = {}
  /\ UNCHANGED <<vars, ended>>

-----------------------------------------------------------------------------
(* The coordinator and the transactions.                                   *)

Waiting(t) == \E r \in Resource : \E w \in entries[r].waiters : w.tx_id = t

\* The coordinator rolls the victim back and releases its locks.
AbortVictim ==
  /\ suggestion # NoSuggestion
  /\ release_all(suggestion.victim)
  /\ ended' = ended \cup {suggestion.victim}
  /\ suggestion' = NoSuggestion
  /\ UNCHANGED observed

\* A transaction asks for a lock.  One whose request is queued waits for it.
Request(t, r, m) ==
  /\ <<t, r, m>> \in Asked
  /\ t \notin ended /\ ~ Waiting(t)
  /\ acquire(t, r, m)
  /\ UNCHANGED <<ended, observed, suggestion>>

\* It commits or rolls back, perhaps because it got tired of waiting.
End(t) ==
  /\ t \notin ended
  /\ release_all(t)
  /\ ended' = ended \cup {t}
  /\ UNCHANGED <<observed, suggestion>>

\* It gives up one lock, or leaves one queue, early.
ReleaseOne(t, r) ==
  /\ t \notin ended
  /\ release(t, r)
  /\ UNCHANGED <<ended, observed, suggestion>>

EnsureEntry(r) ==
  /\ ensure_entry(r)
  /\ UNCHANGED <<ended, observed, suggestion>>

DetectorInit ==
  /\ Init
  /\ ended = {}
  /\ observed = {}
  /\ suggestion = NoSuggestion

DetectorNext ==
  \/ \E t \in Tx, r \in Resource, m \in Mode : Request(t, r, m)
  \/ \E t \in Tx : End(t)
  \/ \E t \in Tx, r \in Resource : ReleaseOne(t, r)
  \/ \E r \in Resource : EnsureEntry(r)
  \/ ObserveLockManager
  \/ decide_deadlock
  \/ AbortVictim

\* A transaction that waits for nothing comes to its end, and the coordinator
\* keeps asking for decisions and acts on what it is told.  A transaction that
\* waits is not assumed to give up.  The steps are named by what they change.
ComesToItsEnd(t) == t \notin ended /\ ~ Waiting(t) /\ ended' = ended \cup {t}
StartsDecision ==
  observed = {} /\ suggestion = NoSuggestion /\ observed' = from_lock_table_snapshot(entries)
FinishesDecision == observed # {} /\ observed' = {}
ActsOnSuggestion == suggestion # NoSuggestion /\ suggestion' = NoSuggestion

Fairness ==
  /\ \A t \in Tx : WF_ended(ComesToItsEnd(t))
  /\ WF_observed(StartsDecision)
  /\ WF_observed(FinishesDecision)
  /\ WF_suggestion(ActsOnSuggestion)

DetectorSpec == DetectorInit /\ [][DetectorNext]_detectorVars /\ Fairness

-----------------------------------------------------------------------------
(* Properties.                                                             *)

\* Who really waits for whom because of a lock that is held: t wants a mode that
\* u's lock excludes.
WaitsFor(t, u) ==
  \E r \in Resource : \E w \in entries[r].waiters, h \in entries[r].holders :
    /\ w.tx_id = t /\ h.tx_id = u /\ t # u
    /\ ~ is_compatible_with(h.mode, w.mode)

\* A circle: each of the transactions waits, over one or more steps inside the
\* set, for every other one of it.
InCycle(ids) ==
  /\ ids # {}
  /\ \A t \in ids : \E u \in ids : WaitsFor(t, u)
  /\ \A part \in SUBSET ids \ {{}, ids} :
       \E t \in part, u \in ids \ part : WaitsFor(t, u)

\* The search is right on every lock table that can arise: it finds a cycle
\* exactly if some set of transactions wait for each other in a circle, what it
\* reports is such a set, and the victim is its youngest member (by start order,
\* ties by id, when that is the policy).  Without the start order of a member a
\* cycle is Deferred instead.
DecisionIsRight ==
  LET d == detect(from_lock_table_snapshot(entries))
  IN  IF d = NoSuggestion
      THEN DOMAIN StartOrder = Tx => ~ \E ids \in SUBSET Tx : InCycle(ids)
      ELSE /\ InCycle(d.participants)
           /\ d.victim \in d.participants
           /\ victim_policy = "YoungestTransactionStartOrder" =>
                \A u \in d.participants \ {d.victim} :
                  \/ StartOrder[u] < StartOrder[d.victim]
                  \/ StartOrder[u] = StartOrder[d.victim] /\ u < d.victim

\* A suggestion does not go stale by itself.  The coordinator acts on a copy of
\* the lock table that others have changed since; but no grant, upgrade or
\* promotion, and no release by an outsider, opens the circle it was told of.
\* Only a member that gives up a lock or its place in a queue does.
OnlyMembersOpenCircles ==
  [][LET circle == suggestion.participants
     IN  InCycle(circle) /\ suggestion' = suggestion /\ ~ InCycle(circle)'
           => \E t \in circle : End(t) \/ \E r \in Resource : ReleaseOne(t, r)]_detectorVars

\* A request that waits although no held lock excludes it: only an older request
\* is in its way.  The wait-for graph has no edge for it.
BehindTheQueueOnly(t) ==
  \E r \in Resource : \E w \in entries[r].waiters :
    w.tx_id = t /\ BlockingHolders(entries[r], t, w.mode) = {}

\* Every transaction comes to an end, deadlocks included: they are found, and
\* breaking one lets the others go on.  The exception is a circle that closes
\* through a place in a queue, which no decision can see: then some transaction
\* is for ever in that position.
EveryTransactionEnds ==
  <>(ended = Tx) \/ <>[](\E t \in Tx : BehindTheQueueOnly(t))
=============================================================================
