------------------------- MODULE TransactionProofs -------------------------
(***************************************************************************)
(* Proofs about LockManager, for any set of transactions and resources,    *)
(* and, at the end, about Savepoints, which shares no state with it, for   *)
(* any names and limits.                                                   *)
(***************************************************************************)
EXTENDS LockManager, Savepoints, FiniteSetTheorems, TLAPS

-----------------------------------------------------------------------------
(* Natural numbers.  Induction is stated over sets, so that the provers    *)
(* can instantiate it.                                                     *)

\* A non-empty set of naturals has a least element.
LEMMA NatHasMin ==
  ASSUME NEW S \in SUBSET Nat, S # {}
  PROVE  \E x \in S : \A y \in S : x <= y
<1>1. PICK x \in S : \A y \in S : ~ (<<y, x>> \in OpToRel(<, Nat))
  BY NatLessThanWellFounded, WFMin, Zenon
<1>2. \A y \in S : ~ (y < x)
  BY <1>1, Zenon DEF OpToRel
<1>3. \A y \in S : x <= y
  BY <1>2
<1> QED
  BY <1>3

\* Induction along the iterations 0 .. n of a loop.
LEMMA LoopInduction ==
  ASSUME NEW n \in Nat, NEW S,
         0 \in S,
         \A i \in 1 .. n : i - 1 \in S => i \in S
  PROVE  \A i \in 0 .. n : i \in S
<1> DEFINE T == {i \in 0 .. n : i \notin S}
<1>1. SUFFICES ASSUME T # {} PROVE FALSE
  OBVIOUS
<1>2. PICK x \in T : \A y \in T : x <= y
  <2>1. T \in SUBSET Nat
    OBVIOUS
  <2> HIDE DEF T
  <2> QED BY <1>1, <2>1, NatHasMin
<1>3. x \in 1 .. n /\ x - 1 \in 0 .. n /\ ~(x <= x - 1)
  OBVIOUS
<1>4. x - 1 \in S
  BY <1>2, <1>3
<1> QED
  BY <1>3, <1>4

\* A non-empty set of naturals with an upper bound has a greatest element.
LEMMA NatHasMax ==
  ASSUME NEW n \in Nat, NEW S \in SUBSET (0 .. n), S # {}
  PROVE  \E x \in S : \A y \in S : y <= x
<1>0. \A y \in S : y \in Int /\ 0 <= y /\ y <= n /\ n - y \in Nat
  OBVIOUS
<1> DEFINE T == {n - y : y \in S}
<1>1. T \in SUBSET Nat /\ T # {}
  BY <1>0
<1>2. PICK t \in T : \A u \in T : t <= u
  <2> HIDE DEF T
  <2> QED BY <1>1, NatHasMin
<1>3. PICK x \in S : t = n - x
  OBVIOUS
<1>4. \A y \in S : n - y \in T
  OBVIOUS
<1>5. \A y \in S : n - x <= n - y
  BY <1>2, <1>3, <1>4
<1>6. \A y \in S : y <= x
  BY <1>0, <1>5
<1> QED
  BY <1>6

-----------------------------------------------------------------------------
(* The mode tables.                                                        *)

\* Compatibility does not depend on who came first.
LEMMA CompatibleSymmetric ==
  ASSUME NEW a \in LockMode, NEW b \in LockMode
  PROVE  is_compatible_with(a, b) <=> is_compatible_with(b, a)
BY DEF is_compatible_with, CompatibleModes, LockMode

\* An upgrade only adds conflicts.
LEMMA UpgradeKeepsConflicts ==
  ASSUME NEW a \in LockMode, NEW b \in LockMode, NEW c \in LockMode,
         is_v0_upgrade(a, b), ~ is_compatible_with(a, c)
  PROVE  ~ is_compatible_with(b, c)
BY DEF is_compatible_with, CompatibleModes, LockMode, is_v0_upgrade

-----------------------------------------------------------------------------
(* The promotion loop.                                                     *)

\* What the loop relies on and keeps.
EntryInv(e) ==
  /\ e \in LockEntry
  /\ IsFiniteSet(e.waiters)
  /\ HoldersExclude(e)
  /\ HoldersUnique(e)
  /\ QueueOrdered(e)

\* A non-empty queue has a front.
LEMMA FrontExists ==
  ASSUME NEW e \in LockEntry, e.waiters # {}
  PROVE  Front(e) \in e.waiters /\ \A v \in e.waiters : Front(e).sequence <= v.sequence
<1> DEFINE S == {w.sequence : w \in e.waiters}
<1>1. S \in SUBSET Nat /\ S # {}
  BY SequenceAssumption DEF LockEntry, LockWaiter
<1>2. PICK x \in S : \A y \in S : x <= y
  <2> HIDE DEF S
  <2> QED BY <1>1, NatHasMin
<1>3. \E w \in e.waiters : \A v \in e.waiters : w.sequence <= v.sequence
  BY <1>2
<1> QED
  BY <1>3 DEF Front

\* HeldBy names a record of the transaction, where there is one.
LEMMA HolderExists ==
  ASSUME NEW e, NEW t, Holds(e, t)
  PROVE  HeldBy(e, t) \in e.holders /\ HeldBy(e, t).tx_id = t
BY DEF Holds, HeldBy

\* Promoting a waiter that no other holder excludes keeps holders compatible
\* and one record per transaction.
LEMMA PromoteWaiterKeeps ==
  ASSUME NEW e, EntryInv(e), NEW w \in e.waiters,
         waiter_is_compatible_with_holders(e, w),
         NEW hs, hs = promote_waiter_to_holder(e, w)
  PROVE  /\ hs \in SUBSET LockHolder
         /\ \A g, h \in hs : g.tx_id # h.tx_id => is_compatible_with(g.mode, h.mode)
         /\ \A g, h \in hs : g.tx_id = h.tx_id => g = h
<1> DEFINE n == [tx_id |-> w.tx_id, mode |-> w.mode]
<1>1. /\ w.tx_id \in Tx /\ w.mode \in Mode /\ n \in LockHolder
      /\ n.tx_id = w.tx_id /\ n.mode = w.mode
  BY DEF EntryInv, LockEntry, LockWaiter, LockHolder
<1>2. \A h \in e.holders : h \in LockHolder /\ h.mode \in LockMode /\ h.tx_id \in Tx
  BY ModeAssumption DEF EntryInv, LockEntry, LockHolder
<1>3. \A h \in e.holders : h.tx_id # n.tx_id =>
        is_compatible_with(h.mode, n.mode) /\ is_compatible_with(n.mode, h.mode)
  BY <1>1, <1>2, CompatibleSymmetric, ModeAssumption DEF waiter_is_compatible_with_holders
<1>4. /\ \A g, h \in e.holders : g.tx_id # h.tx_id => is_compatible_with(g.mode, h.mode)
      /\ \A g, h \in e.holders : g.tx_id = h.tx_id => g = h
  BY DEF EntryInv, HoldersExclude, HoldersUnique
<1>5. CASE hs = e.holders
  BY <1>2, <1>4, <1>5
<1>6. CASE hs # e.holders
  <2>1. \E k \in SUBSET e.holders : hs = k \cup {n} /\ \A h \in k : h.tx_id # n.tx_id
    <3>1. CASE Holds(e, w.tx_id)
      <4>1. hs = (e.holders \ {HeldBy(e, w.tx_id)}) \cup {n}
        BY <1>6, <3>1 DEF promote_waiter_to_holder
      <4>2. \A h \in e.holders \ {HeldBy(e, w.tx_id)} : h.tx_id # n.tx_id
        BY <1>1, <1>4, <3>1, HolderExists
      <4> QED BY <4>1, <4>2
    <3>2. CASE ~ Holds(e, w.tx_id)
      <4>1. hs = e.holders \cup {n}
        BY <1>6, <3>2 DEF promote_waiter_to_holder
      <4>2. \A h \in e.holders : h.tx_id # n.tx_id
        BY <1>1, <3>2 DEF Holds
      <4> QED BY <4>1, <4>2
    <3> QED BY <3>1, <3>2
  <2> HIDE DEF n
  <2> QED BY <1>1, <1>2, <1>3, <1>4, <2>1
<1> QED
  BY <1>5, <1>6

\* One iteration keeps the entry well formed and takes one waiter off the queue.
LEMMA PromoteFrontKeeps ==
  ASSUME NEW e, EntryInv(e)
  PROVE  /\ EntryInv(PromoteFront(e))
         /\ PromoteFront(e).waiters \subseteq e.waiters
         /\ FrontCanBePromoted(e) =>
              Cardinality(PromoteFront(e).waiters) = Cardinality(e.waiters) - 1
<1>1. CASE ~ FrontCanBePromoted(e)
  BY <1>1 DEF PromoteFront
<1>2. CASE FrontCanBePromoted(e)
  <2> DEFINE w == Front(e)
             hs == promote_waiter_to_holder(e, w)
             f == [holders |-> hs, waiters |-> e.waiters \ {w}]
  <2>1. PromoteFront(e) = f
    BY <1>2 DEF PromoteFront
  <2>2. w \in e.waiters /\ waiter_is_compatible_with_holders(e, w)
    BY <1>2, FrontExists DEF FrontCanBePromoted, EntryInv
  <2>3. /\ hs \in SUBSET LockHolder
        /\ \A g, h \in hs : g.tx_id # h.tx_id => is_compatible_with(g.mode, h.mode)
        /\ \A g, h \in hs : g.tx_id = h.tx_id => g = h
    BY <2>2, PromoteWaiterKeeps
  <2>4. /\ IsFiniteSet(e.waiters \ {w})
        /\ Cardinality(e.waiters \ {w}) = Cardinality(e.waiters) - 1
    BY <2>2, FS_RemoveElement DEF EntryInv
  <2> HIDE DEF hs, w
  <2>5. f.holders = hs /\ f.waiters = e.waiters \ {w}
    OBVIOUS
  <2>6. f \in LockEntry
    BY <2>3 DEF EntryInv, LockEntry
  <2>7. QueueOrdered(f)
    BY <2>5 DEF EntryInv, QueueOrdered
  <2>8. HoldersExclude(f) /\ HoldersUnique(f)
    BY <2>3, <2>5 DEF HoldersExclude, HoldersUnique
  <2> HIDE DEF f
  <2> QED BY <2>1, <2>4, <2>5, <2>6, <2>7, <2>8 DEF EntryInv
<1> QED
  BY <1>1, <1>2

\* From e to f, waiters left the queue in its order, and every new holder is one
\* of them.
FromTheFront(e, f) ==
  /\ \A v \in e.waiters \ f.waiters : \A w \in f.waiters : v.sequence < w.sequence
  /\ \A h \in f.holders \ e.holders :
       \E v \in e.waiters \ f.waiters : v.tx_id = h.tx_id /\ v.mode = h.mode

\* An iteration takes the next waiter from the front, so it keeps that.
LEMMA PromoteFrontInOrder ==
  ASSUME NEW e, NEW g, EntryInv(g), g.waiters \subseteq e.waiters, FromTheFront(e, g)
  PROVE  FromTheFront(e, PromoteFront(g))
<1>1. CASE ~ FrontCanBePromoted(g)
  BY <1>1 DEF PromoteFront
<1>2. CASE FrontCanBePromoted(g)
  <2> DEFINE w == Front(g)
             n == [tx_id |-> w.tx_id, mode |-> w.mode]
             f == PromoteFront(g)
  <2>1. w \in g.waiters /\ \A v \in g.waiters : w.sequence <= v.sequence
    BY <1>2, FrontExists DEF FrontCanBePromoted, EntryInv
  <2>2. f.waiters = g.waiters \ {w} /\ f.holders \subseteq g.holders \cup {n}
    BY <1>2 DEF PromoteFront, promote_waiter_to_holder
  <2>3. \A v \in g.waiters : v.sequence \in Nat /\ (v.sequence = w.sequence => v = w)
    BY <2>1, SequenceAssumption DEF EntryInv, LockEntry, LockWaiter, QueueOrdered
  <2>4. \A v \in g.waiters \ {w} : w.sequence < v.sequence
    BY <2>1, <2>3
  <2>5. n.tx_id = w.tx_id /\ n.mode = w.mode
    OBVIOUS
  <2> HIDE DEF w, n, f
  <2>6. \A v \in e.waiters \ f.waiters : v = w \/ v \in e.waiters \ g.waiters
    BY <2>2
  <2>7. \A v \in e.waiters \ f.waiters : \A u \in f.waiters : v.sequence < u.sequence
    BY <2>2, <2>4, <2>6 DEF FromTheFront
  <2>8. \A h \in f.holders \ e.holders :
          \E v \in e.waiters \ f.waiters : v.tx_id = h.tx_id /\ v.mode = h.mode
    <3>1. TAKE h \in f.holders \ e.holders
    <3>2. CASE h = n
      BY <2>1, <2>2, <2>5, <3>2
    <3>3. CASE h # n
      BY <2>2, <3>1, <3>3 DEF FromTheFront
    <3> QED BY <3>2, <3>3
  <2> QED BY <2>7, <2>8 DEF FromTheFront, f
<1> QED
  BY <1>1, <1>2

\* The run of the loop exists: the recursive function is the function that its
\* equation describes.
LEMMA RunExists ==
  ASSUME NEW e, NEW n \in Nat
  PROVE  \E g : g = [i \in 0 .. n |-> IF i = 0 THEN e ELSE PromoteFront(g[i - 1])]
<1> DEFINE IsRun(g, k) == g = [i \in 0 .. k |-> IF i = 0 THEN e ELSE PromoteFront(g[i - 1])]
           S == {k \in 0 .. n : \E g : IsRun(g, k)}
<1>1. 0 \in S
  <2>1. IsRun([i \in 0 .. 0 |-> e], 0)
    OBVIOUS
  <2>2. \E g : IsRun(g, 0)
    BY <2>1
  <2> HIDE DEF IsRun
  <2> QED BY <2>2
<1>2. \A k \in 1 .. n : k - 1 \in S => k \in S
  <2>1. SUFFICES ASSUME NEW k \in 1 .. n, NEW g, IsRun(g, k - 1)
                 PROVE  \E h : IsRun(h, k)
    OBVIOUS
  <2> DEFINE h == [i \in 0 .. k |-> IF i = k THEN PromoteFront(g[k - 1]) ELSE g[i]]
  <2>2. \A i \in 0 .. k : h[i] = IF i = 0 THEN e ELSE PromoteFront(h[i - 1])
    <3>1. \A i \in 0 .. k - 1 : h[i] = g[i]
      OBVIOUS
    <3>2. \A i \in 0 .. k - 1 : g[i] = IF i = 0 THEN e ELSE PromoteFront(g[i - 1])
      BY <2>1
    <3>3. h[k] = PromoteFront(g[k - 1])
      OBVIOUS
    <3> HIDE DEF h
    <3> QED BY <3>1, <3>2, <3>3
  <2>3. IsRun(h, k)
    BY <2>2
  <2> QED BY <2>3
<1>3. n \in S
  <2> HIDE DEF S
  <2> QED BY <1>1, <1>2, LoopInduction
<1> QED
  BY <1>3

\* promote_compatible_waiters keeps the entry well formed, only takes waiters
\* off the queue, in its order, and stops at a front that somebody blocks.
LEMMA PromotionLoop ==
  ASSUME NEW e, EntryInv(e), NEW f, f = promote_compatible_waiters(e)
  PROVE  /\ EntryInv(f) /\ f.waiters \subseteq e.waiters /\ FrontBlocked(f)
         /\ FromTheFront(e, f)
<1> DEFINE n == Cardinality(e.waiters)
           run == CHOOSE g : g = [i \in 0 .. n |-> IF i = 0 THEN e ELSE PromoteFront(g[i - 1])]
           Inv(i) == /\ EntryInv(run[i])
                     /\ run[i].waiters \subseteq e.waiters
                     /\ FromTheFront(e, run[i])
                     /\ FrontCanBePromoted(run[i]) => Cardinality(run[i].waiters) = n - i
           S == {i \in 0 .. n : Inv(i)}
<1>1. n \in Nat
  BY FS_CardinalityType DEF EntryInv
<1>2. f = run[n]
  BY DEF promote_compatible_waiters
<1>3. run = [i \in 0 .. n |-> IF i = 0 THEN e ELSE PromoteFront(run[i - 1])]
  <2> HIDE DEF n
  <2> QED BY <1>1, RunExists
<1> HIDE DEF run
<1>4. 0 \in S
  <2>1. run[0] = e /\ FromTheFront(e, e)
    BY <1>1, <1>3 DEF FromTheFront
  <2> QED BY <1>1, <2>1
<1>5. \A i \in 1 .. n : i - 1 \in S => i \in S
  <2>1. SUFFICES ASSUME NEW i \in 1 .. n, Inv(i - 1) PROVE Inv(i)
    BY <1>1
  <2>2. run[i] = PromoteFront(run[i - 1])
    BY <1>1, <1>3
  <2>3. CASE FrontCanBePromoted(run[i - 1])
    <3>1. Cardinality(run[i].waiters) = n - i
      BY <1>1, <2>1, <2>2, <2>3, PromoteFrontKeeps
    <3>2. FromTheFront(e, run[i])
      BY <2>1, <2>2, PromoteFrontInOrder
    <3> QED BY <2>1, <2>2, <3>1, <3>2, PromoteFrontKeeps
  <2>4. CASE ~ FrontCanBePromoted(run[i - 1])
    BY <2>1, <2>2, <2>4 DEF PromoteFront
  <2> QED BY <2>3, <2>4
<1>6. Inv(n)
  <2>1. \A i \in 0 .. n : i \in S
    <3> HIDE DEF S, n
    <3> QED BY <1>1, <1>4, <1>5, LoopInduction
  <2> QED BY <1>1, <2>1
<1>7. FrontBlocked(f)
  BY <1>1, <1>2, <1>6, FS_EmptySet DEF EntryInv, FrontCanBePromoted, FrontBlocked
<1> QED
  BY <1>2, <1>6, <1>7
-----------------------------------------------------------------------------
(* What each operation does to the entry it changes.                       *)

EntryOK(e) == EntryInv(e) /\ FrontBlocked(e)

\* Granting to a transaction that holds nothing here and excludes nobody.
LEMMA GrantKeeps ==
  ASSUME NEW e, EntryOK(e), NEW t \in Tx, NEW m \in Mode,
         ~ Holds(e, t), ~ MustWait(e, t, m),
         NEW f, f = [e EXCEPT !.holders = @ \cup {[tx_id |-> t, mode |-> m]}]
  PROVE  EntryOK(f)
<1> DEFINE n == [tx_id |-> t, mode |-> m]
<1>1. n \in LockHolder /\ n.tx_id = t /\ n.mode = m
  BY DEF LockHolder
<1>2. f.holders = e.holders \cup {n} /\ f.waiters = e.waiters /\ f \in LockEntry
  BY <1>1 DEF EntryOK, EntryInv, LockEntry
<1>3. \A h \in e.holders : /\ h.tx_id # t
                          /\ is_compatible_with(h.mode, m)
                          /\ is_compatible_with(m, h.mode)
  BY CompatibleSymmetric, ModeAssumption
     DEF EntryOK, EntryInv, LockEntry, LockHolder, Holds, MustWait, BlockingHolders
<1> HIDE DEF n
<1>4. HoldersExclude(f) /\ HoldersUnique(f)
  BY <1>1, <1>2, <1>3 DEF EntryOK, EntryInv, HoldersExclude, HoldersUnique
<1>5. FrontBlocked(f)
  BY <1>2 DEF EntryOK, FrontBlocked, Front, waiter_is_compatible_with_holders
<1> QED
  BY <1>2, <1>4, <1>5 DEF EntryOK, EntryInv, QueueOrdered

\* Upgrading a holder in place: whom the old mode blocked stays blocked.
LEMMA UpgradeKeeps ==
  ASSUME NEW e, EntryOK(e), NEW t \in Tx, NEW m \in Mode,
         Holds(e, t), ~ HeldOrNotConvertible(e, t, m), ~ MustWait(e, t, m),
         NEW f, f = [e EXCEPT !.holders =
                       (@ \ {HeldBy(e, t)}) \cup {[tx_id |-> t, mode |-> m]}]
  PROVE  EntryOK(f)
<1> DEFINE n == [tx_id |-> t, mode |-> m]
           k == HeldBy(e, t)
<1>1. n \in LockHolder /\ n.tx_id = t /\ n.mode = m
  BY DEF LockHolder
<1>2. f.holders = (e.holders \ {k}) \cup {n} /\ f.waiters = e.waiters /\ f \in LockEntry
  BY <1>1 DEF EntryOK, EntryInv, LockEntry
<1>3. k \in e.holders /\ k.tx_id = t /\ is_v0_upgrade(k.mode, m)
  BY HolderExists DEF HeldOrNotConvertible
<1>4. \A h \in e.holders : h \in LockHolder /\ h.mode \in LockMode
  BY ModeAssumption DEF EntryOK, EntryInv, LockEntry, LockHolder
<1>5. \A h \in e.holders \ {k} : /\ h.tx_id # t
                                /\ is_compatible_with(h.mode, m)
                                /\ is_compatible_with(m, h.mode)
  BY <1>3, <1>4, CompatibleSymmetric, ModeAssumption
     DEF EntryOK, EntryInv, HoldersUnique, MustWait, BlockingHolders
<1> HIDE DEF n, k
<1>6. HoldersExclude(f) /\ HoldersUnique(f)
  BY <1>1, <1>2, <1>5 DEF EntryOK, EntryInv, HoldersExclude, HoldersUnique
<1>7. FrontBlocked(f)
  <2>1. SUFFICES ASSUME e.waiters # {}
                 PROVE  ~ waiter_is_compatible_with_holders(f, Front(f))
    BY <1>2 DEF FrontBlocked
  <2>2. Front(f) = Front(e) /\ Front(e) \in e.waiters
    BY <1>2, <2>1, FrontExists DEF Front, EntryOK, EntryInv
  <2>3. Front(e).mode \in LockMode
    BY <2>2, ModeAssumption DEF EntryOK, EntryInv, LockEntry, LockWaiter
  <2>4. PICK h \in e.holders : h.tx_id # Front(e).tx_id
                              /\ ~ is_compatible_with(h.mode, Front(e).mode)
    BY <2>1 DEF EntryOK, FrontBlocked, waiter_is_compatible_with_holders
  <2>5. CASE h = k
    <3>1. ~ is_compatible_with(m, Front(e).mode)
      BY <1>3, <1>4, <2>3, <2>4, <2>5, UpgradeKeepsConflicts, ModeAssumption
    <3> QED BY <1>1, <1>2, <1>3, <2>2, <2>4, <2>5, <3>1
            DEF waiter_is_compatible_with_holders
  <2>6. CASE h # k
    BY <1>2, <2>2, <2>4, <2>6 DEF waiter_is_compatible_with_holders
  <2> QED BY <2>5, <2>6
<1> QED
  BY <1>2, <1>6, <1>7 DEF EntryOK, EntryInv, QueueOrdered

\* Queueing a request that has to wait, behind all the others.
LEMMA EnqueueKeeps ==
  ASSUME NEW e, EntryOK(e), NEW t \in Tx, NEW m \in Mode, NEW q \in 1 .. MaxSequence,
         \A v \in e.waiters : v.sequence < q,
         ~ AlreadyWaiting(e, t, m), MustWait(e, t, m),
         NEW f, f = [e EXCEPT !.waiters =
                       @ \cup {[tx_id |-> t, mode |-> m, sequence |-> q]}]
  PROVE  EntryOK(f)
<1> DEFINE n == [tx_id |-> t, mode |-> m, sequence |-> q]
<1>1. n \in LockWaiter /\ n.tx_id = t /\ n.mode = m /\ n.sequence = q
  BY DEF LockWaiter
<1>2. f.holders = e.holders /\ f.waiters = e.waiters \cup {n} /\ f \in LockEntry
  BY <1>1 DEF EntryOK, EntryInv, LockEntry
<1> HIDE DEF n
<1>3. IsFiniteSet(f.waiters)
  <2>1. IsFiniteSet(e.waiters)
    BY DEF EntryOK, EntryInv
  <2>2. IsFiniteSet(e.waiters \cup {n})
    BY <2>1, FS_AddElement
  <2> QED BY <1>2, <2>2
<1>4. \A v \in e.waiters : v.sequence \in Nat /\ v.sequence # q
  BY SequenceAssumption DEF EntryOK, EntryInv, LockEntry, LockWaiter
<1>5. QueueOrdered(f)
  BY <1>1, <1>2, <1>4 DEF EntryOK, EntryInv, QueueOrdered, AlreadyWaiting
<1>6. Front(f) \in f.waiters /\ \A v \in f.waiters : Front(f).sequence <= v.sequence
  BY <1>2, FrontExists
<1>7. FrontBlocked(f)
  <2>1. CASE e.waiters = {}
    <3>1. Front(f) = n /\ BlockingHolders(e, t, m) # {}
      BY <1>2, <1>6, <2>1 DEF MustWait, HasOlderIncompatibleWaiter
    <3> QED BY <1>1, <1>2, <3>1
            DEF FrontBlocked, BlockingHolders, waiter_is_compatible_with_holders
  <2>2. CASE e.waiters # {}
    <3>1. /\ Front(e) \in e.waiters
          /\ \A v \in e.waiters : Front(e).sequence <= v.sequence
      BY <2>2, FrontExists DEF EntryOK, EntryInv
    <3>2. Front(f) # n
      BY <1>1, <1>2, <1>4, <1>6, <3>1
    <3>3. Front(f).sequence = Front(e).sequence
      <4>1. Front(f) \in e.waiters /\ Front(e) \in f.waiters
        BY <1>2, <1>6, <3>1, <3>2
      <4>2. Front(f).sequence \in Nat /\ Front(e).sequence \in Nat
        BY <1>4, <3>1, <4>1
      <4>3. Front(f).sequence <= Front(e).sequence /\ Front(e).sequence <= Front(f).sequence
        BY <1>6, <3>1, <4>1
      <4> QED BY <4>2, <4>3
    <3>4. Front(f) = Front(e)
      BY <1>2, <1>6, <3>1, <3>2, <3>3 DEF EntryOK, EntryInv, QueueOrdered
    <3> QED BY <1>2, <2>2, <3>4
            DEF EntryOK, FrontBlocked, waiter_is_compatible_with_holders
  <2> QED BY <2>1, <2>2
<1> QED
  BY <1>2, <1>3, <1>5, <1>7 DEF EntryOK, EntryInv, HoldersExclude, HoldersUnique

\* Releasing: the entry without the transaction's records, then promotion.
LEMMA ReleaseKeeps ==
  ASSUME NEW e, EntryOK(e), NEW t \in Tx
  PROVE  EntryOK(Released(e, t)) /\ Released(e, t).waiters \subseteq e.waiters
<1> DEFINE f == Retain(e, t)
<1>1. CASE f = e
  BY <1>1 DEF Released
<1>2. CASE f # e
  <2>1. f.holders \subseteq e.holders /\ f.waiters \subseteq e.waiters /\ f \in LockEntry
    BY DEF Retain, EntryOK, EntryInv, LockEntry
  <2>2. IsFiniteSet(f.waiters)
    BY <2>1, FS_Subset DEF EntryOK, EntryInv
  <2> HIDE DEF f
  <2>3. EntryInv(f)
    BY <2>1, <2>2 DEF EntryOK, EntryInv, HoldersExclude, HoldersUnique, QueueOrdered
  <2>4. Released(e, t) = promote_compatible_waiters(f)
    BY <1>2 DEF Released, f
  <2> QED BY <2>1, <2>3, <2>4, PromotionLoop DEF EntryOK
<1> QED
  BY <1>1, <1>2
-----------------------------------------------------------------------------
(* The inductive invariant.                                                *)

\* The invariant of the tables, entry by entry.
LEMMA LockInvEntries ==
  ASSUME LockInv
  PROVE  /\ \A r \in Resource : EntryOK(entries[r])
         /\ \A r \in Resource : \A w \in entries[r].waiters : w.sequence <= next_sequence
         /\ \A r \in Resource : entries[r] # EmptyEntry => r \in tracked
         /\ next_sequence \in 0 .. MaxSequence
         /\ tracked \subseteq Resource
         /\ DOMAIN entries = Resource
BY DEF LockInv, TypeOK, MutualExclusion, OneHolderPerTx, NoLostWakeup, QueueWellFormed,
       TrackedWhileInUse, EntryOK, EntryInv

\* The same facts about the next state are LockInv there.
LEMMA EntriesLockInv ==
  ASSUME DOMAIN entries' = Resource,
         entries' = [r \in Resource |-> entries'[r]],
         \A r \in Resource : EntryOK(entries'[r]),
         \A r \in Resource : \A w \in entries'[r].waiters : w.sequence <= next_sequence',
         \A r \in Resource : entries'[r] # EmptyEntry => r \in tracked',
         next_sequence' \in 0 .. MaxSequence,
         tracked' \subseteq Resource
  PROVE  LockInv'
BY DEF LockInv, TypeOK, MutualExclusion, OneHolderPerTx, NoLostWakeup, QueueWellFormed,
       TrackedWhileInUse, EntryOK, EntryInv

\* A new lock manager satisfies the invariant.
LEMMA InitLockInv == Init => LockInv
<1>1. IsFiniteSet({})
  BY FS_EmptySet
<1> QED
  BY <1>1, SequenceAssumption
     DEF Init, LockInv, TypeOK, MutualExclusion, OneHolderPerTx, NoLostWakeup,
         QueueWellFormed, TrackedWhileInUse, EmptyEntry, LockEntry, HoldersExclude,
         HoldersUnique, FrontBlocked, QueueOrdered

\* Every call keeps the invariant.
LEMMA NextLockInv == LockInv /\ [Next]_vars => LockInv'
<1> SUFFICES ASSUME LockInv, [Next]_vars PROVE LockInv'
  OBVIOUS
<1>a. /\ \A r \in Resource : EntryOK(entries[r])
      /\ \A r \in Resource : \A w \in entries[r].waiters : w.sequence <= next_sequence
      /\ \A r \in Resource : entries[r] # EmptyEntry => r \in tracked
      /\ next_sequence \in 0 .. MaxSequence
      /\ tracked \subseteq Resource
      /\ DOMAIN entries = Resource
      /\ entries = [r \in Resource |-> entries[r]]
  BY LockInvEntries DEF LockInv, TypeOK
<1>b. \A r \in Resource : \A w \in entries[r].waiters : w.sequence \in Nat
  BY <1>a, SequenceAssumption DEF EntryOK, EntryInv, LockEntry, LockWaiter
<1>1. ASSUME NEW t \in Tx, NEW r \in Resource, NEW m \in Mode, AcquireGranted(t, r, m)
      PROVE  LockInv'
  <2> DEFINE f == [entries[r] EXCEPT !.holders = @ \cup {[tx_id |-> t, mode |-> m]}]
  <2>1. EntryOK(f) /\ f.waiters = entries[r].waiters
    <3>1. f.waiters = entries[r].waiters
      BY <1>a DEF EntryOK, EntryInv, LockEntry
    <3> QED BY <1>1, <1>a, <3>1, GrantKeeps DEF AcquireGranted
  <2>2. /\ entries' = [entries EXCEPT ![r] = f]
        /\ tracked' = tracked \cup {r} /\ next_sequence' = next_sequence
    BY <1>1 DEF AcquireGranted
  <2> HIDE DEF f
  <2> QED BY <1>a, <2>1, <2>2, EntriesLockInv
<1>2. ASSUME NEW t \in Tx, NEW r \in Resource, NEW m \in Mode, AcquireUpgraded(t, r, m)
      PROVE  LockInv'
  <2> DEFINE f == [entries[r] EXCEPT !.holders =
                     (@ \ {HeldBy(entries[r], t)}) \cup {[tx_id |-> t, mode |-> m]}]
  <2>1. EntryOK(f) /\ f.waiters = entries[r].waiters
    <3>1. f.waiters = entries[r].waiters
      BY <1>a DEF EntryOK, EntryInv, LockEntry
    <3> QED BY <1>2, <1>a, <3>1, UpgradeKeeps DEF AcquireUpgraded
  <2>2. /\ entries' = [entries EXCEPT ![r] = f]
        /\ tracked' = tracked /\ next_sequence' = next_sequence
    BY <1>2 DEF AcquireUpgraded
  <2>3. r \in tracked
    BY <1>2, <1>a DEF AcquireUpgraded, Holds, EmptyEntry
  <2> HIDE DEF f
  <2> QED BY <1>a, <2>1, <2>2, <2>3, EntriesLockInv
<1>3. ASSUME NEW t \in Tx, NEW r \in Resource, NEW m \in Mode, AcquireWaiting(t, r, m)
      PROVE  LockInv'
  <2> DEFINE q == next_sequence + 1
             n == [tx_id |-> t, mode |-> m, sequence |-> q]
             f == [entries[r] EXCEPT !.waiters = @ \cup {n}]
  <2>1. q \in 1 .. MaxSequence /\ \A v \in entries[r].waiters : v.sequence < q
    BY <1>3, <1>a, <1>b, SequenceAssumption DEF AcquireWaiting
  <2>2. EntryOK(f)
    <3> HIDE DEF q
    <3> QED BY <1>3, <1>a, <2>1, EnqueueKeeps DEF AcquireWaiting, MustEnqueue
  <2>3. f.waiters = entries[r].waiters \cup {n} /\ n.sequence = q
    BY <1>a DEF EntryOK, EntryInv, LockEntry
  <2>4. /\ entries' = [entries EXCEPT ![r] = f]
        /\ tracked' = tracked \cup {r} /\ next_sequence' = q
    BY <1>3 DEF AcquireWaiting
  <2> HIDE DEF f, n
  <2>5. \A w \in entries'[r].waiters : w.sequence <= next_sequence'
    BY <1>a, <1>b, <2>1, <2>3, <2>4
  <2>6. \A s \in Resource : \A w \in entries'[s].waiters : w.sequence <= next_sequence'
    BY <1>a, <1>b, <2>4, <2>5
  <2> HIDE DEF q
  <2> QED BY <1>a, <2>1, <2>2, <2>4, <2>6, EntriesLockInv
<1>4. ASSUME NEW t \in Tx, NEW r \in Resource, release(t, r)
      PROVE  LockInv'
  <2> DEFINE f == Released(entries[r], t)
  <2>1. EntryOK(f) /\ f.waiters \subseteq entries[r].waiters
    BY <1>a, ReleaseKeeps
  <2>2. /\ entries' = [entries EXCEPT ![r] = f]
        /\ tracked' = IF f = EmptyEntry THEN tracked \ {r} ELSE tracked
        /\ next_sequence' = next_sequence /\ r \in tracked
    BY <1>4 DEF release
  <2> HIDE DEF f
  <2> QED BY <1>a, <2>1, <2>2, EntriesLockInv
<1>5. ASSUME NEW t \in Tx, release_all(t)
      PROVE  LockInv'
  <2>1. \A r \in Resource : /\ EntryOK(Released(entries[r], t))
                             /\ Released(entries[r], t).waiters \subseteq entries[r].waiters
    BY <1>a, ReleaseKeeps
  <2>2. entries' = [r \in Resource |-> Released(entries[r], t)] /\ next_sequence' = next_sequence
    BY <1>5 DEF release_all
  <2>3. \A r \in Resource : entries'[r] # EmptyEntry => r \in tracked'
    <3>1. SUFFICES ASSUME NEW r \in Resource, Released(entries[r], t) # EmptyEntry
                   PROVE  r \in tracked'
      BY <2>2
    <3>2. entries[r] # EmptyEntry
      BY <3>1 DEF Released, Retain, EmptyEntry
    <3> QED BY <1>5, <1>a, <3>1, <3>2 DEF release_all
  <2>4. tracked' \subseteq Resource
    BY <1>5, <1>a DEF release_all
  <2> QED BY <1>a, <2>1, <2>2, <2>3, <2>4, EntriesLockInv
<1>6. ASSUME NEW r \in Resource, ensure_entry(r)
      PROVE  LockInv'
  BY <1>6, <1>a, EntriesLockInv DEF ensure_entry
<1>7. CASE UNCHANGED vars
  BY <1>7, <1>a, EntriesLockInv DEF vars
<1> QED
  BY <1>1, <1>2, <1>3, <1>4, <1>5, <1>6, <1>7 DEF Next, acquire, AcquireUnchanged

\* LockInv holds in every reachable state of the lock table, for every number of
\* transactions, resources and modes.
THEOREM LockInvariant == Spec => []LockInv
<1> QED
  BY InitLockInv, NextLockInv, PTL DEF Spec

\* Type correctness of the lock table.
THEOREM TypeCorrect == Spec => []TypeOK
<1>1. LockInv => TypeOK
  BY DEF LockInv
<1> QED
  BY LockInvariant, <1>1, PTL

\* acquire, release and release_all never let two transactions hold one resource
\* in modes that exclude each other.
THEOREM HoldersNeverConflict == Spec => []MutualExclusion
<1>1. LockInv => MutualExclusion
  BY DEF LockInv
<1> QED
  BY LockInvariant, <1>1, PTL

\* promote_compatible_waiters never stops short: the front of a queue is always
\* blocked by a lock another transaction holds.
THEOREM FrontAlwaysBlocked == Spec => []NoLostWakeup
<1>1. LockInv => NoLostWakeup
  BY DEF LockInv
<1> QED
  BY LockInvariant, <1>1, PTL
-----------------------------------------------------------------------------
(* FIFO fairness.                                                          *)

\* From entry e to f nobody overtakes: what NoBarging says of one resource.
NobodyOvertakes(e, f) ==
  \A h \in f.holders \ e.holders : \A w \in e.waiters \cap f.waiters :
    \/ is_compatible_with(w.mode, h.mode)
    \/ \E v \in e.waiters :
         v.tx_id = h.tx_id /\ v.mode = h.mode /\ v.sequence < w.sequence

\* A release lets only waiters from the front of the queue in.
LEMMA ReleaseInOrder ==
  ASSUME NEW e, EntryOK(e), NEW t \in Tx
  PROVE  NobodyOvertakes(e, Released(e, t))
<1> DEFINE k == Retain(e, t)
           f == Released(e, t)
<1>1. CASE k = e
  BY <1>1 DEF Released, NobodyOvertakes
<1>2. CASE k # e
  <2>1. k.holders \subseteq e.holders /\ k.waiters \subseteq e.waiters
    BY DEF Retain, EntryOK, EntryInv, LockEntry
  <2>2. FromTheFront(k, f)
    <3>1. IsFiniteSet(k.waiters)
      BY <2>1, FS_Subset DEF EntryOK, EntryInv
    <3>2. k \in LockEntry
      BY DEF Retain, EntryOK, EntryInv, LockEntry
    <3>3. f = promote_compatible_waiters(k)
      BY <1>2 DEF Released
    <3> HIDE DEF k, f
    <3>4. EntryInv(k)
      BY <2>1, <3>1, <3>2 DEF EntryOK, EntryInv, HoldersExclude, HoldersUnique, QueueOrdered
    <3> QED BY <3>3, <3>4, PromotionLoop
  <2>3. k.holders = {h \in e.holders : h.tx_id # t} /\ k.waiters = {w \in e.waiters : w.tx_id # t}
    BY DEF Retain
  <2> HIDE DEF k, f
  <2>4. SUFFICES ASSUME NEW h \in f.holders \ e.holders, NEW w \in e.waiters \cap f.waiters
                 PROVE  \E v \in e.waiters :
                          v.tx_id = h.tx_id /\ v.mode = h.mode /\ v.sequence < w.sequence
    BY DEF NobodyOvertakes, f
  <2>5. PICK v \in k.waiters \ f.waiters : v.tx_id = h.tx_id /\ v.mode = h.mode
    BY <2>1, <2>2, <2>4 DEF FromTheFront
  <2>6. v.sequence < w.sequence
    BY <2>2, <2>4, <2>5 DEF FromTheFront
  <2> QED BY <2>1, <2>5, <2>6
<1> QED
  BY <1>1, <1>2

\* A request that is granted, or upgraded in place, excludes nobody in the queue.
LEMMA GrantInOrder ==
  ASSUME NEW e, NEW f, NEW t, NEW m, ~ MustWait(e, t, m),
         f.holders \subseteq e.holders \cup {[tx_id |-> t, mode |-> m]}
  PROVE  NobodyOvertakes(e, f)
BY DEF NobodyOvertakes, MustWait, HasOlderIncompatibleWaiter

\* FIFO fairness of acquire, release and release_all: no step gives a transaction
\* a lock that excludes a request still waiting, unless its own request is older.
THEOREM NobodyEverBarges == Spec => NoBarging
<1>1. ASSUME LockInv, [Next]_vars
      PROVE  \A r \in Resource : NobodyOvertakes(entries[r], entries'[r])
  <2>a. \A r \in Resource : EntryOK(entries[r]) /\ entries[r] \in LockEntry
    BY <1>1, LockInvEntries DEF EntryOK, EntryInv
  <2>b. DOMAIN entries = Resource
    BY <1>1, LockInvEntries
  <2>c. \A e : NobodyOvertakes(e, e)
    BY DEF NobodyOvertakes
  <2>1. ASSUME NEW t \in Tx, NEW r \in Resource, NEW m \in Mode,
               AcquireGranted(t, r, m) \/ AcquireUpgraded(t, r, m)
        PROVE  \A s \in Resource : NobodyOvertakes(entries[s], entries'[s])
    <3>1. ~ MustWait(entries[r], t, m)
      BY <2>1 DEF AcquireGranted, AcquireUpgraded
    <3>2. entries'[r].holders \subseteq entries[r].holders \cup {[tx_id |-> t, mode |-> m]}
      BY <2>1, <2>a, <2>b DEF AcquireGranted, AcquireUpgraded, LockEntry
    <3>3. NobodyOvertakes(entries[r], entries'[r])
      BY <3>1, <3>2, GrantInOrder
    <3>4. \A s \in Resource \ {r} : entries'[s] = entries[s]
      BY <2>1, <2>b DEF AcquireGranted, AcquireUpgraded
    <3> QED BY <2>c, <3>3, <3>4
  <2>2. ASSUME NEW t \in Tx, NEW r \in Resource, NEW m \in Mode, AcquireWaiting(t, r, m)
        PROVE  \A s \in Resource : NobodyOvertakes(entries[s], entries'[s])
    <3>1. \A s \in Resource : entries'[s].holders = entries[s].holders
      BY <2>2, <2>a, <2>b DEF AcquireWaiting, LockEntry
    <3> QED BY <3>1 DEF NobodyOvertakes
  <2>3. ASSUME NEW t \in Tx, NEW r \in Resource, release(t, r)
        PROVE  \A s \in Resource : NobodyOvertakes(entries[s], entries'[s])
    <3>1. \A s \in Resource : entries'[s] = IF s = r THEN Released(entries[r], t) ELSE entries[s]
      BY <2>3, <2>b DEF release
    <3> QED BY <2>a, <2>c, <3>1, ReleaseInOrder
  <2>4. ASSUME NEW t \in Tx, release_all(t)
        PROVE  \A s \in Resource : NobodyOvertakes(entries[s], entries'[s])
    BY <2>4, <2>a, ReleaseInOrder DEF release_all
  <2>5. ASSUME entries' = entries
        PROVE  \A s \in Resource : NobodyOvertakes(entries[s], entries'[s])
    BY <2>5, <2>c
  <2> QED
    BY <1>1, <2>1, <2>2, <2>3, <2>4, <2>5
       DEF Next, acquire, AcquireUnchanged, ensure_entry, vars
<1>2. LockInv /\ [Next]_vars =>
        [\A r \in Resource :
           \A h \in entries'[r].holders \ entries[r].holders :
           \A w \in entries[r].waiters \cap entries'[r].waiters :
             \/ is_compatible_with(w.mode, h.mode)
             \/ \E v \in entries[r].waiters :
                  v.tx_id = h.tx_id /\ v.mode = h.mode /\ v.sequence < w.sequence]_vars
  BY <1>1 DEF NobodyOvertakes
<1> QED
  BY LockInvariant, <1>2, PTL DEF Spec, NoBarging

-----------------------------------------------------------------------------
(* Savepoints.                                                             *)

\* rollback_ordinal is the largest ordinal in the write set, or 0.
LEMMA LastOrdinal ==
  ASSUME SavepointTypeOK, write_set # {}
  PROVE  /\ \E e \in write_set : e.ordinal = rollback_ordinal(write_set)
         /\ \A e \in write_set : e.ordinal <= rollback_ordinal(write_set)
<1> DEFINE Ordinals == {e.ordinal : e \in write_set}
<1>1. Ordinals \in SUBSET (0 .. MaxOrdinal) /\ Ordinals # {}
  BY DEF SavepointTypeOK, WriteSetEntry
<1>2. \E o \in Ordinals : \A p \in Ordinals : p <= o
  <2> HIDE DEF Ordinals
  <2> QED BY <1>1, NatHasMax, BoundAssumption
<1>3. \E o \in Ordinals : \A e \in write_set : e.ordinal <= o
  BY <1>2
<1> QED
  BY <1>3 DEF rollback_ordinal

\* The ordinal of an empty write set is 0.
LEMMA EmptyOrdinal == write_set = {} => rollback_ordinal(write_set) = 0
  BY DEF rollback_ordinal

\* The type of rollback_ordinal, and what it bounds.
LEMMA OrdinalBounds ==
  ASSUME SavepointInv
  PROVE  /\ rollback_ordinal(write_set) \in 0 .. MaxOrdinal
         /\ rollback_ordinal(write_set) < next_ordinal
         /\ \A e \in write_set : e.ordinal <= rollback_ordinal(write_set)
         /\ \/ rollback_ordinal(write_set) = 0
            \/ \E e \in write_set : e.ordinal = rollback_ordinal(write_set)
         /\ \A s \in stack : s.rollback_ordinal <= rollback_ordinal(write_set)
<1> USE DEF SavepointInv, SavepointTypeOK, Savepoint, WriteSetEntry
<1>1. CASE write_set = {}
  BY <1>1, EmptyOrdinal, BoundAssumption DEF MarkersAreEntries
<1>2. CASE write_set # {}
  BY <1>2, LastOrdinal, BoundAssumption DEF MarkersAreEntries
<1> QED
  BY <1>1, <1>2

-----------------------------------------------------------------------------
\* A new transaction satisfies the invariant of savepoints.
LEMMA SavepointInitInv == SavepointInit => SavepointInv
  BY BoundAssumption
  DEF SavepointInit, SavepointInv, SavepointTypeOK, Savepoint, WriteSetEntry, MarkersAreEntries

\* Every call keeps the invariant of savepoints.
LEMMA SavepointNextInv ==
  ASSUME SavepointInv, [SavepointNext]_savepointVars
  PROVE  SavepointInv'
<1> USE BoundAssumption DEF SavepointInv, SavepointTypeOK, Savepoint, WriteSetEntry,
        MarkersAreEntries
<1>1. ASSUME NEW kind \in OperationKind, record_operation(kind)
      PROVE  SavepointInv'
  BY <1>1 DEF record_operation
<1>2. ASSUME NEW s \in stack, ReleaseSavepoint(s)
      PROVE  SavepointInv'
  BY <1>2 DEF ReleaseSavepoint
<1>3. ASSUME NEW s \in stack, RollbackToSavepoint(s)
      PROVE  SavepointInv'
  <2>1. s.rollback_ordinal <= rollback_ordinal(write_set)
    BY OrdinalBounds
  <2>2. write_set' = rollback_to(write_set, s.rollback_ordinal)
    <3>1. rollback_ordinal(write_set) \in Int
      BY OrdinalBounds
    <3> QED BY <1>3, <2>1, <3>1 DEF RollbackToSavepoint
  <2>3. write_set' \subseteq write_set /\ stack' \subseteq stack
    BY <1>3, <2>2 DEF RollbackToSavepoint, rollback_to
  <2>4. MarkersAreEntries'
    BY <1>3, <2>2 DEF RollbackToSavepoint, rollback_to
  <2> QED
    BY <1>3, <2>3, <2>4 DEF RollbackToSavepoint
<1>4. CASE full_rollback
  BY <1>4 DEF full_rollback
<1>5. CASE clear
  BY <1>5 DEF clear
<1>6. ASSUME NEW n \in SavepointName,
             create_with_rollback_ordinal(n, rollback_ordinal(write_set))
      PROVE  SavepointInv'
  <2> DEFINE o == rollback_ordinal(write_set)
  <2>1. /\ o \in 0 .. MaxOrdinal
        /\ o = 0 \/ \E e \in write_set : e.ordinal = o
        /\ \A s \in stack : s.rollback_ordinal <= o
    BY OrdinalBounds
  <2> HIDE DEF o
  <2>2. create_with_rollback_ordinal(n, o)
    BY <1>6 DEF o
  <2> QED
    BY <2>1, <2>2 DEF create_with_rollback_ordinal
<1>7. CASE UNCHANGED savepointVars
  BY <1>7 DEF savepointVars
<1> QED
  BY <1>1, <1>2, <1>3, <1>4, <1>5, <1>6, <1>7 DEF SavepointNext, UseStack

\* The inductive invariant of the savepoint stack and its write set.
THEOREM SavepointInvariant == SavepointSpec => []SavepointInv
  BY SavepointInitInv, SavepointNextInv, PTL DEF SavepointSpec

\* An active savepoint can always be rolled back to: its marker is never ahead
\* of the write set (write_set.rs, rollback_to).
THEOREM MarkersNeverAhead == SavepointSpec => []MarkersWithinWriteSet
<1>1. SavepointInv => MarkersWithinWriteSet
  BY OrdinalBounds DEF MarkersWithinWriteSet
<1> QED
  BY <1>1, SavepointInvariant, PTL

-----------------------------------------------------------------------------
(* The refinement: every step is a step of NestedSavepoints or leaves its   *)
(* state alone.                                                             *)

\* A new stack of savepoints is an initial state of NestedSavepoints.
LEMMA InitNested == SavepointInit => Nested!Init
  BY DEF SavepointInit, Nested!Init, WritesUpTo

\* Every call is a step of NestedSavepoints or leaves its state alone.
LEMMA StepNested ==
  ASSUME SavepointInv, [SavepointNext]_savepointVars
  PROVE  [Nested!Next]_(Nested!vars)
<1> USE BoundAssumption DEF SavepointInv, SavepointTypeOK, Savepoint, WriteSetEntry
<1> DEFINE writes == WritesUpTo(MaxOrdinal)
           saved  == {Remembered(s) : s \in stack}
<1>1. ASSUME NEW kind \in OperationKind, record_operation(kind)
      PROVE  [Nested!Next]_(Nested!vars)
  <2>1. \A s \in stack : WritesUpTo(s.rollback_ordinal)' = WritesUpTo(s.rollback_ordinal)
    <3>1. \A s \in stack : s.rollback_ordinal < next_ordinal
      BY OrdinalBounds
    <3> QED BY <1>1, <3>1 DEF record_operation, WritesUpTo
  <2>2. saved' = saved
    <3>1. \A s \in stack : Remembered(s)' = Remembered(s)
      BY <2>1 DEF Remembered
    <3> QED BY <1>1, <3>1 DEF record_operation
  <2>3. CASE kind = "LockEvidence"
    <3>1. writes' = writes
      BY <1>1, <2>3 DEF record_operation, WritesUpTo, Undoable
    <3> QED BY <2>2, <3>1 DEF Nested!vars
  <2>4. CASE kind = "Write"
    <3> DEFINE new == [ordinal |-> next_ordinal, operation_kind |-> "Write"]
               Counted(E) == {e \in E : Undoable(e) /\ e.ordinal <= MaxOrdinal}
    <3>1. write_set' = write_set \cup {new} /\ next_ordinal \in 1 .. MaxOrdinal
      BY <1>1, <2>4 DEF record_operation
    <3>2. Counted(write_set \cup {new}) = Counted(write_set) \cup {new}
      BY <3>1 DEF Undoable
    <3>3. writes' = {e.ordinal : e \in Counted(write_set')}
      BY DEF WritesUpTo
    <3>4. writes = {e.ordinal : e \in Counted(write_set)}
      BY DEF WritesUpTo
    <3>5. writes' = writes \cup {next_ordinal}
      <4> HIDE DEF Counted
      <4>1. writes' = {e.ordinal : e \in Counted(write_set) \cup {new}}
        BY <3>1, <3>2, <3>3
      <4>2. new.ordinal = next_ordinal
        OBVIOUS
      <4> HIDE DEF new, writes
      <4> QED BY <3>4, <4>1, <4>2
    <3>6. next_ordinal \notin writes
      BY <3>4
    <3> QED BY <2>2, <3>1, <3>5, <3>6 DEF Nested!Next, Nested!Write
  <2> QED BY <2>3, <2>4 DEF OperationKind
<1>2. ASSUME NEW s \in stack, ReleaseSavepoint(s)
      PROVE  [Nested!Next]_(Nested!vars)
  <2>1. writes' = writes /\ \A d \in stack : Remembered(d)' = Remembered(d)
    BY <1>2 DEF ReleaseSavepoint, WritesUpTo, Remembered
  <2>2. saved' = {d \in saved : d.id < Remembered(s).id}
    <3>1. stack' = {d \in stack : d.id < s.id}
      BY <1>2 DEF ReleaseSavepoint
    <3>2. saved' = {Remembered(d) : d \in stack'}
      BY <2>1, <3>1
    <3>3. \A d \in stack : Remembered(d).id = d.id
      BY DEF Remembered
    <3>4. saved = {Remembered(d) : d \in stack}
      OBVIOUS
    <3> HIDE DEF saved, SavepointInv, SavepointTypeOK
    <3> QED BY <3>1, <3>2, <3>3, <3>4
  <2>3. Nested!Release(Remembered(s))
    BY <2>1, <2>2 DEF Nested!Release
  <2> QED BY <2>3 DEF Nested!Next
<1>3. ASSUME NEW s \in stack, RollbackToSavepoint(s)
      PROVE  [Nested!Next]_(Nested!vars)
  <2>1. write_set' = {e \in write_set : e.ordinal <= s.rollback_ordinal \/ ~ Undoable(e)}
    <3>1. s.rollback_ordinal <= rollback_ordinal(write_set) /\ rollback_ordinal(write_set) \in Int
      BY OrdinalBounds
    <3> QED BY <1>3, <3>1 DEF RollbackToSavepoint, rollback_to
  <2>2. writes' = WritesUpTo(s.rollback_ordinal)
    BY <2>1 DEF WritesUpTo
  <2>3. \A d \in stack : d.id <= s.id => Remembered(d)' = Remembered(d)
    <3>1. \A d \in stack : d.id <= s.id => d.rollback_ordinal <= s.rollback_ordinal
      OBVIOUS
    <3>2. \A d \in stack : d.id <= s.id =>
            WritesUpTo(d.rollback_ordinal)' = WritesUpTo(d.rollback_ordinal)
      BY <2>1, <3>1 DEF WritesUpTo
    <3> QED BY <3>2 DEF Remembered
  <2>4. saved' = {d \in saved : d.id <= Remembered(s).id}
    <3>1. stack' = {d \in stack : d.id <= s.id}
      BY <1>3 DEF RollbackToSavepoint
    <3>2. saved' = {Remembered(d) : d \in stack'}
      BY <2>3, <3>1
    <3>3. \A d \in stack : Remembered(d).id = d.id
      BY DEF Remembered
    <3>4. saved = {Remembered(d) : d \in stack}
      OBVIOUS
    <3> HIDE DEF saved, SavepointInv, SavepointTypeOK
    <3> QED BY <3>1, <3>2, <3>3, <3>4
  <2>5. Nested!RollbackTo(Remembered(s))
    BY <2>2, <2>4 DEF Nested!RollbackTo, Remembered
  <2> QED BY <2>5 DEF Nested!Next
<1>4. CASE full_rollback
  <2>1. writes' = {} /\ saved' = {}
    BY <1>4 DEF full_rollback, WritesUpTo
  <2> QED BY <2>1 DEF Nested!Next, Nested!Abort
<1>5. CASE clear
  <2>1. writes' = writes /\ saved' = {}
    BY <1>5 DEF clear, WritesUpTo
  <2> QED BY <2>1 DEF Nested!Next, Nested!Finish
<1>6. ASSUME NEW n \in SavepointName,
             create_with_rollback_ordinal(n, rollback_ordinal(write_set))
      PROVE  [Nested!Next]_(Nested!vars)
  <2> DEFINE o == rollback_ordinal(write_set)
             new == [id |-> next_id, name |-> n, writes |-> writes]
  <2>1. o \in 0 .. MaxOrdinal /\ \A e \in write_set : e.ordinal <= o
    BY OrdinalBounds
  <2> HIDE DEF o
  <2>2. /\ \A s \in stack : s.name # n
        /\ stack' = stack \cup {[id |-> next_id, name |-> n, rollback_ordinal |-> o]}
        /\ UNCHANGED write_set
    BY <1>6 DEF create_with_rollback_ordinal, o
  <2>3. WritesUpTo(o) = writes
    BY <2>1 DEF WritesUpTo
  <2>4. \A m : WritesUpTo(m)' = WritesUpTo(m)
    BY <2>2 DEF WritesUpTo
  <2>5. saved' = saved \cup {new}
    <3> DEFINE top == [id |-> next_id, name |-> n, rollback_ordinal |-> o]
    <3>1. \A s : Remembered(s)' = Remembered(s)
      BY <2>4 DEF Remembered
    <3>2. Remembered(top) = new
      BY <2>3 DEF Remembered
    <3>3. saved' = {Remembered(s) : s \in stack \cup {top}}
      BY <2>2, <3>1
    <3> HIDE DEF top, new
    <3> QED BY <3>2, <3>3
  <2>6. /\ \A r \in saved : r.name # n /\ r.id < next_id
        /\ next_id \in 1 .. MaxSavepointId
    BY <2>2 DEF Remembered
  <2>7. Nested!Create(n)
    BY <2>4, <2>5, <2>6 DEF Nested!Create
  <2> QED BY <2>7 DEF Nested!Next
<1>7. CASE UNCHANGED savepointVars
  <2>1. writes' = writes /\ saved' = saved
    BY <1>7 DEF savepointVars, WritesUpTo, Remembered
  <2> QED BY <2>1 DEF Nested!vars
<1> HIDE DEF SavepointInv, SavepointTypeOK, Savepoint, WriteSetEntry, writes, saved
<1>8. CASE UseStack
  BY <1>1, <1>2, <1>3, <1>4, <1>5, <1>8, Zenon DEF UseStack
<1>9. CASE \E n \in SavepointName :
             create_with_rollback_ordinal(n, rollback_ordinal(write_set))
  BY <1>6, <1>9, Zenon
<1> QED
  BY <1>7, <1>8, <1>9, Zenon DEF SavepointNext

\* Savepoints with markers implement savepoints that snapshot the writes.
THEOREM RefinesNested == SavepointSpec => ImplementsNested
  BY InitNested, StepNested, SavepointInvariant, PTL
  DEF SavepointSpec, ImplementsNested, Nested!Spec
=============================================================================
