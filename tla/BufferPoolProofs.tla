-------------------------- MODULE BufferPoolProofs --------------------------
(***************************************************************************)
(* Proofs about BufferPool: every step keeps the inductive invariant, and  *)
(* what follows from it.                                                   *)
(***************************************************************************)
EXTENDS BufferPoolLemmas

-----------------------------------------------------------------------------
(* The steps.                                                              *)

\* A call that changes one frame of a page, which it may first have brought in.
LEMMA ReplacedInv ==
  ASSUME PoolInv, NEW pl, Tables(pl), Content(pl, store, applied, wal.durable),
         NEW i \in Frame, NEW g, Replaces(g, pl.frames[i]),
         \A q \in Page \ {g.page} : pool.page_table[q] = NoFrame => pl.page_table[q] = NoFrame,
         pool' = Replaced(pl, i, g), UNCHANGED <<flush, store, wal>>,
         known' = known \cup {g.page},
         applied' \in [Page -> SUBSET Lsn],
         \A q \in Page \ {g.page} : applied'[q] = applied[q],
         Faithful(g, store[g.page], applied'[g.page], wal.durable)
  PROVE  PoolInv'
<1>1. Tables(pool')
  BY ReplacedTables
<1>2. Content(pool', store', applied', wal'.durable)
  BY ReplacedContent
<1>3. g.page \in Page /\ pool'.page_table = pl.page_table
  BY DEF Replaces, FrameOK, Replaced
<1>4. Around'
  BY <1>3 DEF Around, PoolInv
<1> QED
  BY <1>1, <1>2, <1>4 DEF PoolInv

\* fetch_page and pin_page, whether they hit or bring the page in, keep the invariant.
LEMMA FetchStep ==
  ASSUME PoolInv, NEW p \in Page, fetch_page(p) \/ pin_page(p)
  PROVE  PoolInv'
<1> DEFINE pl == ensure_resident(p)
           i == pl.page_table[p]
           f == pl.frames[i]
           g == IF fetch_page(p) THEN unpin(pin(f)) ELSE pin(f)
<1>1. /\ Tables(pl) /\ Content(pl, store, applied, wal.durable)
      /\ i \in Frame /\ f \in FrameType /\ FrameOK(f)
      /\ f.state = "Resident" /\ f.page = p /\ f.image \in Image
      /\ Faithful(f, store[p], applied[p], wal.durable)
      /\ \A q \in Page \ {p} : pool.page_table[q] = NoFrame => pl.page_table[q] = NoFrame
  BY ResidentAfter DEF fetch_page, pin_page
<1>2. /\ CanPin(f) /\ pool' = OnFrame(pl, i, g) /\ known' = known \cup {p}
      /\ UNCHANGED <<flush, store, wal, applied>>
  BY DEF fetch_page, pin_page
<1> HIDE DEF pl, i
<1>3. /\ g \in FrameType /\ g.state = f.state /\ g.page = f.page
      /\ g.first = f.first /\ g.last = f.last /\ g.image = f.image
  BY <1>1, <1>2, PinnedFrame DEF SameButUsage
<1> HIDE DEF g
<1>4. Replaces(g, f)
  BY <1>1, <1>3 DEF Replaces, FrameOK
<1>5. pool' = Replaced(pl, i, g)
  BY <1>1, <1>2, <1>3, <1>4, OnFrameReplaces, Zenon
<1>6. Faithful(g, store[p], applied[p], wal.durable)
  BY <1>1, <1>3 DEF Faithful
<1>7. applied \in [Page -> SUBSET Lsn]
  BY DEF PoolInv, Around
<1> QED
  BY <1>1, <1>2, <1>3, <1>4, <1>5, <1>6, <1>7, ReplacedInv

\* mark_dirty extends the range of the frame, and the tracker's entry alike.
LEMMA MarkedFrame ==
  ASSUME NEW f \in FrameType, FrameOK(f), f.state = "Resident", NEW lsn \in Lsn,
         lsn >= f.last
  PROVE  LET g == mark_dirty(f, lsn)
         IN  /\ g \in FrameType
             /\ g.state = f.state /\ g.page = f.page /\ g.image = f.image
             /\ g.pin_count = f.pin_count
             /\ g.last = lsn /\ g.first \in 1 .. lsn
             /\ f.last # NoLsn => g.first = f.first
             /\ TrackDirty([first |-> f.first, last |-> f.last], lsn) =
                  [first |-> g.first, last |-> g.last]
<1> DEFINE g == mark_dirty(f, lsn)
           low == IF IsDirty(f) THEN f.first ELSE lsn
<1>1. f.first \in 0 .. MaxLsn /\ f.last \in 0 .. MaxLsn /\ lsn \in 1 .. MaxLsn
      /\ f.first <= f.last /\ (f.first = 0 <=> f.last = 0)
  BY DEF FrameType, FrameOK, Lsn, NoLsn
<1>2. low \in 1 .. lsn /\ low \in 0 .. MaxLsn /\ lsn \in 0 .. MaxLsn
      /\ (f.last # NoLsn => low = f.first)
  BY <1>1, BufferPoolAssumption DEF IsDirty, NoLsn
<1>3. g = [f EXCEPT !.first = low, !.last = lsn, !.clock_usage = TRUE]
  BY DEF mark_dirty, FrameType
<1>4. TrackDirty([first |-> f.first, last |-> f.last], lsn) = [first |-> low, last |-> lsn]
  <2>1. CASE f.last = 0
    BY <1>1, <2>1 DEF TrackDirty, NotDirty, IsDirty, NoLsn
  <2>2. CASE f.last # 0
    <3>1. [first |-> f.first, last |-> f.last] # NotDirty
      BY <2>2 DEF NotDirty, NoLsn
    <3>2. ~(lsn < f.first) /\ (lsn > f.last \/ f.last = lsn)
      BY <1>1, BufferPoolAssumption
    <3> QED
      BY <2>2, <3>1, <3>2, <1>1 DEF TrackDirty, IsDirty, NoLsn
  <2> QED
    BY <2>1, <2>2
<1> HIDE DEF g, low
<1>5. /\ g \in FrameType /\ g.state = f.state /\ g.page = f.page /\ g.image = f.image
      /\ g.pin_count = f.pin_count /\ g.last = lsn /\ g.first = low
  BY <1>2, <1>3, Zenon DEF FrameType
<1> QED
  BY <1>2, <1>4, <1>5 DEF g

\* A change that callers make through fetch_page_mut is in the frame and in its range.
LEMMA MutStep ==
  ASSUME PoolInv, NEW p \in Page, NEW lsn \in Lsn, NEW changes \in BOOLEAN,
         fetch_page_mut(p, lsn, changes)
  PROVE  PoolInv'
<1> DEFINE pl == ensure_resident(p)
           i == pl.page_table[p]
           f0 == pl.frames[i]
           f == pin(f0)
           img == IF changes
                    THEN [lsn |-> IF p \in Stamped THEN lsn ELSE f.image.lsn,
                          changes |-> f.image.changes \cup {lsn}]
                    ELSE f.image
           m == mark_dirty(f, lsn)
           w == [m EXCEPT !.image = img]
           g == unpin(w)
<1>1. /\ Tables(pl) /\ Content(pl, store, applied, wal.durable)
      /\ i \in Frame /\ f0 \in FrameType /\ FrameOK(f0)
      /\ f0.state = "Resident" /\ f0.page = p /\ f0.image \in Image
      /\ Faithful(f0, store[p], applied[p], wal.durable)
      /\ \A q \in Page \ {p} : pool.page_table[q] = NoFrame => pl.page_table[q] = NoFrame
  BY ResidentAfter, Zenon DEF fetch_page_mut
<1>2. /\ CanPin(f0) /\ CanMarkDirty(f, lsn)
      /\ pool' = [OnFrame(pl, i, g) EXCEPT !.dirty_pages[p] = TrackDirty(@, lsn)]
      /\ applied' = [applied EXCEPT ![p] = img.changes]
      /\ known' = known \cup {p}
      /\ UNCHANGED <<flush, store, wal>>
  BY Zenon DEF fetch_page_mut
<1> HIDE DEF pl, i
<1>3. /\ f \in FrameType /\ f.state = "Resident" /\ f.page = p
      /\ f.first = f0.first /\ f.last = f0.last /\ f.image = f0.image
      /\ f.pin_count = f0.pin_count + 1 /\ f0.pin_count \in Nat
  BY <1>1, <1>2, PinnedFrame, Zenon
<1>4. FrameOK(f) /\ lsn >= f.last
  BY <1>1, <1>2, <1>3, Zenon DEF FrameOK, CanMarkDirty
<1> HIDE DEF f0, f
<1>5. /\ m \in FrameType
      /\ m.state = "Resident" /\ m.page = p /\ m.image = f0.image
      /\ m.pin_count = f.pin_count
      /\ m.last = lsn /\ m.first \in 1 .. lsn
      /\ f.last # NoLsn => m.first = f.first
      /\ TrackDirty([first |-> f.first, last |-> f.last], lsn) =
           [first |-> m.first, last |-> m.last]
  BY <1>3, <1>4, MarkedFrame
<1>6. img \in Image /\ f0.image.changes \subseteq img.changes
      /\ img.changes \subseteq f0.image.changes \cup {lsn}
  <2>1. f0.image.lsn \in Lsn /\ f0.image.changes \in SUBSET Lsn
    BY <1>1 DEF Image
  <2>2. CASE changes
    <3>1. img.changes = f0.image.changes \cup {lsn} /\ img.lsn \in Lsn
      BY <2>1, <2>2, <1>3
    <3>2. img.changes \in SUBSET Lsn
      BY <2>1, <3>1
    <3> QED
      BY <2>2, <3>1, <3>2 DEF Image
  <2>3. CASE ~ changes
    BY <2>3, <1>1, <1>3
  <2> QED
    BY <2>2, <2>3
<1> HIDE DEF m, img
<1>7. /\ w \in FrameType /\ w.state = "Resident" /\ w.page = p /\ w.image = img
      /\ w.pin_count = m.pin_count /\ w.first = m.first /\ w.last = m.last
  BY <1>5, <1>6 DEF FrameType
<1> HIDE DEF w
<1>8. w.pin_count - 1 \in 0 .. MaxPins
  BY <1>3, <1>5, <1>7, BufferPoolAssumption DEF FrameType
<1>9. /\ g \in FrameType /\ g.state = "Resident" /\ g.page = p /\ g.image = img
      /\ g.first = m.first /\ g.last = lsn
  BY <1>5, <1>7, <1>8 DEF unpin, FrameType
<1> HIDE DEF g
<1>10. lsn \in 1 .. MaxLsn /\ MaxLsn \in Nat
  BY BufferPoolAssumption DEF Lsn
<1>11. FrameOK(g)
  BY <1>5, <1>6, <1>9, <1>10 DEF FrameOK, NoLsn
<1>12. Replaces(g, f0)
  BY <1>1, <1>9, <1>11 DEF Replaces
<1>13. pl.dirty_pages[p] = [first |-> f.first, last |-> f.last]
       /\ pl.dirty_pages \in [Page -> Range] /\ pl \in PoolType
  <2>1. pl \in PoolType
    BY <1>1 DEF Tables
  <2>2. pl.dirty_pages \in [Page -> Range]
    BY <2>1 DEF PoolType
  <2>3. Agree(pl, i, p)
    BY <1>1, TablesSay
  <2> QED
    BY <1>1, <1>3, <2>1, <2>2, <2>3 DEF f0, i, Agree
<1>14. OnFrame(pl, i, g).dirty_pages = pl.dirty_pages
  BY <1>13 DEF OnFrame, PoolType
<1>15. pool' = [OnFrame(pl, i, g) EXCEPT !.dirty_pages[g.page] = [first |-> g.first, last |-> g.last]]
  BY <1>2, <1>5, <1>9, <1>13, <1>14
<1>16. pool' = Replaced(pl, i, g)
  BY <1>1, <1>12, <1>15, OnFrameReplaces DEF f0
<1>17. /\ applied \in [Page -> SUBSET Lsn] /\ img.changes \in SUBSET Lsn
       /\ applied' \in [Page -> SUBSET Lsn] /\ applied'[p] = img.changes
       /\ \A q \in Page \ {p} : applied'[q] = applied[q]
  BY <1>2, <1>6 DEF PoolInv, Around, Image
<1>18. Faithful(g, store[p], applied'[p], wal.durable)
  <2>1. \A c \in img.changes : c \in applied[p] \/ c = lsn
    BY <1>1, <1>6 DEF Faithful
  <2>2. g.image.changes = applied'[p] /\ g.last # NoLsn
    BY <1>9, <1>10, <1>17 DEF NoLsn
  <2>3. \A c \in applied'[p] : c <= g.last \/ c <= wal.durable
    <3> TAKE c \in applied'[p]
    <3>1. CASE c = lsn
      BY <3>1, <1>9, <1>10
    <3>2. CASE c \in applied[p]
      <4>1. c \in 1 .. MaxLsn /\ f0.last \in 0 .. MaxLsn
        BY <3>2, <1>1, <1>17 DEF Lsn, FrameType
      <4>2. c <= f0.last \/ c <= wal.durable
        BY <3>2, <1>1 DEF Faithful
      <4> QED
        BY <4>1, <4>2, <1>3, <1>4, <1>9, <1>10
    <3> QED
      BY <2>1, <3>1, <3>2, <1>17
  <2>4. ASSUME store[p] # Torn, NEW c \in applied'[p] \ store[p].changes PROVE g.first <= c
    <3>1. CASE c = lsn
      BY <3>1, <1>5, <1>9, <1>10
    <3>2. CASE c \in applied[p]
      <4>1. f0.last # NoLsn /\ f0.first <= c
        BY <2>4, <3>2, <1>1 DEF Faithful
      <4> QED
        BY <4>1, <1>3, <1>5, <1>9
    <3> QED
      BY <2>1, <3>1, <3>2, <1>17
  <2> QED
    BY <2>2, <2>3, <2>4 DEF Faithful
<1> QED
  BY <1>1, <1>2, <1>9, <1>12, <1>16, <1>17, <1>18, ReplacedInv DEF f0

\* unpin_page releases a pin of a resident page, and may mark the page dirty.
LEMMA UnpinStep ==
  ASSUME PoolInv, NEW i \in Frame, unpin_page(i)
  PROVE  PoolInv'
<1> DEFINE f == pool.frames[i]
           p == f.page
<1>1. /\ Tables(pool) /\ Content(pool, store, applied, wal.durable) /\ pool \in PoolType
      /\ f \in FrameType /\ FrameOK(f) /\ applied \in [Page -> SUBSET Lsn]
      /\ wal.end \in 0 .. MaxLsn
  BY DEF PoolInv, Tables, PoolType, Around
<1>2. /\ f.state = "Resident" /\ f.pin_count > 0 /\ UNCHANGED <<flush, store, wal, known, applied>>
  BY DEF unpin_page, CanUnpin
<1>3. /\ p \in Page /\ f.image \in Image /\ pool.page_table[p] = i
      /\ pool.dirty_pages[p] = [first |-> f.first, last |-> f.last]
      /\ pool.dirty_pages \in [Page -> Range]
  BY <1>1, <1>2 DEF Tables, FrameOK, PoolType
<1>4. Faithful(f, store[p], applied[p], wal.durable)
  BY <1>1, <1>3 DEF Content
<1>5. known' = known \cup {p}
  <2>1. pool.page_table[p] # NoFrame
    BY <1>3, BufferPoolAssumption DEF NoFrame, Frame
  <2>2. p \in known
    BY <1>3, <2>1 DEF PoolInv, Around
  <2> QED
    BY <1>2, <2>2
<1>6. CASE pool' = OnFrame(pool, i, unpin(f))
  <2> DEFINE g == unpin(f)
  <2>1. f.pin_count \in 0 .. MaxPins /\ f.pin_count - 1 \in 0 .. MaxPins
    BY <1>1, <1>2, BufferPoolAssumption DEF FrameType
  <2> HIDE DEF f
  <2>2. /\ g \in FrameType /\ g.state = "Resident" /\ g.page = p
        /\ g.first = f.first /\ g.last = f.last /\ g.image = f.image
    BY <1>1, <1>2, <2>1 DEF unpin, FrameType
  <2> HIDE DEF g
  <2>3. Replaces(g, f) /\ Faithful(g, store[p], applied[p], wal.durable)
    BY <1>1, <1>2, <1>4, <2>2 DEF Replaces, FrameOK, Faithful
  <2>4. pool' = Replaced(pool, i, g)
    BY <1>1, <1>6, <2>2, <2>3, OnFrameReplaces, Zenon DEF f, g
  <2> QED
    BY <1>1, <1>2, <1>5, <2>2, <2>3, <2>4, ReplacedInv DEF f
<1>7. ASSUME NEW lsn \in 1 .. wal.end, CanMarkDirty(f, lsn),
             pool' = [OnFrame(pool, i, unpin(mark_dirty(f, lsn)))
                        EXCEPT !.dirty_pages[f.page] = TrackDirty(@, lsn)]
      PROVE  PoolInv'
  <2> DEFINE m == mark_dirty(f, lsn)
             g == unpin(m)
  <2>1. lsn \in Lsn /\ lsn >= f.last /\ lsn \in 1 .. MaxLsn /\ MaxLsn \in Nat
    BY <1>1, <1>7, BufferPoolAssumption DEF Lsn, CanMarkDirty
  <2> HIDE DEF f
  <2>2. /\ m \in FrameType
        /\ m.state = "Resident" /\ m.page = p /\ m.image = f.image
        /\ m.pin_count = f.pin_count
        /\ m.last = lsn /\ m.first \in 1 .. lsn
        /\ f.last # NoLsn => m.first = f.first
        /\ TrackDirty([first |-> f.first, last |-> f.last], lsn) =
             [first |-> m.first, last |-> m.last]
    BY <1>1, <1>2, <2>1, MarkedFrame
  <2> HIDE DEF m
  <2>3. m.pin_count - 1 \in 0 .. MaxPins
    BY <1>1, <1>2, <2>2, BufferPoolAssumption DEF FrameType
  <2>4. /\ g \in FrameType /\ g.state = "Resident" /\ g.page = p /\ g.image = f.image
        /\ g.first = m.first /\ g.last = lsn
    BY <2>2, <2>3 DEF unpin, FrameType
  <2> HIDE DEF g
  <2>5. Replaces(g, f)
    BY <1>1, <1>2, <1>3, <2>1, <2>2, <2>4 DEF Replaces, FrameOK, NoLsn
  <2>6. OnFrame(pool, i, g).dirty_pages = pool.dirty_pages
    BY <1>1 DEF OnFrame, PoolType
  <2>7. pool' = [OnFrame(pool, i, g) EXCEPT !.dirty_pages[g.page] = [first |-> g.first, last |-> g.last]]
    BY <1>3, <1>7, <2>2, <2>4, <2>6 DEF g, m
  <2>8. pool' = Replaced(pool, i, g)
    BY <1>1, <2>5, <2>7, OnFrameReplaces DEF f
  <2>9. Faithful(g, store[p], applied[p], wal.durable)
    <3>1. \A c \in applied[p] : c \in 1 .. MaxLsn
      BY <1>1, <1>3 DEF Lsn
    <3>2. f.last \in 0 .. MaxLsn /\ wal.durable \in 0 .. MaxLsn
      BY <1>1 DEF FrameType, PoolInv, Around
    <3>3. \A c \in applied[p] : c <= g.last \/ c <= wal.durable
      BY <1>4, <2>1, <2>4, <3>1, <3>2 DEF Faithful
    <3>4. store[p] # Torn => \A c \in applied[p] \ store[p].changes : g.first <= c
      BY <1>4, <2>2, <2>4 DEF Faithful
    <3>5. g.last # NoLsn
      BY <2>1, <2>4 DEF NoLsn
    <3> QED
      BY <1>4, <2>4, <3>3, <3>4, <3>5 DEF Faithful
  <2> QED
    BY <1>1, <1>2, <1>5, <2>4, <2>5, <2>8, <2>9, ReplacedInv DEF f
<1> QED
  BY <1>6, <1>7 DEF unpin_page

\* new_page puts the same zeroed page into the store and into a frame.
LEMMA NewPageStep ==
  ASSUME PoolInv, NEW p \in Page, NEW lsn \in AllocLsn, NEW pins \in {0, 1}, new_page(p, lsn, pins)
  PROVE  PoolInv'
<1> DEFINE img == Fresh(lsn)
           pl == admit_image(pool, p, img)
           i == pl.page_table[p]
           f == with_image(p, img)
           g == [pin(pl.frames[i]) EXCEPT !.pin_count = pins]
<1>1. img \in Image /\ img.changes = {}
  BY BufferPoolAssumption DEF Fresh, Image, Lsn
<1>2. /\ pool.page_table[p] = NoFrame /\ CanReuse(pool)
      /\ store' = [store EXCEPT ![p] = img] /\ applied' = [applied EXCEPT ![p] = {}]
      /\ known' = known \cup {p} /\ UNCHANGED <<flush, wal>>
      /\ pool' = OnFrame(pl, i, g)
  BY DEF new_page, CanAllocate, IsResident
<1>3. /\ Tables(pool) /\ Content(pool, store, applied, wal.durable)
      /\ store \in StoreType /\ applied \in [Page -> SUBSET Lsn]
  BY DEF PoolInv, Around
<1>4. /\ \A q \in Page \ {p} : store'[q] = store[q] /\ applied'[q] = applied[q]
      /\ store'[p] = img /\ applied'[p] = {}
      /\ store' \in StoreType /\ applied' \in [Page -> SUBSET Lsn]
  BY <1>1, <1>2, <1>3 DEF StoreType
<1> HIDE DEF img
<1>5. /\ Tables(pl) /\ Content(pl, store', applied', wal.durable)
      /\ i \in Frame /\ pl.frames[i] = f
      /\ \A q \in Page \ {p} : pool.page_table[q] = NoFrame => pl.page_table[q] = NoFrame
  <2>1. store'[p].changes = img.changes /\ store'[p].changes = applied'[p]
        /\ \A c \in img.changes : c <= wal.durable
    BY <1>1, <1>4
  <2>2. pool.page_table[p] = NoFrame /\ CanReuse(pool)
    BY <1>2
  <2>3. \A q \in Page \ {p} : store'[q] = store[q] /\ applied'[q] = applied[q]
    BY <1>4
  <2>4. Content(pool, store', applied', wal.durable)
    BY <1>3, <2>1, <2>2, <2>3, AbsentContent
  <2>5. img \in Image
    BY <1>1
  <2>6. Admits(admit_image(pool, p, img), pool, p, img, store', applied', wal.durable)
    BY <1>3, <2>1, <2>2, <2>4, <2>5, Admitted, Zenon
  <2> QED
    BY <2>6 DEF Admits
<1> HIDE DEF pl, i
<1>6. /\ f \in FrameType /\ FrameOK(f)
      /\ f.state = "Resident" /\ f.page = p /\ f.image = img
      /\ f.first = NoLsn /\ f.last = NoLsn /\ f.pin_count = 0
  BY <1>1, ImageFrame
<1>7. CanPin(f) /\ pins \in 0 .. MaxPins
  BY <1>6, BufferPoolAssumption DEF CanPin
<1> HIDE DEF f
<1>8. /\ pin(f) \in FrameType
      /\ pin(f).state = "Resident" /\ pin(f).page = p /\ pin(f).image = img
      /\ pin(f).first = f.first /\ pin(f).last = f.last
  BY <1>6, <1>7, PinnedFrame
<1>9. /\ g \in FrameType /\ g.state = "Resident" /\ g.page = p /\ g.image = img
      /\ g.first = NoLsn /\ g.last = NoLsn
  BY <1>5, <1>6, <1>7, <1>8 DEF FrameType
<1> HIDE DEF g
<1>10. Replaces(g, f)
  BY <1>1, <1>6, <1>9 DEF Replaces, FrameOK
<1>11. pool' = Replaced(pl, i, g)
  <2>1. Replaces(g, pl.frames[i]) /\ pl.frames[i].first = g.first /\ pl.frames[i].last = g.last
    BY <1>5, <1>6, <1>9, <1>10
  <2> QED
    BY <1>2, <1>5, <2>1, OnFrameReplaces, Zenon
<1>12. Faithful(g, store'[p], applied'[p], wal.durable)
  BY <1>1, <1>4, <1>9 DEF Faithful
<1>13. Tables(pool') /\ Content(pool', store', applied', wal.durable)
  BY <1>5, <1>9, <1>10, <1>11, <1>12, ReplacedTables, ReplacedContent
<1>14. pool'.page_table = pl.page_table
  BY <1>11 DEF Replaced
<1>15. Around'
  BY <1>1, <1>2, <1>4, <1>5, <1>14 DEF PoolInv, Around
<1> QED
  BY <1>2, <1>13, <1>15 DEF PoolInv

\* A failed new_page leaves the pool alone, and no changes on disk.
LEMMA NewPageFailsStep ==
  ASSUME PoolInv, NEW p \in Page, NEW lsn \in AllocLsn, new_page_fails(p, lsn)
  PROVE  PoolInv'
<1>1. PICK img \in AfterFailedWrite(p, Fresh(lsn)) : store' = [store EXCEPT ![p] = img]
  BY Zenon DEF new_page_fails
<1>2. /\ pool.page_table[p] = NoFrame /\ p \notin known
      /\ UNCHANGED <<pool, flush, wal, known, applied>>
  BY DEF new_page_fails, CanAllocate, IsResident
<1>3. /\ Tables(pool) /\ Content(pool, store, applied, wal.durable)
      /\ store \in StoreType /\ store[p].changes = {} /\ applied[p] = {}
  BY <1>2 DEF PoolInv, Around
<1>4. img \in Image \cup {Unallocated, Torn} /\ img.changes = {}
  <2>1. Fresh(lsn) \in Image /\ Fresh(lsn).changes = {} /\ Torn.changes = {}
    BY BufferPoolAssumption DEF Fresh, Image, Lsn, Torn
  <2>2. store[p] \in Image \cup {Unallocated, Torn}
    BY <1>3 DEF StoreType
  <2> QED
    BY <2>1, <2>2, <1>1, <1>3 DEF AfterFailedWrite
<1>5. /\ \A q \in Page \ {p} : store'[q] = store[q]
      /\ store'[p].changes = {} /\ store' \in StoreType
  BY <1>1, <1>3, <1>4 DEF StoreType
<1>6. store'[p].changes = applied'[p]
      /\ \A q \in Page \ {p} : store'[q] = store[q] /\ applied'[q] = applied[q]
  BY <1>2, <1>3, <1>5
<1>7. Tables(pool) /\ Content(pool, store, applied, wal.durable) /\ pool.page_table[p] = NoFrame
  BY <1>2, <1>3
<1>8. Content(pool, store', applied', wal.durable)
  BY <1>6, <1>7, AbsentContent
<1>9. Around'
  <2>1. \A q \in Page : \A c \in store'[q].changes : c <= wal.durable
    BY <1>5 DEF PoolInv, Around
  <2>2. \A q \in Page \ known : store'[q].changes = {}
    BY <1>5 DEF PoolInv, Around
  <2> QED
    BY <1>2, <1>5, <2>1, <2>2, Zenon DEF PoolInv, Around
<1> QED
  BY <1>2, <1>7, <1>8, <1>9 DEF PoolInv

\* The candidate of a flush is one of the pages it has yet to visit.
LEMMA CandidateIsOne ==
  ASSUME PoolInv, flush.todo # {}
  PROVE  Candidate \in flush.todo /\ Candidate \in Page
<1> DEFINE First(p) == pool.dirty_pages[p].first
           firsts == {First(p) : p \in flush.todo}
<1>1. flush.todo \subseteq Page /\ \A p \in Page : First(p) \in Nat
  BY DEF PoolInv, Around, Tables, PoolType, Range, FlushType
<1>2. firsts \in SUBSET Nat /\ firsts # {}
  BY <1>1
<1> HIDE DEF First
<1>3. PICK a \in firsts : \A b \in firsts : a <= b
  <2> HIDE DEF firsts
  <2> QED BY <1>2, NatHasMin
<1> DEFINE oldest == {p \in flush.todo : First(p) = a}
<1>4. oldest \in SUBSET Nat /\ oldest # {}
  BY <1>1, <1>3, BufferPoolAssumption
<1>5. PICK p \in oldest : \A q \in oldest : p <= q
  <2> HIDE DEF oldest
  <2> QED BY <1>4, NatHasMin
<1>6. \A q \in flush.todo : Before(p, q)
  <2> TAKE q \in flush.todo
  <2>1. First(p) = a /\ a <= First(q) /\ p \in flush.todo
    BY <1>3, <1>5
  <2>2. First(q) = a => p <= q
    BY <1>5
  <2>3. a \in Nat /\ First(q) \in Nat
    BY <1>1, <2>1
  <2> HIDE DEF oldest, firsts
  <2>4. First(p) < First(q) \/ (First(p) = First(q) /\ p <= q)
    BY <2>1, <2>2, <2>3
  <2> QED
    BY <2>4 DEF Before, First
<1>7. p \in flush.todo
  OBVIOUS
<1> HIDE DEF oldest, firsts
<1>8. Candidate \in flush.todo
  BY <1>6, <1>7, Zenon DEF Candidate
<1> QED
  BY <1>1, <1>8

\* A flush passes over pages, or ends: the pages it has yet to visit stay pages.
LEMMA FlushTyped ==
  ASSUME PoolInv, NEW p
  PROVE  Passes(p) \in FlushType /\ Fails(p) \in FlushType /\ Idle \in FlushType
<1>1. flush \in FlushType
  BY DEF PoolInv, Around
<1>2. Passes(p) \in FlushType /\ Idle \in FlushType
  BY <1>1 DEF Passes, Idle, FlushType, Calls
<1> QED
  BY <1>2 DEF Fails

\* The frame of a candidate that can be written is dirty, and everything in it is durable.
LEMMA CandidateIsDurable ==
  ASSUME PoolInv, flush.todo # {}, IsReady(Candidate), CanWrite
  PROVE  LET p == Candidate
             i == pool.page_table[p]
             f == pool.frames[i]
         IN  /\ p \in Page /\ p \in known /\ i \in Frame
             /\ f \in FrameType /\ FrameOK(f) /\ f.image \in Image
             /\ f.state = "Resident" /\ f.page = p /\ f.last # NoLsn
             /\ pool.dirty_pages[p] = [first |-> f.first, last |-> f.last]
             /\ Faithful(f, store[p], applied[p], wal.durable)
             /\ f.image.changes = applied[p]
             /\ \A c \in applied[p] : c <= wal.durable
<1> DEFINE p == Candidate
           i == pool.page_table[p]
           f == pool.frames[i]
<1>1. p \in Page
  BY CandidateIsOne
<1>2. i # NoFrame /\ f.state = "Resident" /\ f.last # NoLsn /\ pool.dirty_pages[p].last <= wal.durable
  BY DEF CanWrite, IsResident, CandidateFrame, CanBeginFlush, IsDirty, IsReady
<1> HIDE DEF p
<1>3. Tables(pool) /\ Content(pool, store, applied, wal.durable) /\ pool \in PoolType
  BY DEF PoolInv, Tables
<1>4. i \in Frame
  BY <1>1, <1>2, <1>3, BufferPoolAssumption DEF PoolType, NoFrame, Frame
<1>5. /\ f \in FrameType /\ FrameOK(f) /\ f.page = p
      /\ pool.dirty_pages[p] = [first |-> f.first, last |-> f.last]
  <2>1. Agree(pool, i, p)
    BY <1>1, <1>3, <1>4, TablesSay
  <2> QED
    BY <1>2, <2>1 DEF Agree
<1>6. Faithful(f, store[p], applied[p], wal.durable)
  BY <1>1, <1>3, <1>4 DEF Content
<1>7. f.image \in Image /\ p \in known
  BY <1>1, <1>2, <1>5 DEF FrameOK, PoolInv, Around
<1> HIDE DEF f, i
<1>8. \A c \in applied[p] : c <= wal.durable
  <2> TAKE c \in applied[p]
  <2>1. c <= f.last \/ c <= wal.durable
    BY <1>6 DEF Faithful
  <2>2. f.last <= wal.durable
    BY <1>2, <1>5
  <2>3. c \in 1 .. MaxLsn /\ f.last \in 0 .. MaxLsn /\ wal.durable \in 0 .. MaxLsn
    BY <1>1, <1>5 DEF PoolInv, Around, Lsn, FrameType
  <2> QED
    BY <2>1, <2>2, <2>3, BufferPoolAssumption
<1>9. f.image.changes = applied[p]
  BY <1>6 DEF Faithful
<1> QED
  BY <1>1, <1>2, <1>4, <1>5, <1>6, <1>7, <1>8, <1>9, Zenon DEF p, i, f

\* A page in a frame may change in the store.
LEMMA StoreContent ==
  ASSUME NEW pl, NEW p \in Page, pl.page_table[p] \in Frame,
         NEW d1, NEW d2, NEW made, NEW dur, Content(pl, d1, made, dur),
         \A q \in Page \ {p} : d2[q] = d1[q],
         Faithful(pl.frames[pl.page_table[p]], d2[p], made[p], dur)
  PROVE  Content(pl, d2, made, dur)
<1>1. \A i \in Frame : i # NoFrame
  BY BufferPoolAssumption DEF Frame, NoFrame
<1> QED
  BY <1>1 DEF Content

\* A write that fails leaves the frame dirty, whatever it leaves on disk.
LEMMA WriteFailsStep ==
  ASSUME PoolInv, flush_write_fails
  PROVE  PoolInv'
<1> DEFINE p == Candidate
           i == pool.page_table[p]
           f == pool.frames[i]
<1>1. PICK img \in {store[p], f.image, Torn} : store' = [store EXCEPT ![p] = img]
  BY Zenon DEF flush_write_fails, AfterFailedWrite, CandidateFrame
<1>2. /\ p \in Page /\ p \in known /\ i \in Frame
      /\ f.image \in Image /\ f.last # NoLsn
      /\ Faithful(f, store[p], applied[p], wal.durable)
      /\ f.image.changes = applied[p]
      /\ \A c \in applied[p] : c <= wal.durable
  BY CandidateIsDurable DEF flush_write_fails
<1>3. flush' \in FlushType /\ UNCHANGED <<pool, wal, known, applied>>
  BY FlushTyped DEF flush_write_fails
<1> HIDE DEF p, i, f
<1>4. /\ store \in StoreType /\ img \in Image \cup {Unallocated, Torn}
      /\ \A q \in Page : \A c \in store[q].changes : c <= wal.durable
  BY <1>1, <1>2 DEF PoolInv, Around, StoreType
<1>5. /\ \A q \in Page \ {p} : store'[q] = store[q]
      /\ store'[p] = img /\ store' \in StoreType
  BY <1>1, <1>2, <1>4 DEF StoreType
<1>6. Faithful(f, store'[p], applied[p], wal.durable)
  BY <1>1, <1>2, <1>5 DEF Faithful
<1>7. Content(pool, store', applied, wal.durable)
  BY <1>2, <1>5, <1>6, StoreContent, Zenon DEF PoolInv, i, f
<1>8. \A c \in img.changes : c <= wal.durable
  BY <1>1, <1>2, <1>4 DEF Torn
<1>9. \A q \in Page : \A c \in store'[q].changes : c <= wal.durable
  BY <1>4, <1>5, <1>8
<1>10. Around'
  BY <1>2, <1>3, <1>5, <1>9 DEF PoolInv, Around
<1> QED
  BY <1>3, <1>7, <1>10 DEF PoolInv

\* A write that succeeds puts the image of the frame on disk, and the frame is clean.
LEMMA WriteStep ==
  ASSUME PoolInv, flush_writes
  PROVE  PoolInv'
<1> DEFINE p == Candidate
           i == pool.page_table[p]
           f == pool.frames[i]
           lsn == pool.dirty_pages[p].last
           g == [f EXCEPT !.first = NoLsn, !.last = NoLsn]
<1>1. /\ p \in Page /\ p \in known /\ i \in Frame
      /\ f \in FrameType /\ FrameOK(f) /\ f.image \in Image
      /\ f.state = "Resident" /\ f.page = p /\ f.last # NoLsn
      /\ pool.dirty_pages[p] = [first |-> f.first, last |-> f.last]
      /\ f.image.changes = applied[p]
      /\ \A c \in applied[p] : c <= wal.durable
  BY CandidateIsDurable DEF flush_writes
<1>2. /\ store' = [store EXCEPT ![p] = f.image]
      /\ pool' = [OnFrame(pool, i, finish_flush(f, lsn))
                    EXCEPT !.dirty_pages[p] = IF CanFinishFlush(f, lsn) THEN NotDirty ELSE @]
      /\ flush' = Passes(p) \/ flush' = Fails(p)
      /\ UNCHANGED <<wal, known, applied>>
  BY Zenon DEF flush_writes, CandidateFrame
<1>3. flush' \in FlushType
  BY <1>2, FlushTyped
<1> HIDE DEF p, i, f
<1>4. CanFinishFlush(f, lsn)
  BY <1>1 DEF CanFinishFlush, IsDirty, FrameType
<1>5. finish_flush(f, lsn) = g
  BY <1>4 DEF finish_flush
<1>6. /\ g \in FrameType /\ g.state = "Resident" /\ g.page = p /\ g.image = f.image
      /\ g.first = NoLsn /\ g.last = NoLsn
  <2>1. NoLsn \in 0 .. MaxLsn
    BY BufferPoolAssumption DEF NoLsn
  <2>2. f \in FrameType /\ f.state = "Resident" /\ f.page = p
    BY <1>1
  <2> QED
    BY <2>1, <2>2, Zenon DEF FrameType
<1>7. pool' = [OnFrame(pool, i, g) EXCEPT !.dirty_pages[g.page] = [first |-> g.first, last |-> g.last]]
  BY <1>2, <1>4, <1>5, <1>6 DEF NotDirty
<1> HIDE DEF g, lsn
<1>8. Replaces(g, f) /\ Tables(pool) /\ Content(pool, store, applied, wal.durable)
  BY <1>1, <1>6 DEF Replaces, FrameOK, NoLsn, PoolInv
<1>9. pool' = Replaced(pool, i, g)
  BY <1>1, <1>7, <1>8, OnFrameReplaces DEF f
<1>10. /\ \A q \in Page \ {p} : store'[q] = store[q]
       /\ store'[p] = f.image /\ store' \in StoreType
  BY <1>1, <1>2 DEF PoolInv, Around, StoreType
<1>11. Faithful(g, store'[p], applied[p], wal.durable)
  BY <1>1, <1>6, <1>10 DEF Faithful
<1>12. Tables(pool')
  BY <1>1, <1>8, <1>9, ReplacedTables DEF f
<1>13. Content(pool', store', applied, wal.durable)
  BY <1>1, <1>6, <1>8, <1>9, <1>10, <1>11, ReplacedContent, Zenon DEF f
<1>14. \A q \in Page : \A c \in store'[q].changes : c <= wal.durable
  BY <1>1, <1>10 DEF PoolInv, Around
<1>15. pool'.page_table = pool.page_table
  BY <1>9, Zenon DEF Replaced
<1>16. Around'
  BY <1>1, <1>2, <1>3, <1>10, <1>14, <1>15 DEF PoolInv, Around
<1> QED
  BY <1>2, <1>12, <1>13, <1>16 DEF PoolInv

\* The steps that change the flush only.
LEMMA FlushOnlyStep ==
  ASSUME PoolInv,
         \/ \E call \in {"flush_dirty_frames", "flush_all_dirty_with_report"} : flush_starts(call)
         \/ flush_blocked \/ flush_refused \/ flush_returns
  PROVE  PoolInv'
<1>1. UNCHANGED <<pool, store, wal, known, applied>>
  BY DEF flush_starts, flush_blocked, flush_refused, flush_returns
<1>2. flush' \in FlushType
  <2>1. ASSUME NEW call \in {"flush_dirty_frames", "flush_all_dirty_with_report"},
               flush_starts(call)
        PROVE  flush' \in FlushType
    BY <2>1, Zenon DEF flush_starts, Tracked, Idle, FlushType, Calls
  <2>2. CASE flush_blocked \/ flush_refused \/ flush_returns
    BY <2>2, FlushTyped, Zenon DEF flush_blocked, flush_refused, flush_returns
  <2> QED
    BY <2>1, <2>2
<1> QED
  BY <1>1, <1>2, Zenon DEF PoolInv, Around

\* The WAL grows, and becomes durable.
LEMMA WalStep ==
  ASSUME PoolInv, append \/ \E lsn \in 0 .. MaxLsn : flush_through(lsn)
  PROVE  PoolInv'
<1>1. /\ UNCHANGED <<pool, flush, store, known, applied>>
      /\ wal \in [end : 0 .. MaxLsn, durable : 0 .. MaxLsn]
  BY DEF append, flush_through, PoolInv, Around
<1>2. wal' \in [end : 0 .. MaxLsn, durable : 0 .. MaxLsn] /\ wal.durable <= wal'.durable
  <2>1. CASE append
    BY <2>1, <1>1, BufferPoolAssumption DEF append
  <2>2. ASSUME NEW lsn \in 0 .. MaxLsn, flush_through(lsn)
        PROVE  wal' \in [end : 0 .. MaxLsn, durable : 0 .. MaxLsn] /\ wal.durable <= wal'.durable
    BY <2>2, <1>1, BufferPoolAssumption DEF flush_through
  <2> QED
    BY <2>1, <2>2
<1>3. \A c \in Lsn : c <= wal.durable => c <= wal'.durable
  BY <1>1, <1>2, BufferPoolAssumption DEF Lsn
<1>4. \A p \in Page : applied[p] \subseteq Lsn /\ store[p].changes \subseteq Lsn
  BY DEF PoolInv, Around, StoreType, Image, Unallocated, Torn
<1>5. Content(pool, store, applied, wal'.durable)
  BY <1>3, <1>4 DEF PoolInv, Content, Faithful
<1>6. \A p \in Page : \A c \in store[p].changes : c <= wal'.durable
  BY <1>3, <1>4 DEF PoolInv, Around
<1> QED
  BY <1>1, <1>2, <1>5, <1>6 DEF PoolInv, Around

\* An empty pool: every page is as it is in the store.
LEMMA EmptyPoolOK ==
  ASSUME NEW disk, NEW made, NEW dur, \A p \in Page : disk[p].changes = made[p]
  PROVE  /\ Tables(EmptyPool) /\ Content(EmptyPool, disk, made, dur)
         /\ \A p \in Page : EmptyPool.page_table[p] = NoFrame
<1>0. 0 \in 0 .. MaxLsn /\ 0 \in 0 .. MaxPins /\ NoFrame \in 0 .. FrameCount
  BY BufferPoolAssumption DEF NoFrame
<1>1. /\ EmptyPool.frames = [i \in Frame |-> FreeFrame]
      /\ EmptyPool.page_table = [p \in Page |-> NoFrame]
      /\ EmptyPool.dirty_pages = [p \in Page |-> NotDirty]
  BY Zenon DEF EmptyPool
<1>2. /\ FreeFrame \in FrameType /\ NotDirty \in Range /\ FreeFrame.state = "Free"
      /\ FreeFrame.first = 0 /\ FreeFrame.last = 0
  BY <1>0 DEF FreeFrame, FrameType, NotDirty, Range, NoLsn
<1>3. EmptyPool \in PoolType
  BY <1>0, <1>2 DEF EmptyPool, PoolType
<1>4. \A i \in Frame : i # NoFrame /\ EmptyPool.frames[i] = FreeFrame
  BY <1>1, BufferPoolAssumption DEF Frame, NoFrame
<1>5. \A p \in Page : EmptyPool.page_table[p] = NoFrame /\ EmptyPool.dirty_pages[p] = NotDirty
  BY <1>1
<1>6. FrameOK(FreeFrame)
  BY <1>2 DEF FrameOK, NoLsn
<1>7. Tables(EmptyPool)
  BY <1>2, <1>3, <1>4, <1>5, <1>6 DEF Tables
<1>8. Content(EmptyPool, disk, made, dur)
  BY <1>4, <1>5 DEF Content
<1> QED
  BY <1>5, <1>7, <1>8

\* The process stops: what is not durable is gone, and the pool is empty.
LEMMA CrashStep ==
  ASSUME PoolInv, NEW lsn \in 0 .. MaxLsn, Crash(lsn)
  PROVE  PoolInv'
<1>1. /\ wal.durable <= lsn /\ wal' = [end |-> lsn, durable |-> lsn] /\ pool' = EmptyPool
      /\ flush' = Idle /\ applied' = [p \in Page |-> store[p].changes] /\ UNCHANGED <<store, known>>
  BY DEF Crash
<1>2. /\ wal.durable \in 0 .. MaxLsn /\ store \in StoreType
      /\ \A p \in Page : store[p].changes \subseteq Lsn
      /\ \A p \in Page : \A c \in store[p].changes : c <= wal.durable
  <2>1. \A p \in Page : store[p] \in Image \cup {Unallocated, Torn}
    BY DEF PoolInv, Around, StoreType
  <2>2. \A img \in Image \cup {Unallocated, Torn} : img.changes \subseteq Lsn
    BY DEF Image, Unallocated, Torn
  <2> QED
    BY <2>1, <2>2 DEF PoolInv, Around
<1>3. wal'.durable = lsn /\ wal' \in [end : 0 .. MaxLsn, durable : 0 .. MaxLsn]
  BY <1>1
<1>4. \A p \in Page : applied'[p] = store[p].changes
  BY <1>1
<1>5. \A p \in Page : \A c \in store[p].changes : c <= lsn
  BY <1>1, <1>2, BufferPoolAssumption DEF Lsn
<1>6. /\ Tables(EmptyPool) /\ Content(EmptyPool, store, applied', lsn)
      /\ \A p \in Page : EmptyPool.page_table[p] = NoFrame
  BY <1>4, EmptyPoolOK
<1>7. flush' \in FlushType
  BY <1>1, FlushTyped
<1>8. applied' \in [Page -> SUBSET Lsn]
  BY <1>1, <1>2
<1> QED
  BY <1>1, <1>3, <1>4, <1>5, <1>6, <1>7, <1>8 DEF PoolInv, Around

\* Every step of the pool, of a flush and of the WAL, and every crash, preserve the
\* invariant.
LEMMA PoolNextInv == PoolInv /\ [Next]_vars => PoolInv'
<1> SUFFICES ASSUME PoolInv, [Next]_vars PROVE PoolInv'
  OBVIOUS
<1>1. CASE UNCHANGED vars
  BY <1>1 DEF vars, PoolInv, Around
<1>2. ASSUME NEW p \in Page, fetch_page(p) \/ pin_page(p) PROVE PoolInv'
  BY <1>2, FetchStep
<1>3. ASSUME NEW p \in Page, NEW lsn \in Lsn, NEW changes \in BOOLEAN,
             fetch_page_mut(p, lsn, changes)
      PROVE  PoolInv'
  BY <1>3, MutStep
<1>4. ASSUME NEW p \in Page, NEW lsn \in AllocLsn, NEW pins \in {0, 1}, new_page(p, lsn, pins)
      PROVE  PoolInv'
  BY <1>4, NewPageStep
<1>5. ASSUME NEW p \in Page, NEW lsn \in AllocLsn, new_page_fails(p, lsn) PROVE PoolInv'
  BY <1>5, NewPageFailsStep
<1>6. ASSUME NEW i \in Frame, unpin_page(i) PROVE PoolInv'
  BY <1>6, UnpinStep
<1>7. ASSUME \/ \E call \in {"flush_dirty_frames", "flush_all_dirty_with_report"} : flush_starts(call)
             \/ flush_blocked \/ flush_refused \/ flush_returns
      PROVE  PoolInv'
  BY <1>7, FlushOnlyStep
<1>8. CASE flush_write_fails
  BY <1>8, WriteFailsStep
<1>9. CASE flush_writes
  BY <1>9, WriteStep
<1>10. ASSUME append \/ \E lsn \in 0 .. MaxLsn : flush_through(lsn) PROVE PoolInv'
  BY <1>10, WalStep
<1>11. ASSUME NEW lsn \in 0 .. MaxLsn, Crash(lsn) PROVE PoolInv'
  BY <1>11, CrashStep
<1> QED
  BY <1>1, <1>2, <1>3, <1>4, <1>5, <1>6, <1>7, <1>8, <1>9, <1>10, <1>11 DEF Next

\* An empty pool over an empty store satisfies the invariant.
LEMMA PoolInitInv == Init => PoolInv
<1> SUFFICES ASSUME Init PROVE PoolInv
  OBVIOUS
<1>1. /\ pool = EmptyPool /\ flush = Idle /\ store = [p \in Page |-> Unallocated]
      /\ wal = [end |-> 0, durable |-> 0] /\ known = {} /\ applied = [p \in Page |-> {}]
  BY DEF Init
<1>2. \A p \in Page : store[p].changes = {} /\ applied[p] = {}
  BY <1>1 DEF Unallocated
<1>3. /\ Tables(pool) /\ Content(pool, store, applied, wal.durable)
      /\ \A p \in Page : pool.page_table[p] = NoFrame
  BY <1>1, <1>2, EmptyPoolOK, Zenon
<1>4. store \in StoreType /\ flush \in FlushType /\ applied \in [Page -> SUBSET Lsn]
      /\ wal \in [end : 0 .. MaxLsn, durable : 0 .. MaxLsn]
  BY <1>1, BufferPoolAssumption DEF StoreType, FlushType, Calls, Idle
<1> QED
  BY <1>1, <1>2, <1>3, <1>4 DEF PoolInv, Around

\* The inductive invariant of the buffer pool.
THEOREM PoolInvariant == Spec => []PoolInv
  BY PoolInitInv, PoolNextInv, PTL DEF Spec

\* The page table, the frames and the dirty tracker never drift apart.
THEOREM TablesAlwaysAgree == Spec => []TablesAgree
<1>1. PoolInv => TablesAgree
  <2> SUFFICES ASSUME PoolInv PROVE TablesAgree
    OBVIOUS
  <2>1. Tables(pool) /\ pool \in PoolType
    BY DEF PoolInv, Tables
  <2>2. \A p \in Page : pool.page_table[p] # NoFrame => pool.page_table[p] \in Frame
    BY <2>1, BufferPoolAssumption DEF PoolType, NoFrame, Frame
  <2> QED
    BY <2>1, <2>2 DEF Tables, TablesAgree
<1> QED
  BY <1>1, PoolInvariant, PTL

\* No page on disk ever has a change whose WAL record a crash can still take away.
THEOREM WalAlwaysBeforePage == Spec => []WalBeforePage
<1>1. PoolInv => WalBeforePage
  BY DEF PoolInv, Around, WalBeforePage
<1> QED
  BY <1>1, PoolInvariant, PTL

\* No sequence of evictions, flushes and refused calls loses a change.
THEOREM UpdatesNeverLost == Spec => []NoLostUpdate
<1>1. PoolInv => NoLostUpdate
  <2> SUFFICES ASSUME PoolInv, NEW p \in known
               PROVE  LET img == IF IsResident(p) THEN pool.frames[pool.page_table[p]].image
                                 ELSE store[p]
                      IN  img.changes = applied[p]
    BY DEF NoLostUpdate
  <2>1. p \in Page /\ Tables(pool) /\ pool \in PoolType
    BY DEF PoolInv, Around, Tables
  <2>2. pool.page_table[p] # NoFrame => pool.page_table[p] \in Frame
    BY <2>1, BufferPoolAssumption DEF PoolType, NoFrame, Frame
  <2> QED
    BY <2>1, <2>2 DEF PoolInv, Content, Faithful, IsResident
<1> QED
  BY <1>1, PoolInvariant, PTL

\* A change missing on disk is one the tracker's first dirty LSN covers.
THEOREM TrackerAlwaysCovers == Spec => []FirstDirtyLsnCoversMissing
<1>1. PoolInv => FirstDirtyLsnCoversMissing
  <2> SUFFICES ASSUME PoolInv, NEW p \in Page, store[p] # Torn,
                      NEW c \in applied[p] \ store[p].changes
               PROVE  pool.dirty_pages[p].first \in 1 .. c
    BY DEF FirstDirtyLsnCoversMissing
  <2> DEFINE i == pool.page_table[p]
             f == pool.frames[i]
  <2>1. Tables(pool) /\ pool \in PoolType /\ Content(pool, store, applied, wal.durable)
    BY DEF PoolInv, Tables
  <2>2. i # NoFrame
    BY <2>1 DEF Content
  <2>3. i \in Frame
    BY <2>1, <2>2, BufferPoolAssumption DEF PoolType, NoFrame, Frame
  <2>4. pool.dirty_pages[p].first = f.first /\ FrameOK(f) /\ f \in FrameType
        /\ Faithful(f, store[p], applied[p], wal.durable)
    <3>1. pool.dirty_pages[p] = [first |-> f.first, last |-> f.last] /\ FrameOK(f)
      <4>1. Agree(pool, i, p)
        BY <2>1, <2>3, TablesSay
      <4> QED BY <4>1 DEF Agree
    <3>2. f \in FrameType
      BY <2>1, <2>3 DEF PoolType
    <3>3. Faithful(f, store[p], applied[p], wal.durable)
      BY <2>1, <2>3 DEF Content
    <3> HIDE DEF f
    <3> QED
      BY <3>1, <3>2, <3>3
  <2> HIDE DEF f
  <2>5. f.last # NoLsn /\ f.first <= c
    BY <2>4 DEF Faithful
  <2>6. c \in Nat /\ f.first \in Nat /\ f.first # 0
    BY <2>4, <2>5 DEF PoolInv, Around, Lsn, FrameOK, FrameType, NoLsn
  <2> QED
    BY <2>4, <2>5, <2>6
<1> QED
  BY <1>1, PoolInvariant, PTL
=============================================================================
