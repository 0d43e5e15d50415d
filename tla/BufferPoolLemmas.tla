-------------------------- MODULE BufferPoolLemmas --------------------------
(***************************************************************************)
(* Lemmas about BufferPool: the inductive invariant of its steps, and what *)
(* finding room, admitting a page and replacing a frame do to the tables   *)
(* of a pool, for every number of pages, frames, pins and LSNs.            *)
(***************************************************************************)
EXTENDS BufferPool, WellFoundedInduction, TLAPS

FrameType == [state : {"Free", "Resident"}, page : Page \cup {NoPage},
              page_lsn : 0 .. MaxLsn, pin_count : 0 .. MaxPins,
              first : 0 .. MaxLsn, last : 0 .. MaxLsn, clock_usage : BOOLEAN,
              image : Image \cup {Unallocated}]

Range == [first : 0 .. MaxLsn, last : 0 .. MaxLsn]

PoolType == [frames : [Frame -> FrameType], page_table : [Page -> 0 .. FrameCount],
             dirty_pages : [Page -> Range], cursor : Int]

StoreType == [Page -> Image \cup {Unallocated, Torn}]

Calls == {"none", "flush_dirty_frames", "flush_all_dirty_with_report"}
FlushType == [call : Calls, todo : SUBSET Page]

\* A frame is free, or it has a page and its image; no flush leaves it in Flushing.  Its
\* dirty range has both ends or none.
FrameOK(f) ==
  /\ f.state # "Free" => f.page \in Page /\ f.image \in Image
  /\ f.first <= f.last /\ (f.first = NoLsn <=> f.last = NoLsn)

\* The tables of a pool agree.
Tables(pl) ==
  /\ pl \in PoolType
  /\ \A i \in Frame : FrameOK(pl.frames[i])
  /\ \A p \in Page, i \in Frame :
       pl.page_table[p] = i <=> pl.frames[i].state # "Free" /\ pl.frames[i].page = p
  /\ \A p \in Page : pl.page_table[p] = NoFrame => pl.dirty_pages[p] = NotDirty
  /\ \A p \in Page, i \in Frame : pl.page_table[p] = i =>
       pl.dirty_pages[p] = [first |-> pl.frames[i].first, last |-> pl.frames[i].last]

\* A frame of a page that is disk in the store and has had the changes made: it has them
\* all, a clean frame has nothing the disk has not, the dirty range covers the changes
\* that are not durable, and begins before the changes that the disk does not have.
Faithful(f, disk, made, durable) ==
  /\ f.image.changes = made
  /\ f.last = NoLsn => disk.changes = made
  /\ \A c \in made : c <= f.last \/ c <= durable
  /\ disk # Torn => \A c \in made \ disk.changes : f.first <= c

\* Every page is in its frame, or as it was changed last in the store.
Content(pl, disk, made, durable) ==
  \A p \in Page :
    /\ pl.page_table[p] = NoFrame => disk[p].changes = made[p]
    /\ \A i \in Frame : pl.page_table[p] = i =>
         Faithful(pl.frames[i], disk[p], made[p], durable)

\* The rest of the state: what is on disk is durable, and a page that nobody was handed
\* is not in the pool and has no changes.
Around ==
  /\ store \in StoreType
  /\ wal \in [end : 0 .. MaxLsn, durable : 0 .. MaxLsn]
  /\ flush \in FlushType
  /\ known \subseteq Page
  /\ applied \in [Page -> SUBSET Lsn]
  /\ \A p \in Page : \A c \in store[p].changes : c <= wal.durable
  /\ \A p \in Page \ known :
       store[p].changes = {} /\ applied[p] = {} /\ pool.page_table[p] = NoFrame

PoolInv == Tables(pool) /\ Content(pool, store, applied, wal.durable) /\ Around

\* What the tables say of one frame and one page.
Agree(pl, i, p) ==
  /\ pl.frames[i] \in FrameType /\ FrameOK(pl.frames[i])
  /\ pl.page_table[p] = i <=> pl.frames[i].state # "Free" /\ pl.frames[i].page = p
  /\ pl.page_table[p] = NoFrame => pl.dirty_pages[p] = NotDirty
  /\ pl.page_table[p] = i =>
       pl.dirty_pages[p] = [first |-> pl.frames[i].first, last |-> pl.frames[i].last]

\* The tables, read for one frame and one page.
LEMMA TablesSay ==
  ASSUME NEW pl, Tables(pl), NEW i \in Frame, NEW p \in Page
  PROVE  Agree(pl, i, p)
<1>1. pl.frames \in [Frame -> FrameType]
  BY DEF Tables, PoolType
<1> QED
  BY <1>1 DEF Tables, Agree

\* A non-empty set of naturals has a least element.
LEMMA NatHasMin ==
  ASSUME NEW S \in SUBSET Nat, S # {}
  PROVE  \E x \in S : \A y \in S : x <= y
<1>1. PICK x \in S : \A y \in S : ~ (<<y, x>> \in OpToRel(<, Nat))
  BY NatLessThanWellFounded, WFMin, Zenon
<1>2. \A y \in S : ~ (y < x)
  BY <1>1, Zenon DEF OpToRel
<1>3. \A y \in S : x <= y
  BY <1>2
<1> QED
  BY <1>3

-----------------------------------------------------------------------------
(* What the operators on a pool do to its tables and contents.             *)

\* The pool pl with the frame g in place i, and the dirty range of g for its page.
Replaced(pl, i, g) ==
  [frames |-> [pl.frames EXCEPT ![i] = g], page_table |-> pl.page_table,
   dirty_pages |-> [pl.dirty_pages EXCEPT ![g.page] = [first |-> g.first, last |-> g.last]],
   cursor |-> pl.cursor]

\* g may take the place of the frame f of a page.
Replaces(g, f) ==
  /\ g \in FrameType /\ FrameOK(g)
  /\ f.state = "Resident" /\ g.state = "Resident" /\ g.page = f.page

\* A frame that is replaced by one of the same page leaves the tables in agreement.
LEMMA ReplacedTables ==
  ASSUME NEW pl, Tables(pl), NEW i \in Frame, NEW g, Replaces(g, pl.frames[i])
  PROVE  Tables(Replaced(pl, i, g))
<1> DEFINE new == Replaced(pl, i, g)
<1> USE DEF NoFrame, Frame
<1>1. g.page \in Page /\ pl.page_table[g.page] = i /\ pl.frames \in [Frame -> FrameType]
      /\ pl.page_table \in [Page -> 0 .. FrameCount] /\ pl.dirty_pages \in [Page -> Range]
      /\ pl.cursor \in Int
  BY DEF Tables, Replaces, PoolType, FrameOK
<1>2. new.frames = [pl.frames EXCEPT ![i] = g] /\ new.page_table = pl.page_table
      /\ new.dirty_pages = [pl.dirty_pages EXCEPT ![g.page] = [first |-> g.first, last |-> g.last]]
  BY DEF Replaced
<1>3. g \in FrameType /\ g.first \in 0 .. MaxLsn /\ g.last \in 0 .. MaxLsn
  BY DEF Replaces, FrameType
<1>4. new \in PoolType
  BY <1>1, <1>3 DEF Replaced, PoolType, Range
<1>5. \A j \in Frame : new.frames[j] = IF j = i THEN g ELSE pl.frames[j]
  BY <1>1, <1>2, Zenon
<1>6. \A p \in Page : new.dirty_pages[p] =
        IF p = g.page THEN [first |-> g.first, last |-> g.last] ELSE pl.dirty_pages[p]
  BY <1>1, <1>2
<1>7. \A j \in Frame : FrameOK(new.frames[j])
  BY <1>5 DEF Tables, Replaces
<1>8. \A p \in Page, j \in Frame :
        new.page_table[p] = j <=> new.frames[j].state # "Free" /\ new.frames[j].page = p
  BY <1>2, <1>5 DEF Tables, Replaces
<1>9. \A p \in Page : new.page_table[p] = NoFrame => new.dirty_pages[p] = NotDirty
  BY <1>1, <1>2, <1>6, BufferPoolAssumption DEF Tables
<1>10. \A p \in Page, j \in Frame : new.page_table[p] = j =>
         new.dirty_pages[p] = [first |-> new.frames[j].first, last |-> new.frames[j].last]
  BY <1>1, <1>2, <1>5, <1>6 DEF Tables
<1> HIDE DEF new
<1>11. Tables(new)
  BY <1>4, <1>7, <1>8, <1>9, <1>10 DEF Tables
<1> QED
  BY <1>11 DEF new

\* The contents of a pool depend on the frame of each page only.
LEMMA ReplacedContent ==
  ASSUME NEW pl, Tables(pl), NEW i \in Frame, NEW g, Replaces(g, pl.frames[i]),
         NEW d1, NEW d2, NEW m1, NEW m2, NEW dur,
         Content(pl, d1, m1, dur),
         \A p \in Page \ {g.page} : d2[p] = d1[p] /\ m2[p] = m1[p],
         Faithful(g, d2[g.page], m2[g.page], dur)
  PROVE  Content(Replaced(pl, i, g), d2, m2, dur)
<1> DEFINE new == Replaced(pl, i, g)
<1> USE DEF NoFrame, Frame
<1>1. g.page \in Page /\ pl.page_table[g.page] = i /\ pl.frames \in [Frame -> FrameType]
  BY DEF Tables, Replaces, PoolType, FrameOK
<1>2. new.frames = [pl.frames EXCEPT ![i] = g] /\ new.page_table = pl.page_table
  BY DEF Replaced
<1>3. \A j \in Frame : new.frames[j] = IF j = i THEN g ELSE pl.frames[j]
  BY <1>1, <1>2, Zenon
<1>4. \A p \in Page : p # g.page => pl.page_table[p] # i
  BY <1>1 DEF Tables, Replaces
<1> HIDE DEF new
<1>5. Content(new, d2, m2, dur)
  BY <1>1, <1>2, <1>3, <1>4, BufferPoolAssumption DEF Content
<1> QED
  BY <1>5 DEF new

\* A page that is in no frame may change in the store and in what was made of it.
LEMMA AbsentContent ==
  ASSUME NEW pl, Tables(pl), NEW p \in Page, pl.page_table[p] = NoFrame,
         NEW d1, NEW d2, NEW m1, NEW m2, NEW dur, Content(pl, d1, m1, dur),
         \A q \in Page \ {p} : d2[q] = d1[q] /\ m2[q] = m1[q],
         d2[p].changes = m2[p]
  PROVE  Content(pl, d2, m2, dur)
<1>1. \A i \in Frame : i # NoFrame
  BY BufferPoolAssumption DEF Frame, NoFrame
<1> QED
  BY <1>1 DEF Content

\* The Clock hand stops at a frame that it may take.
LEMMA FirstMetIsOne ==
  ASSUME NEW pl, pl.cursor \in Int, NEW S \in SUBSET Frame, S # {}
  PROVE  FirstMet(pl, S) \in S
<1> DEFINE T == {Turns(pl, i) : i \in S}
<1>1. \A i \in S : Turns(pl, i) \in Nat
  BY BufferPoolAssumption DEF Turns, Frame
<1>2. T \in SUBSET Nat /\ T # {}
  BY <1>1
<1>3. PICK t \in T : \A u \in T : t <= u
  <2> HIDE DEF T
  <2> QED BY <1>2, NatHasMin
<1>4. PICK i \in S : t = Turns(pl, i)
  OBVIOUS
<1>5. \A j \in S : Turns(pl, i) <= Turns(pl, j)
  BY <1>3, <1>4
<1> HIDE DEF T
<1> QED
  BY <1>5, Zenon DEF FirstMet

\* g is the frame f, but for the usage bit of the Clock.
SameButUsage(f, g) ==
  /\ g \in FrameType
  /\ g.state = f.state /\ g.page = f.page /\ g.page_lsn = f.page_lsn
  /\ g.pin_count = f.pin_count /\ g.first = f.first /\ g.last = f.last /\ g.image = f.image

\* select_victim finds a clean unpinned frame, and takes nothing but usage bits.
LEMMA VictimIsClean ==
  ASSUME NEW pl, pl \in PoolType, Evictable(pl) # {}
  PROVE  LET sel == select_victim(pl)
         IN  /\ sel.index \in Evictable(pl)
             /\ sel.pool \in PoolType
             /\ \A j \in Frame : SameButUsage(pl.frames[j], sel.pool.frames[j])
             /\ sel.pool.page_table = pl.page_table
             /\ sel.pool.dirty_pages = pl.dirty_pages
<1> DEFINE unused == {i \in Evictable(pl) : ~pl.frames[i].clock_usage}
           among == IF unused = {} THEN Evictable(pl) ELSE unused
           victim == FirstMet(pl, among)
           passed == {j \in Evictable(pl) : unused = {} \/ Turns(pl, j) < Turns(pl, victim)}
           cleared == [j \in Frame |-> [pl.frames[j] EXCEPT !.clock_usage = @ /\ j \notin passed]]
           next == (victim + 1) % FrameCount
<1>1. among \in SUBSET Frame /\ among # {} /\ among \subseteq Evictable(pl)
  BY DEF Evictable
<1>2. pl.cursor \in Int /\ pl.frames \in [Frame -> FrameType]
  BY DEF PoolType
<1>3. victim \in Evictable(pl) /\ victim \in Frame
  <2> HIDE DEF among
  <2> QED BY <1>1, <1>2, FirstMetIsOne
<1>4. next \in Int
  <2> HIDE DEF victim
  <2> QED BY <1>3, BufferPoolAssumption DEF Frame
<1> HIDE DEF victim, next, passed, unused, among
<1>5. \A j \in Frame : SameButUsage(pl.frames[j], cleared[j])
  <2> TAKE j \in Frame
  <2> DEFINE f == pl.frames[j]
             bit == f.clock_usage /\ j \notin passed
             g == [f EXCEPT !.clock_usage = bit]
  <2>1. f \in FrameType
    BY <1>2
  <2>2. bit \in BOOLEAN
    OBVIOUS
  <2>3. cleared[j] = g
    OBVIOUS
  <2> HIDE DEF bit, f
  <2>4. SameButUsage(f, g)
    BY <2>1, <2>2 DEF SameButUsage, FrameType
  <2> QED
    BY <2>3, <2>4 DEF f
<1>6. cleared \in [Frame -> FrameType]
  BY <1>5 DEF SameButUsage
<1>7. select_victim(pl) =
        [index |-> victim, pool |-> [pl EXCEPT !.frames = cleared, !.cursor = next]]
  BY DEF select_victim, victim, next, passed, unused, among
<1> HIDE DEF cleared
<1> DEFINE new == [pl EXCEPT !.frames = cleared, !.cursor = next]
<1>8. new \in PoolType
  BY <1>4, <1>6, Zenon DEF PoolType
<1>9. new.frames = cleared /\ new.page_table = pl.page_table /\ new.dirty_pages = pl.dirty_pages
  BY DEF PoolType
<1>10. select_victim(pl).index = victim /\ select_victim(pl).pool = new
  BY <1>7
<1> HIDE DEF new
<1> QED
  BY <1>3, <1>5, <1>8, <1>9, <1>10

\* A frame may be taken from pl: r.index is free in r.pool, whose tables agree, which
\* has no page that pl has not, and loses no change.
MakesRoom(r, pl, disk, made, durable) ==
  /\ r.index \in Frame /\ r.pool.frames[r.index].state = "Free"
  /\ Tables(r.pool) /\ Content(r.pool, disk, made, durable)
  /\ \A p \in Page : pl.page_table[p] = NoFrame => r.pool.page_table[p] = NoFrame

\* The victim's frame can be reused: its page is as it was changed last in the store.
LEMMA EvictMakesRoom ==
  ASSUME NEW pl, Tables(pl), Evictable(pl) # {},
         NEW disk, NEW made, NEW durable, Content(pl, disk, made, durable)
  PROVE  MakesRoom([index |-> select_victim(pl).index, pool |-> evict(select_victim(pl))],
                   pl, disk, made, durable)
<1> DEFINE sel == select_victim(pl)
           i == sel.index
           v == sel.pool.frames[i].page
           new == evict(sel)
<1> USE DEF NoFrame, Frame
<1>0. pl \in PoolType
  BY DEF Tables
<1>1. /\ i \in Evictable(pl) /\ i \in Frame
      /\ sel.pool \in PoolType
      /\ \A j \in Frame : SameButUsage(pl.frames[j], sel.pool.frames[j])
      /\ sel.pool.page_table = pl.page_table
      /\ sel.pool.dirty_pages = pl.dirty_pages
  BY <1>0, VictimIsClean DEF Evictable
<1>2. pl.frames[i].state = "Resident" /\ pl.frames[i].last = NoLsn
  BY <1>1 DEF Evictable, is_clean_unpinned_resident, IsDirty
<1>3. v = pl.frames[i].page /\ v \in Page /\ pl.page_table[v] = i
  <2>1. v = pl.frames[i].page
    BY <1>1 DEF SameButUsage
  <2>2. FrameOK(pl.frames[i])
    BY <1>1 DEF Tables
  <2>3. v \in Page
    BY <1>2, <2>1, <2>2 DEF FrameOK
  <2> HIDE DEF v, i
  <2>4. Agree(pl, i, v)
    BY <1>1, <2>3, TablesSay
  <2> QED
    BY <1>2, <2>1, <2>3, <2>4 DEF Agree
<1>4. new = [sel.pool EXCEPT !.frames[i] = FreeFrame,
                             !.page_table[v] = NoFrame, !.dirty_pages[v] = NotDirty]
  BY DEF evict
<1> HIDE DEF sel, v, i
<1>5. /\ new.frames = [sel.pool.frames EXCEPT ![i] = FreeFrame]
      /\ new.page_table = [pl.page_table EXCEPT ![v] = NoFrame]
      /\ new.dirty_pages = [pl.dirty_pages EXCEPT ![v] = NotDirty]
      /\ new.cursor = sel.pool.cursor
      /\ new = [frames |-> new.frames, page_table |-> new.page_table,
                dirty_pages |-> new.dirty_pages, cursor |-> new.cursor]
  BY <1>1, <1>4, Zenon DEF PoolType
<1>6. FreeFrame \in FrameType /\ NotDirty \in Range /\ FreeFrame.state = "Free"
      /\ FreeFrame.first = 0 /\ FreeFrame.last = 0
  BY BufferPoolAssumption DEF FreeFrame, FrameType, NotDirty, Range, NoPage, NoLsn
<1> HIDE DEF new
<1>7. /\ sel.pool.frames \in [Frame -> FrameType] /\ sel.pool.cursor \in Int
      /\ pl.page_table \in [Page -> 0 .. FrameCount] /\ pl.dirty_pages \in [Page -> Range]
  BY <1>0, <1>1 DEF PoolType
<1>8. new \in PoolType
  <2>1. NoFrame \in 0 .. FrameCount
    BY BufferPoolAssumption
  <2>2. new.frames \in [Frame -> FrameType]
    BY <1>5, <1>6, <1>7, Zenon
  <2>3. new.page_table \in [Page -> 0 .. FrameCount]
    BY <2>1, <1>5, <1>7, Zenon
  <2>4. new.dirty_pages \in [Page -> Range] /\ new.cursor \in Int
    BY <1>5, <1>6, <1>7, Zenon
  <2> QED
    BY <2>2, <2>3, <2>4, <1>5 DEF PoolType
<1>9. /\ \A j \in Frame : IF j = i THEN new.frames[j] = FreeFrame
                          ELSE SameButUsage(pl.frames[j], new.frames[j])
      /\ \A p \in Page : new.page_table[p] = IF p = v THEN NoFrame ELSE pl.page_table[p]
      /\ \A p \in Page : new.dirty_pages[p] = IF p = v THEN NotDirty ELSE pl.dirty_pages[p]
  BY <1>1, <1>5, <1>7, Zenon
<1>10. \A j \in Frame : FrameOK(new.frames[j])
  BY <1>6, <1>9 DEF Tables, FrameOK, SameButUsage, NoLsn
<1>11. \A p \in Page, j \in Frame :
         new.page_table[p] = j <=> new.frames[j].state # "Free" /\ new.frames[j].page = p
  <2> TAKE p \in Page, j \in Frame
  <2>1. CASE j = i
    BY <2>1, <1>3, <1>6, <1>9, BufferPoolAssumption DEF Tables
  <2>2. CASE j # i
    BY <2>2, <1>3, <1>9, BufferPoolAssumption DEF Tables, SameButUsage
  <2> QED
    BY <2>1, <2>2
<1>12. \A p \in Page : new.page_table[p] = NoFrame => new.dirty_pages[p] = NotDirty
  BY <1>9 DEF Tables
<1>13. \A p \in Page, j \in Frame : new.page_table[p] = j =>
         new.dirty_pages[p] = [first |-> new.frames[j].first, last |-> new.frames[j].last]
  BY <1>3, <1>9, BufferPoolAssumption DEF Tables, SameButUsage
<1>14. Tables(new)
  BY <1>8, <1>10, <1>11, <1>12, <1>13 DEF Tables
<1>15. Content(new, disk, made, durable)
  <2> SUFFICES ASSUME NEW p \in Page
               PROVE  /\ new.page_table[p] = NoFrame => disk[p].changes = made[p]
                      /\ \A j \in Frame : new.page_table[p] = j =>
                           Faithful(new.frames[j], disk[p], made[p], durable)
    BY DEF Content
  <2>1. new.page_table[p] = NoFrame => disk[p].changes = made[p]
    BY <1>1, <1>2, <1>3, <1>9 DEF Content, Faithful
  <2>2. ASSUME NEW j \in Frame, new.page_table[p] = j
        PROVE  Faithful(new.frames[j], disk[p], made[p], durable)
    <3>1. p # v /\ pl.page_table[p] = j /\ j # i
      BY <2>2, <1>1, <1>3, <1>9, BufferPoolAssumption DEF Tables
    <3>2. Faithful(pl.frames[j], disk[p], made[p], durable)
      BY <3>1 DEF Content
    <3> QED
      BY <3>1, <3>2, <1>9 DEF Faithful, SameButUsage
  <2> QED
    BY <2>1, <2>2
<1> QED
  BY <1>1, <1>6, <1>9, <1>14, <1>15 DEF MakesRoom, sel, i, new

\* reusable_frame_index gives a free frame and loses no change.
LEMMA ReuseMakesRoom ==
  ASSUME NEW pl, Tables(pl), CanReuse(pl),
         NEW disk, NEW made, NEW durable, Content(pl, disk, made, durable)
  PROVE  MakesRoom(reusable_frame_index(pl), pl, disk, made, durable)
<1>1. CASE FreeFrames(pl) # {}
  <2> DEFINE i == CHOOSE k \in FreeFrames(pl) : \A j \in FreeFrames(pl) : k <= j
  <2>1. FreeFrames(pl) \in SUBSET Nat
    BY BufferPoolAssumption DEF FreeFrames, Frame
  <2>2. \E k \in FreeFrames(pl) : \A j \in FreeFrames(pl) : k <= j
    BY <1>1, <2>1, NatHasMin
  <2>3. i \in FreeFrames(pl)
    BY <2>2, Zenon
  <2>4. reusable_frame_index(pl) = [index |-> i, pool |-> pl]
    BY <1>1 DEF reusable_frame_index
  <2> HIDE DEF i
  <2> QED
    BY <2>3, <2>4 DEF MakesRoom, FreeFrames
<1>2. CASE FreeFrames(pl) = {}
  <2>1. Evictable(pl) # {}
    BY <1>2 DEF CanReuse
  <2>2. reusable_frame_index(pl) =
          [index |-> select_victim(pl).index, pool |-> evict(select_victim(pl))]
    BY <1>2 DEF reusable_frame_index
  <2> QED
    BY <2>1, <2>2, EvictMakesRoom
<1> QED
  BY <1>1, <1>2

\* with_image is a clean unpinned frame of the page.
LEMMA ImageFrame ==
  ASSUME NEW p \in Page, NEW img \in Image
  PROVE  LET g == with_image(p, img)
         IN  /\ g \in FrameType /\ FrameOK(g)
             /\ g.state = "Resident" /\ g.page = p /\ g.image = img
             /\ g.first = NoLsn /\ g.last = NoLsn /\ g.pin_count = 0
<1> DEFINE g == with_image(p, img)
<1>1. FreeFrame \in FrameType /\ FreeFrame.pin_count = 0
      /\ FreeFrame.first = NoLsn /\ FreeFrame.last = NoLsn
  BY BufferPoolAssumption DEF FreeFrame, FrameType, NoPage, NoLsn
<1>2. img.lsn \in 0 .. MaxLsn
  BY DEF Image, Lsn
<1>3. g = [FreeFrame EXCEPT !.state = "Resident", !.page = p, !.page_lsn = img.lsn,
                            !.clock_usage = TRUE, !.image = img]
  BY DEF with_image
<1> HIDE DEF g
<1>4. /\ g \in FrameType
      /\ g.state = "Resident" /\ g.page = p /\ g.image = img
      /\ g.first = NoLsn /\ g.last = NoLsn /\ g.pin_count = 0
  BY <1>1, <1>2, <1>3, Zenon DEF FrameType
<1>5. FrameOK(g)
  BY <1>4 DEF FrameOK, NoLsn
<1> QED
  BY <1>4, <1>5 DEF g

\* new is pl with the page p in a frame for img: the other pages of pl stay in their
\* frames or are as they were changed last in the store.
Admits(new, pl, p, img, disk, made, dur) ==
  /\ Tables(new) /\ Content(new, disk, made, dur)
  /\ new.page_table[p] \in Frame
  /\ new.frames[new.page_table[p]] = with_image(p, img)
  /\ \A q \in Page \ {p} : pl.page_table[q] = NoFrame => new.page_table[q] = NoFrame

\* admit_image gives a page that is not in the pool a frame, and every other page stays
\* in its frame or is as it was changed last in the store.
LEMMA Admitted ==
  ASSUME NEW pl, Tables(pl), CanReuse(pl),
         NEW disk, NEW made, NEW dur, Content(pl, disk, made, dur),
         NEW p \in Page, pl.page_table[p] = NoFrame, NEW img \in Image,
         disk[p].changes = img.changes,
         \A c \in img.changes : c <= dur
  PROVE  Admits(admit_image(pl, p, img), pl, p, img, disk, made, dur)
<1> DEFINE r == reusable_frame_index(pl)
           i == r.index
           g == with_image(p, img)
           new == admit_image(pl, p, img)
<1> USE DEF NoFrame, Frame
<1>1. MakesRoom(r, pl, disk, made, dur)
  BY ReuseMakesRoom
<1>2. /\ g \in FrameType /\ FrameOK(g)
      /\ g.state = "Resident" /\ g.page = p /\ g.image = img
      /\ g.first = NoLsn /\ g.last = NoLsn /\ g.pin_count = 0
  BY ImageFrame
<1>3. new = [r.pool EXCEPT !.frames[i] = g, !.page_table[p] = i]
  BY DEF admit_image
<1> HIDE DEF r, g
<1>4. /\ i \in Frame /\ r.pool \in PoolType /\ Tables(r.pool) /\ Content(r.pool, disk, made, dur)
      /\ r.pool.frames[i].state = "Free" /\ r.pool.page_table[p] = NoFrame
      /\ i # NoFrame /\ i \in 0 .. FrameCount
  <2>1. i \in Frame /\ Tables(r.pool) /\ Content(r.pool, disk, made, dur)
        /\ r.pool.frames[i].state = "Free" /\ r.pool.page_table[p] = NoFrame
    BY <1>1 DEF MakesRoom
  <2>2. r.pool \in PoolType
    BY <2>1 DEF Tables
  <2> HIDE DEF i
  <2> QED
    BY <2>1, <2>2, BufferPoolAssumption
<1> HIDE DEF i
<1>5. /\ new.frames = [r.pool.frames EXCEPT ![i] = g]
      /\ new.page_table = [r.pool.page_table EXCEPT ![p] = i]
      /\ new.dirty_pages = r.pool.dirty_pages /\ new.cursor = r.pool.cursor
      /\ new = [frames |-> new.frames, page_table |-> new.page_table,
                dirty_pages |-> new.dirty_pages, cursor |-> new.cursor]
  BY <1>3, <1>4, Zenon DEF PoolType
<1> HIDE DEF new
<1>6. /\ r.pool.frames \in [Frame -> FrameType] /\ r.pool.cursor \in Int
      /\ r.pool.page_table \in [Page -> 0 .. FrameCount] /\ r.pool.dirty_pages \in [Page -> Range]
  BY <1>4 DEF PoolType
<1>7. new \in PoolType
  <2>1. new.frames \in [Frame -> FrameType] /\ new.page_table \in [Page -> 0 .. FrameCount]
        /\ new.dirty_pages \in [Page -> Range] /\ new.cursor \in Int
    BY <1>2, <1>4, <1>5, <1>6
  <2> QED
    BY <2>1, <1>5, Zenon DEF PoolType
<1>8. /\ \A j \in Frame : new.frames[j] = IF j = i THEN g ELSE r.pool.frames[j]
      /\ \A q \in Page : new.page_table[q] = IF q = p THEN i ELSE r.pool.page_table[q]
  BY <1>4, <1>5, <1>6
<1>9. \A j \in Frame : FrameOK(new.frames[j])
  <2> TAKE j \in Frame
  <2>1. Agree(r.pool, j, p)
    BY <1>4, TablesSay
  <2> QED
    BY <1>2, <1>8, <2>1 DEF Agree
<1>10. \A q \in Page, j \in Frame :
         new.page_table[q] = j <=> new.frames[j].state # "Free" /\ new.frames[j].page = q
  <2> TAKE q \in Page, j \in Frame
  <2>1. Agree(r.pool, j, q) /\ Agree(r.pool, j, p)
    BY <1>4, TablesSay
  <2>2. CASE j = i
    BY <2>1, <2>2, <1>2, <1>4, <1>8 DEF Agree
  <2>3. CASE j # i
    <3>1. j # NoFrame
      BY BufferPoolAssumption DEF Frame, NoFrame
    <3> QED
      BY <2>1, <2>3, <3>1, <1>4, <1>8 DEF Agree
  <2> QED
    BY <2>2, <2>3
<1>11. \A q \in Page : new.page_table[q] = NoFrame => new.dirty_pages[q] = NotDirty
  <2> TAKE q \in Page
  <2>1. Agree(r.pool, i, q)
    BY <1>4, TablesSay
  <2> QED
    BY <1>4, <1>5, <1>8, <2>1 DEF Agree
<1>12. \A q \in Page, j \in Frame : new.page_table[q] = j =>
         new.dirty_pages[q] = [first |-> new.frames[j].first, last |-> new.frames[j].last]
  <2> TAKE q \in Page, j \in Frame
  <2>1. CASE q = p
    <3>0. Agree(r.pool, i, p)
      BY <1>4, TablesSay
    <3>1. r.pool.dirty_pages[p] = NotDirty
      BY <1>4, <3>0 DEF Agree
    <3>2. new.page_table[q] = i /\ new.frames[i] = g /\ new.dirty_pages[q] = NotDirty
      BY <2>1, <1>4, <1>5, <1>8, <3>1
    <3> QED
      BY <1>2, <3>2 DEF NotDirty
  <2>2. CASE q # p
    <3>1. Agree(r.pool, i, q) /\ Agree(r.pool, j, q)
      BY <1>4, TablesSay
    <3>2. r.pool.page_table[q] # i
      BY <1>4, <3>1 DEF Agree
    <3> QED
      BY <2>2, <3>1, <3>2, <1>5, <1>8 DEF Agree
  <2> QED
    BY <2>1, <2>2
<1>13. Tables(new)
  BY <1>7, <1>9, <1>10, <1>11, <1>12 DEF Tables
<1>14. Faithful(g, disk[p], made[p], dur)
  BY <1>2 DEF Faithful, Content
<1>15. Content(new, disk, made, dur)
  <2> SUFFICES ASSUME NEW q \in Page
               PROVE  /\ new.page_table[q] = NoFrame => disk[q].changes = made[q]
                      /\ \A j \in Frame : new.page_table[q] = j =>
                           Faithful(new.frames[j], disk[q], made[q], dur)
    BY DEF Content
  <2>1. CASE q = p
    BY <2>1, <1>4, <1>8, <1>14
  <2>2. CASE q # p
    <3>1. Agree(r.pool, i, q)
      BY <1>4, TablesSay
    <3>2. r.pool.page_table[q] # i
      BY <2>2, <1>4, <3>1 DEF Agree
    <3>3. /\ r.pool.page_table[q] = NoFrame => disk[q].changes = made[q]
          /\ \A j \in Frame : r.pool.page_table[q] = j =>
               Faithful(r.pool.frames[j], disk[q], made[q], dur)
      BY <1>4 DEF Content
    <3>4. /\ new.page_table[q] = r.pool.page_table[q]
          /\ \A j \in Frame : j # i => new.frames[j] = r.pool.frames[j]
      BY <2>2, <1>8
    <3> QED
      BY <3>2, <3>3, <3>4
  <2> QED
    BY <2>1, <2>2
<1>16. /\ new.page_table[p] \in Frame /\ new.frames[new.page_table[p]] = g
       /\ \A q \in Page \ {p} : pl.page_table[q] = NoFrame => new.page_table[q] = NoFrame
  BY <1>1, <1>4, <1>8 DEF MakesRoom
<1> QED
  BY <1>13, <1>15, <1>16 DEF Admits, new, g

\* A pool with one frame changed, and the tracker changed along with it.
LEMMA OnFrameReplaces ==
  ASSUME NEW pl, Tables(pl), NEW i \in Frame, NEW g, Replaces(g, pl.frames[i]),
         NEW e, e = [first |-> g.first, last |-> g.last]
  PROVE  /\ [OnFrame(pl, i, g) EXCEPT !.dirty_pages[g.page] = e] = Replaced(pl, i, g)
         /\ pl.frames[i].first = g.first /\ pl.frames[i].last = g.last =>
              OnFrame(pl, i, g) = Replaced(pl, i, g)
<1>1. pl \in PoolType /\ g.page \in Page /\ pl.page_table[g.page] = i
  BY DEF Tables, Replaces, FrameOK
<1>2. pl = [frames |-> pl.frames, page_table |-> pl.page_table,
            dirty_pages |-> pl.dirty_pages, cursor |-> pl.cursor]
  BY <1>1 DEF PoolType
<1>3. OnFrame(pl, i, g) =
        [frames |-> [pl.frames EXCEPT ![i] = g], page_table |-> pl.page_table,
         dirty_pages |-> pl.dirty_pages, cursor |-> pl.cursor]
  BY <1>2 DEF OnFrame
<1>4. [OnFrame(pl, i, g) EXCEPT !.dirty_pages[g.page] = e] = Replaced(pl, i, g)
  BY <1>3 DEF Replaced
<1>5. ASSUME pl.frames[i].first = g.first /\ pl.frames[i].last = g.last
      PROVE  OnFrame(pl, i, g) = Replaced(pl, i, g)
  <2>1. pl.dirty_pages[g.page] = e /\ pl.dirty_pages \in [Page -> Range]
    BY <1>1, <1>5 DEF Tables, PoolType
  <2>2. [pl.dirty_pages EXCEPT ![g.page] = e] = pl.dirty_pages
    BY <2>1, <1>1
  <2> QED
    BY <1>3, <2>2 DEF Replaced
<1> QED
  BY <1>4, <1>5

\* After ensure_resident the page has a frame, and no change is lost.
LEMMA ResidentAfter ==
  ASSUME PoolInv, NEW p \in Page, CanEnsureResident(p)
  PROVE  LET pl == ensure_resident(p)
             i == pl.page_table[p]
         IN  /\ Tables(pl) /\ Content(pl, store, applied, wal.durable)
             /\ i \in Frame /\ pl.frames[i] \in FrameType /\ FrameOK(pl.frames[i])
             /\ pl.frames[i].state = "Resident" /\ pl.frames[i].page = p
             /\ pl.frames[i].image \in Image
             /\ Faithful(pl.frames[i], store[p], applied[p], wal.durable)
             /\ \A q \in Page \ {p} :
                  pool.page_table[q] = NoFrame => pl.page_table[q] = NoFrame
<1> DEFINE pl == ensure_resident(p)
           i == pl.page_table[p]
<1>1. /\ Tables(pl) /\ Content(pl, store, applied, wal.durable) /\ i \in Frame
      /\ \A q \in Page \ {p} : pool.page_table[q] = NoFrame => pl.page_table[q] = NoFrame
  <2>1. CASE IsResident(p)
    <3>1. pl = pool
      BY <2>1 DEF ensure_resident
    <3>2. pool.page_table[p] \in 0 .. FrameCount /\ pool.page_table[p] # NoFrame
      BY <2>1 DEF IsResident, PoolInv, Tables, PoolType
    <3>3. pool.page_table[p] \in Frame
      BY <3>2, BufferPoolAssumption DEF NoFrame, Frame
    <3> QED
      BY <3>1, <3>3 DEF PoolInv
  <2>2. CASE ~ IsResident(p)
    <3>1. pl = admit_image(pool, p, store[p])
      BY <2>2 DEF ensure_resident
    <3>2. pool.page_table[p] = NoFrame /\ store[p] \in Image /\ CanReuse(pool)
      BY <2>2 DEF CanEnsureResident, IsResident
    <3>3. applied[p] = store[p].changes /\ \A c \in store[p].changes : c <= wal.durable
      BY <3>2 DEF PoolInv, Content, Around
    <3>4. Tables(pool) /\ Content(pool, store, applied, wal.durable)
      BY DEF PoolInv
    <3>5. Admits(admit_image(pool, p, store[p]), pool, p, store[p], store, applied, wal.durable)
      BY <3>2, <3>3, <3>4, Admitted
    <3> HIDE DEF pl
    <3> QED
      BY <3>1, <3>5 DEF Admits
  <2> QED
    BY <2>1, <2>2
<1> HIDE DEF pl
<1>2. pl.frames[i] \in FrameType /\ FrameOK(pl.frames[i])
      /\ pl.frames[i].state # "Free" /\ pl.frames[i].page = p
  BY <1>1 DEF Tables, PoolType
<1>3. pl.frames[i].state = "Resident" /\ pl.frames[i].image \in Image
  BY <1>2 DEF FrameType, FrameOK
<1>4. Faithful(pl.frames[i], store[p], applied[p], wal.durable)
  BY <1>1 DEF Content
<1> QED
  BY <1>1, <1>2, <1>3, <1>4 DEF pl

\* A pin and its release leave everything else of a frame alone.
LEMMA PinnedFrame ==
  ASSUME NEW f \in FrameType, CanPin(f)
  PROVE  /\ SameButUsage(f, unpin(pin(f)))
         /\ pin(f) \in FrameType
         /\ pin(f).state = f.state /\ pin(f).page = f.page /\ pin(f).page_lsn = f.page_lsn
         /\ pin(f).first = f.first /\ pin(f).last = f.last /\ pin(f).image = f.image
         /\ pin(f).pin_count = f.pin_count + 1 /\ f.pin_count \in Nat
<1>1. f.pin_count \in 0 .. MaxPins /\ f.pin_count < MaxPins
  BY DEF FrameType, CanPin
<1>2. f.pin_count + 1 \in 0 .. MaxPins /\ (f.pin_count + 1) - 1 = f.pin_count
  BY <1>1, BufferPoolAssumption
<1>3. /\ pin(f) \in FrameType
      /\ pin(f).state = f.state /\ pin(f).page = f.page /\ pin(f).page_lsn = f.page_lsn
      /\ pin(f).first = f.first /\ pin(f).last = f.last /\ pin(f).image = f.image
      /\ pin(f).pin_count = f.pin_count + 1
  BY <1>2, Zenon DEF pin, FrameType
<1>4. SameButUsage(f, unpin(pin(f)))
  <2> DEFINE h == pin(f)
  <2> HIDE DEF h
  <2>1. /\ h \in FrameType
        /\ h.state = f.state /\ h.page = f.page /\ h.page_lsn = f.page_lsn
        /\ h.first = f.first /\ h.last = f.last /\ h.image = f.image
        /\ h.pin_count - 1 = f.pin_count /\ f.pin_count \in 0 .. MaxPins
    BY <1>1, <1>2, <1>3 DEF h
  <2>2. SameButUsage(f, unpin(h))
    BY <2>1 DEF SameButUsage, unpin, FrameType
  <2> QED
    BY <2>2 DEF h
<1> QED
  BY <1>1, <1>3, <1>4
=============================================================================
