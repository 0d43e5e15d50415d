---------------------------- MODULE BufferPool ----------------------------
(***************************************************************************)
(* The buffer pool of crates/andromeda-buffer-pool over the page store of  *)
(* crates/andromeda-disk-page-store: frames that hold pages, pins, dirty   *)
(* LSN ranges kept in the frame and in the dirty tracker, Clock            *)
(* replacement, and two flush loops that ask a WAL durability observer     *)
(* before they write a page.                                               *)
(*                                                                         *)
(* Every call holds the pool exclusively, so a call is one step; a flush   *)
(* is one step per candidate, because the WAL advances beside it.  The     *)
(* contents of a page are the LSNs of the changes made to it.              *)
(***************************************************************************)
EXTENDS Integers, FiniteSets

CONSTANTS Page,         \* page ids, which order flush candidates
          FrameCount,
          MaxPins,      \* the largest pin count (u32::MAX)
          MaxLsn,       \* the largest LSN
          Changed,      \* bound: the pages that callers change or mark dirty
          Stamped,      \* bound: the pages whose page LSN callers keep up to date
          AllocLsn      \* bound: the page LSNs with which callers allocate

ASSUME BufferPoolAssumption ==
  /\ Page \subseteq Nat \ {0}
  /\ FrameCount \in Nat \ {0}
  /\ MaxPins \in Nat \ {0}
  /\ MaxLsn \in Nat
  /\ Changed \subseteq Page /\ Stamped \subseteq Page /\ AllocLsn \subseteq 1 .. MaxLsn

VARIABLES pool,      \* frames, page_table, dirty_pages and the Clock cursor
          flush,     \* the flush call in progress, and the pages it has yet to visit
          store,     \* the pages on disk
          wal,       \* the WAL: its last LSN, and the LSN observers see as durable
          known,     \* history: the pages handed out to some caller
          applied    \* history: the changes made to each page, but for those a crash took

vars == <<pool, flush, store, wal, known, applied>>

Lsn == 1 .. MaxLsn
NoLsn == 0
Frame == 0 .. FrameCount - 1
NoFrame == FrameCount
NoPage == 0

Image == [lsn : Lsn, changes : SUBSET Lsn]
Unallocated == [lsn |-> 0, changes |-> {}]
Torn == [lsn |-> -1, changes |-> {}]    \* fails the integrity check of read_page

Fresh(lsn) == [lsn |-> lsn, changes |-> {}]

FreeFrame == [state |-> "Free", page |-> NoPage, page_lsn |-> NoLsn, pin_count |-> 0,
              first |-> NoLsn, last |-> NoLsn, clock_usage |-> FALSE,
              image |-> Unallocated]

\* A frame is dirty when it has a last dirty LSN.
IsDirty(f) == f.last # NoLsn

NotDirty == [first |-> NoLsn, last |-> NoLsn]
Idle == [call |-> "none", todo |-> {}]

EmptyPool == [frames |-> [i \in Frame |-> FreeFrame],
              page_table |-> [p \in Page |-> NoFrame],
              dirty_pages |-> [p \in Page |-> NotDirty],
              cursor |-> 0]

Init ==
  /\ pool = EmptyPool
  /\ flush = Idle
  /\ store = [p \in Page |-> Unallocated]
  /\ wal = [end |-> 0, durable |-> 0]
  /\ known = {}
  /\ applied = [p \in Page |-> {}]

-----------------------------------------------------------------------------
(* Frames.  Operators on a frame give the frame after the call.            *)

with_image(p, img) ==
  [FreeFrame EXCEPT !.state = "Resident", !.page = p, !.page_lsn = img.lsn,
                    !.clock_usage = TRUE, !.image = img]

CanPin(f) == f.state = "Resident" /\ f.pin_count < MaxPins
pin(f) == [f EXCEPT !.pin_count = @ + 1, !.clock_usage = TRUE]

CanUnpin(f) == f.state = "Resident" /\ f.pin_count > 0
unpin(f) == [f EXCEPT !.pin_count = @ - 1]

CanMarkDirty(f, lsn) ==
  /\ f.state = "Resident" /\ f.pin_count > 0
  /\ lsn >= f.page_lsn /\ lsn >= f.last

mark_dirty(f, lsn) ==
  [f EXCEPT !.first = IF IsDirty(f) THEN @ ELSE lsn, !.last = lsn, !.clock_usage = TRUE]

CanBeginFlush(f) == f.state = "Resident" /\ IsDirty(f) /\ f.pin_count = 0

\* A flush that does not cover the last dirty LSN leaves the frame in Flushing.
CanFinishFlush(f, lsn) == IsDirty(f) /\ lsn >= f.last
finish_flush(f, lsn) ==
  IF CanFinishFlush(f, lsn) THEN [f EXCEPT !.first = NoLsn, !.last = NoLsn]
  ELSE [f EXCEPT !.state = "Flushing"]

-----------------------------------------------------------------------------
(* The dirty tracker: one entry per dirty page.                            *)

\* Mutant: a later change replaces the range.
ForgetsFirst(e, lsn) == [first |-> lsn, last |-> lsn]

TrackDirty(e, lsn) ==
  IF e = NotDirty THEN [first |-> lsn, last |-> lsn]
  ELSE [first |-> IF lsn < e.first THEN lsn ELSE e.first,
        last |-> IF lsn > e.last THEN lsn ELSE e.last]

-----------------------------------------------------------------------------
(* Clock replacement.  The hand goes round at most twice, takes the usage  *)
(* bit of each frame it could evict, and stops at the first without one.   *)

\* Mutant: the hand does not look at dirtiness.
EvictsDirty(f) == f.state = "Resident" /\ f.pin_count = 0

is_clean_unpinned_resident(f) ==
  f.state = "Resident" /\ f.pin_count = 0 /\ ~IsDirty(f)

Evictable(pl) == {i \in Frame : is_clean_unpinned_resident(pl.frames[i])}
Turns(pl, i) == (i - pl.cursor) % FrameCount
FirstMet(pl, S) == CHOOSE i \in S : \A j \in S : Turns(pl, i) <= Turns(pl, j)

select_victim(pl) ==
  LET unused == {i \in Evictable(pl) : ~pl.frames[i].clock_usage}
      victim == FirstMet(pl, IF unused = {} THEN Evictable(pl) ELSE unused)
      passed == {j \in Evictable(pl) : unused = {} \/ Turns(pl, j) < Turns(pl, victim)}
  IN  [index |-> victim,
       pool |-> [pl EXCEPT
         !.frames = [j \in Frame |-> [pl.frames[j] EXCEPT !.clock_usage = @ /\ j \notin passed]],
         !.cursor = (victim + 1) % FrameCount]]

\* Mutant: the page stays in the page table.
LeavesMapping(sel) ==
  [sel.pool EXCEPT !.frames[sel.index] = FreeFrame,
                   !.dirty_pages[sel.pool.frames[sel.index].page] = NotDirty]

evict(sel) ==
  LET p == sel.pool.frames[sel.index].page
  IN  [sel.pool EXCEPT !.frames[sel.index] = FreeFrame,
                       !.page_table[p] = NoFrame, !.dirty_pages[p] = NotDirty]

\* The first free frame, or else the frame of the evicted victim.
FreeFrames(pl) == {i \in Frame : pl.frames[i].state = "Free"}
CanReuse(pl) == FreeFrames(pl) # {} \/ Evictable(pl) # {}
reusable_frame_index(pl) ==
  IF FreeFrames(pl) # {}
    THEN [index |-> CHOOSE i \in FreeFrames(pl) : \A j \in FreeFrames(pl) : i <= j,
          pool |-> pl]
    ELSE LET sel == select_victim(pl) IN [index |-> sel.index, pool |-> evict(sel)]

admit_image(pl, p, img) ==
  LET r == reusable_frame_index(pl)
  IN  [r.pool EXCEPT !.frames[r.index] = with_image(p, img), !.page_table[p] = r.index]

IsResident(p) == pool.page_table[p] # NoFrame
CanEnsureResident(p) ==
  IsResident(p) \/ (store[p] \in Image /\ CanReuse(pool))
ensure_resident(p) == IF IsResident(p) THEN pool ELSE admit_image(pool, p, store[p])

OnFrame(pl, i, f) == [pl EXCEPT !.frames[i] = f]

-----------------------------------------------------------------------------
(* Calls on the pool.  A call that fails without changing anything is no   *)
(* step.  A guard borrows the pool until it is dropped, so its pin is      *)
(* taken and given back within the call that fetches the page.             *)

Ready == flush.call = "none"

\* fetch_page, and fetch_page_mut whose guard is dropped unused.
fetch_page(p) ==
  LET pl == ensure_resident(p)
      i == pl.page_table[p]
  IN  /\ Ready /\ CanEnsureResident(p) /\ CanPin(pl.frames[i])
      /\ pool' = OnFrame(pl, i, unpin(pin(pl.frames[i])))
      /\ known' = known \cup {p}
      /\ UNCHANGED <<flush, store, wal, applied>>

\* fetch_page_mut and mark_dirty or dirty_image_mut on its guard: the caller changes
\* the image, and puts the LSN into its header or does not, or changes nothing.
fetch_page_mut(p, lsn, changes) ==
  LET pl == ensure_resident(p)
      i == pl.page_table[p]
      f == pin(pl.frames[i])
      img == IF changes
               THEN [lsn |-> IF p \in Stamped THEN lsn ELSE f.image.lsn,
                     changes |-> f.image.changes \cup {lsn}]
               ELSE f.image
  IN  /\ Ready /\ CanEnsureResident(p) /\ CanPin(pl.frames[i])
      /\ p \in Changed /\ lsn <= wal.end /\ CanMarkDirty(f, lsn)
      /\ pool' = [OnFrame(pl, i, unpin([mark_dirty(f, lsn) EXCEPT !.image = img]))
                    EXCEPT !.dirty_pages[p] = TrackDirty(@, lsn)]
      /\ applied' = [applied EXCEPT ![p] = img.changes]
      /\ known' = known \cup {p}
      /\ UNCHANGED <<flush, store, wal>>

pin_page(p) ==
  LET pl == ensure_resident(p)
      i == pl.page_table[p]
  IN  /\ Ready /\ CanEnsureResident(p) /\ CanPin(pl.frames[i])
      /\ pool' = OnFrame(pl, i, pin(pl.frames[i]))
      /\ known' = known \cup {p}
      /\ UNCHANGED <<flush, store, wal, applied>>

\* A dirty LSN the frame refuses is an error, and the pin stays.
unpin_page(i) ==
  LET f == pool.frames[i]
  IN  /\ Ready /\ CanUnpin(f)
      /\ \/ pool' = OnFrame(pool, i, unpin(f))
         \/ \E lsn \in 1 .. wal.end :
              /\ f.page \in Changed /\ CanMarkDirty(f, lsn)
              /\ pool' = [OnFrame(pool, i, unpin(mark_dirty(f, lsn)))
                            EXCEPT !.dirty_pages[f.page] = TrackDirty(@, lsn)]
      /\ UNCHANGED <<flush, store, wal, known, applied>>

\* What a page on disk may be after a write of img to it has failed.
AfterFailedWrite(p, img) == {store[p], img, Torn}

\* new_page writes the zeroed page with its own LSN as the durable LSN, and then
\* needs a frame.  The caller names a page that nobody was handed before.
CanAllocate(p) == Ready /\ p \notin known /\ ~IsResident(p)

new_page(p, lsn, pins) ==
  LET pl == admit_image(pool, p, Fresh(lsn))
      i == pl.page_table[p]
  IN  /\ CanAllocate(p) /\ lsn <= wal.end /\ CanReuse(pool)
      /\ store' = [store EXCEPT ![p] = Fresh(lsn)]
      /\ pool' = OnFrame(pl, i, [pin(pl.frames[i]) EXCEPT !.pin_count = pins])
      /\ known' = known \cup {p}
      /\ applied' = [applied EXCEPT ![p] = {}]
      /\ UNCHANGED <<flush, wal>>

\* The write fails, or it is done and there is no frame.
new_page_fails(p, lsn) ==
  /\ CanAllocate(p) /\ lsn <= wal.end
  /\ \E img \in AfterFailedWrite(p, Fresh(lsn)) : store' = [store EXCEPT ![p] = img]
  /\ UNCHANGED <<pool, flush, wal, known, applied>>

-----------------------------------------------------------------------------
(* flush_dirty_frames and flush_all_dirty_with_report.  The candidates are *)
(* the entries of the tracker, oldest first dirty LSN first; nothing but   *)
(* the loop touches the pool until it is done with them.                   *)

Tracked == {p \in Page : pool.dirty_pages[p] # NotDirty}

Before(p, q) ==
  LET a == pool.dirty_pages[p].first
      b == pool.dirty_pages[q].first
  IN  a < b \/ (a = b /\ p <= q)

Candidate == CHOOSE p \in flush.todo : \A q \in flush.todo : Before(p, q)

\* Mutant: the first dirty LSN is the fence.
FencesFirst(p) == pool.dirty_pages[p].first <= wal.durable

\* classify_flush_candidate
IsReady(p) == pool.dirty_pages[p].last <= wal.durable

flush_starts(call) ==
  /\ Ready /\ Tracked # {}
  /\ flush' = [Idle EXCEPT !.call = call, !.todo = Tracked]
  /\ UNCHANGED <<pool, store, wal, known, applied>>

\* A page WAL durability blocks is passed over by both calls.  A page that cannot
\* be flushed is passed over by one, which reports it, and ends the other.
Passes(p) == [flush EXCEPT !.todo = @ \ {p}]
Fails(p) == IF flush.call = "flush_dirty_frames" THEN Idle ELSE Passes(p)

flush_blocked ==
  /\ flush.todo # {} /\ ~IsReady(Candidate)
  /\ flush' = Passes(Candidate)
  /\ UNCHANGED <<pool, store, wal, known, applied>>

CandidateFrame == pool.frames[pool.page_table[Candidate]]
CanWrite == IsResident(Candidate) /\ CanBeginFlush(CandidateFrame)

\* Not resident, pinned, or in no state to be flushed.
flush_refused ==
  /\ flush.todo # {} /\ IsReady(Candidate) /\ ~CanWrite
  /\ flush' = Fails(Candidate)
  /\ UNCHANGED <<pool, store, wal, known, applied>>

\* write_page fails, at the fence of the page store or at the disk; abort_flush.
flush_write_fails ==
  /\ flush.todo # {} /\ IsReady(Candidate) /\ CanWrite
  /\ \E img \in IF CandidateFrame.image.lsn > wal.durable THEN {store[Candidate]}
                ELSE AfterFailedWrite(Candidate, CandidateFrame.image) :
       store' = [store EXCEPT ![Candidate] = img]
  /\ flush' = Fails(Candidate)
  /\ UNCHANGED <<pool, wal, known, applied>>

flush_writes ==
  LET p == Candidate
      lsn == pool.dirty_pages[p].last
  IN  /\ flush.todo # {} /\ IsReady(p) /\ CanWrite
      /\ CandidateFrame.image.lsn <= wal.durable
      /\ store' = [store EXCEPT ![p] = CandidateFrame.image]
      /\ pool' = [OnFrame(pool, pool.page_table[p], finish_flush(CandidateFrame, lsn))
                    EXCEPT !.dirty_pages[p] =
                      IF CanFinishFlush(CandidateFrame, lsn) THEN NotDirty ELSE @]
      /\ flush' = IF CanFinishFlush(CandidateFrame, lsn) THEN Passes(p) ELSE Fails(p)
      /\ UNCHANGED <<wal, known, applied>>

flush_returns ==
  /\ ~Ready /\ flush.todo = {}
  /\ flush' = Idle
  /\ UNCHANGED <<pool, store, wal, known, applied>>

-----------------------------------------------------------------------------
(* The WAL (see DurableLog), beside the pool, and a crash.                 *)

append ==
  /\ wal.end < MaxLsn
  /\ wal' = [wal EXCEPT !.end = @ + 1]
  /\ UNCHANGED <<pool, flush, store, known, applied>>

flush_through(lsn) ==
  /\ wal.durable < lsn /\ lsn <= wal.end
  /\ wal' = [wal EXCEPT !.durable = lsn]
  /\ UNCHANGED <<pool, flush, store, known, applied>>

Crash(lsn) ==
  /\ wal.durable <= lsn /\ lsn <= wal.end
  /\ wal' = [end |-> lsn, durable |-> lsn]
  /\ pool' = EmptyPool
  /\ flush' = Idle
  /\ applied' = [p \in Page |-> store[p].changes]
  /\ UNCHANGED <<store, known>>

Next ==
  \/ \E p \in Page :
       \/ fetch_page(p)
       \/ \E lsn \in Lsn, changes \in BOOLEAN : fetch_page_mut(p, lsn, changes)
       \/ pin_page(p)
       \/ \E lsn \in AllocLsn, pins \in {0, 1} : new_page(p, lsn, pins)
       \/ \E lsn \in AllocLsn : new_page_fails(p, lsn)
  \/ \E i \in Frame : unpin_page(i)
  \/ \E call \in {"flush_dirty_frames", "flush_all_dirty_with_report"} : flush_starts(call)
  \/ flush_blocked \/ flush_refused \/ flush_write_fails \/ flush_writes \/ flush_returns
  \/ append
  \/ \E lsn \in 0 .. MaxLsn : flush_through(lsn) \/ Crash(lsn)

Spec == Init /\ [][Next]_vars

-----------------------------------------------------------------------------
\* The page table and the frames name each other, and the tracker has the dirty
\* range of every dirty frame and nothing else: no sequence of calls, refused flushes
\* and evictions lets the copies in frame.rs and dirty.rs drift apart.
TablesAgree ==
  /\ \A p \in Page, i \in Frame :
       pool.page_table[p] = i <=> pool.frames[i].state # "Free" /\ pool.frames[i].page = p
  /\ \A p \in Page :
       LET i == pool.page_table[p]
       IN  pool.dirty_pages[p] =
             IF i = NoFrame THEN NotDirty
             ELSE [first |-> pool.frames[i].first, last |-> pool.frames[i].last]

\* WAL before page (flush.rs, "before a page is written to disk, the buffer pool
\* verifies that the page's latest dirty LSN has been made durable"): no page on disk,
\* whatever writes failed and whenever the machine stops, has a change whose record a
\* crash can still take away.
WalBeforePage ==
  \A p \in Page : \A lsn \in store[p].changes : lsn <= wal.durable

\* No update is lost: the image a caller gets next, from the frame or from the store
\* after any evictions, has every change made so far, unless a crash left the page torn.
NoLostUpdate ==
  \A p \in known :
    LET img == IF IsResident(p) THEN pool.frames[pool.page_table[p]].image ELSE store[p]
    IN  img.changes = applied[p]

\* Where redo may start: a change that is missing on disk is of a page the tracker
\* reports as dirty, with a first dirty LSN not after it (DirtyTracker::flush_candidates
\* orders checkpoint work by that LSN).  A torn page needs another source.
FirstDirtyLsnCoversMissing ==
  \A p \in Page : store[p] # Torn =>
    \A lsn \in applied[p] \ store[p].changes :
      pool.dirty_pages[p].first \in 1 .. lsn
=============================================================================
