-------------------------- MODULE BufferPoolProofs --------------------------
(***************************************************************************)
(* Proofs about BufferPool, for every number of frames, pages and holds.   *)
(***************************************************************************)
EXTENDS BufferPool, TLAPS

IInv == TypeOK /\ PoolInv

-----------------------------------------------------------------------------
(* The search of bp_find is deterministic: a page has at most one frame.   *)
LEMMA FrameOfIs ==
  ASSUME OneCopy, NEW p \in PageIds, NEW i \in Frames, Holds(i, p)
  PROVE  FrameOf(p) = i
<1>. DEFINE P(k) == Holds(k, p) /\ \A j \in 1 .. k - 1 : ~Holds(j, p)
<1>1. \A k \in Frames : Holds(k, p) => k = i
  BY DEF OneCopy, Holds, Empty, NoPage, PageIds
<1>2. \A j \in 1 .. i - 1 : j \in Frames /\ j # i
  BY PoolAssumption DEF Frames
<1>3. P(i)
  BY <1>1, <1>2
<1>4. \A k \in Frames : P(k) => k = i
  BY <1>1
<1>. QED
  BY <1>3, <1>4 DEF FrameOf

(* What a set of page writes does to the file. *)
LEMMA OnDiskFacts ==
  ASSUME TypeOK, OneCopy, NEW W \in SUBSET {i \in Frames : ~Empty(i)}
  PROVE  /\ OnDisk(W) \in [PageIds -> Values]
         /\ \A i \in W : OnDisk(W)[frame[i].page] = frame[i].data
         /\ \A p \in PageIds :
              (\A i \in W : ~Holds(i, p)) => OnDisk(W)[p] = disk[p]
<1>1. \A i \in W : /\ i \in Frames /\ frame[i].page \in PageIds
                   /\ frame[i].data \in Values
                   /\ FrameOf(frame[i].page) = i
  <2>. SUFFICES ASSUME NEW i \in W
                PROVE  /\ i \in Frames /\ frame[i].page \in PageIds
                       /\ frame[i].data \in Values
                       /\ FrameOf(frame[i].page) = i
    OBVIOUS
  <2>1. i \in Frames /\ frame[i].page \in PageIds /\ frame[i].data \in Values
    BY DEF TypeOK, Frame, Empty
  <2>. QED
    BY <2>1, FrameOfIs DEF Holds
<1>2. \A p \in PageIds : (\E i \in W : Holds(i, p)) =>
                           frame[FrameOf(p)].data \in Values
  BY <1>1 DEF Holds
<1>. QED
  BY <1>1, <1>2 DEF OnDisk, TypeOK, Holds

(* A victim is never a frame somebody has pinned. *)
LEMMA EvictsUnpinned ==
  ASSUME NEW i \in Frames, Evicts(i)
  PROVE  Empty(i) \/ Unpinned(i)
BY DEF Evicts

(* bp_new_page always returns the first page after the file. *)
LEMMA NewIdIsEnd ==
  ASSUME TypeOK, CachedInFile
  PROVE  NewId = IF size = 0 THEN 1 ELSE size
<1>. DEFINE base == IF size = 0 THEN 1 ELSE size
            ids  == {base} \cup
                    {frame[i].page + 1 : i \in {j \in Frames : ~Empty(j)}}
<1>1. base \in Int /\ size \in Int /\ size <= base
  BY PoolAssumption DEF TypeOK
<1>2. \A m \in ids : m \in Int /\ m <= base
  <2>. SUFFICES ASSUME NEW i \in Frames, ~Empty(i)
                PROVE  frame[i].page + 1 \in Int /\ frame[i].page + 1 <= base
    BY <1>1
  <2>1. frame[i].page \in PageIds /\ frame[i].page < size
    BY DEF TypeOK, Frame, Empty, CachedInFile
  <2>. QED
    BY <2>1, <1>1 DEF PageIds
<1>3. base \in ids
  OBVIOUS
<1>4. \A n \in ids : (\A m \in ids : m <= n) <=> n = base
  BY <1>1, <1>2, <1>3
<1>5. NewId = CHOOSE n \in ids : \A m \in ids : m <= n
  BY DEF NewId
<1>. HIDE DEF ids, base
<1>6. NewId = base
  BY <1>3, <1>4, <1>5
<1>. QED
  BY <1>6 DEF base

-----------------------------------------------------------------------------
(* The invariant holds of an empty pool over any file.                     *)
LEMMA InitInv == Init => IInv
<1>. SUFFICES ASSUME Init PROVE IInv
  OBVIOUS
<1>1. \A i \in Frames : Empty(i) /\ frame[i] \in Frame /\ ~frame[i].dirty
  BY PoolAssumption DEF Init, EmptyPool, EmptyFrame, Empty, Frame, NoPage
<1>2. TypeOK
  <2>1. frame \in [Frames -> Frame]
    BY <1>1 DEF Init, EmptyPool
  <2>2. size \in 0 .. MaxPage + 1 /\ tick \in Nat
    BY PoolAssumption DEF Init
  <2>. QED
    BY <2>1, <2>2, PoolAssumption DEF Init, TypeOK
<1>3. PoolInv
  BY <1>1 DEF Init, PoolInv, OneCopy, HeldPagesStay, CleanIsOnDisk,
              CachedInFile, RollbackQuiet
<1>. QED
  BY <1>2, <1>3 DEF IInv

(* A pool without frames and without holds is always consistent. *)
LEMMA EmptyPoolInv ==
  ASSUME IInv, frame' = EmptyPool, AllUnpinned', disk' \in [PageIds -> Values],
         pins' \in [PageIds -> Nat], tick' \in Nat, wrote' = {},
         UNCHANGED size, lost' \subseteq PageIds, undoing' \in BOOLEAN
  PROVE  IInv'
<1>1. \A i \in Frames : Empty(i)' /\ frame'[i] \in Frame /\ ~frame'[i].dirty
  BY PoolAssumption DEF EmptyPool, EmptyFrame, Empty, Frame, NoPage
<1>2. TypeOK'
  BY <1>1, PoolAssumption DEF IInv, TypeOK, EmptyPool
<1>3. PoolInv'
  BY <1>1 DEF IInv, PoolInv, OneCopy, HeldPagesStay, CleanIsOnDisk,
              CachedInFile, RollbackQuiet, DirtyFrames, AllUnpinned
<1>. QED
  BY <1>2, <1>3 DEF IInv

(* The frames keep their pages, pins and contents and become clean, and    *)
(* each one that was dirty is written or its page is recorded as lost.     *)
LEMMA WriteOutFacts ==
  ASSUME IInv, NEW failed \in SUBSET DirtyFrames, WriteOut(DirtyFrames, failed)
  PROVE  /\ disk' \in [PageIds -> Values]
         /\ lost' \subseteq PageIds /\ lost \subseteq lost'
         /\ \A i \in DirtyFrames : frame[i].page \notin lost' =>
              disk'[frame[i].page] = frame[i].data
         /\ \A p \in PageIds :
              (\A i \in DirtyFrames : ~Holds(i, p)) => disk'[p] = disk[p]
<1>. DEFINE W == DirtyFrames \ failed
<1>1. W \in SUBSET {i \in Frames : ~Empty(i)}
  BY DEF DirtyFrames
<1>2. disk' = OnDisk(W)
  BY DEF WriteOut
<1>3. lost' = lost \cup PagesOf(DirtyFrames \cap failed)
  BY DEF WriteOut, Losing
<1>4. \A i \in DirtyFrames : i \in Frames /\ frame[i].page \in PageIds
  BY DEF DirtyFrames, IInv, TypeOK, Frame, Empty
<1>5. \A i \in failed : frame[i].page \in lost'
  BY <1>3 DEF PagesOf
<1>6. TypeOK /\ OneCopy
  BY DEF IInv, PoolInv
<1>7. /\ OnDisk(W) \in [PageIds -> Values]
      /\ \A i \in W : OnDisk(W)[frame[i].page] = frame[i].data
      /\ \A p \in PageIds :
           (\A i \in W : ~Holds(i, p)) => OnDisk(W)[p] = disk[p]
  BY <1>1, <1>6, OnDiskFacts
<1>8. lost' \subseteq PageIds
  BY <1>3, <1>4, <1>6 DEF TypeOK, PagesOf
<1>. QED
  BY <1>2, <1>3, <1>5, <1>7, <1>8

(* bp_flush_all, alone or at the start of a rollback. *)
LEMMA FlushAllInv ==
  ASSUME IInv, NEW failed \in SUBSET DirtyFrames,
         WriteOut(DirtyFrames, failed), frame' = AllClean,
         UNCHANGED <<tick, size, pins, wrote>>,
         undoing' \in BOOLEAN, undoing' => AllUnpinned, ~undoing
  PROVE  IInv'
<1>1. /\ TypeOK /\ OneCopy /\ HeldPagesStay /\ CleanIsOnDisk /\ CachedInFile
      /\ wrote \subseteq {p \in PageIds : pins[p] > 0} /\ size # 1
  BY DEF IInv, PoolInv
<1>2. \A i \in Frames : /\ frame'[i] = [frame[i] EXCEPT !.dirty = FALSE]
                        /\ frame'[i] \in Frame
                        /\ frame'[i].page = frame[i].page
                        /\ frame'[i].data = frame[i].data
                        /\ frame'[i].pin_count = frame[i].pin_count
                        /\ ~frame'[i].dirty
  BY <1>1 DEF AllClean, TypeOK, Frame
<1>3. /\ disk' \in [PageIds -> Values]
      /\ lost' \subseteq PageIds /\ lost \subseteq lost'
      /\ \A i \in DirtyFrames : frame[i].page \notin lost' =>
           disk'[frame[i].page] = frame[i].data
      /\ \A p \in PageIds :
           (\A i \in DirtyFrames : ~Holds(i, p)) => disk'[p] = disk[p]
  BY WriteOutFacts
<1>4. TypeOK'
  <2>1. frame' \in [Frames -> Frame]
    BY <1>2 DEF AllClean
  <2>. QED
    BY <2>1, <1>1, <1>3 DEF TypeOK
<1>5. CleanIsOnDisk'
  <2>. SUFFICES ASSUME NEW i \in Frames, ~Empty(i), ~undoing',
                       frame[i].page \notin wrote \cup lost'
                PROVE  frame[i].data = disk'[frame[i].page]
    BY <1>2 DEF CleanIsOnDisk, Empty
  <2>1. CASE i \in DirtyFrames
    BY <2>1, <1>3
  <2>2. CASE i \notin DirtyFrames
    <3>1. ~frame[i].dirty /\ frame[i].page \in PageIds
      BY <2>2, <1>1 DEF DirtyFrames, TypeOK, Frame, Empty
    <3>2. \A j \in DirtyFrames : ~Holds(j, frame[i].page)
      BY <2>2, <1>1 DEF DirtyFrames, OneCopy
    <3>3. frame[i].data = disk[frame[i].page]
      BY <3>1, <1>1, <1>3 DEF CleanIsOnDisk
    <3>. QED
      BY <3>1, <3>2, <3>3, <1>3
  <2>. QED
    BY <2>1, <2>2
<1>6. OneCopy' /\ HeldPagesStay' /\ CachedInFile'
  <2>1. OneCopy'
    <3>1. \A i \in Frames : frame'[i].page = frame[i].page
      BY <1>2
    <3>2. \A i, j \in Frames : frame[i].page # NoPage /\ frame[j].page = frame[i].page => i = j
      BY <1>1 DEF OneCopy, Holds, Empty
    <3>. QED
      BY <3>1, <3>2 DEF OneCopy, Holds, Empty
  <2>2. \A q \in PageIds : Cached(q)' <=> Cached(q)
    BY <1>2 DEF Cached, Holds
  <2>3. HeldPagesStay'
    BY <2>2, <1>1, <1>2 DEF HeldPagesStay, Empty
  <2>4. CachedInFile'
    BY <1>1, <1>2 DEF CachedInFile, Empty
  <2>. QED
    BY <2>1, <2>3, <2>4
<1>7. RollbackQuiet'
  BY <1>2 DEF RollbackQuiet, DirtyFrames, AllUnpinned
<1>. QED
  BY <1>1, <1>4, <1>5, <1>6, <1>7 DEF IInv, PoolInv

(* bp_fetch of a cached page: one more hold, one more pin. *)
LEMMA FetchHitInv ==
  ASSUME IInv, NEW p \in DataPages, FetchHit(p)
  PROVE  IInv'
<1>1. /\ TypeOK /\ OneCopy /\ HeldPagesStay /\ CleanIsOnDisk /\ CachedInFile
      /\ wrote \subseteq {q \in PageIds : pins[q] > 0} /\ size # 1
  BY DEF IInv, PoolInv
<1>2. PICK i \in Frames : Holds(i, p)
  BY DEF FetchHit, Cached
<1>3. p \in PageIds /\ p # NoPage
  BY DEF DataPages, PageIds, NoPage
<1>4. /\ tick' = tick + 1
      /\ pins' = [pins EXCEPT ![p] = pins[p] + 1]
      /\ frame' = [frame EXCEPT ![i].last_access = tick + 1,
                                ![i].pin_count = frame[i].pin_count + 1]
      /\ ~undoing /\ UNCHANGED <<disk, size, wrote, undoing, lost>>
  <2>1. FrameOf(p) = i
    BY <1>1, <1>2, <1>3, FrameOfIs
  <2>. QED
    BY <2>1 DEF FetchHit, Accessed
<1>5. /\ tick \in Nat /\ pins \in [PageIds -> Nat] /\ frame \in [Frames -> Frame]
      /\ frame[i].pin_count \in Nat
  BY <1>1 DEF TypeOK, Frame
<1>6. \A j \in Frames : /\ frame'[j].page = frame[j].page
                        /\ frame'[j].data = frame[j].data
                        /\ frame'[j].dirty = frame[j].dirty
                        /\ frame'[j] \in Frame
                        /\ j # i => frame'[j] = frame[j]
  BY <1>4, <1>5 DEF Frame
<1>7. frame'[i].pin_count = frame[i].pin_count + 1
  BY <1>4, <1>5 DEF Frame
<1>8. TypeOK'
  <2>1. frame' \in [Frames -> Frame]
    BY <1>4, <1>5, <1>6
  <2>2. pins' \in [PageIds -> Nat] /\ tick' \in Nat
    BY <1>4, <1>5, <1>3
  <2>. QED
    BY <2>1, <2>2, <1>1, <1>4 DEF TypeOK
<1>9. OneCopy' /\ CleanIsOnDisk' /\ CachedInFile'
  <2>1. OneCopy'
    BY <1>1, <1>6 DEF OneCopy, Holds, Empty
  <2>2. UNCHANGED disk /\ UNCHANGED wrote /\ UNCHANGED lost /\ UNCHANGED size
    BY <1>4
  <2>3. CleanIsOnDisk'
    BY <2>2, <1>1, <1>4, <1>6 DEF CleanIsOnDisk, Empty
  <2>4. CachedInFile'
    BY <2>2, <1>1, <1>6 DEF CachedInFile, Empty
  <2>. QED
    BY <2>1, <2>3, <2>4
<1>10. HeldPagesStay'
  <2>1. \A q \in PageIds : Cached(q)' <=> Cached(q)
    BY <1>6 DEF Cached, Holds
  <2>2. ASSUME NEW q \in PageIds, pins'[q] > 0 PROVE Cached(q)
    <3>1. CASE q = p
      BY <3>1, <1>2 DEF Cached
    <3>2. CASE q # p
      BY <3>2, <2>2, <1>1, <1>3, <1>4, <1>5 DEF HeldPagesStay
    <3>. QED
      BY <3>1, <3>2
  <2>3. ASSUME NEW j \in Frames, ~Empty(j)
        PROVE  frame'[j].pin_count = pins'[frame[j].page]
    <3>1. CASE j = i
      BY <3>1, <2>3, <1>1, <1>2, <1>3, <1>4, <1>5, <1>7 DEF HeldPagesStay, Holds
    <3>2. CASE j # i
      <4>1. frame[j].page # p /\ frame[j].page \in PageIds
        BY <3>2, <2>3, <1>1, <1>2 DEF OneCopy, Holds, TypeOK, Frame, Empty
      <4>. QED
        BY <4>1, <3>2, <2>3, <1>1, <1>3, <1>4, <1>5, <1>6 DEF HeldPagesStay
    <3>. QED
      BY <3>1, <3>2
  <2>. QED
    BY <2>1, <2>2, <2>3, <1>6 DEF HeldPagesStay, Empty
<1>11. RollbackQuiet' /\ wrote' \subseteq {q \in PageIds : pins'[q] > 0}
  BY <1>1, <1>3, <1>4, <1>5 DEF RollbackQuiet
<1>. QED
  BY <1>1, <1>4, <1>8, <1>9, <1>10, <1>11 DEF IInv, PoolInv

(* An eviction writes at most the page of the victim. *)
LEMMA VictimDisk ==
  ASSUME IInv, NEW i \in Frames, NEW failed \in SUBSET DirtyFrames
  PROVE  /\ OnDisk(VictimWrite(i) \ failed) \in [PageIds -> Values]
         /\ \A q \in PageIds : ~Holds(i, q) =>
              OnDisk(VictimWrite(i) \ failed)[q] = disk[q]
         /\ PagesOf(VictimWrite(i) \cap failed) \subseteq PageIds
<1>. DEFINE W == VictimWrite(i) \ failed
<1>1. TypeOK /\ OneCopy
  BY DEF IInv, PoolInv
<1>2. /\ W \in SUBSET {j \in Frames : ~Empty(j)}
      /\ \A j \in W : j = i
  BY DEF VictimWrite, DirtyFrames
<1>3. /\ OnDisk(W) \in [PageIds -> Values]
      /\ \A q \in PageIds :
           (\A j \in W : ~Holds(j, q)) => OnDisk(W)[q] = disk[q]
  BY <1>1, <1>2, OnDiskFacts
<1>4. PagesOf(VictimWrite(i) \cap failed) \subseteq PageIds
  BY <1>1 DEF PagesOf, VictimWrite, DirtyFrames, TypeOK, Frame, Empty
<1>. QED
  BY <1>2, <1>3, <1>4

(* A frame is given to page p, which was in no frame before. *)
LEMMA InstallInv ==
  ASSUME IInv, ~undoing, NEW i \in Frames, Evicts(i),
         NEW failed \in SUBSET DirtyFrames,
         NEW p \in PageIds, ~Cached(p), NEW d \in Values,
         frame' = [frame EXCEPT ![i] =
                     [page |-> p, data |-> d, dirty |-> FALSE,
                      pin_count |-> 1, last_access |-> tick + 1]],
         tick' = tick + 1, pins' = [pins EXCEPT ![p] = pins[p] + 1],
         Losing(VictimWrite(i), failed), wrote' = wrote, undoing' = undoing,
         size' \in 0 .. MaxPage + 1, size' >= size, p < size', size' # 1,
         disk' \in [PageIds -> Values], disk'[p] = d,
         \A q \in PageIds : q # p /\ q < size =>
           disk'[q] = OnDisk(VictimWrite(i) \ failed)[q]
  PROVE  IInv'
<1>1. /\ TypeOK /\ OneCopy /\ HeldPagesStay /\ CleanIsOnDisk /\ CachedInFile
      /\ wrote \subseteq {q \in PageIds : pins[q] > 0}
  BY DEF IInv, PoolInv
<1>2. /\ tick \in Nat /\ pins \in [PageIds -> Nat] /\ frame \in [Frames -> Frame]
      /\ size \in Int /\ size' \in Int
  BY <1>1, PoolAssumption DEF TypeOK
<1>3. pins[p] = 0 /\ pins'[p] = 1 /\ \A q \in PageIds : q # p => pins'[q] = pins[q]
  BY <1>1, <1>2 DEF HeldPagesStay
<1>4. /\ frame'[i].page = p /\ frame'[i].data = d /\ frame'[i].dirty = FALSE
      /\ frame'[i].pin_count = 1
      /\ \A j \in Frames : j # i => frame'[j] = frame[j] /\ frame[j].page # p
  BY <1>2 DEF Cached, Holds
<1>5. p # NoPage
  BY DEF PageIds, NoPage
<1>6. lost' = lost \cup PagesOf(VictimWrite(i) \cap failed)
  BY DEF Losing
<1>7. TypeOK'
  <2>1. frame' \in [Frames -> Frame]
    BY <1>2 DEF Frame
  <2>2. pins' \in [PageIds -> Nat] /\ tick' \in Nat
    BY <1>2
  <2>3. lost' \subseteq PageIds
    BY <1>1, <1>6, VictimDisk DEF TypeOK
  <2>. QED
    BY <2>1, <2>2, <2>3, <1>1 DEF TypeOK
<1>8. OneCopy'
  BY <1>1, <1>4 DEF OneCopy, Holds, Empty
<1>9. CleanIsOnDisk'
  <2>. SUFFICES ASSUME NEW j \in Frames, frame'[j].page # NoPage,
                       ~frame'[j].dirty, frame'[j].page \notin wrote \cup lost'
                PROVE  frame'[j].data = disk'[frame'[j].page]
    BY DEF CleanIsOnDisk, Empty
  <2>1. CASE j = i
    BY <2>1, <1>4
  <2>2. CASE j # i
    <3>1. /\ frame'[j] = frame[j] /\ ~Empty(j) /\ frame[j].page # p
          /\ frame[j].page \in PageIds /\ ~Holds(i, frame[j].page)
          /\ frame[j].page < size
      BY <2>2, <1>1, <1>2, <1>4 DEF Empty, OneCopy, Holds, Frame, CachedInFile
    <3>2. frame[j].data = disk[frame[j].page]
      BY <3>1, <1>1, <1>6 DEF CleanIsOnDisk
    <3>. QED
      BY <3>1, <3>2, VictimDisk
  <2>. QED
    BY <2>1, <2>2
<1>10. CachedInFile'
  <2>. SUFFICES ASSUME NEW j \in Frames, frame'[j].page # NoPage
                PROVE  frame'[j].page < size'
    BY DEF CachedInFile, Empty
  <2>1. CASE j = i
    BY <2>1, <1>4
  <2>2. CASE j # i
    <3>1. frame'[j] = frame[j] /\ frame[j].page < size /\ frame[j].page \in PageIds
      BY <2>2, <1>1, <1>2, <1>4 DEF CachedInFile, Empty, Frame
    <3>. QED
      BY <3>1, <1>2 DEF PageIds
  <2>. QED
    BY <2>1, <2>2
<1>11. HeldPagesStay'
  <2>1. ASSUME NEW q \in PageIds, pins'[q] > 0
        PROVE  \E j \in Frames : frame'[j].page = q
    <3>1. CASE q = p
      BY <3>1, <1>4
    <3>2. CASE q # p
      <4>1. PICK j \in Frames : Holds(j, q)
        BY <3>2, <2>1, <1>1, <1>3 DEF HeldPagesStay, Cached
      <4>2. frame[j].pin_count = pins[q] /\ ~Empty(j)
        BY <4>1, <1>1 DEF HeldPagesStay, Holds, Empty, PageIds, NoPage
      <4>3. j # i
        BY <4>1, <4>2, <3>2, <2>1, <1>2, <1>3, EvictsUnpinned DEF Unpinned
      <4>. QED
        BY <4>1, <4>3, <1>4 DEF Holds
    <3>. QED
      BY <3>1, <3>2
  <2>2. ASSUME NEW j \in Frames, frame'[j].page # NoPage
        PROVE  frame'[j].pin_count = pins'[frame'[j].page]
    <3>1. CASE j = i
      BY <3>1, <1>3, <1>4
    <3>2. CASE j # i
      <4>1. /\ frame'[j] = frame[j] /\ ~Empty(j) /\ frame[j].page # p
            /\ frame[j].page \in PageIds
        BY <3>2, <2>2, <1>2, <1>4 DEF Empty, Frame
      <4>. QED
        BY <4>1, <1>1, <1>3 DEF HeldPagesStay
    <3>. QED
      BY <3>1, <3>2
  <2>. QED
    BY <2>1, <2>2 DEF HeldPagesStay, Cached, Holds, Empty
<1>12. RollbackQuiet' /\ wrote' \subseteq {q \in PageIds : pins'[q] > 0}
  BY <1>1, <1>2, <1>3 DEF RollbackQuiet
<1>. QED
  BY <1>7, <1>8, <1>9, <1>10, <1>11, <1>12 DEF IInv, PoolInv

(* bp_fetch of a page that is not cached. *)
LEMMA FetchMissInv ==
  ASSUME IInv, NEW p \in DataPages, NEW i \in Frames,
         NEW failed \in SUBSET DirtyFrames, FetchMiss(p, i, failed)
  PROVE  IInv'
<1>. DEFINE onDisk == OnDisk(VictimWrite(i) \ failed)
<1>0. p \in PageIds /\ p # NoPage
  BY DEF DataPages, PageIds, NoPage
<1>1. /\ ~undoing /\ ~Cached(p) /\ Evicts(i)
      /\ disk' = onDisk /\ Losing(VictimWrite(i), failed)
      /\ size' = size /\ wrote' = wrote /\ undoing' = undoing
  BY DEF FetchMiss, Missing, WriteOut
<1>2. /\ TypeOK /\ OneCopy /\ HeldPagesStay /\ CleanIsOnDisk /\ CachedInFile
      /\ wrote \subseteq {q \in PageIds : pins[q] > 0} /\ size # 1
  BY DEF IInv, PoolInv
<1>3. /\ onDisk \in [PageIds -> Values]
      /\ \A q \in PageIds : ~Holds(i, q) => onDisk[q] = disk[q]
      /\ PagesOf(VictimWrite(i) \cap failed) \subseteq PageIds
  BY VictimDisk
<1>4. CASE p < size
  <2>1. /\ frame' = [frame EXCEPT ![i] =
                       [page |-> p, data |-> disk[p], dirty |-> FALSE,
                        pin_count |-> 1, last_access |-> tick + 1]]
        /\ tick' = tick + 1 /\ pins' = [pins EXCEPT ![p] = pins[p] + 1]
    BY <1>4 DEF FetchMiss
  <2>2. disk[p] \in Values /\ ~Holds(i, p) /\ disk'[p] = disk[p]
    BY <1>0, <1>1, <1>2, <1>3 DEF TypeOK, Cached
  <2>3. /\ size' \in 0 .. MaxPage + 1 /\ size' >= size /\ p < size' /\ size' # 1
        /\ disk' \in [PageIds -> Values]
        /\ \A q \in PageIds : q # p => disk'[q] = onDisk[q]
    <3>1. size \in 0 .. MaxPage + 1
      BY <1>2 DEF TypeOK
    <3>2. /\ size' \in 0 .. MaxPage + 1 /\ size' >= size /\ p < size'
          /\ size' # 1
      BY <3>1, <1>1, <1>2, <1>4, PoolAssumption
    <3>. HIDE DEF onDisk
    <3>. QED
      BY <3>2, <1>1, <1>3
  <2>. HIDE DEF onDisk
  <2>. QED
    BY <2>1, <2>2, <2>3, <1>0, <1>1, InstallInv DEF onDisk
<1>5. CASE ~(p < size)
  <2>1. frame' = [frame EXCEPT ![i] = EmptyFrame] /\ tick' = tick /\ pins' = pins
    BY <1>5 DEF FetchMiss
  <2>2. lost' = lost \cup PagesOf(VictimWrite(i) \cap failed)
    BY <1>1 DEF Losing
  <2>3. /\ frame'[i].page = NoPage
        /\ \A j \in Frames : j # i => frame'[j] = frame[j]
    BY <2>1, <1>2 DEF TypeOK, EmptyFrame
  <2>4. TypeOK'
    <3>1. frame' \in [Frames -> Frame]
      BY <2>1, <1>2, PoolAssumption DEF TypeOK, EmptyFrame, Frame
    <3>2. lost' \subseteq PageIds
      BY <2>2, <1>2, <1>3 DEF TypeOK
    <3>. QED
      BY <3>1, <3>2, <2>1, <1>1, <1>2, <1>3 DEF TypeOK
  <2>5. OneCopy' /\ CachedInFile'
    BY <2>3, <1>1, <1>2 DEF OneCopy, CachedInFile, Holds, Empty
  <2>6. CleanIsOnDisk'
    <3>. SUFFICES ASSUME NEW j \in Frames, frame'[j].page # NoPage,
                         ~frame'[j].dirty, frame'[j].page \notin wrote \cup lost'
                  PROVE  frame'[j].data = disk'[frame'[j].page]
      BY <1>1 DEF CleanIsOnDisk, Empty
    <3>1. /\ j # i /\ frame'[j] = frame[j] /\ ~Empty(j)
          /\ frame[j].page \in PageIds /\ ~Holds(i, frame[j].page)
      BY <2>3, <1>2 DEF Empty, OneCopy, Holds, TypeOK, Frame
    <3>2. frame[j].data = disk[frame[j].page]
      BY <3>1, <2>2, <1>1, <1>2 DEF CleanIsOnDisk
    <3>. QED
      BY <3>1, <3>2, <1>1, <1>3
  <2>7. HeldPagesStay'
    <3>1. ASSUME NEW q \in PageIds, pins[q] > 0
          PROVE  \E j \in Frames : frame'[j].page = q
      <4>1. PICK j \in Frames : Holds(j, q)
        BY <3>1, <1>2 DEF HeldPagesStay, Cached
      <4>2. frame[j].pin_count = pins[q] /\ ~Empty(j)
        BY <4>1, <1>2 DEF HeldPagesStay, Holds, Empty, PageIds, NoPage
      <4>3. j # i
        BY <4>2, <3>1, <1>1, EvictsUnpinned DEF Unpinned
      <4>. QED
        BY <4>1, <4>3, <2>3 DEF Holds
    <3>2. ASSUME NEW j \in Frames, frame'[j].page # NoPage
          PROVE  frame'[j].pin_count = pins[frame'[j].page]
      BY <3>2, <2>3, <1>2 DEF HeldPagesStay, Empty
    <3>. QED
      BY <3>1, <3>2, <2>1 DEF HeldPagesStay, Cached, Holds, Empty
  <2>8. RollbackQuiet' /\ wrote' \subseteq {q \in PageIds : pins'[q] > 0}
    BY <2>1, <1>1, <1>2 DEF RollbackQuiet
  <2>. QED
    BY <2>4, <2>5, <2>6, <2>7, <2>8, <1>1, <1>2 DEF IInv, PoolInv
<1>. QED
  BY <1>4, <1>5

(* bp_new_page. *)
LEMMA NewPageInv ==
  ASSUME IInv, NEW i \in Frames, NEW failed \in SUBSET DirtyFrames,
         NewPage(i, failed)
  PROVE  IInv'
<1>. DEFINE n == NewId
            onDisk == OnDisk(VictimWrite(i) \ failed)
<1>1. /\ TypeOK /\ CachedInFile /\ size # 1 /\ size \in 0 .. MaxPage + 1
  BY DEF IInv, PoolInv, TypeOK
<1>2. n = IF size = 0 THEN 1 ELSE size
  BY <1>1, NewIdIsEnd
<1>3. n <= MaxPage
  BY DEF NewPage, IdFits
<1>4. n \in PageIds /\ n \in Nat /\ n >= size /\ n > 0 /\ Zero \in Values
  BY <1>1, <1>2, <1>3, PoolAssumption DEF PageIds
<1>5. /\ ~undoing /\ Evicts(i)
      /\ disk' = [p \in PageIds |-> IF p = n \/ (p = 0 /\ size = 0) THEN Zero
                                    ELSE onDisk[p]]
      /\ Losing(VictimWrite(i), failed)
      /\ size' = (IF n < size THEN size ELSE n + 1)
      /\ frame' = [frame EXCEPT ![i] =
                     [page |-> n, data |-> Zero, dirty |-> FALSE,
                      pin_count |-> 1, last_access |-> tick + 1]]
      /\ tick' = tick + 1
      /\ pins' = [p \in PageIds |-> IF p = n THEN pins[p] + 1 ELSE pins[p]]
      /\ wrote' = wrote /\ undoing' = undoing
  BY DEF NewPage
<1>6. ~Cached(n)
  BY <1>1, <1>4 DEF CachedInFile, Cached, Holds, Empty, PageIds, NoPage
<1>7. onDisk \in [PageIds -> Values]
  BY VictimDisk
<1>. HIDE DEF n, onDisk
<1>8. /\ disk' \in [PageIds -> Values] /\ disk'[n] = Zero
      /\ \A q \in PageIds : q # n /\ q < size => disk'[q] = onDisk[q]
  BY <1>1, <1>4, <1>5, <1>7
<1>9. /\ size' \in 0 .. MaxPage + 1 /\ size' >= size /\ n < size' /\ size' # 1
  BY <1>1, <1>3, <1>4, <1>5, PoolAssumption
<1>10. pins' = [pins EXCEPT ![n] = pins[n] + 1]
  BY <1>5 DEF IInv, TypeOK
<1>. QED
  BY <1>4, <1>5, <1>6, <1>8, <1>9, <1>10, InstallInv DEF onDisk

(* A client writes into a page it holds. *)
LEMMA WriteInv ==
  ASSUME IInv, NEW p \in DataPages, NEW v \in Values, Write(p, v)
  PROVE  IInv'
<1>1. /\ TypeOK /\ OneCopy /\ HeldPagesStay /\ CleanIsOnDisk /\ CachedInFile
      /\ wrote \subseteq {q \in PageIds : pins[q] > 0} /\ size # 1
  BY DEF IInv, PoolInv
<1>2. p \in PageIds
  BY DEF DataPages
<1>3. PICK i \in Frames : Holds(i, p)
  BY DEF Write, Cached
<1>4. /\ frame' = [frame EXCEPT ![i].data = v] /\ wrote' = wrote \cup {p}
      /\ tick' = tick /\ disk' = disk /\ size' = size /\ pins' = pins
      /\ undoing' = undoing /\ lost' = lost /\ pins[p] > 0 /\ ~undoing
  <2>1. FrameOf(p) = i
    BY <1>1, <1>2, <1>3, FrameOfIs
  <2>. QED
    BY <2>1 DEF Write
<1>5. /\ \A j \in Frames : /\ frame'[j].page = frame[j].page
                           /\ frame'[j].dirty = frame[j].dirty
                           /\ frame'[j].pin_count = frame[j].pin_count
                           /\ j # i => frame'[j] = frame[j]
      /\ frame' \in [Frames -> Frame]
  BY <1>1, <1>4 DEF TypeOK, Frame
<1>6. TypeOK'
  BY <1>1, <1>2, <1>4, <1>5 DEF TypeOK
<1>7. OneCopy'
  BY <1>1, <1>5 DEF OneCopy, Holds, Empty
<1>8. HeldPagesStay'
  BY <1>1, <1>4, <1>5 DEF HeldPagesStay, Cached, Holds, Empty
<1>9. CleanIsOnDisk'
  BY <1>1, <1>3, <1>4, <1>5 DEF CleanIsOnDisk, Holds, Empty
<1>10. CachedInFile'
  BY <1>1, <1>4, <1>5 DEF CachedInFile, Empty
<1>11. RollbackQuiet' /\ wrote' \subseteq {q \in PageIds : pins'[q] > 0}
  BY <1>1, <1>2, <1>4 DEF RollbackQuiet
<1>. QED
  BY <1>1, <1>4, <1>6, <1>7, <1>8, <1>9, <1>10, <1>11 DEF IInv, PoolInv

(* A client gives back one hold; a page it modified is marked dirty. *)
LEMMA UnpinInv ==
  ASSUME IInv, NEW p \in DataPages, NEW dirty \in BOOLEAN, Unpin(p, dirty)
  PROVE  IInv'
<1>1. /\ TypeOK /\ OneCopy /\ HeldPagesStay /\ CleanIsOnDisk /\ CachedInFile
      /\ wrote \subseteq {q \in PageIds : pins[q] > 0} /\ size # 1
  BY DEF IInv, PoolInv
<1>2. p \in PageIds /\ p # NoPage
  BY DEF DataPages, PageIds, NoPage
<1>3. /\ pins[p] > 0 /\ ~undoing /\ (p \in wrote => dirty)
      /\ pins' = [pins EXCEPT ![p] = pins[p] - 1]
      /\ wrote' = (IF dirty THEN wrote \ {p} ELSE wrote)
      /\ tick' = tick /\ disk' = disk /\ size' = size
      /\ undoing' = undoing /\ lost' = lost
  BY DEF Unpin
<1>4. PICK i \in Frames : Holds(i, p)
  BY <1>1, <1>2, <1>3 DEF HeldPagesStay, Cached
<1>5. /\ pins \in [PageIds -> Nat] /\ frame \in [Frames -> Frame]
      /\ frame[i].dirty \in BOOLEAN
  BY <1>1 DEF TypeOK, Frame
<1>6. frame[i].pin_count = pins[p] /\ ~Empty(i)
  BY <1>1, <1>2, <1>4 DEF HeldPagesStay, Holds, Empty
<1>7. frame' = [frame EXCEPT ![i].pin_count = pins[p] - 1,
                             ![i].dirty = DirtyAfter(i, dirty)]
  <2>1. FrameOf(p) = i /\ Cached(p)
    BY <1>1, <1>2, <1>4, FrameOfIs DEF Cached
  <2>. QED
    BY <2>1, <1>3, <1>6 DEF Unpin
<1>8. /\ \A j \in Frames : /\ frame'[j].page = frame[j].page
                           /\ frame'[j].data = frame[j].data
                           /\ j # i => frame'[j] = frame[j]
      /\ frame'[i].pin_count = pins[p] - 1
      /\ frame'[i].dirty = DirtyAfter(i, dirty)
  BY <1>5, <1>7 DEF Frame
<1>9. DirtyAfter(i, dirty) \in BOOLEAN
  BY <1>5 DEF DirtyAfter
<1>10. pins[p] - 1 \in Nat
  BY <1>2, <1>3, <1>5
<1>11. TypeOK'
  <2>1. frame' \in [Frames -> Frame]
    BY <1>5, <1>7, <1>9, <1>10 DEF Frame
  <2>2. pins' \in [PageIds -> Nat]
    BY <1>2, <1>3, <1>5, <1>10
  <2>3. wrote' \subseteq PageIds
    BY <1>1, <1>3 DEF TypeOK
  <2>. QED
    BY <2>1, <2>2, <2>3, <1>1, <1>3 DEF TypeOK
<1>12. OneCopy'
  BY <1>1, <1>8 DEF OneCopy, Holds, Empty
<1>13. CachedInFile'
  BY <1>1, <1>3, <1>8 DEF CachedInFile, Empty
<1>14. \A j \in Frames : ~Empty(j) /\ j # i =>
         frame[j].page # p /\ frame[j].page \in PageIds
  BY <1>1, <1>4, <1>5 DEF OneCopy, Holds, Empty, Frame
<1>15. HeldPagesStay'
  <2>1. ASSUME NEW q \in PageIds, pins'[q] > 0
        PROVE  \E j \in Frames : frame'[j].page = q
    <3>1. pins[q] > 0
      BY <2>1, <1>2, <1>3, <1>5
    <3>. QED
      BY <3>1, <1>1, <1>8 DEF HeldPagesStay, Cached, Holds
  <2>2. ASSUME NEW j \in Frames, ~Empty(j)
        PROVE  frame'[j].pin_count = pins'[frame[j].page]
    <3>1. CASE j = i
      BY <3>1, <1>2, <1>3, <1>4, <1>5, <1>8 DEF Holds
    <3>2. CASE j # i
      BY <3>2, <2>2, <1>1, <1>3, <1>5, <1>8, <1>14 DEF HeldPagesStay
    <3>. QED
      BY <3>1, <3>2
  <2>. QED
    BY <2>1, <2>2, <1>8 DEF HeldPagesStay, Cached, Holds, Empty
<1>16. CleanIsOnDisk'
  <2>. SUFFICES ASSUME NEW j \in Frames, ~Empty(j), ~frame'[j].dirty,
                       frame[j].page \notin wrote' \cup lost
                PROVE  frame[j].data = disk[frame[j].page]
    BY <1>3, <1>8 DEF CleanIsOnDisk, Empty
  <2>1. CASE j = i
    <3>1. ~frame[i].dirty /\ ~dirty
      BY <2>1, <1>8 DEF DirtyAfter
    <3>2. frame[i].page \notin wrote \cup lost
      BY <3>1, <2>1, <1>3
    <3>. QED
      BY <3>1, <3>2, <2>1, <1>1, <1>3, <1>6 DEF CleanIsOnDisk
  <2>2. CASE j # i
    <3>1. frame'[j] = frame[j] /\ frame[j].page \notin wrote \cup lost
      BY <2>2, <1>3, <1>8, <1>14
    <3>. QED
      BY <3>1, <1>1, <1>3 DEF CleanIsOnDisk
  <2>. QED
    BY <2>1, <2>2
<1>17. wrote' \subseteq {q \in PageIds : pins'[q] > 0}
  BY <1>1, <1>2, <1>3, <1>5
<1>18. RollbackQuiet'
  BY <1>3 DEF RollbackQuiet
<1>. QED
  BY <1>1, <1>3, <1>11, <1>12, <1>13, <1>15, <1>16, <1>17, <1>18
  DEF IInv, PoolInv

(* bp_flush_page: the page is on disk and clean, or nothing has changed. *)
LEMMA FlushPageInv ==
  ASSUME IInv, NEW p \in DataPages, NEW ok \in BOOLEAN, FlushPage(p, ok)
  PROVE  IInv'
<1>1. /\ TypeOK /\ OneCopy /\ HeldPagesStay /\ CleanIsOnDisk /\ CachedInFile
      /\ wrote \subseteq {q \in PageIds : pins[q] > 0} /\ size # 1
  BY DEF IInv, PoolInv
<1>2. p \in PageIds /\ p # NoPage
  BY DEF DataPages, PageIds, NoPage
<1>3. PICK i \in Frames : Holds(i, p)
  BY DEF FlushPage, Cached
<1>4. FrameOf(p) = i
  BY <1>1, <1>2, <1>3, FrameOfIs
<1>5. /\ frame[i].dirty /\ ~undoing
      /\ disk' = (IF ok THEN OnDisk({i}) ELSE disk)
      /\ frame' = [frame EXCEPT ![i].dirty = ~ok]
      /\ tick' = tick /\ size' = size /\ pins' = pins /\ wrote' = wrote
      /\ undoing' = undoing /\ lost' = lost
  BY <1>4 DEF FlushPage, StillDirty
<1>5a. wrote' = wrote /\ lost' = lost /\ undoing' = undoing
  BY <1>5
<1>6. {i} \in SUBSET {j \in Frames : ~Empty(j)}
  BY <1>2, <1>3 DEF Holds, Empty
<1>7. /\ OnDisk({i}) \in [PageIds -> Values]
      /\ OnDisk({i})[p] = frame[i].data
      /\ \A q \in PageIds : q # p => OnDisk({i})[q] = disk[q]
  BY <1>1, <1>3, <1>6, OnDiskFacts DEF Holds
<1>8. /\ \A j \in Frames : /\ frame'[j].page = frame[j].page
                           /\ frame'[j].data = frame[j].data
                           /\ frame'[j].pin_count = frame[j].pin_count
                           /\ j # i => frame'[j] = frame[j]
      /\ frame'[i].dirty = ~ok
      /\ frame' \in [Frames -> Frame]
  BY <1>1, <1>5 DEF TypeOK, Frame
<1>9. TypeOK'
  BY <1>1, <1>5, <1>7, <1>8 DEF TypeOK
<1>10. OneCopy'
  BY <1>1, <1>8 DEF OneCopy, Holds, Empty
<1>11. HeldPagesStay'
  BY <1>1, <1>5, <1>8 DEF HeldPagesStay, Cached, Holds, Empty
<1>12. CachedInFile'
  BY <1>1, <1>5, <1>8 DEF CachedInFile, Empty
<1>13. CleanIsOnDisk'
  <2>. SUFFICES ASSUME NEW j \in Frames, ~Empty(j), ~frame'[j].dirty,
                       frame[j].page \notin wrote \cup lost
                PROVE  frame[j].data = disk'[frame[j].page]
    BY <1>5a, <1>8 DEF CleanIsOnDisk, Empty
  <2>1. CASE j = i
    BY <2>1, <1>3, <1>5, <1>7, <1>8 DEF Holds
  <2>2. CASE j # i
    <3>1. /\ frame'[j] = frame[j] /\ frame[j].page # p
          /\ frame[j].page \in PageIds
      BY <2>2, <1>1, <1>3, <1>8 DEF OneCopy, Holds, Empty, TypeOK, Frame
    <3>2. frame[j].data = disk[frame[j].page]
      BY <3>1, <1>1, <1>5 DEF CleanIsOnDisk
    <3>. QED
      BY <3>1, <3>2, <1>5, <1>7
  <2>. QED
    BY <2>1, <2>2
<1>14. RollbackQuiet'
  BY <1>5 DEF RollbackQuiet
<1>. QED
  BY <1>1, <1>5, <1>9, <1>10, <1>11, <1>12, <1>13, <1>14 DEF IInv, PoolInv

(* The undo writes the file only: no frame is dirty meanwhile. *)
LEMMA UndoPageInv ==
  ASSUME IInv, NEW p \in DataPages, NEW v \in Values, UndoPage(p, v)
  PROVE  IInv'
<1>1. /\ undoing /\ disk' = [disk EXCEPT ![p] = v] /\ p \in PageIds
      /\ frame' = frame /\ tick' = tick /\ size' = size /\ pins' = pins
      /\ wrote' = wrote /\ undoing' = undoing /\ lost' = lost
  BY DEF UndoPage, DataPages
<1>2. TypeOK'
  BY <1>1 DEF IInv, TypeOK
<1>3. OneCopy' /\ HeldPagesStay' /\ CachedInFile'
  BY <1>1 DEF IInv, PoolInv, OneCopy, HeldPagesStay, CachedInFile, Cached,
              Holds, Empty
<1>4. RollbackQuiet' /\ CleanIsOnDisk'
  BY <1>1 DEF IInv, PoolInv, RollbackQuiet, DirtyFrames, AllUnpinned,
              CleanIsOnDisk, Empty
<1>. QED
  BY <1>1, <1>2, <1>3, <1>4 DEF IInv, PoolInv

(* Every step of the pool keeps the invariant.                             *)
LEMMA StepInv == IInv /\ [Next]_vars => IInv'
<1>. SUFFICES ASSUME IInv, [Next]_vars PROVE IInv'
  OBVIOUS
<1>0. /\ TypeOK /\ RollbackQuiet
      /\ wrote \subseteq {q \in PageIds : pins[q] > 0}
      /\ tick \in Nat /\ pins \in [PageIds -> Nat] /\ disk \in [PageIds -> Values]
      /\ lost \subseteq PageIds
  BY DEF IInv, PoolInv, TypeOK
<1>1. AllUnpinned => wrote = {}
  BY <1>0 DEF AllUnpinned
<1>2. ASSUME NEW p \in DataPages, FetchHit(p) PROVE IInv'
  BY <1>2, FetchHitInv
<1>3. ASSUME NEW p \in DataPages, NEW i \in Frames,
             NEW failed \in SUBSET DirtyFrames, FetchMiss(p, i, failed)
      PROVE  IInv'
  BY <1>3, FetchMissInv
<1>4. ASSUME NEW i \in Frames, NEW failed \in SUBSET DirtyFrames,
             NewPage(i, failed)
      PROVE  IInv'
  BY <1>4, NewPageInv
<1>5. ASSUME NEW p \in DataPages, NEW v \in Values, Write(p, v) PROVE IInv'
  BY <1>5, WriteInv
<1>6. ASSUME NEW p \in DataPages, NEW dirty \in BOOLEAN, Unpin(p, dirty)
      PROVE  IInv'
  BY <1>6, UnpinInv
<1>7. ASSUME NEW p \in DataPages, NEW ok \in BOOLEAN, FlushPage(p, ok)
      PROVE  IInv'
  BY <1>7, FlushPageInv
<1>8. ASSUME NEW failed \in SUBSET DirtyFrames, FlushAll(failed) PROVE IInv'
  <2>1. /\ WriteOut(DirtyFrames, failed) /\ frame' = AllClean /\ ~undoing
        /\ UNCHANGED <<tick, size, pins, wrote>> /\ ~undoing'
        /\ undoing' \in BOOLEAN
    BY <1>0, <1>8 DEF FlushAll, TypeOK
  <2>. QED
    BY <2>1, FlushAllInv
<1>9. ASSUME NEW failed \in SUBSET DirtyFrames, RollbackBegin(failed)
      PROVE  IInv'
  BY <1>9, FlushAllInv DEF RollbackBegin
<1>10. ASSUME NEW p \in DataPages, NEW v \in Values, UndoPage(p, v) PROVE IInv'
  BY <1>10, UndoPageInv
<1>11. ASSUME NEW failed \in SUBSET DirtyFrames, RollbackEnd(failed)
       PROVE  IInv'
  <2>1. /\ WriteOut(DirtyFrames, failed) /\ frame' = EmptyPool /\ undoing
        /\ undoing' = FALSE /\ tick' = tick /\ size' = size /\ pins' = pins
        /\ wrote' = wrote
    BY <1>11 DEF RollbackEnd
  <2>2. AllUnpinned' /\ wrote' = {}
    BY <2>1, <1>0, <1>1 DEF RollbackQuiet, AllUnpinned
  <2>3. disk' \in [PageIds -> Values] /\ lost' \subseteq PageIds
    BY <2>1, WriteOutFacts
  <2>. QED
    BY <2>1, <2>2, <2>3, <1>0, EmptyPoolInv
<1>12. ASSUME NEW failed \in SUBSET DirtyFrames, Shutdown(failed)
       PROVE  IInv'
  <2>1. /\ WriteOut(DirtyFrames, failed) /\ frame' = EmptyPool /\ ~undoing
        /\ undoing' = undoing /\ tick' = 0 /\ size' = size /\ pins' = pins
        /\ wrote' = wrote /\ AllUnpinned
    BY <1>12 DEF Shutdown
  <2>2. AllUnpinned' /\ wrote' = {} /\ undoing' \in BOOLEAN
    BY <2>1, <1>0, <1>1 DEF AllUnpinned, TypeOK
  <2>3. disk' \in [PageIds -> Values] /\ lost' \subseteq PageIds
    BY <2>1, WriteOutFacts
  <2>. QED
    BY <2>1, <2>2, <2>3, <1>0, EmptyPoolInv
<1>13. CASE Crash
  <2>1. /\ frame' = EmptyPool /\ tick' = 0 /\ wrote' = {} /\ undoing' = FALSE
        /\ pins' = [p \in PageIds |-> 0] /\ disk' = disk /\ size' = size
        /\ lost' = lost
    BY <1>13 DEF Crash
  <2>2. AllUnpinned' /\ pins' \in [PageIds -> Nat]
    BY <2>1 DEF AllUnpinned
  <2>. QED
    BY <2>1, <2>2, <1>0, EmptyPoolInv
<1>14. CASE UNCHANGED vars
  BY <1>14 DEF vars, IInv, TypeOK, PoolInv, OneCopy, HeldPagesStay,
               CleanIsOnDisk, CachedInFile, RollbackQuiet, DirtyFrames,
               AllUnpinned, Cached, Holds, Empty
<1>. QED
  BY <1>2, <1>3, <1>4, <1>5, <1>6, <1>7, <1>8, <1>9, <1>10, <1>11, <1>12,
     <1>13, <1>14 DEF Next

(* The invariant holds in every reachable state of the pool. *)
LEMMA Invariance == Spec => []IInv
BY InitInv, StepInv, PTL DEF Spec

(* Frames, file and holds keep their types. *)
THEOREM PoolTypeCorrect == Spec => []TypeOK
BY Invariance, PTL DEF IInv

(* bp_fetch and bp_new_page never put a page into a second frame. *)
THEOREM OneCopySafe == Spec => []OneCopy
BY Invariance, PTL DEF IInv, PoolInv

(* The page behind a pointer returned by bp_fetch is not evicted before    *)
(* the matching bp_unpin, and pins and unpins balance.                     *)
THEOREM HeldPagesSafe == Spec => []HeldPagesStay
BY Invariance, PTL DEF IInv, PoolInv

(* Dropping a clean frame never drops a modification, unless the error of  *)
(* a write was ignored before.                                             *)
THEOREM CleanSafe == Spec => []CleanIsOnDisk
BY Invariance, PTL DEF IInv, PoolInv

-----------------------------------------------------------------------------
(* Refinement.  Visible is what a reader of the pool gets.                 *)
Visible(p) == IF Cached(p) /\ ~undoing THEN frame[FrameOf(p)].data ELSE disk[p]

VisibleSpec ==
  \A p \in PageIds :
    /\ \A i \in Frames : Holds(i, p) /\ ~undoing => Visible(p) = frame[i].data
    /\ ~Cached(p) \/ undoing => Visible(p) = disk[p]
    /\ Visible(p) \in Values

(* What a reader sees of a page satisfies its specification.               *)
LEMMA VisibleFacts == IInv => VisibleSpec
<1>. SUFFICES ASSUME IInv, NEW p \in PageIds
              PROVE  /\ \A i \in Frames :
                          Holds(i, p) /\ ~undoing => Visible(p) = frame[i].data
                     /\ ~Cached(p) \/ undoing => Visible(p) = disk[p]
                     /\ Visible(p) \in Values
  BY DEF VisibleSpec
<1>1. TypeOK /\ OneCopy
  BY DEF IInv, PoolInv
<1>2. \A i \in Frames : Holds(i, p) => FrameOf(p) = i
  BY <1>1, FrameOfIs
<1>3. \A i \in Frames : frame[i].data \in Values
  BY <1>1 DEF TypeOK, Frame
<1>. QED
  BY <1>1, <1>2, <1>3 DEF Visible, Cached, TypeOK

(* A step that changes what is visible of no undamaged page, and writes    *)
(* back only what is visible, is a Transfer of the page store.             *)
LEMMA QuietStep ==
  ASSUME IInv, IInv', lost \subseteq lost', size' >= size,
         \A p \in PageIds : p \notin lost' /\ p < size =>
           Visible(p)' = Visible(p) /\ disk'[p] \in {disk[p], Visible(p)},
         \A p \in PageIds : p \notin lost' /\ size <= p /\ p < size' =>
           Visible(p)' = Zero /\ disk'[p] = Zero,
         \A p \in PageIds : p \in lost' /\ p \notin lost => p < size
  PROVE  Store!Transfer
<1>1. VisibleSpec /\ VisibleSpec'
  BY VisibleFacts, PTL
<1>2. \A p \in PageIds : /\ Visible(p) \in Values /\ disk[p] \in Values
                         /\ Visible(p)' \in Values /\ disk'[p] \in Values
  BY <1>1 DEF VisibleSpec, IInv, TypeOK
<1>3. \A p \in PageIds :
        /\ Working(p) = IF p \in lost THEN Unknown ELSE IF p >= size THEN Absent
                        ELSE Visible(p)
        /\ Working(p)' = IF p \in lost' THEN Unknown
                         ELSE IF p >= size' THEN Absent ELSE Visible(p)'
        /\ Stable(p) = IF p \in lost THEN Unknown ELSE IF p >= size THEN Absent
                       ELSE disk[p]
        /\ Stable(p)' = IF p \in lost' THEN Unknown
                        ELSE IF p >= size' THEN Absent ELSE disk'[p]
  BY DEF Working, Stable, Visible
<1>4. size \in Int /\ size' \in Int
  BY PoolAssumption DEF IInv, TypeOK
<1>5. ASSUME NEW p \in PageIds
      PROVE  /\ Working(p)' \in Store!Contents /\ Stable(p)' \in Store!Contents
             /\ \/ Working(p) = Absent /\ Working(p)' = Zero /\ Stable(p)' = Zero
                \/ Working(p)' = Working(p) /\ Stable(p)' = Working(p)
                \/ /\ Working(p) # Absent
                   /\ Working(p)' = Unknown /\ Stable(p)' = Unknown
                \/ Working(p)' = Working(p) /\ Stable(p)' = Stable(p)
  <2>1. p \in Int
    BY DEF PageIds
  <2>2. CASE p \in lost'
    <3>1. CASE p \in lost
      BY <2>2, <3>1, <1>3 DEF Store!Contents
    <3>2. CASE p \notin lost
      <4>1. Working(p) = Visible(p) /\ Visible(p) # Absent
        BY <2>1, <2>2, <3>2, <1>2, <1>3, <1>4, PoolAssumption
      <4>. QED
        BY <4>1, <2>2, <1>3 DEF Store!Contents
    <3>. QED
      BY <3>1, <3>2
  <2>3. CASE p \notin lost' /\ p < size
    <3>1. /\ Working(p) = Visible(p) /\ Working(p)' = Visible(p)
          /\ Stable(p) = disk[p] /\ Stable(p)' \in {disk[p], Visible(p)}
      BY <2>1, <2>3, <1>3, <1>4
    <3>. QED
      BY <3>1, <1>2 DEF Store!Contents
  <2>4. CASE p \notin lost' /\ size <= p /\ p < size'
    <3>1. Working(p) = Absent /\ Working(p)' = Zero /\ Stable(p)' = Zero
      BY <2>1, <2>4, <1>3, <1>4
    <3>. QED
      BY <3>1, PoolAssumption DEF Store!Contents
  <2>5. CASE p \notin lost' /\ size' <= p
    <3>1. /\ Working(p) = Absent /\ Working(p)' = Absent
          /\ Stable(p) = Absent /\ Stable(p)' = Absent
      BY <2>1, <2>5, <1>3, <1>4
    <3>. QED
      BY <3>1 DEF Store!Contents
  <2>. QED
    BY <2>1, <2>2, <2>3, <2>4, <2>5, <1>4
<1>. QED
  BY <1>5 DEF Store!Transfer, Store!Appears, Store!Synced, Store!Damaged,
              Store!Untouched

(* After all dirty frames were written, an undamaged page is visible or    *)
(* unchanged in the file; when no client is in the middle of a             *)
(* modification, the file holds exactly what was visible.                  *)
LEMMA AllWritten ==
  ASSUME IInv, NEW failed \in SUBSET DirtyFrames, WriteOut(DirtyFrames, failed)
  PROVE  /\ lost \subseteq lost'
         /\ \A p \in PageIds : p \in lost' /\ p \notin lost => p < size
         /\ ~undoing => \A p \in PageIds : p \notin lost' =>
              disk'[p] \in {disk[p], Visible(p)}
         /\ ~undoing /\ wrote = {} => \A p \in PageIds : p \notin lost' =>
              disk'[p] = Visible(p)
         /\ undoing => \A p \in PageIds : disk'[p] = disk[p]
<1>1. /\ TypeOK /\ OneCopy /\ CleanIsOnDisk /\ CachedInFile /\ RollbackQuiet
      /\ VisibleSpec
  BY VisibleFacts DEF IInv, PoolInv
<1>2. /\ lost \subseteq lost'
      /\ \A i \in DirtyFrames : frame[i].page \notin lost' =>
           disk'[frame[i].page] = frame[i].data
      /\ \A p \in PageIds :
           (\A i \in DirtyFrames : ~Holds(i, p)) => disk'[p] = disk[p]
  BY WriteOutFacts
<1>3. ASSUME NEW p \in PageIds, p \in lost', p \notin lost PROVE p < size
  <2>1. PICK i \in DirtyFrames : frame[i].page = p
    BY <1>3 DEF WriteOut, Losing, PagesOf
  <2>. QED
    BY <2>1, <1>1 DEF DirtyFrames, CachedInFile
<1>4. ASSUME ~undoing, NEW p \in PageIds, p \notin lost'
      PROVE  /\ disk'[p] \in {disk[p], Visible(p)}
             /\ wrote = {} => disk'[p] = Visible(p)
  <2>1. CASE \E i \in DirtyFrames : Holds(i, p)
    <3>1. PICK i \in DirtyFrames : Holds(i, p)
      BY <2>1
    <3>2. i \in Frames /\ Visible(p) = frame[i].data /\ frame[i].page = p
      BY <3>1, <1>1, <1>4 DEF VisibleSpec, DirtyFrames, Holds
    <3>. QED
      BY <3>1, <3>2, <1>2, <1>4
  <2>2. CASE ~\E i \in DirtyFrames : Holds(i, p)
    <3>1. disk'[p] = disk[p]
      BY <2>2, <1>2
    <3>2. CASE ~Cached(p)
      BY <3>1, <3>2, <1>1 DEF VisibleSpec
    <3>3. CASE Cached(p)
      <4>1. PICK i \in Frames : Holds(i, p)
        BY <3>3 DEF Cached
      <4>2. ~Empty(i) /\ ~frame[i].dirty /\ frame[i].page = p
        BY <4>1, <2>2 DEF DirtyFrames, Empty, Holds, PageIds, NoPage
      <4>3. Visible(p) = frame[i].data
        BY <4>1, <1>1, <1>4 DEF VisibleSpec
      <4>4. p \notin lost
        BY <1>2, <1>4
      <4>5. wrote = {} => frame[i].data = disk[p]
        BY <4>2, <4>4, <1>1, <1>4 DEF CleanIsOnDisk
      <4>. QED
        BY <4>3, <4>5, <3>1
    <3>. QED
      BY <3>2, <3>3
  <2>. QED
    BY <2>1, <2>2
<1>5. ASSUME undoing, NEW p \in PageIds PROVE disk'[p] = disk[p]
  BY <1>1, <1>2, <1>5 DEF RollbackQuiet
<1>. QED
  BY <1>2, <1>3, <1>4, <1>5

(* Steps after which nothing is cached, or nothing cached is looked at.    *)
LEMMA UncachedQuiet ==
  ASSUME IInv, IInv', NEW failed \in SUBSET DirtyFrames,
         WriteOut(DirtyFrames, failed), AllUnpinned, size' = size,
         frame' = EmptyPool \/ undoing'
  PROVE  Store!Transfer
<1>1. /\ VisibleSpec /\ VisibleSpec'
      /\ wrote = {}
  <2>1. VisibleSpec /\ VisibleSpec'
    BY VisibleFacts, PTL
  <2>2. wrote = {}
    BY DEF IInv, PoolInv, AllUnpinned
  <2>. QED
    BY <2>1, <2>2
<1>2. \A p \in PageIds : Visible(p)' = disk'[p]
  <2>1. frame' = EmptyPool => \A p \in PageIds : ~Cached(p)'
    BY DEF EmptyPool, EmptyFrame, Cached, Holds, PageIds, NoPage
  <2>. QED
    BY <2>1, <1>1 DEF VisibleSpec
<1>3. \A p \in PageIds : undoing => Visible(p) = disk[p]
  BY <1>1 DEF VisibleSpec
<1>4. \A p \in PageIds : p \notin lost' => disk'[p] = Visible(p)
  BY <1>1, <1>3, AllWritten
<1>5. size \in Int
  BY PoolAssumption DEF IInv, TypeOK
<1>6. /\ lost \subseteq lost' /\ size' >= size
      /\ \A p \in PageIds : p \in lost' /\ p \notin lost => p < size
      /\ \A p \in PageIds : ~(size <= p /\ p < size')
  BY <1>5, AllWritten DEF PageIds
<1>. QED
  BY <1>2, <1>4, <1>6, QuietStep

(* Steps that only move pins, access times and dirty marks, and write no   *)
(* more than what is visible.                                              *)
LEMMA SameFramesQuiet ==
  ASSUME IInv, IInv', ~undoing, ~undoing', size' = size, lost \subseteq lost',
         \A i \in Frames : /\ frame'[i].page = frame[i].page
                           /\ frame'[i].data = frame[i].data,
         \A p \in PageIds : p \notin lost' => disk'[p] \in {disk[p], Visible(p)},
         \A p \in PageIds : p \in lost' /\ p \notin lost => p < size
  PROVE  Store!Transfer
<1>1. VisibleSpec /\ VisibleSpec'
  BY VisibleFacts, PTL
<1>2. \A p \in PageIds : Cached(p)' <=> Cached(p)
  BY DEF Cached, Holds
<1>3. ASSUME NEW p \in PageIds, Cached(p) PROVE Visible(p)' = Visible(p)
  <2>1. PICK i \in Frames : Holds(i, p)
    BY <1>3 DEF Cached
  <2>2. Holds(i, p)'
    BY <2>1 DEF Holds
  <2>3. Visible(p) = frame[i].data /\ Visible(p)' = frame'[i].data
    BY <2>1, <2>2, <1>1 DEF VisibleSpec
  <2>. QED
    BY <2>3
<1>4. \A p \in PageIds : ~Cached(p) =>
        /\ Visible(p) = disk[p] /\ Visible(p)' = disk'[p]
  BY <1>1, <1>2 DEF VisibleSpec
<1>5. \A p \in PageIds : p \notin lost' => Visible(p)' = Visible(p)
  BY <1>3, <1>4
<1>6. size \in Int
  BY PoolAssumption DEF IInv, TypeOK
<1>7. /\ size' >= size
      /\ \A p \in PageIds : ~(size <= p /\ p < size')
  BY <1>6 DEF PageIds
<1>. QED
  BY <1>5, <1>7, QuietStep

(* The page of the victim is in the file as it was visible, the rest of    *)
(* the file is untouched.                                                  *)
LEMMA EvictWritten ==
  ASSUME IInv, ~undoing, NEW i \in Frames, Evicts(i),
         NEW failed \in SUBSET DirtyFrames, Losing(VictimWrite(i), failed)
  PROVE  /\ lost \subseteq lost'
         /\ \A p \in PageIds : p \in lost' /\ p \notin lost => p < size
         /\ \A p \in PageIds : p \notin lost' =>
              OnDisk(VictimWrite(i) \ failed)[p] =
                IF Holds(i, p) THEN Visible(p) ELSE disk[p]
<1>. DEFINE W == VictimWrite(i) \ failed
<1>1. /\ TypeOK /\ OneCopy /\ HeldPagesStay /\ CleanIsOnDisk /\ CachedInFile
      /\ wrote \subseteq {q \in PageIds : pins[q] > 0} /\ VisibleSpec
  BY VisibleFacts DEF IInv, PoolInv
<1>2. lost' = lost \cup PagesOf(VictimWrite(i) \cap failed)
  BY DEF Losing
<1>3. ASSUME NEW p \in PageIds, p \in lost', p \notin lost PROVE p < size
  <2>1. PICK j \in VictimWrite(i) : frame[j].page = p
    BY <1>2, <1>3 DEF PagesOf
  <2>. QED
    BY <2>1, <1>1 DEF VictimWrite, DirtyFrames, CachedInFile
<1>4. ASSUME NEW p \in PageIds, p \notin lost', Holds(i, p)
      PROVE  OnDisk(W)[p] = Visible(p)
  <2>1. /\ ~Empty(i) /\ frame[i].page = p /\ Visible(p) = frame[i].data
        /\ p \notin lost
    BY <1>1, <1>2, <1>4 DEF VisibleSpec, Holds, Empty, PageIds, NoPage
  <2>2. W \in SUBSET {j \in Frames : ~Empty(j)}
    BY DEF VictimWrite, DirtyFrames
  <2>3. CASE frame[i].dirty
    <3>1. i \in VictimWrite(i)
      BY <2>1, <2>3 DEF VictimWrite, DirtyFrames
    <3>2. i \notin failed
      BY <3>1, <2>1, <1>2, <1>4 DEF PagesOf
    <3>. QED
      BY <3>1, <3>2, <2>1, <2>2, <1>1, OnDiskFacts
  <2>4. CASE ~frame[i].dirty
    <3>1. W = {}
      BY <2>4 DEF VictimWrite, DirtyFrames
    <3>2. OnDisk(W)[p] = disk[p]
      BY <3>1, <2>2, <1>1, OnDiskFacts
    <3>3. pins[p] = 0
      BY <2>1, <1>1, EvictsUnpinned DEF Unpinned, HeldPagesStay
    <3>4. p \notin wrote
      BY <3>3, <1>1
    <3>. QED
      BY <3>2, <3>4, <2>1, <2>4, <1>1 DEF CleanIsOnDisk
  <2>. QED
    BY <2>3, <2>4
<1>5. \A p \in PageIds : ~Holds(i, p) => OnDisk(W)[p] = disk[p]
  BY VictimDisk
<1>. QED
  BY <1>2, <1>3, <1>4, <1>5

(* A miss and a new page: frame i now shows page q, as the file has it.    *)
LEMMA InstallQuiet ==
  ASSUME IInv, IInv', ~undoing, ~undoing', NEW i \in Frames, Evicts(i),
         NEW failed \in SUBSET DirtyFrames, Losing(VictimWrite(i), failed),
         NEW q \in PageIds \cup {NoPage}, ~Cached(q), frame'[i].page = q,
         \A j \in Frames : j # i => frame'[j] = frame[j],
         q # NoPage => frame'[i].data = disk'[q],
         size' >= size,
         \A p \in PageIds : p < size =>
           disk'[p] = OnDisk(VictimWrite(i) \ failed)[p],
         \A p \in PageIds : size <= p /\ p < size' => disk'[p] = Zero
  PROVE  Store!Transfer
<1>1. VisibleSpec /\ VisibleSpec'
  BY VisibleFacts, PTL
<1>2. /\ lost \subseteq lost'
      /\ \A p \in PageIds : p \in lost' /\ p \notin lost => p < size
      /\ \A p \in PageIds : p \notin lost' =>
           OnDisk(VictimWrite(i) \ failed)[p] =
             IF Holds(i, p) THEN Visible(p) ELSE disk[p]
  BY EvictWritten
<1>3. OneCopy /\ CachedInFile /\ TypeOK /\ size \in Int
  BY PoolAssumption DEF IInv, PoolInv, TypeOK
<1>4. ASSUME NEW p \in PageIds, p = q \/ \A j \in Frames : j # i => ~Holds(j, p)
      PROVE  Visible(p)' = disk'[p]
  <2>1. CASE p = q
    <3>1. Holds(i, p)' /\ p # NoPage
      BY <2>1 DEF Holds, PageIds, NoPage
    <3>2. Visible(p)' = frame'[i].data
      BY <3>1, <1>1 DEF VisibleSpec
    <3>. QED
      BY <3>1, <3>2, <2>1
  <2>2. CASE p # q
    <3>1. ~Cached(p)'
      BY <2>2, <1>4 DEF Cached, Holds
    <3>. QED
      BY <3>1, <1>1 DEF VisibleSpec
  <2>. QED
    BY <2>1, <2>2
<1>5. ASSUME NEW p \in PageIds, p \notin lost', p < size
      PROVE  Visible(p)' = Visible(p) /\ disk'[p] \in {disk[p], Visible(p)}
  <2>1. disk'[p] = IF Holds(i, p) THEN Visible(p) ELSE disk[p]
    BY <1>2, <1>5
  <2>2. CASE \E j \in Frames : j # i /\ Holds(j, p)
    <3>1. PICK j \in Frames : j # i /\ Holds(j, p)
      BY <2>2
    <3>2. Holds(j, p)'
      BY <3>1 DEF Holds
    <3>3. Visible(p) = frame[j].data /\ Visible(p)' = frame'[j].data
      BY <3>1, <3>2, <1>1 DEF VisibleSpec
    <3>. QED
      BY <3>1, <3>3, <2>1
  <2>3. CASE ~\E j \in Frames : j # i /\ Holds(j, p)
    <3>1. Visible(p)' = disk'[p]
      BY <2>3, <1>4
    <3>2. ~Holds(i, p) => Visible(p) = disk[p]
      BY <2>3, <1>1 DEF VisibleSpec, Cached
    <3>. QED
      BY <3>1, <3>2, <2>1
  <2>. QED
    BY <2>2, <2>3
<1>6. ASSUME NEW p \in PageIds, p \notin lost', size <= p, p < size'
      PROVE  Visible(p)' = Zero /\ disk'[p] = Zero
  <2>1. \A j \in Frames : ~Holds(j, p)
    BY <1>3, <1>6 DEF CachedInFile, Holds, Empty, PageIds, NoPage
  <2>. QED
    BY <2>1, <1>4, <1>6
<1>. QED
  BY <1>2, <1>5, <1>6, QuietStep

(* A client's write is a Modify of the store; on a damaged page it is      *)
(* invisible.                                                              *)
LEMMA WriteRefines ==
  ASSUME IInv, IInv', NEW p \in DataPages, NEW v \in Values, Write(p, v)
  PROVE  Store!StoreNext
<1>1. /\ VisibleSpec /\ VisibleSpec'
      /\ OneCopy /\ CachedInFile /\ TypeOK
  <2>1. VisibleSpec /\ VisibleSpec'
    BY VisibleFacts, PTL
  <2>. QED
    BY <2>1 DEF IInv, PoolInv
<1>2. p \in PageIds /\ p # NoPage
  BY DEF DataPages, PageIds, NoPage
<1>3. PICK i \in Frames : Holds(i, p)
  BY DEF Write, Cached
<1>4. /\ frame' = [frame EXCEPT ![i].data = v]
      /\ disk' = disk /\ size' = size /\ lost' = lost
      /\ ~undoing /\ ~undoing'
  <2>1. FrameOf(p) = i
    BY <1>1, <1>2, <1>3, FrameOfIs
  <2>. QED
    BY <2>1 DEF Write
<1>5. /\ \A j \in Frames : /\ frame'[j].page = frame[j].page
                           /\ j # i => frame'[j] = frame[j]
      /\ frame'[i].data = v
  BY <1>1, <1>4 DEF TypeOK, Frame
<1>6. Visible(p)' = v
  <2>1. Holds(i, p)'
    BY <1>3, <1>5 DEF Holds
  <2>. QED
    BY <2>1, <1>1, <1>2, <1>4, <1>5 DEF VisibleSpec
<1>7. ASSUME NEW q \in PageIds, q # p PROVE Visible(q)' = Visible(q)
  <2>1. CASE Cached(q)
    <3>1. PICK j \in Frames : Holds(j, q)
      BY <2>1 DEF Cached
    <3>2. j # i /\ Holds(j, q)'
      BY <3>1, <1>3, <1>5, <1>7 DEF Holds
    <3>3. Visible(q) = frame[j].data /\ Visible(q)' = frame'[j].data
      BY <3>1, <3>2, <1>1, <1>4 DEF VisibleSpec
    <3>. QED
      BY <3>2, <3>3, <1>5
  <2>2. CASE ~Cached(q)
    <3>1. ~Cached(q)'
      BY <2>2, <1>5 DEF Cached, Holds
    <3>. QED
      BY <3>1, <2>2, <1>1, <1>4 DEF VisibleSpec
  <2>. QED
    BY <2>1, <2>2
<1>8. size \in Int /\ p \in Int /\ p < size
  BY <1>1, <1>2, <1>3, PoolAssumption
  DEF TypeOK, PageIds, CachedInFile, Holds, Empty
<1>9. CASE p \in lost
  <2>1. \A q \in PageIds : q \notin lost' => Visible(q)' = Visible(q)
    BY <1>4, <1>7, <1>9
  <2>2. /\ lost \subseteq lost' /\ size' >= size
        /\ \A q \in PageIds : ~(size <= q /\ q < size')
        /\ \A q \in PageIds : ~(q \in lost' /\ q \notin lost)
    BY <1>4, <1>8 DEF PageIds
  <2>3. Store!Transfer
    BY <2>1, <2>2, <1>4, QuietStep
  <2>. QED
    BY <2>3 DEF Store!StoreNext
<1>10. CASE p \notin lost
  <2>1. \A q \in PageIds :
          /\ Working(q) = IF q \in lost THEN Unknown
                          ELSE IF q >= size THEN Absent ELSE Visible(q)
          /\ Working(q)' = IF q \in lost THEN Unknown
                           ELSE IF q >= size THEN Absent ELSE Visible(q)'
          /\ Stable(q)' = Stable(q)
    BY <1>4 DEF Working, Stable, Visible
  <2>2. Working(p) = Visible(p) /\ Working(p)' = v /\ Visible(p) \in Values
    BY <2>1, <1>1, <1>2, <1>6, <1>8, <1>10 DEF VisibleSpec
  <2>3. \A q \in PageIds : q # p => Working(q)' = Working(q)
    BY <2>1, <1>7
  <2>4. Store!Modify(p, v)
    BY <2>1, <2>2, <2>3, <1>2 DEF Store!Modify
  <2>. QED
    BY <2>4, <1>2 DEF Store!StoreNext
<1>. QED
  BY <1>9, <1>10

(* A before-image goes to both copies: nothing is visible but the file. *)
LEMMA UndoRefines ==
  ASSUME IInv, IInv', NEW p \in DataPages, NEW v \in Values, UndoPage(p, v)
  PROVE  Store!StoreNext \/ UNCHANGED Store!storeVars
<1>1. /\ undoing /\ undoing' /\ p \in PageIds /\ p < size
      /\ disk' = [disk EXCEPT ![p] = v] /\ size' = size /\ lost' = lost
  BY DEF UndoPage, DataPages
<1>2. disk \in [PageIds -> Values] /\ size \in Int /\ p \in Int
  BY <1>1, PoolAssumption DEF IInv, TypeOK, PageIds
<1>3. \A q \in PageIds : Working(q) = Stable(q) /\ Working(q)' = Stable(q)'
  BY <1>1 DEF Working, Stable
<1>4. \A q \in PageIds : q # p \/ p \in lost => Stable(q)' = Stable(q)
  BY <1>1, <1>2 DEF Stable
<1>5. CASE p \in lost
  BY <1>3, <1>4, <1>5 DEF Store!storeVars
<1>6. CASE p \notin lost
  <2>1. Stable(p) = disk[p] /\ Stable(p)' = v /\ disk[p] \in Values
    BY <1>1, <1>2, <1>6 DEF Stable
  <2>2. Store!Undo(p, v)
    BY <2>1, <1>1, <1>3, <1>4 DEF Store!Undo
  <2>. QED
    BY <2>2, <1>1 DEF Store!StoreNext
<1>. QED
  BY <1>5, <1>6

(* After a crash only the file is left. *)
LEMMA CrashRefines ==
  ASSUME Crash
  PROVE  Store!StoreNext
<1>1. disk' = disk /\ size' = size /\ lost' = lost /\ frame' = EmptyPool
  BY DEF Crash
<1>2. \A p \in PageIds : ~Cached(p)'
  BY <1>1 DEF EmptyPool, EmptyFrame, Cached, Holds, PageIds, NoPage
<1>3. \A p \in PageIds : Working(p)' = Stable(p) /\ Stable(p)' = Stable(p)
  BY <1>1, <1>2 DEF Working, Stable
<1>. QED
  BY <1>3 DEF Store!StoreNext, Store!Restart

(* Every step of the pool is a step of PageStore or a stutter.             *)
LEMMA StepRefines ==
  IInv /\ IInv' /\ [Next]_vars => [Store!StoreNext]_(Store!storeVars)
<1>. SUFFICES ASSUME IInv, IInv', [Next]_vars
              PROVE  Store!StoreNext \/ UNCHANGED Store!storeVars
  OBVIOUS
<1>. USE DEF Store!StoreNext
<1>0. /\ TypeOK /\ OneCopy /\ CachedInFile /\ RollbackQuiet
      /\ size \in 0 .. MaxPage + 1 /\ size # 1 /\ frame \in [Frames -> Frame]
  BY DEF IInv, PoolInv, TypeOK
<1>2. ASSUME NEW p \in DataPages, FetchHit(p) PROVE Store!Transfer
  <2>1. p \in PageIds
    BY DEF DataPages
  <2>2. PICK i \in Frames : Holds(i, p)
    BY <1>2 DEF FetchHit, Cached
  <2>3. /\ frame' = [frame EXCEPT ![i].last_access = tick + 1,
                                  ![i].pin_count = frame[i].pin_count + 1]
        /\ disk' = disk /\ size' = size /\ lost' = lost /\ ~undoing /\ ~undoing'
    BY <2>1, <2>2, <1>0, <1>2, FrameOfIs DEF FetchHit, Accessed
  <2>4. \A j \in Frames : /\ frame'[j].page = frame[j].page
                          /\ frame'[j].data = frame[j].data
    BY <2>3, <1>0 DEF Frame
  <2>. QED
    BY <2>3, <2>4, SameFramesQuiet
<1>3. ASSUME NEW p \in DataPages, NEW i \in Frames,
             NEW failed \in SUBSET DirtyFrames, FetchMiss(p, i, failed)
      PROVE  Store!Transfer
  <2>1. /\ ~undoing /\ ~undoing' /\ ~Cached(p) /\ Evicts(i)
        /\ disk' = OnDisk(VictimWrite(i) \ failed)
        /\ Losing(VictimWrite(i), failed) /\ size' = size
        /\ p \in PageIds /\ p # NoPage
    BY <1>3 DEF FetchMiss, Missing, WriteOut, DataPages, PageIds, NoPage
  <2>2. size' >= size /\ \A q \in PageIds : ~(size <= q /\ q < size')
    BY <2>1, <1>0, PoolAssumption DEF PageIds
  <2>3. CASE p < size
    <3>1. /\ frame'[i].page = p /\ frame'[i].data = disk[p]
          /\ \A j \in Frames : j # i => frame'[j] = frame[j]
      BY <2>3, <1>0, <1>3 DEF FetchMiss
    <3>2. disk'[p] = disk[p]
      BY <2>1, VictimDisk DEF Cached
    <3>. QED
      BY <2>1, <2>2, <3>1, <3>2, InstallQuiet
  <2>4. CASE ~(p < size)
    <3>1. /\ frame'[i].page = NoPage
          /\ \A j \in Frames : j # i => frame'[j] = frame[j]
      BY <2>4, <1>0, <1>3 DEF FetchMiss, EmptyFrame
    <3>2. CASE Cached(NoPage)
      \* an empty frame is taken: nothing leaves the cache
      <4>1. PICK j \in Frames : Empty(j)
        BY <3>2 DEF Cached, Holds, Empty
      <4>2. Empty(i)
        BY <4>1, <2>1 DEF Evicts
      <4>3. VictimWrite(i) = {}
        BY <4>2 DEF VictimWrite, DirtyFrames
      <4>4. lost' = lost
        BY <4>3, <2>1 DEF Losing, PagesOf
      <4>5. \A q \in PageIds : disk'[q] = disk[q]
        <5>1. \A q \in PageIds : ~Holds(i, q)
          BY <4>2 DEF Holds, Empty, PageIds, NoPage
        <5>. QED
          BY <5>1, <2>1, VictimDisk
      <4>6. VisibleSpec /\ VisibleSpec'
        BY VisibleFacts, PTL
      <4>7. ASSUME NEW q \in PageIds PROVE Visible(q)' = Visible(q)
        <5>1. q # NoPage
          BY DEF PageIds, NoPage
        <5>2. CASE Cached(q)
          <6>1. PICK k \in Frames : Holds(k, q)
            BY <5>2 DEF Cached
          <6>2. k # i /\ Holds(k, q)' /\ frame'[k] = frame[k]
            BY <6>1, <5>1, <4>2, <3>1 DEF Holds, Empty
          <6>. QED
            BY <6>1, <6>2, <4>6, <2>1 DEF VisibleSpec
        <5>3. CASE ~Cached(q)
          <6>1. ~Cached(q)'
            BY <5>1, <5>3, <3>1 DEF Cached, Holds
          <6>. QED
            BY <6>1, <5>3, <4>5, <4>6 DEF VisibleSpec
        <5>. QED
          BY <5>2, <5>3
      <4>. QED
        BY <4>4, <4>5, <4>7, <2>2, QuietStep
    <3>3. CASE ~Cached(NoPage)
      BY <3>1, <3>3, <2>1, <2>2, InstallQuiet
    <3>. QED
      BY <3>2, <3>3
  <2>. QED
    BY <2>3, <2>4
<1>4. ASSUME NEW i \in Frames, NEW failed \in SUBSET DirtyFrames,
             NewPage(i, failed)
      PROVE  Store!Transfer
  <2>. DEFINE n == NewId
  <2>1. n = IF size = 0 THEN 1 ELSE size
    BY <1>0, NewIdIsEnd
  <2>2. /\ ~undoing /\ ~undoing' /\ Evicts(i) /\ n <= MaxPage
        /\ disk' = [p \in PageIds |->
                      IF p = n \/ (p = 0 /\ size = 0) THEN Zero
                      ELSE OnDisk(VictimWrite(i) \ failed)[p]]
        /\ Losing(VictimWrite(i), failed)
        /\ size' = (IF n < size THEN size ELSE n + 1)
        /\ frame'[i].page = n /\ frame'[i].data = Zero
        /\ \A j \in Frames : j # i => frame'[j] = frame[j]
    BY <1>0, <1>4 DEF NewPage, IdFits
  <2>. HIDE DEF n
  <2>3. n \in PageIds /\ n >= size /\ n # NoPage
    BY <2>1, <2>2, <1>0, PoolAssumption DEF PageIds, NoPage
  <2>4. ~Cached(n)
    BY <2>3, <1>0 DEF CachedInFile, Cached, Holds, Empty, PageIds, NoPage
  <2>5. disk'[n] = Zero
    BY <2>2, <2>3
  <2>6. size' = n + 1 /\ size' >= size
    BY <2>2, <2>3, <1>0, PoolAssumption DEF PageIds
  <2>7. \A p \in PageIds : p < size =>
          disk'[p] = OnDisk(VictimWrite(i) \ failed)[p]
    BY <2>2, <2>3, <1>0, PoolAssumption DEF PageIds
  <2>8. \A p \in PageIds : size <= p /\ p < size' => disk'[p] = Zero
    BY <2>1, <2>2, <2>6, <1>0, PoolAssumption DEF PageIds
  <2>. QED
    BY <2>2, <2>3, <2>4, <2>5, <2>6, <2>7, <2>8, InstallQuiet
<1>5. ASSUME NEW p \in DataPages, NEW v \in Values, Write(p, v)
      PROVE  Store!StoreNext
  BY <1>5, WriteRefines
<1>6. ASSUME NEW p \in DataPages, NEW dirty \in BOOLEAN, Unpin(p, dirty)
      PROVE  Store!Transfer
  <2>1. disk' = disk /\ size' = size /\ lost' = lost /\ ~undoing /\ ~undoing'
    BY <1>6 DEF Unpin
  <2>2. \A j \in Frames : /\ frame'[j].page = frame[j].page
                          /\ frame'[j].data = frame[j].data
    BY <1>0, <1>6 DEF Unpin, Frame
  <2>. QED
    BY <2>1, <2>2, SameFramesQuiet
<1>7. ASSUME NEW p \in DataPages, NEW ok \in BOOLEAN, FlushPage(p, ok)
      PROVE  Store!Transfer
  <2>0. p \in PageIds /\ p # NoPage
    BY DEF DataPages, PageIds, NoPage
  <2>1. PICK i \in Frames : Holds(i, p)
    BY <1>7 DEF FlushPage, Cached
  <2>2. FrameOf(p) = i
    BY <2>0, <2>1, <1>0, FrameOfIs
  <2>3. /\ size' = size /\ lost' = lost /\ ~undoing /\ ~undoing'
        /\ disk' = (IF ok THEN OnDisk({i}) ELSE disk)
        /\ frame' = [frame EXCEPT ![i].dirty = StillDirty(ok)]
    BY <2>2, <1>7 DEF FlushPage
  <2>4. \A j \in Frames : /\ frame'[j].page = frame[j].page
                          /\ frame'[j].data = frame[j].data
    BY <2>3, <1>0 DEF Frame
  <2>5. VisibleSpec
    BY VisibleFacts
  <2>6. Visible(p) = frame[i].data
    BY <2>0, <2>1, <2>3, <2>5 DEF VisibleSpec
  <2>7. {i} \in SUBSET {j \in Frames : ~Empty(j)} /\ frame[i].page = p
    BY <2>0, <2>1 DEF Holds, Empty
  <2>8. /\ OnDisk({i})[p] = frame[i].data
        /\ \A q \in PageIds : q # p => OnDisk({i})[q] = disk[q]
    BY <2>7, <1>0, OnDiskFacts DEF Holds
  <2>9. \A q \in PageIds : disk'[q] \in {disk[q], Visible(q)}
    BY <2>3, <2>6, <2>8
  <2>. QED
    BY <2>3, <2>4, <2>9, SameFramesQuiet
<1>8. ASSUME NEW failed \in SUBSET DirtyFrames, FlushAll(failed)
      PROVE  Store!Transfer
  <2>1. /\ WriteOut(DirtyFrames, failed) /\ frame' = AllClean /\ size' = size
        /\ ~undoing /\ ~undoing'
    BY <1>8 DEF FlushAll
  <2>2. \A j \in Frames : /\ frame'[j].page = frame[j].page
                          /\ frame'[j].data = frame[j].data
    BY <2>1, <1>0 DEF AllClean, Frame
  <2>. QED
    BY <2>1, <2>2, AllWritten, SameFramesQuiet
<1>9. ASSUME NEW failed \in SUBSET DirtyFrames, RollbackBegin(failed)
      PROVE  Store!Transfer
  BY <1>9, UncachedQuiet DEF RollbackBegin
<1>10. ASSUME NEW p \in DataPages, NEW v \in Values, UndoPage(p, v)
       PROVE  Store!StoreNext \/ UNCHANGED Store!storeVars
  BY <1>10, UndoRefines
<1>11. ASSUME NEW failed \in SUBSET DirtyFrames, RollbackEnd(failed)
       PROVE  Store!Transfer
  BY <1>0, <1>11, UncachedQuiet DEF RollbackEnd, RollbackQuiet
<1>12. ASSUME NEW failed \in SUBSET DirtyFrames, Shutdown(failed)
       PROVE  Store!Transfer
  BY <1>12, UncachedQuiet DEF Shutdown
<1>13. CASE Crash
  BY <1>13, CrashRefines
<1>14. CASE UNCHANGED vars
  BY <1>14 DEF vars, Store!storeVars, Working, Stable, Cached, Holds, FrameOf
<1>. QED
  BY <1>2, <1>3, <1>4, <1>5, <1>6, <1>7, <1>8, <1>9, <1>10, <1>11, <1>12,
     <1>13, <1>14 DEF Next

(* The page cache implements the abstract page store: whatever is evicted, *)
(* flushed, rolled back or lost in a crash, a reader sees the last write.  *)
THEOREM PoolImplementsStore == Spec => ImplementsPageStore
<1>1. Init => Store!StoreInit
  BY DEF Init, Store!StoreInit, Working, Stable, PageIds
<1>. QED
  BY <1>1, StepRefines, Invariance, PTL
  DEF Spec, ImplementsPageStore, Store!StoreSpec

=============================================================================
