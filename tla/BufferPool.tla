---------------------------- MODULE BufferPool ----------------------------
(***************************************************************************)
(* The page cache of storage/buffer_pool.c over the database file, with    *)
(* its clients (heap and B+tree code), the rollback of db_api.c, which     *)
(* writes before-images through a second descriptor behind the back of the *)
(* pool, the regular shutdown and the crash of the process.                *)
(*                                                                         *)
(* A write of a page may fail.  bp_flush_page reports it; bp_evict,        *)
(* bp_flush_all and bp_remove_page ignore it, and the pages they lost that *)
(* way are recorded in lost.  The two writes of bp_new_page succeed here.  *)
(***************************************************************************)
EXTENDS Integers, FiniteSets

CONSTANTS
  Capacity,   \* number of frames
  MaxPage,    \* SV_MAX_PAGE_ID
  Values,     \* contents of a page
  Zero,       \* the contents page_create gives
  Absent, Unknown,
  MaxTick,    \* bound: accesses in one life of the pool
  MaxPins,    \* bound: holds of clients on one page
  MaxLost     \* bound: pages damaged by an ignored write error

ASSUME PoolAssumption ==
  /\ Capacity \in Nat \ {0}
  /\ MaxPage \in Nat \ {0}
  /\ Zero \in Values
  /\ Absent \notin Values
  /\ Unknown \notin Values \cup {Absent}
  /\ MaxTick \in Nat
  /\ MaxPins \in Nat
  /\ MaxLost \in Nat

VARIABLES
  frame,    \* BufferPool.frames
  tick,     \* BufferPool.tick
  disk,     \* the database file, page by page
  size,     \* its length in pages
  pins,     \* holds of the clients: successful bp_fetch/bp_new_page - bp_unpin
  wrote,    \* pages a client modified and has not yet unpinned as dirty
  undoing,  \* db_rollback is between bp_flush_all and the last bp_remove_page
  lost      \* pages whose modification an ignored write error dropped

vars == <<frame, tick, disk, size, pins, wrote, undoing, lost>>

Frames  == 1 .. Capacity
PageIds == 0 .. MaxPage
NoPage  == -1

(* Page 0 is reserved: it ends a chain, and nobody fetches it. *)
DataPages == PageIds \ {0}

Frame == [page : PageIds \cup {NoPage}, data : Values, dirty : BOOLEAN,
          pin_count : Nat, last_access : Nat]

EmptyFrame == [page |-> NoPage, data |-> Zero, dirty |-> FALSE,
               pin_count |-> 0, last_access |-> 0]

Empty(i)     == frame[i].page = NoPage
Holds(i, p)  == frame[i].page = p
Cached(p)    == \E i \in Frames : Holds(i, p)
Unpinned(i)  == frame[i].pin_count = 0
AllUnpinned  == \A p \in PageIds : pins[p] = 0

(* bp_find: the first frame that holds p *)
FrameOf(p) ==
  CHOOSE i \in Frames : Holds(i, p) /\ \A j \in 1 .. i - 1 : ~Holds(j, p)

-----------------------------------------------------------------------------
(* bp_create *)
EmptyPool == [i \in Frames |-> EmptyFrame]

Init ==
  /\ frame = EmptyPool
  /\ tick = 0
  /\ disk = [p \in PageIds |-> Zero]
  /\ size = 0
  /\ pins = [p \in PageIds |-> 0]
  /\ wrote = {}
  /\ undoing = FALSE
  /\ lost = {}

(* bp_evict: the first empty frame, else the least recently used of those  *)
(* that are not pinned; none when every frame is pinned.                   *)
EvictsPinned(i) ==                              \* mutant: pins not looked at
  IF \E j \in Frames : Empty(j)
  THEN Empty(i) /\ \A j \in 1 .. i - 1 : ~Empty(j)
  ELSE \A j \in Frames : frame[i].last_access <= frame[j].last_access

Evicts(i) ==
  IF \E j \in Frames : Empty(j)
  THEN Empty(i) /\ \A j \in 1 .. i - 1 : ~Empty(j)
  ELSE /\ Unpinned(i)
       /\ \A j \in Frames : Unpinned(j) =>
            \/ frame[i].last_access < frame[j].last_access
            \/ frame[i].last_access = frame[j].last_access /\ i <= j

(* The frames W are written to the file.  A failed write is ignored.       *)
OnDisk(W) ==
  [p \in PageIds |-> IF \E i \in W : Holds(i, p) THEN frame[FrameOf(p)].data
                     ELSE disk[p]]

PagesOf(W)   == {frame[i].page : i \in W}
DirtyFrames  == {i \in Frames : ~Empty(i) /\ frame[i].dirty}

Losing(W, failed) ==
  /\ lost' = lost \cup PagesOf(W \cap failed)
  /\ Cardinality(lost') <= MaxLost

WriteOut(W, failed) == disk' = OnDisk(W \ failed) /\ Losing(W, failed)

(* The victim of an eviction is written only when it is dirty. *)
VictimWrite(i) == {i} \cap DirtyFrames

(* bp_fetch *)
Accessed(i, p, n) ==
  /\ tick' = tick + 1
  /\ pins' = [pins EXCEPT ![p] = pins[p] + 1]
  /\ frame' = [frame EXCEPT ![i].last_access = tick + 1, ![i].pin_count = n]

FetchHit(p) ==
  /\ ~undoing
  /\ pins[p] < MaxPins /\ tick < MaxTick
  /\ Cached(p)
  /\ Accessed(FrameOf(p), p, frame[FrameOf(p)].pin_count + 1)
  /\ UNCHANGED <<disk, size, wrote, undoing, lost>>

(* A miss: the victim leaves the cache even when p is not in the file and  *)
(* the call returns NULL.                                                  *)
FindSkipsPinned(p) ==                    \* mutant: the search skips pinned frames
  \A i \in Frames : Holds(i, p) => ~Unpinned(i)
Missing(p) == ~Cached(p)

FetchMiss(p, i, failed) ==
  /\ ~undoing
  /\ pins[p] < MaxPins /\ tick < MaxTick
  /\ Missing(p)
  /\ Evicts(i)
  /\ WriteOut(VictimWrite(i), failed)
  /\ IF p < size
     THEN /\ frame' = [frame EXCEPT ![i] =
                         [page |-> p, data |-> disk[p], dirty |-> FALSE,
                          pin_count |-> 1, last_access |-> tick + 1]]
          /\ tick' = tick + 1
          /\ pins' = [pins EXCEPT ![p] = pins[p] + 1]
     ELSE /\ frame' = [frame EXCEPT ![i] = EmptyFrame]
          /\ UNCHANGED <<tick, pins>>
  /\ UNCHANGED <<size, wrote, undoing>>

(* bp_new_page: the next page of the file.  Page 0 is reserved and written *)
(* first; pages that are only in memory are skipped.                       *)
NewIdFromCache ==       \* mutant: greatest cached id + 1, as it used to be
  LET ids == {1} \cup {frame[i].page + 1 : i \in Frames}
  IN  CHOOSE n \in ids : \A m \in ids : m <= n

NewId ==
  LET base == IF size = 0 THEN 1 ELSE size
      ids  == {base} \cup {frame[i].page + 1 : i \in {j \in Frames : ~Empty(j)}}
  IN  CHOOSE n \in ids : \A m \in ids : m <= n

IdFits(n)      == n <= MaxPage

NewPage(i, failed) ==
  /\ ~undoing
  /\ tick < MaxTick
  /\ IdFits(NewId)
  /\ Evicts(i)
  /\ disk' = [p \in PageIds |->
                IF p = NewId \/ (p = 0 /\ size = 0) THEN Zero
                ELSE OnDisk(VictimWrite(i) \ failed)[p]]
  /\ Losing(VictimWrite(i), failed)
  /\ size' = IF NewId < size THEN size ELSE NewId + 1
  /\ frame' = [frame EXCEPT ![i] =
                 [page |-> NewId, data |-> Zero, dirty |-> FALSE,
                  pin_count |-> 1, last_access |-> tick + 1]]
  /\ tick' = tick + 1
  /\ pins' = [p \in PageIds |-> IF p = NewId THEN pins[p] + 1 ELSE pins[p]]
  /\ UNCHANGED <<wrote, undoing>>

(* A client writes into a page it holds, through the pointer it was given. *)
Write(p, v) ==
  /\ ~undoing
  /\ pins[p] > 0
  /\ Cached(p)
  /\ frame' = [frame EXCEPT ![FrameOf(p)].data = v]
  /\ wrote' = wrote \cup {p}
  /\ UNCHANGED <<tick, disk, size, pins, undoing, lost>>

(* bp_unpin.  Clients pass dirty = true after they modified the page.      *)
DirtyAfter(i, dirty) == frame[i].dirty \/ dirty

Unpin(p, dirty) ==
  /\ ~undoing
  /\ pins[p] > 0
  /\ p \in wrote => dirty
  /\ frame' =
       IF Cached(p)
       THEN LET i == FrameOf(p)
            IN  [frame EXCEPT
                   ![i].pin_count = IF frame[i].pin_count > 0
                                    THEN frame[i].pin_count - 1 ELSE 0,
                   ![i].dirty = DirtyAfter(i, dirty)]
       ELSE frame
  /\ pins' = [pins EXCEPT ![p] = pins[p] - 1]
  /\ wrote' = IF dirty THEN wrote \ {p} ELSE wrote
  /\ UNCHANGED <<tick, disk, size, undoing, lost>>

(* bp_flush_page: the frame stays dirty when the write fails. *)
FlushForgets(ok) == FALSE               \* mutant: clean whatever page_write says
StillDirty(ok)   == ~ok

FlushPage(p, ok) ==
  /\ ~undoing
  /\ Cached(p) /\ frame[FrameOf(p)].dirty
  /\ disk' = IF ok THEN OnDisk({FrameOf(p)}) ELSE disk
  /\ frame' = [frame EXCEPT ![FrameOf(p)].dirty = StillDirty(ok)]
  /\ UNCHANGED <<tick, size, pins, wrote, undoing, lost>>

(* bp_flush_all *)
AllClean == [i \in Frames |-> [frame[i] EXCEPT !.dirty = FALSE]]

FlushAll(failed) ==
  /\ ~undoing
  /\ WriteOut(DirtyFrames, failed)
  /\ frame' = AllClean
  /\ UNCHANGED <<tick, size, pins, wrote, undoing>>

(* db_rollback and db_rollback_to, between two statements: flush the pool, *)
(* restore before-images in the file, then drop every frame.               *)
RollbackBegin(failed) ==
  /\ ~undoing /\ AllUnpinned
  /\ WriteOut(DirtyFrames, failed)
  /\ frame' = AllClean
  /\ undoing' = TRUE
  /\ UNCHANGED <<tick, size, pins, wrote>>

UndoPage(p, v) ==
  /\ undoing
  /\ p < size
  /\ disk' = [disk EXCEPT ![p] = v]
  /\ UNCHANGED <<frame, tick, size, pins, wrote, undoing, lost>>

RollbackEnd(failed) ==
  /\ undoing
  /\ WriteOut(DirtyFrames, failed)
  /\ frame' = EmptyPool
  /\ undoing' = FALSE
  /\ UNCHANGED <<tick, size, pins, wrote>>

(* bp_destroy by db_shutdown, then bp_create by the next db_init *)
Shutdown(failed) ==
  /\ ~undoing /\ AllUnpinned
  /\ WriteOut(DirtyFrames, failed)
  /\ frame' = EmptyPool
  /\ tick' = 0
  /\ UNCHANGED <<size, pins, wrote, undoing>>

(* The process dies at any moment; what it wrote is in the file. *)
Crash ==
  /\ frame' = EmptyPool
  /\ tick' = 0
  /\ pins' = [p \in PageIds |-> 0]
  /\ wrote' = {}
  /\ undoing' = FALSE
  /\ UNCHANGED <<disk, size, lost>>

Next ==
  \/ \E p \in DataPages : FetchHit(p)
  \/ \E p \in DataPages, i \in Frames, failed \in SUBSET DirtyFrames :
       FetchMiss(p, i, failed)
  \/ \E i \in Frames, failed \in SUBSET DirtyFrames : NewPage(i, failed)
  \/ \E p \in DataPages, v \in Values : Write(p, v)
  \/ \E p \in DataPages, dirty \in BOOLEAN : Unpin(p, dirty)
  \/ \E p \in DataPages, ok \in BOOLEAN : FlushPage(p, ok)
  \/ \E failed \in SUBSET DirtyFrames : FlushAll(failed)
  \/ \E failed \in SUBSET DirtyFrames : RollbackBegin(failed)
  \/ \E p \in DataPages, v \in Values : UndoPage(p, v)
  \/ \E failed \in SUBSET DirtyFrames : RollbackEnd(failed)
  \/ \E failed \in SUBSET DirtyFrames : Shutdown(failed)
  \/ Crash

Spec == Init /\ [][Next]_vars

-----------------------------------------------------------------------------
(* Types of the pool, the file and the clients' holds. *)
TypeOK ==
  /\ frame \in [Frames -> Frame]
  /\ tick \in Nat
  /\ disk \in [PageIds -> Values]
  /\ size \in 0 .. MaxPage + 1
  /\ pins \in [PageIds -> Nat]
  /\ wrote \subseteq PageIds
  /\ undoing \in BOOLEAN
  /\ lost \subseteq PageIds

(* A page is in at most one frame: two copies would be modified apart and  *)
(* the later write-back would undo the other.                              *)
OneCopy ==
  \A i, j \in Frames : ~Empty(i) /\ Holds(j, frame[i].page) => i = j

(* A page a client holds stays in its frame until the last hold is given   *)
(* back, whatever else is fetched: the pointers bp_fetch returned stay     *)
(* valid.  The pin count is exactly the number of holds, so no frame is    *)
(* pinned for ever.                                                        *)
HeldPagesStay ==
  /\ \A p \in PageIds : pins[p] > 0 => Cached(p)
  /\ \A i \in Frames : ~Empty(i) => frame[i].pin_count = pins[frame[i].page]

(* A clean frame is the page in the file, so dropping it loses nothing:    *)
(* outside a rollback, and except for pages a client is modifying or whose *)
(* write failed unnoticed.                                                 *)
CleanIsOnDisk ==
  \A i \in Frames :
    ~Empty(i) /\ ~frame[i].dirty /\ ~undoing
      /\ frame[i].page \notin wrote \cup lost =>
        frame[i].data = disk[frame[i].page]

(* Every cached page exists in the file. *)
CachedInFile == \A i \in Frames : ~Empty(i) => frame[i].page < size

(* A rollback works on the file: no page is pinned or dirty meanwhile.     *)
RollbackQuiet ==
  undoing => DirtyFrames = {} /\ AllUnpinned

PoolInv ==
  /\ OneCopy
  /\ HeldPagesStay
  /\ CleanIsOnDisk
  /\ CachedInFile
  /\ RollbackQuiet
  /\ wrote \subseteq {p \in PageIds : pins[p] > 0}
  /\ size # 1

-----------------------------------------------------------------------------
(* The cache implements the page store: reads always see the last write,   *)
(* evictions, flushes and misses change nothing, a rollback shows exactly  *)
(* the before-images and an id handed out by bp_new_page was never used.   *)
Working(p) ==
  IF p \in lost THEN Unknown
  ELSE IF p >= size THEN Absent
  ELSE IF Cached(p) /\ ~undoing THEN frame[FrameOf(p)].data
  ELSE disk[p]

Stable(p) ==
  IF p \in lost THEN Unknown
  ELSE IF p >= size THEN Absent
  ELSE disk[p]

Store == INSTANCE PageStore
           WITH value <- [p \in PageIds |-> Working(p)],
                stable <- [p \in PageIds |-> Stable(p)]

ImplementsPageStore == Store!StoreSpec

=============================================================================
