---------------------------- MODULE SlottedPage ----------------------------
(***************************************************************************)
(* One 4 KB page of storage/page.c, byte by byte.                          *)
(*                                                                         *)
(* The payload data[] holds the slot directory, which grows upwards from   *)
(* byte 0, and the rows, which grow downwards from the last byte.  The     *)
(* code stores neither end of the gap: page_insert derives the offset of   *)
(* the next row from free_space and num_slots, so one wrong update of      *)
(* either of them makes a later row overwrite the directory or a           *)
(* neighbour.  page_compact moves every live row through a temporary       *)
(* buffer, one slot per iteration.                                         *)
(*                                                                         *)
(* A byte is modelled by what was last written into it: byte k of the row  *)
(* stored in slot s is <<s, k>>, a byte of a slot entry is DirByte, a byte *)
(* never written is Blank.                                                 *)
(***************************************************************************)
EXTENDS Integers

CONSTANTS
  DataSize,       \* sizeof(Page.data): SV_PAGE_SIZE - SV_PAGE_HEADER_SIZE
  SlotEntrySize,  \* SV_SLOT_ENTRY_SIZE
  RowLens         \* lengths of serialized rows handed to page_insert

(***************************************************************************)
(* Every quantity is a uint16_t in the code.  The executor serializes at   *)
(* most 64 columns of at most 513 bytes (EV_STR_MAX = 511 and a two-byte   *)
(* length), hence len + SV_SLOT_ENTRY_SIZE never wraps.                    *)
(***************************************************************************)
ASSUME SizeAssumption ==
  /\ DataSize \in Nat
  /\ DataSize < 2^16
  /\ SlotEntrySize \in Nat \ {0}

ASSUME RowLenAssumption ==
  /\ RowLens \subseteq Nat \ {0}
  /\ \A len \in RowLens : len + SlotEntrySize < 2^16

VARIABLES
  free_space,  \* Page.free_space
  num_slots,   \* Page.num_slots
  slot,        \* the slot directory: slot_id -> SlotEntry
  content,     \* Page.data
  compact      \* the local variables of page_compact while it runs

vars == <<free_space, num_slots, slot, content, compact>>

Bytes    == 0 .. DataSize - 1
MaxSlots == DataSize \div SlotEntrySize
SlotIds  == 0 .. MaxSlots - 1

DirByte == <<-1, 0>>
Blank   == <<-1, 1>>
ByteValues == (SlotIds \X Nat) \cup {DirByte, Blank}

SlotEntry == [offset : 0 .. DataSize, length : 0 .. DataSize]
NoEntry   == [offset |-> 0, length |-> 0]

DirSize(n) == n * SlotEntrySize

Used(s) == s < num_slots
Live(s) == Used(s) /\ slot[s].length > 0

Idle       == [running |-> FALSE, i |-> 0, write_pos |-> 0,
               temp |-> [b \in Bytes |-> Blank]]

-----------------------------------------------------------------------------
(* page_create *)
Init ==
  /\ free_space = DataSize
  /\ num_slots = 0
  /\ slot = [s \in SlotIds |-> NoEntry]
  /\ content = [b \in Bytes |-> Blank]
  /\ compact = Idle

(* page_insert: SV_FULL, and no change, when the row and its slot entry do *)
(* not fit.  The row goes right below the rows already stored.             *)
Fits(len) == free_space >= len + SlotEntrySize

OffsetNoDir(len) == DataSize - (DataSize - free_space) - len     \* mutant
TupleOffset(len) ==
  LET used_tuple_space == DataSize - free_space - DirSize(num_slots)
  IN  DataSize - used_tuple_space - len

PageInsert(len) ==
  LET off == TupleOffset(len)
      dir == DirSize(num_slots)
  IN
  /\ ~compact.running
  /\ Fits(len)
  /\ content' = [b \in Bytes |->
                   IF b \in dir .. dir + SlotEntrySize - 1 THEN DirByte
                   ELSE IF b \in off .. off + len - 1
                        THEN <<num_slots, b - off>>
                        ELSE content[b]]
  /\ slot' = [slot EXCEPT ![num_slots] = [offset |-> off, length |-> len]]
  /\ num_slots' = num_slots + 1
  /\ free_space' = free_space - (len + SlotEntrySize)
  /\ UNCHANGED compact

(* page_delete_slot: SV_NOT_FOUND, and no change, for a slot out of range  *)
(* or already deleted.  The space of the row is not given back.            *)
DeleteAndShrink(s) ==      \* mutant: a deleted last slot is handed out again
  /\ ~compact.running
  /\ Live(s)
  /\ slot' = [slot EXCEPT ![s].length = 0]
  /\ num_slots' = IF s = num_slots - 1 THEN s ELSE num_slots
  /\ UNCHANGED <<free_space, content, compact>>

PageDeleteSlot(s) ==
  /\ ~compact.running
  /\ Live(s)
  /\ slot' = [slot EXCEPT ![s].length = 0]
  /\ UNCHANGED <<free_space, num_slots, content, compact>>

(* page_compact, in the order of the code: start of the loop, one slot per *)
(* iteration, then the copy back and the new free_space.                   *)
CompactStart ==
  /\ ~compact.running
  /\ compact' = [Idle EXCEPT !.running = TRUE, !.write_pos = DataSize]
  /\ UNCHANGED <<free_space, num_slots, slot, content>>

CompactPos(len)  == compact.write_pos - len

CompactSlot ==
  LET i   == compact.i
      len == slot[i].length
      pos == CompactPos(len)
  IN
  /\ compact.running
  /\ i < num_slots
  /\ IF len = 0
     THEN /\ compact' = [compact EXCEPT !.i = i + 1]
          /\ UNCHANGED slot
     ELSE /\ compact' =
               [compact EXCEPT
                  !.i = i + 1,
                  !.write_pos = pos,
                  !.temp = [b \in Bytes |->
                              IF b \in pos .. pos + len - 1
                              THEN content[slot[i].offset + (b - pos)]
                              ELSE compact.temp[b]]]
          /\ slot' = [slot EXCEPT ![i].offset = pos]
  /\ UNCHANGED <<free_space, num_slots, content>>

ReclaimedNoDir   == compact.write_pos          \* mutant: directory forgotten
Reclaimed        == compact.write_pos - DirSize(num_slots)

CompactEnd ==
  /\ compact.running
  /\ compact.i = num_slots
  /\ content' = [b \in Bytes |-> IF b >= compact.write_pos
                                 THEN compact.temp[b] ELSE content[b]]
  /\ free_space' = Reclaimed
  /\ compact' = Idle
  /\ UNCHANGED <<num_slots, slot>>

Next ==
  \/ \E len \in RowLens : PageInsert(len)
  \/ \E s \in SlotIds : PageDeleteSlot(s)
  \/ CompactStart
  \/ CompactSlot
  \/ CompactEnd

Spec == Init /\ [][Next]_vars

-----------------------------------------------------------------------------
(* Types of the page and of the locals of page_compact. *)
TypeOK ==
  /\ free_space \in 0 .. DataSize
  /\ num_slots \in 0 .. MaxSlots
  /\ slot \in [SlotIds -> SlotEntry]
  /\ content \in [Bytes -> ByteValues]
  /\ compact \in [running : BOOLEAN, i : 0 .. MaxSlots,
                  write_pos : 0 .. DataSize, temp : [Bytes -> ByteValues]]

(* What free_space promises is really free: between the end of the slot    *)
(* directory and the lowest live row there are at least free_space bytes,  *)
(* so the next page_insert cannot touch the directory or a row.            *)
FreeSpaceIsFree ==
  ~compact.running =>
    /\ DirSize(num_slots) + free_space <= DataSize
    /\ \A s \in SlotIds : Live(s) =>
         /\ slot[s].offset >= DirSize(num_slots) + free_space
         /\ slot[s].offset + slot[s].length <= DataSize

(* page_get_slot returns, for every live slot, exactly the bytes given to  *)
(* page_insert, whatever was inserted, deleted or compacted since, and no  *)
(* row was ever written over an entry of the slot directory.               *)
ReadsBack(s, data) ==
  \A k \in 0 .. slot[s].length - 1 : data[slot[s].offset + k] = <<s, k>>

RowsReadBack ==
  ~compact.running =>
    /\ \A s \in SlotIds : Live(s) => ReadsBack(s, content)
    /\ \A b \in Bytes : b < DirSize(num_slots) => content[b] = DirByte

(* A slot id names the same row for the life of the page: the log and the  *)
(* indexes store (page, slot) pairs, so an id is never reassigned, a       *)
(* deleted one never comes back and compaction renumbers nothing.          *)
SlotIdsAreStable ==
  [][/\ num_slots' >= num_slots
     /\ \A s \in SlotIds : Used(s) =>
          slot'[s].length \in {slot[s].length, 0}]_vars

-----------------------------------------------------------------------------
(***************************************************************************)
(* The inductive invariant.  While page_compact runs, the slots below      *)
(* compact.i already point into temp, the others still into data[], and    *)
(* the two groups are separated by write_pos.                              *)
(***************************************************************************)
Moved(s) == compact.running /\ s < compact.i

(* free_space never reaches into the rows, in the middle of page_compact   *)
(* included.                                                               *)
GapInv == DirSize(num_slots) + free_space <= DataSize

PlaceInv ==
  \A s \in SlotIds : Live(s) =>
    /\ slot[s].offset >= DirSize(num_slots) + free_space
    /\ slot[s].offset + slot[s].length <= DataSize

(* Rows lie in the page in the opposite order of their slots: this is what *)
(* makes it safe for page_compact to pack them in one pass.                *)
OrderInv ==
  \A s, t \in SlotIds :
    Live(s) /\ Live(t) /\ s < t /\ (Moved(s) <=> Moved(t)) =>
      slot[t].offset + slot[t].length <= slot[s].offset

CompactInv ==
  compact.running =>
    /\ compact.i <= num_slots
    /\ compact.write_pos >= DirSize(num_slots) + free_space
    /\ \A s \in SlotIds : Live(s) =>
         IF s < compact.i THEN slot[s].offset >= compact.write_pos
         ELSE slot[s].offset + slot[s].length <= compact.write_pos

DataInv ==
  /\ \A s \in SlotIds : Live(s) =>
       ReadsBack(s, IF Moved(s) THEN compact.temp ELSE content)
  /\ \A b \in Bytes : b < DirSize(num_slots) => content[b] = DirByte

(* The bytes of the page are laid out consistently at every instant, each  *)
(* iteration of page_compact included.                                     *)
PageInv == GapInv /\ PlaceInv /\ OrderInv /\ CompactInv /\ DataInv

=============================================================================
