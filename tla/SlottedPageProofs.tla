------------------------- MODULE SlottedPageProofs -------------------------
(***************************************************************************)
(* Proofs about SlottedPage, for every page size, slot entry size and set  *)
(* of row lengths.                                                         *)
(***************************************************************************)
EXTENDS SlottedPage, TLAPS

-----------------------------------------------------------------------------
(* Arithmetic of the slot directory. *)
LEMMA DirSizeFacts ==
  ASSUME NEW n \in Nat
  PROVE  /\ DirSize(n) \in Nat
         /\ DirSize(n + 1) = DirSize(n) + SlotEntrySize
         /\ DirSize(0) = 0
BY SizeAssumption DEF DirSize

(* A directory that fits in the payload has at most MaxSlots entries. *)
LEMMA DirectoryFits ==
  ASSUME NEW n \in Nat, DirSize(n) <= DataSize
  PROVE  n <= MaxSlots
<1> DEFINE q == DataSize \div SlotEntrySize
<1>1. /\ q \in Nat
      /\ DataSize < q * SlotEntrySize + SlotEntrySize
  BY SizeAssumption
<1>2. SUFFICES ASSUME n > q PROVE FALSE
  BY <1>1 DEF MaxSlots
<1>3. n * SlotEntrySize >= (q + 1) * SlotEntrySize
  BY <1>1, <1>2, SizeAssumption
<1>4. (q + 1) * SlotEntrySize = q * SlotEntrySize + SlotEntrySize
  BY <1>1, SizeAssumption
<1>. QED
  BY <1>1, <1>3, <1>4, SizeAssumption DEF DirSize

-----------------------------------------------------------------------------
IInv == TypeOK /\ PageInv

(* The invariant holds of an empty page.                                   *)
LEMMA InitInv == Init => IInv
<1>. SUFFICES ASSUME Init PROVE IInv
  OBVIOUS
<1>. USE SizeAssumption
<1>1. MaxSlots \in Nat
  BY DEF MaxSlots
<1>2. TypeOK
  BY <1>1 DEF Init, TypeOK, Idle, SlotEntry, NoEntry, ByteValues
<1>3. /\ DirSize(num_slots) = 0
      /\ ~compact.running
      /\ \A s \in SlotIds : ~Live(s)
  BY <1>1, DirSizeFacts DEF Init, Live, Used, SlotIds, Idle
<1>4. GapInv
  BY <1>3 DEF Init, GapInv
<1>5. PlaceInv /\ OrderInv /\ CompactInv
  BY <1>3 DEF PlaceInv, OrderInv, CompactInv
<1>6. DataInv
  BY <1>3 DEF DataInv, Bytes
<1>. QED
  BY <1>2, <1>4, <1>5, <1>6 DEF IInv, PageInv

(* page_insert keeps the invariant: the new row lies in the gap. *)
LEMMA InsertInv ==
  ASSUME IInv, NEW len \in RowLens, PageInsert(len), NEW n, n = num_slots
  PROVE  IInv'
<1>. DEFINE dir == DirSize(n)
            off == dir + free_space - len
<1>. USE SizeAssumption, RowLenAssumption
<1>1. /\ n \in Nat /\ free_space \in Nat /\ len \in Nat \ {0}
      /\ dir \in Nat
      /\ DirSize(n + 1) = dir + SlotEntrySize
      /\ dir + free_space <= DataSize
      /\ free_space >= len + SlotEntrySize
      /\ ~compact.running
      /\ n = num_slots
  BY DirSizeFacts DEF IInv, TypeOK, PageInv, GapInv, PageInsert, Fits, MaxSlots
<1>2. TupleOffset(len) = off
  BY <1>1 DEF TupleOffset
<1>3. n + 1 <= MaxSlots
  BY <1>1, DirectoryFits
<1>4. /\ n \in SlotIds
      /\ off \in 0 .. DataSize
      /\ off >= dir + SlotEntrySize
  BY <1>1, <1>3 DEF SlotIds, MaxSlots
<1>5. /\ num_slots' = n + 1
      /\ free_space' = free_space - (len + SlotEntrySize)
      /\ slot' = [slot EXCEPT ![n] = [offset |-> off, length |-> len]]
      /\ compact' = compact
      /\ content' = [b \in Bytes |->
            IF b \in dir .. dir + SlotEntrySize - 1 THEN DirByte
            ELSE IF b \in off .. off + len - 1 THEN <<n, b - off>>
            ELSE content[b]]
  BY <1>2 DEF PageInsert, Fits
<1>6. DirSize(num_slots') + free_space' = off
  BY <1>1, <1>5
<1>7. TypeOK'
  <2>1. content' \in [Bytes -> ByteValues]
    <3>1. DirByte \in ByteValues
      BY DEF ByteValues
    <3>2. \A b \in Bytes : content[b] \in ByteValues
      BY DEF IInv, TypeOK
    <3>3. \A b \in Bytes : b \in off .. off + len - 1 => <<n, b - off>> \in ByteValues
      BY <1>1, <1>4 DEF ByteValues, Bytes
    <3>. QED
      BY <3>1, <3>2, <3>3, <1>5
  <2>2. slot' \in [SlotIds -> SlotEntry]
    BY <1>1, <1>4, <1>5 DEF IInv, TypeOK, SlotEntry
  <2>. QED
    BY <2>1, <2>2, <1>1, <1>3, <1>5 DEF IInv, TypeOK, MaxSlots
<1>8. /\ Live(n)' /\ slot'[n].offset = off /\ slot'[n].length = len
      /\ \A s \in SlotIds : s # n => slot'[s] = slot[s] /\ (Live(s)' <=> Live(s))
  <2>1. slot \in [SlotIds -> SlotEntry]
    BY DEF IInv, TypeOK
  <2>2. /\ slot'[n].offset = off /\ slot'[n].length = len
        /\ \A s \in SlotIds : s # n => slot'[s] = slot[s]
    BY <2>1, <1>4, <1>5
  <2>3. \A s \in SlotIds : s # n => (s < n + 1 <=> s < n)
    BY <1>1 DEF SlotIds
  <2>. QED
    BY <2>2, <2>3, <1>1, <1>5 DEF Live, Used
<1>9. ~Live(n)
  BY <1>1 DEF Live, Used
<1>10. GapInv'
  BY <1>1, <1>4, <1>6 DEF GapInv
<1>11. PlaceInv'
  <2>. SUFFICES ASSUME NEW s \in SlotIds, Live(s)'
                PROVE  /\ slot'[s].offset >= off
                       /\ slot'[s].offset + slot'[s].length <= DataSize
    BY <1>6 DEF PlaceInv
  <2>1. CASE s = n
    BY <2>1, <1>1, <1>4, <1>8
  <2>2. CASE s # n
    <3>1. /\ slot'[s] = slot[s]
          /\ slot[s].offset >= dir + free_space
          /\ slot[s].offset + slot[s].length <= DataSize
          /\ slot[s].offset \in Int
      BY <2>2, <1>8 DEF IInv, PageInv, PlaceInv, TypeOK, SlotEntry
    <3>. QED
      BY <3>1, <1>1
  <2>. QED
    BY <2>1, <2>2
<1>12. OrderInv'
  <2>. SUFFICES ASSUME NEW s \in SlotIds, NEW t \in SlotIds,
                       Live(s)', Live(t)', s < t
                PROVE  slot'[t].offset + slot'[t].length <= slot'[s].offset
    BY DEF OrderInv
  <2>1. s # n
    BY <1>1, <1>5 DEF Live, Used, SlotIds
  <2>2. CASE t = n
    <3>1. Live(s) /\ slot'[s] = slot[s]
      BY <2>1, <1>8
    <3>2. slot[s].offset >= dir + free_space /\ slot[s].offset \in Int
      BY <3>1, <1>1 DEF IInv, PageInv, PlaceInv, TypeOK, SlotEntry
    <3>. QED
      BY <3>1, <3>2, <2>2, <1>1, <1>8
  <2>3. CASE t # n
    BY <2>1, <2>3, <1>1, <1>8 DEF IInv, PageInv, OrderInv, Moved
  <2>. QED
    BY <2>2, <2>3
<1>13. CompactInv'
  BY <1>1, <1>5 DEF CompactInv
<1>14. DataInv'
  <2>1. ReadsBack(n, content)'
    <3>. SUFFICES ASSUME NEW k \in 0 .. len - 1
                  PROVE  content'[off + k] = <<n, k>>
      BY <1>8 DEF ReadsBack
    <3>1. /\ off + k \in Bytes
          /\ off + k \notin dir .. dir + SlotEntrySize - 1
          /\ off + k \in off .. off + len - 1
          /\ (off + k) - off = k
      BY <1>1, <1>4 DEF Bytes
    <3>. QED
      BY <3>1, <1>5
  <2>2. ASSUME NEW s \in SlotIds, Live(s), s # n
        PROVE  ReadsBack(s, content)'
    <3>1. /\ slot[s].offset \in Nat /\ slot[s].length \in Nat
          /\ slot[s].offset >= dir + free_space
          /\ slot[s].offset + slot[s].length <= DataSize
          /\ \A k \in 0 .. slot[s].length - 1 :
                content[slot[s].offset + k] = <<s, k>>
      BY <2>2, <1>1 DEF IInv, TypeOK, SlotEntry, PageInv, PlaceInv, DataInv, ReadsBack, Moved
    <3>. SUFFICES ASSUME NEW k \in 0 .. slot[s].length - 1
                  PROVE  content'[slot[s].offset + k] = <<s, k>>
      BY <1>8, <2>2 DEF ReadsBack
    <3>2. /\ slot[s].offset + k \in Bytes
          /\ slot[s].offset + k \notin dir .. dir + SlotEntrySize - 1
          /\ slot[s].offset + k \notin off .. off + len - 1
      BY <3>1, <1>1, <1>4 DEF Bytes
    <3>. QED
      BY <3>1, <3>2, <1>5
  <2>3. ASSUME NEW b \in Bytes, b < DirSize(num_slots')
        PROVE  content'[b] = DirByte
    BY <2>3, <1>1, <1>4, <1>5, SMTT(60) DEF IInv, PageInv, DataInv, Bytes
  <2>4. \A s \in SlotIds : ~Moved(s)'
    BY <1>1, <1>5 DEF Moved
  <2>5. \A s \in SlotIds : Live(s)' => ReadsBack(s, content)'
    BY <2>1, <2>2, <1>8
  <2>6. \A s \in SlotIds :
          Live(s)' => ReadsBack(s, IF Moved(s) THEN compact.temp ELSE content)'
    BY <2>4, <2>5
  <2>. QED
    BY <2>3, <2>6 DEF DataInv
<1>. QED
  BY <1>7, <1>10, <1>11, <1>12, <1>13, <1>14 DEF IInv, PageInv

(* page_delete_slot keeps the invariant: one row less, nothing moves. *)
LEMMA DeleteInv ==
  ASSUME IInv, NEW d \in SlotIds, PageDeleteSlot(d)
  PROVE  IInv'
<1>1. /\ ~compact.running
      /\ slot' = [slot EXCEPT ![d].length = 0]
      /\ UNCHANGED <<free_space, num_slots, content, compact>>
  BY DEF PageDeleteSlot
<1>2. slot \in [SlotIds -> SlotEntry]
  BY DEF IInv, TypeOK
<1>3. slot' \in [SlotIds -> SlotEntry]
  BY <1>1, <1>2, SizeAssumption DEF SlotEntry
<1>4. \A s \in SlotIds : Live(s)' => Live(s) /\ slot'[s] = slot[s]
  <2>. SUFFICES ASSUME NEW s \in SlotIds, Live(s)'
                PROVE  Live(s) /\ slot'[s] = slot[s]
    OBVIOUS
  <2>1. s # d
    BY <1>1, <1>2 DEF Live, SlotEntry
  <2>. QED
    BY <2>1, <1>1, <1>2 DEF Live, Used
<1>5. TypeOK'
  BY <1>1, <1>3 DEF IInv, TypeOK
<1>6. GapInv' /\ PlaceInv' /\ CompactInv'
  BY <1>1, <1>4 DEF IInv, PageInv, GapInv, PlaceInv, CompactInv
<1>7. OrderInv'
  BY <1>1, <1>4 DEF IInv, PageInv, OrderInv, Moved
<1>8. DataInv'
  BY <1>1, <1>4 DEF IInv, PageInv, DataInv, Moved, ReadsBack
<1>. QED
  BY <1>5, <1>6, <1>7, <1>8 DEF IInv, PageInv

(* page_compact begins: everything is still in data[]. *)
LEMMA CompactStartInv ==
  ASSUME IInv, CompactStart
  PROVE  IInv'
<1>1. /\ ~compact.running
      /\ compact'.running /\ compact'.i = 0 /\ compact'.write_pos = DataSize
      /\ compact'.temp = [b \in Bytes |-> Blank]
      /\ compact' = [running |-> TRUE, i |-> 0, write_pos |-> DataSize,
                     temp |-> [b \in Bytes |-> Blank]]
      /\ UNCHANGED <<free_space, num_slots, slot, content>>
  BY DEF CompactStart, Idle
<1>2. \A s \in SlotIds : (Live(s)' <=> Live(s)) /\ ~Moved(s) /\ ~Moved(s)'
  BY <1>1 DEF Live, Used, Moved, SlotIds
<1>3. MaxSlots \in Nat /\ DataSize \in Nat
  BY SizeAssumption DEF MaxSlots
<1>4. TypeOK'
  BY <1>1, <1>3 DEF IInv, TypeOK, ByteValues
<1>5. GapInv' /\ PlaceInv' /\ OrderInv'
  BY <1>1, <1>2 DEF IInv, PageInv, GapInv, PlaceInv, OrderInv
<1>6. CompactInv'
  <2>1. 0 <= num_slots /\ DataSize >= DirSize(num_slots) + free_space
    BY DEF IInv, TypeOK, PageInv, GapInv
  <2>. QED
    BY <2>1, <1>1, <1>2 DEF IInv, PageInv, PlaceInv, CompactInv, SlotIds
<1>7. DataInv'
  BY <1>1, <1>2 DEF IInv, PageInv, DataInv, ReadsBack
<1>. QED
  BY <1>4, <1>5, <1>6, <1>7 DEF IInv, PageInv

(* One iteration of page_compact: a deleted slot is skipped, a live row    *)
(* goes right below write_pos, above every row not yet moved.              *)
LEMMA CompactSlotInv ==
  ASSUME IInv, CompactSlot, NEW c, c = compact.i
  PROVE  IInv'
<1>. DEFINE len == slot[c].length
            pos == compact.write_pos - len
<1>0. DataSize \in Nat
  BY SizeAssumption
<1>1. /\ compact.running /\ c < num_slots
      /\ UNCHANGED <<free_space, num_slots, content>>
  BY DEF CompactSlot, CompactPos
<1>2. /\ num_slots \in 0 .. MaxSlots /\ c \in 0 .. MaxSlots
      /\ free_space \in Nat
      /\ slot \in [SlotIds -> SlotEntry]
      /\ compact \in [running : BOOLEAN, i : 0 .. MaxSlots,
                      write_pos : 0 .. DataSize, temp : [Bytes -> ByteValues]]
      /\ content \in [Bytes -> ByteValues]
      /\ MaxSlots \in Nat /\ DataSize \in Nat
  BY SizeAssumption DEF IInv, TypeOK, MaxSlots
<1>3. DirSize(num_slots) \in Nat
  BY <1>2, DirSizeFacts
<1>4. c \in SlotIds /\ len \in 0 .. DataSize /\ slot[c].offset \in 0 .. DataSize
  BY <1>1, <1>2 DEF SlotIds, SlotEntry
<1>5. \A s \in SlotIds : s \in Int /\ slot[s].offset \in 0 .. DataSize
                            /\ slot[s].length \in 0 .. DataSize
  BY <1>2 DEF SlotIds, SlotEntry
<1>6. CASE len = 0
  <2>1. slot' = slot /\ compact' = [compact EXCEPT !.i = c + 1]
    BY <1>6 DEF CompactSlot, CompactPos
  <2>2. /\ compact'.running /\ compact'.i = c + 1
        /\ compact'.write_pos = compact.write_pos /\ compact'.temp = compact.temp
    BY <2>1, <1>1, <1>2
  <2>3. \A s \in SlotIds : (Live(s)' <=> Live(s)) /\ (Live(s) => s # c)
    BY <2>1, <1>1, <1>6 DEF Live, Used
  <2>4. \A s \in SlotIds : Live(s) => (Moved(s)' <=> Moved(s)) /\ (s < c + 1 <=> s < c)
    BY <2>2, <2>3, <1>1, <1>2, <1>5 DEF Moved
  <2>5. TypeOK'
    BY <2>1, <1>1, <1>2 DEF IInv, TypeOK
  <2>6. GapInv' /\ PlaceInv' /\ OrderInv'
    BY <2>1, <2>3, <2>4, <1>1 DEF IInv, PageInv, GapInv, PlaceInv, OrderInv
  <2>7. CompactInv'
    <3>1. c + 1 <= num_slots
      BY <1>1, <1>2
    <3>. QED
      BY <3>1, <2>1, <2>2, <2>3, <2>4, <1>1 DEF IInv, PageInv, CompactInv
  <2>8. DataInv'
    BY <2>1, <2>2, <2>3, <2>4, <1>1 DEF IInv, PageInv, DataInv, ReadsBack
  <2>. QED
    BY <2>5, <2>6, <2>7, <2>8 DEF IInv, PageInv
<1>7. CASE len # 0
  <2>1. /\ slot' = [slot EXCEPT ![c].offset = pos]
        /\ compact' = [compact EXCEPT
             !.i = c + 1, !.write_pos = pos,
             !.temp = [b \in Bytes |->
                         IF b \in pos .. pos + len - 1
                         THEN content[slot[c].offset + (b - pos)]
                         ELSE compact.temp[b]]]
    BY <1>7 DEF CompactSlot, CompactPos
  <2>2. /\ compact'.running /\ compact'.i = c + 1 /\ compact'.write_pos = pos
        /\ compact'.temp = [b \in Bytes |->
                              IF b \in pos .. pos + len - 1
                              THEN content[slot[c].offset + (b - pos)]
                              ELSE compact.temp[b]]
    BY <2>1, <1>1, <1>2
  <2>3. Live(c)
    BY <1>1, <1>4, <1>7 DEF Live, Used
  <2>4. /\ slot[c].offset + len <= compact.write_pos
        /\ slot[c].offset >= DirSize(num_slots) + free_space
        /\ compact.write_pos \in 0 .. DataSize
    BY <2>3, <1>1, <1>2, <1>4 DEF IInv, PageInv, CompactInv, PlaceInv
  <2>5. /\ pos \in 0 .. DataSize /\ pos >= slot[c].offset
        /\ pos + len = compact.write_pos
    BY <2>4, <1>0, <1>3, <1>4
  <2>6. /\ \A s \in SlotIds : s # c => slot'[s] = slot[s]
        /\ slot'[c].offset = pos /\ slot'[c].length = len
    BY <2>1, <1>2, <1>4 DEF SlotEntry
  <2>7. \A s \in SlotIds :
          /\ Live(s)' <=> Live(s)
          /\ slot'[s].length = slot[s].length
          /\ Moved(s)' <=> (Moved(s) \/ s = c)
          /\ Moved(s) => s < c
          /\ ~Moved(s) => s >= c
    BY <2>2, <2>6, <1>1, <1>2, <1>5 DEF Live, Used, Moved
  <2>8. TypeOK'
    <3>1. slot' \in [SlotIds -> SlotEntry]
      BY <2>1, <2>5, <1>2 DEF SlotEntry
    <3>2. \A b \in pos .. pos + len - 1 :
            slot[c].offset + (b - pos) \in Bytes
      BY <2>4, <2>5, <1>0, <1>4 DEF Bytes
    <3>3. compact'.temp \in [Bytes -> ByteValues]
      BY <3>2, <2>2, <1>2
    <3>4. c + 1 \in 0 .. MaxSlots
      BY <1>1, <1>2
    <3>5. compact' \in [running : BOOLEAN, i : 0 .. MaxSlots,
                        write_pos : 0 .. DataSize, temp : [Bytes -> ByteValues]]
      <4>1. compact' = [running |-> TRUE, i |-> c + 1, write_pos |-> pos,
                        temp |-> compact'.temp]
        BY <2>1, <2>2, <1>1, <1>2
      <4>2. pos \in 0 .. DataSize
        BY <2>5
      <4>. DEFINE tmp == compact'.temp
      <4>3. /\ compact' = [running |-> TRUE, i |-> c + 1, write_pos |-> pos,
                           temp |-> tmp]
            /\ tmp \in [Bytes -> ByteValues]
        BY <4>1, <3>3
      <4>. HIDE DEF tmp
      <4>. QED
        BY <4>2, <4>3, <3>4
    <3>. QED
      BY <3>1, <3>5, <1>1 DEF IInv, TypeOK
  <2>9. GapInv'
    BY <1>1 DEF IInv, PageInv, GapInv
  <2>10. PlaceInv'
    <3>. SUFFICES ASSUME NEW s \in SlotIds, Live(s)
                  PROVE  /\ slot'[s].offset >= DirSize(num_slots) + free_space
                         /\ slot'[s].offset + slot'[s].length <= DataSize
      BY <2>7, <1>1 DEF PlaceInv
    <3>1. CASE s = c
      BY <3>1, <2>4, <2>5, <2>6, <1>2, <1>3, <1>4
    <3>2. CASE s # c
      BY <3>2, <2>6 DEF IInv, PageInv, PlaceInv
    <3>. QED
      BY <3>1, <3>2
  <2>11. OrderInv'
    <3>. SUFFICES ASSUME NEW s \in SlotIds, NEW t \in SlotIds,
                         Live(s), Live(t), s < t, Moved(s)' <=> Moved(t)'
                  PROVE  slot'[t].offset + slot'[t].length <= slot'[s].offset
      BY <2>7 DEF OrderInv
    <3>1. CASE t = c
      <4>1. Moved(s)
        BY <3>1, <2>7, <1>5
      <4>2. s < c /\ slot'[s] = slot[s] /\ slot[s].offset >= compact.write_pos
        BY <4>1, <2>6, <2>7, <1>1, <1>5 DEF IInv, PageInv, CompactInv
      <4>. QED
        BY <4>2, <3>1, <2>5, <2>6
    <3>2. CASE s = c
      BY <3>2, <2>7, <1>5
    <3>3. CASE s # c /\ t # c
      BY <3>3, <2>6, <2>7 DEF IInv, PageInv, OrderInv
    <3>. QED
      BY <3>1, <3>2, <3>3
  <2>12. CompactInv'
    <3>1. c + 1 <= num_slots /\ pos >= DirSize(num_slots) + free_space
      BY <2>4, <2>5, <1>1, <1>2, <1>3, <1>4
    <3>2. ASSUME NEW s \in SlotIds, Live(s), s < c + 1
          PROVE  slot'[s].offset >= pos
      <4>1. CASE s = c
        BY <4>1, <2>5, <2>6
      <4>2. CASE s # c
        <5>1. slot'[s] = slot[s] /\ slot[s].offset >= compact.write_pos
          BY <4>2, <3>2, <2>6, <1>1, <1>2, <1>5 DEF IInv, PageInv, CompactInv
        <5>. QED
          BY <5>1, <2>4, <1>4, <1>5
      <4>. QED
        BY <4>1, <4>2
    <3>3. ASSUME NEW s \in SlotIds, Live(s), ~(s < c + 1)
          PROVE  slot'[s].offset + slot'[s].length <= pos
      <4>1. c < s /\ s # c /\ ~Moved(s) /\ ~Moved(c)
        BY <3>3, <1>2, <1>5 DEF Moved
      <4>2. slot[s].offset + slot[s].length <= slot[c].offset
        BY <4>1, <3>3, <2>3, <1>4 DEF IInv, PageInv, OrderInv
      <4>. QED
        BY <4>1, <4>2, <2>5, <2>6, <1>4, <1>5
    <3>. QED
      BY <3>1, <3>2, <3>3, <2>2, <2>7, <1>1 DEF CompactInv
  <2>13. DataInv'
    <3>1. ASSUME NEW s \in SlotIds, Live(s), Moved(s)'
          PROVE  ReadsBack(s, compact.temp)'
      <4>. SUFFICES ASSUME NEW k \in 0 .. slot[s].length - 1
                    PROVE  compact'.temp[slot'[s].offset + k] = <<s, k>>
        BY <2>7 DEF ReadsBack
      <4>1. CASE s = c
        <5>1. /\ pos + k \in Bytes /\ pos + k \in pos .. pos + len - 1
              /\ (pos + k) - pos = k
          BY <4>1, <2>4, <2>5, <1>0, <1>4 DEF Bytes
        <5>2. content[slot[c].offset + k] = <<c, k>>
          <6>1. ~Moved(c)
            BY <1>2, <1>4 DEF Moved, SlotIds
          <6>2. ReadsBack(c, content)
            BY <6>1, <2>3, <1>4 DEF IInv, PageInv, DataInv
          <6>. QED
            BY <6>2, <4>1 DEF ReadsBack
        <5>. QED
          BY <5>1, <5>2, <4>1, <2>2, <2>6
      <4>2. CASE s # c
        <5>1. Moved(s) /\ s < c /\ slot'[s] = slot[s]
          BY <4>2, <3>1, <2>6, <2>7
        <5>2. /\ slot[s].offset >= compact.write_pos
              /\ slot[s].offset + slot[s].length <= DataSize
              /\ compact.temp[slot[s].offset + k] = <<s, k>>
          BY <5>1, <3>1, <1>1 DEF IInv, PageInv, CompactInv, PlaceInv, DataInv, ReadsBack
        <5>3. /\ slot[s].offset + k \in Bytes
              /\ slot[s].offset + k \notin pos .. pos + len - 1
          BY <5>2, <2>4, <2>5, <1>0, <1>4, <1>5 DEF Bytes
        <5>. QED
          BY <5>1, <5>2, <5>3, <2>2
      <4>. QED
        BY <4>1, <4>2
    <3>2. ASSUME NEW s \in SlotIds, Live(s), ~Moved(s)'
          PROVE  ReadsBack(s, content)'
      <4>1. s # c /\ ~Moved(s) /\ slot'[s] = slot[s]
        BY <3>2, <2>6, <2>7
      <4>. QED
        BY <4>1, <3>2, <1>1 DEF IInv, PageInv, DataInv, ReadsBack
    <3>3. \A s \in SlotIds :
            Live(s)' => ReadsBack(s, IF Moved(s) THEN compact.temp ELSE content)'
      BY <3>1, <3>2, <2>7
    <3>. QED
      BY <3>3, <1>1 DEF IInv, PageInv, DataInv
  <2>. QED
    BY <2>8, <2>9, <2>10, <2>11, <2>12, <2>13 DEF IInv, PageInv
<1>. QED
  BY <1>6, <1>7

(* The end of page_compact: every live row is in temp above write_pos, and *)
(* what lies below write_pos and above the directory becomes free.         *)
LEMMA CompactEndInv ==
  ASSUME IInv, CompactEnd
  PROVE  IInv'
<1>. DEFINE w == compact.write_pos
<1>1. /\ compact.running /\ compact.i = num_slots
      /\ content' = [b \in Bytes |-> IF b >= w THEN compact.temp[b] ELSE content[b]]
      /\ free_space' = w - DirSize(num_slots)
      /\ num_slots' = num_slots /\ slot' = slot
      /\ compact' = Idle
  BY DEF CompactEnd, Reclaimed
<1>2. /\ num_slots \in 0 .. MaxSlots /\ free_space \in Nat
      /\ slot \in [SlotIds -> SlotEntry]
      /\ w \in 0 .. DataSize
      /\ compact.temp \in [Bytes -> ByteValues]
      /\ content \in [Bytes -> ByteValues]
      /\ MaxSlots \in Nat /\ DataSize \in Nat
  BY SizeAssumption DEF IInv, TypeOK, MaxSlots
<1>3. DirSize(num_slots) \in Nat /\ w >= DirSize(num_slots)
  BY <1>1, <1>2, DirSizeFacts DEF IInv, PageInv, CompactInv
<1>4. ~compact'.running
  BY <1>1 DEF Idle
<1>5. \A s \in SlotIds : (Live(s)' <=> Live(s)) /\ ~Moved(s)' /\ (Live(s) => Moved(s))
  BY <1>1, <1>4 DEF Live, Used, Moved
<1>6. \A s \in SlotIds : Live(s) =>
        /\ slot[s].offset >= w
        /\ slot[s].offset \in Int /\ slot[s].length \in Int
        /\ slot[s].offset + slot[s].length <= DataSize
  BY <1>1, <1>2, <1>5 DEF IInv, PageInv, CompactInv, PlaceInv, SlotEntry, Moved
<1>7. TypeOK'
  <2>1. content' \in [Bytes -> ByteValues]
    BY <1>1, <1>2
  <2>2. free_space' \in 0 .. DataSize
    BY <1>1, <1>2, <1>3
  <2>3. Idle \in [running : BOOLEAN, i : 0 .. MaxSlots,
                  write_pos : 0 .. DataSize, temp : [Bytes -> ByteValues]]
    BY <1>2 DEF Idle, ByteValues
  <2>. QED
    BY <2>1, <2>2, <2>3, <1>1, <1>2 DEF TypeOK
<1>8. GapInv'
  BY <1>1, <1>2, <1>3 DEF GapInv
<1>9. PlaceInv'
  BY <1>1, <1>2, <1>3, <1>5, <1>6 DEF PlaceInv
<1>10. OrderInv'
  BY <1>1, <1>5 DEF IInv, PageInv, OrderInv
<1>11. CompactInv'
  BY <1>4 DEF CompactInv
<1>12. DataInv'
  <2>1. ASSUME NEW s \in SlotIds, Live(s)
        PROVE  ReadsBack(s, content)'
    <3>. SUFFICES ASSUME NEW k \in 0 .. slot[s].length - 1
                  PROVE  content'[slot[s].offset + k] = <<s, k>>
      BY <1>1 DEF ReadsBack
    <3>1. compact.temp[slot[s].offset + k] = <<s, k>>
      BY <2>1, <1>5 DEF IInv, PageInv, DataInv, ReadsBack
    <3>2. slot[s].offset + k \in Bytes /\ slot[s].offset + k >= w
      BY <2>1, <1>2, <1>6 DEF Bytes
    <3>. QED
      BY <3>1, <3>2, <1>1
  <2>2. ASSUME NEW b \in Bytes, b < DirSize(num_slots)
        PROVE  content'[b] = DirByte
    BY <2>2, <1>1, <1>2, <1>3 DEF IInv, PageInv, DataInv, Bytes
  <2>. QED
    BY <2>1, <2>2, <1>1, <1>5 DEF DataInv
<1>. QED
  BY <1>7, <1>8, <1>9, <1>10, <1>11, <1>12 DEF IInv, PageInv

-----------------------------------------------------------------------------
(* Every step of a page keeps the invariant.                               *)
LEMMA StepInv == IInv /\ [Next]_vars => IInv'
<1>. SUFFICES ASSUME IInv, [Next]_vars PROVE IInv'
  OBVIOUS
<1>1. ASSUME NEW len \in RowLens, PageInsert(len) PROVE IInv'
  BY <1>1, InsertInv
<1>2. ASSUME NEW s \in SlotIds, PageDeleteSlot(s) PROVE IInv'
  BY <1>2, DeleteInv
<1>3. CASE CompactStart
  BY <1>3, CompactStartInv
<1>4. CASE CompactSlot
  BY <1>4, CompactSlotInv
<1>5. CASE CompactEnd
  BY <1>5, CompactEndInv
<1>6. CASE UNCHANGED vars
  BY <1>6 DEF vars, IInv, TypeOK, PageInv, GapInv, PlaceInv, OrderInv,
              CompactInv, DataInv, Live, Used, Moved, ReadsBack
<1>. QED
  BY <1>1, <1>2, <1>3, <1>4, <1>5, <1>6 DEF Next

(* The invariant holds in every reachable state of the page. *)
LEMMA Invariance == Spec => []IInv
BY InitInv, StepInv, PTL DEF Spec

(* The fields of the page and the locals of page_compact keep their types: *)
(* no counter of the page ever leaves its range.                           *)
THEOREM TypeCorrect == Spec => []TypeOK
BY Invariance, PTL DEF IInv

(* free_space never promises a byte that the slot directory or a live row  *)
(* occupies.                                                               *)
THEOREM FreeSpaceSafe == Spec => []FreeSpaceIsFree
<1>1. IInv => FreeSpaceIsFree
  BY DEF IInv, PageInv, GapInv, PlaceInv, FreeSpaceIsFree
<1>. QED
  BY <1>1, Invariance, PTL

(* Every live slot reads back the bytes inserted into it, after any        *)
(* sequence of inserts, deletes and compactions.                           *)
THEOREM RowsSafe == Spec => []RowsReadBack
<1>1. IInv => RowsReadBack
  BY DEF IInv, PageInv, DataInv, RowsReadBack, Moved
<1>. QED
  BY <1>1, Invariance, PTL

(* Slot ids are never reassigned or renumbered. *)
THEOREM SlotIdsSafe == Spec => SlotIdsAreStable
<1>. DEFINE Stable == /\ num_slots' >= num_slots
                      /\ \A s \in SlotIds : Used(s) =>
                           slot'[s].length \in {slot[s].length, 0}
<1>1. ASSUME IInv, Next PROVE Stable
  <2>. USE <1>1
  <2>0. num_slots \in Nat /\ slot \in [SlotIds -> SlotEntry]
    BY SizeAssumption DEF IInv, TypeOK, MaxSlots
  <2>1. ASSUME NEW len \in RowLens, PageInsert(len) PROVE Stable
    BY <2>0, <2>1 DEF PageInsert, Fits, Used
  <2>2. ASSUME NEW s \in SlotIds, PageDeleteSlot(s) PROVE Stable
    BY <2>0, <2>2 DEF PageDeleteSlot, SlotEntry
  <2>3. CASE CompactStart \/ CompactEnd
    BY <2>0, <2>3 DEF CompactStart, CompactEnd
  <2>4. CASE CompactSlot
    BY <2>0, <2>4 DEF CompactSlot, CompactPos, SlotEntry
  <2>. QED
    BY <2>1, <2>2, <2>3, <2>4 DEF Next
<1>2. IInv /\ [Next]_vars => [Stable]_vars
  BY <1>1
<1>. QED
  BY <1>2, Invariance, PTL DEF Spec, SlotIdsAreStable

=============================================================================
