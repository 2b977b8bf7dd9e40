------------------------------- MODULE Engine -------------------------------
(***************************************************************************)
(* Transactions over one table: the heap of table/heap.c, the write-ahead  *)
(* log and its recovery (tx/wal.c), the transaction manager, the           *)
(* transaction statements of bridge/db_api.c, the row operations of the    *)
(* executor, shutdown, and the crash of the process at any point.          *)
(*                                                                         *)
(* A page is the sequence of its slots; slot_id + 1 is the position in it. *)
(* All rows have one size and a page holds Slots of them; a deleted row    *)
(* keeps its space, as in the page of SlottedPage, which nothing compacts. *)
(* The page cache is what BufferPool promises: mem is what a fetch gives,  *)
(* disk the file, and a page may be written back at any eviction.          *)
(* What was written survives the crash of the process; a log record torn   *)
(* by the crash counts as not written (read_payload ends the log there).   *)
(***************************************************************************)
EXTENDS Integers, Sequences, FiniteSets, SequencesExt

CONSTANTS
  Slots,           \* rows that fit into a page
  MaxPages,        \* SV_MAX_PAGE_ID
  MaxTx,           \* SV_MAX_TRANSACTIONS
  MaxSavepoints,   \* length of g_savepoints
  MaxEntries,      \* MAX_ENTRIES of wal_recovery and wal_undo_tx
  MaxUndo,         \* MAX_UNDO of db_rollback_to
  Names,           \* names of savepoints
  (* the statements a client uses *)
  AutoStatements,  \* row statements outside a transaction
  TxStatements,    \* row statements inside a transaction
  Oversize,        \* {FALSE}, or BOOLEAN: rows that fit into no page
  StaleSavepoints, \* ROLLBACK TO a name set by an earlier transaction
  CrashPhases,     \* where the process may die
  (* bounds *)
  MaxRows, MaxLog, MaxRestarts

ASSUME EngineAssumption ==
  /\ {Slots, MaxPages, MaxTx, MaxEntries, MaxUndo} \subseteq Nat \ {0}
  /\ {MaxSavepoints, MaxRows, MaxLog, MaxRestarts} \subseteq Nat
  /\ AutoStatements \cup TxStatements \subseteq {"INSERT", "UPDATE", "DELETE"}
  /\ Oversize \subseteq BOOLEAN /\ StaleSavepoints \in BOOLEAN

VARIABLES
  mem,         \* the pages as the page cache shows them
  disk,        \* the pages in the file
  pages,       \* number of pages of the file
  chain,       \* the pages of the table, linked by next_page
  log,         \* the file segvault.wal
  txs,         \* TxManager.transactions: the active flag of tx_id 1, 2, ...
  tx_id,       \* exec_ctx.tx_id, 0 outside a transaction
  savepoints,  \* g_savepoints, with the transaction that set each (0: before a restart)
  busy,        \* the row operation in progress
  phase,       \* "up", or what is replaying the log
  work,        \* the log records it has still to apply, in order
  cut,         \* g_savepoints index of the running ROLLBACK TO
  issued,      \* rows made so far
  restarts,    \* crashes and shutdowns so far
  atBegin      \* history: the rows when the last BEGIN was executed

vars == <<mem, disk, pages, chain, log, txs, tx_id, savepoints, busy, phase,
          work, cut, issued, restarts, atBegin>>
pageVars == <<mem, disk, pages, chain>>
txVars   == <<txs, tx_id, savepoints, atBegin>>
workVars == <<phase, work, cut>>

Rows    == 1 .. MaxRows
Deleted == 0              \* a slot of length 0
NoRow   == 0              \* no data in a log record
PageIds == 1 .. MaxPages
DataOps == {"INSERT", "UPDATE", "DELETE"}

Record == [type : DataOps \cup {"BEGIN", "COMMIT", "ABORT", "SAVEPOINT"},
           tx : Nat, page : PageIds \cup {0}, slot : Nat,
           new : Rows \cup {NoRow}, old : Rows \cup {NoRow}]

Control(type, t) ==
  [type |-> type, tx |-> t, page |-> 0, slot |-> 0, new |-> NoRow, old |-> NoRow]

NoOp == [op |-> "none", row |-> NoRow, old |-> NoRow, page |-> 0, slot |-> 0,
         fresh |-> 0, big |-> FALSE, placed |-> FALSE]

RowsIn(pgs, chained) ==
  (UNION {ToSet(pgs[chained[i]]) : i \in DOMAIN chained}) \ {Deleted}
RowsOf(pgs) == RowsIn(pgs, chain)

-----------------------------------------------------------------------------
(* Pages: page_insert and page_delete_slot (see SlottedPage) *)
HasRoom(pg)        == Len(pg) < Slots
PageInsert(pg, r)  == IF HasRoom(pg) THEN Append(pg, r) ELSE pg
PageDelete(pg, s)  == IF s \in DOMAIN pg THEN [pg EXCEPT ![s] = Deleted] ELSE pg

(* replay_entry: a record is repeated only when the slot shows that its    *)
(* effect is missing; slots are never used again.                          *)
RedoneTwice(pg, e)   == e.slot = Len(pg)   \* mutant: slot_id counted from 1
RedoMissing(pg, e)   == e.slot = Len(pg) + 1

StillOld(pg, e)       == e.slot \in DOMAIN pg /\ pg[e.slot] = e.old

Redo(pg, e) ==
  CASE e.type = "INSERT" -> IF RedoMissing(pg, e) THEN PageInsert(pg, e.new) ELSE pg
    [] e.type = "DELETE" -> PageDelete(pg, e.slot)
    [] e.type = "UPDATE" ->
         IF StillOld(pg, e)
         THEN PageInsert(PageDelete(pg, e.slot), e.new)
         ELSE pg

(* undo_entry, and the same switch in db_rollback_to. The slot of an       *)
(* UPDATE is the one the old version was in.                               *)
Undo(pg, e) ==
  CASE e.type = "INSERT" -> PageDelete(pg, e.slot)
    [] e.type = "DELETE" -> PageInsert(pg, e.old)
    [] e.type = "UPDATE" -> PageInsert(PageDelete(pg, e.slot), e.old)

Step(does, e) == [does |-> does, rec |-> e]
Apply(pgs, step) ==
  LET e == step.rec
  IN  [pgs EXCEPT ![e.page] = IF step.does = "redo" THEN Redo(@, e) ELSE Undo(@, e)]

(* All of the steps, in order *)
ApplyAll[todo \in [PageIds -> Seq(Rows \cup {Deleted})] \X
                  Seq([does : {"redo", "undo"}, rec : Record])] ==
  LET after[n \in 0 .. Len(todo[2])] ==
        IF n = 0 THEN todo[1] ELSE Apply(after[n - 1], todo[2][n])
  IN  after[Len(todo[2])]

First(s, n) == IF Len(s) <= n THEN s ELSE SubSeq(s, 1, n)

(* The first n of the positions I *)
FirstOf(I, n) == {i \in I : Cardinality({j \in I : j <= i}) <= n}

Redoing[l \in Seq(Record)] ==
  LET upto[n \in 0 .. Len(l)] ==
        IF n = 0 THEN <<>>
        ELSE IF l[n].type \in DataOps THEN Append(upto[n - 1], Step("redo", l[n]))
        ELSE upto[n - 1]
  IN  upto[Len(l)]
Undoing[of \in Seq(Record) \X SUBSET Nat] ==
  LET l == of[1]
      from[n \in 0 .. Len(l)] ==
        IF n = 0 THEN <<>>
        ELSE IF n \in of[2] /\ l[n].type \in DataOps THEN <<Step("undo", l[n])>> \o from[n - 1]
        ELSE from[n - 1]
  IN  from[Len(l)]

(* wal_recovery, phase 1: active_tx at the end of the log *)
EndsByCommit == {"COMMIT"}                  \* mutant: an ABORT is not seen
EndsTx       == {"COMMIT", "ABORT"}

Unfinished(l) ==
  {l[i].tx : i \in {j \in DOMAIN l : l[j].type = "BEGIN"}}
    \ {l[i].tx : i \in {j \in DOMAIN l : l[j].type \in EndsTx}}

(* wal_recovery, phases 2 and 3: repeat everything, then take back what    *)
(* unfinished transactions did, last change first.                         *)
RecoveryWork(l) ==
  LET read == First(l, MaxEntries)
      open == Unfinished(read)
  IN  Redoing[read] \o Undoing[<<read, {i \in DOMAIN read : read[i].tx \in open}>>]

(* db_rollback_to undoes the records that carry new data, wal_undo_tx any. *)
Undoable(e) == e.type \in DataOps /\ e.new # NoRow

RollbackUndoable(l, t) ==        \* mutant: the filter of db_rollback_to
  Undoing[<<l, FirstOf({i \in DOMAIN l : l[i].tx = t /\ Undoable(l[i])}, MaxEntries)>>]
RollbackWork(l, t) ==
  Undoing[<<l, FirstOf({i \in DOMAIN l : l[i].tx = t}, MaxEntries)>>]

PartialWork(l, offset, t) ==
  Undoing[<<l, FirstOf({i \in offset + 1 .. Len(l) : l[i].tx = t /\ Undoable(l[i])}, MaxUndo)>>]

-----------------------------------------------------------------------------
(* db_init on an empty directory, then CREATE TABLE: one empty page, which *)
(* db_execute flushes with the catalog.                                    *)
Init ==
  /\ mem = [p \in PageIds |-> <<>>]
  /\ disk = mem
  /\ pages = 1
  /\ chain = <<1>>
  /\ log = <<>>
  /\ txs = <<>> /\ tx_id = 0
  /\ savepoints = <<>>
  /\ busy = NoOp
  /\ phase = "up" /\ work = <<>> /\ cut = 0
  /\ issued = 0 /\ restarts = 0
  /\ atBegin = {}

Ready == phase = "up" /\ busy = NoOp
Uses(statement) ==
  statement \in IF tx_id = 0 THEN AutoStatements ELSE TxStatements

wal_write(e) == Len(log) < MaxLog /\ log' = Append(log, e)

(* heap_insert: first fit along the chain *)
Fits(op) == ~op.big /\ \E i \in DOMAIN chain : HasRoom(mem[chain[i]])
FirstFit ==
  chain[CHOOSE i \in DOMAIN chain :
          HasRoom(mem[chain[i]]) /\ \A j \in 1 .. i - 1 : ~HasRoom(mem[chain[j]])]

(* The record of an INSERT names the new slot, that of an UPDATE the old. *)
PlacedAt(op, p) ==
  IF op.op = "INSERT"
  THEN [op EXCEPT !.placed = TRUE, !.fresh = 0, !.page = p, !.slot = Len(mem[p]) + 1]
  ELSE [op EXCEPT !.placed = TRUE, !.fresh = 0]

PlaceIn(op, p) ==
  /\ mem' = [mem EXCEPT ![p] = PageInsert(@, op.row)]
  /\ busy' = PlacedAt(op, p)

(* When no page fits, bp_new_page appends an empty page to the file; the   *)
(* table goes on without the row when the file is full.                    *)
HeapInsert(op) ==
  IF Fits(op)
  THEN PlaceIn(op, FirstFit) /\ UNCHANGED pages
  ELSE /\ IF pages < MaxPages
          THEN pages' = pages + 1 /\ busy' = [op EXCEPT !.fresh = pages + 1]
          ELSE busy' = NoOp /\ UNCHANGED pages
       /\ UNCHANGED mem

(* The new page is linked to the last one, which goes to the file at once, *)
(* and takes the row. A row that does not fit even there fails: SV_FULL.   *)
Link ==
  /\ busy.fresh # 0
  /\ disk' = [disk EXCEPT ![Last(chain)] = mem[Last(chain)]]
  /\ chain' = Append(chain, busy.fresh)
  /\ IF busy.big THEN busy' = NoOp /\ UNCHANGED mem ELSE PlaceIn(busy, busy.fresh)
  /\ UNCHANGED <<pages, log, txVars, workVars, issued, restarts>>

(* exec_insert: one row. heap_insert places it, wal_log records it. *)
Insert(big) ==
  /\ Ready /\ Uses("INSERT") /\ issued < MaxRows /\ Len(log) < MaxLog
  /\ HeapInsert([NoOp EXCEPT !.op = "INSERT", !.row = issued + 1, !.big = big])
  /\ issued' = issued + 1
  /\ UNCHANGED <<disk, chain, log, txVars, workVars, restarts>>

(* exec_update: heap_update deletes the old version before it places the   *)
(* new one, and the record is written after both.                          *)
Update(p, s, big) ==
  /\ Ready /\ Uses("UPDATE") /\ issued < MaxRows /\ Len(log) < MaxLog
  /\ p \in ToSet(chain) /\ s \in DOMAIN mem[p] /\ mem[p][s] # Deleted
  /\ mem' = [mem EXCEPT ![p] = PageDelete(@, s)]
  /\ busy' = [NoOp EXCEPT !.op = "UPDATE", !.row = issued + 1, !.big = big,
                          !.old = mem[p][s], !.page = p, !.slot = s]
  /\ issued' = issued + 1
  /\ UNCHANGED <<disk, pages, chain, log, txVars, workVars, restarts>>

PlaceUpdated ==
  /\ busy.op = "UPDATE" /\ busy.fresh = 0 /\ ~busy.placed
  /\ HeapInsert(busy)
  /\ UNCHANGED <<disk, chain, log, txVars, workVars, issued, restarts>>

(* exec_delete: the record comes first, then heap_delete *)
Delete(p, s) ==
  /\ Ready /\ Uses("DELETE")
  /\ p \in ToSet(chain) /\ s \in DOMAIN mem[p] /\ mem[p][s] # Deleted
  /\ wal_write([type |-> "DELETE", tx |-> tx_id, page |-> p, slot |-> s,
                new |-> NoRow, old |-> mem[p][s]])
  /\ busy' = [NoOp EXCEPT !.op = "DELETE", !.row = mem[p][s], !.page = p, !.slot = s]
  /\ UNCHANGED <<pageVars, txVars, workVars, issued, restarts>>

DeleteSlot ==
  /\ busy.op = "DELETE"
  /\ mem' = [mem EXCEPT ![busy.page] = PageDelete(@, busy.slot)]
  /\ busy' = NoOp
  /\ UNCHANGED <<disk, pages, chain, log, txVars, workVars, issued, restarts>>

(* wal_log after heap_insert or heap_update. Nothing is evicted in between *)
(* (WriteBack).                                                            *)
LoggedAutocommit == 0                    \* mutant: the record lacks the tx_id
LoggedTx == tx_id

Log ==
  /\ busy.placed
  /\ wal_write([type |-> busy.op, tx |-> LoggedTx, page |-> busy.page,
                slot |-> busy.slot, new |-> busy.row, old |-> busy.old])
  /\ busy' = NoOp
  /\ UNCHANGED <<pageVars, txVars, workVars, issued, restarts>>

(* The page cache writes a modified page to make room for another one:     *)
(* not while an UPDATE goes back to the page it has just read.             *)
SamePage == busy.op = "UPDATE" /\ chain = <<busy.page>> /\ HasRoom(mem[busy.page])

WriteBack(p) ==
  /\ phase = "up" /\ ~busy.placed /\ ~SamePage
  /\ disk[p] # mem[p]
  /\ disk' = [disk EXCEPT ![p] = mem[p]]
  /\ UNCHANGED <<mem, pages, chain, log, txVars, busy, workVars, issued, restarts>>

-----------------------------------------------------------------------------
(* db_begin: no check for a transaction that is still open *)
HasFreeTx == Len(txs) < MaxTx

Begin ==
  /\ Ready /\ HasFreeTx
  /\ wal_write(Control("BEGIN", Len(txs) + 1))
  /\ txs' = Append(txs, TRUE)
  /\ tx_id' = Len(txs) + 1
  /\ atBegin' = RowsOf(mem)
  /\ UNCHANGED <<pageVars, savepoints, busy, workVars, issued, restarts>>

Commit ==
  /\ Ready /\ tx_id # 0
  /\ wal_write(Control("COMMIT", tx_id))
  /\ txs' = [txs EXCEPT ![tx_id] = FALSE]
  /\ tx_id' = 0
  /\ UNCHANGED <<pageVars, savepoints, busy, workVars, issued, restarts, atBegin>>

Savepoint(name) ==
  /\ Ready /\ tx_id # 0
  /\ wal_write(Control("SAVEPOINT", tx_id))
  /\ savepoints' =
       IF Len(savepoints) < MaxSavepoints
       THEN Append(savepoints, [name |-> name, offset |-> Len(log) + 1, tx |-> tx_id])
       ELSE savepoints
  /\ UNCHANGED <<pageVars, txs, tx_id, busy, workVars, issued, restarts, atBegin>>

(* db_rollback: LOG_ABORT, flush the log and the pages, undo in the file,  *)
(* drop the cached pages. db_shutdown starts with it when a transaction is *)
(* open.                                                                   *)
RollbackBegin(next) ==
  /\ Ready /\ tx_id # 0
  /\ next \in {"rollback", "closing"}
  /\ wal_write(Control("ABORT", tx_id))
  /\ disk' = mem
  /\ phase' = next
  /\ work' = RollbackWork(log, tx_id)
  /\ UNCHANGED <<mem, pages, chain, txVars, busy, cut, issued, restarts>>

(* db_rollback_to finds the latest savepoint of the name. (An offset       *)
(* behind the end of the log, left from before a db_shutdown, would pad    *)
(* the log with zeros: not modelled.)                                      *)
LatestOf(name) ==
  LET of == {i \in DOMAIN savepoints : savepoints[i].name = name}
  IN  IF of = {} THEN 0 ELSE CHOOSE i \in of : \A j \in of : j <= i

RollbackToBegin(name) ==
  LET i == LatestOf(name)
  IN  /\ Ready /\ tx_id # 0
      /\ i # 0
      /\ StaleSavepoints \/ savepoints[i].tx = tx_id
      /\ savepoints[i].offset <= Len(log)
      /\ disk' = mem
      /\ phase' = "rollback_to"
      /\ work' = PartialWork(log, savepoints[i].offset, tx_id)
      /\ cut' = i
      /\ UNCHANGED <<mem, pages, chain, log, txVars, busy, issued, restarts>>

(* One record is applied to the page in the file. *)
ApplyStep ==
  /\ work # <<>>
  /\ disk' = Apply(disk, Head(work))
  /\ work' = Tail(work)
  /\ UNCHANGED <<mem, pages, chain, log, txVars, busy, phase, cut, issued, restarts>>

(* bp_remove_page of every page, all of them clean *)
FramesKept == mem                            \* mutant: the cache is not dropped
Reread     == disk

RollbackEnd ==
  /\ phase = "rollback" /\ work = <<>>
  /\ mem' = Reread
  /\ txs' = [txs EXCEPT ![tx_id] = FALSE]
  /\ tx_id' = 0
  /\ phase' = "up"
  /\ UNCHANGED <<disk, pages, chain, log, savepoints, busy, work, cut, issued,
                 restarts, atBegin>>

RollbackToEnd ==
  /\ phase = "rollback_to" /\ work = <<>>
  /\ mem' = Reread
  /\ log' = First(log, savepoints[cut].offset)
  /\ savepoints' = First(savepoints, cut - 1)
  /\ phase' = "up" /\ cut' = 0
  /\ UNCHANGED <<disk, pages, chain, txs, tx_id, busy, work, issued, restarts,
                 atBegin>>

(* db_shutdown and the next db_init, in the same process or a new one *)
Reopened ==
  /\ log' = <<>>
  /\ txs' = <<>> /\ tx_id' = 0
  /\ phase' = "up"
  /\ restarts' = restarts + 1
  /\ restarts < MaxRestarts
  /\ UNCHANGED <<pages, chain, busy, work, cut, issued, atBegin>>

Shutdown ==
  /\ \/ /\ Ready /\ tx_id = 0
        /\ disk' = mem /\ UNCHANGED mem
     \/ /\ phase = "closing" /\ work = <<>>
        /\ mem' = Reread /\ UNCHANGED disk
  /\ savepoints' \in {<<>>, [i \in DOMAIN savepoints |-> [savepoints[i] EXCEPT !.tx = 0]]}
  /\ Reopened

(* The process dies; the next db_init starts wal_recovery. *)
Crash ==
  /\ phase \in CrashPhases
  /\ restarts < MaxRestarts
  /\ phase' = "recover"
  /\ work' = RecoveryWork(log)
  /\ cut' = 0
  /\ busy' = NoOp
  /\ mem' = disk
  /\ txs' = <<>> /\ tx_id' = 0 /\ savepoints' = <<>>
  /\ restarts' = restarts + 1
  /\ UNCHANGED <<disk, pages, chain, log, issued, atBegin>>

(* remove(log_path) ends wal_recovery *)
RecoverEnd ==
  /\ phase = "recover" /\ work = <<>>
  /\ mem' = disk
  /\ log' = <<>>
  /\ phase' = "up"
  /\ UNCHANGED <<disk, pages, chain, txVars, busy, work, cut, issued, restarts>>

Next ==
  \/ \E big \in Oversize : Insert(big)
  \/ \E p \in PageIds, s \in 1 .. Slots, big \in Oversize : Update(p, s, big)
  \/ \E p \in PageIds, s \in 1 .. Slots : Delete(p, s)
  \/ DeleteSlot
  \/ PlaceUpdated
  \/ Link
  \/ Log
  \/ \E p \in PageIds : WriteBack(p)
  \/ Begin
  \/ Commit
  \/ \E name \in Names : Savepoint(name)
  \/ \E next \in {"rollback", "closing"} : RollbackBegin(next)
  \/ \E name \in Names : RollbackToBegin(name)
  \/ ApplyStep
  \/ RollbackEnd
  \/ RollbackToEnd
  \/ Shutdown
  \/ Crash
  \/ RecoverEnd

Spec == Init /\ [][Next]_vars

-----------------------------------------------------------------------------
(* What replaying the log will leave: of the pending rollback or recovery, *)
(* or of the recovery after a crash of this moment.                        *)
Replayed == ApplyAll[<<disk, IF phase = "up" THEN RecoveryWork(log) ELSE work>>]

(* With no statement running and no transaction open, a crash loses no row *)
(* and brings none back: recovery rebuilds exactly the present table.      *)
RestartKeepsRows ==
  Ready /\ Unfinished(log) = {} => RowsOf(Replayed) = RowsOf(mem)

(* Recovery undoes only transactions that have neither been committed nor  *)
(* rolled back.                                                            *)
OnlyOpenUndone ==
  phase = "up" => \A t \in Unfinished(log) : t \in DOMAIN txs /\ txs[t]

(* ROLLBACK gives back the table as it was at BEGIN. *)
RollbackRestores ==
  [][phase = "rollback" /\ phase' = "up" => RowsIn(mem', chain') = atBegin]_vars

-----------------------------------------------------------------------------
(* The engine implements TxnStore. The working rows are those in memory,   *)
(* but for the row operation in progress, which counts from its log record *)
(* on; the durable rows are those recovery would leave now.                *)
Working ==
  IF phase = "up"
  THEN (RowsOf(mem) \ {busy.row}) \cup ({busy.old} \ {NoRow})
  ELSE RowsOf(Replayed)

(* From the ABORT record on, the undo still pending counts as done; a      *)
(* ROLLBACK TO leaves the transaction open.                                *)
Durable ==
  RowsOf(ApplyAll[<<IF phase \in {"rollback", "closing"} THEN Replayed ELSE disk,
                    RecoveryWork(log)>>])

LiveLog ==
  IF phase = "recover" THEN <<>>
  ELSE IF phase = "rollback_to" THEN First(log, savepoints[cut].offset)
  ELSE log

ChangesOf(t) ==
  LET done == {e \in ToSet(LiveLog) : e.tx = t}
  IN  IF t \in Unfinished(LiveLog)
      THEN [ins |-> {e.new : e \in done} \ {NoRow}, del |-> {e.old : e \in done} \ {NoRow}]
      ELSE [ins |-> {}, del |-> {}]

StatusOf(t) ==
  LET types == {e.type : e \in {r \in ToSet(LiveLog) : r.tx = t}}
  IN  CASE "COMMIT" \in types -> "committed"
        [] "ABORT" \in types -> "aborted"
        [] "BEGIN" \in types /\ types \cap {"COMMIT", "ABORT"} = {} -> "open"
        [] OTHER -> "none"

Store == INSTANCE TxnStore
           WITH Txs <- 1 .. MaxTx, working <- Working, durable <- Durable,
                own <- [t \in 1 .. MaxTx |-> ChangesOf(t)],
                status <- [t \in 1 .. MaxTx |-> StatusOf(t)],
                current <- IF phase \in {"rollback", "closing"} THEN 0 ELSE tx_id

ImplementsTxnStore == Store!StoreSpec

=============================================================================
