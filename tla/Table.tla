------------------------------- MODULE Table -------------------------------
(***************************************************************************)
(* The statements that change rows (query/executor.c), on one table with   *)
(* an AUTO_INCREMENT primary key id and a column v that CREATE INDEX may   *)
(* index, with the in-memory indexes they read and maintain.               *)
(*                                                                         *)
(* A statement validates all its rows against the index first and then     *)
(* writes them one by one; each write is a step of its own and may fail.   *)
(* A row id is the position of the row in heap: slots are never reused     *)
(* (SlottedPage), so a new row always gets a new one.                      *)
(* A scan reads every page: heap_scan_next also ends, without an error, at *)
(* a page it cannot fetch, and that is left out here.                      *)
(***************************************************************************)
EXTENDS Integers, Sequences, FiniteSets, SequencesExt

CONSTANTS MaxInt,       \* the largest value of id's type
          Texts,        \* the values of v
          Null,         \* SQL NULL; also a deleted row, an index not built
          Wheres, Sets, \* the WHERE conditions and SET lists of the client
          Batches,      \* the rows its INSERTs ask for; id may be Null
          MaxRids,      \* row ids the file has room for
          MaxFailures   \* bound: fetches that fail

RowType == [id : 1 .. MaxInt, v : Texts \cup {Null}]
Asked   == [id : 1 .. MaxInt \cup {Null}, v : Texts \cup {Null}]

ASSUME TableAssumption ==
    /\ MaxInt \in Nat \ {0} /\ MaxRids \in Nat /\ MaxFailures \in Nat
    /\ Null \notin Texts \cup Nat \cup RowType
    /\ \A w \in Wheres : \/ w.col = "all"
                         \/ w.col = "id" /\ w.val \in 1 .. MaxInt \cup {Null}
                         \/ w.col = "v" /\ w.val \in Texts \cup {Null}
    /\ Sets \subseteq [id : {"keep", "next", "flip"},
                       v : Texts \cup {Null, "keep"}]
    /\ Batches \subseteq Seq(Asked)

VARIABLES heap,       \* row id -> row, or Null when deleted
          index,      \* column -> its MemIndex, or Null
          secondary,  \* is there a CREATE INDEX on v
          stmt,       \* the statement that is writing
          log,        \* the records of the open transaction, or Null
          saved,      \* history: the rows at BEGIN
          torn,       \* history: a statement or a ROLLBACK went half way
          failures    \* history

vars == <<heap, index, secondary, stmt, log, saved, torn, failures>>

Columns == {"id", "v"}
Values(c) == IF c = "id" THEN 1 .. MaxInt ELSE Texts

Rids(h) == {i \in DOMAIN h : h[i] # Null}
Rows(h) == {h[i] : i \in Rids(h)}

NoIndexes == [c \in Columns |-> Null]
Idle == [kind |-> "none", todo |-> <<>>, done |-> 0, before |-> {}]

R == INSTANCE KeyedRows
       WITH rel <- IF stmt = Idle THEN Rows(heap) ELSE stmt.before,
            damaged <- torn
----------------------------------------------------------------------------
(***************************************************************************)
(* In-memory indexes: for each value the row ids that hold it, and the     *)
(* largest integer ever added (AUTO_INCREMENT).  NULL is not indexed.      *)
(***************************************************************************)
EmptyIndex(c) == [list |-> [x \in Values(c) |-> <<>>], max |-> 0]

mi_add(ix, c, row, rid) ==
    IF row[c] = Null THEN ix
    ELSE [list |-> [ix.list EXCEPT ![row[c]] = Append(@, rid)],
          max  |-> IF c = "id" /\ row.id > ix.max THEN row.id ELSE ix.max]

\* the last id takes the place of the one that leaves; max stays
TakeOut(l, rid) ==
    IF rid \in ToSet(l)
    THEN Front([l EXCEPT ![CHOOSE i \in DOMAIN l : l[i] = rid] = Last(l)])
    ELSE l

mi_remove(ix, c, row, rid) ==
    IF row[c] = Null THEN ix
    ELSE [ix EXCEPT !.list[row[c]] = TakeOut(@, rid)]

col_is_indexed(c) == c = "id" \/ (c = "v" /\ secondary)

\* built from a scan of the table when it is not there
BuildOverwriting(c) ==                            \* mutant: one row per value
    [list |-> [x \in Values(c) |->
                 SetToSeq({i \in Rids(heap) : /\ heap[i][c] = x
                           /\ \A j \in Rids(heap) : heap[j][c] = x => j <= i})],
     max |-> 0]
Build(c) ==
    LET Upto[i \in 0 .. Len(heap)] ==
            IF i = 0 THEN EmptyIndex(c)
            ELSE IF heap[i] = Null THEN Upto[i - 1]
            ELSE mi_add(Upto[i - 1], c, heap[i], i)
    IN  Upto[Len(heap)]

mi_get(c) == IF index[c] # Null THEN index[c] ELSE Build(c)

Got(cols) == [c \in Columns |-> IF c \in cols THEN mi_get(c) ELSE index[c]]

mi_on_delete(row, rid) ==
    [c \in Columns |-> IF index[c] = Null THEN Null
                       ELSE mi_remove(index[c], c, row, rid)]
mi_on_insert(ixs, row, rid) ==
    [c \in Columns |-> IF ixs[c] = Null THEN Null
                       ELSE mi_add(ixs[c], c, row, rid)]
----------------------------------------------------------------------------
(***************************************************************************)
(* The rows a WHERE selects.  An equality on an indexed column reads the   *)
(* rows the index lists; anything else scans the table.                    *)
(***************************************************************************)
UsesIndex(w) == w.col \in Columns /\ w.val # Null /\ col_is_indexed(w.col)

\* the elements of s in T, in their order
Kept(s, T) ==
    LET Upto[n \in 0 .. Len(s)] ==
            IF n = 0 THEN <<>>
            ELSE IF s[n] \in T THEN Append(Upto[n - 1], s[n]) ELSE Upto[n - 1]
    IN  Upto[Len(s)]

source_load(w) ==
    Kept(IF UsesIndex(w) THEN mi_get(w.col).list[w.val]
         ELSE [i \in DOMAIN heap |-> i],
         Rids(heap))

select_matches(w) ==
    Kept(source_load(w), {i \in Rids(heap) : R!Matches(w, heap[i])})

IndexesFor(w) == IF UsesIndex(w) THEN {w.col} ELSE {}
----------------------------------------------------------------------------
Init == /\ heap = <<>>
        /\ index = NoIndexes
        /\ secondary = FALSE
        /\ stmt = Idle
        /\ log = Null
        /\ saved = {}
        /\ torn = FALSE
        /\ failures = 0

\* Validation is over: write, unless the statement was refused or has no rows.
Proceed(kind, ok, todo) ==
    /\ stmt' = IF ok /\ todo # <<>>
               THEN [kind |-> kind, todo |-> todo, done |-> 0,
                     before |-> Rows(heap)]
               ELSE Idle
    /\ UNCHANGED <<heap, secondary, log, saved, torn, failures>>

\* INSERT: ids for the rows that give none, and no key twice, neither in the
\* table nor in the statement
Taken(ix, acc, id) == \/ ix.list[id] # <<>>
                      \/ \E i \in DOMAIN acc.rows : acc.rows[i].id = id

CheckRow(ix, acc, row) ==
    LET id == IF row.id = Null THEN acc.next + 1 ELSE row.id
    IN  [ok   |-> acc.ok /\ id <= MaxInt /\ ~Taken(ix, acc, id),
         next |-> IF id > acc.next THEN id ELSE acc.next,
         rows |-> Append(acc.rows, [row EXCEPT !.id = id])]

Checked(ix, batch) ==
    LET Upto[n \in 0 .. Len(batch)] ==
            IF n = 0 THEN [ok |-> TRUE, next |-> ix.max, rows |-> <<>>]
            ELSE CheckRow(ix, Upto[n - 1], batch[n])
    IN  Upto[Len(batch)]

Insert(batch) ==
    /\ stmt = Idle
    /\ LET checked == Checked(mi_get("id"), batch)
       IN  Proceed("INSERT", checked.ok,
                   [i \in DOMAIN checked.rows |->
                      [rid |-> 0, old |-> Null, new |-> checked.rows[i]]])
    /\ index' = Got({"id"})

\* UPDATE: a new key must differ from the other new keys and from the keys of
\* the rows the statement leaves alone
KeyClashes(todo) ==
    LET mine == {todo[i].rid : i \in DOMAIN todo}
    IN  \E i \in DOMAIN todo :
          LET key == todo[i].new.id
          IN  \/ \E j \in 1 .. i - 1 : todo[j].new.id = key
              \/ \E rid \in ToSet(mi_get("id").list[key]) : rid \notin mine

Update(w, s) ==
    /\ stmt = Idle
    /\ LET rids == select_matches(w)
           todo == [i \in DOMAIN rids |->
                      [rid |-> rids[i], old |-> heap[rids[i]],
                       new |-> R!NewRow(s, heap[rids[i]])]]
           fits == \A i \in DOMAIN todo : todo[i].new.id <= MaxInt
           keyed == s.id # "keep" /\ fits /\ todo # <<>>
       IN  /\ Proceed("UPDATE", fits /\ (keyed => ~KeyClashes(todo)), todo)
           /\ index' = Got(IndexesFor(w) \cup (IF keyed THEN {"id"} ELSE {}))

Delete(w) ==
    /\ stmt = Idle
    /\ LET rids == select_matches(w)
       IN  Proceed("DELETE", TRUE,
                   [i \in DOMAIN rids |->
                      [rid |-> rids[i], old |-> heap[rids[i]], new |-> Null]])
    /\ index' = Got(IndexesFor(w))

\* a SELECT that was not cancelled leaves the index it needed
Select(w) ==
    /\ stmt = Idle
    /\ \E c \in IndexesFor(w) : index[c] = Null
    /\ index' = Got(IndexesFor(w))
    /\ UNCHANGED <<heap, secondary, stmt, log, saved, torn, failures>>
----------------------------------------------------------------------------
(***************************************************************************)
(* The writes.  heap_update deletes the old row, then inserts the new one. *)
(***************************************************************************)
Item == Head(stmt.todo)

wal_log(rid) ==
    log' = IF log = Null THEN Null
           ELSE Append(log, [type |-> stmt.kind, rid |-> rid,
                             old |-> Item.old])

Written == stmt' = IF Len(stmt.todo) = 1 THEN Idle
                   ELSE [stmt EXCEPT !.todo = Tail(@), !.done = @ + 1]

NewRid == Len(heap) + 1

WriteInsert ==
    /\ stmt.kind = "INSERT" /\ Len(heap) < MaxRids
    /\ heap' = Append(heap, Item.new)
    /\ wal_log(NewRid)
    /\ index' = mi_on_insert(index, Item.new, NewRid)
    /\ Written
    /\ UNCHANGED <<secondary, saved, torn, failures>>

WriteUpdate ==
    /\ stmt.kind = "UPDATE" /\ Len(heap) < MaxRids
    /\ heap' = Append([heap EXCEPT ![Item.rid] = Null], Item.new)
    /\ wal_log(Item.rid)
    /\ index' = mi_on_insert(mi_on_delete(Item.old, Item.rid),
                             Item.new, NewRid)
    /\ Written
    /\ UNCHANGED <<secondary, saved, torn, failures>>

WriteDelete ==
    /\ stmt.kind = "DELETE"
    /\ wal_log(Item.rid)
    /\ heap' = [heap EXCEPT ![Item.rid] = Null]
    /\ index' = mi_on_delete(Item.old, Item.rid)
    /\ Written
    /\ UNCHANGED <<secondary, saved, torn, failures>>

\* A fetch fails, or no room is left: the indexes of the table are dropped.
mi_invalidate_table == NoIndexes

FetchFails == failures < MaxFailures /\ failures' = failures + 1
NoRoom     == Len(heap) = MaxRids /\ UNCHANGED failures

\* INSERT and UPDATE end with an error; the rows written before stay.
Abort(lost) == /\ index' = mi_invalidate_table
               /\ stmt' = Idle
               /\ torn' = (torn \/ stmt.done > 0 \/ lost)
               /\ UNCHANGED <<secondary, log, saved>>

InsertFails ==
    /\ stmt.kind = "INSERT"
    /\ FetchFails \/ NoRoom
    /\ heap' = heap /\ Abort(FALSE)

UpdateFailsOld ==
    /\ stmt.kind = "UPDATE" /\ FetchFails
    /\ heap' = heap /\ Abort(FALSE)

UpdateFailsNew ==
    /\ stmt.kind = "UPDATE"
    /\ FetchFails \/ NoRoom
    /\ heap' = [heap EXCEPT ![Item.rid] = Null] /\ Abort(TRUE)

\* DELETE has already logged the row, goes on with the others and succeeds.
DeleteFails ==
    /\ stmt.kind = "DELETE" /\ FetchFails
    /\ wal_log(Item.rid)
    /\ index' = mi_invalidate_table
    /\ torn' = TRUE
    /\ Written
    /\ UNCHANGED <<heap, secondary, saved>>
----------------------------------------------------------------------------
\* TRUNCATE deletes every row and logs nothing.
Truncate ==
    /\ stmt = Idle
    /\ heap' = [i \in DOMAIN heap |-> Null]
    /\ index' = mi_invalidate_table
    /\ UNCHANGED <<secondary, stmt, log, saved, torn, failures>>

CreateIndex ==
    /\ stmt = Idle /\ ~secondary
    /\ secondary' = TRUE
    /\ index' = mi_invalidate_table
    /\ UNCHANGED <<heap, stmt, log, saved, torn, failures>>

DropIndex ==
    /\ stmt = Idle /\ secondary
    /\ secondary' = FALSE
    /\ index' = mi_invalidate_table
    /\ UNCHANGED <<heap, stmt, log, saved, torn, failures>>

\* ALTER TABLE ... RENAME TO, and the shutdown of the engine
Rename ==
    /\ stmt = Idle
    /\ index' = mi_invalidate_table
    /\ UNCHANGED <<heap, secondary, stmt, log, saved, torn, failures>>

Begin ==
    /\ stmt = Idle /\ log = Null
    /\ log' = <<>> /\ saved' = Rows(heap)
    /\ UNCHANGED <<heap, index, secondary, stmt, torn, failures>>

Commit ==
    /\ stmt = Idle /\ log # Null
    /\ log' = Null /\ saved' = {}
    /\ UNCHANGED <<heap, index, secondary, stmt, torn, failures>>

\* wal_undo_tx, from the last record to the first; a row comes back under a
\* new row id, and the record of an UPDATE names the old row only
Undo(h, e) ==
    LET gone == [h EXCEPT ![e.rid] = Null]
    IN  CASE e.type = "INSERT" -> gone
          [] e.type = "DELETE" -> Append(h, e.old)
          [] e.type = "UPDATE" -> Append(gone, e.old)

Undone ==
    LET After[n \in 0 .. Len(log)] ==
            IF n = 0 THEN heap ELSE Undo(After[n - 1], log[Len(log) + 1 - n])
    IN  After[Len(log)]

UndoKeepsIndexes == index                         \* mutant: not invalidated
executor_invalidate_indexes == NoIndexes

Rollback ==
    /\ stmt = Idle /\ log # Null
    /\ Len(Undone) <= MaxRids
    /\ heap' = Undone
    /\ index' = executor_invalidate_indexes
    /\ log' = Null /\ saved' = {}
    /\ torn' = (torn \/ Rows(Undone) # saved
                     \/ Cardinality(Rids(Undone)) # Cardinality(saved))
    /\ UNCHANGED <<secondary, stmt, failures>>
----------------------------------------------------------------------------
Next == \/ \E batch \in Batches : Insert(batch)
        \/ \E w \in Wheres, s \in Sets : Update(w, s)
        \/ \E w \in Wheres : Delete(w) \/ Select(w)
        \/ WriteInsert \/ WriteUpdate \/ WriteDelete
        \/ InsertFails \/ UpdateFailsOld \/ UpdateFailsNew \/ DeleteFails
        \/ Truncate \/ CreateIndex \/ DropIndex \/ Rename
        \/ Begin \/ Commit \/ Rollback

Spec == Init /\ [][Next]_vars

\* An index that exists lists, for every value, exactly the rows that hold
\* it, each once, and max is at least every key: whatever statement, failure,
\* ROLLBACK or DDL came before, an index plan finds what a scan would find.
IndexesMatchHeap ==
    \A c \in Columns : index[c] # Null =>
      \A x \in Values(c) :
        LET l == index[c].list[x]
        IN  /\ ToSet(l) = {i \in Rids(heap) : heap[i][c] = x}
            /\ Len(l) = Cardinality(ToSet(l))
            /\ c = "id" /\ l # <<>> => x <= index[c].max

\* A statement that is not hit by a failure has its whole effect at once, on
\* the rows and with the values of the moment it started.
ImplementsKeyedRows == R!RowsSpec

=============================================================================
