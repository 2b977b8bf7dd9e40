# SegVaultDB in TLA+

SegVaultDB (`src/`) is a relational database in C with a desktop client: a
single-process storage engine (slotted pages, page cache, write-ahead log,
heap tables, SQL executor) behind a small API, and a window thread that runs
scripts on a worker thread. This directory holds TLA+ models of its parts,
the TLC runs that check them on small instances, and TLAPS proofs for any
size. `PROJECT.json` maps every definition to the lines it models.

## 1. The system

| Part | State | Operations | Talks to |
|---|---|---|---|
| Slotted page (`storage/page.c`) | header (`num_slots`, `free_space`), slot directory from the front of the page, rows from its end | insert, delete a slot, read a slot, compact; read/write of the page file | page cache, log, heap |
| Page cache (`storage/buffer_pool.c`) | frames (page, dirty, pin count, LRU time), file | fetch, unpin, new page, flush one/all, remove, destroy | file, heap, B+ tree, bridge |
| Heap table (`table/heap.c`) | chain of pages linked by `next_page` | open, insert (first fit, growth), get, delete, update = delete + insert, scan | page cache; scan reads `g_sv_scan_cancel` |
| Log (`tx/wal.c`) | the file `segvault.wal` | append, fsync, recovery (redo all, undo unfinished, remove the log), undo of one transaction | the page file, directly |
| Transactions (`tx/transaction.c`) | `active` flag per id, at most 64 per session | begin, commit, abort | bridge |
| Bridge (`bridge/db_api.c`) | current `tx_id`, savepoints (name, log offset), engine mutex, cancel flags | init, shutdown, execute, BEGIN/COMMIT/ROLLBACK/SAVEPOINT/ROLLBACK TO, listings, dump | everything below, the window above |
| Executor (`query/executor.c`) | in-memory indexes (value -> row ids) | one function per statement; rows are logged with `wal_log` | heap, log, catalogue |
| Catalogue (`catalog/schema.c`) | databases, tables, views, indexes, current database | add/drop/use, load, save by temporary file and rename | executor, bridge |
| B+ tree (`index/btree.c`) | nodes in pages, leaf chain | insert with splits, search, delete, scan | page cache; used by its test only |
| Lexer, parser (`query/`) | none | text to syntax tree | bridge |
| Window (`widgets/window.c`, `main.c`) | the job in progress, result tabs, session, history | run, stop, tick, finish, destroy; everything of the user interface | engine API, worker thread |
| Text editor (`widgets/textbox.c`) | text, cursor, selection, undo and redo stacks, popup of completions | one function per key, find and replace | window |
| SQL text, files (`widgets/sql_text.c`, `csv_import.c`, `result_export.c`) | none | split and format a script, read CSV, write CSV and SQL | window, and through scripts the engine |
| Other widgets (`widgets/`) | grid, tree, line edits, themes, settings | per event | window, platform |
| Platform (`platform/`) | the X11 / Win32 window | events, drawing, clipboard, threads | window |

How they interact. Everything below the bridge is called synchronously, under
one recursive mutex taken by each public function. The bridge's ROLLBACK and
recovery do not use the page cache: they edit the page file and then drop the
cached pages. The window starts a worker thread for a script; the worker calls
`db_execute` once per statement, and the window talks to it only through
atomic flags: `job->cancel`, `job->done`, `g_cancel_requested`,
`g_read_running`, `g_sv_scan_cancel`.

What is hard here:

* a page is packed from both ends and the place of the next row is computed,
  not stored;
* eviction and pins, with the file also edited behind the cache;
* redo over pages that may or may not have been written back, undo that moves
  rows to other slots, crashes during both;
* a log cut at savepoints that outlive their transaction;
* the race between Stop and the statements it must, and must not, interrupt;
* closing the window in the middle of a statement;
* one SELECT with several plans (scan or index, nested loop or hash table) over
  values that are compared as numbers or as texts by their look;
* three readers of SQL that must agree: the parser, the window's splitter and
  guard, and what the program itself writes (views, dumps, exports, imports);
* an editor whose limit cuts a text anywhere, whose popup remembers an offset,
  and whose undo joins keystrokes.

`PROJECT.json` lists these as hazards with their lines.

What makes each part correct:

* page: rows never overlap, read back as inserted, keep their slot id;
  compaction leaves them as they were;
* page cache: one copy of a page, a held page stays, a clean frame equals the
  file, readers see the last write;
* log and transactions: rows neither lost nor doubled by a crash, only open
  transactions undone, ROLLBACK restores BEGIN's table;
* executor: a statement that meets no failure acts on all its rows at once,
  primary keys are unique, an index equals the rows it indexes;
* SELECT: the answer is the one SQL defines, whatever the plan; a condition, its
  negation and its being unknown divide a table; a view reads as its query;
* values: what a column accepts is what it keeps;
* catalogue: names unique, what `db_execute` acknowledged survives a crash;
* B+ tree: search, delete and scan agree with a map; a failed insert loses
  nothing;
* runs: a statement that changes data is never interrupted, Stop ends any run,
  a cancellation stays in its run, the report is true, the engine outlives the
  worker;
* scripts and files: the window's statements are the engine's, formatting keeps
  the tokens, the guard sees what runs, saved rows load back, what is written by
  the program is read as itself;
* editor: cursor and selection stay on characters, find visits what it counts,
  the popup follows the word at the cursor, undo and redo walk along the states
  that were.

## 2. Modules

| Module | Models | State and actions |
|---|---|---|
| `SlottedPage` | `storage/page.c` | `data` byte by byte: which insert wrote it, or the directory entry it belongs to. `PageInsert`, `PageDeleteSlot`; compaction as `CompactStart`, one `CompactSlot` per slot, `CompactEnd` |
| `BufferPool` | `storage/buffer_pool.c` with its clients and the file | frames, file, size, LRU tick, pins held by clients. `FetchHit`, `FetchMiss`, `NewPage`, `Unpin`, `Write` (of a holder), `FlushPage`, `FlushAll`; `RollbackBegin`, `UndoPage`, `RollbackEnd`; `Shutdown`, `Crash`, `Init` of a new process. Any page write may fail, those of `bp_new_page` excepted |
| `PageStore` | what a page cache promises | pages with a current and a durable content; `BufferPool` implements it |
| `Engine` | `table/heap.c`, `tx/`, the transaction statements of `bridge/db_api.c`, the row loops of the executor | pages in memory and in the file, chain, log, transactions, savepoints, the row operation in progress, pending redo and undo steps. One action per code step between which the process may die or a page may be written back |
| `TxnStore` | what transactions promise | working rows, durable rows, changes of each open transaction; `Engine` implements it |
| `Session` | `run_worker`, `run_text`, `app_window_cancel`, `app_window_tick`, `finish_run`, `app_window_destroy`, and `db_execute`'s flags and mutex | program counters of window and worker, the job, mutex, flags. Every access to an atomic flag is a step |
| `Table` | the statements of `query/executor.c` that change rows, with the in-memory indexes | `heap` (row id -> row), `index`, whether there is a CREATE INDEX, the statement that is writing, the log of the open transaction. A statement validates in one action (`Insert`, `Update`, `Delete`) and then writes row by row (`WriteInsert`, ...); each write may fail |
| `KeyedRows` | what statements promise | rows of a keyed relation, changed by whole statements; `Table` implements it as long as no write has failed half way |
| `BTree` | `index/btree.c` | pages, the running call with the stack of its recursion; one action per level (`Descend`, `LeafSplit`, `ParentSplit`, `RootSplit`, ...), each of which may fail |
| `Catalog` | `catalog/schema.c`, the DDL of `query/executor.c`, saving and loading of `segvault.cat` | the catalogue in memory, in the file and in the `.tmp`, where `catalog_save` is, the number of pages of the data file. One action per DDL statement and per call of `catalog_save`; `Restart` at any moment |
| `Expressions` | values, comparisons, three-valued logic, LIKE, arithmetic, text and number functions of `query/executor.c`; storing a text in a column and writing a value, of `table/tuple.c` | operators named for the functions |
| `Select` | SELECT: sources and views, binding, index plan, joins by loop or hash table, WHERE, groups, HAVING, projection, DISTINCT, ORDER BY, OFFSET and LIMIT | `run_select` and its parts |
| `Insert` | what `exec_insert` decides to store: columns named, types, DEFAULT, AUTO_INCREMENT, several rows; `Table` writes them | `exec_insert` and its parts |
| `Query` | a client and the executor, with the definitions of SQL that ignore the plan | `asked`, the question put; `AskSelect`, `AskInsert` |
| `Lexer`, `Parser` | `query/lexer.c`, `query/parser.c` | `lexer_tokenize`; one operator per grammar rule, the result being what was read and the next token |
| `Script` | `widgets/sql_text.c` and `guard_statement` of the window | `sql_split`, `sql_statement_at`, `sql_format`, `guard_statement` |
| `Transfer` | the dump, the SQL and CSV export, the CSV import, and the run of the scripts these write | `dump_database`, `ExportSql`, `ExportCsv`, `csv_to_sql`, `run_script` |
| `Client` | all of the above as its user sees it | adds `WriteScript`, `SaveTable`; the ways out and back are `Dumped`, `SqlLoaded`, `CsvLoaded` |
| `TextBuffer` | text, lines, cursor, selection, the editing commands and find/replace of `widgets/textbox.c` | operators from a buffer to a buffer, the text byte by byte |
| `Editor` | the keys, the mouse, the popup and the find bar | `buf`, `popup`; one action per key or command |
| `History` | the undo and redo stacks of the editor and the joining of keystrokes | `box`, `undo`, `redo`, `last_edit_kind`; `Edit`, `Move`, `do_undo`, `do_redo` |
| `Timeline` | what undo and redo promise: a walk along a line of states | `line`, `at`, `burst`; `History` implements it |
| `MC*` | | values for TLC |
| `SlottedPageProofs`, `BufferPoolProofs`, `EngineProofs`, `SessionProofs`, `BTreeProofs`, `TableProofs`, `CatalogProofs`, `EditorProofs` | | theorems and proofs |

Abstractions that matter. In `Engine` all rows have one size, so a page is the
sequence of its slots (`SlottedPage` justifies this: slot ids are stable and
nothing in the program calls `page_compact`), and the page cache is what
`BufferPool` promises: memory, file, and write-back of any page between two
fetches. A row version is a number, an UPDATE makes a new version. `Oversize`
rows fit into no page. A torn log record counts as not written, which is how
`read_payload` treats it. In `Session` a statement is its outcome; only a
SELECT can be interrupted, and its scan may go on for ever.
In `Table` a row id is a position in a growing
sequence, there is at most one CREATE INDEX, and a full file stands for every
reason why `heap_insert` finds no place; conditions are equalities, which is what
an index plan needs, and SET lists are the ones that make keys collide. A scan
reads all pages: a fetch that fails in a scan ends it silently in the code, see
the hazards. In `BTree` pages are numbered by the tree. Its loops (the two binary searches,
the ways down, the scan) are kept turn by turn, as functions of the number of
turns made; a loop that the code ends by `return` stays where it is for the turns
left.
In `Catalog` names are values, and a table is its name and its root page; the
pages of a table that grew are a history. `SchemaDurable` exempts Windows, where
`catalog_save` removes the old file before the rename: the process dying in
between, or a rename that fails, leaves no catalogue, which the next start reads
as an empty one. `TablesApart` exempts what follows a CREATE TABLE that found no
page: the statement succeeds and the table shares another one's page.

`Expressions` to `Transfer` are functions in the code as well, called in one
piece while the caller waits. `Client` therefore keeps no state but what was
asked; each of its properties is an action property, `[][...]_asked`, about what
the functions answer to the question of the step.

In `Expressions` a text is a sequence of symbols and a number is kept in
hundredths (`SCALE`), with the two integer widths as constants (`IntMax`,
`BigMax`); letter case, the bits of a double and dates are left out. A database
of `Select` is a constant of the question: rows are changed in `Table`. In
`Lexer` a symbol is a mark, a digit, a blank or a whole word, so a keyword is
one symbol; the limits of the parser are constants (`MaxDepth`, `MaxList`,
`ViewMax`, `TokenMax`). `TextBuffer` tells apart a letter in two cases, blanks,
line ends, brackets, a quote, a dash and the two bytes of a character outside
ASCII. `History` leaves open what an edit makes of the text, `TextBuffer` models
it, and the 1.5 seconds within which keys are joined are a choice.

## 3. Runs

| Run | Instance | Shows |
|---|---|---|
| `page` | 12-byte page, 2-byte directory entries, rows of 1, 2, 4 bytes | all interleavings of insert, delete, compact until ids run out: page full with and without room for the entry, compaction of empty, full and holed pages |
| `pool` | 2 frames, pages 0 to 3, 2 holds, 1 failed write, 2 values | eviction, all frames pinned, growth, rollback, shutdown, crash; refinement of `PageStore` |
| `engine` | 2 pages of 2 rows, 3 rows, 2 transactions, 1 savepoint, 5 log records, 2 restarts | heap growth, a row too large, a nested BEGIN, crash in normal work, in recovery and in ROLLBACK TO; refinement of `TxnStore` |
| `undo_delete` | 1 page of 8 rows, 3 rows, 6 records, 1 transaction | redo of UPDATE, rollback of DELETE when the page has room |
| `session` | scripts of up to 3 statements, 1 result tab, any number of runs | see section 1, "runs"; both liveness properties |
| `btree` | order 2, 5 keys, 2 values, 8 pages, 1 failed fetch | splits of leaves, of inner nodes and of the root (twice), empty leaves, a call that dies at any level, no page left |
| `table` | keys 1 to 3, 1 text, 4 row ids, 1 failed fetch, INSERTs of one and two rows | refused statements, key moves up and mirrored, index plans and scans, a full file, ROLLBACK, DDL; refinement of `KeyedRows` |
| `catalog` | 2 databases, 2 names, 3 pages, 2 tables ever created, 1 failing call, both platforms | DROP of the current and of an earlier database, names shared by tables and views, a crash or an error at every point of a save, no page left |
| `editor` | texts of up to 3 bytes and the results of Tab, Ctrl+/, Enter, a completion and a paste on them, a limit of 9 bytes, a letter, two brackets and a character of two bytes as typed keys, pastes of line ends and of more than the limit | every key, mouse, popup and find command in any order: see section 1, "editor" |
| `history` | 2 texts, stacks of 2 snapshots | edits, bursts, undo, redo and moves in any order, with a full stack; refinement of `Timeline` |
| `client` | a table of an indexed INT, an indexed VARCHAR and a DECIMAL, a table to join, views of it; conditions of two atoms, three tables joined, groups, pages; INSERTs; scripts of all short texts of quotes and comments, and of statements with these around them; tables of all types | the queries, scripts and files of section 1 |
| `rollback_update` | 1 transaction that updates | ROLLBACK leaves the new version: the comment of the undo in `tx/wal.c` promises otherwise |

`findings` of `PROJECT.json` also lists what was met without a run of its own:
each was seen by a property of one of the modules, or by the model of the
function next to its comment, and is left out of that property as said below.

Why the bounds are enough. A page of 12 bytes holds up to four one-byte rows
with their directory and exhausts on every combination of the three lengths; two
frames for four pages give eviction a choice and let it run out of victims; two pages of two rows make a heap grow once and keep a page
that is full; two restarts let recovery crash and run again, and two
transactions let one be left open by the other. One result tab makes the ring of
tabs drop its oldest with the second result of a script of three. A tree of
order 2 needs five keys for an inner node to split and the root to split a second
time. Three keys let an UPDATE of all keys overlap with its own old keys, and four
row ids let it run out of space in the middle. Stacks of two snapshots fill up
after two edits, so the third gives up the oldest, and an undo followed by an
edit still finds one below. A text of three bytes has a line before and after
the one with the cursor, or a character of two bytes with its line end; nine bytes
hold each of its lines indented, and a paste of two-byte characters is cut at this
limit between and within them. Two atoms under AND and OR meet every pair of true, false and unknown; of
four rows one pair has the same number, one text looks like it, `1` and `1.0` are
one value, and each column but one has a NULL; the third table makes the rows
that an outer join filled up take part in a join themselves. INT is -32..31 and
BIGINT -64..63, so that constants of two digits overflow. Scripts of four or five
marks hold every way in which two quotes, an escape, a comment and a semicolon can
follow each other.

Deadlock is checked for `page`, `pool`, `btree`, `table`, `catalog`, `editor` and
`history`. The other systems may stop: the engine when the bounds of the model
are used up, the session when the window is closed, the client when its question
is answered.

The runs of `Engine` restrict what transactions do, because the code does not
keep its promises otherwise: `rollback_update` and the hazards say where. The
properties are the same in both kinds of run; nothing in the actions changes.

* `engine`: inside transactions only INSERT; outside INSERT and DELETE;
  savepoints of the same transaction.
* every run: ROLLBACK TO a savepoint of the same transaction (`StaleSavepoints`
  is FALSE): savepoints outlive COMMIT, and one of an earlier transaction cuts
  its COMMIT record out of the log.
* `undo_delete`: inside a transaction only DELETE, and room in the page; no
  crash inside a recovery.
* No run crashes inside ROLLBACK: the ABORT record is in the log and recovery
  then leaves the transaction's rows in the table.

The properties of `client` and `editor` exempt what the code does not keep; the
findings, where something is promised, quote the promise:

* `ScriptSplits`, `GuardSeesWhatRuns`: no text with a backtick and a backslash,
  since only the window takes a backslash in a backticked name for an escape.
* `GuardSeesWhatRuns` speaks of texts with one statement: after a missing
  semicolon the parser finds a second one, whose WHERE the guard takes for the
  first one's.
* `FormatKeepsTokens`: no doubled `"`, which the formatter takes for two texts;
  scripts that end outside quotes and comments.
* `TransferKeepsRows`: no backslash in a text (it is doubled in the CSV import
  only), no quote, backslash or minus in a DEFAULT; a CSV file of one column may
  lose an empty row, and an empty text is NULL after a CSV file.
* `ViewIsItsQuery` speaks of numbers within the types a view guesses.
* `Exponents = FALSE`: `1e1` passes the check of an INT and is stored as 1.
* `CursorOnCharacter` exempts Tab and Ctrl+/ on one line selected with its line
  end, which may put the cursor into a character (`LineEndSelected`,
  `textbox.c:421`). In the run a paste, a completion, Tab, Ctrl+/ and Enter may lead to texts
  beyond the bound of three bytes, where nothing further happens; the other
  commands stay within it and so below the limit, at which some put the cursor
  behind the text (`textbox.c:419`).
* `PopupFollowsWord` exempts a drag and the find bar (`Outside`), which move the
  cursor and leave an open popup where it was (`window.c:3312`). `MouseDrag` may
  happen in any state: the flag `dragging` is not kept, a press sets it and no key
  clears it.
* `duplicate` at the limit reads the start of a line that is not there
  (`textbox.c:516`, past `num_lines`). The model takes any offset in the text for
  it; that the read leaves the array and the program stops is left out.
* The `editor` run types no quotes, which pair as brackets do, and no blanks, which
  Tab and a paste bring in.
* `ColumnDefs` of `Parser` has no bound on the columns of a CREATE TABLE, where
  the code writes past its array after the last one it has room for
  (`parser.c:868`): such statements are left out.
* `Select` groups rows by the tuple of their values, the code by one string of
  them with separator bytes (`executor.c:1727-1743`): texts that hold these bytes
  (1 and 31), which can make two groups one, are left out.

Fairness is assumed in `Session` only:

* weak fairness of the worker, except for the natural end of a SELECT's scan,
  which may be endless (a cross join in practice); the write statements of the
  model end because the tables they scan are finite;
* weak fairness of the steps a window handler goes through once begun;
* strong fairness of `Tick`: the main loop of `main.c` calls
  `app_window_tick` after every round of events, at least every 40 ms, so a
  user who clicks for ever cannot keep it away;
* strong fairness of taking the mutex: the window holds it for short calls and
  the worker for one statement at a time, so it is free again and again.

## 4. Proofs

All theorems hold for every value of the constants that the named assumption of
the module allows (`SizeAssumption`, `RowLenAssumption`, `PoolAssumption`, `EngineAssumption`,
`SessionAssumption`, `BTreeAssumption`, `TableAssumption`, `CatalogAssumption`, `TextAssumption`,
`EditorAssumption`, `HistoryAssumption`; TLC evaluates them in the
runs). A theorem with a hypothesis of its own says so below.

* `SlottedPageProofs`: `TypeCorrect`, `FreeSpaceSafe`, `RowsSafe`,
  `SlotIdsSafe`. The inductive invariant adds to `TypeOK` what the code never
  stores (`PageInv`): where the free gap is, that rows lie above it in the order
  of their slots, and how far compaction has got, which is why copying rows
  within the page is safe.
* `BufferPoolProofs`: `PoolTypeCorrect`, `OneCopySafe`, `HeldPagesSafe`,
  `CleanSafe` and `PoolImplementsStore` (every step of the pool is a step of
  `PageStore` or a stutter). The inductive invariant `PoolInv` adds that cached
  pages are within the file, pin counts equal the holds, and that nothing is held
  or dirty while a rollback edits the file.
* `SessionProofs`: `SessionTypeCorrect`, `WritesUninterruptedSafe`,
  `OnlyStopCancelsSafe`, `EngineOutlivesRunSafe`, `ReportIsHonestSafe`. `WritesUninterrupted` is not
  inductive: the window may have read `read_running` long ago. The strengthening
  `StopInv` says that the flag, and the pending store of it, imply `job->cancel`
  and that no write statement is running or about to begin; with `job->cancel`
  set the worker starts no further statement. `ReportInv` relates what the worker
  has counted to the outcomes so far: the outcomes before the last never ended a
  run, a worker that has ended had a reason, and the result sets kept are the last
  ones, however often the ring of tabs has dropped one.

* `EngineProofs`: `EngineTyped`, `OnlyOpenUndoneSafe`, `RestartKeepsRowsSafe`,
  `RollbackRestoresSafe`, `TxnStoreImplemented`: every property of the `engine` run,
  for pages of any size, any number of rows, transactions,
  savepoints and crashes. The recursions of recovery are functions
  over the log; what they do is proved by induction on its length (`Induction`,
  `Iteration`: a set of numbers that holds 0 and the successor of each of its
  elements, and the function that repeats a step). Five invariants:
  - `BaseInv` (`TypeInv`, `StageInv`, `SpaceInv`): types; a row operation and a
    replay exclude each other; every place in a log record is a slot of a page
    given out, and a row operation has room where it is about to write.
  - `LedgerInv`: for each transaction the log has a BEGIN, and an end exactly if it
    is no longer active; the records behind a savepoint are of the transaction
    that set it. It makes `OnlyOpenUndone` inductive: ROLLBACK TO cuts the log only
    behind a BEGIN that stays. Hypothesis: `~StaleSavepoints`, since a savepoint of
    an earlier transaction cuts that transaction's COMMIT off.
  - `HeapInv`: whatever part of memory has reached the file, redo of the whole log
    over the file gives the pages of memory, slot by slot. It is stated slot by
    slot because redo skips records by what the slot shows, and because pages are
    written back in any order. Hypotheses of `RestartKeepsRowsSafe`: no UPDATE,
    whose record names one of the two slots it changes (a finding), and
    `MaxLog <= MaxEntries`, since recovery reads no further records.
  - `OwnInv`: every row of an open transaction is labelled with a record of the
    log, no two records share a slot (`TellsApart`), and undoing them all leaves
    BEGIN's rows (`WillRestore`). Hypotheses of `RollbackRestoresSafe`: transactions
    only insert (undo of a DELETE needs room that another transaction may have
    taken; of an UPDATE, see the finding), and a log within the reach of both undo
    loops. Stale savepoints are allowed.
  - `StoreInv`, which the refinement adds. The slots of pages become sets of rows
    only because a row is in one slot at most, in memory, in the file and in the log
    together (`Located`, `Issued`), although a row may be in the file and not in the
    log, in the log and not in the file, or neither. `HandInv`, `LogInv` and `TxInv`
    say the same of the row operation in progress and of the records of each
    transaction; `WorkInv` and `PendInv` that a rollback under way undoes exactly
    the insertions it still has to, so that ROLLBACK TO may cut the log when it
    ends; `RecoverInv` that a recovery under way, and one that is itself cut short,
    still leads to the rows the crash left.

  `TxnStoreImplemented` maps the working rows to the pages with the replay under way
  finished and the row operation in progress left out, the durable rows to what
  recovery would make of the file and the log. The lemmas `...States` say which step
  of `TxnStore` an action is, those named `...Stutters` that it is none: INSERT takes
  effect where its record is written, DELETE at once, ROLLBACK and ROLLBACK TO
  where they begin, a crash where it happens. Hypotheses: those of the three safety
  theorems together, and `CrashPhases` without `"rollback"` and `"closing"`: the ABORT
  record is written before the undo, so a recovery between the two finds the
  transaction ended and keeps its rows (a hazard without a property).

* `BTreeProofs`: `TreeInvariant`, `ScanLosesNothingSafe`, `SearchFindsAllSafe`,
  `ScanInOrderSafe`: every property of the `btree` run, for any set of keys,
  order, number of pages and number of failures. The code stores no levels, no
  parents and no list of leaves; the invariant `TreeInv` claims that they exist, and
  each step of the proof names those of the next state.
  - `Frame`, always: a level for each page, with children one below their node and
    all leaves at 0; a page is the child of one node, in one place; the leaves form
    one chain `C` along `next`; the first children lead from the root to `C[1]`.
    With `Calls` (the stack of the recursion is a way down from the root, and a
    sibling going up is on the level of the page it came from) and `Inhabited`
    (each stored key is in some leaf) it gives `ScanLosesNothing`, whichever calls
    have failed.
  - `Leads`, as long as `broken` is FALSE: keys ascend in each page, and for each
    key there is a route, one page per level, which is the way `btree_search` takes.
    Each key in a page has its route through that page, and smaller keys lead to
    earlier leaves. While a sibling has no parent yet, the route passes from its
    left neighbour to it (`Moved`), so the route of the leaf level does not change
    when the levels above catch up.
  - A split is proved in two steps, as in the code: the page with one key too many,
    and then its parting (`Cut`), for leaves and inner nodes alike. The binary
    searches (`LeafIndexFinds`, `ChildIndexFinds`) and the descents are recursive functions;
    what they compute is proved by induction on the turns of the loop and on the
    level.

* `TableProofs`: `TableInvariant`, `IndexesMatchHeapSafe`, `RowsImplemented`: every
  property of the `table` run, for any key range, texts, INSERTs, conditions, SET
  lists, room and number of failures. The loops over rows, index entries and log
  records are recursive functions; what they compute is proved by induction
  (`BuildLists`, `KeptIs`, `CheckedIs`, `UndoneReaches`). The invariant `TableInv`
  has two halves.
  - Always: each index that exists lists the rows of each value, once (`Lists`), the
    rows still to be written are in the heap as the statement read them (`Current`),
    and the log names slots that exist (`Logged`), so that ROLLBACK undoes within the
    heap. This half gives `IndexesMatchHeap`; it does not depend on keys being
    unique, so it survives any statement that stopped half way.
  - Until a failure (`torn`): the rows the statement leaves alone and the rows it
    will write together have each key once (`Keyed`), and they are what the statement
    promises of the rows it started with (`Outcome`). The heap itself may hold a key
    twice in the middle of an UPDATE that moves keys; no invariant of the heap alone
    would be inductive. With the last row written `Outcome` is the step of
    `KeyedRows`, all earlier steps of the statement stutter. ROLLBACK is the step
    "rows of BEGIN" only where the undo gave them back: a row for each of them and
    none twice, which by counting makes the keys unique again (`DistinctRows`).

* `CatalogProofs`: `CatalogTypeCorrect`, `NamesUniqueSafe`, `SchemaDurableSafe`,
  `TablesApartSafe`, `CurrentKeptAlways`: every property of the `catalog` run.
  The inductive invariant says of the file what it says of memory, because a
  restart makes it the memory again; that the `.tmp` is memory from its writing
  to its renaming; and that root pages are within the data file, so that the next
  page of the file is never one of them.

* `EditorProofs`, about `Editor`: `EditorSafe`, `PopupSafe` and `FindSafe`, for any
  texts typed, pasted and searched for, any limit of the text and any indentation.
  - The invariant `EditorInv` is a finite text within the limit, a cursor and a
    column that are no negative numbers, a popup position or none. That the cursor
    lies in the text is not part of it, because it is not true (see the findings
    about `replace_lines`). That each command of `TextBuffer` keeps a buffer a
    buffer takes a lemma each; they rest on the lines of a text (every line has a
    start, an end, and an offset for every column: `LineStart`, `LineEnd`,
    `ColOffset`), on the sets of offsets having a least and a greatest element, and
    on the loops over lines and matches ending (`Flat`, `Chained`).
  - `PopupSafe` (`PopupFollowsWord`): each action closes the popup, puts it at the
    start of the word before the cursor, or is one of `Outside` and leaves the text
    and the popup (`Follows`). That the popup is at the start of a word at all takes
    an invariant of its own (`PopupInv`): it outlives any number of drags and
    searches, because they do not change the text and every change of it closes the
    popup. No hypothesis.
  - `FindSafe` (`FindVisitsCounted`): the count is a list of matches, none
    overlapping the one before, none left out in between (`Matches`, by induction
    from the end of the text); `textbox_find_next` from the end of one of them
    finds the next (`FindForward`), and from the last, around the end of the text,
    the first.

* `EditorProofs`, about `History`: `StacksSafe` and `HistoryImplementsTimeline`, for any texts
  and any capacity. The inductive invariant adds to the types that the two stacks
  together hold at most one stack's worth of snapshots (`StacksFit`): undo and
  redo move a snapshot from one to the other, so neither ever drops one, which is
  what makes redo the exact inverse of undo at a full stack.

`TypeCorrect`, `PoolTypeCorrect`, `SessionTypeCorrect`, `CatalogTypeCorrect` and
`NamesUniqueSafe` are proved and not repeated in a run.

TLC only: the runs of `Engine` with DELETE in a transaction (`undo_delete`) or with
UPDATE (`rollback_update`, a finding); the
liveness properties, which are out of reach of the prover; and the RECURSIVE operators
of `Expressions`, `Select`, `Lexer`, `Script`, `Parser`, `Transfer` and `Client`, which
it does not take. Of the properties of `Editor`, `CursorOnCharacter` stays with TLC.
Looking for its inductive invariant led to the two findings: Tab and Ctrl+/ may put
the cursor into a character (`textbox.c:421`), which the property exempts, and at
64 KB the cursor may lie behind the text (`textbox.c:419`), so that it holds only
below the limit. Without the exemption TLC finds the first within the run: `é` and
its line end selected, then Tab.

## 5. Not modelled

* The bytes of a row (`tuple_serialize`), the conversion of files of older
  versions, failures of the log file and of `fsync`: a crash is the death of the
  process, after which everything written is in the files.
* A scan that a page cannot be fetched for: `heap_scan_next` ends as if the table
  did. The models read all pages; the hazard is listed.
* `db_execute_multi`, which the window does not call, DESCRIBE and SHOW, and the
  listings of the bridge: they read and format.
* Indexes, routines and triggers of the catalogue: records that are saved and
  listed; the program never runs a routine or a trigger.
* Functions of date and time, which read the clock.
* JSON, Markdown, HTML and TSV exports: written from the same cells as CSV and
  never read by the program.
* The result grid and the explorer tree: each event recomputes what is shown from
  rows that nobody else changes. The one-line fields (`line_edit.c`) and the list
  of past queries in the window.
* Themes, settings, drawing, geometry, and the platform layer. `Session` has the
  thread and the join that the platform provides, as the window uses them.

## 6. Plan

1. done: `SlottedPage`, `BufferPool` over `PageStore`, `Engine` over `TxnStore`,
   `Session`, with proofs.
2. done: `BTree`, and `Table` over `KeyedRows` with its in-memory indexes.
3. done: `Catalog` with its proofs.
4. done: `TextBuffer`, `Editor`, and `History` over `Timeline` with its proofs.
5. done: operators checked against definitions: expressions, SELECT, INSERT, lexer
   and parser, splitting and formatting, export and import.
6. done: proofs of the safety properties of `Engine` and of its refinement of
   `TxnStore`, of `ReportIsHonest`, of the properties of `BTree` and of `Table`, and of
   the popup and the find bar of `Editor`.
7. left: a failing fetch in a scan, in `Table`; the composition of `Catalog` with
   `Table`; the result grid.
