------------------------------ MODULE Catalog ------------------------------
(***************************************************************************)
(* The catalogue (catalog/schema.c), the DDL of query/executor.c that      *)
(* changes it, and its file: db_execute saves it after every DDL statement *)
(* that succeeded, db_shutdown at the end, db_init loads it.               *)
(*                                                                         *)
(* Saving writes segvault.cat.tmp and renames it; the process may die      *)
(* between any two of its calls, and each of them may fail.  Columns,      *)
(* indexes, routines and triggers of a database are left out; names are    *)
(* compared without regard to case in the code, and are values here.       *)
(***************************************************************************)
EXTENDS Integers, Sequences, FiniteSets, SequencesExt

CONSTANTS DbNames, Names,   \* of databases; of tables and views
          MaxDatabases,     \* SV_MAX_DATABASES
          MaxTables,        \* SV_MAX_TABLES
          MaxViews,         \* 64
          MaxPages,         \* SV_MAX_PAGE_ID
          MaxCreated,       \* bound: tables ever created
          MaxFailures       \* bound: calls of the file system that fail

ASSUME CatalogAssumption ==
    {MaxDatabases, MaxTables, MaxViews, MaxPages, MaxCreated, MaxFailures}
      \subseteq Nat

VARIABLES windows,       \* the platform: rename replaces no existing file
          databases,     \* the catalogue in memory
          current_db,    \* position of the current database, or 0
          next_page_id,  \* tables ever added
          file, tmp,     \* segvault.cat and its .tmp, or NoFile
          running,       \* db_init has been called, db_shutdown has not
          saving,        \* what catalog_save does next
          pages,         \* pages of the data file: bp_new_page gives the next
          acked,         \* history: the databases last saved
          grown,         \* history: pages added to tables that grew
          aliased,       \* history: a table got no page of its own
          failures       \* history

vars == <<windows, databases, current_db, next_page_id, file, tmp, running,
          saving, pages, acked, grown, aliased, failures>>
catalogVars == <<databases, current_db, next_page_id>>
fileVars    == <<file, tmp>>
pageVars    == <<pages, grown, aliased>>   \* what only tables change

Contents(dbs, cur, next) == [databases |-> dbs, current |-> cur, next |-> next]
NoFile  == Contents(<<>>, 0, 0)         \* no catalogue counts from 0
Created == Contents(<<>>, 0, 1)         \* catalog_create

\* what catalog_load makes of the file
Loaded == IF file = NoFile THEN Created ELSE file

Position(s, n) == IF \E i \in DOMAIN s : s[i].name = n
                  THEN CHOOSE i \in DOMAIN s : s[i].name = n ELSE 0
Has(s, n) == Position(s, n) # 0
----------------------------------------------------------------------------
Init == /\ windows \in BOOLEAN
        /\ databases = <<>> /\ current_db = 0 /\ next_page_id = 1
        /\ file = NoFile /\ tmp = NoFile
        /\ running = TRUE /\ saving = "no"
        /\ pages = 0
        /\ acked = <<>>
        /\ grown = {} /\ aliased = FALSE
        /\ failures = 0

\* the engine mutex: nothing else happens during a save
Idle == running /\ saving = "no"

\* A DDL statement has succeeded: the catalogue is saved before it returns.
Changes(dbs) == /\ Idle
                /\ databases' = dbs
                /\ saving' = "write"
                /\ UNCHANGED <<windows, fileVars, running, acked, failures>>

CreateDb(n) ==
    /\ ~Has(databases, n) /\ Len(databases) < MaxDatabases
    /\ Changes(Append(databases, [name |-> n, tables |-> <<>>, views |-> <<>>]))
    /\ current_db' = IF current_db = 0 THEN Len(databases) + 1 ELSE current_db
    /\ UNCHANGED <<next_page_id, pageVars>>

CurrentLower(i) == IF current_db >= i THEN current_db - 1 ELSE current_db
                                                   \* mutant: moved too far
CurrentAfterDrop(i) == CASE current_db = i -> 0
                         [] current_db > i -> current_db - 1
                         [] OTHER          -> current_db

DropDb(n) ==
    LET i == Position(databases, n)
    IN  /\ i # 0
        /\ Changes(RemoveAt(databases, i))
        /\ current_db' = CurrentAfterDrop(i)
        /\ UNCHANGED <<next_page_id, pageVars>>

\* USE is not saved
Use(n) ==
    /\ Idle /\ Has(databases, n)
    /\ current_db' = Position(databases, n)
    /\ UNCHANGED <<windows, databases, next_page_id, fileVars, running, saving,
                   acked, pageVars, failures>>

Db == databases[current_db]
InDb == Idle /\ current_db # 0

\* a name that neither a table nor a view of the database has
FreeName(n) == ~Has(Db.tables, n) /\ ~Has(Db.views, n)

WithTables(ts) == [databases EXCEPT ![current_db].tables = ts]
WithViews(vs)  == [databases EXCEPT ![current_db].views = vs]

\* The root page comes from the data file; catalog_add_table's own count is
\* what remains when there is no new page, and the statement succeeds.
CountedRoot == next_page_id                        \* mutant: never replaced
NewRoot     == pages + 1

CreateTable(n) ==
    /\ InDb /\ FreeName(n) /\ Len(Db.tables) < MaxTables
    /\ next_page_id <= MaxCreated
    /\ next_page_id' = next_page_id + 1
    /\ \/ /\ pages < MaxPages
          /\ Changes(WithTables(Append(Db.tables,
                                       [name |-> n, root |-> NewRoot])))
          /\ pages' = pages + 1
          /\ UNCHANGED aliased
       \/ /\ pages = MaxPages
          /\ Changes(WithTables(Append(Db.tables,
                                       [name |-> n, root |-> next_page_id])))
          /\ aliased' = TRUE
          /\ UNCHANGED pages
    /\ UNCHANGED <<current_db, grown>>

DropTable(n) ==
    /\ InDb /\ Has(Db.tables, n)
    /\ Changes(WithTables(RemoveAt(Db.tables, Position(Db.tables, n))))
    /\ UNCHANGED <<current_db, next_page_id, pageVars>>

RenameTable(n, new) ==
    /\ InDb /\ Has(Db.tables, n)
    /\ new = n \/ FreeName(new)
    /\ Changes([databases EXCEPT
         ![current_db].tables[Position(Db.tables, n)].name = new])
    /\ UNCHANGED <<current_db, next_page_id, pageVars>>

CreateView(n) ==
    /\ InDb /\ FreeName(n) /\ Len(Db.views) < MaxViews
    /\ Changes(WithViews(Append(Db.views, [name |-> n])))
    /\ UNCHANGED <<current_db, next_page_id, pageVars>>

DropView(n) ==
    /\ InDb /\ Has(Db.views, n)
    /\ Changes(WithViews(RemoveAt(Db.views, Position(Db.views, n))))
    /\ UNCHANGED <<current_db, next_page_id, pageVars>>

\* a table that grows takes pages of the data file
GrowTable ==
    /\ InDb /\ Db.tables # <<>> /\ pages < MaxPages
    /\ pages' = pages + 1 /\ grown' = grown \cup {pages + 1}
    /\ UNCHANGED <<windows, catalogVars, fileVars, running, saving, acked,
                   aliased, failures>>

\* db_shutdown saves as well; it matters for USE
Shutdown ==
    /\ Idle
    /\ running' = FALSE /\ saving' = "write"
    /\ UNCHANGED <<windows, catalogVars, fileVars, acked, pageVars, failures>>
----------------------------------------------------------------------------
(***************************************************************************)
(* catalog_save.  Nobody looks at its result.                              *)
(***************************************************************************)
Saving == UNCHANGED <<windows, catalogVars, running, pageVars>>

\* mutant: in place, without a temporary file
OverwritesFile ==
    /\ saving = "write"
    /\ file' = NoFile
    /\ tmp' = Contents(databases, current_db, next_page_id)
    /\ saving' = "rename"
    /\ UNCHANGED <<acked, failures>> /\ Saving

\* The .tmp is written and flushed.  Nothing ever reads one: half a .tmp, or
\* one left over, is the same as none.
SaveWrite ==
    /\ saving = "write"
    /\ tmp' = Contents(databases, current_db, next_page_id)
    /\ saving' = IF windows THEN "remove" ELSE "rename"
    /\ UNCHANGED <<file, acked, failures>> /\ Saving

SaveRemove ==
    /\ saving = "remove"
    /\ file' = NoFile
    /\ saving' = "rename"
    /\ UNCHANGED <<tmp, acked, failures>> /\ Saving

SaveRename ==
    /\ saving = "rename"
    /\ file' = tmp /\ tmp' = NoFile
    /\ acked' = databases
    /\ saving' = "no"
    /\ UNCHANGED failures /\ Saving

SaveFails ==
    /\ saving \in {"write", "rename"}
    /\ failures < MaxFailures
    /\ failures' = failures + 1
    /\ tmp' = NoFile
    /\ saving' = "no"
    /\ UNCHANGED <<file, acked>> /\ Saving

\* the process dies, or ends, and another one starts
Restart ==
    /\ databases' = Loaded.databases
    /\ current_db' = Loaded.current
    /\ next_page_id' = Loaded.next
    /\ running' = TRUE /\ saving' = "no"
    /\ acked' = Loaded.databases
    /\ UNCHANGED <<windows, fileVars, pageVars, failures>>
----------------------------------------------------------------------------
Ddl == \/ \E n \in DbNames : CreateDb(n) \/ DropDb(n) \/ Use(n)
       \/ \E n \in Names : \/ CreateTable(n) \/ DropTable(n)
                           \/ CreateView(n) \/ DropView(n)
                           \/ \E new \in Names : RenameTable(n, new)

Next == \/ Ddl \/ GrowTable \/ Shutdown
        \/ SaveWrite \/ SaveRemove \/ SaveRename \/ SaveFails
        \/ Restart

Spec == Init /\ [][Next]_vars

Table    == [name : Names, root : Nat \ {0}]
Database == [name : DbNames, tables : Seq(Table), views : Seq([name : Names])]
AnyContents == [databases : Seq(Database), current : Nat, next : Nat]

\* The limits of the arrays, in memory and in the file.
ContentsOK(dbs, cur, next) ==
    /\ dbs \in Seq(Database) /\ next \in Nat \ {0}
    /\ Len(dbs) <= MaxDatabases /\ cur \in 0..Len(dbs)
    /\ \A d \in DOMAIN dbs : /\ Len(dbs[d].tables) <= MaxTables
                             /\ Len(dbs[d].views) <= MaxViews
TypeOK ==
    /\ ContentsOK(databases, current_db, next_page_id)
    /\ ContentsOK(Loaded.databases, Loaded.current, Loaded.next)
    /\ file \in AnyContents /\ tmp \in AnyContents /\ acked \in Seq(Database)
    /\ saving \in {"no", "write", "remove", "rename"}
    /\ windows \in BOOLEAN /\ running \in BOOLEAN /\ aliased \in BOOLEAN
    /\ pages \in 0..MaxPages /\ grown \subseteq 1..pages
    /\ failures \in 0..MaxFailures

Distinct(s) == \A i, j \in DOMAIN s : s[i].name = s[j].name => i = j

UniqueIn(dbs) ==
    /\ Distinct(dbs)
    /\ \A d \in DOMAIN dbs :
         LET ts == dbs[d].tables  vs == dbs[d].views
         IN  /\ Distinct(ts) /\ Distinct(vs)
             /\ \A i \in DOMAIN ts, j \in DOMAIN vs : ts[i].name # vs[j].name

\* A name denotes one database, and in a database one table or view: a lookup
\* by name never hides an object behind another, whatever DDL came before.
NamesUnique == UniqueIn(databases)

\* The current database stays the same database, though databases before it
\* in the array come and go, until USE, its own DROP or a restart.
CurrentName == IF current_db = 0 THEN "none" ELSE databases[current_db].name
CurrentKept ==
    [][\/ CurrentName' = CurrentName
       \/ current_db = 0
       \/ ~Has(databases', CurrentName) /\ current_db' = 0
       \/ databases' = databases /\ \E n \in DbNames : Use(n)
       \/ Restart]_vars

\* The file on disk is the catalogue last saved, at every moment of a save and
\* after one that failed: the death of the process or an error in the middle of
\* catalog_save loses no schema saved before.  Except on Windows, where the old
\* file is removed first.
SchemaDurable == ~windows => Loaded.databases = acked

ApartIn(dbs) ==
    \A d, e \in DOMAIN dbs :
      \A i \in DOMAIN dbs[d].tables, j \in DOMAIN dbs[e].tables :
        /\ dbs[d].tables[i].root \notin grown
        /\ dbs[d].tables[i].root = dbs[e].tables[j].root => d = e /\ i = j

\* The root page of a table is the root of no other and no page another table
\* grew by, also when a crash has taken the catalogue, and its count, back;
\* unless CREATE TABLE found no page left.
TablesApart == ~aliased => ApartIn(databases)
=============================================================================
