--------------------------- MODULE CatalogProofs ---------------------------
(***************************************************************************)
(* Proofs about Catalog, for any names and any limits.                     *)
(***************************************************************************)
EXTENDS Catalog, SequenceTheorems, TLAPS

(* Root pages are pages of the data file. *)
RootsInFile(dbs) ==
  \A d \in DOMAIN dbs : \A i \in DOMAIN dbs[d].tables :
    dbs[d].tables[i].root <= pages

Sound(dbs) == UniqueIn(dbs) /\ (~aliased => ApartIn(dbs) /\ RootsInFile(dbs))

(* From the write of the temporary file to its renaming the file holds what *)
(* memory holds, and the old one is gone only on Windows.                   *)
SavingInv ==
  /\ saving \in {"remove", "rename"} =>
       tmp = Contents(databases, current_db, next_page_id)
  /\ saving = "remove" => windows
  /\ SchemaDurable

IInv == TypeOK /\ SavingInv /\ Sound(databases) /\ Sound(file.databases)
-----------------------------------------------------------------------------
(* A lookup by name finds an element of that name if there is one.         *)
LEMMA PositionFacts ==
  ASSUME NEW S, NEW s \in Seq(S), NEW n
  PROVE  /\ Position(s, n) \in 0 .. Len(s)
         /\ Has(s, n) => /\ Position(s, n) \in DOMAIN s
                         /\ s[Position(s, n)].name = n
         /\ ~Has(s, n) => \A i \in DOMAIN s : s[i].name # n
<1>1. DOMAIN s = 1 .. Len(s) /\ Len(s) \in Nat
  OBVIOUS
<1>2. CASE \E i \in DOMAIN s : s[i].name = n
  <2>1. Position(s, n) \in DOMAIN s /\ s[Position(s, n)].name = n
    BY <1>2 DEF Position
  <2>. QED
    BY <1>1, <2>1 DEF Has
<1>3. CASE ~\E i \in DOMAIN s : s[i].name = n
  BY <1>1, <1>3 DEF Has, Position
<1>. QED
  BY <1>2, <1>3

(* Removing a position moves what follows it down by one.                  *)
LEMMA RemoveAtFacts ==
  ASSUME NEW S, NEW s \in Seq(S), NEW p \in DOMAIN s
  PROVE  /\ RemoveAt(s, p) \in Seq(S)
         /\ Len(RemoveAt(s, p)) = Len(s) - 1
         /\ \A i \in DOMAIN RemoveAt(s, p) :
              /\ (IF i < p THEN i ELSE i + 1) \in DOMAIN s
              /\ RemoveAt(s, p)[i] = s[IF i < p THEN i ELSE i + 1]
<1>. DEFINE a == SubSeq(s, 1, p - 1)
            b == SubSeq(s, p + 1, Len(s))
<1>1. p \in 1 .. Len(s) /\ Len(s) \in Nat /\ \A i \in 1 .. Len(s) : s[i] \in S
  OBVIOUS
<1>2. /\ a \in Seq(S) /\ Len(a) = p - 1
      /\ \A i \in 1 .. p - 1 : a[i] = s[i]
  <2>1. \A i \in 1 .. p - 1 : s[i] \in S
    BY <1>1
  <2>2. p - 1 \in Int /\ 1 \in Int
    BY <1>1
  <2>3. /\ a \in Seq(S) /\ Len(a) = IF 1 <= p - 1 THEN p - 1 - 1 + 1 ELSE 0
        /\ \A i \in 1 .. p - 1 - 1 + 1 : a[i] = s[1 + i - 1]
    BY <2>1, <2>2, SubSeqProperties
  <2>. QED
    BY <1>1, <2>3
<1>3. /\ b \in Seq(S) /\ Len(b) = Len(s) - p
      /\ \A i \in 1 .. Len(s) - p : b[i] = s[p + i]
  <2>1. \A i \in p + 1 .. Len(s) : s[i] \in S
    BY <1>1
  <2>2. p + 1 \in Int /\ Len(s) \in Int
    BY <1>1
  <2>3. /\ b \in Seq(S)
        /\ Len(b) = IF p + 1 <= Len(s) THEN Len(s) - (p + 1) + 1 ELSE 0
        /\ \A i \in 1 .. Len(s) - (p + 1) + 1 : b[i] = s[p + 1 + i - 1]
    BY <2>1, <2>2, SubSeqProperties
  <2>. QED
    BY <1>1, <2>3
<1>4. /\ a \o b \in Seq(S) /\ Len(a \o b) = Len(a) + Len(b)
      /\ \A i \in 1 .. Len(a) + Len(b) :
           (a \o b)[i] = IF i <= Len(a) THEN a[i] ELSE b[i - Len(a)]
  BY <1>2, <1>3, ConcatProperties
<1>5. RemoveAt(s, p) = a \o b
  BY DEF RemoveAt
<1>. HIDE DEF a, b
<1>6. Len(a \o b) = Len(s) - 1 /\ DOMAIN (a \o b) = 1 .. Len(s) - 1
  BY <1>1, <1>2, <1>3, <1>4
<1>7. ASSUME NEW i \in 1 .. Len(s) - 1
      PROVE  /\ (IF i < p THEN i ELSE i + 1) \in 1 .. Len(s)
             /\ (a \o b)[i] = s[IF i < p THEN i ELSE i + 1]
  <2>. i \in Int /\ p \in Int /\ Len(s) \in Int
    BY <1>1
  <2>0. i \in 1 .. Len(a) + Len(b)
    BY <1>1, <1>2, <1>3
  <2>1. CASE i < p
    <3>1. i \in 1 .. p - 1 /\ i <= Len(a)
      BY <1>2, <2>1
    <3>2. (a \o b)[i] = a[i]
      BY <1>4, <2>0, <3>1
    <3>. QED
      BY <1>1, <1>2, <2>1, <3>1, <3>2
  <2>2. CASE ~(i < p)
    <3>1. ~(i <= Len(a)) /\ i - Len(a) = i - p + 1
      BY <1>1, <1>2, <2>2
    <3>2. (a \o b)[i] = b[i - p + 1]
      BY <1>4, <2>0, <3>1
    <3>3. i - p + 1 \in 1 .. Len(s) - p /\ p + (i - p + 1) = i + 1
      BY <1>1, <2>2
    <3>. QED
      BY <1>1, <1>3, <2>2, <3>2, <3>3, SMTT(60)
  <2>. QED
    BY <2>1, <2>2
<1>8. DOMAIN RemoveAt(s, p) = 1 .. Len(s) - 1 /\ DOMAIN s = 1 .. Len(s)
  BY <1>5, <1>6
<1>. QED
  BY <1>4, <1>5, <1>6, <1>7, <1>8

(* What is unique stays so when an element goes. *)
LEMMA RemoveAtDistinct ==
  ASSUME NEW S, NEW s \in Seq(S), NEW p \in DOMAIN s, Distinct(s)
  PROVE  Distinct(RemoveAt(s, p))
<1>. SUFFICES ASSUME NEW i \in DOMAIN RemoveAt(s, p),
                     NEW j \in DOMAIN RemoveAt(s, p),
                     RemoveAt(s, p)[i].name = RemoveAt(s, p)[j].name
              PROVE  i = j
  BY DEF Distinct
<1>. DEFINE f(k) == IF k < p THEN k ELSE k + 1
<1>1. /\ f(i) \in DOMAIN s /\ f(j) \in DOMAIN s
      /\ RemoveAt(s, p)[i] = s[f(i)] /\ RemoveAt(s, p)[j] = s[f(j)]
  BY RemoveAtFacts
<1>2. f(i) = f(j)
  <2>. HIDE DEF f
  <2>. QED BY <1>1 DEF Distinct
<1>3. i \in Int /\ j \in Int /\ p \in Int
  <2>1. RemoveAt(s, p) \in Seq(S)
    BY RemoveAtFacts
  <2>. QED BY <2>1
<1>. QED
  BY <1>2, <1>3

(* Another element of a name of its own. *)
LEMMA AppendDistinct ==
  ASSUME NEW S, NEW s \in Seq(S), NEW e \in S, Distinct(s), ~Has(s, e.name)
  PROVE  Distinct(Append(s, e))
<1>1. /\ Append(s, e) \in Seq(S) /\ Len(Append(s, e)) = Len(s) + 1
      /\ \A i \in 1 .. Len(s) : Append(s, e)[i] = s[i]
      /\ Append(s, e)[Len(s) + 1] = e
  BY AppendProperties
<1>2. \A i \in DOMAIN s : s[i].name # e.name
  BY PositionFacts
<1>3. DOMAIN s = 1 .. Len(s) /\ DOMAIN Append(s, e) = 1 .. Len(s) + 1
      /\ Len(s) \in Nat
  BY <1>1
<1>. HIDE DEF Has
<1>. SUFFICES ASSUME NEW i \in 1 .. Len(s) + 1, NEW j \in 1 .. Len(s) + 1,
                     Append(s, e)[i].name = Append(s, e)[j].name
              PROVE  i = j
  BY <1>3 DEF Distinct
<1>4. CASE i <= Len(s) /\ j <= Len(s)
  BY <1>1, <1>3, <1>4 DEF Distinct
<1>5. CASE i = Len(s) + 1 \/ j = Len(s) + 1
  BY <1>1, <1>2, <1>3, <1>5
<1>. QED
  BY <1>3, <1>4, <1>5
-----------------------------------------------------------------------------
(* What one DDL statement leaves in memory. *)
DdlSafe == ContentsOK(databases, current_db, next_page_id) /\ Sound(databases)

(* The limits, one by one. *)
LEMMA LimitFacts ==
  ASSUME TypeOK
  PROVE  /\ MaxDatabases \in Nat /\ MaxTables \in Nat /\ MaxViews \in Nat
         /\ databases \in Seq(Database) /\ Len(databases) <= MaxDatabases
         /\ current_db \in 0 .. Len(databases)
         /\ next_page_id \in Nat \ {0}
         /\ \A d \in DOMAIN databases :
              /\ Len(databases[d].tables) <= MaxTables
              /\ Len(databases[d].views) <= MaxViews
<1>1. ContentsOK(databases, current_db, next_page_id)
  BY DEF TypeOK
<1>. QED
  BY <1>1, CatalogAssumption DEF ContentsOK

(* The current database is one of the array.                               *)
LEMMA CurrentFacts ==
  ASSUME TypeOK, current_db # 0
  PROVE  /\ current_db \in DOMAIN databases /\ Db \in Database
         /\ Db.tables \in Seq(Table) /\ Db.views \in Seq([name : Names])
<1>1. databases \in Seq(Database) /\ current_db \in DOMAIN databases
  BY DEF TypeOK, ContentsOK
<1>2. databases[current_db] \in Database
  BY <1>1
<1>. QED
  BY <1>1, <1>2 DEF Db, Database

(* Only the tables of the current database change.                         *)
LEMMA WithTablesFacts ==
  ASSUME TypeOK, current_db # 0, NEW ts \in Seq(Table)
  PROVE  LET dbs == WithTables(ts)
         IN  /\ dbs \in Seq(Database) /\ Len(dbs) = Len(databases)
             /\ DOMAIN dbs = DOMAIN databases
             /\ \A d \in DOMAIN dbs :
                  /\ dbs[d].name = databases[d].name
                  /\ dbs[d].views = databases[d].views
                  /\ dbs[d].tables = IF d = current_db THEN ts
                                     ELSE databases[d].tables
<1>1. databases \in Seq(Database) /\ current_db \in DOMAIN databases
  BY CurrentFacts DEF TypeOK, ContentsOK
<1>2. databases[current_db] \in Database
  BY <1>1
<1>3. [databases[current_db] EXCEPT !.tables = ts] \in Database
  BY <1>2 DEF Database
<1>. QED
  BY <1>1, <1>2, <1>3 DEF WithTables, Database

(* Only the views of the current database change.                          *)
LEMMA WithViewsFacts ==
  ASSUME TypeOK, current_db # 0, NEW vs \in Seq([name : Names])
  PROVE  LET dbs == WithViews(vs)
         IN  /\ dbs \in Seq(Database) /\ Len(dbs) = Len(databases)
             /\ DOMAIN dbs = DOMAIN databases
             /\ \A d \in DOMAIN dbs :
                  /\ dbs[d].name = databases[d].name
                  /\ dbs[d].tables = databases[d].tables
                  /\ dbs[d].views = IF d = current_db THEN vs
                                    ELSE databases[d].views
<1>1. databases \in Seq(Database) /\ current_db \in DOMAIN databases
  BY CurrentFacts DEF TypeOK, ContentsOK
<1>2. databases[current_db] \in Database
  BY <1>1
<1>3. [databases[current_db] EXCEPT !.views = vs] \in Database
  BY <1>2 DEF Database
<1>. QED
  BY <1>1, <1>2, <1>3 DEF WithViews, Database

(* catalog_add_db adds an empty database of a new name.                    *)
LEMMA CreateDbSafe ==
  ASSUME TypeOK, Sound(databases), NEW n \in DbNames, CreateDb(n)
  PROVE  DdlSafe'
<1>. DEFINE e == [name |-> n, tables |-> <<>>, views |-> <<>>]
<1>1. /\ databases \in Seq(Database) /\ e \in Database /\ e.name = n
      /\ e.tables = <<>> /\ e.views = <<>>
  BY DEF TypeOK, ContentsOK, Database
<1>. HIDE DEF e
<1>2. databases' = Append(databases, e) /\ ~Has(databases, n)
  BY DEF CreateDb, Changes, e
<1>3. /\ databases' \in Seq(Database) /\ Len(databases') = Len(databases) + 1
      /\ DOMAIN databases' = 1 .. Len(databases) + 1
      /\ \A d \in 1 .. Len(databases) : databases'[d] = databases[d]
      /\ databases'[Len(databases) + 1] = e
  BY <1>1, <1>2, AppendProperties
<1>4. Distinct(databases)'
  BY <1>1, <1>2, AppendDistinct DEF Sound, UniqueIn, Distinct
<1>5. \A d \in DOMAIN databases' :
        \/ d \in DOMAIN databases /\ databases'[d] = databases[d]
        \/ databases'[d].tables = <<>> /\ databases'[d].views = <<>>
  BY <1>1, <1>3
<1>6. DOMAIN <<>> = {} /\ Len(<<>>) = 0
  OBVIOUS
<1>7. ContentsOK(databases, current_db, next_page_id)'
  <2>1. /\ Len(databases') <= MaxDatabases /\ next_page_id' = next_page_id
        /\ current_db' \in 0 .. Len(databases')
    BY <1>3, LimitFacts DEF CreateDb
  <2>2. \A d \in DOMAIN databases' : /\ Len(databases'[d].tables) <= MaxTables
                                    /\ Len(databases'[d].views) <= MaxViews
    BY <1>5, <1>6, LimitFacts
  <2>. QED
    BY <1>3, <2>1, <2>2, LimitFacts DEF ContentsOK
<1>8. UniqueIn(databases)'
  BY <1>4, <1>5, <1>6 DEF UniqueIn, Sound, Distinct
<1>9. ApartIn(databases) => ApartIn(databases)'
  BY <1>5, <1>6 DEF ApartIn, CreateDb, pageVars
<1>10. RootsInFile(databases) => RootsInFile(databases)'
  BY <1>5, <1>6 DEF RootsInFile, CreateDb, pageVars
<1>. QED
  BY <1>7, <1>8, <1>9, <1>10 DEF DdlSafe, Sound, CreateDb, pageVars

(* catalog_drop_db takes tables away and moves current_db along.           *)
LEMMA DropDbSafe ==
  ASSUME TypeOK, Sound(databases), NEW n \in DbNames, DropDb(n)
  PROVE  DdlSafe'
<1>. DEFINE p == Position(databases, n)
            f(d) == IF d < p THEN d ELSE d + 1
<1>1. databases \in Seq(Database) /\ p \in DOMAIN databases
  BY PositionFacts DEF TypeOK, ContentsOK, DropDb, Has
<1>2. databases' = RemoveAt(databases, p) /\ current_db' = CurrentAfterDrop(p)
  BY DEF DropDb, Changes
<1>. HIDE DEF p
<1>3. /\ databases' \in Seq(Database) /\ Len(databases') = Len(databases) - 1
      /\ \A d \in DOMAIN databases' : /\ f(d) \in DOMAIN databases
                                      /\ databases'[d] = databases[f(d)]
  BY <1>1, <1>2, RemoveAtFacts
<1>4. DOMAIN databases' \subseteq Int /\ p \in Int
  BY <1>1, <1>3
<1>5. \A d, e \in DOMAIN databases' : f(d) = f(e) => d = e
  BY <1>4
<1>6. Distinct(databases)'
  BY <1>1, <1>2, RemoveAtDistinct DEF Sound, UniqueIn, Distinct
<1>7. ContentsOK(databases, current_db, next_page_id)'
  <2>1. current_db' \in 0 .. Len(databases')
    BY <1>1, <1>2, <1>3 DEF CurrentAfterDrop, TypeOK, ContentsOK
  <2>2. Len(databases') <= MaxDatabases /\ next_page_id' = next_page_id
    BY <1>3, LimitFacts DEF DropDb
  <2>. HIDE DEF f
  <2>3. \A d \in DOMAIN databases' : /\ Len(databases'[d].tables) <= MaxTables
                                    /\ Len(databases'[d].views) <= MaxViews
    BY <1>3, LimitFacts
  <2>. QED
    BY <1>3, <2>1, <2>2, <2>3, LimitFacts DEF ContentsOK
<1>. HIDE DEF f
<1>8. UniqueIn(databases)'
  BY <1>3, <1>6 DEF UniqueIn, Sound, Distinct
<1>9. ApartIn(databases) => ApartIn(databases)'
  BY <1>3, <1>5 DEF ApartIn, DropDb, pageVars
<1>10. RootsInFile(databases) => RootsInFile(databases)'
  BY <1>3 DEF RootsInFile, DropDb, pageVars
<1>. QED
  BY <1>7, <1>8, <1>9, <1>10 DEF DdlSafe, Sound, DropDb, pageVars

(* Nothing of the others changes, the tables of the current database do. *)
LEMMA TablesReplaced ==
  ASSUME TypeOK, Sound(databases), current_db # 0, NEW ts \in Seq(Table),
         databases' = WithTables(ts), UNCHANGED current_db,
         next_page_id' \in Nat \ {0}, Len(ts) <= MaxTables, Distinct(ts),
         \A i \in DOMAIN ts, j \in DOMAIN Db.views :
           ts[i].name # Db.views[j].name
  PROVE  /\ ContentsOK(databases, current_db, next_page_id)'
         /\ UniqueIn(databases)'
<1>1. /\ databases' \in Seq(Database) /\ Len(databases') = Len(databases)
      /\ DOMAIN databases' = DOMAIN databases
      /\ \A d \in DOMAIN databases' :
           /\ databases'[d].name = databases[d].name
           /\ databases'[d].views = databases[d].views
           /\ databases'[d].tables = IF d = current_db THEN ts
                                     ELSE databases[d].tables
  BY WithTablesFacts
<1>2. ContentsOK(databases, current_db, next_page_id)'
  BY <1>1, LimitFacts DEF ContentsOK
<1>3. Distinct(databases)'
  BY <1>1 DEF Sound, UniqueIn, Distinct
<1>4. ASSUME NEW d \in DOMAIN databases'
      PROVE  LET us == databases'[d].tables  vs == databases'[d].views
             IN  /\ Distinct(us) /\ Distinct(vs)
                 /\ \A i \in DOMAIN us, j \in DOMAIN vs :
                      us[i].name # vs[j].name
  <2>1. CASE d = current_db
    BY <1>1, <2>1 DEF Sound, UniqueIn, Db
  <2>2. CASE d # current_db
    BY <1>1, <2>2 DEF Sound, UniqueIn
  <2>. QED
    BY <2>1, <2>2
<1>. QED
  BY <1>2, <1>3, <1>4 DEF UniqueIn, Distinct

(* The same of views, which have no pages.                                 *)
LEMMA ViewsReplaced ==
  ASSUME TypeOK, Sound(databases), current_db # 0,
         NEW vs \in Seq([name : Names]),
         databases' = WithViews(vs), UNCHANGED <<current_db, next_page_id>>,
         UNCHANGED pageVars, Len(vs) <= MaxViews, Distinct(vs),
         \A i \in DOMAIN Db.tables, j \in DOMAIN vs :
           Db.tables[i].name # vs[j].name
  PROVE  DdlSafe'
<1>1. /\ databases' \in Seq(Database) /\ Len(databases') = Len(databases)
      /\ DOMAIN databases' = DOMAIN databases
      /\ \A d \in DOMAIN databases' :
           /\ databases'[d].name = databases[d].name
           /\ databases'[d].tables = databases[d].tables
           /\ databases'[d].views = IF d = current_db THEN vs
                                    ELSE databases[d].views
  BY WithViewsFacts
<1>2. ContentsOK(databases, current_db, next_page_id)'
  BY <1>1, LimitFacts DEF ContentsOK
<1>3. Distinct(databases)'
  BY <1>1 DEF Sound, UniqueIn, Distinct
<1>4. ASSUME NEW d \in DOMAIN databases'
      PROVE  LET ts == databases'[d].tables  us == databases'[d].views
             IN  /\ Distinct(ts) /\ Distinct(us)
                 /\ \A i \in DOMAIN ts, j \in DOMAIN us :
                      ts[i].name # us[j].name
  <2>1. CASE d = current_db
    BY <1>1, <2>1 DEF Sound, UniqueIn, Db
  <2>2. CASE d # current_db
    BY <1>1, <2>2 DEF Sound, UniqueIn
  <2>. QED
    BY <2>1, <2>2
<1>5. UniqueIn(databases)'
  BY <1>3, <1>4 DEF UniqueIn, Distinct
<1>6. ApartIn(databases) => ApartIn(databases)'
  BY <1>1 DEF ApartIn, pageVars
<1>7. RootsInFile(databases) => RootsInFile(databases)'
  BY <1>1 DEF RootsInFile, pageVars
<1>. QED
  BY <1>2, <1>5, <1>6, <1>7 DEF DdlSafe, Sound, pageVars

(* In the current database a name denotes one object.                      *)
LEMMA CurrentUnique ==
  ASSUME TypeOK, Sound(databases), current_db # 0
  PROVE  /\ Distinct(Db.tables) /\ Distinct(Db.views)
         /\ \A i \in DOMAIN Db.tables, j \in DOMAIN Db.views :
              Db.tables[i].name # Db.views[j].name
BY CurrentFacts DEF Sound, UniqueIn, Db

(* A free name is the name of no table and no view.                        *)
LEMMA FreeNameFacts ==
  ASSUME TypeOK, current_db # 0, NEW n, FreeName(n)
  PROVE  /\ \A i \in DOMAIN Db.tables : Db.tables[i].name # n
         /\ \A i \in DOMAIN Db.views : Db.views[i].name # n
BY CurrentFacts, PositionFacts DEF FreeName

(* The new root page is past every other page.                             *)
LEMMA CreateTableSafe ==
  ASSUME TypeOK, Sound(databases), NEW n \in Names, CreateTable(n)
  PROVE  DdlSafe'
<1>1. current_db # 0 /\ FreeName(n) /\ Len(Db.tables) < MaxTables
      /\ UNCHANGED <<current_db, grown>>
  BY DEF CreateTable, InDb
<1>2. pages \in Nat /\ next_page_id \in Nat \ {0}
  BY CatalogAssumption, LimitFacts DEF TypeOK
<1>3. PICK root \in Nat \ {0} :
        /\ databases' = WithTables(Append(Db.tables,
                                          [name |-> n, root |-> root]))
        /\ aliased' \/ /\ root = pages + 1 /\ pages' = pages + 1
                       /\ aliased' = aliased
  BY <1>2 DEF CreateTable, Changes, NewRoot
<1>. DEFINE e == [name |-> n, root |-> root]
            ts == Append(Db.tables, e)
<1>4. /\ e \in Table /\ e.name = n /\ e.root = root
      /\ Db.tables \in Seq(Table) /\ current_db \in DOMAIN databases
  BY <1>1, CurrentFacts DEF Table
<1>. HIDE DEF e
<1>5. /\ ts \in Seq(Table) /\ Len(ts) = Len(Db.tables) + 1
      /\ DOMAIN ts = 1 .. Len(Db.tables) + 1 /\ Len(Db.tables) \in Nat
      /\ \A i \in 1 .. Len(Db.tables) : ts[i] = Db.tables[i]
      /\ ts[Len(Db.tables) + 1] = e
  BY <1>4, AppendProperties
<1>6. Distinct(ts)
  BY <1>1, <1>4, AppendDistinct, CurrentUnique DEF FreeName
<1>7. \A i \in DOMAIN ts : \/ i \in DOMAIN Db.tables /\ ts[i] = Db.tables[i]
                           \/ i = Len(Db.tables) + 1 /\ ts[i] = e
  BY <1>4, <1>5
<1>8. databases' = WithTables(ts)
  BY <1>3 DEF e
<1>. HIDE DEF ts
<1>9. \A i \in DOMAIN ts, j \in DOMAIN Db.views :
        ts[i].name # Db.views[j].name
  BY <1>1, <1>4, <1>7, CurrentUnique, FreeNameFacts
<1>10. Len(ts) <= MaxTables /\ next_page_id' \in Nat \ {0}
  BY <1>1, <1>2, <1>5, LimitFacts DEF CreateTable
<1>11. /\ ContentsOK(databases, current_db, next_page_id)'
       /\ UniqueIn(databases)'
  BY <1>1, <1>5, <1>6, <1>8, <1>9, <1>10, TablesReplaced
<1>12. ASSUME ~aliased' PROVE ApartIn(databases)' /\ RootsInFile(databases)'
  <2>1. /\ root = pages + 1 /\ pages' = pages + 1 /\ ~aliased
        /\ grown' = grown
        /\ ApartIn(databases) /\ RootsInFile(databases)
    BY <1>1, <1>3, <1>12 DEF Sound
  <2>2. /\ DOMAIN databases' = DOMAIN databases
        /\ \A d \in DOMAIN databases' :
             databases'[d].tables = IF d = current_db THEN ts
                                    ELSE databases[d].tables
    BY <1>1, <1>5, <1>8, WithTablesFacts
  <2>3. \A d \in DOMAIN databases' : \A i \in DOMAIN databases'[d].tables :
          \/ /\ i \in DOMAIN databases[d].tables
             /\ databases'[d].tables[i] = databases[d].tables[i]
          \/ /\ d = current_db /\ i = Len(Db.tables) + 1
             /\ databases'[d].tables[i].root = pages + 1
    BY <1>4, <1>7, <2>1, <2>2 DEF Db
  <2>4. \A d \in DOMAIN databases : \A i \in DOMAIN databases[d].tables :
          /\ databases[d].tables[i].root \in Nat
          /\ databases[d].tables[i].root <= pages
    <3>1. \A d \in DOMAIN databases : databases[d] \in Database
      BY LimitFacts
    <3>2. \A d \in DOMAIN databases : databases[d].tables \in Seq(Table)
      BY <3>1 DEF Database
    <3>3. \A d \in DOMAIN databases : \A i \in DOMAIN databases[d].tables :
            databases[d].tables[i] \in Table
      BY <3>2
    <3>. QED
      BY <2>1, <3>3 DEF RootsInFile, Table
  <2>5. pages + 1 \notin grown
    BY <1>2 DEF TypeOK
  <2>6. RootsInFile(databases)'
    <3>. SUFFICES ASSUME NEW d \in DOMAIN databases',
                         NEW i \in DOMAIN databases'[d].tables
                  PROVE  databases'[d].tables[i].root <= pages'
      BY DEF RootsInFile
    <3>1. CASE databases'[d].tables[i].root = pages + 1
      BY <1>2, <2>1, <3>1
    <3>2. CASE /\ i \in DOMAIN databases[d].tables
               /\ databases'[d].tables[i] = databases[d].tables[i]
      BY <1>2, <2>1, <2>2, <2>4, <3>2
    <3>. QED
      BY <2>3, <3>1, <3>2
  <2>7. ASSUME NEW d \in DOMAIN databases', NEW k \in DOMAIN databases',
               NEW i \in DOMAIN databases'[d].tables,
               NEW j \in DOMAIN databases'[k].tables
        PROVE  /\ databases'[d].tables[i].root \notin grown
               /\ databases'[d].tables[i].root = databases'[k].tables[j].root
                    => d = k /\ i = j
    <3>1. databases'[d].tables[i].root \notin grown
      BY <2>1, <2>2, <2>3, <2>5 DEF ApartIn
    <3>2. CASE /\ i \in DOMAIN databases[d].tables
               /\ j \in DOMAIN databases[k].tables
               /\ databases'[d].tables[i] = databases[d].tables[i]
               /\ databases'[k].tables[j] = databases[k].tables[j]
      BY <2>1, <2>2, <3>1, <3>2 DEF ApartIn
    <3>3. CASE ~ /\ i \in DOMAIN databases[d].tables
                 /\ j \in DOMAIN databases[k].tables
                 /\ databases'[d].tables[i] = databases[d].tables[i]
                 /\ databases'[k].tables[j] = databases[k].tables[j]
      BY <1>2, <2>2, <2>3, <2>4, <3>1, <3>3
    <3>. QED
      BY <3>2, <3>3
  <2>. QED
    BY <2>1, <2>6, <2>7 DEF ApartIn
<1>. QED
  BY <1>11, <1>12 DEF DdlSafe, Sound

(* The tables that stay keep names and pages.                              *)
LEMMA DropTableSafe ==
  ASSUME TypeOK, Sound(databases), NEW n \in Names, DropTable(n)
  PROVE  DdlSafe'
<1>. DEFINE p == Position(Db.tables, n)
            ts == RemoveAt(Db.tables, p)
            f(i) == IF i < p THEN i ELSE i + 1
<1>1. /\ current_db # 0 /\ databases' = WithTables(ts)
      /\ UNCHANGED <<current_db, next_page_id, pageVars>>
  BY DEF DropTable, InDb, Changes
<1>2. Db.tables \in Seq(Table) /\ p \in DOMAIN Db.tables
  BY <1>1, CurrentFacts, PositionFacts DEF DropTable
<1>. HIDE DEF p
<1>3. /\ ts \in Seq(Table) /\ Len(ts) = Len(Db.tables) - 1
      /\ \A i \in DOMAIN ts : f(i) \in DOMAIN Db.tables /\ ts[i] = Db.tables[f(i)]
  BY <1>2, RemoveAtFacts
<1>4. Distinct(ts)
  BY <1>1, <1>2, RemoveAtDistinct, CurrentUnique
<1>. HIDE DEF ts
<1>5. DOMAIN ts \subseteq Int /\ p \in Int
  BY <1>2, <1>3
<1>6. \A i, j \in DOMAIN ts : f(i) = f(j) => i = j
  BY <1>5
<1>. HIDE DEF f
<1>7. \A i \in DOMAIN ts, j \in DOMAIN Db.views :
        ts[i].name # Db.views[j].name
  BY <1>1, <1>3, CurrentUnique
<1>8. Len(ts) <= MaxTables /\ next_page_id' \in Nat \ {0}
  <2>1. Len(Db.tables) <= MaxTables
    BY <1>1, CurrentFacts, LimitFacts DEF Db
  <2>. QED
    BY <1>1, <1>2, <1>3, <2>1, LimitFacts
<1>9. /\ ContentsOK(databases, current_db, next_page_id)'
      /\ UniqueIn(databases)'
  BY <1>1, <1>3, <1>4, <1>7, <1>8, TablesReplaced
<1>10. /\ DOMAIN databases' = DOMAIN databases
       /\ \A d \in DOMAIN databases' :
            databases'[d].tables = IF d = current_db THEN ts
                                   ELSE databases[d].tables
  BY <1>1, <1>3, WithTablesFacts
<1>. DEFINE g(d, i) == IF d = current_db THEN f(i) ELSE i
<1>11. \A d \in DOMAIN databases' : \A i \in DOMAIN databases'[d].tables :
         /\ g(d, i) \in DOMAIN databases[d].tables
         /\ databases'[d].tables[i] = databases[d].tables[g(d, i)]
  BY <1>3, <1>10 DEF Db
<1>12. \A d \in DOMAIN databases' : \A i, j \in DOMAIN databases'[d].tables :
         g(d, i) = g(d, j) => i = j
  BY <1>6, <1>10
<1>. HIDE DEF g
<1>13. ApartIn(databases) => ApartIn(databases)'
  BY <1>1, <1>10, <1>11, <1>12 DEF ApartIn, pageVars
<1>14. RootsInFile(databases) => RootsInFile(databases)'
  BY <1>1, <1>10, <1>11 DEF RootsInFile, pageVars
<1>. QED
  BY <1>1, <1>9, <1>13, <1>14 DEF DdlSafe, Sound, pageVars

(* A table takes a free name, or its own.                                  *)
LEMMA RenameTableSafe ==
  ASSUME TypeOK, Sound(databases), NEW n \in Names, NEW new \in Names,
         RenameTable(n, new)
  PROVE  DdlSafe'
<1>. DEFINE p == Position(Db.tables, n)
            ts == [Db.tables EXCEPT ![p].name = new]
<1>1. /\ current_db # 0 /\ (new = n \/ FreeName(new))
      /\ UNCHANGED <<current_db, next_page_id, pageVars>>
  BY DEF RenameTable, InDb
<1>2. /\ Db.tables \in Seq(Table) /\ p \in DOMAIN Db.tables
      /\ Db.tables[p].name = n /\ current_db \in DOMAIN databases
  BY <1>1, CurrentFacts, PositionFacts DEF RenameTable
<1>3. databases' = WithTables(ts)
  <2>1. databases' = [databases EXCEPT ![current_db].tables[p].name = new]
    BY DEF RenameTable, Changes
  <2>. HIDE DEF p
  <2>. QED
    BY <2>1 DEF WithTables, Db
<1>. HIDE DEF p
<1>4. [Db.tables[p] EXCEPT !.name = new] \in Table
  <2>1. Db.tables[p] \in Table
    BY <1>2
  <2>. QED
    BY <2>1 DEF Table
<1>5. /\ ts \in Seq(Table) /\ Len(ts) = Len(Db.tables)
      /\ DOMAIN ts = DOMAIN Db.tables
      /\ \A i \in DOMAIN ts :
           /\ ts[i].root = Db.tables[i].root
           /\ ts[i].name = IF i = p THEN new ELSE Db.tables[i].name
  <2>1. \A i \in DOMAIN Db.tables : Db.tables[i] \in Table
    BY <1>2
  <2>2. /\ ts \in Seq(Table) /\ Len(ts) = Len(Db.tables)
        /\ DOMAIN ts = DOMAIN Db.tables
    BY <1>2, <1>4
  <2>3. \A i \in DOMAIN ts :
          ts[i] = IF i = p THEN [Db.tables[p] EXCEPT !.name = new]
                  ELSE Db.tables[i]
    BY <1>2
  <2>. QED
    BY <1>2, <2>1, <2>2, <2>3 DEF Table
<1>. HIDE DEF ts
<1>6. /\ \A i \in DOMAIN Db.tables : i # p => Db.tables[i].name # new
      /\ \A j \in DOMAIN Db.views : Db.views[j].name # new
  <2>1. CASE new = n
    BY <1>1, <1>2, <2>1, CurrentUnique DEF Distinct
  <2>2. CASE FreeName(new)
    BY <1>1, <2>2, FreeNameFacts
  <2>. QED
    BY <1>1, <2>1, <2>2
<1>7. Distinct(ts)
  BY <1>1, <1>5, <1>6, CurrentUnique DEF Distinct
<1>8. \A i \in DOMAIN ts, j \in DOMAIN Db.views :
        ts[i].name # Db.views[j].name
  BY <1>1, <1>5, <1>6, CurrentUnique
<1>9. Len(ts) <= MaxTables /\ next_page_id' \in Nat \ {0}
  BY <1>1, <1>2, <1>5, LimitFacts DEF Db
<1>10. /\ ContentsOK(databases, current_db, next_page_id)'
       /\ UniqueIn(databases)'
  BY <1>1, <1>3, <1>5, <1>7, <1>8, <1>9, TablesReplaced
<1>11. /\ DOMAIN databases' = DOMAIN databases
       /\ \A d \in DOMAIN databases' :
            databases'[d].tables = IF d = current_db THEN ts
                                   ELSE databases[d].tables
  BY <1>1, <1>3, <1>5, WithTablesFacts
<1>12. \A d \in DOMAIN databases' :
         /\ DOMAIN databases'[d].tables = DOMAIN databases[d].tables
         /\ \A i \in DOMAIN databases'[d].tables :
              databases'[d].tables[i].root = databases[d].tables[i].root
  BY <1>5, <1>11 DEF Db
<1>13. ApartIn(databases) => ApartIn(databases)'
  BY <1>1, <1>11, <1>12 DEF ApartIn, pageVars
<1>14. RootsInFile(databases) => RootsInFile(databases)'
  BY <1>1, <1>11, <1>12 DEF RootsInFile, pageVars
<1>. QED
  BY <1>1, <1>10, <1>13, <1>14 DEF DdlSafe, Sound, pageVars

(* A view takes a free name.                                               *)
LEMMA CreateViewSafe ==
  ASSUME TypeOK, Sound(databases), NEW n \in Names, CreateView(n)
  PROVE  DdlSafe'
<1>. DEFINE e == [name |-> n]
            vs == Append(Db.views, e)
<1>1. /\ current_db # 0 /\ FreeName(n) /\ Len(Db.views) < MaxViews
      /\ databases' = WithViews(vs)
      /\ UNCHANGED <<current_db, next_page_id, pageVars>>
  BY DEF CreateView, InDb, Changes
<1>2. /\ Db.views \in Seq([name : Names]) /\ e \in [name : Names]
      /\ e.name = n
  BY <1>1, CurrentFacts
<1>. HIDE DEF e
<1>3. /\ vs \in Seq([name : Names]) /\ Len(vs) = Len(Db.views) + 1
      /\ DOMAIN vs = 1 .. Len(Db.views) + 1 /\ Len(Db.views) \in Nat
      /\ \A i \in 1 .. Len(Db.views) : vs[i] = Db.views[i]
      /\ vs[Len(Db.views) + 1] = e
  BY <1>2, AppendProperties
<1>4. Distinct(vs)
  BY <1>1, <1>2, AppendDistinct, CurrentUnique DEF FreeName
<1>. HIDE DEF vs
<1>5. \A j \in DOMAIN vs :
        vs[j].name = n \/ (j \in DOMAIN Db.views /\ vs[j] = Db.views[j])
  BY <1>2, <1>3
<1>6. \A i \in DOMAIN Db.tables, j \in DOMAIN vs :
        Db.tables[i].name # vs[j].name
  BY <1>1, <1>5, CurrentUnique, FreeNameFacts
<1>7. Len(vs) <= MaxViews
  BY <1>1, <1>3, LimitFacts
<1>. QED
  BY <1>1, <1>3, <1>4, <1>6, <1>7, ViewsReplaced

(* The views that stay keep their names.                                   *)
LEMMA DropViewSafe ==
  ASSUME TypeOK, Sound(databases), NEW n \in Names, DropView(n)
  PROVE  DdlSafe'
<1>. DEFINE p == Position(Db.views, n)
            vs == RemoveAt(Db.views, p)
<1>1. /\ current_db # 0 /\ databases' = WithViews(vs)
      /\ UNCHANGED <<current_db, next_page_id, pageVars>>
  BY DEF DropView, InDb, Changes
<1>2. Db.views \in Seq([name : Names]) /\ p \in DOMAIN Db.views
  BY <1>1, CurrentFacts, PositionFacts DEF DropView
<1>. HIDE DEF p
<1>3. /\ vs \in Seq([name : Names]) /\ Len(vs) = Len(Db.views) - 1
      /\ \A j \in DOMAIN vs : \E k \in DOMAIN Db.views : vs[j] = Db.views[k]
  BY <1>2, RemoveAtFacts, SMTT(60)
<1>4. Distinct(vs)
  BY <1>1, <1>2, RemoveAtDistinct, CurrentUnique
<1>. HIDE DEF vs
<1>5. \A i \in DOMAIN Db.tables, j \in DOMAIN vs :
        Db.tables[i].name # vs[j].name
  BY <1>1, <1>3, CurrentUnique
<1>6. Len(vs) <= MaxViews
  <2>1. Len(Db.views) <= MaxViews
    BY <1>1, CurrentFacts, LimitFacts DEF Db
  <2>. QED
    BY <1>2, <1>3, <2>1, LimitFacts
<1>. QED
  BY <1>1, <1>3, <1>4, <1>5, <1>6, ViewsReplaced
-----------------------------------------------------------------------------
(* What all DDL has in common: memory stays sound, the files untouched.    *)
LEMMA DdlKeeps ==
  ASSUME TypeOK, Sound(databases), Ddl
  PROVE  /\ DdlSafe'
         /\ saving = "no" /\ saving' \in {"no", "write"}
         /\ UNCHANGED <<windows, fileVars, running, acked, failures, grown>>
         /\ aliased => aliased'
         /\ pages' \in pages .. MaxPages
<1>0. pages \in 0 .. MaxPages /\ MaxPages \in Nat
  BY CatalogAssumption DEF TypeOK
<1>1. ASSUME NEW n \in DbNames, CreateDb(n) \/ DropDb(n)
      PROVE  /\ DdlSafe'
             /\ saving = "no" /\ saving' \in {"no", "write"}
             /\ UNCHANGED <<windows, fileVars, running, acked, failures, grown>>
             /\ aliased => aliased'
             /\ pages' \in pages .. MaxPages
  <2>1. DdlSafe'
    BY <1>1, CreateDbSafe, DropDbSafe
  <2>2. /\ saving = "no" /\ saving' = "write"
        /\ UNCHANGED <<windows, fileVars, running, acked, failures>>
        /\ UNCHANGED pageVars
    BY <1>1 DEF CreateDb, DropDb, Changes, Idle
  <2>. QED
    BY <1>0, <2>1, <2>2 DEF pageVars
<1>2. ASSUME NEW n \in DbNames, Use(n)
      PROVE  /\ DdlSafe'
             /\ saving = "no" /\ saving' \in {"no", "write"}
             /\ UNCHANGED <<windows, fileVars, running, acked, failures, grown>>
             /\ aliased => aliased'
             /\ pages' \in pages .. MaxPages
  <2>1. /\ saving = "no" /\ Has(databases, n)
        /\ current_db' = Position(databases, n)
        /\ UNCHANGED <<windows, databases, next_page_id, fileVars, running,
                       saving, acked, pageVars, failures>>
    BY <1>2 DEF Use, Idle
  <2>2. current_db' \in 0 .. Len(databases)
    BY <2>1, LimitFacts, PositionFacts
  <2>3. ContentsOK(databases, current_db, next_page_id)'
    BY <2>1, <2>2, LimitFacts DEF ContentsOK
  <2>4. Sound(databases)'
    BY <2>1 DEF Sound, UniqueIn, Distinct, ApartIn, RootsInFile, pageVars
  <2>. QED
    BY <1>0, <2>1, <2>3, <2>4 DEF pageVars, DdlSafe
<1>3. ASSUME NEW n \in Names, CreateTable(n)
      PROVE  /\ DdlSafe'
             /\ saving = "no" /\ saving' \in {"no", "write"}
             /\ UNCHANGED <<windows, fileVars, running, acked, failures, grown>>
             /\ aliased => aliased'
             /\ pages' \in pages .. MaxPages
  <2>1. DdlSafe'
    BY <1>3, CreateTableSafe
  <2>. QED
    BY <1>0, <1>3, <2>1 DEF CreateTable, Changes, Idle
<1>4. ASSUME NEW n \in Names, NEW new \in Names,
             \/ DropTable(n) \/ RenameTable(n, new)
             \/ CreateView(n) \/ DropView(n)
      PROVE  /\ DdlSafe'
             /\ saving = "no" /\ saving' \in {"no", "write"}
             /\ UNCHANGED <<windows, fileVars, running, acked, failures, grown>>
             /\ aliased => aliased'
             /\ pages' \in pages .. MaxPages
  <2>1. DdlSafe'
    BY <1>4, DropTableSafe, RenameTableSafe, CreateViewSafe, DropViewSafe
  <2>2. /\ saving = "no" /\ saving' = "write"
        /\ UNCHANGED <<windows, fileVars, running, acked, failures>>
        /\ UNCHANGED pageVars
    BY <1>4 DEF DropTable, RenameTable, CreateView, DropView, Changes, Idle
  <2>. QED
    BY <1>0, <2>1, <2>2 DEF pageVars
<1>. QED
  BY <1>1, <1>2, <1>3, <1>4 DEF Ddl

(* Tables that are apart stay so when pages are added to the data file. *)
LEMMA SoundKept ==
  ASSUME TypeOK, NEW dbs \in Seq(Database), Sound(dbs), aliased => aliased',
         pages' \in Nat, pages <= pages',
         grown' \subseteq grown \cup (pages + 1 .. pages')
  PROVE  LET Roots(d) == {dbs[d].tables[i].root : i \in DOMAIN dbs[d].tables}
         IN  /\ UniqueIn(dbs)
             /\ ~aliased' =>
                  /\ ApartIn(dbs)
                  /\ \A d \in DOMAIN dbs : \A r \in Roots(d) :
                       r <= pages' /\ r \notin grown'
<1>1. pages \in Nat
  BY CatalogAssumption DEF TypeOK
<1>2. UniqueIn(dbs) /\ (~aliased' => ApartIn(dbs) /\ RootsInFile(dbs))
  BY DEF Sound
<1>3. ASSUME ~aliased', NEW d \in DOMAIN dbs, NEW i \in DOMAIN dbs[d].tables
      PROVE  /\ dbs[d].tables[i].root <= pages'
             /\ dbs[d].tables[i].root \notin grown'
  <2>1. dbs[d].tables[i].root \notin grown /\ dbs[d].tables[i].root <= pages
    BY <1>2, <1>3 DEF ApartIn, RootsInFile
  <2>2. dbs[d].tables[i].root \in Nat
    <3>1. dbs[d] \in Database
      OBVIOUS
    <3>2. dbs[d].tables \in Seq(Table)
      BY <3>1 DEF Database
    <3>3. dbs[d].tables[i] \in Table
      BY <3>2
    <3>. QED
      BY <3>3 DEF Table
  <2>. QED
    BY <1>1, <2>1, <2>2
<1>. QED
  BY <1>2, <1>3

(* The same of the catalogue in the file.                                  *)
LEMMA FileKept ==
  ASSUME TypeOK, Sound(file.databases), UNCHANGED file, aliased => aliased',
         pages' \in Nat, pages <= pages',
         grown' \subseteq grown \cup (pages + 1 .. pages')
  PROVE  Sound(file.databases)'
<1>. DEFINE dbs == file.databases
<1>1. dbs \in Seq(Database) /\ dbs' = dbs
  BY DEF TypeOK, AnyContents
<1>2. /\ UniqueIn(dbs)
      /\ ~aliased' =>
           /\ ApartIn(dbs)
           /\ \A d \in DOMAIN dbs : \A i \in DOMAIN dbs[d].tables :
                /\ dbs[d].tables[i].root <= pages'
                /\ dbs[d].tables[i].root \notin grown'
  BY <1>1, SoundKept
<1>3. UniqueIn(dbs)'
  BY <1>1, <1>2 DEF UniqueIn, Distinct
<1>4. ASSUME ~aliased' PROVE ApartIn(dbs)' /\ RootsInFile(dbs)'
  BY <1>1, <1>2, <1>4 DEF ApartIn, RootsInFile
<1>. QED
  BY <1>3, <1>4 DEF Sound

(* The same of the catalogue in memory.                                    *)
LEMMA MemoryKept ==
  ASSUME TypeOK, Sound(databases), UNCHANGED databases, aliased => aliased',
         pages' \in Nat, pages <= pages',
         grown' \subseteq grown \cup (pages + 1 .. pages')
  PROVE  Sound(databases)'
<1>1. databases \in Seq(Database)
  BY LimitFacts
<1>2. /\ UniqueIn(databases)
      /\ ~aliased' =>
           /\ ApartIn(databases)
           /\ \A d \in DOMAIN databases : \A i \in DOMAIN databases[d].tables :
                /\ databases[d].tables[i].root <= pages'
                /\ databases[d].tables[i].root \notin grown'
  BY <1>1, SoundKept
<1>3. UniqueIn(databases)'
  BY <1>2 DEF UniqueIn, Distinct
<1>4. ASSUME ~aliased' PROVE ApartIn(databases)' /\ RootsInFile(databases)'
  BY <1>2, <1>4 DEF ApartIn, RootsInFile
<1>. QED
  BY <1>3, <1>4 DEF Sound

(* A file that is not there holds the databases of a new catalogue: none. *)
LEMMA LoadedFacts ==
  ASSUME TypeOK
  PROVE  /\ Loaded.databases = file.databases
         /\ ContentsOK(Loaded.databases, Loaded.current, Loaded.next)
         /\ Loaded.databases \in Seq(Database)
<1>1. Loaded.databases = file.databases
  BY DEF Loaded, NoFile, Created, Contents
<1>. QED
  BY <1>1 DEF TypeOK, ContentsOK

(* An empty catalogue satisfies everything.                                *)
LEMMA EmptyFacts ==
  /\ ContentsOK(<<>>, 0, 1) /\ Sound(<<>>) /\ <<>> \in Seq(Database)
<1>1. DOMAIN <<>> = {} /\ Len(<<>>) = 0 /\ <<>> \in Seq(Database)
  OBVIOUS
<1>2. ContentsOK(<<>>, 0, 1)
  BY <1>1, CatalogAssumption DEF ContentsOK
<1>3. Sound(<<>>)
  BY <1>1 DEF Sound, UniqueIn, Distinct, ApartIn, RootsInFile
<1>. QED
  BY <1>1, <1>2, <1>3

(* The invariant holds of the catalogue of a new directory.                *)
LEMMA InitInv == Init => IInv
<1>. SUFFICES ASSUME Init PROVE IInv
  OBVIOUS
<1>1. /\ file.databases = <<>> /\ file.current = 0 /\ Loaded.databases = <<>>
      /\ Loaded.current = 0 /\ Loaded.next = 1
  BY DEF Init, NoFile, Contents, Loaded, Created
<1>2. NoFile \in AnyContents
  BY EmptyFacts DEF NoFile, Contents, AnyContents
<1>3. TypeOK
  <2>1. pages \in 0 .. MaxPages /\ failures \in 0 .. MaxFailures
        /\ grown \subseteq 1 .. pages
    BY CatalogAssumption DEF Init
  <2>. QED
    BY <1>1, <1>2, <2>1, EmptyFacts DEF Init, TypeOK
<1>4. SavingInv
  BY <1>1 DEF Init, SavingInv, SchemaDurable
<1>. QED
  BY <1>1, <1>3, <1>4, EmptyFacts DEF Init, IInv

(* Every step keeps the invariant.                                         *)
LEMMA NextInv == IInv /\ [Next]_vars => IInv'
<1>. SUFFICES ASSUME IInv, [Next]_vars PROVE IInv'
  OBVIOUS
<1>. USE DEF IInv
<1>0. pages \in 0 .. MaxPages /\ MaxPages \in Nat /\ MaxFailures \in Nat
      /\ failures \in 0 .. MaxFailures /\ grown \subseteq 1 .. pages
  BY CatalogAssumption DEF TypeOK
<1>1. CASE Ddl
  <2>1. /\ DdlSafe'
        /\ saving = "no" /\ saving' \in {"no", "write"}
        /\ UNCHANGED <<windows, fileVars, running, acked, failures, grown>>
        /\ aliased => aliased'
        /\ pages' \in pages .. MaxPages
    BY <1>1, DdlKeeps
  <2>2. UNCHANGED <<file, tmp>> /\ Loaded' = Loaded
    BY <2>1 DEF fileVars, Loaded
  <2>3. aliased' \in BOOLEAN
    BY <1>1 DEF Ddl, CreateDb, DropDb, Use, CreateTable, DropTable, CreateView,
                DropView, RenameTable, pageVars, TypeOK
  <2>4. TypeOK'
    <3>1. pages' \in 0 .. MaxPages /\ grown' \subseteq 1 .. pages'
      BY <1>0, <2>1
    <3>. QED
      BY <2>1, <2>2, <2>3, <3>1 DEF TypeOK, DdlSafe
  <2>5. SavingInv'
    BY <2>1, <2>2 DEF SavingInv, SchemaDurable
  <2>6. Sound(file.databases)'
    BY <1>0, <2>1, <2>2, FileKept
  <2>. QED
    BY <2>1, <2>4, <2>5, <2>6 DEF DdlSafe
<1>2. CASE GrowTable
  <2>1. /\ pages < MaxPages /\ pages' = pages + 1 /\ grown' = grown \cup {pages + 1}
        /\ saving = "no"
        /\ UNCHANGED <<windows, databases, current_db, next_page_id, file, tmp,
                       running, saving, acked, aliased, failures>>
    BY <1>2 DEF GrowTable, InDb, Idle, catalogVars, fileVars
  <2>2. /\ pages' \in 0 .. MaxPages /\ grown' \subseteq 1 .. pages'
        /\ pages' \in Nat /\ pages <= pages'
        /\ grown' \subseteq grown \cup (pages + 1 .. pages')
    BY <1>0, <2>1
  <2>3. Loaded' = Loaded
    BY <2>1 DEF Loaded
  <2>4. TypeOK'
    BY <2>1, <2>2, <2>3 DEF TypeOK, ContentsOK
  <2>5. SavingInv'
    BY <2>1, <2>3 DEF SavingInv, SchemaDurable
  <2>6. Sound(databases)' /\ Sound(file.databases)'
    BY <2>1, <2>2, FileKept, MemoryKept
  <2>. QED
    BY <2>4, <2>5, <2>6
<1>3. CASE \/ Shutdown \/ SaveWrite \/ SaveRemove \/ SaveRename \/ SaveFails
           \/ UNCHANGED vars
  <2>1. UNCHANGED <<windows, databases, current_db, next_page_id, pages, grown,
                    aliased>>
    BY <1>3 DEF Shutdown, SaveWrite, SaveRemove, SaveRename, SaveFails, Saving,
                catalogVars, pageVars, vars
  <2>2. Sound(databases)' /\ (UNCHANGED file => Sound(file.databases)')
    BY <1>0, <2>1, FileKept, MemoryKept
  <2>3. ContentsOK(databases, current_db, next_page_id)'
    BY <2>1 DEF TypeOK, ContentsOK
  <2>4. Contents(databases, current_db, next_page_id) \in AnyContents
    BY LimitFacts DEF Contents, AnyContents
  <2>5. NoFile \in AnyContents
    BY EmptyFacts DEF NoFile, Contents, AnyContents
  <2>6. CASE Shutdown
    <3>1. /\ saving = "no" /\ saving' = "write" /\ running' = FALSE
          /\ UNCHANGED <<file, tmp, acked, failures>>
      BY <2>6 DEF Shutdown, Idle, fileVars
    <3>2. Loaded' = Loaded
      BY <3>1 DEF Loaded
    <3>. QED
      BY <2>1, <2>2, <2>3, <3>1, <3>2 DEF TypeOK, SavingInv, SchemaDurable
  <2>7. CASE SaveWrite
    <3>1. /\ saving' = IF windows THEN "remove" ELSE "rename"
          /\ tmp' = Contents(databases, current_db, next_page_id)
          /\ UNCHANGED <<file, acked, failures, running>>
      BY <2>7 DEF SaveWrite, Saving
    <3>2. Loaded' = Loaded
      BY <3>1 DEF Loaded
    <3>3. TypeOK'
      BY <2>1, <2>3, <2>4, <3>1, <3>2 DEF TypeOK
    <3>4. SavingInv'
      BY <2>1, <3>1, <3>2 DEF SavingInv, SchemaDurable, Contents
    <3>. QED
      BY <2>2, <3>1, <3>3, <3>4
  <2>8. CASE SaveRemove
    <3>1. /\ windows /\ saving = "remove" /\ saving' = "rename"
          /\ file' = NoFile
          /\ UNCHANGED <<tmp, acked, failures, running>>
      BY <2>8 DEF SaveRemove, Saving, SavingInv
    <3>2. /\ Loaded'.databases = <<>> /\ Loaded'.current = 0
          /\ Loaded'.next = 1 /\ file'.databases = <<>>
      BY <3>1 DEF Loaded, Created, NoFile, Contents
    <3>3. TypeOK'
      BY <2>1, <2>3, <2>5, <3>1, <3>2, EmptyFacts DEF TypeOK, ContentsOK
    <3>4. SavingInv'
      BY <2>1, <3>1 DEF SavingInv, SchemaDurable, Contents
    <3>5. Sound(file.databases)'
      BY <3>2 DEF Sound, UniqueIn, Distinct, ApartIn, RootsInFile
    <3>. QED
      BY <2>2, <3>3, <3>4, <3>5
  <2>9. CASE SaveRename
    <3>1. /\ saving = "rename" /\ saving' = "no" /\ acked' = databases
          /\ file' = Contents(databases, current_db, next_page_id)
          /\ tmp' = NoFile
          /\ UNCHANGED <<failures, running>>
      BY <2>9 DEF SaveRename, Saving, SavingInv
    <3>2. next_page_id # 0
      BY LimitFacts
    <3>3. /\ Loaded' = Contents(databases, current_db, next_page_id)
          /\ file'.databases = databases
      BY <3>1, <3>2 DEF Loaded, NoFile, Contents
    <3>4. TypeOK'
      BY <2>1, <2>3, <2>4, <2>5, <3>1, <3>3, LimitFacts
      DEF TypeOK, ContentsOK, Contents
    <3>5. SavingInv'
      BY <2>1, <3>1, <3>3 DEF SavingInv, SchemaDurable, Contents
    <3>6. Sound(file.databases)'
      BY <2>1, <2>2, <3>3 DEF Sound, UniqueIn, Distinct, ApartIn, RootsInFile
    <3>. QED
      BY <2>2, <3>4, <3>5, <3>6
  <2>10. CASE SaveFails
    <3>1. /\ saving' = "no" /\ tmp' = NoFile /\ failures' \in 0 .. MaxFailures
          /\ UNCHANGED <<file, acked, running>>
      BY <1>0, <2>10 DEF SaveFails, Saving
    <3>2. Loaded' = Loaded
      BY <3>1 DEF Loaded
    <3>3. TypeOK'
      BY <2>1, <2>3, <2>5, <3>1, <3>2 DEF TypeOK
    <3>4. SavingInv'
      BY <2>1, <3>1, <3>2 DEF SavingInv, SchemaDurable
    <3>. QED
      BY <2>2, <3>1, <3>3, <3>4
  <2>11. CASE UNCHANGED vars
    <3>1. UNCHANGED <<file, tmp, running, saving, acked, failures>>
      BY <2>11 DEF vars
    <3>2. Loaded' = Loaded
      BY <3>1 DEF Loaded
    <3>3. TypeOK'
      BY <2>1, <2>3, <3>1, <3>2 DEF TypeOK
    <3>4. SavingInv'
      BY <2>1, <3>1, <3>2 DEF SavingInv, SchemaDurable, Contents
    <3>. QED
      BY <2>2, <3>1, <3>3, <3>4
  <2>. QED
    BY <1>3, <2>6, <2>7, <2>8, <2>9, <2>10, <2>11
<1>4. CASE Restart
  <2>1. /\ databases' = file.databases /\ current_db' = Loaded.current
        /\ next_page_id' = Loaded.next /\ acked' = Loaded.databases
        /\ running' = TRUE /\ saving' = "no"
        /\ UNCHANGED <<windows, file, tmp, pages, grown, aliased, failures>>
    BY <1>4, LoadedFacts DEF Restart, fileVars, pageVars
  <2>2. Loaded' = Loaded
    BY <2>1 DEF Loaded
  <2>3. TypeOK'
    BY <2>1, <2>2, LoadedFacts DEF TypeOK
  <2>4. SavingInv'
    BY <2>1, <2>2 DEF SavingInv, SchemaDurable
  <2>5. Sound(file.databases)'
    BY <1>0, <2>1, FileKept
  <2>6. Sound(databases)'
    BY <2>1, <2>5 DEF Sound, UniqueIn, Distinct, ApartIn, RootsInFile
  <2>. QED
    BY <2>3, <2>4, <2>5, <2>6
<1>. QED
  BY <1>1, <1>2, <1>3, <1>4 DEF Next
-----------------------------------------------------------------------------
(* The inductive invariant, of which the others are parts. *)
THEOREM CatalogInvariant == Spec => []IInv
BY InitInv, NextInv, PTL DEF Spec

(* The arrays of the catalogue keep their limits and the current database   *)
(* is one of them, in memory and in the file the next start will load.      *)
THEOREM CatalogTypeCorrect == Spec => []TypeOK
BY CatalogInvariant, PTL DEF IInv

(* A name denotes one object, whatever sequence of DDL, failed saves and    *)
(* restarts came before.                                                    *)
THEOREM NamesUniqueSafe == Spec => []NamesUnique
<1>1. IInv => NamesUnique
  BY DEF IInv, Sound, NamesUnique
<1>. QED
  BY <1>1, CatalogInvariant, PTL

(* Where rename replaces a file, no crash and no error in catalog_save      *)
(* loses a schema saved before.                                             *)
THEOREM SchemaDurableSafe == Spec => []SchemaDurable
<1>1. IInv => SchemaDurable
  BY DEF IInv, SavingInv
<1>. QED
  BY <1>1, CatalogInvariant, PTL

(* No table starts at a page of another, also after a restart with an older *)
(* catalogue, as long as every CREATE TABLE found a page.                   *)
THEOREM TablesApartSafe == Spec => []TablesApart
<1>1. IInv => TablesApart
  BY DEF IInv, Sound, TablesApart
<1>. QED
  BY <1>1, CatalogInvariant, PTL

(* Same position, same name, same current database.                        *)
LEMMA CurrentNameKept ==
  ASSUME current_db # 0, UNCHANGED current_db,
         databases'[current_db].name = databases[current_db].name
  PROVE  CurrentName' = CurrentName
BY DEF CurrentName

(* A session stays in its database, though DROP DATABASE shifts the array   *)
(* its position points into.                                                *)
THEOREM CurrentKeptAlways == Spec => CurrentKept
<1>. DEFINE A == \/ CurrentName' = CurrentName
                 \/ current_db = 0
                 \/ ~Has(databases', CurrentName) /\ current_db' = 0
                 \/ databases' = databases /\ \E n \in DbNames : Use(n)
                 \/ Restart
<1>1. ASSUME IInv, Next, current_db # 0, ~Restart,
             ~\E n \in DbNames : Use(n)
      PROVE  \/ CurrentName' = CurrentName
             \/ ~Has(databases', CurrentName) /\ current_db' = 0
  <2>0. /\ TypeOK /\ Distinct(databases) /\ current_db \in DOMAIN databases
        /\ databases \in Seq(Database)
    BY <1>1, CurrentFacts, LimitFacts DEF IInv, Sound, UniqueIn
  <2>1. CASE UNCHANGED <<databases, current_db>>
    BY <2>1 DEF CurrentName
  <2>2. ASSUME NEW n \in DbNames, CreateDb(n)
        PROVE  CurrentName' = CurrentName
    <3>. DEFINE e == [name |-> n, tables |-> <<>>, views |-> <<>>]
    <3>1. databases' = Append(databases, e) /\ current_db' = current_db
      BY <1>1, <2>2 DEF CreateDb, Changes
    <3>. HIDE DEF e
    <3>2. databases'[current_db] = databases[current_db]
      BY <2>0, <3>1
    <3>. QED
      BY <1>1, <3>1, <3>2, CurrentNameKept
  <2>3. ASSUME NEW n \in DbNames, DropDb(n)
        PROVE  \/ CurrentName' = CurrentName
               \/ ~Has(databases', CurrentName) /\ current_db' = 0
    <3>. DEFINE p == Position(databases, n)
                f(d) == IF d < p THEN d ELSE d + 1
    <3>1. /\ p \in DOMAIN databases /\ databases' = RemoveAt(databases, p)
          /\ current_db' = CurrentAfterDrop(p)
      BY <2>0, <2>3, PositionFacts DEF DropDb, Changes, Has
    <3>. HIDE DEF p
    <3>2. /\ databases' \in Seq(Database)
          /\ Len(databases') = Len(databases) - 1
          /\ \A d \in DOMAIN databases' : /\ f(d) \in DOMAIN databases
                                          /\ databases'[d] = databases[f(d)]
      BY <2>0, <3>1, RemoveAtFacts
    <3>3. CASE current_db = p
      <4>1. current_db' = 0 /\ CurrentName = databases[p].name
        <5>1. current_db' = 0
          BY <2>0, <3>1, <3>3 DEF CurrentAfterDrop
        <5>2. CurrentName = databases[current_db].name
          BY <1>1 DEF CurrentName
        <5>. QED
          BY <3>3, <5>1, <5>2
      <4>2. \A d \in DOMAIN databases' : f(d) # p
        BY <2>0, <3>1, <3>2
      <4>. HIDE DEF f
      <4>3. \A d \in DOMAIN databases' : databases'[d].name # CurrentName
        BY <2>0, <3>1, <3>2, <4>1, <4>2 DEF Distinct
      <4>4. ~Has(databases', CurrentName)
        BY <3>2, <4>3, PositionFacts
      <4>. QED
        BY <4>1, <4>4
    <3>4. CASE current_db # p
      <4>1. /\ current_db' \in DOMAIN databases' /\ current_db' # 0
            /\ f(current_db') = current_db
        <5>1. current_db \in 1 .. Len(databases) /\ p \in 1 .. Len(databases)
              /\ Len(databases) \in Nat
              /\ DOMAIN databases' = 1 .. Len(databases) - 1
          BY <2>0, <3>1, <3>2
        <5>2. current_db' = IF current_db > p THEN current_db - 1 ELSE current_db
          BY <3>1, <3>4, <5>1 DEF CurrentAfterDrop
        <5>3. CASE current_db > p
          BY <5>1, <5>2, <5>3
        <5>4. CASE current_db < p
          BY <5>1, <5>2, <5>4
        <5>. QED
          BY <3>4, <5>1, <5>3, <5>4
      <4>. HIDE DEF f
      <4>2. databases'[current_db'] = databases[current_db]
        BY <3>2, <4>1
      <4>. QED
        BY <1>1, <4>1, <4>2 DEF CurrentName
    <3>. QED
      BY <3>3, <3>4
  <2>4. ASSUME NEW n \in Names, NEW new \in Names,
               \/ CreateTable(n) \/ DropTable(n) \/ RenameTable(n, new)
               \/ CreateView(n) \/ DropView(n)
        PROVE  CurrentName' = CurrentName
    <3>1. databases[current_db] \in Database
      BY <2>0
    <3>2. ASSUME NEW ts, databases' = WithTables(ts)
          PROVE  databases'[current_db].name = databases[current_db].name
      BY <2>0, <3>1, <3>2 DEF WithTables, Database
    <3>3. ASSUME NEW vs, databases' = WithViews(vs)
          PROVE  databases'[current_db].name = databases[current_db].name
      BY <2>0, <3>1, <3>3 DEF WithViews, Database
    <3>4. CASE CreateTable(n)
      BY <1>1, <3>2, <3>4, CurrentNameKept DEF CreateTable, Changes
    <3>5. CASE DropTable(n)
      BY <1>1, <3>2, <3>5, CurrentNameKept DEF DropTable, Changes
    <3>6. CASE RenameTable(n, new)
      <4>1. databases' = WithTables(
              [Db.tables EXCEPT ![Position(Db.tables, n)].name = new])
        BY <3>6 DEF RenameTable, Changes, WithTables, Db
      <4>. QED
        BY <1>1, <3>2, <3>6, <4>1, CurrentNameKept DEF RenameTable
    <3>7. CASE CreateView(n)
      BY <1>1, <3>3, <3>7, CurrentNameKept DEF CreateView, Changes
    <3>8. CASE DropView(n)
      BY <1>1, <3>3, <3>8, CurrentNameKept DEF DropView, Changes
    <3>. QED
      BY <2>4, <3>4, <3>5, <3>6, <3>7, <3>8
  <2>5. CASE GrowTable \/ Shutdown \/ SaveWrite \/ SaveRemove \/ SaveRename
             \/ SaveFails
    BY <2>1, <2>5 DEF GrowTable, Shutdown, SaveWrite, SaveRemove, SaveRename,
                      SaveFails, Saving, catalogVars
  <2>. QED
    BY <1>1, <2>2, <2>3, <2>4, <2>5 DEF Next, Ddl
<1>. QED
  <2>0. ASSUME NEW n \in DbNames, Use(n) PROVE databases' = databases
    BY <2>0 DEF Use
  <2>1. IInv /\ [Next]_vars => [A]_vars
    <3>. SUFFICES ASSUME IInv, Next PROVE A
      OBVIOUS
    <3>1. CASE current_db = 0 \/ Restart \/ \E n \in DbNames : Use(n)
      BY <2>0, <3>1
    <3>2. CASE current_db # 0 /\ ~Restart /\ ~\E n \in DbNames : Use(n)
      BY <1>1, <3>2
    <3>. QED
      BY <3>1, <3>2
  <2>. QED
    BY <2>1, CatalogInvariant, PTL DEF Spec, CurrentKept
=============================================================================
