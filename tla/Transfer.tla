------------------------------ MODULE Transfer ------------------------------
(***************************************************************************)
(* Rows on their way out of the program and back: the dump of a database   *)
(* (dump_database of window.c, db_get_create_statement of db_api.c), the   *)
(* export of a result (result_export.c), the import of a CSV file          *)
(* (csv_import.c) and the run of a script (run_text and run_worker of      *)
(* window.c).  The files are texts; accents and the mark at the start of a *)
(* UTF-8 file are left out.                                                *)
(***************************************************************************)
EXTENDS Script, Parser, Insert
LOCAL INSTANCE SequencesExt
LOCAL INSTANCE FiniteSetsExt

CONSTANTS
  FieldMax,      \* CSV_MAX_FIELD
  VarcharSizes   \* the sizes of VARCHAR that an import chooses from, in order

Lines(texts) == FlattenSeq(texts)
Listed(texts) == FlattenSeq([k \in DOMAIN texts |-> IF k = 1 THEN texts[k] ELSE <<",", " ">> \o texts[k]])

(* -------------------------------- literals ------------------------------- *)

NumberTypes == {"INT", "BIGINT", "FLOAT", "DECIMAL"}
is_num_cell(c) ==
  c.type \in NumberTypes /\ c.text # <<>> /\ text_is_number(c.text)

Doubled(text, marks) ==
  FlattenSeq([k \in DOMAIN text |-> IF text[k] \in marks THEN <<text[k], text[k]>> ELSE <<text[k]>>])
Apostrophed(text) == <<"'">> \o text \o <<"'">>   \* as it is: a quote mark ends the text
Quoted(text) == <<"'">> \o Doubled(text, {"'"}) \o <<"'">>
export_sql_literal(c) == IF c.null THEN <<"NULL">> ELSE IF is_num_cell(c) THEN c.text ELSE Quoted(c.text)
sql_quote(text) == <<"'">> \o Doubled(text, {"'", "\\"}) \o <<"'">>

(* ---------------------------------- dump --------------------------------- *)

ColumnText(c) ==
  LET type == IF c.type = "VARCHAR" /\ c.size > 0 THEN <<c.type, "(">> \o Natural(c.size) \o <<")">> ELSE <<c.type>>
      mark(is, words) == IF is THEN words ELSE <<>>
      default == IF c.default = <<>> THEN <<>>
                 ELSE <<" ", "DEFAULT", " ">> \o (IF c.type \in NumberTypes THEN c.default ELSE Apostrophed(c.default))
  IN <<"\n", " ", c.name, " ">> \o type \o mark(c.pk, <<" ", "PRIMARY", " ", "KEY">>)
       \o mark(c.auto, <<" ", "AUTO_INCREMENT">>) \o mark(~c.nullable /\ ~c.pk, <<" ", "NOT", " ", "NULL">>) \o default
db_get_create_statement(name, cols) ==
  <<"CREATE", " ", "TABLE", " ", name, " ", "(">> \o Listed([i \in DOMAIN cols |-> ColumnText(cols[i])]) \o <<"\n", ")", ";">>

InsertText(head, cells) ==
  head \o <<"VALUES", " ", "(">> \o Listed([c \in DOMAIN cells |-> export_sql_literal(cells[c])]) \o <<")", ";", "\n">>
AllOf(t) == [from |-> <<[table |-> t, alias |-> "", join |-> "FROM", on |-> None]>>,
             cols |-> <<[e |-> [type |-> "star", qual |-> ""], alias |-> ""]>>,
             where |-> None, group |-> <<>>, having |-> None, distinct |-> FALSE, order |-> <<>>, limit |-> -1, offset |-> 0]
\* the structure of every table, and its rows as a query of them answers
dump_database(db, name) ==
  LET tables == SetToSeq(DOMAIN db.tables)
      table(t) ==
        LET r == run_select(db, AllOf(t), 0)
            rows == IF r.ok THEN r.rows ELSE <<>>
        IN db_get_create_statement(t, db.tables[t].cols) \o <<"\n">>
             \o Lines([k \in DOMAIN rows |-> InsertText(<<"INSERT", " ", "INTO", " ", t, " ">>, rows[k])]) \o <<"\n">>
  IN <<"-", "-", " ", name, "\n", "CREATE", " ", "DATABASE", " ", name, ";", "\n", "USE", " ", name, ";", "\n", "\n">>
       \o Lines([k \in DOMAIN tables |-> table(tables[k])])

(* --------------------------------- export -------------------------------- *)

\* a result is [names, rows], the names being texts
\* EXPORT_SQL
ExportSql(r, table) ==
  LET head == <<"INSERT", " ", "INTO", " ", table, " ", "(">> \o Listed(r.names) \o <<")", " ">>
  IN Lines([k \in DOMAIN r.rows |-> InsertText(head, r.rows[k])])

csv_field(text, delim) ==
  IF ToSet(text) \cap {delim, "\"", "\n", "\r"} # {} \/ (text # <<>> /\ " " \in {text[1], Last(text)})
  THEN <<"\"">> \o Doubled(text, {"\""}) \o <<"\"">> ELSE text
CsvLine(fields, delim) ==
  FlattenSeq([k \in DOMAIN fields |-> IF k = 1 THEN fields[k] ELSE <<delim>> \o fields[k]]) \o <<"\r", "\n">>
\* EXPORT_CSV with a header; null_text: how NULL is written
ExportCsv(r, delim, null_text) ==
  LET field(c) == IF c.null THEN null_text ELSE csv_field(c.text, delim)
  IN CsvLine([c \in DOMAIN r.names |-> csv_field(r.names[c], delim)], delim)
       \o Lines([k \in DOMAIN r.rows |-> CsvLine([c \in DOMAIN r.rows[k] |-> field(r.rows[k][c])], delim)])

(* --------------------------------- import -------------------------------- *)

\* the field that is read from i on: quote marks count at its start only
RECURSIVE Field(_, _, _, _)
Field(s, i, delim, f) ==
  LET more(n, text) == Field(s, i + n, delim, [f EXCEPT !.text = @ \o text])
  IN IF i > Len(s) THEN [f EXCEPT !.end = i]
     ELSE IF f.open
     THEN IF s[i] # "\"" THEN more(1, <<s[i]>>)
          ELSE IF at(s, i + 1) = "\"" THEN more(2, <<"\"">>)
          ELSE Field(s, i + 1, delim, [f EXCEPT !.open = FALSE])
     ELSE IF s[i] = "\"" /\ f.text = <<>> /\ ~f.quoted THEN Field(s, i + 1, delim, [f EXCEPT !.open = TRUE, !.quoted = TRUE])
     ELSE IF s[i] \in {delim, "\n", "\r"} THEN [f EXCEPT !.end = i]
     ELSE more(1, <<s[i]>>)
RECURSIVE read_record(_, _, _, _)
read_record(s, i, delim, fields) ==
  LET f == Field(s, i, delim, [text |-> <<>>, quoted |-> FALSE, open |-> FALSE, end |-> 0])
      all == Append(fields, [text |-> f.text, quoted |-> f.quoted])
      cr == IF at(s, f.end) = "\r" THEN f.end + 1 ELSE f.end
  IN IF at(s, f.end) = delim THEN read_record(s, f.end + 1, delim, all)
     ELSE [fields |-> all, end |-> IF at(s, cr) = "\n" THEN cr + 1 ELSE cr]
blank_record(fields) == fields = <<[text |-> <<>>, quoted |-> FALSE]>>
RECURSIVE Records(_, _, _)
Records(s, i, delim) ==   \* blank ones are skipped
  LET r == read_record(s, i, delim, <<>>)
  IN IF i > Len(s) THEN <<>>
     ELSE (IF blank_record(r.fields) THEN <<>> ELSE <<r.fields>>) \o Records(s, r.end, delim)

\* the most frequent separator of the first line outside quote marks
detect_delimiter(s) ==
  LET quoted(j) == Cardinality({k \in 1..(j - 1) : s[k] = "\""}) % 2 = 1
      end == Min({j \in 1..(Len(s) + 1) : j > Len(s) \/ (s[j] \in {"\n", "\r"} /\ ~quoted(j))})
      count(c) == Cardinality({j \in 1..(end - 1) : s[j] = c /\ ~quoted(j)})
      most == Max({count(","), count(";"), count("\t")})
  IN IF count(",") = most THEN "," ELSE IF count(";") = most THEN ";" ELSE "\t"

\* 0: nothing but NULL, 1: INT, 2: BIGINT, 3: FLOAT, 4: text; leading zeros
\* (post codes, telephone numbers) stay text
value_type(v) ==
  LET s == IF v[1] \in {"-", "+"} THEN Tail(v) ELSE v
      n == NumberToken(s, 1)
  IN IF at(s, 1) \notin Digits \/ n.end # Len(s) + 1 THEN 4
     ELSE IF n.type = "float" THEN 3
     ELSE IF (s[1] = "0" /\ Len(s) > 1) \/ NumberOf(s) > BigMax THEN 4
     ELSE IF NumberOf(s) <= IntMax THEN 1 ELSE 2
NewerType(a, b) == IF b = 0 THEN a ELSE b   \* a slip: the last value decides
merge(a, b) == Max({a, b})

sanitize_name(text, index) ==
  LET good(k) == text[k] \in (Letters \cup Digits) \ {"_"}
      put(k) == IF good(k) THEN <<text[k]>>
                ELSE IF k > 1 /\ good(k - 1) /\ \E l \in DOMAIN text : l > k /\ good(l) THEN <<"_">> ELSE <<>>
      out == FlattenSeq([k \in DOMAIN text |-> put(k)])
  IN IF out = <<>> THEN <<"col">> \o Natural(index)
     ELSE IF out[1] \in Digits THEN <<"c", "_">> \o out ELSE out
RECURSIVE Unlike(_, _, _)
Unlike(name, names, index) ==   \* a name that repeats one gets the place of its column
  IF name \in ToSet(names) THEN Unlike(name \o <<"_">> \o Natural(index), names, index) ELSE name
ColumnNames(fields) ==
  FoldLeft(LAMBDA names, f : Append(names, Unlike(sanitize_name(f.text, Len(names) + 1), names, Len(names) + 1)), <<>>, fields)

TypeText(type, longest) ==
  LET fit == {k \in DOMAIN VarcharSizes : longest <= VarcharSizes[k]}
  IN CASE type = 1 -> <<"INT">> [] type = 2 -> <<"BIGINT">> [] type = 3 -> <<"FLOAT">>
       [] OTHER -> IF fit = {} THEN <<"TEXT">> ELSE <<"VARCHAR", "(">> \o Natural(VarcharSizes[Min(fit)]) \o <<")">>

\* a script that creates the table, if asked for, and fills it
csv_to_sql(csv, table, create_table, delim) ==
  LET records == Records(csv, 1, delim)
      header == records[1]
      rows == Tail(records)
      names == ColumnNames(header)
      empty(f) == f.text = <<>> /\ ~f.quoted
      type(c) == FoldLeft(LAMBDA t, r : IF empty(r[c]) THEN t ELSE merge(t, IF r[c].quoted THEN 4 ELSE value_type(r[c].text)),
                          0, rows)
      types == [c \in DOMAIN header |-> type(c)]
      longest(c) == Max({0} \cup {Len(rows[k][c].text) : k \in DOMAIN rows})
      create == <<"CREATE", " ", "TABLE", " ", table, " ", "(">>
                  \o FlattenSeq([c \in DOMAIN header |-> (IF c = 1 THEN <<>> ELSE <<",">>) \o <<"\n", " ">> \o names[c]
                                                             \o <<" ">> \o TypeText(types[c], longest(c))]) \o <<"\n", ")", ";", "\n">>
      value(f, c) == IF empty(f) THEN <<"NULL">>
                     ELSE IF types[c] \in 1..3 THEN IF f.text[1] = "+" THEN Tail(f.text) ELSE f.text
                     ELSE sql_quote(f.text)
      insert(row) == <<"INSERT", " ", "INTO", " ", table, " ", "(">> \o Listed(names) \o <<")", " ", "VALUES", " ", "(">>
                       \o Listed([c \in DOMAIN row |-> value(row[c], c)]) \o <<")", ";", "\n">>
  IN IF \/ records = <<>> \/ Len(header) > MaxList.columns
        \/ \E k \in DOMAIN rows : Len(rows[k]) # Len(header)
        \/ \E k \in DOMAIN rows : \E c \in DOMAIN rows[k] : Len(rows[k][c].text) > FieldMax
     THEN [ok |-> FALSE, sql |-> <<>>]
     ELSE [ok |-> TRUE, sql |-> (IF create_table THEN create ELSE <<>>) \o Lines([k \in DOMAIN rows |-> insert(rows[k])])]

(* ------------------------------ run a script ----------------------------- *)

\* the names of types, here the first of those that mean the same
known_type(text) == text \in {<<"BOOLEAN">>, <<"DATE">>} \/ text \in {<<x>> : x \in NumberTypes \cup {"VARCHAR", "TEXT", "BOOL"}}
parse_type(text) == CASE text = <<"TEXT">> -> "TEXT" [] text = <<"BOOLEAN">> -> "BOOL" [] OTHER -> NameOf(text)
exec_create_table(db, st) ==
  LET col(c) == [name |-> NameOf(c.name), type |-> parse_type(c.type), indexed |-> c.primary_key, size |-> c.size,
                 nullable |-> c.nullable, pk |-> c.primary_key, auto |-> c.auto_increment, default |-> c.default_val]
      cols == [i \in DOMAIN st.columns |-> col(st.columns[i])]
      name == NameOf(st.table)
  IN IF cols = <<>> \/ (\E i \in DOMAIN st.columns : ~known_type(st.columns[i].type)) \/ Cardinality({i \in DOMAIN cols : cols[i].pk}) > 1 \/ name \in DOMAIN db.tables \cup DOMAIN db.views
        \/ \E i, j \in DOMAIN cols : i # j /\ cols[i].name = cols[j].name
     THEN [ok |-> FALSE, db |-> db]
     ELSE [ok |-> TRUE, db |-> [db EXCEPT !.tables = [t \in DOMAIN @ \cup {name} |->
                                   IF t = name THEN [cols |-> cols, rows |-> <<>>] ELSE @[t]]]]
\* the first statement of the text and no other; databases are not told apart
db_execute(db, text) ==
  LET p == parser_parse(lexer_tokenize(text))
      st == p.statements[1]
      r == exec_insert(db, st.q)
  IN IF ~p.ok \/ p.statements = <<>> THEN [ok |-> p.ok, db |-> db]
     ELSE CASE st.kind = "CREATE TABLE" -> exec_create_table(db, st)
            [] st.kind = "INSERT" -> [ok |-> r.ok, db |-> IF r.ok THEN [db EXCEPT !.tables[st.q.into].rows = @ \o r.rows] ELSE db]
            [] OTHER -> [ok |-> st.kind \in {"CREATE DATABASE", "USE"}, db |-> db]
StatementText(s, r) == SubSeq(s, r.code_start + 1, r.end_semi)
\* the statements one after the other up to the first that fails
run_script(db, s) ==
  FoldLeft(LAMBDA state, r : IF ~r.has_code \/ ~state.ok THEN state ELSE db_execute(state.db, StatementText(s, r)),
           [ok |-> TRUE, db |-> db], sql_split(s))
=============================================================================
