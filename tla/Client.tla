------------------------------- MODULE Client -------------------------------
(***************************************************************************)
(* The program as its user sees it: a query or an INSERT is answered       *)
(* (Query), a script is split into statements and laid out (Script), the   *)
(* rows of a table are saved and loaded again (Transfer).  What was        *)
(* written must be what is read (Parser).  The properties speak of each    *)
(* step in which the user hands something over.                            *)
(***************************************************************************)
EXTENDS Query, Transfer
LOCAL INSTANCE SequencesExt
LOCAL INSTANCE FiniteSetsExt

CONSTANTS
  Scripts,    \* records [script], the texts of the editor
  Tables      \* records [cols, rows], the tables whose rows are saved

Init == asked = Nothing
WriteScript == asked = Nothing /\ asked' \in Scripts
SaveTable == asked = Nothing /\ asked' \in Tables
Next == AskSelect \/ AskInsert \/ WriteScript \/ SaveTable
Spec == Init /\ [][Next]_asked

IsScript(x) == "script" \in DOMAIN x
IsTable(x) == "rows" \in DOMAIN x

(* -------------------------- save and load a table ------------------------- *)

Empty == [tables |-> <<>>, views |-> <<>>]
DbOf(x) == [tables |-> [t |-> x], views |-> <<>>]
Emptied(x) == [DbOf(x) EXCEPT !.tables["t"].rows = <<>>]
Grid(x) == [names |-> [c \in DOMAIN x.cols |-> <<x.cols[c].name>>], rows |-> run_select(DbOf(x), AllOf("t"), 0).rows]
Dumped(x) == run_script(Empty, dump_database(DbOf(x), "x"))
SqlLoaded(x) == run_script(Emptied(x), ExportSql(Grid(x), "t"))
\* import_csv: into a new table or into the one that is there, the delimiter
\* being detected
CsvLoaded(x, delim, create) ==
  LET text == ExportCsv(Grid(x), delim, <<>>)
      script == csv_to_sql(text, "t", create, detect_delimiter(text))
  IN IF script.ok THEN run_script(IF create THEN Empty ELSE Emptied(x), script.sql) ELSE [ok |-> FALSE, db |-> Emptied(x)]

(* ------------------------------- properties ------------------------------ *)

Code(s) == Front(lexer_tokenize(s))      \* without the token of the end
Semicolon == [type |-> ";", text |-> <<";">>]
Mixed(s) == {"grave", "\\"} \subseteq ToSet(s)   \* in `...` only the window takes \ for an escape

Splits(x) ==
  LET s == x.script
      r == sql_split(s)
      tokens(k) == Code(SubSeq(s, r[k].code_start + 1, r[k].end))
  IN /\ FlattenSeq([k \in DOMAIN r |-> tokens(k) \o (IF r[k].end_semi > r[k].end THEN <<Semicolon>> ELSE <<>>)]) = Code(s)
     /\ \A k \in DOMAIN r : r[k].has_code <=> tokens(k) # <<>>
     /\ \A k \in DOMAIN r : \A pos \in r[k].code_start..r[k].end :   \* after a semicolon it still means the one it ends
          r[k].has_code /\ (pos > r[k].start \/ k = 1) => sql_statement_at(s, pos) = {r[k]}
\* The window divides a script where the engine ends its statements: together
\* they have the tokens of the script, each semicolon in its place, and the
\* cursor inside a statement means that one.  sql_split, sql_statement_at,
\* skip_quoted_or_comment against lexer_tokenize.
ScriptSplits == [][IsScript(asked') /\ ~Mixed(asked'.script) => Splits(asked')]_asked

Keeps(x) ==
  LET once == sql_format(x.script)
      unsigned(t) == IF t.type \in {"int", "float"} /\ t.text[1] = "-"
                     THEN <<[type |-> "-", text |-> <<"-">>], [t EXCEPT !.text = Tail(@)]>> ELSE <<t>>
      plain(s) == LET t == Code(s) IN FlattenSeq([k \in DOMAIN t |-> unsigned(t[k])])
      doubled(s) == \E i \in 1..(Len(s) - 1) : s[i] = "\"" /\ s[i + 1] = "\""
      complete(s) == Code(s \o <<"\n", ";">>) = Append(Code(s), Semicolon)   \* it ends outside quotes and comments
  IN /\ ~Mixed(x.script) /\ ~doubled(x.script) /\ complete(x.script) => plain(once) = plain(x.script)
     /\ sql_format(once) = once
\* The layout changes no token, but for a minus that may join its number, and
\* a second one changes nothing.  sql_format against lexer_tokenize.
FormatKeepsTokens == [][IsScript(asked') => Keeps(asked')]_asked

Guarded(x) ==
  \A r \in ToSet(sql_split(x.script)) :
    LET text == SubSeq(x.script, r.code_start + 1, r.end)
        p == parser_parse(lexer_tokenize(text))
        st == p.statements[1]
        refused(updates, drops) == guard_statement(text, updates, drops)
    IN p.ok /\ Len(p.statements) = 1 =>
         /\ st.kind \in {"UPDATE", "DELETE"} => (refused(TRUE, FALSE) <=> st.where = None)
         /\ st.kind \in {"DROP TABLE", "DROP DATABASE", "DROP VIEW", "DROP INDEX", "TRUNCATE"} => refused(FALSE, TRUE)
\* With the protections of Settings on, a statement that the engine would run
\* as an UPDATE or DELETE of every row, or as a DROP or TRUNCATE, is refused
\* before; one with a condition is not.  guard_statement against parser_parse.
GuardSeesWhatRuns == [][IsScript(asked') /\ ~Mixed(asked'.script) => Guarded(asked')]_asked

Returns(x) ==
  LET cols == x.cols
      old == x.rows
      texts == {old[i][c].str : i \in DOMAIN old, c \in DOMAIN cols}
      all(to, same(_, _, _)) ==
        LET new == to.db.tables["t"].rows
        IN to.ok /\ Len(new) = Len(old) /\ \A i \in DOMAIN old : \A c \in DOMAIN cols : same(old[i][c], new[i][c], cols[c].type)
      exact(a, b, type) == a.null = b.null /\ (IF type \in NumberTypes THEN key_cmp(a, b) = 0 ELSE a.str = b.str)
      positive(s) == IF s[1] = "+" THEN Tail(s) ELSE s
      read(a, b, type) ==
        IF a.null \/ a.str = <<>> THEN b.null
        ELSE ~b.null /\ (b.str = a.str \/ (value_type(a.str) \in 1..3 /\ strtod(positive(a.str)).num = strtod(b.str).num))
      odd(s) == ToSet(s) \cap {"'", "\\", "-"} # {}
  IN /\ (\A s \in texts : "\\" \notin ToSet(s)) /\ (\A c \in DOMAIN cols : ~odd(cols[c].default)) =>
          \A to \in {Dumped(x), SqlLoaded(x)} : all(to, exact) /\ to.db.tables["t"].cols = cols
     /\ Len(cols) > 1 => \A delim \in {",", ";", "\t"}, create \in BOOLEAN : all(CsvLoaded(x, delim, create), read)
\* Rows that were saved read back the same.  A dump and an SQL export keep
\* every value (texts with a backslash and odd defaults apart); a CSV file
\* keeps texts and numbers, what looks like a number as a number, and reads an
\* empty text as NULL.  dump_database, export_result, csv_to_sql, run_text.
TransferKeepsRows == [][IsTable(asked') => Returns(asked')]_asked

(* How a statement is written down. *)
Opening(level, outer) == IF level < outer THEN <<"(">> ELSE <<>>
Closing(level, outer) == IF level < outer THEN <<")">> ELSE <<>>
Level == [op \in {"OR", "AND", "+", "-", "*", "/"} |-> CASE op = "OR" -> 1 [] op = "AND" -> 2 [] op \in {"+", "-"} -> 5 [] OTHER -> 6]
LevelOf(op) == IF op \in DOMAIN Level THEN Level[op] ELSE 4
OpText(op) == CASE op = "NOT LIKE" -> <<"NOT", " ", "LIKE">> [] op = "<>" -> <<"<", ">">> [] op = "<=" -> <<"<", "=">>
                [] op = ">=" -> <<">", "=">> [] OTHER -> <<op>>
NameText(qual, name) == (IF qual = "" THEN <<>> ELSE <<qual, ".">>) \o <<name>>
ConstText(v) ==
  IF v.null THEN <<"NULL">>
  ELSE IF ~v.is_num THEN sql_quote(v.str)
  ELSE IF v.is_int \/ "." \in ToSet(v.str) THEN v.str ELSE v.str \o <<".", "0">>
RECURSIVE Written(_, _)
Written(e, outer) ==   \* an operand of level outer at least
  LET level == LevelOf(e.op)
      args == Listed([k \in DOMAIN e.args |-> Written(e.args[k], 1)])
      within(l, text) == Opening(l, outer) \o text \o Closing(l, outer)
  IN CASE e.type = "const" -> ConstText(e.val)
       [] e.type = "column" -> NameText(e.qual, e.name)
       [] e.type = "star" -> NameText(e.qual, "*")
       [] e.type = "func" -> <<e.func, "(">> \o args \o <<")">>
       [] e.type = "agg" -> <<e.func, "(">> \o (IF e.distinct THEN <<"DISTINCT", " ">> ELSE <<>>)
                              \o (IF e.args = <<>> THEN <<"*">> ELSE args) \o <<")">>
       [] e.type = "unary" /\ e.op = "NEG" -> within(7, <<"-", " ">> \o Written(e.left, 7))
       [] e.type = "unary" /\ e.op = "NOT" -> within(3, <<"NOT", " ">> \o Written(e.left, 3))
       [] e.type = "unary" -> within(4, Written(e.left, 5) \o <<" ", "IS", " ">>
                                           \o (IF e.op = "IS NULL" THEN <<>> ELSE <<"NOT", " ">>) \o <<"NULL">>)
       [] e.type = "binary" -> within(level, Written(e.left, IF level < 5 /\ level > 2 THEN 5 ELSE IF level < 3 THEN level + 1 ELSE level)
                                               \o <<" ">> \o OpText(e.op) \o <<" ">> \o Written(e.right, IF level = 4 THEN 5 ELSE level + 1))
Clause(words, items) == IF items = <<>> THEN <<>> ELSE <<" ">> \o words \o <<" ">> \o Listed(items)
ConditionText(word, e) == IF e = None THEN <<>> ELSE <<" ", word, " ">> \o Written(e, 1)
JoinText(j) == CASE j = "FROM" -> <<>> [] j = "CROSS" -> <<",", " ">> [] j = "INNER" -> <<" ", "JOIN", " ">>
                 [] OTHER -> <<" ", j, " ", "JOIN", " ">>
SelectText(q) ==
  LET as(a) == IF a = "" THEN <<>> ELSE <<" ", "AS", " ", a>>
      source(f) == JoinText(f.join) \o <<f.table>> \o as(f.alias) \o ConditionText("ON", f.on)
      order(o) == Written(o.e, 1) \o (IF o.desc THEN <<" ", "DESC">> ELSE <<>>)
      limit == IF q.limit < 0 THEN <<>>
               ELSE <<" ", "LIMIT", " ">> \o Natural(q.limit) \o <<" ", "OFFSET", " ">> \o Natural(q.offset)
  IN <<"SELECT", " ">> \o (IF q.distinct THEN <<"DISTINCT", " ">> ELSE <<>>)
       \o Listed([k \in DOMAIN q.cols |-> Written(q.cols[k].e, 1) \o as(q.cols[k].alias)])
       \o (IF q.from = <<>> THEN <<>> ELSE <<" ", "FROM", " ">> \o FlattenSeq([k \in DOMAIN q.from |-> source(q.from[k])]))
       \o ConditionText("WHERE", q.where) \o Clause(<<"GROUP", " ", "BY">>, [k \in DOMAIN q.group |-> Written(q.group[k], 1)])
       \o ConditionText("HAVING", q.having) \o Clause(<<"ORDER", " ", "BY">>, [k \in DOMAIN q.order |-> order(q.order[k])]) \o limit
InsertSqlText(q) ==
  LET tuple(items) == <<"(">> \o Listed(items) \o <<")">>
  IN <<"INSERT", " ", "INTO", " ", q.into, " ">> \o (IF q.columns = <<>> THEN <<>> ELSE tuple([k \in DOMAIN q.columns |-> <<q.columns[k]>>]))
       \o <<" ", "VALUES", " ">>
       \o Listed([r \in DOMAIN q.values |-> tuple([k \in DOMAIN q.values[r] |-> Written(q.values[r][k], 1)])])
ReadBack(x) ==
  LET parsed(s) == parser_parse(lexer_tokenize(s))
      is(s, kind) == parsed(s) = [ok |-> TRUE, statements |-> <<[kind |-> kind, q |-> x.q]>>]
      view == parsed(<<"CREATE", " ", "VIEW", " ", "x", " ", "AS", " ">> \o SelectText(x.q))
  IN /\ IsInsert(x) => is(InsertSqlText(x.q), "INSERT")
     /\ IsSelect(x) => /\ is(SelectText(x.q), "SELECT")
                       /\ view.ok /\ is(view.statements[1].definition, "SELECT")
\* A SELECT or an INSERT, written down with the fewest parentheses, is read as
\* the same one; so is the query of a view from the text the catalogue keeps.
\* parser_parse, CREATE VIEW.
WrittenIsRead == [][IsSelect(asked') \/ IsInsert(asked') => ReadBack(asked')]_asked
=============================================================================
