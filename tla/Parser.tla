------------------------------- MODULE Parser -------------------------------
(***************************************************************************)
(* src/src/query/parser.c: tokens to statements.  A result is [e, i]: what *)
(* was read and the place of the next token, 0 after an error (any error   *)
(* fails the whole text, so what was read before it does not matter).      *)
(* Expressions and queries are those of Select.tla.  The length of names   *)
(* is not limited.                                                         *)
(***************************************************************************)
EXTENDS Lexer, Integers, Sequences
LOCAL INSTANCE SequencesExt
LOCAL INSTANCE FiniteSetsExt

CONSTANTS
  MaxDepth,    \* MAX_EXPR_DEPTH
  MaxList,     \* the most items of a list: [columns, joins, group, order, args, sets]
  ViewMax      \* the longest definition of a view

binary(op, l, r) == [type |-> "binary", op |-> op, left |-> l, right |-> r]
unary(op, e) == [type |-> "unary", op |-> op, left |-> e]

Result(e, i) == [e |-> e, i |-> i]
Fail == Result(None, 0)

Kind(t, i) == IF i = 0 THEN "none" ELSE t[i].type                        \* peek
After(t, i) == IF i = 0 THEN 0 ELSE Min({i + 1, Len(t)})                 \* consume
Match(t, i, type) == IF Kind(t, i) = type THEN After(t, i) ELSE 0        \* match, expect
Optional(t, i, type) == IF Kind(t, i) = type THEN After(t, i) ELSE i        \* match that may fail
NameOf(text) == IF Len(text) = 1 THEN text[1] ELSE text
Word(t, i) == IF Kind(t, i) = "name" /\ Len(t[i].text) = 1 THEN t[i].text[1] ELSE ""
AtMost(r, max) == IF r.i > 0 /\ Len(r.e) > max THEN Fail ELSE r

RECURSIVE Depth(_)
Depth(e) ==
  CASE e.type = "binary" -> 1 + Max({Depth(e.left), Depth(e.right)})
    [] e.type = "unary" -> 1 + Depth(e.left)
    [] e.type \in {"agg", "func"} /\ e.args # <<>> -> 1 + Max({Depth(e.args[k]) : k \in DOMAIN e.args})
    [] OTHER -> 0
depth_check(r) == IF r.i > 0 /\ Depth(r.e) > MaxDepth THEN Fail ELSE r

\* a tree of logarithmic depth, so that thousands of conditions are allowed
RECURSIVE balanced(_, _)
balanced(op, terms) ==
  LET mid == (Len(terms) + 1) \div 2
  IN IF Len(terms) = 1 THEN terms[1]
     ELSE binary(op, balanced(op, SubSeq(terms, 1, mid)), balanced(op, SubSeq(terms, mid + 1, Len(terms))))
Combined(op, r) == IF r.i = 0 THEN Fail ELSE depth_check(Result(balanced(op, r.e), r.i))

(* ----------------------------- expressions ----------------------------- *)

Aggregates == {"COUNT", "SUM", "AVG", "MIN", "MAX"}
Comparisons == {"=", "<>", "<", ">", "<=", ">="}
Number(text) ==
  IF strtoll(text) \in (-BigMax - 1)..BigMax THEN Const(IntV(strtoll(text))) ELSE Const(NumV(strtod(text).num))

\* what is read: "expr", "and", "not", "predicate", "additive", ...; d counts
\* the levels of parse_unary and parse_not around it
RECURSIVE Parse(_, _, _, _), Several(_, _, _, _, _), Chain(_, _, _, _, _)

Several(what, separator, t, i, d) ==   \* one or more
  LET first == Parse(what, t, i, d)
      rest == Several(what, separator, t, After(t, first.i), d)
  IN IF first.i = 0 THEN Fail
     ELSE IF Kind(t, first.i) # separator THEN Result(<<first.e>>, first.i)
     ELSE IF rest.i = 0 THEN Fail ELSE Result(<<first.e>> \o rest.e, rest.i)

Chain(what, ops, t, left, d) ==   \* operators of one precedence, from left to right
  LET next == Parse(what, t, After(t, left.i), d)
  IN IF Kind(t, left.i) \notin ops THEN left
     ELSE IF next.i = 0 THEN Fail
     ELSE Chain(what, ops, t, depth_check(Result(binary(Kind(t, left.i), left.e, next.e), next.i)), d)

parse_call(t, i, d) ==
  LET func == NameOf(t[i].text)
      agg == Len(t[i].text) = 1 /\ func \in Aggregates
      distinct == agg /\ Kind(t, i + 2) = "DISTINCT"
      from == IF distinct THEN i + 3 ELSE i + 2
      star == agg /\ Kind(t, from) = "*"
      args == IF star THEN Result(<<>>, from + 1)
              ELSE IF Kind(t, from) = ")" THEN Result(<<>>, from)
              ELSE AtMost(Several("expr", ",", t, from, d), MaxList.args)
      end == Match(t, args.i, ")")
  IN IF \/ end = 0
        \/ star /\ (func # "COUNT" \/ distinct)
        \/ agg /\ Len(args.e) # (IF star THEN 0 ELSE 1) THEN Fail
     ELSE Result(IF agg THEN [type |-> "agg", func |-> func, args |-> args.e, distinct |-> distinct]
                 ELSE [type |-> "func", func |-> func, args |-> args.e], end)

parse_primary(t, i, d) ==
  LET inner == Parse("expr", t, After(t, i), d)
      column(q, n) == [type |-> "column", qual |-> q, name |-> n]
  IN CASE Kind(t, i) = "int" -> Result(Number(t[i].text), i + 1)
       [] Kind(t, i) = "float" -> Result(Const(NumV(strtod(t[i].text).num)), i + 1)
       [] Kind(t, i) = "string" -> Result(Const([NullV EXCEPT !.null = FALSE, !.str = t[i].text]), i + 1)
       [] Kind(t, i) = "NULL" -> Result(Const(NullV), i + 1)
       [] Kind(t, i) = "(" -> Result(inner.e, Match(t, inner.i, ")"))
       [] Kind(t, i) \in {"name", "LEFT", "RIGHT"} ->
            IF Kind(t, i + 1) = "(" THEN parse_call(t, i, d)
            ELSE IF Kind(t, i) # "name" THEN Fail
            ELSE IF Kind(t, i + 1) # "." THEN Result(column("", NameOf(t[i].text)), i + 1)
            ELSE IF Kind(t, i + 2) # "name" THEN Fail
            ELSE Result(column(NameOf(t[i].text), NameOf(t[i + 2].text)), i + 3)
       [] OTHER -> Fail

parse_unary(t, i, d) ==
  LET operand == Parse("unary", t, After(t, i), d + 1)
  IN IF d + 1 > MaxDepth THEN Fail
     ELSE depth_check(IF Kind(t, i) = "-" THEN IF operand.i = 0 THEN Fail ELSE Result(unary("NEG", operand.e), operand.i)
                      ELSE IF Kind(t, i) = "+" THEN operand
                      ELSE parse_primary(t, i, d + 1))

\* after x: BETWEEN a AND b, IN (a, b, ...) and their negations
Between(t, left, i, neg, d) ==
  LET lo == Parse("additive", t, i, d)
      hi == Parse("additive", t, Match(t, lo.i, "AND"), d)
  IN IF hi.i = 0 THEN Fail
     ELSE Result(IF neg THEN binary("OR", binary("<", left, lo.e), binary(">", left, hi.e))
                 ELSE binary("AND", binary(">=", left, lo.e), binary("<=", left, hi.e)), hi.i)
In(t, left, i, neg, d) ==
  LET list == IF Kind(t, i) = "(" THEN Several("expr", ",", t, After(t, i), d) ELSE Fail
      terms == [k \in DOMAIN list.e |-> binary(IF neg THEN "<>" ELSE "=", left, list.e[k])]
      end == Match(t, list.i, ")")
  IN IF end = 0 THEN Fail ELSE Combined(IF neg THEN "AND" ELSE "OR", Result(terms, end))

parse_predicate(t, i, d) ==
  LET left == Parse("additive", t, i, d)
      neg == Kind(t, left.i) = "NOT"
      op == IF neg THEN After(t, left.i) ELSE left.i
      other == Parse("additive", t, After(t, op), d)
      with(name) == IF other.i = 0 THEN Fail ELSE Result(binary(name, left.e, other.e), other.i)
      isnot == Kind(t, left.i + 1) = "NOT"
  IN CASE left.i = 0 -> Fail
       [] Kind(t, left.i) = "IS" ->
            Result(unary(IF isnot THEN "IS NOT NULL" ELSE "IS NULL", left.e),
                   Match(t, Optional(t, left.i + 1, "NOT"), "NULL"))
       [] Kind(t, op) = "LIKE" -> with(IF neg THEN "NOT LIKE" ELSE "LIKE")
       [] Kind(t, op) = "BETWEEN" -> Between(t, left.e, op + 1, neg, d)
       [] Kind(t, op) = "IN" -> In(t, left.e, op + 1, neg, d)
       [] Kind(t, op) \in Comparisons /\ ~neg -> with(Kind(t, op))
       [] OTHER -> IF neg THEN Fail ELSE left

parse_not(t, i, d) ==
  LET operand == Parse("not", t, After(t, i), d + 1)
  IN IF Kind(t, i) # "NOT" THEN parse_predicate(t, i, d)
     ELSE IF d + 1 > MaxDepth \/ operand.i = 0 THEN Fail
     ELSE depth_check(Result(unary("NOT", operand.e), operand.i))

(* -------------------------------- SELECT -------------------------------- *)

NotAlias == {"INNER", "CROSS", "OUTER", "OFFSET"}
\* [alias, i] after the name of a table
parse_table_alias(t, i) ==
  LET at1 == Optional(t, i, "AS")
  IN IF Kind(t, at1) = "name" /\ Word(t, at1) \notin NotAlias THEN Result(NameOf(t[at1].text), After(t, at1))
     ELSE IF at1 # i THEN Fail ELSE Result("", i)

SelectItem(t, i) ==
  LET qualified == Kind(t, i) = "name" /\ Kind(t, i + 1) = "." /\ Kind(t, i + 2) = "*"
      star(q) == [e |-> [type |-> "star", qual |-> q], alias |-> ""]
      e == Parse("expr", t, i, 0)
      named == Kind(t, e.i) \in {"AS", "name"}
      alias == Optional(t, e.i, "AS")
  IN CASE Kind(t, i) = "*" -> Result(star(""), i + 1)
       [] qualified -> Result(star(NameOf(t[i].text)), i + 3)
       [] OTHER -> IF ~named THEN Result([e |-> e.e, alias |-> ""], e.i)
                   ELSE IF Kind(t, alias) \notin {"name", "string"} THEN Fail
                   ELSE Result([e |-> e.e, alias |-> NameOf(t[alias].text)], After(t, alias))

\* the way the next source is joined, and the place of its name
JoinWord(t, i) ==
  LET outer == IF Word(t, i + 1) = "OUTER" THEN i + 2 ELSE i + 1
  IN CASE Kind(t, i) = "," -> Result("CROSS", i + 1)
       [] Kind(t, i) = "JOIN" -> Result("INNER", i + 1)
       [] Word(t, i) \in {"INNER", "CROSS"} -> Result(Word(t, i), Match(t, i + 1, "JOIN"))
       [] Kind(t, i) \in {"LEFT", "RIGHT"} -> Result(Kind(t, i), Match(t, outer, "JOIN"))
       [] OTHER -> Result("none", i)
Source(t, i, join) ==
  LET alias == parse_table_alias(t, i + 1)
      on == IF Kind(t, alias.i) = "ON" /\ join \notin {"FROM", "CROSS"} THEN Parse("expr", t, alias.i + 1, 0)
            ELSE Result(None, alias.i)
  IN IF Kind(t, i) # "name" \/ alias.i = 0 \/ (join \in {"LEFT", "RIGHT"} /\ on.e = None) THEN Fail
     ELSE Result([table |-> NameOf(t[i].text), alias |-> alias.e, join |-> join, on |-> on.e], on.i)
RECURSIVE Sources(_, _)
Sources(t, i) ==   \* the sources after the first
  LET how == JoinWord(t, i)
      one == Source(t, how.i, how.e)
      rest == Sources(t, one.i)
  IN IF i = 0 THEN Fail
     ELSE IF how.e = "none" THEN Result(<<>>, i)
     ELSE IF how.i = 0 \/ one.i = 0 \/ rest.i = 0 THEN Fail
     ELSE Result(<<one.e>> \o rest.e, rest.i)
FromClause(t, i) ==
  LET first == Source(t, i + 1, "FROM")
      rest == AtMost(Sources(t, first.i), MaxList.joins)
  IN IF Kind(t, i) # "FROM" THEN Result(<<>>, IF Kind(t, i) \in {"eof", ";", "WHERE", "ORDER", "LIMIT"} THEN i ELSE 0)
     ELSE IF first.i = 0 \/ rest.i = 0 THEN Fail
     ELSE Result(<<first.e>> \o rest.e, rest.i)

Condition(t, i, word) ==
  IF Kind(t, i) = word THEN Parse("expr", t, i + 1, 0) ELSE Result(None, i)
ByList(t, i, word, what, max) ==
  IF Kind(t, i) = word THEN AtMost(Several(what, ",", t, Match(t, i + 1, "BY"), 0), max) ELSE Result(<<>>, i)
OrderItem(t, i) ==
  LET e == Parse("expr", t, i, 0)
  IN Result([e |-> e.e, desc |-> Kind(t, e.i) = "DESC"], Optional(t, Optional(t, e.i, "DESC"), IF Kind(t, e.i) = "DESC" THEN "" ELSE "ASC"))

\* a count: atoi keeps the low bits of a number beyond INT_MAX
Count(t, i) == IF Kind(t, i) = "int" /\ t[i].text[1] # "-" THEN Result(Wrap(strtoll(t[i].text), IntMax), i + 1) ELSE Fail
\* <<LIMIT, OFFSET>>: -1 is no limit
Limit(t, i) ==
  LET a == Count(t, i + 1)
      b == Count(t, a.i + 1)
  IN IF Kind(t, i) # "LIMIT" THEN Result(<<-1, 0>>, i)
     ELSE IF a.i = 0 THEN Fail
     ELSE IF Kind(t, a.i) = "," THEN Result(<<b.e, a.e>>, b.i)
     ELSE IF Word(t, a.i) = "OFFSET" THEN Result(<<a.e, b.e>>, b.i)
     ELSE Result(<<a.e, 0>>, a.i)

parse_select(t, i) ==
  LET distinct == Kind(t, i + 1) = "DISTINCT"
      cols == AtMost(Several("item", ",", t, IF distinct THEN i + 2 ELSE i + 1, 0), MaxList.columns)
      from == FromClause(t, cols.i)
      where == Condition(t, from.i, "WHERE")
      group == ByList(t, where.i, "GROUP", "expr", MaxList.group)
      having == Condition(t, group.i, "HAVING")
      order == ByList(t, having.i, "ORDER", "order", MaxList.order)
      limit == Limit(t, order.i)
  IN IF limit.i = 0 THEN Fail
     ELSE Result([from |-> from.e, cols |-> cols.e, where |-> where.e, group |-> group.e, having |-> having.e,
                  distinct |-> distinct, order |-> order.e, limit |-> limit.e[1], offset |-> limit.e[2]], limit.i)

(* ---------------------------- other statements --------------------------- *)

RowOfValues(t, i) ==
  LET r == AtMost(Several("expr", ",", t, Match(t, i, "("), 0), MaxList.columns) IN Result(r.e, Match(t, r.i, ")"))
ColumnName(t, i) == IF Kind(t, i) = "name" THEN Result(NameOf(t[i].text), i + 1) ELSE Fail
parse_insert(t, i) ==
  LET name == Match(t, i, "INTO")
      list == IF Kind(t, name + 1) # "(" THEN Result(<<>>, name + 1)
              ELSE LET r == AtMost(Several("name", ",", t, name + 2, 0), MaxList.columns) IN Result(r.e, Match(t, r.i, ")"))
      rows == Several("row", ",", t, Match(t, list.i, "VALUES"), 0)
  IN IF Kind(t, name) # "name" \/ rows.i = 0 THEN Fail
     ELSE IF \E r \in DOMAIN rows.e : Len(rows.e[r]) # Len(rows.e[1]) THEN Fail
     ELSE Result([into |-> NameOf(t[name].text), columns |-> list.e, values |-> rows.e], rows.i)

Assignment(t, i) ==   \* column = e, or table.column = e
  LET col == IF Kind(t, i + 1) = "." THEN i + 2 ELSE i
      e == Parse("expr", t, Match(t, col + 1, "="), 0)
  IN IF Kind(t, i) # "name" \/ Kind(t, col) # "name" \/ e.i = 0 THEN Fail
     ELSE Result([column |-> NameOf(t[col].text), e |-> e.e], e.i)
parse_update(t, i) ==
  LET sets == AtMost(Several("set", ",", t, Match(t, i + 1, "SET"), 0), MaxList.sets)
      where == Condition(t, sets.i, "WHERE")
  IN IF Kind(t, i) # "name" \/ where.i = 0 THEN Fail
     ELSE Result([kind |-> "UPDATE", table |-> t[i].text, sets |-> sets.e, where |-> where.e], where.i)

Parse(what, t, i, d) ==
  IF i = 0 THEN Fail
  ELSE CASE what = "expr"      -> Combined("OR", Several("and", "OR", t, i, d))
         [] what = "and"       -> Combined("AND", Several("not", "AND", t, i, d))
         [] what = "not"       -> parse_not(t, i, d)
         [] what = "additive"  -> Chain("multiplicative", {"+", "-"}, t, Parse("multiplicative", t, i, d), d)
         [] what = "multiplicative" -> Chain("unary", {"*", "/"}, t, Parse("unary", t, i, d), d)
         [] what = "unary"     -> parse_unary(t, i, d)
         [] what = "item"      -> SelectItem(t, i)
         [] what = "order"     -> OrderItem(t, i)
         [] what = "name"      -> ColumnName(t, i)
         [] what = "row"       -> RowOfValues(t, i)
         [] what = "set"       -> Assignment(t, i)

\* steps in a row: "any" is one token whatever it is, "name" a
\* name, another step that token; the texts of the first two are kept
Steps(t, i, steps) ==
  FoldLeft(LAMBDA r, step :
             IF r.i = 0 THEN Fail
             ELSE IF step = "any" THEN Result(Append(r.e, t[r.i].text), After(t, r.i))
             ELSE IF step = "name" THEN Result(Append(r.e, t[r.i].text), Match(t, r.i, "name"))
             ELSE Result(r.e, Match(t, r.i, step)), Result(<<>>, i), steps)
Simple(kind, t, i, steps) ==
  LET r == Steps(t, i, steps) IN Result([kind |-> kind, names |-> r.e], r.i)

\* NOT NULL, NULL, PRIMARY KEY, AUTO_INCREMENT and DEFAULT; another name ends
\* the column and is dropped
RECURSIVE Modifiers(_, _, _)
Modifiers(t, i, c) ==
  LET w == IF Kind(t, i) \in {"NOT", "NULL"} THEN Kind(t, i) ELSE Word(t, i)
  IN CASE Kind(t, i) \notin {"NOT", "NULL", "name"} -> Result(c, i)
       [] w = "NOT" /\ Kind(t, i + 1) = "NULL" -> Modifiers(t, i + 2, [c EXCEPT !.nullable = FALSE])
       [] w = "NULL" -> Modifiers(t, i + 1, [c EXCEPT !.nullable = TRUE])
       [] w = "PRIMARY" /\ Kind(t, i + 1) = "KEY" -> Modifiers(t, i + 2, [c EXCEPT !.primary_key = TRUE, !.nullable = FALSE])
       [] w = "AUTO_INCREMENT" -> Modifiers(t, i + 1, [c EXCEPT !.auto_increment = TRUE])
       [] w = "DEFAULT" -> Modifiers(t, After(t, i + 1), [c EXCEPT !.default_val = t[i + 1].text])
       [] OTHER -> Result(c, i + 1)
ColumnDef(t, i) ==
  LET type == After(t, i)
      end == After(t, type)
      sized == Kind(t, end) = "("
      c == [name |-> t[i].text, type |-> t[type].text, size |-> IF sized THEN strtoll(t[After(t, end)].text) ELSE 0,
            nullable |-> TRUE, primary_key |-> FALSE, auto_increment |-> FALSE, default_val |-> <<>>]
      after == IF sized THEN Match(t, After(t, After(t, end)), ")") ELSE end
  IN IF after = 0 THEN Fail ELSE Modifiers(t, after, c)
RECURSIVE ColumnDefs(_, _)
ColumnDefs(t, i) ==
  LET c == ColumnDef(t, i)
      rest == ColumnDefs(t, c.i + 1)
  IN IF Kind(t, i) \in {")", "eof"} THEN Result(<<>>, i)
     ELSE IF c.i = 0 THEN Fail
     ELSE IF Kind(t, c.i) # "," THEN Result(<<c.e>>, c.i)
     ELSE IF rest.i = 0 THEN Fail ELSE Result(<<c.e>> \o rest.e, rest.i)
parse_create_table(t, i) ==
  LET open == Match(t, After(t, i), "(")
      cols == IF open = 0 THEN Fail ELSE ColumnDefs(t, open)
  IN Result([kind |-> "CREATE TABLE", table |-> t[i].text, columns |-> cols.e], Match(t, cols.i, ")"))

\* the end of a statement that is taken over as text
TextEnd(t, i) == Min({j \in i..Len(t) : t[j].type \in {";", "eof"}})
Spaced(texts) == FlattenSeq([k \in DOMAIN texts |-> IF k = 1 THEN texts[k] ELSE <<" ">> \o texts[k]])
BarePiece(token) == token.text    \* a slip: a string loses its quotes
\* a token as the text of a view: strings are quoted again
DefinitionPiece(token) ==
  IF token.type # "string" THEN token.text
  ELSE <<"'">> \o FlattenSeq([k \in DOMAIN token.text |->
                    IF token.text[k] \in {"'", "\\"} THEN <<token.text[k], token.text[k]>> ELSE <<token.text[k]>>]) \o <<"'">>
parse_create_view(t, i) ==
  LET body == Match(t, After(t, i), "AS")
      q == parse_select(t, body)
      end == TextEnd(t, body)
      definition == Spaced([k \in 1..(end - body) |-> DefinitionPiece(t[body + k - 1])])
  IN IF body = 0 THEN Fail
     ELSE IF Kind(t, body) # "SELECT" \/ Len(definition) > ViewMax \/ q.i # end THEN Fail
     ELSE Result([kind |-> "CREATE VIEW", view |-> t[i].text, definition |-> definition], end)
parse_create_trigger(t, i) ==
  LET before == After(t, i)
      event == IF Kind(t, before) \in {"BEFORE", "AFTER"} THEN After(t, before) ELSE before
      table == Match(t, After(t, event), "ON")
      body == Optional(t, Optional(t, Optional(t, After(t, table), "FOR"), "EACH"), "ROW")
      end == TextEnd(t, body)
  IN IF table = 0 THEN Fail
     ELSE Result([kind |-> "CREATE TRIGGER", names |-> <<t[i].text, t[event].text, t[table].text>>,
                  before |-> Kind(t, before) # "AFTER",
                  body |-> Spaced([k \in 1..(end - body) |-> t[body + k - 1].text])], end)

\* CREATE or DROP of anything else is an empty SELECT without an error
EmptySelect(t, i) == Result([kind |-> "SELECT", q |-> None], i)
parse_create(t, i) ==
  LET name == After(t, i)
  IN CASE Kind(t, i) = "DATABASE" -> Simple("CREATE DATABASE", t, name, <<"any">>)
       [] Kind(t, i) = "TRIGGER" -> parse_create_trigger(t, name)
       [] Kind(t, i) = "TABLE" -> parse_create_table(t, name)
       [] Kind(t, i) = "INDEX" -> Simple("CREATE INDEX", t, name, <<"any", "ON", "any", "(", "any", ")">>)
       [] Kind(t, i) = "VIEW" -> parse_create_view(t, name)
       [] OTHER -> EmptySelect(t, name)
parse_drop(t, i) ==
  LET name == After(t, i)
  IN CASE Kind(t, i) = "DATABASE" -> Simple("DROP DATABASE", t, name, <<"any">>)
       [] Kind(t, i) = "TABLE" -> Simple("DROP TABLE", t, name, <<"any">>)
       [] Kind(t, i) = "VIEW" -> Simple("DROP VIEW", t, name, <<"any">>)
       [] Kind(t, i) = "INDEX" -> Simple("DROP INDEX", t, name, <<"any", "ON", "any">>)
       [] Kind(t, i) = "TRIGGER" -> Simple("DROP TRIGGER", t, name, <<"any">>)
       [] OTHER -> EmptySelect(t, name)

Querying(kind, r) == IF r.i = 0 THEN Fail ELSE Result([kind |-> kind, q |-> r.e], r.i)
parse_statement(t, i) ==
  LET next == After(t, i)
      where == Condition(t, Match(t, Match(t, next, "FROM"), "name"), "WHERE")
      shown == IF t[next].text \in {<<"DATABASES">>, <<"TABLES">>} THEN After(t, next) ELSE 0
  IN CASE Kind(t, i) = "SELECT" -> Querying("SELECT", parse_select(t, i))
       [] Kind(t, i) = "INSERT" -> Querying("INSERT", parse_insert(t, next))
       [] Kind(t, i) = "UPDATE" -> parse_update(t, next)
       [] Kind(t, i) = "DELETE" -> Result([kind |-> "DELETE", table |-> t[After(t, next)].text, where |-> where.e], where.i)
       [] Kind(t, i) = "CREATE" -> parse_create(t, next)
       [] Kind(t, i) = "DROP" -> parse_drop(t, next)
       [] Kind(t, i) = "ALTER" -> Simple("ALTER TABLE", t, next, <<"TABLE", "any", "RENAME", "TO", "name">>)
       [] Kind(t, i) = "USE" -> Simple("USE", t, next, <<"any">>)
       [] Kind(t, i) = "SHOW" -> Result([kind |-> "SHOW", names |-> <<t[next].text>>], shown)
       [] Kind(t, i) = "DESCRIBE" -> Simple("DESCRIBE", t, Optional(t, next, "TABLE"), <<"name">>)
       [] Kind(t, i) = "EXPLAIN" -> IF Kind(t, next) = "SELECT" THEN Querying("EXPLAIN", parse_select(t, next)) ELSE Fail
       [] Kind(t, i) = "BEGIN" -> Result([kind |-> "BEGIN"], Optional(t, next, "TRANSACTION"))
       [] Kind(t, i) = "COMMIT" -> Result([kind |-> "COMMIT"], next)
       [] Kind(t, i) = "ROLLBACK" -> IF Kind(t, next) = "TO" THEN Simple("ROLLBACK TO", t, After(t, next), <<"any">>)
                                     ELSE Result([kind |-> "ROLLBACK"], next)
       [] Kind(t, i) = "SAVEPOINT" -> Simple("SAVEPOINT", t, next, <<"any">>)
       [] Kind(t, i) = "TRUNCATE" -> Simple("TRUNCATE", t, next, <<"TABLE", "any">>)
       [] OTHER -> Fail

\* statements need no semicolon between them; two of them are an error
RECURSIVE Statements(_, _)
Statements(t, i) ==
  LET one == parse_statement(t, i)
      rest == Statements(t, Optional(t, one.i, ";"))
  IN IF Kind(t, i) = "eof" THEN Result(<<>>, i)
     ELSE IF one.i = 0 \/ rest.i = 0 THEN Fail ELSE Result(<<one.e>> \o rest.e, rest.i)
parser_parse(t) ==
  LET all == IF \E k \in DOMAIN t : t[k].type = "error" THEN Fail ELSE Statements(t, 1)
  IN [ok |-> all.i > 0, statements |-> IF all.i > 0 THEN all.e ELSE <<>>]
============================================================================
