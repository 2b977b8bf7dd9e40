------------------------------- MODULE Select -------------------------------
(***************************************************************************)
(* SELECT of src/src/query/executor.c: sources, binding, joins, WHERE,     *)
(* groups, HAVING, projection, DISTINCT, ORDER BY, OFFSET and LIMIT.       *)
(*                                                                         *)
(* A database is [tables, views]: a table has cols, a sequence of [name,   *)
(* type, indexed], and rows in the order of a scan; a view is a query.  A  *)
(* query is [from, cols, where, group, having, distinct, order, limit,     *)
(* offset]; from is a sequence of [table, alias, join, on].                *)
(***************************************************************************)
EXTENDS Expressions, Integers, Sequences, FiniteSets
LOCAL INSTANCE SequencesExt
LOCAL INSTANCE FiniteSetsExt
LOCAL INSTANCE TLC

CONSTANTS
  MaxViewDepth,   \* MAX_VIEW_DEPTH
  MaxColumns      \* SV_MAX_COLUMNS

Error(what) == [type |-> "error", what |-> what]

----------------------------------------------------------------------------
(* Binding: columns become [s, c] of a source or the k-th SELECT item.     *)
(* b is [src, sel, agg, in_agg, names], names being the aliases of sel.    *)

Qualified(src, qual) == qual = "" \/ qual = src.name \/ qual = src.table
find_column(b, qual, name) ==
  {<<s, k>> \in (DOMAIN b.src) \X (1..MaxColumns) :
     /\ Qualified(b.src[s], qual)
     /\ k \in DOMAIN b.src[s].cols /\ b.src[s].cols[k].name = name}

BindColumn(e, b) ==
  LET found == find_column(b, e.qual, e.name)
      named == {k \in DOMAIN b.names : b.names[k] # "" /\ b.names[k] = e.name}
  IN CASE Cardinality(found) = 1 -> LET f == CHOOSE f \in found : TRUE IN [type |-> "bound", s |-> f[1], c |-> f[2]]
       [] Cardinality(found) > 1 -> Error("ambiguous")
       [] found = {} -> IF e.qual = "" /\ named # {} THEN [type |-> "alias", k |-> Min(named)]
                        ELSE IF ~\E s \in DOMAIN b.src : Qualified(b.src[s], e.qual) THEN Error("unknown table")
                        ELSE Error("unknown column")

RECURSIVE Bind(_, _)
BindAll(args, b) == [i \in DOMAIN args |-> Bind(args[i], b)]
Bind(e, b) ==
  CASE e.type = "column" -> BindColumn(e, b)
    [] e.type = "agg"    -> IF ~b.agg THEN Error("aggregate not allowed")
                            ELSE IF b.in_agg THEN Error("nested aggregate")
                            ELSE [e EXCEPT !.args = BindAll(@, [b EXCEPT !.in_agg = TRUE])]
    [] e.type = "func"   -> [e EXCEPT !.args = BindAll(@, b)]
    [] e.type = "unary"  -> [e EXCEPT !.left = Bind(@, b)]
    [] e.type = "binary" -> [e EXCEPT !.left = Bind(@, b), !.right = Bind(@, b)]
    [] e.type = "star"   -> Error("star")
    [] OTHER             -> e

\* does the tree of e hold a node of the type? ("agg": expr_has_agg)
RECURSIVE Holds(_, _)
Holds(e, type) ==
  \/ e.type = type
  \/ e.type \in {"agg", "func"} /\ \E i \in DOMAIN e.args : Holds(e.args[i], type)
  \/ e.type \in {"unary", "binary"} /\ Holds(e.left, type)
  \/ e.type = "binary" /\ Holds(e.right, type)
Bad(es) == \E i \in DOMAIN es : Holds(es[i], "error")

----------------------------------------------------------------------------
(* Rows of a table: all of them, or those an index finds for an equality   *)
(* of the WHERE clause with a constant.                                    *)

RECURSIVE find_index_eq(_, _)
find_index_eq(w, cols) ==   \* {} or {[c, key]}, the first usable equality
  LET usable(col, val) ==
        /\ col.type = "bound" /\ col.s = 1 /\ val.type = "const" /\ ~val.val.null
        /\ cols[col.c].indexed
        /\ \/ cols[col.c].type \in IntTypes /\ val.val.is_int
              /\ (cols[col.c].type = "INT" => inum(val.val) \in (-IntMax - 1)..IntMax)
           \/ cols[col.c].type \in TextTypes /\ ~val.val.is_num
      eq(col, val) == {[c |-> col.c, key |-> val.val.str]}
  IN CASE w.type = "binary" /\ w.op = "AND" ->
            IF find_index_eq(w.left, cols) # {} THEN find_index_eq(w.left, cols) ELSE find_index_eq(w.right, cols)
       [] w.type = "binary" /\ w.op = "=" ->
            IF usable(w.left, w.right) THEN eq(w.left, w.right)
            ELSE IF usable(w.right, w.left) THEN eq(w.right, w.left) ELSE {}
       [] OTHER -> {}

source_load(src, where) ==
  LET hit == IF src.view THEN {} ELSE find_index_eq(where, src.cols)
  IN IF hit = {} THEN src.rows
     ELSE LET h == CHOOSE h \in hit : TRUE
          IN SelectSeq(src.rows, LAMBDA row : ~row[h.c].null /\ row[h.c].str = h.key)

----------------------------------------------------------------------------
(* Joins.  A combination has one row per source, <<>> where it is missing. *)

RECURSIVE HashAnyOp(_, _, _)
HashAnyOp(on, k, src) ==   \* a slip: an equality under OR is used too
  IF on.type # "binary" THEN {}
  ELSE IF on.op \in {"AND", "OR"} THEN HashAnyOp(on.left, k, src) \cup HashAnyOp(on.right, k, src)
  ELSE IF on.op = "=" /\ on.left.type = "bound" /\ on.right.type = "bound"
       THEN {[kc |-> e.c, os |-> f.s, oc |-> f.c] : <<e, f>> \in
               {p \in {on.left, on.right} \X {on.left, on.right} : p[1].s = k /\ p[2].s < k}}
       ELSE {}

\* {} or {[kc, os, oc]}: the equality between a column of source k and one
\* of an earlier source that the hash join uses
RECURSIVE find_hash_cond(_, _, _)
find_hash_cond(on, k, src) ==
  LET type(e) == src[e.s].cols[e.c].type
      both == {on.left, on.right}
      same(a, b) == (a \in IntTypes /\ b \in IntTypes) \/ (a \in TextTypes /\ b \in TextTypes)
  IN CASE on.type = "binary" /\ on.op = "AND" ->
            IF find_hash_cond(on.left, k, src) # {} THEN find_hash_cond(on.left, k, src) ELSE find_hash_cond(on.right, k, src)
       [] on.type = "binary" /\ on.op = "=" ->
            IF \A e \in both : e.type = "bound"
            THEN {[kc |-> e.c, os |-> f.s, oc |-> f.c] : <<e, f>> \in
                    {p \in both \X both : p[1].s = k /\ p[2].s < k /\ same(type(p[1]), type(p[2]))}}
            ELSE {}
       [] OTHER -> {}

\* the rows of source k that are tried for a combination: the chain of its
\* key, or all of them
Candidates(in, k, src, on) ==
  LET hit == find_hash_cond(on, k, src)
      h == CHOOSE h \in hit : TRUE
      rows == src[k].rows
  IN IF hit = {} THEN [r \in DOMAIN rows |-> r]
     ELSE IF in[h.os] = <<>> THEN <<>>
     ELSE IF in[h.os][h.oc].null THEN <<>>
     ELSE SelectSeq([r \in DOMAIN rows |-> r],
                    LAMBDA r : ~rows[r][h.kc].null /\ rows[r][h.kc].str = in[h.os][h.oc].str)

RowContext(cur, sel) == [cur |-> cur, grouped |-> FALSE, grp |-> <<>>, sel |-> sel]
GroupContext(cur, grp, sel) == [cur |-> cur, grouped |-> TRUE, grp |-> grp, sel |-> sel]

join_step(combos, k, src, join, on) ==
  LET none == [s \in DOMAIN src |-> <<>>]
      ctx(in, r) == RowContext([in EXCEPT ![k] = src[k].rows[r]], <<>>)
      matches(in) == SelectSeq(Candidates(in, k, src, on), LAMBDA r : eval_cond(on, ctx(in, r)))
      joined(in) == IF matches(in) = <<>> /\ join = "LEFT" THEN <<in>>
                    ELSE [i \in DOMAIN matches(in) |-> [in EXCEPT ![k] = src[k].rows[matches(in)[i]]]]
      unhit == SelectSeq([r \in DOMAIN src[k].rows |-> r],
                         LAMBDA r : \A i \in DOMAIN combos : r \notin ToSet(matches(combos[i])))
  IN FlattenSeq([i \in DOMAIN combos |-> joined(combos[i])])
       \o (IF join = "RIGHT" THEN [i \in DOMAIN unhit |-> [none EXCEPT ![k] = src[k].rows[unhit[i]]]] ELSE <<>>)

\* did a condition that was evaluated raise an error?
JoinErr(combos, k, src, on) ==
  on.type # "none" /\
  \E i \in DOMAIN combos : \E r \in ToSet(Candidates(combos[i], k, src, on)) :
     Eval(on, RowContext([combos[i] EXCEPT ![k] = src[k].rows[r]], <<>>)).err

----------------------------------------------------------------------------
(* Output columns: [e, type, name, alias], type being that of the column   *)
(* they refer to, "" for a computed one.                                   *)

StarColumns(item, src) ==
  FlattenSeq([s \in DOMAIN src |->
    IF Qualified(src[s], item.e.qual)
    THEN [k \in DOMAIN src[s].cols |->
            [e |-> [type |-> "bound", s |-> s, c |-> k], type |-> src[s].cols[k].type, name |-> src[s].cols[k].name, alias |-> ""]]
    ELSE <<>>])
Outputs(q, src) ==
  LET column(item) ==
        LET e == Bind(item.e, [src |-> src, agg |-> TRUE, in_agg |-> FALSE, names |-> <<>>])
        IN [e |-> e, type |-> IF e.type = "bound" THEN src[e.s].cols[e.c].type ELSE "",
            name |-> IF item.alias # "" THEN item.alias ELSE IF item.e.type = "column" THEN item.e.name ELSE "expression",
            alias |-> item.alias]
  IN FlattenSeq([i \in DOMAIN q.cols |->
       IF q.cols[i].e.type = "star" THEN StarColumns(q.cols[i], src) ELSE <<column(q.cols[i])>>])
StarsKnown(q, src) ==
  \A i \in DOMAIN q.cols : q.cols[i].e.type = "star" => \E s \in DOMAIN src : Qualified(src[s], q.cols[i].e.qual)

\* ORDER BY: a position, an alias before a column, or an expression
OrderExpr(e, out, b) ==
  LET named == {k \in DOMAIN out : out[k].alias # "" /\ e.type = "column" /\ e.qual = "" /\ out[k].alias = e.name}
  IN IF e.type = "const" /\ e.val.is_int
     THEN IF inum(e.val) \in DOMAIN out THEN out[inum(e.val)].e ELSE Error("position")
     ELSE IF named # {} THEN [type |-> "alias", k |-> Min(named)] ELSE Bind(e, b)

\* every expression of the query, bound: what each clause may see
Plan(q, src, out) ==
  LET row == [src |-> src, agg |-> FALSE, in_agg |-> FALSE, names |-> <<>>]
      grp == [row EXCEPT !.names = [k \in DOMAIN out |-> out[k].alias]]
      agg == [grp EXCEPT !.agg = TRUE]
      group == BindAll(q.group, grp)
  IN [on |-> [j \in DOMAIN q.from |-> Bind(q.from[j].on, [row EXCEPT !.src = SubSeq(src, 1, j)])],
      where |-> Bind(q.where, row),
      group |-> [g \in DOMAIN group |->
                   IF group[g].type = "alias" /\ Holds(out[group[g].k].e, "agg") THEN Error("aggregate in GROUP BY") ELSE group[g]],
      having |-> Bind(q.having, agg),
      order |-> [i \in DOMAIN q.order |-> OrderExpr(q.order[i].e, out, agg)]]
PlanFails(p, out) ==
  \/ Bad(p.on) \/ Bad(p.group) \/ Bad(p.order) \/ Bad(<<p.where, p.having>>)
  \/ \E j \in DOMAIN out : Holds(out[j].e, "error")
Grouped(q, p, out) ==
  \/ q.group # <<>> \/ q.having.type # "none"
  \/ \E j \in DOMAIN out : Holds(out[j].e, "agg")
  \/ \E i \in DOMAIN p.order : Holds(p.order[i], "agg")

----------------------------------------------------------------------------
(* From combinations to the result. *)

GroupKey(v) == IF v.null THEN <<"null">> ELSE DistinctKey(v)

\* the contexts the output rows are made in: one per combination, or one per
\* group, in the order of the groups' first rows; aggregates without GROUP BY
\* make one group even of no row
KeyOf(cur, p, sel) == [g \in DOMAIN p.group |-> Eval(p.group[g], RowContext(cur, sel))]
Groups(combos, p, nsrc, sel) ==
  LET keys == [i \in DOMAIN combos |-> LET v == KeyOf(combos[i], p, sel) IN [g \in DOMAIN v |-> GroupKey(v[g])]]
      all == [i \in DOMAIN combos |-> i]
      firsts == SelectSeq(all, LAMBDA i : \A j \in 1..(i - 1) : keys[j] # keys[i])
      members(i) == SelectSeq(all, LAMBDA j : keys[j] = keys[i])
      rows(i) == [m \in DOMAIN members(i) |-> combos[members(i)[m]]]
  IN IF firsts = <<>> /\ p.group = <<>> THEN <<GroupContext([s \in 1..nsrc |-> <<>>], <<>>, sel)>>
     ELSE [g \in DOMAIN firsts |-> GroupContext(combos[firsts[g]], rows(firsts[g]), sel)]
Units(combos, p, grouped, nsrc, sel) ==
  IF grouped THEN Groups(combos, p, nsrc, sel) ELSE [i \in DOMAIN combos |-> RowContext(combos[i], sel)]

Cell(v, type) == [null |-> v.null, text |-> v.str,
                  type |-> IF v.null THEN "NULL" ELSE IF type # "" THEN type
                           ELSE IF v.is_int THEN "INT" ELSE IF v.is_num THEN "FLOAT" ELSE "VARCHAR"]
OutRow(c, p, out, i) ==
  LET vals == [j \in DOMAIN out |-> Eval(out[j].e, c)]
      keys == [k \in DOMAIN p.order |-> Eval(p.order[k], c)]
  IN [cells |-> [j \in DOMAIN out |-> Cell(vals[j], out[j].type)], keys |-> keys, pos |-> i,
      err |-> AnyErr(vals) \/ AnyErr(keys)]

key_cmp(a, b) == IF a.null \/ b.null THEN (IF a.null = b.null THEN 0 ELSE IF a.null THEN -1 ELSE 1) ELSE ev_cmp(a, b)
\* the first key that differs decides, the place in the input breaks a tie
out_row_less(desc, a, b) ==
  LET differ == {k \in DOMAIN desc : key_cmp(a.keys[k], b.keys[k]) # 0}
      k == Min(differ)
  IN IF differ = {} THEN a.pos < b.pos
     ELSE IF desc[k] THEN key_cmp(a.keys[k], b.keys[k]) > 0 ELSE key_cmp(a.keys[k], b.keys[k]) < 0
Sorted(rows, desc) == IF desc = <<>> THEN rows ELSE SortSeq(rows, LAMBDA a, b : out_row_less(desc, a, b))

Shown(row) == [j \in DOMAIN row.cells |-> <<row.cells[j].null, row.cells[j].text>>]
Distinct(rows) ==
  LET first == SelectSeq([i \in DOMAIN rows |-> i], LAMBDA i : \A j \in 1..(i - 1) : Shown(rows[j]) # Shown(rows[i]))
  IN [i \in DOMAIN first |-> rows[first[i]]]

Page(rows, q) ==   \* OFFSET and LIMIT; limit -1: none
  LET first == Min({q.offset, Len(rows)})
      count == IF q.limit >= 0 THEN Min({q.limit, Len(rows) - first}) ELSE Len(rows) - first
  IN SubSeq(rows, first + 1, first + count)

infer_type(rows, j) ==
  LET types == {rows[i].cells[j].type : i \in DOMAIN rows} \ {"NULL"}
  IN IF types = {} THEN "" ELSE IF types = {"INT"} THEN "INT"
     ELSE IF types \subseteq {"INT", "FLOAT"} THEN "FLOAT" ELSE "VARCHAR"
ResultType(col, rows, src, j) ==
  LET e == col.e IN
  IF col.type # "" THEN col.type
  ELSE IF e.type = "agg" /\ e.func = "COUNT" THEN "INT"
  ELSE IF e.type = "agg" /\ e.func = "AVG" THEN "FLOAT"
  ELSE IF e.type = "agg" /\ e.func \in {"MIN", "MAX"} /\ e.args[1].type = "bound"
       THEN src[e.args[1].s].cols[e.args[1].c].type
  ELSE infer_type(rows, j)

----------------------------------------------------------------------------
Failure(what) == [ok |-> FALSE, error |-> what]

RECURSIVE run_select(_, _, _)

\* a table is read later, a view is run now; its columns take the types of
\* its result and its cells are stored again as texts
source_open(db, f, depth) ==
  LET name == IF f.alias # "" THEN f.alias ELSE f.table
      r == run_select(db, db.views[f.table], depth + 1)
      type(j) == IF r.cols[j].type = "" THEN "VARCHAR" ELSE r.cols[j].type
      cell(c, j) == IF c.null THEN NullV ELSE Stored(type(j), c.text)
  IN IF f.table \in DOMAIN db.tables
     THEN [ok |-> TRUE, name |-> name, table |-> f.table, view |-> FALSE,
           cols |-> db.tables[f.table].cols, rows |-> db.tables[f.table].rows]
     ELSE IF f.table \notin DOMAIN db.views THEN Failure("not found")
     ELSE IF depth >= MaxViewDepth THEN Failure("nested too deeply")
     ELSE IF ~r.ok THEN Failure(r.error)
     ELSE [ok |-> TRUE, name |-> name, table |-> f.table, view |-> TRUE,
           cols |-> [j \in DOMAIN r.cols |-> [name |-> r.cols[j].name, type |-> type(j), indexed |-> FALSE]],
           rows |-> [i \in DOMAIN r.rows |-> [j \in DOMAIN r.cols |-> cell(r.rows[i][j], j)]]]

\* sources, output columns and plan of a query, or the failure to make them
Prepare(db, q, depth) ==
  LET src == [i \in DOMAIN q.from |-> source_open(db, q.from[i], depth)]
      out == Outputs(q, src)
      plan == Plan(q, src, out)
      wrong == {i \in DOMAIN src : ~src[i].ok}
  IN IF wrong # {} THEN Failure(src[Min(wrong)].error)
     ELSE IF \E i, j \in DOMAIN src : i # j /\ src[i].name = src[j].name THEN Failure("used twice")
     ELSE IF ~StarsKnown(q, src) THEN Failure("star")
     ELSE IF Len(out) > MaxColumns THEN Failure("too many columns")
     ELSE IF PlanFails(plan, out) THEN Failure("binding")
     ELSE [ok |-> TRUE, src |-> src, out |-> out, plan |-> plan]

\* the rows of the result before OFFSET and LIMIT, or a failure
Rows(q, p) ==
  LET n == Len(p.src)
      src == [i \in 1..n |-> [p.src[i] EXCEPT !.rows = source_load(p.src[i], IF n = 1 THEN p.plan.where ELSE None)]]
      none == [s \in 1..n |-> <<>>]
      start == IF n = 0 THEN <<none>> ELSE [i \in DOMAIN src[1].rows |-> [none EXCEPT ![1] = src[1].rows[i]]]
      joined[k \in 1..n] == IF k = 1 THEN start ELSE join_step(joined[k - 1], k, src, q.from[k].join, p.plan.on[k])
      combos == IF n = 0 THEN start ELSE joined[n]
      sel == [j \in DOMAIN p.out |-> p.out[j].e]
      errs(e, cs) == e.type # "none" /\ \E i \in DOMAIN cs : Eval(e, cs[i]).err
      kept == SelectSeq(combos, LAMBDA c : eval_cond(p.plan.where, RowContext(c, sel)))
      groups == Units(kept, p.plan, Grouped(q, p.plan, p.out), n, sel)
      units == SelectSeq(groups, LAMBDA c : eval_cond(p.plan.having, c))
      rows == [i \in DOMAIN units |-> OutRow(units[i], p.plan, p.out, i)]
  IN IF \E k \in 2..n : JoinErr(joined[k - 1], k, src, p.plan.on[k]) THEN Failure("evaluation")
     ELSE IF errs(p.plan.where, [i \in DOMAIN combos |-> RowContext(combos[i], sel)]) THEN Failure("evaluation")
     ELSE IF \E i \in DOMAIN kept : AnyErr(KeyOf(kept[i], p.plan, sel)) THEN Failure("evaluation")
     ELSE IF errs(p.plan.having, groups) THEN Failure("evaluation")
     ELSE IF \E i \in DOMAIN rows : rows[i].err THEN Failure("evaluation")
     ELSE [ok |-> TRUE, src |-> src, kept |-> kept, groups |-> groups,
           rows |-> Sorted(IF q.distinct THEN Distinct(rows) ELSE rows, [k \in DOMAIN q.order |-> q.order[k].desc])]

run_select(db, q, depth) ==
  LET p == Prepare(db, q, depth)
      all == Rows(q, p)
      rows == Page(all.rows, q)
  IN IF ~p.ok THEN p ELSE IF ~all.ok THEN all
     ELSE [ok |-> TRUE,
           cols |-> [j \in DOMAIN p.out |-> [name |-> p.out[j].name, type |-> ResultType(p.out[j], rows, p.src, j)]],
           rows |-> [i \in DOMAIN rows |-> rows[i].cells]]
============================================================================
