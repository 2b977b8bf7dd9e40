------------------------------- MODULE Query -------------------------------
(***************************************************************************)
(* A client asks queries and the executor answers them; what the answers   *)
(* must be is stated without the executor's plan: no index, no hash table, *)
(* no order of evaluation.  A question x is [db, q], q a SELECT or an      *)
(* INSERT; the properties speak of each step that asks one.                *)
(***************************************************************************)
EXTENDS Insert
LOCAL INSTANCE SequencesExt

CONSTANTS Selects, Inserts   \* the questions

VARIABLE asked

Nothing == [what |-> "nothing"]
AskSelect == asked = Nothing /\ asked' \in Selects
AskInsert == asked = Nothing /\ asked' \in Inserts

IsSelect(x) == "q" \in DOMAIN x /\ "from" \in DOMAIN x.q
IsInsert(x) == "q" \in DOMAIN x /\ "into" \in DOMAIN x.q
Selected(x) == run_select(x.db, x.q, 0)

----------------------------------------------------------------------------
(* The definition of a SELECT.  Rows of a table differ from each other, so *)
(* a set of combinations stands for the bag of them.                       *)

RECURSIVE Join(_, _, _, _)
Join(from, k, src, plan) ==
  LET none == [s \in DOMAIN src |-> <<>>]
      prev == Join(from, k - 1, src, plan)
      put(c, row) == [c EXCEPT ![k] = row]
      rows == ToSet(src[k].rows)
      pairs == {p \in prev \X rows : eval_cond(plan.on[k], RowContext(put(p[1], p[2]), <<>>))}
  IN IF k = 0 THEN {none}
     ELSE {put(p[1], p[2]) : p \in pairs}
            \cup (IF from[k].join = "LEFT" THEN {c \in prev : \A row \in rows : <<c, row>> \notin pairs} ELSE {})
            \cup (IF from[k].join = "RIGHT" THEN {put(none, row) : row \in {r \in rows : \A c \in prev : <<c, r>> \notin pairs}} ELSE {})

\* joins and WHERE keep exactly the combinations for which the conditions hold
JoinsAsDefined(x, p, all) ==
  LET sel == [j \in DOMAIN p.out |-> p.out[j].e]
      wanted == {c \in Join(x.q.from, Len(p.src), p.src, p.plan) : eval_cond(p.plan.where, RowContext(c, sel))}
  IN ToSet(all.kept) = wanted /\ Len(all.kept) = Cardinality(wanted)

\* every combination is in one group, and two are in the same one exactly if
\* their keys are equal or both NULL
GroupsAsDefined(x, p, all) ==
  LET sel == [j \in DOMAIN p.out |-> p.out[j].e]
      equal(c, d) == \A g \in DOMAIN p.plan.group : key_cmp(KeyOf(c, p.plan, sel)[g], KeyOf(d, p.plan, sel)[g]) = 0
      members == {ToSet(all.groups[g].grp) : g \in DOMAIN all.groups}
  IN Grouped(x.q, p.plan, p.out) =>
       /\ UNION members = ToSet(all.kept)
       /\ \A c, d \in ToSet(all.kept) : equal(c, d) <=> \E m \in members : {c, d} \subseteq m
       /\ p.plan.group # <<>> => {} \notin members

\* the result is sorted by the keys, without DISTINCT it has one row per unit,
\* with it no two equal ones, and LIMIT and OFFSET cut it into pages
PagesAsDefined(x, p, answer, all) ==
  LET r == all.rows
      page(k) == run_select(x.db, [x.q EXCEPT !.limit = 1, !.offset = k], 0).rows
      desc(k) == x.q.order[k].desc
      before(a, b) == \E k \in DOMAIN p.plan.order :
        /\ \A j \in 1..(k - 1) : key_cmp(a.keys[j], b.keys[j]) = 0
        /\ key_cmp(a.keys[k], b.keys[k]) = (IF desc(k) THEN -1 ELSE 1)
  IN /\ \A i, j \in DOMAIN r : i < j => ~before(r[i], r[j])
     /\ x.q.distinct => \A i, j \in DOMAIN r : i # j => Shown(r[i]) # Shown(r[j])
     /\ x.q.limit < 0 /\ x.q.offset = 0 =>
          answer.rows = FlattenSeq([k \in 1..Len(r) |-> page(k - 1)])
     /\ Len(answer.rows) <= Len(r)

MeetsDefinition(x) ==
  LET answer == Selected(x)
      p == Prepare(x.db, x.q, 0)
      all == Rows(x.q, p)
  IN answer.ok => JoinsAsDefined(x, p, all) /\ GroupsAsDefined(x, p, all) /\ PagesAsDefined(x, p, answer, all)
\* An answer is what SQL defines: the plan (index or scan, hash or nested loop,
\* hashed groups, sorting of positions) may not change it.
\* run_select, join_step, source_load and their helpers.
SelectMeetsDefinition == [][IsSelect(asked') => MeetsDefinition(asked')]_asked

Partitioned(x) ==
  LET answer == Selected(x)
      ask(w) == run_select(x.db, [x.q EXCEPT !.where = w], 0)
      w == x.q.where
      parts == <<answer, ask([type |-> "unary", op |-> "NOT", left |-> w]),
                 ask([type |-> "unary", op |-> "IS NULL", left |-> w])>>
      rows == FlattenSeq([i \in 1..3 |-> parts[i].rows])
      all == ask(None).rows
      prepared == Prepare(x.db, x.q, 0)
  IN (answer.ok /\ w.type # "none" /\ ~Grouped(x.q, prepared.plan, prepared.out)
         /\ x.q.limit < 0 /\ ~x.q.distinct /\ parts[2].ok)
       => /\ \A i \in 1..3 : parts[i].ok
          /\ Len(rows) = Len(all) /\ ToSet(rows) = ToSet(all)
\* For every condition each row satisfies exactly one of p, NOT p and p IS
\* NULL, so the three queries together return every row once, whatever index
\* each of them uses.
TernaryPartition == [][IsSelect(asked') => Partitioned(asked')]_asked

ReadsAsView(x) ==
  LET answer == Selected(x)
      star == [e |-> [type |-> "star", qual |-> ""], alias |-> ""]
      read == [x.q EXCEPT !.from = <<[table |-> "view", alias |-> "", join |-> "FROM", on |-> None]>>,
                              !.cols = <<star>>, !.where = None, !.group = <<>>, !.having = None,
                              !.distinct = FALSE, !.order = <<>>, !.limit = -1, !.offset = 0]
      db == [x.db EXCEPT !.views = [v \in DOMAIN @ \cup {"view"} |-> IF v = "view" THEN x.q ELSE @[v]]]
      shown == run_select(db, read, 0)
      fits == \A i \in DOMAIN answer.rows : \A j \in DOMAIN answer.cols :
                (answer.cols[j].type = "INT" /\ ~answer.rows[i][j].null)
                  => Whole(strtod(answer.rows[i][j].text).num) \in (-IntMax - 1)..IntMax
      plain(rows) == [i \in DOMAIN rows |-> [j \in DOMAIN rows[i] |-> <<rows[i][j].null, rows[i][j].text>>]]
  IN answer.ok /\ fits => shown.ok /\ plain(shown.rows) = plain(answer.rows)
\* Reading a view shows the result of its query, cell by cell, as long as its
\* computed integers fit the INT column the view gives them.
ViewIsItsQuery == [][IsSelect(asked') => ReadsAsView(asked')]_asked

Kept(x) ==
  LET answer == exec_insert(x.db, x.q)
      ts == x.db.tables[x.q.into]
      cols == ts.cols
      targets == Targets(cols, x.q)
      vals(r) == Values(x.q.values[r])
      same(v, given, col) ==
        IF given.null THEN v.null \/ col.auto
        ELSE IF col.type \in TextTypes THEN v.str = given.str ELSE key_cmp(v, given) = 0
      all == [j \in DOMAIN ts.rows |-> ts.rows[j]] \o answer.rows
  IN answer.ok =>
     /\ \A r \in DOMAIN answer.rows : \A k \in DOMAIN targets :
          same(answer.rows[r][targets[k]], vals(r)[k], cols[targets[k]])
     /\ \A i, j \in DOMAIN all : i # j => RowKey(cols, all[i]) = {} \/ RowKey(cols, all[i]) # RowKey(cols, all[j])
     /\ \A r \in DOMAIN answer.rows : \A c \in DOMAIN cols :
          cols[c].auto /\ (c \notin ToSet(targets) \/ vals(r)[CHOOSE k \in DOMAIN targets : targets[k] = c].null)
            => \A i \in 1..(Len(ts.rows) + r - 1) : all[i][c].num < answer.rows[r][c].num
\* An INSERT that is accepted reads back as it was given: numbers as the same
\* number, texts as the same text; keys stay different and the generated
\* numbers are new.  check_value against value_set_from_text.
AcceptedIsKept == [][IsInsert(asked') => Kept(asked')]_asked
============================================================================
