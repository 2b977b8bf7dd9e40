------------------------------- MODULE Insert -------------------------------
(***************************************************************************)
(* The half of exec_insert of src/src/query/executor.c that decides what   *)
(* an INSERT stores; Table.tla has the half that writes it.  A column also *)
(* has size, nullable, pk, auto and default (<<>>: none); a statement is   *)
(* [into, columns, values], columns being <<>> when none is named and      *)
(* values a sequence of rows of expressions.                               *)
(***************************************************************************)
EXTENDS Select
LOCAL INSTANCE SequencesExt
LOCAL INSTANCE FiniteSetsExt

ColumnNamed(cols, name) == {i \in DOMAIN cols : cols[i].name = name}
Targets(cols, stmt) ==   \* the columns the values go to; 0: unknown
  IF stmt.columns = <<>> THEN [i \in DOMAIN cols |-> i]
  ELSE [k \in DOMAIN stmt.columns |-> IF ColumnNamed(cols, stmt.columns[k]) = {} THEN 0
                                      ELSE Min(ColumnNamed(cols, stmt.columns[k]))]

\* the values are expressions without columns
Values(row) == [k \in DOMAIN row |-> Eval(Bind(row[k], [src |-> <<>>, agg |-> FALSE, in_agg |-> FALSE, names |-> <<>>]),
                                          RowContext(<<>>, <<>>))]
BindFails(stmt) ==
  \E r \in DOMAIN stmt.values : \E k \in DOMAIN stmt.values[r] :
    Holds(Bind(stmt.values[r][k], [src |-> <<>>, agg |-> FALSE, in_agg |-> FALSE, names |-> <<>>]), "error")

NoText == <<"none">>   \* the pointer NULL, where a text is <<"text", s>>

\* what is stored in column i: the value given, the default, or the next number
Given(targets, vals, i) ==
  LET k == CHOOSE k \in DOMAIN targets : targets[k] = i
  IN IF vals[k].null THEN NoText ELSE <<"text", vals[k].str>>
TextFor(col, i, targets, vals, next) ==
  LET text == IF i \in ToSet(targets) THEN Given(targets, vals, i)
              ELSE IF col.default \notin {<<>>, <<"NULL">>} THEN <<"text", col.default>> ELSE NoText
  IN IF col.auto /\ text = NoText THEN <<"text", NumberText((next + 1) * SCALE)>> ELSE text
NextAutoLast(col, text, next) ==   \* a slip: a smaller number given moves it back
  IF col.auto THEN strtoll(text[2]) ELSE next
NextAuto(col, text, next) == IF col.auto THEN Max({next, strtoll(text[2])}) ELSE next

RowKey(cols, row) == {row[i].str : i \in {i \in DOMAIN cols : cols[i].pk}}

\* one row after the others: acc is [ok, next, rows], next being the greatest
\* number of the AUTO_INCREMENT column so far
AddRow(ts, targets, acc, row) ==
  LET vals == Values(row)
      text == [i \in DOMAIN ts.cols |-> TextFor(ts.cols[i], i, targets, vals, acc.next)]
      refused(i) == IF text[i] = NoText THEN ~ts.cols[i].nullable \/ ts.cols[i].pk
                    ELSE ~check_value(ts.cols[i].type, ts.cols[i].size, text[i][2])
      stored == [i \in DOMAIN text |-> IF text[i] = NoText THEN NullV ELSE Stored(ts.cols[i].type, text[i][2])]
      taken == {RowKey(ts.cols, ts.rows[j]) : j \in DOMAIN ts.rows} \cup {RowKey(ts.cols, acc.rows[j]) : j \in DOMAIN acc.rows}
      auto == {i \in DOMAIN ts.cols : ts.cols[i].auto}
  IN IF \/ ~acc.ok \/ AnyErr(vals) \/ \E i \in DOMAIN text : refused(i)
        \/ RowKey(ts.cols, stored) # {} /\ RowKey(ts.cols, stored) \in taken
        \/ auto # {} /\ acc.next = BigMax /\ text[Min(auto)] = <<"text", NumberText((BigMax + 1) * SCALE)>>
     THEN [acc EXCEPT !.ok = FALSE]
     ELSE [ok |-> TRUE, rows |-> Append(acc.rows, stored),
           next |-> IF auto = {} THEN acc.next ELSE NextAuto(ts.cols[Min(auto)], text[Min(auto)], acc.next)]

Greatest(ts) ==   \* max_int of the index of the AUTO_INCREMENT column
  LET nums == {inum(ts.rows[j][i]) : j \in DOMAIN ts.rows, i \in {i \in DOMAIN ts.cols : ts.cols[i].auto}}
  IN IF nums = {} THEN 0 ELSE Max(nums)

\* the rows an INSERT adds, or its failure: nothing is written before all the
\* rows have passed
exec_insert(db, stmt) ==
  LET ts == db.tables[stmt.into]
      targets == Targets(ts.cols, stmt)
      all == FoldLeft(LAMBDA acc, row : AddRow(ts, targets, acc, row), [ok |-> TRUE, next |-> Greatest(ts), rows |-> <<>>],
                      stmt.values)
  IN IF stmt.into \notin DOMAIN db.tables THEN Failure("not found")
     ELSE IF 0 \in ToSet(targets) THEN Failure("unknown column")
     ELSE IF ~IsInjective(targets) THEN Failure("listed twice")
     ELSE IF \E r \in DOMAIN stmt.values : Len(stmt.values[r]) # Len(targets) THEN Failure("column count")
     ELSE IF BindFails(stmt) THEN Failure("binding")
     ELSE IF ~all.ok THEN Failure("refused")
     ELSE [ok |-> TRUE, rows |-> all.rows]
============================================================================
