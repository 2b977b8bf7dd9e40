---------------------------- MODULE Expressions ----------------------------
(***************************************************************************)
(* The values and expressions of src/src/query/executor.c and the cells of *)
(* src/src/table/tuple.c.  A text is a sequence of characters; a number is *)
(* kept in SCALE-ths, so that the decimals that occur are exact.  Case,    *)
(* UTF-8 and the last bits of a double are left out.                       *)
(***************************************************************************)
LOCAL INSTANCE Integers
LOCAL INSTANCE Sequences
LOCAL INSTANCE FiniteSets
LOCAL INSTANCE SequencesExt
LOCAL INSTANCE FiniteSetsExt

CONSTANTS
  Alphabet,   \* the characters in the order of their codes (strcmp)
  SCALE,      \* numbers are counted in 1/SCALE
  IntMax,     \* an INT column holds -IntMax-1 .. IntMax
  BigMax,     \* the 64 bit integers: -BigMax-1 .. BigMax
  TextMax     \* EV_STR_MAX

Digit == <<"0", "1", "2", "3", "4", "5", "6", "7", "8", "9">>
DigitValue == [d \in ToSet(Digit) |-> CHOOSE i \in 0..9 : Digit[i + 1] = d]
Rank == [ch \in ToSet(Alphabet) |-> CHOOSE i \in DOMAIN Alphabet : Alphabet[i] = ch]

----------------------------------------------------------------------------
(* Texts and numbers. *)

RECURSIVE Natural(_)
Natural(n) == IF n < 10 THEN <<Digit[n + 1]>> ELSE Natural(n \div 10) \o <<Digit[(n % 10) + 1]>>

\* the text of n SCALE-ths: "%lld" of a whole number, "%.15g" cut to two
\* decimals otherwise
NumberText(n) ==
  LET a == IF n < 0 THEN -n ELSE n
      h == ((a % SCALE) * 100) \div SCALE
      decimals == IF h % 10 = 0 THEN <<Digit[(h \div 10) + 1]>>
                  ELSE <<Digit[(h \div 10) + 1], Digit[(h % 10) + 1]>>
  IN (IF n < 0 THEN <<"-">> ELSE <<>>) \o Natural(a \div SCALE)
       \o (IF a % SCALE = 0 THEN <<>> ELSE <<".">> \o decimals)

DigitsFrom(s, i) ==   \* the end of the run of digits that starts at i
  Min({j \in i..Len(s) + 1 : j = Len(s) + 1 \/ s[j] \notin ToSet(Digit)})
NumberOf(s) == FoldLeft(LAMBDA acc, ch : acc * 10 + DigitValue[ch], 0, s)

\* strtod: the longest prefix [-]digits[.digits][e digits]
strtod(s) ==
  LET neg == s # <<>> /\ s[1] = "-"
      i == IF neg THEN 2 ELSE 1
      j == DigitsFrom(s, i)
      dot == j > i /\ j <= Len(s) /\ s[j] = "."
      k == IF dot THEN DigitsFrom(s, j + 1) ELSE j
      e == IF j > i /\ k <= Len(s) /\ s[k] = "e" THEN DigitsFrom(s, k + 1) ELSE k
      exponent == IF e > k + 1 THEN NumberOf(SubSeq(s, k + 1, e - 1)) ELSE 0
      frac == IF k > j + 1 THEN (NumberOf(SubSeq(s, j + 1, k - 1)) * SCALE) \div 10^(k - j - 1) ELSE 0
      num == (NumberOf(SubSeq(s, i, j - 1)) * SCALE + frac) * 10^exponent
  IN [num |-> IF neg THEN -num ELSE num, end |-> IF j = i THEN 1 ELSE IF e > k + 1 THEN e ELSE k]
\* strtoll, atoi and atoll stop at the first character that is no digit
strtoll(s) ==
  LET neg == s # <<>> /\ s[1] = "-"
      i == IF neg THEN 2 ELSE 1
      n == NumberOf(SubSeq(s, i, DigitsFrom(s, i) - 1))
  IN IF neg THEN -n ELSE n
text_is_number(s) == s # <<>> /\ strtod(s).end = Len(s) + 1

strcmp(s, t) ==
  LET diff == {i \in 1..Len(s) : i > Len(t) \/ s[i] # t[i]}
      i == Min(diff)
  IN IF diff = {} THEN (IF Len(t) > Len(s) THEN -1 ELSE 0)
     ELSE IF i > Len(t) THEN 1 ELSE IF Rank[s[i]] < Rank[t[i]] THEN -1 ELSE 1

RECURSIVE like_match(_, _)
like_match(s, p) ==
  IF p = <<>> THEN s = <<>>
  ELSE IF Head(p) = "%" THEN \E k \in 0..Len(s) : like_match(SubSeq(s, k + 1, Len(s)), Tail(p))
  ELSE s # <<>> /\ (Head(p) = "_" \/ Head(p) = Head(s)) /\ like_match(Tail(s), Tail(p))

----------------------------------------------------------------------------
(* Computed values (EvalVal); "err" is set where the code calls ctx_error. *)

NullV == [null |-> TRUE, is_num |-> FALSE, is_int |-> FALSE, num |-> 0, str |-> <<>>, err |-> FALSE]
ErrorV == [NullV EXCEPT !.err = TRUE]
IntV(x) == [NullV EXCEPT !.null = FALSE, !.is_num = TRUE, !.is_int = TRUE, !.num = x * SCALE,
                         !.str = NumberText(x * SCALE)]
NumV(n) == [NullV EXCEPT !.null = FALSE, !.is_num = TRUE, !.num = n, !.str = NumberText(n)]
TextV(s) == IF Len(s) > TextMax THEN ErrorV ELSE [NullV EXCEPT !.null = FALSE, !.str = s]
BoolV(b) == IntV(IF b THEN 1 ELSE 0)
inum(v) == v.num \div SCALE

ev_as_num(v) == IF v.is_num THEN v.num ELSE strtod(v.str).num
Sign(x) == IF x < 0 THEN -1 ELSE IF x > 0 THEN 1 ELSE 0
ev_cmp(a, b) ==
  LET txt == IF a.is_num THEN b ELSE a IN
  IF a.is_num /\ b.is_num THEN Sign(a.num - b.num)
  ELSE IF (a.is_num \/ b.is_num) /\ text_is_number(txt.str) THEN Sign(ev_as_num(a) - ev_as_num(b))
  ELSE strcmp(a.str, b.str)
TruthOfNull(v) == IF ev_as_num(v) # 0 THEN 1 ELSE 0   \* a slip: NULL is false
ev_truth(v) == IF v.null THEN -1 ELSE IF ev_as_num(v) # 0 THEN 1 ELSE 0

\* an integer in the range of a signed type: atoi keeps the low bits
Wrap(x, max) == ((x + max + 1) % (2 * (max + 1))) - max - 1
Clamp(x, max) == Max({-max - 1, Min({max, x})})   \* atoll stops at the ends
Whole(n) == IF n < 0 THEN -((-n) \div SCALE) ELSE n \div SCALE   \* (int64_t)x

IntTypes == {"INT", "BIGINT"}
TextTypes == {"VARCHAR", "DATE"}

StoredWhole(ty, text) ==   \* a slip: decimals are cut off
  IF ty \in IntTypes \cup {"FLOAT", "DECIMAL"} THEN IntV(Whole(strtod(text).num)) ELSE TextV(text)

\* what a cell of a column of type ty reads back after the text was stored in it
Stored(ty, text) ==
  CASE ty = "INT"     -> IntV(Wrap(strtoll(text), IntMax))
    [] ty = "BIGINT"  -> IntV(Clamp(strtoll(text), BigMax))
    [] ty = "FLOAT"   -> NumV(strtod(text).num)
    [] ty = "BOOL"    -> BoolV(text = <<"1">>)
    [] ty = "DECIMAL" -> [NullV EXCEPT !.null = FALSE, !.str = text, !.is_num = text_is_number(text),
                                       !.num = IF text_is_number(text) THEN strtod(text).num ELSE 0]
    [] OTHER          -> [NullV EXCEPT !.null = FALSE, !.str = text]

\* does the executor accept the text for the column?
\* (an integer may be written 3.0)
check_value(ty, size, text) ==
  CASE ty = "INT"    -> /\ text_is_number(text) /\ strtod(text).num % SCALE = 0
                        /\ Whole(strtod(text).num) \in (-IntMax - 1)..IntMax
    [] ty = "BIGINT" -> /\ text_is_number(text) /\ strtod(text).num % SCALE = 0
                        /\ Whole(strtod(text).num) \in (-BigMax - 1)..BigMax
    [] ty \in {"FLOAT", "DECIMAL"} -> text_is_number(text)
    [] ty = "BOOL"    -> text \in {<<"0">>, <<"1">>}
    [] ty = "VARCHAR" -> size = 0 \/ Len(text) <= size
    [] OTHER          -> TRUE

----------------------------------------------------------------------------
(* Scalar functions.  args are the argument values; the caller has already *)
(* treated those that do not evaluate all of them.                         *)

Piece(s, start, count) ==
  IF count <= 0 \/ start > Len(s) THEN <<>> ELSE SubSeq(s, start, Min({start + count - 1, Len(s)}))
substring(s, start, count) ==
  LET from == IF start < 0 THEN Len(s) + start + 1 ELSE start
  IN IF from < 1 THEN <<>> ELSE Piece(s, from, count)
right(s, count) == Piece(s, Max({1, Len(s) - count + 1}), count)

RECURSIVE replace(_, _, _)
replace(s, from, to) ==
  IF s = <<>> THEN <<>>
  ELSE IF from # <<>> /\ IsPrefix(from, s) THEN to \o replace(SubSeq(s, Len(from) + 1, Len(s)), from, to)
  ELSE <<Head(s)>> \o replace(Tail(s), from, to)

\* fmod and %: the sign of the dividend
Remainder(x, y) == IF x < 0 THEN -((-x) % Max({y, -y})) ELSE x % Max({y, -y})
Round(n) == IF n < 0 THEN -(((SCALE \div 2) - n) \div SCALE) ELSE (n + (SCALE \div 2)) \div SCALE

Scalar(f, a) ==
  LET s == a[1].str
      x == ev_as_num(a[1])
      n(i) == Whole(ev_as_num(a[i]))
  IN IF f = "NULLIF" THEN IF a[1].null \/ (~a[2].null /\ ev_cmp(a[1], a[2]) = 0) THEN NullV ELSE a[1]
     ELSE IF \E i \in DOMAIN a : a[i].null THEN NullV
     ELSE CASE f = "LENGTH" -> IntV(Len(s))
       [] f = "LEFT"    -> TextV(Piece(s, 1, n(2)))
       [] f = "RIGHT"   -> TextV(right(s, n(2)))
       [] f = "SUBSTRING" -> TextV(substring(s, n(2), IF Len(a) > 2 THEN n(3) ELSE Len(s)))
       [] f = "REPLACE" -> TextV(replace(s, a[2].str, a[3].str))
       [] f = "REVERSE" -> TextV(Reverse(s))
       [] f = "ABS"     -> IF a[1].is_int /\ inum(a[1]) # -BigMax - 1 THEN IntV(Max({inum(a[1]), -inum(a[1])})) ELSE NumV(Max({x, -x}))
       [] f = "SIGN"    -> IntV(Sign(x))
       [] f = "FLOOR"   -> IntV(x \div SCALE)
       [] f = "CEIL"    -> IntV(-((-x) \div SCALE))
       [] f = "ROUND"   -> IntV(Round(x))
       [] f = "MOD"     -> LET y == ev_as_num(a[2])
                               r == Remainder(x, y)
                           IN IF y = 0 THEN NullV
                              ELSE IF a[1].is_int /\ a[2].is_int THEN IntV(r \div SCALE) ELSE NumV(r)

\* a NULL argument makes CONCAT NULL; CONCAT_WS skips it, a NULL separator does not
Concat(a) ==
  IF \E i \in DOMAIN a : a[i].null THEN NullV
  ELSE TextV(FlattenSeq([i \in DOMAIN a |-> a[i].str]))
ConcatWs(a) ==
  LET parts == SelectSeq(Tail(a), LAMBDA v : ~v.null)
  IN IF a[1].null THEN NullV
     ELSE TextV(FlattenSeq([i \in DOMAIN parts |-> (IF i = 1 THEN <<>> ELSE a[1].str) \o parts[i].str]))

----------------------------------------------------------------------------
(* Operators. *)

Arithmetic(op, a, b) ==
  LET x == ev_as_num(a)
      y == ev_as_num(b)
      whole(v, n) == v.is_int \/ (~v.is_num /\ n % SCALE = 0 /\ {".", "e"} \cap ToSet(v.str) = {})
      n == CASE op = "+" -> x + y [] op = "-" -> x - y [] op = "*" -> (x * y) \div SCALE
  IN IF whole(a, x) /\ whole(b, y)
     THEN IF Whole(n) \in (-BigMax - 1)..BigMax THEN IntV(Whole(n)) ELSE ErrorV
     ELSE NumV(n)
Divide(a, b) == IF ev_as_num(b) = 0 THEN NullV ELSE NumV((ev_as_num(a) * SCALE) \div ev_as_num(b))

Compare(op, c) == CASE op = "=" -> c = 0 [] op = "<>" -> c # 0 [] op = "<" -> c < 0
                    [] op = ">" -> c > 0 [] op = "<=" -> c <= 0 [] op = ">=" -> c >= 0
Binary(op, a, b) ==
  IF a.null \/ b.null THEN NullV
  ELSE CASE op \in {"=", "<>", "<", ">", "<=", ">="} -> BoolV(Compare(op, ev_cmp(a, b)))
         [] op = "LIKE"     -> BoolV(like_match(a.str, b.str))
         [] op = "NOT LIKE" -> BoolV(~like_match(a.str, b.str))
         [] op \in {"+", "-", "*"} -> Arithmetic(op, a, b)
         [] op = "/"        -> Divide(a, b)
Unary(op, a) ==
  CASE op = "IS NULL"     -> BoolV(a.null)
    [] op = "IS NOT NULL" -> BoolV(~a.null)
    [] op = "NOT"         -> IF ev_truth(a) < 0 THEN NullV ELSE BoolV(ev_truth(a) = 0)
    [] op = "NEG"         -> IF a.null THEN NullV ELSE IF a.is_int /\ inum(a) # -BigMax - 1 THEN IntV(-inum(a)) ELSE NumV(-ev_as_num(a))

\* AND and OR of three-valued logic; the right side only counts when the left
\* does not decide
Logic(op, a, b) ==
  LET decides == IF op = "AND" THEN 0 ELSE 1
  IN CASE ev_truth(a) = decides -> IntV(decides)
       [] ev_truth(a) # decides /\ ev_truth(b) = decides -> IntV(decides)
       [] OTHER -> IF ev_truth(a) < 0 \/ ev_truth(b) < 0 THEN NullV ELSE IntV(1 - decides)

\* an error met while evaluating stays with the value
Tainted(v, e) == [v EXCEPT !.err = @ \/ e]
AnyErr(a) == \E i \in DOMAIN a : a[i].err
\* most functions stop at the first NULL argument
ErrToNull(a) == \E i \in DOMAIN a : a[i].err /\ \A j \in 1..(i - 1) : ~a[j].null

----------------------------------------------------------------------------
(* Expressions.  A context has the current row of every source (cur, a     *)
(* missing row of an outer join is <<>>), the rows of the group (grp, when *)
(* grouped) and the SELECT list (sel).                                     *)

None == [type |-> "none"]       \* an expression that is not given
Const(v) == [type |-> "const", val |-> v]

RECURSIVE Eval(_, _), EvalSome(_, _, _)

\* the first argument that is not NULL (COALESCE, IFNULL)
EvalSome(args, i, c) ==
  IF i > Len(args) THEN NullV
  ELSE LET v == Eval(args[i], c)
       IN IF ~v.null \/ i = Len(args) THEN v ELSE Tainted(EvalSome(args, i + 1, c), v.err)

DistinctKey(v) == IF v.is_num THEN <<"n", v.num>> ELSE <<"s", v.str>>

\* COUNT, SUM, AVG, MIN and MAX over the rows of the group
Aggregate(e, c) ==
  LET all == [k \in DOMAIN c.grp |-> Eval(e.args[1], [c EXCEPT !.cur = c.grp[k]])]
      err == AnyErr(all)
      given == SelectSeq(all, LAMBDA v : ~v.null)
      vals == IF ~e.distinct THEN given
              ELSE LET first == {i \in DOMAIN given : \A j \in 1..(i - 1) : DistinctKey(given[j]) # DistinctKey(given[i])}
                   IN [i \in 1..Cardinality(first) |-> given[SetToSortSeq(first, <)[i]]]
      sum == FoldLeft(LAMBDA acc, v : acc + ev_as_num(v), 0, vals)
      upto(k) == FoldLeft(LAMBDA acc, v : acc + v.num, 0, SubSeq(vals, 1, k))
      whole == \A k \in DOMAIN vals : vals[k].is_int /\ Whole(upto(k)) \in (-BigMax - 1)..BigMax
      better(v, w) == IF e.func = "MIN" THEN ev_cmp(v, w) < 0 ELSE ev_cmp(v, w) > 0
      best == FoldLeft(LAMBDA w, v : IF better(v, w) THEN v ELSE w, vals[1], vals)
  IN IF ~c.grouped THEN ErrorV
     ELSE IF e.args = <<>> THEN IntV(Len(c.grp))
     ELSE Tainted(IF e.func = "COUNT" THEN IntV(Len(vals))
                  ELSE IF vals = <<>> THEN NullV
                  ELSE CASE e.func = "SUM" -> IF whole THEN IntV(Whole(sum)) ELSE NumV(sum)
                         [] e.func = "AVG" -> NumV(sum \div Len(vals))
                         [] e.func \in {"MIN", "MAX"} -> best, err)

Call(e, c) ==
  LET a == [i \in DOMAIN e.args |-> Eval(e.args[i], c)]
  IN CASE e.func = "COALESCE" -> EvalSome(e.args, 1, c)
       [] e.func = "IFNULL"   -> EvalSome(e.args, 1, c)
       [] e.func = "IF" -> Tainted(Eval(e.args[IF ev_truth(a[1]) = 1 THEN 2 ELSE 3], c), a[1].err)
       [] e.func = "CONCAT"    -> Tainted(Concat(a), ErrToNull(a))
       [] e.func = "CONCAT_WS" -> Tainted(ConcatWs(a), IF a[1].null THEN a[1].err ELSE AnyErr(a))
       [] OTHER -> Tainted(Scalar(e.func, a), IF e.func = "NULLIF" THEN AnyErr(a) ELSE ErrToNull(a))

Eval(e, c) ==
  CASE e.type = "const"  -> e.val
    [] e.type = "bound"  -> IF c.cur[e.s] = <<>> THEN NullV ELSE c.cur[e.s][e.c]
    [] e.type = "alias"  -> Eval(c.sel[e.k], c)
    [] e.type = "agg"    -> Aggregate(e, c)
    [] e.type = "func"   -> Call(e, c)
    [] e.type = "unary"  -> LET a == Eval(e.left, c) IN Tainted(Unary(e.op, a), a.err)
    [] e.type = "binary" -> LET a == Eval(e.left, c)
                                b == Eval(e.right, c)
                            IN CASE e.op \in {"AND", "OR"} ->
                                      IF ev_truth(a) = (IF e.op = "AND" THEN 0 ELSE 1) THEN Tainted(Logic(e.op, a, a), a.err)
                                      ELSE Tainted(Logic(e.op, a, b), a.err \/ b.err)
                                 [] OTHER -> Tainted(Binary(e.op, a, b), a.err \/ b.err)

\* a condition that is NULL does not hold; no condition holds for every row
eval_cond(e, c) == e.type = "none" \/ ev_truth(Eval(e, c)) = 1
============================================================================
