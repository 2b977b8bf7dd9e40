------------------------------- MODULE Script -------------------------------
(***************************************************************************)
(* The window's own reading of SQL, src/src/widgets/sql_text.c: it divides *)
(* a script into statements, finds the one under the cursor and lays the   *)
(* text out again.  Positions count from 0, as in the editor.              *)
(***************************************************************************)
EXTENDS Lexer, Integers, Sequences
LOCAL INSTANCE SequencesExt
LOCAL INSTANCE FiniteSetsExt

RECURSIVE QuotedNoEscape(_, _, _)
QuotedNoEscape(s, i, quote) ==   \* a slip: a backslash means nothing
  IF i > Len(s) THEN Len(s) + 1 ELSE IF s[i] = quote THEN i + 1 ELSE QuotedNoEscape(s, i + 1, quote)

\* the place after the quoted text that opens at i (two single quote marks are
\* one inside)
RECURSIVE QuotedEnd(_, _, _)
QuotedEnd(s, i, quote) ==
  IF i > Len(s) THEN Len(s) + 1
  ELSE IF s[i] = quote THEN IF quote = "'" /\ at(s, i + 1) = "'" THEN QuotedEnd(s, i + 2, quote) ELSE i + 1
  ELSE QuotedEnd(s, IF s[i] = "\\" /\ i < Len(s) THEN i + 2 ELSE i + 1, quote)
IsComment(s, i) == <<s[i], at(s, i + 1)>> \in {<<"-", "-">>, <<"/", "*">>}
skip_quoted_or_comment(s, i) ==
  IF s[i] \in Quotes THEN QuotedEnd(s, i + 1, s[i])
  ELSE IF IsComment(s, i) THEN IF s[i] = "-" THEN Upto(s, i, {"\n"}) ELSE CommentEnd(s, i)
  ELSE i

(* ------------------------------ statements ------------------------------ *)

StatementRange(start, code, end, semi) ==   \* code: the first byte that is code, -1 if there is none
  [start |-> start, code_start |-> IF code < 0 THEN end ELSE code, end |-> end, end_semi |-> semi, has_code |-> code >= 0]
RECURSIVE SplitFrom(_, _, _, _)
SplitFrom(s, i, start, code) ==
  LET j == skip_quoted_or_comment(s, i)
      seen == IF code < 0 THEN i - 1 ELSE code
  IN IF i > Len(s) THEN IF start < Len(s) THEN <<StatementRange(start, code, Len(s), Len(s))>> ELSE <<>>
     ELSE IF s[i] = ";" THEN <<StatementRange(start, code, i - 1, i)>> \o SplitFrom(s, i + 1, i, -1)
     ELSE IF j # i THEN SplitFrom(s, j, start, IF s[i] \in Quotes THEN seen ELSE code)
     ELSE SplitFrom(s, i + 1, start, IF s[i] \in Spaces THEN code ELSE seen)
sql_split(s) == SplitFrom(s, 1, 0, -1)

line_of(s, pos) == Cardinality({i \in 1..pos : s[i] = "\n"})
\* the statement the cursor at pos means, {} if there is none: the one around
\* it, or the one before if pos is in front of the code on the same line
sql_statement_at(s, pos) ==
  LET r == sql_split(s)
      around == {k \in DOMAIN r : r[k].start <= pos /\ pos <= r[k].end_semi}
      k == Min(around)
      before == {j \in DOMAIN r : r[j].has_code /\ (around = {} \/ j < k)}
      prev == r[Max(before)]
      in_lead == pos < r[k].code_start \/ ~r[k].has_code
  IN IF around = {} THEN IF before = {} THEN {} ELSE {prev}
     ELSE IF in_lead /\ before # {} /\ (~r[k].has_code \/ line_of(s, pos) = line_of(s, prev.end)) THEN {prev}
     ELSE IF r[k].has_code THEN {r[k]} ELSE {}

(* ----------------------- Settings, Execution ---------------------------- *)

\* guard_statement of window.c: the words outside comments and quotes, by a
\* scan of its own that knows no doubled quote marks
WordsInQuotes(s, i) == i + 1   \* a slip: the words of a text count
QuoteSkipped(s, i) ==
  LET end(f) == Min({j \in i..(Len(s) + 1) : j > Len(s) \/ f[j]})
      closes[j \in i..Len(s)] == j > i /\ s[j] = s[i] /\ Cardinality({k \in (i + 1)..(j - 1) :
                                   \A l \in k..(j - 1) : s[l] = "\\"}) % 2 = 0
  IN end(closes) + 1
RECURSIVE WordsFrom(_, _)
WordsFrom(s, i) ==
  LET j == While(s, i, Letters \cup Digits)
  IN IF i > Len(s) THEN <<>>
     ELSE IF IsComment(s, i) THEN WordsFrom(s, IF s[i] = "-" THEN Upto(s, i, {"\n"}) ELSE CommentEnd(s, i))
     ELSE IF s[i] \in Quotes THEN WordsFrom(s, QuoteSkipped(s, i))
     ELSE IF s[i] \in Letters THEN <<SubSeq(s, i, j - 1)>> \o WordsFrom(s, j)
     ELSE WordsFrom(s, i + 1)
\* is the statement refused before anything runs?
guard_statement(s, safe_updates, confirm_drop) ==
  LET words == WordsFrom(s, 1)
      first == IF words = <<>> THEN <<>> ELSE words[1]
  IN \/ safe_updates /\ first \in {<<"UPDATE">>, <<"DELETE">>} /\ <<"WHERE">> \notin ToSet(Tail(words))
     \/ confirm_drop /\ first \in {<<"DROP">>, <<"TRUNCATE">>}

(* ------------------------------ formatting ------------------------------ *)

KEYWORDS == (Keywords \ {"NULL", "BOOLEAN"}) \cup {"DATABASES", "TABLES", "OFFSET", "INNER", "OUTER", "CROSS", "CASE", "DEFAULT", "PRIMARY",
                           "AUTO_INCREMENT", "IF", "REPLACE", "OF"}
CLAUSES == {"FROM", "WHERE", "GROUP", "ORDER", "HAVING", "LIMIT", "VALUES", "SET", "UNION", "SELECT"}
JOIN_MODS == {"LEFT", "RIGHT", "INNER", "OUTER", "CROSS", "FULL", "NATURAL"}
OBJ_KW == {"TABLE", "INTO", "REFERENCES", "VIEW", "INDEX", "EXISTS", "TRIGGER"}
SIGNS == {"=", "<", ">", "!", "+", "-", "/", "%", "|", "&", "^", "~", "?", ":"}

CONSTANT Indent   \* g_sql_format_indent

\* the output so far and what the next token depends on
Fresh == [out |-> <<>>, depth |-> 0, ct |-> -1, prev |-> "none", kw |-> "", create |-> FALSE, table |-> FALSE,
          cond |-> FALSE, between |-> FALSE, brk |-> FALSE, nl |-> FALSE, obj |-> FALSE]

Trimmed(out) == SubSeq(out, 1, Max({k \in 0..Len(out) : k = 0 \/ out[k] # " "}))
LastOf(out) == IF out = <<>> THEN "\n" ELSE Last(out)
Newline(out, indent) ==
  LET o == Trimmed(out)
  IN (IF LastOf(o) = "\n" THEN o ELSE Append(o, "\n")) \o [i \in 1..(IF indent THEN Indent ELSE 0) |-> " "]
BlankLine(out) ==
  LET o == Newline(out, FALSE)
  IN IF Trimmed(out) = <<>> THEN <<>> ELSE IF Len(o) >= 2 /\ o[Len(o) - 1] = "\n" THEN o ELSE Append(o, "\n")
Space(out) == IF LastOf(out) \in {" ", "\n"} THEN out ELSE Append(out, " ")

\* a word or number joins what stands before it without a blank
Joins(f) == f.prev \in {"(", "."} \/ (f.prev = "op" /\ LastOf(f.out) # " ")
Put(f, text, prev) == [f EXCEPT !.out = (IF Joins(f) THEN @ ELSE Space(@)) \o text, !.prev = prev]

FormatComment(s, i, f) ==
  LET j == skip_quoted_or_comment(s, i)
      line == s[i] = "-"
      out == IF f.brk /\ f.nl THEN BlankLine(f.out)
             ELSE IF f.nl /\ LastOf(f.out) # "\n" THEN Newline(f.out, f.ct >= 0)
             ELSE Space(f.out)
      brk == f.brk /\ ~f.nl
      text == SubSeq(s, i, Max({k \in i..(j - 1) : s[k] # "\n"}))
  IN [f EXCEPT !.out = IF line THEN Newline(out \o text, f.ct >= 0 \/ ~(brk \/ f.prev = "none")) ELSE out \o text,
               !.brk = brk, !.nl = line]

FormatWord(f, w) ==
  LET kw == f.prev # "." /\ Len(w) = 1 /\ w[1] \in KEYWORDS
      is(set) == kw /\ w[1] \in set
      after_mod == f.kw \in JOIN_MODS /\ f.prev = "keyword"
      andor == kw /\ f.depth = 0 /\ is({"AND", "OR"}) /\ f.cond
      own == andor /\ ~(f.between /\ is({"AND"}))       \* AND and OR go to a line of their own
      brk == kw /\ f.depth = 0 /\ ~own
               /\ (is(CLAUSES) \/ (is(JOIN_MODS \cup {"JOIN"}) /\ ~after_mod)) /\ ~(is({"SET"}) /\ f.kw = "TRANSACTION")
      g == [f EXCEPT
        !.out = IF own THEN Newline(@, TRUE) ELSE IF brk THEN Newline(@, FALSE) ELSE @,
        !.prev = IF own THEN "none" ELSE @,
        !.between = IF is({"BETWEEN"}) THEN TRUE ELSE @ /\ ~(andor /\ is({"AND"})),
        !.cond = IF ~kw \/ f.depth # 0 THEN @ ELSE IF is({"WHERE", "HAVING", "ON"}) THEN TRUE
                 ELSE IF is(CLAUSES \cup {"JOIN"}) THEN FALSE ELSE @,
        !.create = IF is({"CREATE"}) THEN TRUE ELSE IF kw /\ ~(@ /\ is({"TABLE"})) THEN FALSE ELSE @,
        !.table = @ \/ (f.create /\ is({"TABLE"}))]
  IN [Put(g, w, IF kw \/ (f.prev # "." /\ w \in {<<"NULL">>, <<"TRUE">>, <<"FALSE">>}) THEN "keyword" ELSE "word")
        EXCEPT !.kw = IF kw THEN w[1] ELSE @,
               !.obj = ~kw /\ g.prev = "keyword" /\ f.kw \in OBJ_KW]

FormatMark(s, i, f) ==
  LET c == s[i]
      call == f.prev = "word" /\ ~f.obj
      opens == f.table /\ f.depth = 0 /\ f.ct < 0
      open == [f EXCEPT !.out = LET o == Append(IF call \/ f.prev \in {"(", "none"} THEN @ ELSE Space(@), "(")
                                IN IF opens THEN Newline(o, TRUE) ELSE o,
                        !.depth = @ + 1, !.ct = IF opens THEN 1 ELSE @, !.prev = "("]
      closes == f.ct = f.depth /\ f.depth = 1
      close == [f EXCEPT !.out = Append(IF closes THEN Newline(@, FALSE) ELSE Trimmed(@), ")"), !.depth = Max({0, @ - 1}),
                         !.ct = IF closes THEN -1 ELSE @, !.table = @ /\ ~closes, !.prev = ")"]
      comma == [f EXCEPT !.out = LET o == Append(Trimmed(@), ",") IN IF f.ct >= 0 /\ f.depth = f.ct THEN Newline(o, TRUE) ELSE o,
                         !.prev = ","]
  IN CASE c = "(" -> open [] c = ")" -> close [] c = "," -> comma
       [] c = "." -> [f EXCEPT !.out = Append(Trimmed(@), "."), !.prev = "."]
       [] c = ";" -> [Fresh EXCEPT !.out = Append(Trimmed(f.out), ";"), !.prev = ";", !.brk = TRUE, !.obj = f.obj]
       [] c = "*" -> [f EXCEPT !.out = Append(IF f.prev \in {"(", "."} THEN @ ELSE Space(@), "*"), !.prev = "star"]
       [] OTHER -> [f EXCEPT !.out = Append(Space(@), c), !.prev = "word"]

BareAfterSign(f, unary) == unary /\ f.prev \in {"(", "op"}   \* a slip: two signs run together
BareSign(f, unary) == unary /\ f.prev = "("
Repeats == {"=", "<", ">", "!", "|", "&"}
FormatSign(s, i, f) ==
  LET j == IF s[i] \in Repeats THEN While(s, i + 1, Repeats) ELSE i + 1
      unary == s[i] \in {"-", "+"} /\ f.prev \in {"none", "op", "(", ",", "keyword", ";"}
      out == IF BareSign(f, unary) THEN f.out ELSE Space(f.out)
  IN [f EXCEPT !.out = out \o SubSeq(s, i, j - 1) \o (IF unary THEN <<>> ELSE <<" ">>), !.prev = "op"]

FormatQuoted(s, i, f) ==
  [f EXCEPT !.out = (IF f.prev \in {"(", "."} THEN @ ELSE Space(@)) \o SubSeq(s, i, QuotedEnd(s, i + 1, s[i]) - 1),
            !.prev = IF s[i] = "'" THEN "value" ELSE "word"]

RECURSIVE FormatFrom(_, _, _)
FormatFrom(s, i, f) ==
  LET broken == [f EXCEPT !.out = IF f.brk THEN BlankLine(@) ELSE @, !.brk = FALSE, !.nl = FALSE]
      number == s[i] \in Digits \/ (s[i] = "." /\ at(s, i + 1) \in Digits /\ f.prev # "word")
  IN IF i > Len(s) THEN f
     ELSE IF s[i] \in Spaces THEN FormatFrom(s, i + 1, [f EXCEPT !.nl = @ \/ s[i] = "\n"])
     ELSE IF IsComment(s, i) THEN FormatFrom(s, skip_quoted_or_comment(s, i), FormatComment(s, i, f))
     ELSE IF s[i] \in Quotes THEN FormatFrom(s, QuotedEnd(s, i + 1, s[i]), FormatQuoted(s, i, broken))
     ELSE IF number
          THEN LET j == While(s, i, Digits \cup Letters \cup {"."}) IN FormatFrom(s, j, Put(broken, SubSeq(s, i, j - 1), "value"))
     ELSE IF s[i] \in Letters
          THEN LET j == While(s, i, Digits \cup Letters) IN FormatFrom(s, j, FormatWord(broken, SubSeq(s, i, j - 1)))
     ELSE IF s[i] \in SIGNS
          THEN FormatFrom(s, IF s[i] \in Repeats THEN While(s, i + 1, Repeats) ELSE i + 1, FormatSign(s, i, broken))
     ELSE FormatFrom(s, i + 1, FormatMark(s, i, broken))
sql_format(s) ==
  LET out == Trimmed(FormatFrom(s, 1, Fresh).out)
  IN IF s # <<>> /\ Last(s) = "\n" /\ LastOf(out) # "\n" THEN Append(out, "\n") ELSE out
============================================================================
