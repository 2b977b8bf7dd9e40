------------------------------- MODULE Lexer -------------------------------
(***************************************************************************)
(* The tokens of src/src/query/lexer.c.  A text is a sequence of symbols:  *)
(* a punctuation mark, a digit, a blank or one whole word, so that no two  *)
(* words may follow each other directly.  Names have no case and no limit  *)
(* of length.                                                              *)
(***************************************************************************)
EXTENDS Expressions
LOCAL INSTANCE Integers
LOCAL INSTANCE Sequences
LOCAL INSTANCE SequencesExt
LOCAL INSTANCE FiniteSetsExt

CONSTANTS
  Words,      \* the words that are no keywords: names of tables, types, ...
  TokenMax    \* the longest text of a string token

Keywords == {"SELECT", "FROM", "WHERE", "INSERT", "INTO", "VALUES", "UPDATE", "SET", "DELETE", "CREATE", "TABLE",
  "DATABASE", "DROP", "ALTER", "INDEX", "VIEW", "AND", "OR", "NOT", "IN", "IS", "NULL", "LIKE", "ORDER", "BY", "ASC",
  "DESC", "LIMIT", "JOIN", "LEFT", "RIGHT", "ON", "AS", "DISTINCT", "GROUP", "HAVING", "BEGIN", "COMMIT", "ROLLBACK",
  "TRANSACTION", "USE", "SHOW", "DESCRIBE", "EXPLAIN", "TRUNCATE", "UNION", "ALL", "EXISTS", "BETWEEN", "KEY",
  "SAVEPOINT", "TO", "TRIGGER", "BEFORE", "AFTER", "FOR", "EACH", "ROW", "RENAME", "BOOLEAN"}
Letters == Keywords \cup Words \cup {"TRUE", "FALSE", "_", "e"}
Digits == ToSet(Digit)
Spaces == {" ", "\t", "\n", "\r"}
Quotes == {"'", "\"", "grave"}   \* grave: the grave accent

at(s, i) == IF i \in 1..Len(s) THEN s[i] ELSE "end"
\* the first place from i on where the text ends or holds one of marks
Upto(s, i, marks) == Min({j \in i..Max({i, Len(s) + 1}) : j > Len(s) \/ s[j] \in marks})
While(s, i, set) == Min({j \in i..Max({i, Len(s) + 1}) : j > Len(s) \/ s[j] \notin set})
\* the place after a block comment that opens at i
CommentEnd(s, i) ==
  LET close == {j \in (i + 2)..(Len(s) - 1) : s[j] = "*" /\ s[j + 1] = "/"}
  IN IF close = {} THEN Len(s) + 1 ELSE Min(close) + 2

Token(type, text, end) == [type |-> type, text |-> text, end |-> end]
Skip(end) == Token("skip", <<>>, end)

Escaped(c) == CASE c = "n" -> <<"\n">> [] c = "t" -> <<"\t">> [] c = "r" -> <<"\r">>
                [] c \in {"\\", "'", "\""} -> <<c>> [] OTHER -> <<"\\", c>>
\* the text of a string from i on, and the place after it; closed by a single
\* quote mark of its kind
RECURSIVE StringFrom(_, _, _, _)
StringFrom(s, i, quote, text) ==
  IF i > Len(s) THEN Token("error", text, i)
  ELSE IF s[i] = quote
       THEN IF at(s, i + 1) = quote THEN StringFrom(s, i + 2, quote, Append(text, quote))
            ELSE IF Len(text) > TokenMax THEN Token("error", text, i + 1)
            ELSE Token("string", text, i + 1)
  ELSE IF s[i] = "\\" /\ i < Len(s) THEN StringFrom(s, i + 2, quote, text \o Escaped(s[i + 1]))
  ELSE StringFrom(s, i + 1, quote, Append(text, s[i]))

\* digits with at most one point and an exponent
NumberToken(s, i) ==
  LET sign == IF s[i] = "-" THEN i + 1 ELSE i
      j == While(s, sign, Digits)
      k == IF at(s, j) = "." THEN While(s, j + 1, Digits) ELSE j
      e == IF at(s, k) = "e" /\ at(s, k + 1) \in Digits THEN While(s, k + 1, Digits)
           ELSE IF at(s, k) = "e" /\ at(s, k + 1) \in {"-", "+"} /\ at(s, k + 2) \in Digits THEN While(s, k + 2, Digits)
           ELSE k
  IN Token(IF e > j THEN "float" ELSE "int", SubSeq(s, i, e - 1), e)

keyword_or_id(w) ==
  CASE w \in {<<"TRUE">>, <<"FALSE">>} -> "int"
    [] Len(w) = 1 /\ w[1] \in Keywords -> w[1]
    [] OTHER -> "name"
WordToken(s, i) ==
  LET end == While(s, i, Letters \cup Digits)
      w == SubSeq(s, i, end - 1)
  IN Token(keyword_or_id(w), CASE w = <<"TRUE">> -> <<"1">> [] w = <<"FALSE">> -> <<"0">> [] OTHER -> w, end)

Operators == {"*", ",", ";", ".", "(", ")", "+", "-", "/", "=", "<", ">"}
OperatorToken(s, i) ==
  LET two == <<s[i], at(s, i + 1)>>
      type == CASE two \in {<<"!", "=">>, <<"<", ">">>} -> "<>" [] two = <<"<", "=">> -> "<=" [] two = <<">", "=">> -> ">="
                [] OTHER -> IF s[i] \in Operators THEN s[i] ELSE "invalid"
      end == IF type \in {"<>", "<=", ">="} THEN i + 2 ELSE i + 1
  IN Token(type, SubSeq(s, i, end - 1), end)

\* a minus belongs to the number when it cannot be a subtraction
Signed(prev) == prev \notin {"name", "int", "float", "string", ")"}

Lexeme(s, i, prev) ==
  CASE s[i] \in Spaces -> Skip(i + 1)
    [] s[i] = "-" /\ at(s, i + 1) = "-" -> Skip(Upto(s, i, {"\n"}))
    [] s[i] = "/" /\ at(s, i + 1) = "*" -> Skip(CommentEnd(s, i))
    [] s[i] = "grave" -> LET e == Upto(s, i + 1, {"grave"}) IN Token("name", SubSeq(s, i + 1, e - 1), e + 1)
    [] s[i] \in {"'", "\""} -> StringFrom(s, i + 1, s[i], <<>>)
    [] s[i] \in Digits \/ (s[i] = "-" /\ at(s, i + 1) \in Digits /\ Signed(prev)) -> NumberToken(s, i)
    [] s[i] \in Letters -> WordToken(s, i)
    [] OTHER -> OperatorToken(s, i)

\* start: where the last lexeme but a blank began; the token of the end has the
\* text from there on, so a statement cut short names its own last word
RECURSIVE TokensFrom(_, _, _, _)
TokensFrom(s, i, start, out) ==
  LET t == Lexeme(s, i, IF out = <<>> THEN "start" ELSE Last(out).type)
      from == IF s[i] \in Spaces THEN start ELSE IF s[i] \in Quotes THEN t.end ELSE i
  IN IF i > Len(s) THEN Append(out, [type |-> "eof", text |-> SubSeq(s, start, Len(s))])
     ELSE TokensFrom(s, t.end, from, IF t.type = "skip" THEN out ELSE Append(out, [type |-> t.type, text |-> t.text]))
lexer_tokenize(s) == TokensFrom(s, 1, 1, <<>>)
============================================================================
