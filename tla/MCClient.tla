------------------------------ MODULE MCClient ------------------------------
EXTENDS Client
LOCAL INSTANCE SequencesExt

MCAlphabet == <<"\n", " ", "%", "'", "+", ",", "-", ".", "0", "1", "2", "3", "4", "5", "6", "7", "8", "9", ";", "\\", "_", "a", "b", "e">>

Text(s) == TextV(s)
Dec(s, num) == [NullV EXCEPT !.null = FALSE, !.str = s, !.is_num = TRUE, !.num = num]   \* Stored("DECIMAL", s)
Column(n, t, i) == [name |-> n, type |-> t, indexed |-> i, size |-> 0, nullable |-> TRUE, pk |-> FALSE,
                    auto |-> FALSE, default |-> <<>>]

\* t: an indexed INT, an indexed VARCHAR, a DECIMAL; u: an INT and a VARCHAR
TCols == <<Column("id", "INT", TRUE), Column("s", "VARCHAR", TRUE), Column("d", "DECIMAL", FALSE)>>
UCols == <<Column("k", "BIGINT", FALSE), Column("s", "VARCHAR", FALSE)>>
TRows == << <<IntV(1), Text(<<"a">>), Dec(<<"1">>, SCALE)>>, <<IntV(2), NullV, Dec(<<"1", ".", "0">>, SCALE)>>,
            <<IntV(2), Text(<<"1">>), NullV>>, <<IntV(-3), Text(<<"b", "a">>), Dec(<<"1", "0">>, 10 * SCALE)>> >>
URows == << <<IntV(2), Text(<<"a">>)>>, <<NullV, Text(<<"b", "a">>)>>, <<IntV(2), NullV>>, <<IntV(1), Text(<<"2">>)>> >>

\* counts and sums by s; a view of a view; a view of itself
Views == [v |-> [from |-> <<[table |-> "t", alias |-> "", join |-> "FROM", on |-> None]>>,
                 cols |-> <<[e |-> [type |-> "column", qual |-> "", name |-> "s"], alias |-> ""],
                            [e |-> [type |-> "agg", func |-> "COUNT", args |-> <<>>, distinct |-> FALSE], alias |-> "k"]>>,
                 where |-> None, group |-> <<[type |-> "column", qual |-> "", name |-> "s"]>>, having |-> None,
                 distinct |-> FALSE, order |-> <<>>, limit |-> -1, offset |-> 0],
          loop |-> [from |-> <<[table |-> "loop", alias |-> "", join |-> "FROM", on |-> None]>>,
                    cols |-> <<[e |-> [type |-> "star", qual |-> ""], alias |-> ""]>>,
                    where |-> None, group |-> <<>>, having |-> None,
                    distinct |-> FALSE, order |-> <<>>, limit |-> -1, offset |-> 0]]
Db(trows, urows) == [tables |-> [t |-> [cols |-> TCols, rows |-> trows], u |-> [cols |-> UCols, rows |-> urows]],
                     views |-> Views]
Full == Db(TRows, URows)
Databases == {Full, Db(<<>>, URows), Db(TRows, <<>>)}

----------------------------------------------------------------------------
Col(q, n) == [type |-> "column", qual |-> q, name |-> n]
Num(n) == Const(IntV(n))
Str(s) == Const(Text(s))
Bin(op, a, b) == [type |-> "binary", op |-> op, left |-> a, right |-> b]
Un(op, a) == [type |-> "unary", op |-> op, left |-> a]
Agg(f, args, d) == [type |-> "agg", func |-> f, args |-> args, distinct |-> d]
Fn(f, args) == [type |-> "func", func |-> f, args |-> args]
Item(e, a) == [e |-> e, alias |-> a]
Star(q) == Item([type |-> "star", qual |-> q], "")
From(t, a) == [table |-> t, alias |-> a, join |-> "FROM", on |-> None]
Joined(t, a, j, on) == [table |-> t, alias |-> a, join |-> j, on |-> on]
Plain(from, cols) == [from |-> from, cols |-> cols, where |-> None, group |-> <<>>, having |-> None,
                      distinct |-> FALSE, order |-> <<>>, limit |-> -1, offset |-> 0]
Up(e) == [e |-> e, desc |-> FALSE]
Down(e) == [e |-> e, desc |-> TRUE]

id == Col("", "id")
s == Col("", "s")
d == Col("", "d")

\* conditions on t, and every pair of them under AND and OR
Atoms == {Bin("=", id, Num(2)), Bin("=", Num(2), id), Bin("=", s, Str(<<"1">>)), Bin("=", s, Num(1)),
          Bin("=", d, Const(NumV(SCALE))), Bin("<", d, Num(5)), Un("IS NULL", s), Bin("LIKE", s, Str(<<"%", "a">>)),
          Bin(">=", Bin("+", id, d), Num(0)), Bin("<>", Fn("NULLIF", <<s, Str(<<"a">>)>>), s), d, Const(NullV),
          Bin("=", Fn("CONCAT", <<Fn("LEFT", <<s, Num(1)>>), Fn("SUBSTRING", <<s, Num(2)>>)>>), s),
          Bin("=", Fn("REVERSE", <<Fn("RIGHT", <<s, Num(1)>>)>>), Fn("LEFT", <<Fn("REVERSE", <<s>>), Num(1)>>))}
Conditions == Atoms \cup {Bin(op, a, b) : op \in {"AND", "OR"}, a \in Atoms, b \in Atoms}
Filters == {[db |-> Full, q |-> [Plain(<<From("t", "")>>, <<Star("")>>) EXCEPT !.where = w]] : w \in Conditions}
           \cup {[db |-> Db(<<>>, URows), q |-> [Plain(<<From("t", "")>>, <<Star("")>>) EXCEPT !.where = w]] : w \in Atoms}

\* joins of t with u and with u or the view again
Ons(a, b, k) == {Bin("=", Col(a, "id"), Col(b, k)), Bin("=", Col(b, "s"), Col(a, "s")), Bin("=", Col(a, "s"), Col(b, k)),
                 Bin("AND", Bin("=", Col(a, "id"), Col(b, k)), Bin("<>", Col(a, "s"), Col(b, "s"))),
                 Bin("OR", Bin("=", Col(a, "id"), Col(b, k)), Un("IS NULL", Col(b, "s")))}
Ways(a, b, k) == {<<j, on>> : j \in {"INNER", "LEFT", "RIGHT"}, on \in Ons(a, b, k)} \cup {<<"INNER", None>>}
JoinQueries == {[db |-> x, q |-> Plain(<<From("t", ""), Joined("u", "", j[1], j[2]), Joined("u", "w", k[1], k[2])>>,
                                       <<Star("w"), Item(Col("t", "id"), ""), Item(Col("u", "s"), "")>>)] :
                  x \in Databases, j \in Ways("t", "u", "k"), k \in Ways("t", "w", "k")}
               \cup {[db |-> Full, q |-> Plain(<<From("t", ""), Joined("v", "w", j[1], j[2])>>, <<Star("")>>)] : j \in Ways("t", "w", "k")}

\* groups and aggregates
Sums == <<Item(s, ""), Item(Agg("COUNT", <<>>, FALSE), "n"), Item(Agg("COUNT", <<d>>, TRUE), ""), Item(Agg("SUM", <<id>>, FALSE), "z"),
          Item(Agg("AVG", <<d>>, FALSE), ""), Item(Agg("MIN", <<s>>, FALSE), ""), Item(Agg("MAX", <<d>>, FALSE), "")>>
GroupLists == {<<>>, <<s>>, <<d>>, <<id, d>>, <<Bin("*", id, id)>>, <<Col("", "n")>>, <<Fn("COALESCE", <<d, id>>)>>}
Havings == {None, Bin(">", Col("", "n"), Num(1)), Un("IS NULL", Col("", "s")), Bin("<", Agg("SUM", <<id>>, FALSE), Num(2))}
Groupings == {[db |-> x, q |-> [Plain(<<From("t", "")>>, Sums) EXCEPT !.where = w, !.group = g, !.having = h, !.order = o]] :
                x \in {Full, Db(<<>>, URows)}, w \in {None, Bin("<", id, Num(2))}, g \in GroupLists, h \in Havings,
                o \in {<<>>, <<Down(Col("", "z")), Up(Num(1))>>}}

\* order, pages, DISTINCT, views and failures
Lists == {<<Star("")>>, <<Item(d, "s"), Item(s, "")>>, <<Item(Bin("*", id, Num(2)), "e")>>,
          <<Item(Fn("IFNULL", <<s, Num(0)>>), "")>>, <<Item(Fn("IF", <<Bin("<", id, Num(2)), Bin("*", id, id), Const(NullV)>>), "")>>,
          <<Item(Fn("ABS", <<id>>), ""), Item(Fn("MOD", <<id, Num(2)>>), ""), Item(Bin("/", id, d), "")>>,
          <<Item(Fn("CONCAT_WS", <<Str(<<"-">>), s, d>>), ""), Item(Fn("REPLACE", <<s, Str(<<"a">>), Str(<<"b", "b">>)>>), "")>>,
          <<Item(Fn("ROUND", <<d>>), ""), Item(Fn("FLOOR", <<Un("NEG", d)>>), ""), Item(Fn("SIGN", <<id>>), ""),
            Item(Fn("CEIL", <<d>>), ""), Item(Fn("LENGTH", <<s>>), ""), Item(Un("NOT", id), "")>>,
          <<Item(Bin("*", Num(9), Num(9)), "")>>, <<Item(Col("", "x"), "")>>, <<Item(Agg("SUM", <<Agg("SUM", <<id>>, FALSE)>>, FALSE), "")>>}
Orders == {<<>>, <<Up(s)>>, <<Down(s), Up(id)>>, <<Up(Num(1))>>, <<Down(Bin("+", id, id))>>, <<Up(Num(4))>>}
Pages == {[db |-> Full, q |-> [Plain(<<From(t, "")>>, c) EXCEPT !.distinct = u, !.order = o, !.limit = n[1], !.offset = n[2]]] :
            t \in {"t", "v"}, c \in Lists, u \in BOOLEAN, o \in Orders, n \in {<<-1, 0>>, <<2, 1>>, <<1, 9>>}}
Mistakes == {[db |-> Full, q |-> Plain(f, <<Star("")>>)] : f \in {<<>>, <<From("loop", "")>>, <<From("none", "")>>, <<From("t", ""), Joined("u", "t", "INNER", None)>>,
             <<From("t", ""), Joined("u", "", "INNER", Bin("=", s, Num(1)))>>}}
            \cup {[db |-> Full, q |-> Plain(<<>>, <<Item(Bin("+", Num(1), Num(2)), "")>>)]}

\* inserts into a keyed table with generated numbers
ICols == <<[Column("id", "INT", TRUE) EXCEPT !.pk = TRUE, !.auto = TRUE, !.nullable = FALSE],
           [Column("b", "BIGINT", FALSE) EXCEPT !.nullable = FALSE, !.default = <<"7">>],
           [Column("s", "VARCHAR", FALSE) EXCEPT !.size = 2], Column("x", "FLOAT", FALSE), Column("y", "BOOL", FALSE)>>
IRows == {<<>>, << <<IntV(3), IntV(1), NullV, NullV, NullV>>, <<IntV(-1), IntV(2), Text(<<"a">>), NullV, NullV>> >>,
          << <<IntV(31), IntV(1), NullV, NullV, NullV>> >>}
CONSTANT Exponents
Given1 == {Const(NullV), Num(3), Num(4), Num(32), Str(<<"3", ".", "0">>), Const(NumV(4 * SCALE)), Bin("/", Num(3), Num(2)),
           Bin("*", Num(9), Num(9)), Str(<<"a">>)} \cup (IF Exponents THEN {Str(<<"1", "e", "1">>)} ELSE {})
Given2 == {Const(NullV), Num(0), Num(1), Str(<<"a", "b">>), Str(<<"a", "b", "a">>), Const(NumV(50)), Str(<<"0", "1">>)}
Filled == {[db |-> [tables |-> [i |-> [cols |-> ICols, rows |-> rows]], views |-> <<>>],
             q |-> [into |-> "i", columns |-> c, values |-> vs]] :
              rows \in IRows, c \in {<<"id", "s">>, <<"b", "s">>, <<"x", "id">>, <<"id", "y">>},
              vs \in {<< <<a, b>> >> : a \in Given1, b \in Given2}
                       \cup {<< <<a, Num(1)>>, <<b, Const(NullV)>> >> : a, b \in Given1}}
WrongInserts == {[db |-> [tables |-> [i |-> [cols |-> ICols, rows |-> <<>>]], views |-> <<>>],
                  q |-> [into |-> t, columns |-> c, values |-> << <<Num(1), e>> >>]] :
                   t \in {"i", "none"}, c \in {<<"b", "b">>, <<"b">>, <<"b", "none">>, <<>>, <<"b", "s">>}, e \in {Num(1), Col("", "b")}}

MCSelects == Filters \cup JoinQueries \cup Groupings \cup Pages \cup Mistakes
MCInserts == Filled \cup WrongInserts

----------------------------------------------------------------------------
MCWords == {"t", "u", "v", "w", "x", "i", "a", "b", "c", "id", "s", "d", "k", "n", "z", "y", "none", "loop", "view", "col",
            "COUNT", "SUM", "AVG", "MIN", "MAX", "NULLIF", "CONCAT", "SUBSTRING", "REVERSE", "COALESCE", "IFNULL", "IF", "ABS", "MOD",
            "CONCAT_WS", "REPLACE", "ROUND", "FLOOR", "SIGN", "CEIL", "LENGTH", "OFFSET", "INT", "BIGINT", "FLOAT", "DECIMAL",
            "VARCHAR", "TEXT", "BOOL", "DATE", "PRIMARY", "AUTO_INCREMENT", "DEFAULT"}
MCVarcharSizes == <<2, 4>>
MCMaxList == [columns |-> 8, joins |-> 4, group |-> 4, order |-> 4, args |-> 4, sets |-> 4]

Texts(symbols, max) == UNION {[1..n -> symbols] : n \in 0..max}

\* every short text of quotes, comments and escapes
Marks == {{"'", "\\", ";", "a"}, {"-", "\n", ";", "'"}, {"/", "*", ";", "a"}, {"\"", "'", ";", "\n"}, {"grave", ";", "a", " "}}
Short == UNION {Texts(m, IF "\\" \in m \/ "*" \in m THEN 5 ELSE 4) : m \in Marks}
\* statements with what is around and between them
Readings == {<<"SELECT", " ", "a", ",", "b", " ", "FROM", " ", "t">>, <<"SELECT", "\n", "*", "\n", "FROM", " ", "t", " ", "LEFT", " ", "JOIN", " ",
               "u", " ", "ON", " ", "a", "=", "b", " ", "WHERE", " ", "(", "a", " ", "OR", " ", "b", ")", " ", "AND", " ", "c", " ", "BETWEEN", " ",
               "-", "1", " ", "AND", " ", "-", " ", "2", " ", "ORDER", " ", "BY", " ", "a", "-", "1">>}
Updates == {<<"UPDATE", " ", "t", " ", "SET", " ", "a">> \o v \o w :
              v \in {<<"=", "1">>, <<" ", "=", " ", "'", "WHERE", "'">>, <<"=", "'", "a", "'", "'", " ", "WHERE", "'">>, <<"=", "-", "-", "1", "\n", "2">>},
              w \in {<<>>, <<" ", "WHERE", " ", "b", "=", "'", "\\", "'", "'">>, <<"-", "-", "WHERE", " ", "b">>, <<"/", "*", "WHERE", "*", "/">>,
                     <<"\n", "WHERE", " ", "a", " ", "IS", " ", "NOT", " ", "NULL">>}}
Others == {<<"DELETE", " ", "FROM", " ", "t">>, <<"DELETE", " ", "FROM", " ", "t", " ", "WHERE", " ", "a", ">", "=", "1">>,
           <<"DROP", " ", "TABLE", " ", "t">>, <<"TRUNCATE", " ", "TABLE", " ", "t">>, <<"BEGIN">>,
           <<"CREATE", " ", "TABLE", " ", "t", "(", "a", " ", "INT", " ", "PRIMARY", " ", "KEY", ",", "b", " ", "VARCHAR", "(", "3", ")", " ", "NOT", " ", "NULL", ")">>,
           <<"INSERT", " ", "INTO", " ", "t", "(", "a", ")", "VALUES", "(", "COUNT", "(", "*", ")", ")", ",", "(", "-", "2", ".", "5", ")">>}
Around == {<<>>, <<"\n">>, <<"-", "-", ";", "\n">>, <<" ", "/", "*", "'", "*", "/">>}
Scripts2 == {a \o p \o b : a \in Around, p \in Readings \cup Updates \cup Others, b \in Around}
              \cup {p \o a \o <<";">> \o b \o r : p \in Others \cup {<<>>}, r \in Others \cup Updates, a \in Around, b \in {<<>>, <<"\n">>}}
MCScripts == {[script |-> x] : x \in Short \cup Scripts2}

\* tables of a number and a text, and of all types
Cells == Texts({"a", "'", "\"", ";", ",", "\n", " ", "\\", "1", "-", ".", "0"}, 2)
           \cup {<<"1", ".", "0">>, <<"-", "0", "5">>, <<"1", "e", "1">>, <<"+", "5">>, <<"9", "9">>, <<"4", "0">>, <<"-", "3", "2">>,
                 <<"a", "a", "a", "a", "a">>}
TwoCols == <<[Column("id", "INT", TRUE) EXCEPT !.pk = TRUE, !.nullable = FALSE],
             [Column("b", "VARCHAR", FALSE) EXCEPT !.size = 5]>>
Fixed == {<<"a">>, <<"1">>, <<"-", "1", ".", "5">>, <<"4", "0">>}
Pairs == {[cols |-> TwoCols, rows |-> << <<IntV(1), Text(x)>>, <<IntV(-2), y>> >>] : x \in Cells, y \in {NullV} \cup {Text(f) : f \in Fixed}}
Numbers == {IntV(3), IntV(-4), IntV(32)}
MCTables == Pairs \cup {[cols |-> ICols, rows |-> << <<IntV(1), b, t, x, BoolV(y)>>, <<IntV(5), IntV(40), NullV, NullV, NullV>> >>] :
                          b \in Numbers, t \in {NullV, Text(<<"'", ";">>)}, x \in {NullV, NumV(50), NumV(-125), NumV(300)}, y \in BOOLEAN}
=============================================================================
