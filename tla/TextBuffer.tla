----------------------------- MODULE TextBuffer -----------------------------
(***************************************************************************)
(* The text of an editor and what its commands do to it                    *)
(* (widgets/textbox.c).  An offset counts bytes from 0, as in the code; a  *)
(* text is the sequence of its bytes, of which only these kinds are told   *)
(* apart: letters, blanks, line ends, punctuation, and the two bytes of a  *)
(* character outside ASCII.  A buffer is a record of the text, the cursor, *)
(* the other end of the selection (-1: none) and the column that moves up  *)
(* and down aim at.  cursor_line and cursor_col follow from the cursor,    *)
(* line_starts from the text: the code recomputes them after every change. *)
(***************************************************************************)
EXTENDS Integers, Sequences, FiniteSets, SequencesExt

CONSTANTS
  INDENT,  \* spaces per level
  MaxLen   \* TEXTBOX_MAX_LEN - 1

ASSUME TextAssumption == INDENT \in 1 .. 8 /\ MaxLen \in Nat \ {0}

Lead    == "lead"     \* first byte of a two-byte character
Cont    == "cont"     \* its second byte
Lower   == "a"        \* stands for the letters, digits and _
Upper   == "A"
Quotes  == {"'"}      \* the three kinds of quotes are treated alike
None    == ""         \* what char_at gives outside the text

Least(m, n) == IF m < n THEN m ELSE n
Clamp(n, lo, hi) == IF n < lo THEN lo ELSE IF n > hi THEN hi ELSE n
Spaces(n) == [i \in 1 .. n |-> " "]

char_at(t, p) == IF p \in 0 .. Len(t) - 1 THEN t[p + 1] ELSE None
Bytes(t, a, b) == SubSeq(t, a + 1, b)

is_cont(c) == c = Cont
Blanks == {" "}
WordChars == {Lower, Upper, Lead, Cont}
is_word_char(c) == c \in WordChars
count_chars(s) == Cardinality({i \in DOMAIN s : ~is_cont(s[i])})

utf8_prev(t, p) ==
  IF p <= 0 THEN 0 ELSE Max({q \in 0 .. p - 1 : q = 0 \/ ~is_cont(char_at(t, q))})
utf8_next(t, p) ==
  IF p >= Len(t) THEN Len(t)
  ELSE Min({q \in p + 1 .. Len(t) : q = Len(t) \/ ~is_cont(char_at(t, q))})

(* Lines are numbered from 0. *)
line_of(t, p) == Cardinality({q \in 1 .. Least(p, Len(t)) : t[q] = "\n"})
num_lines(t) == line_of(t, Len(t)) + 1
line_start(t, l) ==
  IF l = 0 THEN 0 ELSE CHOOSE p \in 1 .. Len(t) : t[p] = "\n" /\ line_of(t, p) = l
line_end(t, l) == IF l + 1 < num_lines(t) THEN line_start(t, l + 1) - 1 ELSE Len(t)
Line(t, l) == Bytes(t, line_start(t, l), line_end(t, l))

col_of(t, p) == count_chars(Bytes(t, line_start(t, line_of(t, p)), p))
offset_at_col(t, l, col) ==
  Max({p \in line_start(t, l) .. line_end(t, l) :
         count_chars(Bytes(t, line_start(t, l), p)) <= col})
first_non_space(t, l) ==
  Min({p \in line_start(t, l) .. line_end(t, l) :
         p = line_end(t, l) \/ char_at(t, p) # " "})

has_sel(b) == b.anchor >= 0 /\ b.anchor # b.cursor
sel_start(b) == IF has_sel(b) THEN Least(b.anchor, b.cursor) ELSE b.cursor
sel_end(b) == IF has_sel(b) /\ b.anchor > b.cursor THEN b.anchor ELSE b.cursor
cursor_line(b) == line_of(b.text, b.cursor)

At(b, cursor, anchor) ==
  [b EXCEPT !.cursor = cursor, !.anchor = anchor, !.pref = col_of(b.text, cursor)]

(* ------------------------------ one change ------------------------------ *)

(* for a mutant: a cut in the middle of a character *)
FittingBytes(s, room) == SubSeq(s, 1, Least(Len(s), room))

(* What is inserted is cut, at the start of a character, where the text    *)
(* would exceed its limit.                                                 *)
Fitting(s, room) ==
  IF Len(s) <= room THEN s
  ELSE SubSeq(s, 1, Max({k \in 0 .. room : k = 0 \/ ~is_cont(char_at(s, k))}))

replace_range(b, start, end, s) ==
  LET n == Len(b.text)
      p == Clamp(start, 0, n)
      q == Clamp(end, p, n)
      x == Fitting(s, MaxLen - (n - (q - p)))
  IN At([b EXCEPT !.text = Bytes(@, 0, p) \o x \o Bytes(@, q, n)], p + Len(x), -1)

clean(s) == FlattenSeq([i \in DOMAIN s |-> CASE s[i] = "\r" -> <<>>
                                             [] s[i] = "\t" -> Spaces(INDENT)
                                             [] OTHER -> <<s[i]>>])
insert_text(b, s) == replace_range(b, sel_start(b), sel_end(b), clean(s))
delete_range(b, p, q) == IF p >= q THEN b ELSE replace_range(b, p, q, <<>>)

(* ------------------------------- movement ------------------------------- *)

move_cursor(b, pos, select, keep_pref) ==
  LET p == Clamp(pos, 0, Len(b.text))
  IN [b EXCEPT !.cursor = p,
               !.anchor = IF ~select THEN -1 ELSE IF @ < 0 THEN b.cursor ELSE @,
               !.pref   = IF keep_pref THEN @ ELSE col_of(b.text, p)]

(* The furthest offset at or before p that is followed, up to p, by        *)
(* characters of C only; and the same to the right.                        *)
Back(t, p, C) ==
  Min({q \in 0 .. p : \A i \in q .. p - 1 : char_at(t, i) \in C})
Ahead(t, p, C) ==
  Max({q \in {p} \cup (p .. Len(t)) : \A i \in p .. q - 1 : char_at(t, i) \in C})

word_left(t, p) ==
  LET q == Back(t, p, Blanks)
  IN IF q = 0 THEN 0
     ELSE IF is_word_char(char_at(t, q - 1)) THEN Back(t, q, WordChars)
     ELSE utf8_prev(t, q)
word_right(t, p) ==
  IF p >= Len(t) THEN Len(t)
  ELSE LET q == IF is_word_char(char_at(t, p)) THEN Ahead(t, p, WordChars)
                ELSE IF char_at(t, p) # " " THEN utf8_next(t, p) ELSE p
       IN Ahead(t, q, Blanks)

select_word_at(b, off) ==
  LET t == b.text
      a == Back(t, off, WordChars)
  IN IF is_word_char(char_at(t, off)) THEN At(b, Ahead(t, off, WordChars), a)
     ELSE IF is_word_char(char_at(t, off - 1)) THEN At(b, off, a)
     ELSE At(b, utf8_next(t, off), off)

StartAfter(t, l) == IF l + 1 < num_lines(t) THEN line_start(t, l + 1) ELSE Len(t)
select_lines(b, l0, l1) == At(b, StartAfter(b.text, l1), line_start(b.text, l0))

KeyLeft(b, ctrl, shift) ==
  IF has_sel(b) /\ ~shift THEN move_cursor(b, sel_start(b), FALSE, FALSE)
  ELSE move_cursor(b, IF ctrl THEN word_left(b.text, b.cursor)
                      ELSE utf8_prev(b.text, b.cursor), shift, FALSE)
KeyRight(b, ctrl, shift) ==
  IF has_sel(b) /\ ~shift THEN move_cursor(b, sel_end(b), FALSE, FALSE)
  ELSE move_cursor(b, IF ctrl THEN word_right(b.text, b.cursor)
                      ELSE utf8_next(b.text, b.cursor), shift, FALSE)
KeyUp(b, shift) ==
  IF cursor_line(b) = 0 THEN move_cursor(b, 0, shift, FALSE)
  ELSE move_cursor(b, offset_at_col(b.text, cursor_line(b) - 1, b.pref), shift, TRUE)
KeyDown(b, shift) ==
  IF cursor_line(b) >= num_lines(b.text) - 1 THEN move_cursor(b, Len(b.text), shift, FALSE)
  ELSE move_cursor(b, offset_at_col(b.text, cursor_line(b) + 1, b.pref), shift, TRUE)
KeyPage(b, dir, vis, shift) ==
  move_cursor(b, offset_at_col(b.text, Clamp(cursor_line(b) + dir * vis, 0, num_lines(b.text) - 1),
                               b.pref), shift, TRUE)
KeyHome(b, ctrl, shift) ==
  LET fns == first_non_space(b.text, cursor_line(b))
  IN move_cursor(b, IF ctrl THEN 0
                    ELSE IF b.cursor = fns THEN line_start(b.text, cursor_line(b))
                    ELSE fns, shift, FALSE)
KeyEnd(b, ctrl, shift) ==
  move_cursor(b, IF ctrl THEN Len(b.text) ELSE line_end(b.text, cursor_line(b)), shift, FALSE)
goto_line(b, n) ==
  move_cursor(b, first_non_space(b.text, Clamp(n, 0, num_lines(b.text) - 1)), FALSE, FALSE)

(* ------------------------- commands on whole lines ------------------------ *)

first_line(b) == line_of(b.text, sel_start(b))
last_line(b) ==
  LET l == line_of(b.text, sel_end(b))
  IN IF l > first_line(b) /\ sel_end(b) = line_start(b.text, l) THEN l - 1 ELSE l

(* The lines l0 .. l1 after f, put together again. *)
Joined(l0, l1, f(_)) ==
  FlattenSeq([i \in 1 .. l1 - l0 + 1 |->
                f(l0 + i - 1) \o IF l0 + i - 1 < l1 THEN <<"\n">> ELSE <<>>])

replace_lines(b, l0, l1, block, delta) ==
  LET a == line_start(b.text, l0)
      r == replace_range(b, a, line_end(b.text, l1), block)
  IN IF l1 > l0 THEN At(r, a + Len(block), a)
     ELSE At(r, Clamp(b.cursor + delta, a, a + Len(block)), r.anchor)

Indented(line) == IF line = <<>> THEN line ELSE Spaces(INDENT) \o line
Outdent(line) ==
  Max({k \in 0 .. INDENT : k <= Len(line) /\ \A i \in 1 .. k : line[i] = " "})
indent_lines(b, outdent) ==
  LET t == b.text
      l0 == first_line(b)
      l1 == last_line(b)
      l == cursor_line(b)
      f(n) == LET x == Line(t, n)
              IN IF outdent THEN SubSeq(x, Outdent(x) + 1, Len(x)) ELSE Indented(x)
      delta == IF l \notin l0 .. l1 THEN 0
               ELSE IF outdent THEN -Least(Outdent(Line(t, l)), b.cursor - line_start(t, l))
               ELSE IF Line(t, l) = <<>> THEN 0 ELSE INDENT
  IN replace_lines(b, l0, l1, Joined(l0, l1, f), delta)

Marks == <<"-", "-">>
toggle_comment(b) ==
  LET t == b.text
      l0 == first_line(b)
      l1 == last_line(b)
      l == cursor_line(b)
      indent(n) == first_non_space(t, n) - line_start(t, n)
      blank(n) == first_non_space(t, n) = line_end(t, n)
      code == {n \in l0 .. l1 : ~blank(n)}
      after(n) == SubSeq(Line(t, n), indent(n) + 1, Len(Line(t, n)))
      all == \A n \in code : Len(after(n)) >= 2 /\ SubSeq(after(n), 1, 2) = Marks
      rm(n) == IF Len(after(n)) > 2 /\ after(n)[3] = " " THEN 3 ELSE 2
      min_indent == Min({indent(n) : n \in code})
      f(n) == IF blank(n) THEN Line(t, n)
              ELSE IF all THEN Spaces(indent(n)) \o SubSeq(after(n), rm(n) + 1, Len(after(n)))
              ELSE Spaces(min_indent) \o Marks \o <<" ">>
                   \o SubSeq(Line(t, n), min_indent + 1, Len(Line(t, n)))
      delta == IF l \notin code THEN 0 ELSE IF all THEN -rm(l) ELSE 3
  IN IF code = {} THEN b ELSE replace_lines(b, l0, l1, Joined(l0, l1, f), delta)

(* What duplicate may make of b.  At the limit the line end may not fit,    *)
(* and there is no next line: the code then reads line_starts behind its    *)
(* last entry, where any offset may be.                                    *)
duplicate(b) ==
  IF has_sel(b)
  THEN LET r == replace_range(b, sel_end(b), sel_end(b), Bytes(b.text, sel_start(b), sel_end(b)))
       IN {[r EXCEPT !.anchor = sel_end(b)]}
  ELSE LET l == cursor_line(b)
           e == line_end(b.text, l)
           r == replace_range(b, e, e, <<"\n">> \o Line(b.text, l))
           next == IF l + 1 < num_lines(r.text)
                   THEN {offset_at_col(r.text, l + 1, col_of(b.text, b.cursor))}
                   ELSE 0 .. Len(r.text)
       IN {move_cursor(r, p, FALSE, FALSE) : p \in next}

(* dir is -1 (up) or 1 (down): the neighbour changes sides with the block. *)
move_lines(b, dir) ==
  LET t == b.text
      l0 == first_line(b)
      l1 == last_line(b)
      nb == IF dir < 0 THEN l0 - 1 ELSE l1 + 1
      block == Bytes(t, line_start(t, l0), line_end(t, l1))
      other == Line(t, nb)
      out == IF dir < 0 THEN block \o <<"\n">> \o other ELSE other \o <<"\n">> \o block
      shift == dir * (Len(other) + 1)
      r == replace_range(b, line_start(t, Least(l0, nb)),
                         line_end(t, IF nb > l1 THEN nb ELSE l1), out)
  IN IF nb \notin 0 .. num_lines(t) - 1 THEN b
     ELSE At(r, Clamp(b.cursor + shift, 0, Len(r.text)),
             IF b.anchor >= 0 /\ b.anchor + shift >= 0
             THEN Clamp(b.anchor + shift, 0, Len(r.text)) ELSE -1)

delete_lines(b) ==
  LET t == b.text
      l0 == first_line(b)
      l1 == last_line(b)
      last == l1 + 1 >= num_lines(t)
      a == IF last /\ l0 > 0 THEN line_start(t, l0) - 1 ELSE line_start(t, l0)
      r == replace_range(b, a, StartAfter(t, l1), <<>>)
  IN IF a >= StartAfter(t, l1) THEN b
     ELSE move_cursor(r, offset_at_col(r.text, Least(l0, num_lines(r.text) - 1),
                                       col_of(t, b.cursor)), FALSE, FALSE)

Cased(c, up) == IF c \in {Lower, Upper} THEN IF up THEN Upper ELSE Lower ELSE c
change_case(b, up) ==
  LET t == b.text
      p == IF has_sel(b) THEN sel_start(b) ELSE Back(t, b.cursor, WordChars)
      q == IF has_sel(b) THEN sel_end(b) ELSE Ahead(t, b.cursor, WordChars)
      r == replace_range(b, p, q, [i \in 1 .. q - p |-> Cased(t[p + i], up)])
  IN IF p >= q THEN b
     ELSE [r EXCEPT !.cursor = b.cursor, !.anchor = IF has_sel(b) THEN b.anchor ELSE -1]

select_line_extend(b) ==
  LET l0 == first_line(b)
      l1 == last_line(b)
      whole == sel_start(b) = line_start(b.text, l0) /\ sel_end(b) = StartAfter(b.text, l1)
  IN IF ~has_sel(b) THEN select_lines(b, cursor_line(b), cursor_line(b))
     ELSE select_lines(b, l0, IF whole /\ l1 + 1 < num_lines(b.text) THEN l1 + 1 ELSE l1)

open_line(b, above) ==
  LET l == cursor_line(b)
      at == IF above THEN line_start(b.text, l) ELSE line_end(b.text, l)
      ind == Spaces(first_non_space(b.text, l) - line_start(b.text, l))
      r == replace_range(b, at, at, IF above THEN ind \o <<"\n">> ELSE <<"\n">> \o ind)
  IN move_cursor(r, at + Len(ind) + (IF above THEN 0 ELSE 1), FALSE, FALSE)

(* --------------------------------- typing --------------------------------- *)

wrap_selection(b, open, close) ==
  LET p == sel_start(b)
      q == sel_end(b)
      r == replace_range(b, p, q, <<open>> \o Bytes(b.text, p, q) \o <<close>>)
  IN [r EXCEPT !.anchor = p + 1, !.cursor = q + 1]

insert_pair(b, open, close) ==
  LET r == replace_range(b, sel_start(b), sel_end(b), <<open, close>>)
  IN move_cursor(r, r.cursor - 1, FALSE, FALSE)

Skips(b, c) ==
  ~has_sel(b) /\ c \in Quotes \cup {")"} /\ char_at(b.text, b.cursor) = c
Pairs(b, c) ==
  LET next == char_at(b.text, b.cursor)
  IN \/ c \in Quotes /\ ~is_word_char(char_at(b.text, b.cursor - 1)) /\ ~is_word_char(next)
     \/ c = "(" /\ next \in {None, " ", "\n", ")"}

(* The character typed is a sequence of one or two bytes. *)
handle_char(b, s, opt_auto_close) ==
  LET c == s[1]
      close == IF c = "(" THEN ")" ELSE c
  IN IF ~opt_auto_close THEN insert_text(b, s)
     ELSE IF Skips(b, c) THEN move_cursor(b, b.cursor + 1, FALSE, FALSE)
     ELSE IF has_sel(b) /\ c \in Quotes \cup {"("} THEN wrap_selection(b, c, close)
     ELSE IF ~has_sel(b) /\ Pairs(b, c) THEN insert_pair(b, c, close)
     ELSE insert_text(b, s)

handle_enter(b) ==
  LET t == b.text
      ls == line_start(t, cursor_line(b))
      indent == Least(Ahead(t, ls, Blanks), b.cursor) - ls
      p == Back(t, b.cursor, Blanks)
      after_open == p > ls /\ char_at(t, p - 1) = "("
      before_close == char_at(t, b.cursor) = ")"
      head == <<"\n">> \o Spaces(IF after_open THEN indent + INDENT ELSE indent)
      tail == IF after_open /\ before_close THEN <<"\n">> \o Spaces(indent) ELSE <<>>
      r == replace_range(b, sel_start(b), sel_end(b), head \o tail)
  IN move_cursor(r, sel_start(b) + Len(head), FALSE, FALSE)

handle_backspace(b, ctrl) ==
  LET t == b.text
      pos == b.cursor
      prev == char_at(t, pos - 1)
      next == char_at(t, pos)
      ls == line_start(t, cursor_line(b))
      col == pos - ls
  IN CASE has_sel(b) -> delete_range(b, sel_start(b), sel_end(b))
       [] ~has_sel(b) /\ pos = 0 -> b
       [] ~has_sel(b) /\ pos > 0 /\ ctrl -> delete_range(b, word_left(t, pos), pos)
       [] OTHER ->
          IF (prev = "(" /\ next = ")") \/ (prev \in Quotes /\ next = prev)
          THEN delete_range(b, pos - 1, pos + 1)
          ELSE IF col > 0 /\ Back(t, pos, Blanks) <= ls
          THEN delete_range(b, ls + ((col - 1) \div INDENT) * INDENT, pos)
          ELSE delete_range(b, utf8_prev(t, pos), pos)

handle_delete(b, ctrl) ==
  IF has_sel(b) THEN delete_range(b, sel_start(b), sel_end(b))
  ELSE delete_range(b, b.cursor, IF ctrl THEN word_right(b.text, b.cursor)
                                 ELSE utf8_next(b.text, b.cursor))

KeyTab(b, shift) ==
  IF shift THEN indent_lines(b, TRUE)
  ELSE IF line_of(b.text, sel_start(b)) # line_of(b.text, sel_end(b)) THEN indent_lines(b, FALSE)
  ELSE insert_text(b, Spaces(INDENT - (col_of(b.text, b.cursor) % INDENT)))

(* copy_to_clipboard with cut: without a selection the whole line goes. *)
cut(b) ==
  IF has_sel(b) THEN delete_range(b, sel_start(b), sel_end(b))
  ELSE delete_range(b, line_start(b.text, cursor_line(b)), StartAfter(b.text, cursor_line(b)))

textbox_replace_text(b, start, end, s, select) ==
  LET r == replace_range(b, start, end, s)
  IN [r EXCEPT !.anchor = IF select THEN Clamp(start, 0, Len(b.text)) ELSE @]

(* ----------------------------- find and replace ---------------------------- *)

(* A search is a record of the query and of the two options. *)
Same(c, d, case) == c = d \/ (~case /\ {c, d} = {Lower, Upper})
search_match_at(t, i, s) ==
  LET n == Len(s.query)
  IN /\ n > 0 /\ i >= 0 /\ i + n <= Len(t)
     /\ \A k \in 1 .. n : Same(t[i + k], s.query[k], s.case)
     /\ s.word => /\ ~is_word_char(char_at(t, i - 1))
                  /\ ~is_word_char(char_at(t, i + n))

select_match(b, at, s) == At(b, at + Len(s.query), at)

(* for a mutant: the search goes on behind the start of the selection *)
StartsInside(b, from_selection_start) == sel_start(b)
FindStart(b, from_selection_start) ==
  IF from_selection_start THEN sel_start(b) ELSE sel_end(b)

(* The first match at or after (at or before) a position, around the ends. *)
textbox_find_next(b, s, backwards, from_selection_start) ==
  LET n == Len(b.text) + 1
      pos(k) == IF backwards THEN (sel_start(b) - 1 - k + n) % n
                ELSE (FindStart(b, from_selection_start) + k) % n
      hits == {k \in 0 .. n - 1 : search_match_at(b.text, pos(k), s)}
  IN IF hits = {} THEN b ELSE select_match(b, pos(Min(hits)), s)

Step(s) == Len(s.query)

(* The matches counted from the top, none overlapping the one before. *)
Counted(t, s) ==
  LET f[i \in 0 .. Len(t) + 1] ==
        IF i > Len(t) THEN <<>>
        ELSE IF search_match_at(t, i, s) THEN <<i>> \o f[i + Step(s)]
        ELSE f[i + 1]
  IN f[0]
textbox_search_count(t, s) == Len(Counted(t, s))

match_selected(b, s) ==
  sel_end(b) - sel_start(b) = Len(s.query) /\ search_match_at(b.text, sel_start(b), s)
textbox_replace_current(b, s, repl) ==
  IF match_selected(b, s)
  THEN textbox_find_next(replace_range(b, sel_start(b), sel_end(b), repl), s, FALSE, FALSE)
  ELSE textbox_find_next(b, s, FALSE, TRUE)

(* Text and new cursor are built in one pass: a cursor inside a match, or  *)
(* at the end, goes to the end of the text.                                *)
textbox_replace_all(b, s, repl) ==
  LET t == b.text
      f[i \in 0 .. Len(t)] ==
        IF i = Len(t) THEN <<>>
        ELSE IF search_match_at(t, i, s) THEN repl \o f[i + Len(s.query)]
        ELSE <<t[i + 1]>> \o f[i + 1]
      inside == \E j \in DOMAIN Counted(t, s) :
                   LET m == Counted(t, s)[j] IN m < b.cursor /\ b.cursor < m + Len(s.query)
      r == replace_range(b, 0, Len(t), f[0])
      before == Len(f[0]) - Len(f[b.cursor])
  IN IF Counted(t, s) = <<>> THEN b
     ELSE move_cursor(r, IF inside \/ b.cursor >= Len(t) THEN Len(f[0]) ELSE before, FALSE, FALSE)
=============================================================================
