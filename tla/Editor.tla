------------------------------- MODULE Editor -------------------------------
(***************************************************************************)
(* The SQL editor under the keys, the mouse, the completion popup and the  *)
(* find bar of the window: which command of TextBuffer each event runs,    *)
(* and when the popup opens, follows the word or closes (handle_key,       *)
(* textbox_handle_event, popup_update, bar_find).  Undo is in History,     *)
(* scrolling and drawing are left out.                                     *)
(***************************************************************************)
EXTENDS TextBuffer

CONSTANTS
  Typed,       \* characters that are typed, as sequences of bytes
  Pastes,      \* texts that are pasted, loaded or inserted
  Searches,    \* queries of the find bar, with their options
  Repl,        \* texts they are replaced by
  MaxText      \* bound: length of the texts

ASSUME EditorAssumption ==
  /\ MaxText \in 1 .. MaxLen
  /\ Typed \cup Pastes \cup Repl \in SUBSET Seq(STRING)
  /\ Searches \in SUBSET [query : Seq(STRING), case : BOOLEAN, word : BOOLEAN]

VARIABLES
  buf,    \* text, cursor, selection
  popup   \* popup_start, -1 when the popup is closed

vars == <<buf, popup>>

Closed == -1
Init == buf = [text |-> <<>>, cursor |-> 0, anchor |-> -1, pref |-> 0] /\ popup = Closed

(* Some commands lead to texts beyond the bound, which do not change further. *)
Within(new) == Len(buf.text) <= MaxText /\ buf' = new
Becomes(new) == Within(new) /\ Len(new.text) <= MaxText
Between(t, p) == p \in 0 .. Len(t) /\ (p = Len(t) \/ ~is_cont(char_at(t, p)))
Boundaries(t) == {p \in 0 .. Len(t) : Between(t, p)}

(* ---------------------------------- popup --------------------------------- *)

WordStart(b) == Back(b.text, b.cursor, WordChars)

(* Whether the cursor is in code and whether there is a completion is left *)
(* open: a popup that may open may also stay closed.                       *)
popup_update(b, force, open) ==
  LET plen == b.cursor - WordStart(b)
      dotted == char_at(b.text, WordStart(b) - 1) = "."
  IN \/ popup' = Closed
     \/ /\ ~has_sel(b)
        /\ dotted \/ force \/ plen >= (IF open THEN 1 ELSE 2)
        /\ popup' = WordStart(b)

(* A keyword or a name, or a function with the cursor between its brackets. *)
popup_accept ==
  /\ popup # Closed
  /\ \E call \in BOOLEAN :
       LET fn == call /\ char_at(buf.text, buf.cursor) # "("
           word == <<Lower, Upper>> \o IF fn THEN <<"(", ")">> ELSE <<>>
           r == replace_range(buf, popup, buf.cursor, word)
       IN Within(IF fn THEN move_cursor(r, r.cursor - 1, FALSE, FALSE) ELSE r)
  /\ popup' = Closed

CtrlSpace == popup_update(buf, TRUE, popup # Closed) /\ UNCHANGED buf

(* The arrows move within an open popup. *)
Escape ==
  /\ popup # Closed \/ has_sel(buf)
  /\ IF popup # Closed THEN UNCHANGED buf ELSE buf' = [buf EXCEPT !.anchor = -1]
  /\ popup' = Closed

(* ----------------------------------- keys --------------------------------- *)

(* Letters and dots are inserted, which closes the popup (replace_range), *)
(* so that they open it anew; all else only closes it.  Without            *)
(* opt_auto_popup it stays closed, as it may in any case.                  *)
TypeChar ==
  \E s \in Typed, opt_auto_close \in BOOLEAN :
    LET new == handle_char(buf, s, opt_auto_close)
    IN /\ Becomes(new)
       /\ IF s[1] \in {Lower, Upper, "."}
          THEN popup_update(new, s[1] = ".", FALSE)
          ELSE popup' = Closed

(* A key closes the popup, and so does any change of the text ... *)
Key(new) == Becomes(new) /\ popup' = Closed
LongKey(new) == Within(new) /\ popup' = Closed
(* ... but four keys, without Ctrl, filter it again. *)
Filters(new, ctrl) ==
  /\ Becomes(new)
  /\ IF popup # Closed /\ ~ctrl THEN popup_update(new, FALSE, TRUE) ELSE popup' = Closed

Backspace == \E ctrl \in BOOLEAN : Filters(handle_backspace(buf, ctrl), ctrl)
Delete    == \E ctrl \in BOOLEAN : Filters(handle_delete(buf, ctrl), ctrl)
Left      == \E ctrl, shift \in BOOLEAN : Filters(KeyLeft(buf, ctrl, shift), ctrl)
Right     == \E ctrl, shift \in BOOLEAN : Filters(KeyRight(buf, ctrl, shift), ctrl)

(* An open popup takes the arrows unless a modifier is held, and the page  *)
(* keys; Enter and Tab come here with Alt, which they ignore.              *)
Up    == \E shift \in BOOLEAN : (shift \/ popup = Closed) /\ Key(KeyUp(buf, shift))
Down  == \E shift \in BOOLEAN : (shift \/ popup = Closed) /\ Key(KeyDown(buf, shift))
Page  == \E shift \in BOOLEAN, dir \in {-1, 1}, vis \in 1 .. 2 :
           popup = Closed /\ Key(KeyPage(buf, dir, vis, shift))
Enter == LongKey(handle_enter(buf))
Tab   == \E shift \in BOOLEAN : LongKey(KeyTab(buf, shift))
Home  == \E ctrl, shift \in BOOLEAN : Key(KeyHome(buf, ctrl, shift))
End   == \E ctrl, shift \in BOOLEAN : Key(KeyEnd(buf, ctrl, shift))

OpenLine   == \E above \in BOOLEAN : Key(open_line(buf, above))
MoveLines  == \E dir \in {-1, 1} : Key(move_lines(buf, dir))
SelectAll  == Key([buf EXCEPT !.anchor = 0, !.cursor = Len(buf.text)])
Cut        == Key(cut(buf))
Paste      == \E s \in Pastes : LongKey(insert_text(buf, s))
Duplicate  == \E new \in duplicate(buf) : Key(new)
DeleteLines == Key(delete_lines(buf))
ChangeCase == \E up \in BOOLEAN : Key(change_case(buf, up))
SelectLine == Key(select_line_extend(buf))
Comment    == LongKey(toggle_comment(buf))

(* ----------------------------- mouse and window --------------------------- *)

(* A press outside the popup closes it; hit_offset gives the start of a     *)
(* character.  Another button, or a press outside the editor, only closes. *)
MouseDown ==
  /\ \/ \E p \in Boundaries(buf.text) :
          \E new \in {At(buf, p, p), move_cursor(buf, p, TRUE, FALSE),
                      select_word_at(buf, p)} : Becomes(new)
     \/ \E l \in 0 .. num_lines(buf.text) - 1 : Becomes(select_lines(buf, l, l))
     \/ UNCHANGED buf
  /\ popup' = Closed

(* What moves the cursor without a look at the popup. *)
Moves(new) == Becomes(new) /\ UNCHANGED popup

(* The flag dragging is not kept: a press sets it and no key clears it, so *)
(* that the button may be down in any state, also under an open popup.     *)
MouseDrag ==
  \E p \in Boundaries(buf.text) :
    Moves(At(buf, p, IF buf.anchor < 0 THEN buf.cursor ELSE buf.anchor))

bar_find == \E s \in Searches, backwards \in BOOLEAN :
              Moves(textbox_find_next(buf, s, backwards, FALSE))
bar_apply_search == \E s \in Searches : Moves(textbox_find_next(buf, s, FALSE, TRUE))
bar_goto == \E n \in 0 .. num_lines(buf.text) : Moves(goto_line(buf, n))

(* for a mutant: replace_range does not close the popup *)
ReplaceUnderPopup == \E s \in Searches, r \in Repl : Moves(textbox_replace_current(buf, s, r))

(* Replacing closes the popup; without a match it stays. *)
bar_replace_one ==
  \E s \in Searches, r \in Repl :
    LET new == textbox_replace_current(buf, s, r)
    IN IF match_selected(buf, s) THEN Key(new) ELSE Moves(new)
bar_replace_all ==
  \E s \in Searches, r \in Repl :
    LET new == textbox_replace_all(buf, s, r)
    IN IF Counted(buf.text, s) # <<>> THEN Key(new) ELSE Moves(new)

(* Loading a file, a snippet or the formatted selection, from menus and bars. *)
LoadText == \E s \in Pastes : Key(textbox_replace_text(buf, 0, Len(buf.text), s, FALSE))
FormatSelection ==
  has_sel(buf) /\ \E s \in Pastes :
    Key(textbox_replace_text(buf, sel_start(buf), sel_end(buf), s, TRUE))

Next ==
  \/ TypeChar \/ Backspace \/ Delete \/ Left \/ Right \/ Up \/ Down \/ Page \/ Home \/ End
  \/ Enter \/ Tab \/ Escape \/ OpenLine \/ MoveLines \/ SelectAll \/ Cut \/ Paste
  \/ Duplicate \/ DeleteLines \/ ChangeCase \/ SelectLine \/ Comment
  \/ popup_accept \/ CtrlSpace \/ MouseDown \/ MouseDrag
  \/ bar_find \/ bar_apply_search \/ bar_replace_one \/ bar_replace_all \/ bar_goto
  \/ LoadText \/ FormatSelection

Spec == Init /\ [][Next]_vars

(* -------------------------------- properties ------------------------------ *)

WellFormed(b) ==
  /\ \A i \in 1 .. Len(b.text) : (b.text[i] = Cont) <=> (i > 1 /\ b.text[i - 1] = Lead)
  /\ b.text # <<>> => Last(b.text) # Lead
  /\ Between(b.text, b.cursor)
  /\ b.anchor = -1 \/ Between(b.text, b.anchor)

(* One line selected together with its line end, the cursor behind it. *)
LineEndSelected(b) == has_sel(b) /\ first_line(b) = last_line(b) /\ cursor_line(b) # first_line(b)

(* From a text with the cursor and the selection between characters, every *)
(* command comes to such a text, also where a paste is cut at              *)
(* TEXTBOX_MAX_LEN (utf8_prev, utf8_next, replace_range).  Exempt are Tab  *)
(* and Ctrl+/ with one line and its line end selected, where replace_lines *)
(* keeps the offset of a cursor on the line behind (textbox.c, line 421),  *)
(* and, by a MaxText that leaves them room, the other commands at the      *)
(* limit, some of which put the cursor behind the text (line 419).         *)
CursorOnCharacter ==
  [][WellFormed(buf) => WellFormed(buf') \/ (LineEndSelected(buf) /\ (Tab \/ Comment))]_vars

(* From the top, F3 visits the matches the find bar counts, one after the  *)
(* other, and then starts again (textbox_find_next, textbox_search_count). *)
FindVisitsCounted ==
  \A s \in Searches :
    LET n == textbox_search_count(buf.text, s)
        f[k \in 0 .. n + 1] ==
          IF k = 0 THEN At(buf, 0, -1) ELSE textbox_find_next(f[k - 1], s, FALSE, FALSE)
    IN n > 0 => /\ [k \in 1 .. n |-> sel_start(f[k])] = Counted(buf.text, s)
                /\ f[n + 1] = f[1]

StartsWord(t, p) == ~is_word_char(char_at(t, p - 1))
CompletesWord(b, p) ==
  /\ StartsWord(b.text, p)
  /\ p <= b.cursor
  /\ \A i \in p .. b.cursor - 1 : is_word_char(char_at(b.text, i))

(* The mouse and the find bar move the cursor away from the word. *)
Outside ==
  \/ MouseDrag
  \/ bar_find \/ bar_apply_search \/ bar_goto \/ bar_replace_one \/ bar_replace_all

(* After every step an open popup belongs to the word that ends at the     *)
(* cursor, which popup_accept replaces (textbox.h: "offset di inizio della *)
(* parola da completare").  Exempt is what the code does not keep: a step  *)
(* of the mouse or the find bar, which do not look at the popup, may leave *)
(* it where it was, and a completion then replaces all up to the cursor;   *)
(* it is still the start of a word of an unchanged text, and every key     *)
(* that does not accept the completion closes it or puts it right.         *)
FollowsWord ==
  popup' # Closed =>
    \/ CompletesWord(buf', popup')
    \/ /\ popup' = popup /\ buf'.text = buf.text /\ Outside
       /\ StartsWord(buf'.text, popup')
PopupFollowsWord == [][FollowsWord]_vars
=============================================================================
