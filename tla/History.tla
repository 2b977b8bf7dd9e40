------------------------------- MODULE History -------------------------------
(***************************************************************************)
(* Undo and redo of the text editor (src/src/widgets/textbox.c): two stacks *)
(* of at most CAP snapshots, of which a full one gives up its oldest, and   *)
(* the kind of the last edit, by which keystrokes that follow each other    *)
(* within 1.5 s become one step.  What an edit makes of the text is left    *)
(* open here; TextBuffer models it.                                         *)
(***************************************************************************)
EXTENDS Integers, Sequences

CONSTANTS Texts,    \* the texts the editor may hold
          Length,   \* Length[t]: how long text t is
          CAP       \* TEXTBOX_UNDO_CAP

ASSUME HistoryAssumption ==
    /\ Length \in [Texts -> Nat]
    /\ CAP \in Nat \ {0}

VARIABLES
  box,             \* text, cursor_pos and sel_anchor (-1 for none)
  undo,            \* the undo stack, the newest snapshot last
  redo,            \* the redo stack
  last_edit_kind

historyVars == <<box, undo, redo, last_edit_kind>>

EDIT_NONE   == "none"
EDIT_TYPE   == "type"
EDIT_DELETE == "delete"
EDIT_OTHER  == "other"
Kinds == {EDIT_NONE, EDIT_TYPE, EDIT_DELETE, EDIT_OTHER}

(* TextSnapshot: a text with a cursor and an anchor within it. *)
BoxesOf(t) == {[text |-> t, cursor |-> c, anchor |-> a] :
                 c \in 0 .. Length[t], a \in -1 .. Length[t]}
Boxes == UNION {BoxesOf(t) : t \in Texts}

(* A full stack gives up its oldest snapshot. *)
stack_push(stack, s) ==
    Append(IF Len(stack) = CAP THEN Tail(stack) ELSE stack, s)

Popped(stack) == SubSeq(stack, 1, Len(stack) - 1)

(* A keystroke joins the step before it; late: 1.5 s have passed. *)
coalesce(kind, late) == /\ kind \in {EDIT_TYPE, EDIT_DELETE}
                        /\ kind = last_edit_kind
                        /\ ~late
                        /\ undo # <<>>

keep_redo  == redo' = redo                           \* slip: the redo stack stays
clear_redo == redo' = <<>>

undo_push(kind, late) ==
    /\ clear_redo
    /\ undo' = IF coalesce(kind, late) THEN undo ELSE stack_push(undo, box)

restore_snapshot(s) ==
    [text   |-> s.text,
     cursor |-> IF s.cursor > Length[s.text] THEN Length[s.text] ELSE s.cursor,
     anchor |-> IF s.anchor \in 0 .. Length[s.text] THEN s.anchor ELSE -1]

(* At the start: the welcome script or the text of the last session, which *)
(* cannot be undone.                                                       *)
HistoryInit ==
    /\ box \in Boxes
    /\ undo = <<>>
    /\ redo = <<>>
    /\ last_edit_kind = EDIT_NONE

(* One edit: a typed space ends its burst, and so do the edits that set the *)
(* cursor afterwards; a delete never does.                                  *)
Edit(kind, late, new) ==
    /\ undo_push(kind, late)
    /\ box' = new
    /\ last_edit_kind' \in IF kind = EDIT_DELETE THEN {kind}
                           ELSE {kind, EDIT_NONE}

do_undo ==
    /\ undo # <<>>
    /\ redo' = stack_push(redo, box)
    /\ undo' = Popped(undo)
    /\ box' = restore_snapshot(undo[Len(undo)])
    /\ last_edit_kind' = EDIT_NONE

do_redo ==
    /\ redo # <<>>
    /\ undo' = stack_push(undo, box)
    /\ redo' = Popped(redo)
    /\ box' = restore_snapshot(redo[Len(redo)])
    /\ last_edit_kind' = EDIT_NONE

(* The cursor keys, the mouse and F3 end a burst; Ctrl+A, Ctrl+L and Escape *)
(* change the selection and do not.                                         *)
Move(new) ==
    /\ new.text = box.text
    /\ box' = new
    /\ last_edit_kind' \in {last_edit_kind, EDIT_NONE}
    /\ UNCHANGED <<undo, redo>>

HistoryNext ==
    \/ \E new \in Boxes :
         \/ Move(new)
         \/ \E kind \in Kinds \ {EDIT_NONE}, late \in BOOLEAN : Edit(kind, late, new)
    \/ do_undo
    \/ do_redo

HistorySpec == HistoryInit /\ [][HistoryNext]_historyVars
-----------------------------------------------------------------------------
(* The type invariant; the two stacks together never exceed one of them,   *)
(* so that undo and redo themselves give up no snapshot.                   *)
TypeOK ==
    /\ box \in Boxes
    /\ undo \in Seq(Boxes)
    /\ redo \in Seq(Boxes)
    /\ last_edit_kind \in Kinds

StacksFit == Len(undo) + Len(redo) <= CAP
-----------------------------------------------------------------------------
(* The line of states: what can be undone, what is shown, what can be      *)
(* redone, the nearest first.                                              *)
Walked == [i \in 1 .. Len(undo) + 1 + Len(redo) |->
           IF i <= Len(undo) THEN undo[i]
           ELSE IF i = Len(undo) + 1 THEN box
           ELSE redo[Len(undo) + Len(redo) + 2 - i]]

BurstKinds == {EDIT_TYPE, EDIT_DELETE}

Walk == INSTANCE Timeline
          WITH States <- Boxes, Bursts <- BurstKinds, None <- EDIT_NONE,
               Depth <- CAP,
               line <- Walked, at <- Len(undo) + 1,
               burst <- IF last_edit_kind \in BurstKinds THEN last_edit_kind
                        ELSE EDIT_NONE

(* Undo and redo walk along the states the edits have made: whatever edits, *)
(* undos, redos and cursor moves follow each other, an undo shows the text, *)
(* cursor and selection before the last step, redo is its exact inverse,    *)
(* and only an edit after CAP steps gives up the oldest state (textbox.c:   *)
(* 185-243).                                                                *)
ImplementsTimeline == Walk!TimelineSpec
=============================================================================
