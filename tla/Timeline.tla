------------------------------ MODULE Timeline ------------------------------
(***************************************************************************)
(* What Ctrl+Z and Ctrl+Y promise: the states of the editor lie on one     *)
(* line, undo and redo only walk along it, and an edit cuts off what lies  *)
(* ahead and adds its result.  Keys of one burst of typing, or of deleting,*)
(* may be one step.  Only the oldest states, beyond Depth steps, are lost. *)
(***************************************************************************)
EXTENDS Integers, Sequences

CONSTANTS States,   \* the states, records with a field text
          Bursts,   \* the kinds of edit that may be joined
          None,     \* no burst is going on
          Depth     \* how many steps can be undone

VARIABLES line,     \* the states, the oldest first
          at,       \* the state shown is line[at]
          burst     \* the burst that the last edit belongs to, or None

timelineVars == <<line, at, burst>>

TimelineInit == at = 1 /\ burst = None /\ \E s \in States : line = <<s>>

(* An edit of its own is a step: one state more, or the oldest is given up. *)
Extend(s) == IF at <= Depth
             THEN at' = at + 1 /\ line' = Append(SubSeq(line, 1, at), s)
             ELSE at' = at     /\ line' = Append(SubSeq(line, 2, at), s)

(* The next key of a burst changes the state the burst has made. *)
Amend(s) == at > 1 /\ at' = at /\ line' = Append(SubSeq(line, 1, at - 1), s)

Edit(b, s) == /\ \/ Extend(s)
                 \/ b = burst /\ b \in Bursts /\ Amend(s)
              /\ burst' \in {b, None}

Undo == at > 1 /\ at' = at - 1 /\ burst' = None /\ UNCHANGED line

Redo == at < Len(line) /\ at' = at + 1 /\ burst' = None /\ UNCHANGED line

(* Moving the cursor changes no text; it may end the burst. *)
Move(s) == /\ s.text = line[at].text
           /\ line' = [line EXCEPT ![at] = s]
           /\ burst' \in {burst, None}
           /\ UNCHANGED at

TimelineNext == \/ \E s \in States :
                     Move(s) \/ \E b \in Bursts \cup {None} : Edit(b, s)
                \/ Undo
                \/ Redo

TimelineSpec == TimelineInit /\ [][TimelineNext]_timelineVars
=============================================================================
