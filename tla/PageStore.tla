----------------------------- MODULE PageStore -----------------------------
(***************************************************************************)
(* What the page cache promises the layers above it: an array of pages     *)
(* with a working and a stable copy each.  Readers see the working copy, a *)
(* restart goes back to the stable one.  A page whose write-back failed    *)
(* silently is Unknown from then on; every other page keeps its promise.   *)
(***************************************************************************)
CONSTANTS PageIds, Values, Zero, Absent, Unknown

VARIABLES
  value,   \* what bp_fetch hands out
  stable   \* what a restart of the process would find

storeVars == <<value, stable>>

Contents == Values \cup {Absent, Unknown}

StoreInit ==
  /\ value = [p \in PageIds |-> Absent]
  /\ stable = [p \in PageIds |-> Absent]

(* What may happen to a page without a client changing its contents: it    *)
(* comes into being, it is written back, or its write is lost.             *)
Appears(p)  == value[p] = Absent /\ value'[p] = Zero /\ stable'[p] = Zero
Synced(p)   == value'[p] = value[p] /\ stable'[p] = value[p]
Damaged(p)  == value[p] # Absent /\ value'[p] = Unknown /\ stable'[p] = Unknown
Untouched(p) == value'[p] = value[p] /\ stable'[p] = stable[p]

Transfer ==
  /\ value' \in [PageIds -> Contents]
  /\ stable' \in [PageIds -> Contents]
  /\ \A p \in PageIds : Appears(p) \/ Synced(p) \/ Damaged(p) \/ Untouched(p)

Modify(p, v) ==
  /\ value[p] \in Values
  /\ value' = [value EXCEPT ![p] = v]
  /\ UNCHANGED stable

(* The before-images of a rollback are put into the stable copy, when the  *)
(* two copies of the page agree.                                           *)
Undo(p, v) ==
  /\ value[p] \in Values
  /\ value[p] = stable[p]
  /\ value' = [value EXCEPT ![p] = v]
  /\ stable' = [stable EXCEPT ![p] = v]

Restart == value' = stable /\ UNCHANGED stable

StoreNext ==
  \/ Transfer
  \/ \E p \in PageIds, v \in Values : Modify(p, v)
  \/ \E p \in PageIds, v \in Values : Undo(p, v)
  \/ Restart

StoreSpec == StoreInit /\ [][StoreNext]_storeVars

=============================================================================
