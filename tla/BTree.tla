------------------------------- MODULE BTree -------------------------------
(***************************************************************************)
(* index/btree.c: a B+ tree of 64-bit keys in the pages of a buffer pool.  *)
(*                                                                         *)
(* btree_insert is recursive: it goes down to a leaf, and a node that      *)
(* splits hands a separator and its new right sibling back to its parent.  *)
(* Each level of the recursion fetches its page anew, so each level is an  *)
(* action here: every one of them can fail (no free frame, no new page),   *)
(* and what the levels below have written stays written.  The stack of     *)
(* the recursion is op.path; pages are never freed nor merged.             *)
(***************************************************************************)
EXTENDS Integers, Sequences, FiniteSets, SequencesExt

CONSTANTS Keys,         \* the keys, natural numbers
          Vals,         \* the values
          Order,        \* BTREE_ORDER: the most keys a node holds
          MaxPages,     \* pages the file can still give to the tree
          MaxFailures   \* bound: fetches that fail

NoVal == "none"

ASSUME BTreeAssumption ==
    /\ Keys \subseteq Nat
    /\ NoVal \notin Vals
    /\ Order \in Nat \ {0, 1}
    /\ MaxPages \in Nat \ {0}
    /\ MaxFailures \in Nat

VARIABLES node,      \* the pages of the tree: node[1] is the root
          op,        \* the running call
          contents,  \* what the calls have stored under each key (history)
          failures,  \* the fetches that have failed (history)
          broken     \* one of them left a sibling without a parent (history)

vars == <<node, op, contents, failures, broken>>

Root   == 1      \* root_id: saved in the catalogue, never changes
NoPage == 0

Page(leaf, keys, items, next) ==
    [leaf |-> leaf, keys |-> keys, items |-> items, next |-> next]
ZeroedPage == Page(FALSE, <<>>, <<>>, NoPage)

NoSplit == [key |-> 0, page |-> NoPage]
Idle == [kind |-> "none", key |-> 0, val |-> NoVal,
         at |-> NoPage, path |-> <<>>, up |-> NoSplit]
----------------------------------------------------------------------------
(***************************************************************************)
(* The two binary searches of a node, with the indices of the code (from   *)
(* 0).  Look[n] holds the locals after n turns of the loop, with lo in at; *)
(* no loop makes more turns than there are keys.                           *)
(***************************************************************************)
Bounds(keys) == [found |-> FALSE, at |-> 0, hi |-> Len(keys) - 1]
Mid(s) == (s.at + s.hi) \div 2

LeafTurn(keys, k, s) ==
    IF s.found \/ s.at > s.hi THEN s
    ELSE IF keys[Mid(s) + 1] = k THEN [s EXCEPT !.found = TRUE, !.at = Mid(s)]
    ELSE IF keys[Mid(s) + 1] < k THEN [s EXCEPT !.at = Mid(s) + 1]
    ELSE [s EXCEPT !.hi = Mid(s) - 1]

LeafIndex(keys, k) ==
    LET Look[n \in 0 .. Len(keys)] ==
            IF n = 0 THEN Bounds(keys) ELSE LeafTurn(keys, k, Look[n - 1])
    IN  Look[Len(keys)]

ChildTurn(keys, k, s) ==
    IF s.at > s.hi THEN s
    ELSE IF k < keys[Mid(s) + 1] THEN [s EXCEPT !.hi = Mid(s) - 1]
    ELSE [s EXCEPT !.at = Mid(s) + 1]

ChildIndex(keys, k) ==
    LET Look[n \in 0 .. Len(keys)] ==
            IF n = 0 THEN Bounds(keys) ELSE ChildTurn(keys, k, Look[n - 1])
    IN  Look[Len(keys)].at

\* btree_search: from the root down to one leaf, and no further
ToChild(p, k) ==
    IF node[p].leaf THEN p
    ELSE node[p].items[ChildIndex(node[p].keys, k) + 1]

Search(k) ==
    LET Down[n \in 0 .. Len(node)] ==
            IF n = 0 THEN Root ELSE ToChild(Down[n - 1], k)
        leaf == node[Down[Len(node)]]
        i    == LeafIndex(leaf.keys, k)
    IN  IF i.found THEN leaf.items[i.at + 1] ELSE NoVal

\* btree_scan_open: the leftmost leaf
ToFirst(p) == IF node[p].leaf THEN p ELSE node[p].items[1]

FirstLeaf ==
    LET Down[n \in 0 .. Len(node)] ==
            IF n = 0 THEN Root ELSE ToFirst(Down[n - 1])
    IN  Down[Len(node)]

\* btree_scan_next: the entries of one leaf after another, in order
Entries(p) == [i \in DOMAIN node[p].keys |->
                   [key |-> node[p].keys[i], val |-> node[p].items[i]]]

ScanLeaf(s) ==
    IF s.leaf = NoPage THEN s
    ELSE [leaf |-> node[s.leaf].next, seen |-> s.seen \o Entries(s.leaf)]

Scan ==
    LET After[n \in 0 .. Len(node)] ==
            IF n = 0 THEN [leaf |-> FirstLeaf, seen |-> <<>>]
            ELSE ScanLeaf(After[n - 1])
    IN  After[Len(node)].seen
----------------------------------------------------------------------------
\* btree_create on a page of the pool
Init == /\ node = <<Page(TRUE, <<>>, <<>>, NoPage)>>
        /\ op = Idle
        /\ contents = [k \in Keys |-> NoVal]
        /\ failures = 0
        /\ broken = FALSE

Start(kind, k, v) ==
    /\ op = Idle
    /\ op' = [Idle EXCEPT !.kind = kind, !.key = k, !.val = v, !.at = Root]
    /\ UNCHANGED <<node, contents, failures, broken>>

Insert(k, v) == Start("insert", k, v)
Delete(k)    == Start("delete", k, NoVal)

\* The call is at page op.at on its way down; leaf says whether it is a leaf.
GoingDown(leaf) == /\ op # Idle
                   /\ op.up = NoSplit
                   /\ node[op.at].leaf = leaf

Here  == node[op.at]
Place == LeafIndex(Here.keys, op.key)

\* an inner node: on to the child the key belongs to
Descend ==
    /\ GoingDown(FALSE)
    /\ LET ci == ChildIndex(Here.keys, op.key)
       IN  op' = [op EXCEPT !.at = Here.items[ci + 1],
                            !.path = Append(@, [page |-> op.at, ci |-> ci])]
    /\ UNCHANGED <<node, contents, failures, broken>>

\* the call has done what it does to its leaf: the history follows it
Stored == contents' = [contents EXCEPT ![op.key] = op.val]

\* the key is there: its value is replaced
LeafReplace ==
    /\ GoingDown(TRUE) /\ op.kind = "insert" /\ Place.found
    /\ node' = [node EXCEPT ![op.at].items[Place.at + 1] = op.val]
    /\ op' = Idle /\ Stored
    /\ UNCHANGED <<failures, broken>>

\* the key and its value pushed into their place
LeafItemsFirst == InsertAt(Here.items, 1, op.val)               \* mutant

LeafKeys  == InsertAt(Here.keys, Place.at + 1, op.key)
LeafItems == InsertAt(Here.items, Place.at + 1, op.val)

LeafInsert ==
    /\ GoingDown(TRUE) /\ op.kind = "insert" /\ ~Place.found
    /\ Len(Here.keys) < Order
    /\ node' = [node EXCEPT ![op.at] = Page(TRUE, LeafKeys, LeafItems, @.next)]
    /\ op' = Idle /\ Stored
    /\ UNCHANGED <<failures, broken>>

\* the leaf that follows the new right one
RightNextLost == NoPage                                         \* mutant
RightNext     == Here.next

\* A full leaf keeps the lower half; a new page to its right takes the rest,
\* and its first key goes up.
LeafSplit ==
    /\ GoingDown(TRUE) /\ op.kind = "insert" /\ ~Place.found
    /\ Len(Here.keys) = Order
    /\ Len(node) < MaxPages
    /\ LET total  == Order + 1
           left_n == total \div 2
           rpid   == Len(node) + 1
           right  == Page(TRUE, SubSeq(LeafKeys, left_n + 1, total),
                          SubSeq(LeafItems, left_n + 1, total), RightNext)
           left   == Page(TRUE, SubSeq(LeafKeys, 1, left_n),
                          SubSeq(LeafItems, 1, left_n), rpid)
       IN  /\ node' = Append([node EXCEPT ![op.at] = left], right)
           /\ op' = [op EXCEPT !.up = [key |-> right.keys[1], page |-> rpid]]
    /\ Stored
    /\ UNCHANGED <<failures, broken>>

LeafDelete ==
    /\ GoingDown(TRUE) /\ op.kind = "delete"
    /\ node' = IF Place.found
               THEN [node EXCEPT
                       ![op.at].keys  = RemoveAt(@, Place.at + 1),
                       ![op.at].items = RemoveAt(@, Place.at + 1)]
               ELSE node                       \* SV_NOT_FOUND
    /\ contents' = IF Place.found
                   THEN [contents EXCEPT ![op.key] = NoVal] ELSE contents
    /\ op' = Idle
    /\ UNCHANGED <<failures, broken>>
----------------------------------------------------------------------------
(***************************************************************************)
(* The way back up: the child at path's last entry has split.              *)
(***************************************************************************)
GoingUp == op.up # NoSplit

Up          == Last(op.path)
Parent      == node[Up.page]
ParentKeys  == InsertAt(Parent.keys, Up.ci + 1, op.up.key)

ParentItemsBefore ==
    InsertAt(Parent.items, Up.ci + 1, op.up.page)               \* mutant
ParentItems == InsertAt(Parent.items, Up.ci + 2, op.up.page)

ParentInsert ==
    /\ GoingUp /\ op.path # <<>>
    /\ Len(Parent.keys) < Order
    /\ node' = [node EXCEPT
                  ![Up.page] = Page(FALSE, ParentKeys, ParentItems, @.next)]
    /\ op' = Idle
    /\ UNCHANGED <<contents, failures, broken>>

\* A full inner node: the middle key goes up and stays in neither half.
ParentSplit ==
    /\ GoingUp /\ op.path # <<>>
    /\ Len(Parent.keys) = Order
    /\ Len(node) < MaxPages
    /\ LET total == Order + 1
           mid   == total \div 2
           rpid  == Len(node) + 1
           left  == Page(FALSE, SubSeq(ParentKeys, 1, mid),
                         SubSeq(ParentItems, 1, mid + 1), Parent.next)
           right == Page(FALSE, SubSeq(ParentKeys, mid + 2, total),
                         SubSeq(ParentItems, mid + 2, total + 1), NoPage)
       IN  /\ node' = Append([node EXCEPT ![Up.page] = left], right)
           /\ op' = [op EXCEPT !.path = Front(@),
                               !.up = [key |-> ParentKeys[mid + 1],
                                       page |-> rpid]]
    /\ UNCHANGED <<contents, failures, broken>>

\* The root has split: its left half moves to a new page, and the root page
\* becomes an inner node over the two halves.
RootSplit ==
    /\ GoingUp /\ op.path = <<>>
    /\ Len(node) < MaxPages
    /\ LET lpid == Len(node) + 1
           root == Page(FALSE, <<op.up.key>>, <<lpid, op.up.page>>, NoPage)
       IN  node' = Append([node EXCEPT ![Root] = root], node[Root])
    /\ op' = Idle
    /\ UNCHANGED <<contents, failures, broken>>

\* the call is about to ask for a new page
Allocates == IF GoingUp
             THEN op.path # <<>> => Len(Parent.keys) = Order
             ELSE /\ op.kind = "insert" /\ Here.leaf
                  /\ ~Place.found /\ Len(Here.keys) = Order

\* The call returns SV_ERR where it stands.
Abandon == /\ op # Idle
           /\ op' = Idle
           /\ broken' = (broken \/ GoingUp)
           /\ UNCHANGED contents

\* A fetch fails; the page allocated just before, if any, is lost.
Fail ==
    /\ Abandon
    /\ failures < MaxFailures
    /\ failures' = failures + 1
    /\ \/ node' = node
       \/ /\ Allocates /\ Len(node) < MaxPages
          /\ node' = Append(node, ZeroedPage)

\* There is no page left to allocate.
OutOfPages ==
    /\ Abandon
    /\ Allocates /\ Len(node) = MaxPages
    /\ UNCHANGED <<node, failures>>

Next == \/ \E k \in Keys, v \in Vals : Insert(k, v)
        \/ \E k \in Keys : Delete(k)
        \/ Descend \/ LeafReplace \/ LeafInsert \/ LeafSplit \/ LeafDelete
        \/ ParentInsert \/ ParentSplit \/ RootSplit
        \/ Fail \/ OutOfPages

Spec == Init /\ [][Next]_vars
----------------------------------------------------------------------------
StoredKeys == {k \in Keys : contents[k] # NoVal}
Quiet == op = Idle /\ ~broken

\* After any sequence of inserts and deletes btree_search finds, for every
\* key, the value stored last and nothing for a key that was deleted: splits
\* at every level leave each key under the separators that lead to it.
SearchFindsAll == Quiet => \A k \in Keys : Search(k) = contents[k]

\* btree_scan returns every key once, in increasing order and with its value,
\* though leaves split, empty and never merge.
ScanInOrder ==
    Quiet => /\ \A i, j \in DOMAIN Scan : i < j => Scan[i].key < Scan[j].key
             /\ ToSet(Scan) = {[key |-> k, val |-> contents[k]] : k \in StoredKeys}

\* A call that fails half way up may leave a sibling that no parent leads to,
\* but the chain of leaves still reaches it: no key stored is lost to a scan.
ScanLosesNothing ==
    op = Idle => StoredKeys \subseteq {Scan[i].key : i \in DOMAIN Scan}
=============================================================================
