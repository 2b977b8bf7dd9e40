---------------------------- MODULE EngineProofs ----------------------------
EXTENDS Engine, WellFoundedInduction, FiniteSetTheorems, TLAPS

-----------------------------------------------------------------------------
(* Induction. The least element of a set of numbers stands for the         *)
(* induction rule, and a function that iterates another one for recursion. *)

(* Every nonempty set of natural numbers has a least element.              *)
LEMMA LeastNumber ==
  ASSUME NEW T \in SUBSET Nat, T # {}
  PROVE  \E m \in T : \A k \in T : m <= k
<1> DEFINE R == {ss \in Nat \X Nat : ss[1] < ss[2]}
<1>1. IsWellFoundedOn(R, Nat)
  <2>1. OpToRel(<, Nat) = R
    BY DEF OpToRel
  <2> QED
    BY <2>1, NatLessThanWellFounded
<1>2. \E x \in T : \A y \in T : ~ (<<y, x>> \in R)
  <2> HIDE DEF R
  <2> QED
    BY <1>1, WFMin
<1>3. PICK m \in T : \A k \in T : ~ (<<k, m>> \in R)
  BY <1>2
<1>4. ASSUME NEW k \in T PROVE m <= k
  <2>1. <<k, m>> \in Nat \X Nat /\ <<k, m>>[1] = k /\ <<k, m>>[2] = m
    OBVIOUS
  <2> QED
    BY <1>3, <2>1
<1> QED
  BY <1>4

(* A set with 0 and with the successor of each of its elements below N.    *)
LEMMA Induction ==
  ASSUME NEW S, NEW N \in Nat, 0 \in S, \A n \in 1 .. N : n - 1 \in S => n \in S
  PROVE  \A n \in 0 .. N : n \in S
<1> DEFINE T == (0 .. N) \ S
<1> SUFFICES ASSUME T # {} PROVE FALSE
  OBVIOUS
<1>1. T \in SUBSET Nat
  OBVIOUS
<1>2. PICK m \in T : \A k \in T : m <= k
  <2> HIDE DEF T
  <2> QED
    BY <1>1, LeastNumber
<1>3. m \in 0 .. N /\ m \notin S /\ m # 0
  OBVIOUS
<1>4. m \in 1 .. N /\ m - 1 \in 0 .. N /\ ~(m <= m - 1)
  BY <1>3
<1>5. m - 1 \in S
  BY <1>2, <1>4
<1> QED
  BY <1>3, <1>4, <1>5

(* f[0], f[1], ... f[N] are base and what step makes of each from the one  *)
(* before.                                                                 *)
Iterates(f, S, base, N, step) ==
  /\ f \in [0 .. N -> S]
  /\ f[0] = base
  /\ \A n \in 1 .. N : f[n] = step[<<n, f[n - 1]>>]

LEMMA Iteration ==
  ASSUME NEW S, NEW base \in S, NEW N \in Nat, NEW step \in [(1 .. N) \X S -> S]
  PROVE  \E f : Iterates(f, S, base, N, step)
<1> DEFINE Rec(f, n) == /\ f \in [0 .. n -> S]
                        /\ f[0] = base
                        /\ \A k \in 1 .. n : f[k] = step[<<k, f[k - 1]>>]
           Good == {n \in 0 .. N : \E f : Rec(f, n)}
<1>1. 0 \in Good
  <2>1. Rec([k \in 0 .. 0 |-> base], 0)
    OBVIOUS
  <2> HIDE DEF Rec
  <2> QED
    BY <2>1
<1>2. ASSUME NEW n \in 1 .. N, n - 1 \in Good
      PROVE  n \in Good
  <2>1. PICK f : Rec(f, n - 1)
    BY <1>2
  <2> DEFINE g == [k \in 0 .. n |-> IF k = n THEN step[<<n, f[n - 1]>>] ELSE f[k]]
  <2>2. /\ n - 1 \in 0 .. n - 1 /\ 0 \in 0 .. n - 1
        /\ f \in [0 .. n - 1 -> S]
    BY <2>1
  <2>3. f[n - 1] \in S /\ <<n, f[n - 1]>> \in (1 .. N) \X S
    BY <2>2
  <2>4. g \in [0 .. n -> S]
    BY <2>2, <2>3
  <2>5. g[0] = base
    BY <2>1, <2>2
  <2>6. ASSUME NEW k \in 1 .. n PROVE g[k] = step[<<k, g[k - 1]>>]
    <3>1. CASE k = n
      <4>1. n - 1 \in 0 .. n /\ n - 1 # n /\ n \in 0 .. n
        OBVIOUS
      <4>2. g[n - 1] = f[n - 1] /\ g[n] = step[<<n, f[n - 1]>>]
        BY <4>1
      <4> QED
        BY <3>1, <4>2
    <3>2. CASE k # n
      <4>1. k \in 1 .. n - 1 /\ k - 1 \in 0 .. n - 1
        BY <3>2
      <4>2. g[k] = f[k] /\ g[k - 1] = f[k - 1]
        BY <4>1
      <4> QED
        BY <2>1, <4>1, <4>2
    <3> QED
      BY <3>1, <3>2
  <2>7. Rec(g, n)
    BY <2>4, <2>5, <2>6
  <2>8. n \in 0 .. N
    OBVIOUS
  <2> HIDE DEF Rec, g
  <2> QED
    BY <2>7, <2>8
<1> HIDE DEF Rec
<1>3. \A n \in 0 .. N : n \in Good
  <2> HIDE DEF Good
  <2> QED
    BY <1>1, <1>2, Induction
<1>4. \E f : Rec(f, N)
  BY <1>3
<1> QED
  BY <1>4 DEF Rec, Iterates

-----------------------------------------------------------------------------
(* Replaying a sequence of steps *)
Slot     == Rows \cup {Deleted}
Page     == {pg \in Seq(Slot) : Len(pg) <= Slots}
Contents == [PageIds -> Page]
Steps    == {step \in [does : {"redo", "undo"}, rec : Record] : step.rec.type \in DataOps}

(* Inserting, deleting, redo and undo leave pages with at most Slots slots. *)
LEMMA PageInsertType ==
  ASSUME NEW pg \in Page, NEW r \in Slot
  PROVE  PageInsert(pg, r) \in Page
<1>1. Slots \in Nat /\ Len(pg) \in Nat /\ pg \in Seq(Slot)
  BY EngineAssumption DEF Page
<1>2. CASE HasRoom(pg)
  BY <1>1, <1>2 DEF PageInsert, HasRoom, Page
<1>3. CASE ~HasRoom(pg)
  BY <1>3 DEF PageInsert
<1> QED
  BY <1>2, <1>3

LEMMA PageDeleteType ==
  ASSUME NEW pg \in Page, NEW s
  PROVE  PageDelete(pg, s) \in Page
<1>1. CASE s \in DOMAIN pg
  <2>1. pg \in Seq(Slot) /\ Deleted \in Slot /\ Len(pg) <= Slots
    BY DEF Page, Slot
  <2>2. [pg EXCEPT ![s] = Deleted] \in Seq(Slot) /\ Len([pg EXCEPT ![s] = Deleted]) = Len(pg)
    BY <1>1, <2>1
  <2> QED
    BY <1>1, <2>1, <2>2 DEF PageDelete, Page
<1>2. CASE s \notin DOMAIN pg
  BY <1>2 DEF PageDelete
<1> QED
  BY <1>1, <1>2

LEMMA ApplyType ==
  ASSUME NEW pgs \in Contents, NEW step \in Steps
  PROVE  Apply(pgs, step) \in Contents
<1> DEFINE e == step.rec
<1>1. e \in Record /\ e.type \in DataOps /\ e.new \in Slot /\ e.old \in Slot
  BY DEF Steps, Record, Slot, NoRow, Deleted
<1>2. ASSUME NEW pg \in Page PROVE Redo(pg, e) \in Page /\ Undo(pg, e) \in Page
  <2>1. PageDelete(pg, e.slot) \in Page
    BY PageDeleteType
  <2>2. \A r \in Slot, q \in Page : PageInsert(q, r) \in Page
    BY PageInsertType
  <2> HIDE DEF e
  <2> QED
    BY <1>1, <2>1, <2>2 DEF Redo, Undo, DataOps
<1> QED
  BY <1>2 DEF Apply, Contents

(* What ApplyAll computes: every step in turn.                             *)
Replays(f, pgs, steps) ==
  /\ f \in [0 .. Len(steps) -> Contents]
  /\ f[0] = pgs
  /\ \A n \in 1 .. Len(steps) : f[n] = Apply(f[n - 1], steps[n])

LEMMA ApplyAllReplays ==
  ASSUME NEW pgs \in Contents, NEW steps \in Seq(Steps)
  PROVE  \E f : Replays(f, pgs, steps) /\ ApplyAll[<<pgs, steps>>] = f[Len(steps)]
<1> DEFINE N       == Len(steps)
           next    == [x \in (1 .. N) \X Contents |-> Apply(x[2], steps[x[1]])]
           Is(f)   == f = [n \in 0 .. N |-> IF n = 0 THEN pgs ELSE Apply(f[n - 1], steps[n])]
           after   == CHOOSE f : Is(f)
<1>0. N \in Nat
  OBVIOUS
<1>1. next \in [(1 .. N) \X Contents -> Contents]
  <2>1. \A n \in 1 .. N : steps[n] \in Steps
    OBVIOUS
  <2> QED
    BY <2>1, ApplyType
<1>2. PICK f : Iterates(f, Contents, pgs, N, next)
  <2> HIDE DEF next, N
  <2> QED
    BY <1>0, <1>1, Iteration
<1>3. /\ f \in [0 .. N -> Contents] /\ f[0] = pgs
      /\ \A n \in 1 .. N : f[n] = Apply(f[n - 1], steps[n])
  <2>1. f \in [0 .. N -> Contents] /\ f[0] = pgs
    BY <1>2 DEF Iterates
  <2>2. ASSUME NEW n \in 1 .. N PROVE f[n] = Apply(f[n - 1], steps[n])
    <3>1. n - 1 \in 0 .. N
      BY <1>0
    <3>2. <<n, f[n - 1]>> \in (1 .. N) \X Contents
      BY <2>1, <3>1
    <3>3. f[n] = next[<<n, f[n - 1]>>]
      BY <1>2 DEF Iterates
    <3> QED
      BY <3>2, <3>3
  <2> QED
    BY <2>1, <2>2
<1>4. Is(f)
  <2>1. f = [n \in 0 .. N |-> f[n]]
    BY <1>3
  <2>2. \A n \in 0 .. N : n = 0 \/ n \in 1 .. N
    BY <1>0
  <2>3. \A n \in 0 .. N : f[n] = IF n = 0 THEN pgs ELSE Apply(f[n - 1], steps[n])
    BY <1>3, <2>2
  <2> HIDE DEF N
  <2> QED
    BY <2>1, <2>3
<1>5. Is(after)
  <2> HIDE DEF Is
  <2> QED
    BY <1>4
<1>6. /\ after[0] = pgs
      /\ \A n \in 1 .. N : after[n] = Apply(after[n - 1], steps[n])
  <2> HIDE DEF after, N
  <2>1. 0 \in 0 .. N /\ \A n \in 1 .. N : n \in 0 .. N /\ n # 0
    BY <1>0
  <2> QED
    BY <1>5, <2>1
<1>7. after \in [0 .. N -> Contents]
  <2> DEFINE Good == {n \in 0 .. N : after[n] \in Contents}
  <2>1. 0 \in Good
    BY <1>0, <1>6
  <2>2. ASSUME NEW n \in 1 .. N, n - 1 \in Good PROVE n \in Good
    <3>1. steps[n] \in Steps /\ n \in 0 .. N
      BY <1>0
    <3> HIDE DEF after, N
    <3> QED
      BY <2>2, <3>1, <1>6, ApplyType
  <2>3. \A n \in 0 .. N : n \in Good
    <3> HIDE DEF Good
    <3> QED
      BY <1>0, <2>1, <2>2, Induction
  <2> HIDE DEF after, N
  <2> QED
    BY <1>5, <2>3
<1>8. ApplyAll[<<pgs, steps>>] = after[N]
  <2>1. <<pgs, steps>> \in [PageIds -> Seq(Rows \cup {Deleted})] \X
                           Seq([does : {"redo", "undo"}, rec : Record])
    <3>1. pgs \in [PageIds -> Seq(Rows \cup {Deleted})]
      BY DEF Contents, Page, Slot
    <3> DEFINE T == [does : {"redo", "undo"}, rec : Record]
    <3>2. Steps \subseteq T
      BY DEF Steps
    <3>3. steps \in Seq(T)
      <4> HIDE DEF T
      <4> QED
        BY <3>2
    <3> QED
      BY <3>1, <3>3
  <2> QED
    BY <2>1 DEF ApplyAll
<1> QED
  <2> HIDE DEF after
  <2> QED
    BY <1>6, <1>7, <1>8 DEF Replays

LEMMA ApplyAllType ==
  ASSUME NEW pgs \in Contents, NEW steps \in Seq(Steps)
  PROVE  ApplyAll[<<pgs, steps>>] \in Contents
<1>1. PICK f : Replays(f, pgs, steps) /\ ApplyAll[<<pgs, steps>>] = f[Len(steps)]
  BY ApplyAllReplays
<1> QED
  BY <1>1 DEF Replays

(* What Redoing computes: the data records of the log, in their order.     *)
DataIn(l) == {i \in DOMAIN l : l[i].type \in DataOps}

Repeats(steps, at, l, I) ==
  /\ steps \in Seq(Steps)
  /\ at \in [1 .. Len(steps) -> I]
  /\ \A n \in 1 .. Len(steps) : steps[n] = Step("redo", l[at[n]])
  /\ \A m, n \in 1 .. Len(steps) : m < n => at[m] < at[n]
  /\ \A i \in I : \E n \in 1 .. Len(steps) : at[n] = i

LEMMA RedoingRepeats ==
  ASSUME NEW l \in Seq(Record)
  PROVE  \E at : Repeats(Redoing[l], at, l, DataIn(l))
<1> DEFINE N     == Len(l)
           S     == Seq(Steps)
           next  == [x \in (1 .. N) \X S |->
                       IF l[x[1]].type \in DataOps THEN Append(x[2], Step("redo", l[x[1]])) ELSE x[2]]
           Is(f) == f = [n \in 0 .. N |->
                           IF n = 0 THEN <<>>
                           ELSE IF l[n].type \in DataOps THEN Append(f[n - 1], Step("redo", l[n]))
                           ELSE f[n - 1]]
           upto  == CHOOSE f : Is(f)
<1>0. N \in Nat /\ DOMAIN l = 1 .. N /\ \A n \in 1 .. N : n \in 0 .. N /\ n # 0 /\ n - 1 \in 0 .. N
  OBVIOUS
<1>1. \A n \in 1 .. N : l[n].type \in DataOps => Step("redo", l[n]) \in Steps
  BY DEF Step, Steps
<1>2. next \in [(1 .. N) \X S -> S] /\ <<>> \in S
  BY <1>1
<1>3. PICK f : Iterates(f, S, <<>>, N, next)
  <2> HIDE DEF next, N, S
  <2> QED
    BY <1>0, <1>2, Iteration
<1>4. Is(f)
  <2>1. f \in [0 .. N -> S] /\ f[0] = <<>>
    BY <1>3 DEF Iterates
  <2>2. ASSUME NEW n \in 1 .. N
        PROVE  f[n] = IF l[n].type \in DataOps THEN Append(f[n - 1], Step("redo", l[n])) ELSE f[n - 1]
    <3> HIDE DEF N, S
    <3>1. <<n, f[n - 1]>> \in (1 .. N) \X S
      BY <1>0, <2>1
    <3>2. f[n] = next[<<n, f[n - 1]>>]
      BY <1>3 DEF Iterates
    <3> QED
      BY <3>1, <3>2
  <2>3. f = [n \in 0 .. N |-> f[n]]
    BY <2>1
  <2>4. \A n \in 0 .. N : n = 0 \/ n \in 1 .. N
    BY <1>0
  <2> HIDE DEF N, S
  <2>5. \A n \in 0 .. N : f[n] = IF n = 0 THEN <<>>
                           ELSE IF l[n].type \in DataOps THEN Append(f[n - 1], Step("redo", l[n]))
                           ELSE f[n - 1]
    BY <2>1, <2>2, <2>4
  <2> QED
    BY <2>3, <2>5
<1>5. Is(upto)
  <2> HIDE DEF Is
  <2> QED
    BY <1>4
<1>6. /\ upto[0] = <<>>
      /\ \A n \in 1 .. N :
           upto[n] = IF l[n].type \in DataOps THEN Append(upto[n - 1], Step("redo", l[n])) ELSE upto[n - 1]
  <2> HIDE DEF upto
  <2>1. upto[0] = <<>>
    <3>1. 0 \in 0 .. N
      BY <1>0
    <3> HIDE DEF N
    <3> QED
      BY <1>5, <3>1
  <2>2. ASSUME NEW n \in 1 .. N
        PROVE  upto[n] = IF l[n].type \in DataOps THEN Append(upto[n - 1], Step("redo", l[n])) ELSE upto[n - 1]
    <3>1. n \in 0 .. N /\ n # 0
      BY <1>0
    <3> HIDE DEF N
    <3> QED
      BY <1>5, <3>1
  <2> QED
    BY <2>1, <2>2
<1>7. Redoing[l] = upto[N]
  BY DEF Redoing
<1> DEFINE Data(k) == {i \in 1 .. k : l[i].type \in DataOps}
           Good == {k \in 0 .. N : \E at : Repeats(upto[k], at, l, Data(k))}
<1>8. 0 \in Good
  <2>1. Data(0) = {}
    OBVIOUS
  <2>2. [n \in 1 .. 0 |-> 0] \in [1 .. 0 -> {}] /\ <<>> \in Seq(Steps) /\ Len(<<>>) = 0 /\ 0 \in 0 .. N
    BY <1>0
  <2>3. Repeats(<<>>, [n \in 1 .. 0 |-> 0], l, {})
    BY <2>2 DEF Repeats
  <2> HIDE DEF upto, Data, N
  <2> QED
    BY <1>6, <2>1, <2>2, <2>3
<1>9. ASSUME NEW k \in 1 .. N, k - 1 \in Good PROVE k \in Good
  <2> HIDE DEF upto
  <2>1. PICK at : Repeats(upto[k - 1], at, l, Data(k - 1))
    BY <1>9
  <2>2. CASE l[k].type \notin DataOps
    <3>1. Data(k) = Data(k - 1) /\ upto[k] = upto[k - 1]
      BY <1>0, <1>6, <2>2
    <3> QED
      BY <1>0, <2>1, <3>1
  <2>3. CASE l[k].type \in DataOps
    <3> DEFINE a == upto[k - 1]
               M == Len(a)
               b == upto[k]
               bt == [n \in 1 .. M + 1 |-> IF n = M + 1 THEN k ELSE at[n]]
    <3>1. b = Append(a, Step("redo", l[k])) /\ Step("redo", l[k]) \in Steps /\ k \in 0 .. N
      BY <1>0, <1>1, <1>6, <2>3
    <3>2. Data(k) = Data(k - 1) \cup {k} /\ \A i \in Data(k - 1) : i \in Nat /\ i < k
      BY <1>0, <2>3
    <3>3. /\ a \in Seq(Steps) /\ M \in Nat
          /\ at \in [1 .. M -> Data(k - 1)]
          /\ \A n \in 1 .. M : a[n] = Step("redo", l[at[n]])
          /\ \A m, n \in 1 .. M : m < n => at[m] < at[n]
          /\ \A i \in Data(k - 1) : \E n \in 1 .. M : at[n] = i
      BY <2>1 DEF Repeats
    <3> HIDE DEF Data, a, b, N
    <3>4. b \in Seq(Steps) /\ Len(b) = M + 1 /\ b[M + 1] = Step("redo", l[k])
          /\ \A n \in 1 .. M : b[n] = a[n]
      BY <3>1, <3>3
    <3> HIDE DEF M
    <3>5. \A n \in 1 .. M + 1 : n = M + 1 \/ n \in 1 .. M
      BY <3>3
    <3>6. M + 1 \in 1 .. M + 1 /\ \A n \in 1 .. M : n \in 1 .. M + 1 /\ n # M + 1 /\ n < M + 1
      BY <3>3
    <3>7. bt \in [1 .. M + 1 -> Data(k)]
      BY <3>2, <3>3, <3>5
    <3>8. bt[M + 1] = k /\ \A n \in 1 .. M : bt[n] = at[n]
      BY <3>6
    <3> HIDE DEF bt
    <3>9. \A n \in 1 .. M + 1 : b[n] = Step("redo", l[bt[n]])
      BY <3>3, <3>4, <3>5, <3>8
    <3>10. \A m, n \in 1 .. M + 1 : m < n => bt[m] < bt[n]
      <4> SUFFICES ASSUME NEW m \in 1 .. M + 1, NEW n \in 1 .. M + 1, m < n PROVE bt[m] < bt[n]
        OBVIOUS
      <4>1. m \in 1 .. M
        BY <3>3
      <4>2. at[m] \in Data(k - 1)
        BY <3>3, <4>1
      <4> QED
        BY <3>2, <3>3, <3>5, <3>8, <4>1, <4>2
    <3>11. \A i \in Data(k) : \E n \in 1 .. M + 1 : bt[n] = i
      BY <3>2, <3>3, <3>6, <3>8
    <3>12. Repeats(b, bt, l, Data(k))
      BY <3>4, <3>7, <3>9, <3>10, <3>11 DEF Repeats
    <3> QED
      BY <3>1, <3>12 DEF b
  <2> QED
    BY <2>2, <2>3
<1>10. \A k \in 0 .. N : k \in Good
  <2> HIDE DEF Good, N
  <2> QED
    BY <1>0, <1>8, <1>9, Induction
<1>11. \E at : Repeats(upto[N], at, l, Data(N))
  <2> HIDE DEF upto, Data
  <2> QED
    BY <1>0, <1>10
<1>12. Data(N) = DataIn(l)
  BY <1>0 DEF DataIn
<1> QED
  <2> HIDE DEF upto, Data
  <2> QED
    BY <1>7, <1>11, <1>12


(* What Undoing computes: a step for each of the data records at I. (The   *)
(* order, last record first, is left to TLC.)                              *)
Undoes(steps, l, I) ==
  /\ steps \in Seq(Steps)
  /\ \A n \in 1 .. Len(steps) : \E i \in I : steps[n] = Step("undo", l[i])
  /\ \A i \in I : \E n \in 1 .. Len(steps) : steps[n] = Step("undo", l[i])

LEMMA UndoingUndoes ==
  ASSUME NEW l \in Seq(Record), NEW I \in SUBSET Nat
  PROVE  Undoes(Undoing[<<l, I>>], l, I \cap DataIn(l))
<1> DEFINE N      == Len(l)
           S      == Seq(Steps)
           Of(n)  == n \in I /\ l[n].type \in DataOps
           next   == [x \in (1 .. N) \X S |->
                        IF Of(x[1]) THEN <<Step("undo", l[x[1]])>> \o x[2] ELSE x[2]]
           Is(f)  == f = [n \in 0 .. N |->
                            IF n = 0 THEN <<>>
                            ELSE IF Of(n) THEN <<Step("undo", l[n])>> \o f[n - 1]
                            ELSE f[n - 1]]
           from   == CHOOSE f : Is(f)
<1>0. N \in Nat /\ DOMAIN l = 1 .. N /\ \A n \in 1 .. N : n \in 0 .. N /\ n # 0 /\ n - 1 \in 0 .. N
  OBVIOUS
<1>1. \A n \in 1 .. N : Of(n) => Step("undo", l[n]) \in Steps
  BY DEF Step, Steps
<1>2. next \in [(1 .. N) \X S -> S] /\ <<>> \in S
  <2>1. ASSUME NEW n \in 1 .. N, Of(n), NEW s \in S PROVE <<Step("undo", l[n])>> \o s \in S
    <3>1. Step("undo", l[n]) \in Steps
      BY <1>1, <2>1
    <3> DEFINE u == Step("undo", l[n])
    <3> HIDE DEF u
    <3> QED
      BY <3>1, <2>1 DEF u
  <2>2. \A x \in (1 .. N) \X S : next[x] \in S
    <3> HIDE DEF S, N, Of
    <3> QED
      BY <2>1
  <2> QED
    BY <2>2
<1>3. PICK f : Iterates(f, S, <<>>, N, next)
  <2> HIDE DEF next, N, S
  <2> QED
    BY <1>0, <1>2, Iteration
<1>4. Is(f)
  <2>1. f \in [0 .. N -> S] /\ f[0] = <<>>
    BY <1>3 DEF Iterates
  <2>2. ASSUME NEW n \in 1 .. N
        PROVE  f[n] = IF Of(n) THEN <<Step("undo", l[n])>> \o f[n - 1] ELSE f[n - 1]
    <3> HIDE DEF N, S, Of
    <3>1. <<n, f[n - 1]>> \in (1 .. N) \X S
      BY <1>0, <2>1
    <3>2. f[n] = next[<<n, f[n - 1]>>]
      BY <1>3 DEF Iterates
    <3> QED
      BY <3>1, <3>2
  <2>3. f = [n \in 0 .. N |-> f[n]]
    BY <2>1
  <2>4. \A n \in 0 .. N : n = 0 \/ n \in 1 .. N
    BY <1>0
  <2> HIDE DEF N, S, Of
  <2>5. \A n \in 0 .. N : f[n] = IF n = 0 THEN <<>>
                           ELSE IF Of(n) THEN <<Step("undo", l[n])>> \o f[n - 1]
                           ELSE f[n - 1]
    BY <2>1, <2>2, <2>4
  <2> QED
    BY <2>3, <2>5
<1>5. Is(from)
  <2> HIDE DEF Is
  <2> QED
    BY <1>4
<1>6. from[0] = <<>>
  <2> HIDE DEF from
  <2>1. 0 \in 0 .. N
    BY <1>0
  <2> HIDE DEF N
  <2> QED
    BY <1>5, <2>1
<1>7. ASSUME NEW n \in 1 .. N
      PROVE  from[n] = IF Of(n) THEN <<Step("undo", l[n])>> \o from[n - 1] ELSE from[n - 1]
  <2> HIDE DEF from
  <2>1. n \in 0 .. N /\ n # 0
    BY <1>0
  <2> HIDE DEF N, Of
  <2> QED
    BY <1>5, <2>1
<1>8. Undoing[<<l, I>>] = from[N]
  <2>1. <<l, I>> \in Seq(Record) \X SUBSET Nat
    OBVIOUS
  <2> QED
    BY <2>1 DEF Undoing
<1> DEFINE Data(k) == {i \in 1 .. k : Of(i)}
           Good == {k \in 0 .. N : Undoes(from[k], l, Data(k))}
<1>9. 0 \in Good
  <2>1. Data(0) = {}
    OBVIOUS
  <2>2. <<>> \in Seq(Steps) /\ Len(<<>>) = 0 /\ 0 \in 0 .. N
    BY <1>0
  <2>3. Undoes(<<>>, l, {})
    BY <2>2 DEF Undoes
  <2> HIDE DEF from, Data, N
  <2> QED
    BY <1>6, <2>1, <2>2, <2>3
<1>10. ASSUME NEW k \in 1 .. N, k - 1 \in Good PROVE k \in Good
  <2> HIDE DEF from
  <2>1. Undoes(from[k - 1], l, Data(k - 1))
    BY <1>10
  <2>2. CASE ~Of(k)
    <3>1. Data(k) = Data(k - 1) /\ from[k] = from[k - 1]
      <4>1. \A i \in 1 .. k : i = k \/ i \in 1 .. k - 1
        BY <1>0
      <4>2. \A i \in 1 .. k - 1 : i \in 1 .. k
        BY <1>0
      <4>3. Data(k) = Data(k - 1)
        BY <2>2, <4>1, <4>2
      <4> HIDE DEF Data, Of
      <4> QED
        BY <1>7, <2>2, <4>3
    <3> QED
      BY <1>0, <2>1, <3>1
  <2>3. CASE Of(k)
    <3> DEFINE a == from[k - 1]
               M == Len(a)
               u == Step("undo", l[k])
               b == <<u>> \o a
    <3>1. from[k] = b /\ u \in Steps /\ k \in 0 .. N
      BY <1>0, <1>1, <1>7, <2>3
    <3>2. Data(k) = Data(k - 1) \cup {k}
      <4>1. \A i \in 1 .. k : i = k \/ i \in 1 .. k - 1
        BY <1>0
      <4>2. k \in 1 .. k /\ \A i \in 1 .. k - 1 : i \in 1 .. k
        BY <1>0
      <4> HIDE DEF Of, N
      <4> QED
        BY <2>3, <4>1, <4>2
    <3>3. /\ a \in Seq(Steps) /\ M \in Nat
          /\ \A n \in 1 .. M : \E i \in Data(k - 1) : a[n] = Step("undo", l[i])
          /\ \A i \in Data(k - 1) : \E n \in 1 .. M : a[n] = Step("undo", l[i])
      BY <2>1 DEF Undoes
    <3> HIDE DEF Data, a, N, u, Of
    <3>4. b \in Seq(Steps) /\ Len(b) = M + 1 /\ b[1] = u
          /\ \A n \in 1 .. M : b[n + 1] = a[n]
      BY <3>1, <3>3
    <3> HIDE DEF M, b
    <3>5. \A n \in 1 .. M + 1 : n = 1 \/ (n - 1 \in 1 .. M /\ n = (n - 1) + 1)
      BY <3>3
    <3>6. 1 \in 1 .. M + 1 /\ \A n \in 1 .. M : n + 1 \in 1 .. M + 1
      BY <3>3
    <3>7. ASSUME NEW n \in 1 .. M + 1 PROVE \E i \in Data(k) : b[n] = Step("undo", l[i])
      <4>1. CASE n = 1
        BY <3>2, <3>4, <4>1 DEF u
      <4>2. CASE n # 1
        <5>1. n - 1 \in 1 .. M /\ n = (n - 1) + 1
          BY <3>5, <4>2
        <5>2. b[n] = a[n - 1]
          BY <3>4, <5>1
        <5>3. PICK i \in Data(k - 1) : a[n - 1] = Step("undo", l[i])
          BY <3>3, <5>1
        <5> QED
          BY <3>2, <5>2, <5>3
      <4> QED
        BY <4>1, <4>2
    <3>8. ASSUME NEW i \in Data(k) PROVE \E n \in 1 .. M + 1 : b[n] = Step("undo", l[i])
      <4>1. CASE i = k
        BY <3>4, <3>6, <4>1 DEF u
      <4>2. CASE i \in Data(k - 1)
        <5>1. PICK n \in 1 .. M : a[n] = Step("undo", l[i])
          BY <3>3, <4>2
        <5> QED
          BY <3>4, <3>6, <5>1
      <4> QED
        BY <3>2, <4>1, <4>2
    <3>9. Undoes(b, l, Data(k))
      BY <3>4, <3>7, <3>8 DEF Undoes
    <3> QED
      BY <3>1, <3>9
  <2> QED
    BY <2>2, <2>3
<1>11. \A k \in 0 .. N : k \in Good
  <2> HIDE DEF Good, N
  <2> QED
    BY <1>0, <1>9, <1>10, Induction
<1>12. Undoes(from[N], l, Data(N))
  <2> HIDE DEF from, Data
  <2> QED
    BY <1>0, <1>11
<1>13. Data(N) = I \cap DataIn(l)
  BY <1>0 DEF DataIn
<1> QED
  <2> HIDE DEF from, Data
  <2> QED
    BY <1>8, <1>12, <1>13

-----------------------------------------------------------------------------
(* Types and the life of a row operation *)
Op == [op : DataOps \cup {"none"}, row : Slot, old : Slot, page : PageIds \cup {0},
       slot : Nat, fresh : PageIds \cup {0}, big : BOOLEAN, placed : BOOLEAN]
Saved == [name : Names, offset : Nat, tx : Nat]
Undoings == {"rollback", "closing", "rollback_to"}

TypeInv ==
  /\ mem \in Contents /\ disk \in Contents
  /\ pages \in PageIds
  /\ chain \in Seq(1 .. pages) /\ chain # <<>>
  /\ log \in Seq(Record) /\ Len(log) <= MaxLog
  /\ txs \in Seq(BOOLEAN) /\ tx_id \in 0 .. Len(txs)
  /\ savepoints \in Seq(Saved)
  /\ busy \in Op
  /\ phase \in Undoings \cup {"up", "recover"}
  /\ work \in Seq(Steps)
  /\ cut \in Nat
  /\ issued \in 0 .. MaxRows

(* A row operation runs only while nothing is replayed, and the other way  *)
(* round; the pages behind the end of the file, and the one an operation   *)
(* has just added to it, are empty.                                        *)
StageInv ==
  /\ phase = "up" => work = <<>>
  /\ phase # "up" => busy = NoOp
  /\ phase \in Undoings => tx_id # 0
  /\ phase = "rollback_to" => cut \in DOMAIN savepoints
  /\ busy.op = "none" => busy = NoOp
  /\ busy.op # "none" => busy.row # NoRow
  /\ busy.placed => busy.op \in {"INSERT", "UPDATE"} /\ busy.fresh = 0
  /\ busy.op = "DELETE" => busy.fresh = 0
  /\ busy.placed \/ busy.op \in {"UPDATE", "DELETE"} => busy.page \in 1 .. pages
  /\ busy.fresh # 0 => busy.fresh = pages /\ mem[pages] = <<>>

SpaceInv ==
  /\ \A p \in PageIds : p > pages => mem[p] = <<>> /\ disk[p] = <<>>
  /\ \A i \in DataIn(log) : log[i].page \in 1 .. pages
  /\ \A n \in DOMAIN work : work[n].rec.page \in 1 .. pages

BaseInv == TypeInv /\ StageInv /\ SpaceInv

(* Which transactions are open *)
Ends(i, t) == i \in DOMAIN log /\ log[i].type \in EndsTx /\ log[i].tx = t

(* every BEGIN in the log is of a transaction that is still active, or     *)
(* that has a COMMIT or an ABORT there                                     *)
Accounted ==
  \A i \in DOMAIN log : log[i].type = "BEGIN" =>
    /\ log[i].tx \in DOMAIN txs
    /\ ~txs[log[i].tx] => \E j \in DOMAIN log : Ends(j, log[i].tx)

(* what ROLLBACK TO a savepoint of this transaction cuts off: no end of a  *)
(* transaction                                                             *)
CutsNoEnd ==
  \A i \in DOMAIN savepoints : savepoints[i].tx = tx_id /\ tx_id # 0 =>
    \A j \in DOMAIN log : log[j].type \in EndsTx => j <= savepoints[i].offset

LedgerInv ==
  /\ phase # "recover" => Accounted
  /\ phase = "rollback" => \E j \in DOMAIN log : Ends(j, tx_id)
  /\ \A i \in DOMAIN savepoints : savepoints[i].tx <= Len(txs)
  /\ phase \in {"up", "rollback_to"} => CutsNoEnd
  /\ phase = "rollback_to" => savepoints[cut].tx = tx_id

(* What the log l and the row operation op say of pages *)
At(l, type, i, p, s) ==
  i \in DOMAIN l /\ l[i].type = type /\ l[i].page = p /\ l[i].slot = s
Logged(l, type, p, s) == \E i \in DOMAIN l : At(l, type, i, p, s)
Earlier(l, i, p, s) == \E j \in DOMAIN l : j < i /\ At(l, "INSERT", j, p, s)

Unlogged(op, p, s) == op.op = "INSERT" /\ op.placed /\ op.page = p /\ op.slot = s
Unapplied(op, p, s) == op.op = "DELETE" /\ op.page = p /\ op.slot = s

(* The effect of the record e is in its page, or has been undone there; a  *)
(* deletion may be about to happen.                                        *)
Shows(e, pg, op) ==
  /\ e.type = "INSERT" =>
       e.slot \in DOMAIN pg /\ e.new # NoRow /\ pg[e.slot] \in {e.new, Deleted}
  /\ e.type = "DELETE" =>
       e.slot \in DOMAIN pg /\ (pg[e.slot] = Deleted \/ Unapplied(op, e.page, e.slot))
Agrees(l, pgs, op) == \A i \in DOMAIN l : Shows(l[i], pgs[l[i].page], op)

(* The log says all that the page d in the file lacks of m in memory: rows *)
(* appended, one after another, and rows deleted.                          *)
Behind(l, d, m, op, p) ==
  /\ Len(d) <= Len(m)
  /\ \A s \in DOMAIN d : m[s] \in {d[s], Deleted}
  /\ \A s \in DOMAIN m : s > Len(d) => Unlogged(op, p, s) \/ Logged(l, "INSERT", p, s)
  /\ \A s \in DOMAIN m : m[s] = Deleted => (s \in DOMAIN d /\ d[s] = Deleted) \/ Logged(l, "DELETE", p, s)
  /\ \A i \in DOMAIN l, s \in DOMAIN m :
       /\ At(l, "INSERT", i, p, s) /\ s > Len(d) + 1 => Earlier(l, i, p, s - 1)
       /\ At(l, "DELETE", i, p, s) /\ s > Len(d) => Earlier(l, i, p, s)

HeapInv ==
  /\ busy.op # "UPDATE" /\ \A i \in DOMAIN log : log[i].type # "UPDATE"
  /\ phase = "up" =>
       /\ Agrees(log, mem, busy)
       /\ \A p \in PageIds : Behind(log, disk[p], mem[p], busy, p)
  /\ phase \in Undoings => Agrees(log, disk, busy)
  /\ busy.op = "INSERT" /\ busy.placed =>
       /\ busy.slot = Len(mem[busy.page]) /\ busy.slot \in DOMAIN mem[busy.page]
       /\ mem[busy.page][busy.slot] = busy.row
  /\ busy.op = "DELETE" =>
       busy.slot \in DOMAIN mem[busy.page] /\ Logged(log, "DELETE", busy.page, busy.slot)

(* The rows of the transaction *)
Own(l, t, i, p, s) == At(l, "INSERT", i, p, s) /\ l[i].tx = t
Mine(l, t, op, p, s) == Unlogged(op, p, s) \/ \E i \in DOMAIN l : Own(l, t, i, p, s)
ChainPages == {chain[i] : i \in DOMAIN chain}
Kept == IF phase = "rollback_to" THEN savepoints[cut].offset ELSE 0

(* Every row in the table was there at BEGIN or is of the transaction; a   *)
(* row from before is where the transaction has put none.                  *)
TellsApart(l, t, op, pgs, ps, was) ==
  /\ \A p \in ps : \A s \in DOMAIN pgs[p] : pgs[p][s] \in {Deleted} \cup was \/ Mine(l, t, op, p, s)
  /\ \A r \in was : \E p \in ps : \E s \in DOMAIN pgs[p] : pgs[p][s] = r /\ ~Mine(l, t, op, p, s)

(* The same during a rollback, which keeps the first k records: what is    *)
(* not to stay is still to be undone.                                      *)
WillRestore(l, t, k, w, pgs, ps, was) ==
  /\ \A n \in DOMAIN w : \E i \in DOMAIN l :
       w[n] = Step("undo", l[i]) /\ l[i].tx = t /\ l[i].type = "INSERT"
  /\ \A p \in ps : \A s \in DOMAIN pgs[p] :
       \/ pgs[p][s] \in {Deleted} \cup was
       \/ \E i \in DOMAIN l : i <= k /\ Own(l, t, i, p, s)
       \/ \E n \in DOMAIN w : w[n].rec.page = p /\ w[n].rec.slot = s
  /\ \A r \in was : \E p \in ps : \E s \in DOMAIN pgs[p] :
       pgs[p][s] = r /\ \A i \in DOMAIN l : ~Own(l, t, i, p, s)

Labelled ==
  /\ phase # "recover" => \A i \in DOMAIN log : log[i].tx <= Len(txs)
  /\ phase = "recover" => tx_id = 0
  /\ Deleted \notin atBegin
  /\ \A i \in DOMAIN log : log[i].type = "INSERT" => log[i].new # NoRow
  /\ tx_id # 0 =>
       /\ busy.op \in {"none", "INSERT"}
       /\ \A i \in DataIn(log) : log[i].tx = tx_id => log[i].type = "INSERT"

OwnInv ==
  /\ Labelled
  /\ tx_id # 0 /\ phase = "up" => TellsApart(log, tx_id, busy, mem, ChainPages, atBegin)
  /\ phase \in {"rollback", "rollback_to"} =>
       WillRestore(log, tx_id, Kept, work, disk, ChainPages, atBegin)

(* The elements of a sequence over S are in S.                             *)
LEMMA SequenceElements ==
  ASSUME NEW S, NEW s \in Seq(S)
  PROVE  DOMAIN s = 1 .. Len(s) /\ Len(s) \in Nat /\ \A i \in DOMAIN s : s[i] \in S
OBVIOUS

LEMMA SequenceSubset ==
  ASSUME NEW S, NEW T, S \subseteq T, NEW s \in Seq(S)
  PROVE  s \in Seq(T)
OBVIOUS

LEMMA AppendElements ==
  ASSUME NEW S, NEW s \in Seq(S), NEW e \in S
  PROVE  /\ Append(s, e) \in Seq(S) /\ Len(Append(s, e)) = Len(s) + 1 /\ Len(s) \in Nat
         /\ DOMAIN s = 1 .. Len(s) /\ DOMAIN Append(s, e) = 1 .. Len(s) + 1
         /\ \A i \in DOMAIN s : Append(s, e)[i] = s[i]
         /\ Append(s, e)[Len(s) + 1] = e
OBVIOUS

LEMMA ExceptElements ==
  ASSUME NEW S, NEW s \in Seq(S), NEW e \in S, NEW i
  PROVE  /\ [s EXCEPT ![i] = e] \in Seq(S) /\ Len([s EXCEPT ![i] = e]) = Len(s)
         /\ DOMAIN [s EXCEPT ![i] = e] = DOMAIN s
         /\ \A j \in DOMAIN s : j # i => [s EXCEPT ![i] = e][j] = s[j]
<1> DEFINE f == [s EXCEPT ![i] = e]
<1>1. DOMAIN f = DOMAIN s /\ \A j \in DOMAIN s : j # i => f[j] = s[j]
  OBVIOUS
<1>2. DOMAIN s = 1 .. Len(s) /\ Len(s) \in Nat /\ \A j \in DOMAIN s : s[j] \in S
  BY SequenceElements
<1>3. \A j \in DOMAIN f : f[j] \in S
  BY <1>2
<1>4. f \in [1 .. Len(s) -> S]
  BY <1>1, <1>2, <1>3
<1>5. f \in Seq(S) /\ Len(f) = Len(s)
  <2> HIDE DEF f
  <2> QED
    BY <1>2, <1>4
<1> QED
  BY <1>1, <1>5

(* A prefix of a sequence, and the first of some positions.                *)
LEMMA FirstPrefix ==
  ASSUME NEW S, NEW s \in Seq(S), NEW n \in Nat
  PROVE  /\ First(s, n) \in Seq(S)
         /\ Len(First(s, n)) <= Len(s) /\ Len(First(s, n)) <= n
         /\ DOMAIN First(s, n) = {i \in DOMAIN s : i <= n}
         /\ \A i \in DOMAIN First(s, n) : First(s, n)[i] = s[i]
         /\ Len(s) <= n => First(s, n) = s
<1>1. CASE Len(s) <= n
  <2>1. First(s, n) = s
    BY <1>1 DEF First
  <2>2. DOMAIN s = 1 .. Len(s) /\ Len(s) \in Nat
    OBVIOUS
  <2> QED
    BY <1>1, <2>1, <2>2
<1>2. CASE ~(Len(s) <= n)
  <2>1. First(s, n) = SubSeq(s, 1, n)
    BY <1>2 DEF First
  <2>2. SubSeq(s, 1, n) \in Seq(S) /\ Len(SubSeq(s, 1, n)) = n
        /\ \A i \in 1 .. n : SubSeq(s, 1, n)[i] = s[i]
    BY <1>2
  <2>3. DOMAIN SubSeq(s, 1, n) = 1 .. n /\ DOMAIN s = 1 .. Len(s) /\ Len(s) \in Nat
    BY <2>2
  <2>4. 1 .. n = {i \in 1 .. Len(s) : i <= n} /\ n <= Len(s)
    BY <1>2, <2>3
  <2> DEFINE f == SubSeq(s, 1, n)
  <2>5. f \in Seq(S) /\ Len(f) <= Len(s) /\ Len(f) <= n
    BY <2>2, <2>4
  <2>6. DOMAIN f = {i \in DOMAIN s : i <= n} /\ \A i \in DOMAIN f : f[i] = s[i]
    BY <2>2, <2>3, <2>4
  <2> HIDE DEF f
  <2> QED
    BY <1>2, <2>1, <2>5, <2>6 DEF f
<1> QED
  BY <1>1, <1>2

(* Positions of a log that is not longer than the limit are all among the  *)
(* first.                                                                  *)
LEMMA FirstOfAll ==
  ASSUME NEW I, NEW m \in Nat, NEW n \in Nat, I \subseteq 1 .. m, m <= n
  PROVE  FirstOf(I, n) = I
<1> SUFFICES ASSUME NEW i \in I PROVE Cardinality({j \in I : j <= i}) <= n
  BY DEF FirstOf
<1>1. {j \in I : j <= i} \subseteq 1 .. m
  OBVIOUS
<1>2. IsFiniteSet(1 .. m) /\ Cardinality(1 .. m) = m
  BY FS_Interval
<1>3. IsFiniteSet({j \in I : j <= i}) /\ Cardinality({j \in I : j <= i}) <= m
  BY <1>1, <1>2, FS_Subset
<1>4. Cardinality({j \in I : j <= i}) \in Nat
  BY <1>3, FS_CardinalityType
<1> QED
  BY <1>3, <1>4

(* The steps of a rollback or of a recovery are typed, and each is about a *)
(* data record of the log.                                                 *)
About(steps, l) ==
  /\ steps \in Seq(Steps)
  /\ \A n \in DOMAIN steps : \E i \in DataIn(l) : steps[n].rec = l[i]

LEMMA UndoingAbout ==
  ASSUME NEW l \in Seq(Record), NEW I \in SUBSET Nat
  PROVE  About(Undoing[<<l, I>>], l)
<1> DEFINE steps == Undoing[<<l, I>>]
<1>1. Undoes(steps, l, I \cap DataIn(l))
  BY UndoingUndoes
<1> HIDE DEF steps
<1>2. ASSUME NEW n \in DOMAIN steps PROVE \E i \in DataIn(l) : steps[n].rec = l[i]
  <2>1. DOMAIN steps = 1 .. Len(steps)
    BY <1>1 DEF Undoes
  <2>2. PICK i \in I \cap DataIn(l) : steps[n] = Step("undo", l[i])
    BY <1>1, <2>1 DEF Undoes
  <2> QED
    BY <2>2 DEF Step
<1> QED
  BY <1>1, <1>2 DEF About, Undoes, steps

LEMMA RedoingAbout ==
  ASSUME NEW l \in Seq(Record)
  PROVE  About(Redoing[l], l)
<1> DEFINE steps == Redoing[l]
<1>1. PICK at : Repeats(steps, at, l, DataIn(l))
  BY RedoingRepeats
<1> HIDE DEF steps
<1>2. ASSUME NEW n \in DOMAIN steps PROVE \E i \in DataIn(l) : steps[n].rec = l[i]
  <2>1. DOMAIN steps = 1 .. Len(steps)
    BY <1>1 DEF Repeats
  <2>2. steps[n] = Step("redo", l[at[n]]) /\ at[n] \in DataIn(l)
    BY <1>1, <2>1 DEF Repeats
  <2> QED
    BY <2>2 DEF Step
<1> QED
  BY <1>1, <1>2 DEF About, Repeats, steps

LEMMA WorkAbout ==
  ASSUME NEW l \in Seq(Record), NEW t, NEW offset \in Nat
  PROVE  /\ About(RecoveryWork(l), l)
         /\ About(RollbackWork(l, t), l)
         /\ About(PartialWork(l, offset, t), l)
<1>1. About(RollbackWork(l, t), l)
  <2> DEFINE I == FirstOf({i \in DOMAIN l : l[i].tx = t}, MaxEntries)
  <2>1. I \in SUBSET Nat
    BY DEF FirstOf
  <2> HIDE DEF I
  <2>2. About(Undoing[<<l, I>>], l)
    BY <2>1, UndoingAbout
  <2> QED
    BY <2>2 DEF RollbackWork, I
<1>2. About(PartialWork(l, offset, t), l)
  <2> DEFINE I == FirstOf({i \in offset + 1 .. Len(l) : l[i].tx = t /\ Undoable(l[i])}, MaxUndo)
  <2>1. I \in SUBSET Nat
    BY DEF FirstOf
  <2> HIDE DEF I
  <2>2. About(Undoing[<<l, I>>], l)
    BY <2>1, UndoingAbout
  <2> QED
    BY <2>2 DEF PartialWork, I
<1>3. About(RecoveryWork(l), l)
  <2> DEFINE r == First(l, MaxEntries)
             I == {i \in DOMAIN r : r[i].tx \in Unfinished(r)}
             a == Redoing[r]
             b == Undoing[<<r, I>>]
  <2>1. r \in Seq(Record) /\ \A i \in DataIn(r) : i \in DataIn(l) /\ r[i] = l[i]
    <3>1. MaxEntries \in Nat
      BY EngineAssumption
    <3>2. r \in Seq(Record) /\ DOMAIN r \subseteq DOMAIN l /\ \A i \in DOMAIN r : r[i] = l[i]
      <4>1. r \in Seq(Record)
        BY <3>1, FirstPrefix
      <4>2. DOMAIN r = {i \in DOMAIN l : i <= MaxEntries} /\ \A i \in DOMAIN r : r[i] = l[i]
        BY <3>1, FirstPrefix
      <4> QED
        BY <4>1, <4>2
    <3> HIDE DEF r
    <3> QED
      BY <3>2 DEF DataIn
  <2>2. I \in SUBSET Nat
    <3> HIDE DEF r
    <3> QED
      BY <2>1
  <2>3. RecoveryWork(l) = a \o b
    BY DEF RecoveryWork
  <2> HIDE DEF r, I
  <2>4. About(a, r) /\ About(b, r)
    BY <2>1, <2>2, RedoingAbout, UndoingAbout
  <2> HIDE DEF a, b
  <2>5. a \in Seq(Steps) /\ b \in Seq(Steps)
    BY <2>4 DEF About
  <2>6. ASSUME NEW n \in DOMAIN (a \o b) PROVE \E i \in DataIn(l) : (a \o b)[n].rec = l[i]
    <3>1. CASE n \in DOMAIN a
      <4>1. (a \o b)[n] = a[n]
        BY <2>5, <3>1
      <4> QED
        BY <2>1, <2>4, <3>1, <4>1 DEF About
    <3>2. CASE n \notin DOMAIN a
      <4>1. n - Len(a) \in DOMAIN b /\ (a \o b)[n] = b[n - Len(a)]
        BY <2>5, <3>2
      <4> QED
        BY <2>1, <2>4, <4>1 DEF About
    <3> QED
      BY <3>1, <3>2
  <2>7. a \o b \in Seq(Steps)
    BY <2>5
  <2> QED
    BY <2>3, <2>6, <2>7 DEF About
<1> QED
  BY <1>1, <1>2, <1>3

-----------------------------------------------------------------------------
(* Where a row is placed: in a page of the chain that has room, or nowhere *)
(* yet.                                                                    *)
LEMMA FirstFitHasRoom ==
  ASSUME TypeInv, NEW op, Fits(op)
  PROVE  FirstFit \in 1 .. pages /\ FirstFit \in ChainPages /\ HasRoom(mem[FirstFit])
<1> DEFINE T == {i \in DOMAIN chain : HasRoom(mem[chain[i]])}
<1>0. /\ DOMAIN chain \subseteq Nat /\ \A i \in DOMAIN chain : chain[i] \in 1 .. pages
      /\ \A m \in DOMAIN chain : \A j \in 1 .. m - 1 : j \in DOMAIN chain /\ ~(m <= j)
  <2>1. chain \in Seq(1 .. pages)
    BY DEF TypeInv
  <2>2. DOMAIN chain = 1 .. Len(chain) /\ Len(chain) \in Nat
    BY <2>1
  <2>3. \A i \in DOMAIN chain : chain[i] \in 1 .. pages
    BY <2>1, SequenceElements
  <2> QED
    BY <2>2, <2>3
<1>1. T # {} /\ T \in SUBSET Nat
  BY <1>0 DEF Fits
<1>2. PICK m \in T : \A k \in T : m <= k
  <2> HIDE DEF T
  <2> QED
    BY <1>1, LeastNumber
<1>3. \A j \in 1 .. m - 1 : j \in DOMAIN chain /\ ~HasRoom(mem[chain[j]])
  <2> SUFFICES ASSUME NEW j \in 1 .. m - 1
               PROVE  j \in DOMAIN chain /\ ~HasRoom(mem[chain[j]])
    OBVIOUS
  <2>1. m \in DOMAIN chain
    BY <1>2
  <2>2. j \in DOMAIN chain /\ ~(m <= j) /\ (j \in T => m <= j)
    BY <1>0, <1>2, <2>1
  <2> QED
    BY <2>2
<1> DEFINE Is(i) == HasRoom(mem[chain[i]]) /\ \A j \in 1 .. i - 1 : ~HasRoom(mem[chain[j]])
           c == CHOOSE i \in DOMAIN chain : Is(i)
<1>4. m \in DOMAIN chain /\ Is(m)
  BY <1>2, <1>3
<1>5. c \in DOMAIN chain /\ Is(c)
  <2> HIDE DEF Is
  <2> QED
    BY <1>4
<1>6. FirstFit = chain[c]
  BY DEF FirstFit
<1>7. HasRoom(mem[chain[c]])
  BY <1>5
<1> HIDE DEF c, Is
<1>8. c \in DOMAIN chain /\ chain[c] \in 1 .. pages
  BY <1>0, <1>5
<1>9. chain[c] \in ChainPages
  BY <1>8 DEF ChainPages
<1> QED
  BY <1>6, <1>7, <1>8, <1>9

(* The effect of placing a row in page p                                   *)
Placed(op, p) ==
  /\ mem' = [mem EXCEPT ![p] = PageInsert(@, op.row)]
  /\ mem' \in Contents
  /\ \A q \in PageIds : q # p => mem'[q] = mem[q]
  /\ busy' \in Op
  /\ busy'.op = op.op /\ busy'.row = op.row /\ busy'.old = op.old /\ busy'.big = op.big
  /\ busy'.fresh = 0 /\ busy'.placed
  /\ op.op = "INSERT" => busy'.page = p /\ busy'.slot = Len(mem[p]) + 1
  /\ op.op # "INSERT" => busy'.page = op.page /\ busy'.slot = op.slot

LEMMA PlaceInPlaced ==
  ASSUME TypeInv, NEW op \in Op, NEW p \in PageIds, PlaceIn(op, p)
  PROVE  Placed(op, p)
<1>1. PageIds \subseteq PageIds \cup {0} /\ 0 \in PageIds \cup {0} /\ mem[p] \in Page
      /\ mem \in Contents
  BY DEF TypeInv, Contents
<1>2. Len(mem[p]) + 1 \in Nat
  BY <1>1 DEF Page
<1>3. op.row \in Slot
  BY DEF Op
<1>4. PageInsert(mem[p], op.row) \in Page
  BY <1>1, <1>3, PageInsertType
<1>5. /\ mem' = [mem EXCEPT ![p] = PageInsert(@, op.row)]
      /\ mem' \in Contents /\ \A q \in PageIds : q # p => mem'[q] = mem[q]
  BY <1>1, <1>4 DEF PlaceIn, Contents
<1>6. /\ busy' \in Op
      /\ busy'.op = op.op /\ busy'.row = op.row /\ busy'.old = op.old /\ busy'.big = op.big
      /\ busy'.fresh = 0 /\ busy'.placed
      /\ op.op = "INSERT" => busy'.page = p /\ busy'.slot = Len(mem[p]) + 1
      /\ op.op # "INSERT" => busy'.page = op.page /\ busy'.slot = op.slot
  <2>1. busy' = PlacedAt(op, p)
    BY DEF PlaceIn
  <2>2. CASE op.op = "INSERT"
    BY <1>1, <1>2, <2>1, <2>2 DEF PlacedAt, Op
  <2>3. CASE op.op # "INSERT"
    BY <1>1, <2>1, <2>3 DEF PlacedAt, Op
  <2> QED
    BY <2>2, <2>3
<1> QED
  BY <1>5, <1>6 DEF Placed

(* heap_insert: the row is placed, or the file has grown by an empty page, *)
(* or the row is given up.                                                 *)
LEMMA HeapInsertCases ==
  ASSUME TypeInv, NEW op \in Op, HeapInsert(op)
  PROVE  \/ /\ Placed(op, FirstFit) /\ FirstFit \in 1 .. pages /\ FirstFit \in ChainPages
            /\ HasRoom(mem[FirstFit]) /\ pages' = pages
         \/ /\ pages' = pages + 1 /\ pages' \in PageIds /\ mem' = mem
            /\ busy' = [op EXCEPT !.fresh = pages + 1] /\ busy' \in Op
         \/ busy' = NoOp /\ mem' = mem /\ pages' = pages
<1>0. pages \in PageIds /\ MaxPages \in Nat
  BY EngineAssumption DEF TypeInv
<1>1. CASE Fits(op)
  <2>1. FirstFit \in 1 .. pages /\ FirstFit \in ChainPages /\ HasRoom(mem[FirstFit])
    BY <1>1, FirstFitHasRoom
  <2>2. FirstFit \in PageIds
    BY <1>0, <2>1 DEF PageIds
  <2>3. PlaceIn(op, FirstFit) /\ pages' = pages
    BY <1>1 DEF HeapInsert
  <2>4. Placed(op, FirstFit)
    BY <2>2, <2>3, PlaceInPlaced
  <2> QED
    BY <2>1, <2>3, <2>4
<1>2. CASE ~Fits(op)
  <2>1. CASE pages < MaxPages
    <3>1. pages' = pages + 1 /\ busy' = [op EXCEPT !.fresh = pages + 1] /\ mem' = mem
      BY <1>2, <2>1 DEF HeapInsert
    <3>2. pages + 1 \in PageIds
      BY <1>0, <2>1 DEF PageIds
    <3>3. [op EXCEPT !.fresh = pages + 1] \in Op
      BY <3>2 DEF Op
    <3> QED
      BY <3>1, <3>2, <3>3
  <2>2. CASE ~(pages < MaxPages)
    BY <1>2, <2>2 DEF HeapInsert
  <2> QED
    BY <2>1, <2>2
<1> QED
  BY <1>1, <1>2

-----------------------------------------------------------------------------
(* BaseInv is inductive                                                    *)
LEMMA ConstantTypes ==
  /\ Slots \in Nat \ {0} /\ MaxPages \in Nat \ {0} /\ MaxEntries \in Nat /\ MaxUndo \in Nat
  /\ MaxRows \in Nat /\ MaxLog \in Nat
  /\ \A b \in Oversize : b \in BOOLEAN
  /\ 1 \in PageIds
  /\ <<>> \in Page
  /\ NoOp \in Op /\ NoOp.op = "none" /\ ~NoOp.placed /\ NoOp.fresh = 0
<1>1. /\ Slots \in Nat \ {0} /\ MaxPages \in Nat \ {0} /\ MaxEntries \in Nat /\ MaxUndo \in Nat
      /\ MaxRows \in Nat /\ MaxLog \in Nat
      /\ \A b \in Oversize : b \in BOOLEAN
  BY EngineAssumption
<1>2. 1 \in PageIds /\ <<>> \in Page
  BY <1>1 DEF PageIds, Page
<1>3. NoOp \in Op /\ NoOp.op = "none" /\ ~NoOp.placed /\ NoOp.fresh = 0
  BY DEF NoOp, Op, NoRow, Slot, Deleted
<1> QED
  BY <1>1, <1>2, <1>3

LEMMA InitBase == Init => BaseInv
<1> SUFFICES ASSUME Init PROVE BaseInv
  OBVIOUS
<1> USE DEF Init
<1>0. <<>> \in Seq(Steps) /\ <<>> \in Seq(Saved) /\ <<>> \in Seq(BOOLEAN) /\ <<>> \in Seq(Record)
      /\ Len(<<>>) = 0 /\ DOMAIN <<>> = {}
  OBVIOUS
<1>1. mem \in Contents /\ disk \in Contents
  BY ConstantTypes DEF Contents
<1>2. chain \in Seq(1 .. pages) /\ chain # <<>>
  OBVIOUS
<1>3. TypeInv
  BY <1>0, <1>1, <1>2, ConstantTypes DEF TypeInv
<1>4. StageInv
  BY ConstantTypes DEF StageInv, Undoings, NoOp
<1>5. SpaceInv
  BY <1>0 DEF SpaceInv, DataIn
<1> QED
  BY <1>3, <1>4, <1>5 DEF BaseInv

(* A control record and a data record                                      *)
LEMMA AppendRecord ==
  ASSUME TypeInv, NEW e \in Record, wal_write(e)
  PROVE  /\ log' \in Seq(Record) /\ Len(log') <= MaxLog
         /\ Len(log') = Len(log) + 1 /\ Len(log) \in Nat
         /\ DOMAIN log = 1 .. Len(log) /\ DOMAIN log' = 1 .. Len(log) + 1
         /\ Len(log) + 1 \in DOMAIN log' /\ Len(log) + 1 \notin DOMAIN log
         /\ log'[Len(log) + 1] = e
         /\ \A i \in DOMAIN log : i \in DOMAIN log' /\ log'[i] = log[i]
         /\ \A i \in DOMAIN log' : i \in DOMAIN log \/ i = Len(log) + 1
         /\ \A i \in DOMAIN log : i < Len(log) + 1
<1>1. log \in Seq(Record) /\ log' = Append(log, e) /\ Len(log) < MaxLog /\ MaxLog \in Nat
  BY ConstantTypes DEF TypeInv, wal_write
<1>2. Len(log) \in Nat /\ DOMAIN log = 1 .. Len(log)
  BY <1>1
<1>3. log' \in Seq(Record) /\ Len(log') = Len(log) + 1 /\ DOMAIN log' = 1 .. Len(log) + 1
  BY <1>1
<1>4. log'[Len(log) + 1] = e /\ \A i \in 1 .. Len(log) : log'[i] = log[i]
  BY <1>1
<1> QED
  BY <1>1, <1>2, <1>3, <1>4

LEMMA ControlRecord ==
  ASSUME NEW type \in {"BEGIN", "COMMIT", "ABORT", "SAVEPOINT"}, NEW t \in Nat
  PROVE  Control(type, t) \in Record /\ Control(type, t).type = type /\ Control(type, t).tx = t
BY DEF Control, Record, NoRow

LEMMA AppendSpace ==
  ASSUME TypeInv, SpaceInv, NEW e \in Record, wal_write(e), UNCHANGED pages,
         e.type \in DataOps => e.page \in 1 .. pages
  PROVE  \A i \in DataIn(log') : log'[i].page \in 1 .. pages'
<1> SUFFICES ASSUME NEW i \in DataIn(log') PROVE log'[i].page \in 1 .. pages
  OBVIOUS
<1>1. i \in DOMAIN log' /\ log'[i].type \in DataOps
  BY DEF DataIn
<1>2. CASE i \in DOMAIN log
  <2>1. log'[i] = log[i]
    BY <1>2, AppendRecord
  <2> QED
    BY <1>1, <1>2, <2>1 DEF SpaceInv, DataIn
<1>3. CASE i = Len(log) + 1
  <2>1. log'[i] = e
    BY <1>3, AppendRecord
  <2> QED
    BY <1>1, <2>1
<1> QED
  BY <1>1, <1>2, <1>3, AppendRecord

(* Statements                                                              *)
LEMMA BaseInsert ==
  ASSUME BaseInv, NEW big \in Oversize, Insert(big)
  PROVE  BaseInv'
<1> DEFINE op == [NoOp EXCEPT !.op = "INSERT", !.row = issued + 1, !.big = big]
<1> USE DEF BaseInv
<1>0. /\ UNCHANGED <<disk, chain, log, txVars, workVars, restarts>> /\ issued' = issued + 1
      /\ Ready /\ HeapInsert(op) /\ issued < MaxRows
  BY DEF Insert
<1>1. issued \in Nat /\ issued' \in 0 .. MaxRows /\ issued + 1 \in Rows
  <2>1. issued \in 0 .. MaxRows
    BY DEF TypeInv
  <2>2. issued' = issued + 1 /\ issued < MaxRows
    BY <1>0
  <2> QED
    BY <2>1, <2>2, ConstantTypes DEF Rows
<1>2. /\ op \in Op /\ op.op = "INSERT" /\ op.row = issued + 1 /\ ~op.placed /\ op.fresh = 0
      /\ op.row # NoRow
  <2>1. big \in BOOLEAN /\ issued + 1 \in Slot /\ issued + 1 # NoRow
        /\ "INSERT" \in DataOps \cup {"none"}
    BY <1>1, ConstantTypes DEF Slot, NoRow, Deleted, DataOps
  <2>2. NoOp \in Op /\ ~NoOp.placed /\ NoOp.fresh = 0
    BY ConstantTypes
  <2> QED
    BY <2>1, <2>2 DEF Op
<1> HIDE DEF op
<1>3. pages \in PageIds /\ phase = "up"
  BY <1>0 DEF TypeInv, Ready
<1>4. CASE /\ Placed(op, FirstFit) /\ FirstFit \in 1 .. pages /\ FirstFit \in ChainPages
           /\ HasRoom(mem[FirstFit]) /\ pages' = pages
  <2>1. TypeInv'
    BY <1>0, <1>1, <1>4 DEF TypeInv, txVars, workVars, Placed
  <2>2. StageInv'
    BY <1>0, <1>2, <1>3, <1>4 DEF StageInv, txVars, workVars, Placed, Undoings, NoOp
  <2>3. \A p \in PageIds : p > pages => p # FirstFit
    BY <1>3, <1>4 DEF PageIds
  <2>4. SpaceInv'
    BY <1>0, <1>4, <2>3 DEF SpaceInv, Placed, DataIn, workVars
  <2> QED
    BY <2>1, <2>2, <2>4
<1>5. CASE /\ pages' = pages + 1 /\ pages' \in PageIds /\ mem' = mem
           /\ busy' = [op EXCEPT !.fresh = pages + 1] /\ busy' \in Op
  <2>1. chain \in Seq(1 .. pages + 1)
    <3>1. chain \in Seq(1 .. pages) /\ 1 .. pages \subseteq 1 .. pages + 1
      BY <1>3 DEF TypeInv, PageIds
    <3> QED
      BY <3>1, SequenceSubset
  <2>2. TypeInv'
    BY <1>0, <1>1, <1>5, <2>1 DEF TypeInv, txVars, workVars
  <2>3. /\ busy'.op = "INSERT" /\ busy'.fresh = pages + 1 /\ ~busy'.placed /\ busy'.row = issued + 1
    BY <1>2, <1>5 DEF Op
  <2>4. mem[pages + 1] = <<>>
    BY <1>3, <1>5 DEF SpaceInv, PageIds
  <2>5. StageInv'
    BY <1>0, <1>2, <1>3, <1>5, <2>3, <2>4 DEF StageInv, txVars, workVars, Undoings, NoOp
  <2>6. \A p \in 1 .. pages : p \in 1 .. pages'
    BY <1>3, <1>5 DEF PageIds
  <2>7. \A p \in PageIds : p > pages' => p > pages
    BY <1>3, <1>5 DEF PageIds
  <2>8. SpaceInv'
    BY <1>0, <1>5, <2>6, <2>7 DEF SpaceInv, DataIn, workVars
  <2> QED
    BY <2>2, <2>5, <2>8
<1>6. CASE busy' = NoOp /\ mem' = mem /\ pages' = pages
  <2>1. TypeInv'
    BY <1>0, <1>1, <1>6, ConstantTypes DEF TypeInv, txVars, workVars
  <2>2. StageInv'
    BY <1>0, <1>3, <1>6, ConstantTypes DEF StageInv, txVars, workVars, Undoings
  <2>3. SpaceInv'
    BY <1>0, <1>6 DEF SpaceInv, DataIn, workVars
  <2> QED
    BY <2>1, <2>2, <2>3
<1> QED
  BY <1>0, <1>2, <1>4, <1>5, <1>6, HeapInsertCases

LEMMA BasePlaceUpdated ==
  ASSUME BaseInv, PlaceUpdated
  PROVE  BaseInv'
<1> USE DEF BaseInv
<1>0. /\ UNCHANGED <<disk, chain, log, txVars, workVars, issued, restarts>>
      /\ busy.op = "UPDATE" /\ busy.fresh = 0 /\ ~busy.placed /\ HeapInsert(busy)
  BY DEF PlaceUpdated
<1>1. busy \in Op /\ busy.row # NoRow /\ busy.page \in 1 .. pages /\ phase = "up"
  BY <1>0, ConstantTypes DEF TypeInv, StageInv
<1>3. pages \in PageIds
  BY DEF TypeInv
<1>4. CASE /\ Placed(busy, FirstFit) /\ FirstFit \in 1 .. pages /\ FirstFit \in ChainPages
           /\ HasRoom(mem[FirstFit]) /\ pages' = pages
  <2>1. TypeInv'
    BY <1>0, <1>1, <1>4 DEF TypeInv, txVars, workVars, Placed
  <2>2. StageInv'
    BY <1>0, <1>1, <1>4 DEF StageInv, txVars, workVars, Placed, Undoings, NoOp
  <2>3. \A p \in PageIds : p > pages => p # FirstFit
    BY <1>3, <1>4 DEF PageIds
  <2>4. SpaceInv'
    BY <1>0, <1>4, <2>3 DEF SpaceInv, Placed, DataIn, workVars
  <2> QED
    BY <2>1, <2>2, <2>4
<1>5. CASE /\ pages' = pages + 1 /\ pages' \in PageIds /\ mem' = mem
           /\ busy' = [busy EXCEPT !.fresh = pages + 1] /\ busy' \in Op
  <2>1. chain \in Seq(1 .. pages + 1) /\ \A p \in 1 .. pages : p \in 1 .. pages + 1
    <3>1. chain \in Seq(1 .. pages) /\ 1 .. pages \subseteq 1 .. pages + 1
      BY <1>3 DEF TypeInv, PageIds
    <3> QED
      BY <3>1, SequenceSubset
  <2>2. TypeInv'
    BY <1>0, <1>1, <1>5, <2>1 DEF TypeInv, txVars, workVars
  <2>3. /\ busy'.op = "UPDATE" /\ busy'.fresh = pages + 1 /\ ~busy'.placed /\ busy'.row = busy.row
        /\ busy'.page = busy.page
    BY <1>0, <1>1, <1>5 DEF Op
  <2>4. mem[pages + 1] = <<>>
    BY <1>3, <1>5 DEF SpaceInv, PageIds
  <2>5. StageInv'
    BY <1>0, <1>1, <1>5, <2>1, <2>3, <2>4 DEF StageInv, txVars, workVars, Undoings, NoOp
  <2>7. \A p \in PageIds : p > pages' => p > pages
    BY <1>3, <1>5 DEF PageIds
  <2>8. SpaceInv'
    BY <1>0, <1>5, <2>1, <2>7 DEF SpaceInv, DataIn, workVars
  <2> QED
    BY <2>2, <2>5, <2>8
<1>6. CASE busy' = NoOp /\ mem' = mem /\ pages' = pages
  <2>1. TypeInv'
    BY <1>0, <1>6, ConstantTypes DEF TypeInv, txVars, workVars
  <2>2. StageInv'
    BY <1>0, <1>1, <1>6, ConstantTypes DEF StageInv, txVars, workVars, Undoings
  <2>3. SpaceInv'
    BY <1>0, <1>6 DEF SpaceInv, DataIn, workVars
  <2> QED
    BY <2>1, <2>2, <2>3
<1> QED
  BY <1>0, <1>1, <1>4, <1>5, <1>6, HeapInsertCases

(* The last page of the chain                                              *)
LEMMA LastPage ==
  ASSUME TypeInv
  PROVE  Last(chain) \in 1 .. pages /\ Last(chain) \in PageIds /\ Last(chain) \in ChainPages
<1>1. chain \in Seq(1 .. pages) /\ chain # <<>> /\ pages \in PageIds
  BY DEF TypeInv
<1>2. Len(chain) \in DOMAIN chain /\ \A i \in DOMAIN chain : chain[i] \in 1 .. pages
  <2>1. \A i \in DOMAIN chain : chain[i] \in 1 .. pages
    BY <1>1, SequenceElements
  <2>2. DOMAIN chain = 1 .. Len(chain) /\ Len(chain) \in Nat /\ Len(chain) # 0
    BY <1>1
  <2> QED
    BY <2>1, <2>2
<1>3. 1 .. pages \subseteq PageIds
  BY <1>1, ConstantTypes DEF PageIds
<1> QED
  BY <1>2, <1>3 DEF Last, ChainPages

(* Link extends the chain by the empty page, and the row goes there.       *)
LEMMA LinkPlaces ==
  ASSUME BaseInv, Link
  PROVE  /\ chain' \in Seq(1 .. pages) /\ chain' # <<>>
         /\ ChainPages' = ChainPages \cup {pages}
         /\ busy.fresh = pages /\ pages \in PageIds /\ mem[pages] = <<>> /\ phase = "up"
         /\ ~busy.placed /\ busy.op \in {"INSERT", "UPDATE"}
         /\ disk' = [disk EXCEPT ![Last(chain)] = mem[Last(chain)]] /\ disk' \in Contents
         /\ busy.big => busy' = NoOp /\ UNCHANGED mem
         /\ ~busy.big => Placed(busy, pages) /\ HasRoom(mem[pages])
<1> USE DEF BaseInv
<1>1. /\ busy.fresh # 0 /\ busy.fresh = pages /\ mem[pages] = <<>> /\ ~busy.placed
      /\ busy.op \in {"INSERT", "UPDATE"} /\ phase = "up" /\ busy \in Op /\ pages \in PageIds
  <2>1. busy.fresh # 0 /\ busy.fresh = pages /\ mem[pages] = <<>> /\ ~busy.placed /\ busy # NoOp
    BY ConstantTypes DEF Link, StageInv
  <2>2. busy.op \in DataOps \cup {"none"} /\ busy \in Op /\ pages \in PageIds
    BY DEF TypeInv, Op
  <2> QED
    BY <2>1, <2>2 DEF StageInv, DataOps
<1>2. chain' = Append(chain, pages) /\ chain \in Seq(1 .. pages) /\ pages \in 1 .. pages
  BY <1>1 DEF Link, TypeInv, PageIds
<1>3. chain' \in Seq(1 .. pages) /\ chain' # <<>>
  BY <1>2
<1>4. ChainPages' = ChainPages \cup {pages}
  <2>1. DOMAIN chain = 1 .. Len(chain) /\ Len(chain) \in Nat
    BY <1>2
  <2>2. DOMAIN chain' = 1 .. Len(chain) + 1 /\ chain'[Len(chain) + 1] = pages
        /\ \A i \in DOMAIN chain : chain'[i] = chain[i]
    BY <1>2
  <2>3. DOMAIN chain' = DOMAIN chain \cup {Len(chain) + 1}
    BY <2>1, <2>2
  <2>4. ASSUME NEW q \in ChainPages' PROVE q \in ChainPages \cup {pages}
    <3>1. PICK i \in DOMAIN chain' : chain'[i] = q
      BY DEF ChainPages
    <3>2. CASE i \in DOMAIN chain
      BY <2>2, <3>1, <3>2 DEF ChainPages
    <3>3. CASE i = Len(chain) + 1
      BY <2>2, <3>1, <3>3
    <3> QED
      BY <2>3, <3>2, <3>3
  <2>5. ASSUME NEW q \in ChainPages PROVE q \in ChainPages'
    <3>1. PICK i \in DOMAIN chain : chain[i] = q
      BY DEF ChainPages
    <3> QED
      BY <2>2, <2>3, <3>1 DEF ChainPages
  <2>6. pages \in ChainPages'
    BY <2>2, <2>3 DEF ChainPages
  <2> QED
    BY <2>4, <2>5, <2>6
<1>5. disk' = [disk EXCEPT ![Last(chain)] = mem[Last(chain)]] /\ disk' \in Contents
  BY LastPage DEF Link, TypeInv, Contents
<1>6. CASE busy.big
  BY <1>1, <1>3, <1>4, <1>5, <1>6 DEF Link
<1>7. CASE ~busy.big
  <2>1. PlaceIn(busy, pages)
    BY <1>1, <1>7 DEF Link
  <2>2. Placed(busy, pages)
    BY <1>1, <2>1, PlaceInPlaced
  <2>3. HasRoom(mem[pages])
    BY <1>1, ConstantTypes DEF HasRoom
  <2> QED
    BY <1>1, <1>3, <1>4, <1>5, <1>7, <2>2, <2>3
<1> QED
  BY <1>6, <1>7

LEMMA BaseLink ==
  ASSUME BaseInv, Link
  PROVE  BaseInv'
<1> USE DEF BaseInv
<1>0. UNCHANGED <<pages, log, txVars, workVars, issued, restarts>>
  BY DEF Link
<1>1. pages \in 1 .. pages /\ busy.row # NoRow /\ busy.op # "none" /\ \A p \in PageIds : p > pages => p # pages
  BY LinkPlaces DEF PageIds, StageInv
<1>2. Last(chain) \in 1 .. pages
  BY LastPage
<1>3. \A p \in PageIds : p > pages => p # Last(chain)
  BY <1>2, LinkPlaces DEF PageIds
<1>4. \A p \in PageIds : p # Last(chain) => disk'[p] = disk[p]
  BY LinkPlaces, LastPage DEF TypeInv, Contents
<1>5. CASE busy.big
  <2>1. busy' = NoOp /\ mem' = mem
    BY <1>5, LinkPlaces
  <2>2. TypeInv'
    BY <1>0, <2>1, LinkPlaces, ConstantTypes DEF TypeInv, txVars, workVars
  <2>3. StageInv'
    BY <1>0, <2>1, LinkPlaces, ConstantTypes DEF StageInv, workVars, Undoings
  <2>4. SpaceInv'
    BY <1>0, <1>3, <1>4, <2>1 DEF SpaceInv, DataIn, workVars
  <2> QED
    BY <2>2, <2>3, <2>4
<1>6. CASE ~busy.big
  <2>1. Placed(busy, pages)
    BY <1>6, LinkPlaces
  <2>2. TypeInv'
    BY <1>0, <2>1, LinkPlaces DEF TypeInv, txVars, workVars, Placed
  <2>3. /\ busy'.placed /\ busy'.fresh = 0 /\ busy'.op = busy.op /\ busy'.row = busy.row
        /\ busy'.page \in 1 .. pages
    <3>1. CASE busy.op = "INSERT"
      BY <1>1, <2>1, <3>1 DEF Placed
    <3>2. CASE busy.op = "UPDATE"
      BY <2>1, <3>2 DEF Placed, StageInv
    <3> QED
      BY <2>1, <3>1, <3>2, LinkPlaces DEF Placed
  <2>4. StageInv'
    BY <1>0, <1>1, <2>3, LinkPlaces DEF StageInv, workVars, Undoings
  <2>5. SpaceInv'
    BY <1>0, <1>1, <1>3, <1>4, <2>1 DEF SpaceInv, DataIn, workVars, Placed
  <2> QED
    BY <2>2, <2>4, <2>5
<1> QED
  BY <1>5, <1>6

LEMMA BaseUpdate ==
  ASSUME BaseInv, NEW p \in PageIds, NEW s \in 1 .. Slots, NEW big \in Oversize, Update(p, s, big)
  PROVE  BaseInv'
<1> DEFINE op == [NoOp EXCEPT !.op = "UPDATE", !.row = issued + 1, !.big = big,
                              !.old = mem[p][s], !.page = p, !.slot = s]
<1> USE DEF BaseInv
<1>0. /\ UNCHANGED <<disk, pages, chain, log, txVars, workVars, restarts>> /\ issued' = issued + 1
      /\ Ready /\ issued < MaxRows /\ s \in DOMAIN mem[p]
      /\ mem' = [mem EXCEPT ![p] = PageDelete(@, s)] /\ busy' = op
      /\ p \in ToSet(chain)
  BY DEF Update
<1>1. issued \in Nat /\ issued' \in 0 .. MaxRows /\ issued + 1 \in Rows
  <2>1. issued \in 0 .. MaxRows
    BY DEF TypeInv
  <2>2. issued' = issued + 1 /\ issued < MaxRows
    BY <1>0
  <2> QED
    BY <2>1, <2>2, ConstantTypes DEF Rows
<1>2. mem[p] \in Page /\ mem[p] \in Seq(Slot) /\ mem[p][s] \in Slot /\ s \in Nat
  BY <1>0 DEF TypeInv, Contents, Page
<1>3. /\ op \in Op /\ op.op = "UPDATE" /\ op.row = issued + 1 /\ ~op.placed /\ op.fresh = 0
      /\ op.row # NoRow /\ op.page = p
  <2>1. big \in BOOLEAN /\ issued + 1 \in Slot /\ issued + 1 # NoRow
        /\ "UPDATE" \in DataOps \cup {"none"} /\ p \in PageIds \cup {0}
    BY <1>1, ConstantTypes DEF Slot, NoRow, Deleted, DataOps
  <2>2. NoOp \in Op /\ ~NoOp.placed /\ NoOp.fresh = 0
    BY ConstantTypes
  <2> QED
    BY <1>2, <2>1, <2>2 DEF Op
<1> HIDE DEF op
<1>4. p \in 1 .. pages
  <2>1. chain \in Seq(1 .. pages)
    BY DEF TypeInv
  <2>2. PICK i \in DOMAIN chain : p = chain[i]
    BY <1>0, <2>1 DEF ToSet
  <2> QED
    BY <2>1, <2>2, SequenceElements
<1>5. PageDelete(mem[p], s) \in Page
  BY <1>2, PageDeleteType
<1>6. mem' \in Contents /\ \A q \in PageIds : q # p => mem'[q] = mem[q]
  BY <1>0, <1>5 DEF TypeInv, Contents
<1>7. TypeInv'
  BY <1>0, <1>1, <1>3, <1>6 DEF TypeInv, txVars, workVars
<1>8. StageInv'
  BY <1>0, <1>3, <1>4 DEF StageInv, txVars, workVars, Undoings, NoOp, Ready
<1>9. \A q \in PageIds : q > pages => q # p
  BY <1>4 DEF PageIds, TypeInv
<1>10. SpaceInv'
  BY <1>0, <1>6, <1>9 DEF SpaceInv, DataIn, workVars
<1> QED
  BY <1>7, <1>8, <1>10

(* The record of a DELETE, and the operation it announces                  *)
LEMMA DeleteRecord ==
  ASSUME BaseInv, NEW p \in PageIds, NEW s \in 1 .. Slots, Delete(p, s)
  PROVE  \E e \in Record :
           /\ e = [type |-> "DELETE", tx |-> tx_id, page |-> p, slot |-> s, new |-> NoRow, old |-> mem[p][s]]
           /\ wal_write(e) /\ p \in 1 .. pages /\ s \in DOMAIN mem[p] /\ mem[p][s] # Deleted
           /\ busy' \in Op /\ busy'.op = "DELETE" /\ busy'.page = p /\ busy'.slot = s
           /\ busy'.fresh = 0 /\ ~busy'.placed /\ busy'.row # NoRow
<1> DEFINE e == [type |-> "DELETE", tx |-> tx_id, page |-> p, slot |-> s, new |-> NoRow, old |-> mem[p][s]]
<1> USE DEF BaseInv
<1>0. s \in DOMAIN mem[p] /\ mem[p][s] # Deleted /\ p \in ToSet(chain)
  BY DEF Delete
<1>1. mem[p] \in Seq(Slot) /\ mem[p][s] \in Slot /\ s \in Nat
  BY <1>0 DEF TypeInv, Contents, Page
<1>2. tx_id \in Nat /\ tx_id \in 0 .. Len(txs)
  BY DEF TypeInv
<1>3. e \in Record
  BY <1>1, <1>2 DEF Record, DataOps, NoRow, Slot, Deleted
<1>4. p \in 1 .. pages
  <2>1. chain \in Seq(1 .. pages)
    BY DEF TypeInv
  <2>2. PICK i \in DOMAIN chain : p = chain[i]
    BY <1>0, <2>1 DEF ToSet
  <2> QED
    BY <2>1, <2>2, SequenceElements
<1>5. /\ busy' \in Op /\ busy'.op = "DELETE" /\ busy'.page = p /\ busy'.slot = s
      /\ busy'.fresh = 0 /\ ~busy'.placed /\ busy'.row # NoRow
  <2>1. busy' = [NoOp EXCEPT !.op = "DELETE", !.row = mem[p][s], !.page = p, !.slot = s]
    BY DEF Delete
  <2>2. "DELETE" \in DataOps \cup {"none"} /\ p \in PageIds \cup {0} /\ mem[p][s] # NoRow
    BY <1>0 DEF NoRow, Deleted, DataOps
  <2>3. NoOp \in Op /\ ~NoOp.placed /\ NoOp.fresh = 0
    BY ConstantTypes
  <2> QED
    BY <1>1, <2>1, <2>2, <2>3 DEF Op
<1>6. wal_write(e)
  BY DEF Delete
<1> QED
  BY <1>0, <1>3, <1>4, <1>5, <1>6

LEMMA BaseDelete ==
  ASSUME BaseInv, NEW p \in PageIds, NEW s \in 1 .. Slots, Delete(p, s)
  PROVE  BaseInv'
<1> USE DEF BaseInv
<1>0. UNCHANGED <<pageVars, txVars, workVars, issued, restarts>> /\ Ready
  BY DEF Delete
<1>1. PICK e \in Record :
           /\ e = [type |-> "DELETE", tx |-> tx_id, page |-> p, slot |-> s, new |-> NoRow, old |-> mem[p][s]]
           /\ wal_write(e) /\ p \in 1 .. pages /\ s \in DOMAIN mem[p] /\ mem[p][s] # Deleted
           /\ busy' \in Op /\ busy'.op = "DELETE" /\ busy'.page = p /\ busy'.slot = s
           /\ busy'.fresh = 0 /\ ~busy'.placed /\ busy'.row # NoRow
  BY DeleteRecord
<1>2. log' \in Seq(Record) /\ Len(log') <= MaxLog
  BY <1>1, AppendRecord
<1>3. TypeInv'
  BY <1>0, <1>1, <1>2 DEF TypeInv, pageVars, txVars, workVars
<1>4. StageInv'
  BY <1>0, <1>1 DEF StageInv, pageVars, txVars, workVars, Undoings, Ready
<1>5. \A i \in DataIn(log') : log'[i].page \in 1 .. pages'
  <2>1. e.page = p /\ UNCHANGED pages
    BY <1>0, <1>1 DEF pageVars
  <2> QED
    BY <1>1, <2>1, AppendSpace
<1>6. SpaceInv'
  BY <1>0, <1>5 DEF SpaceInv, pageVars, workVars
<1> QED
  BY <1>3, <1>4, <1>6

LEMMA BaseDeleteSlot ==
  ASSUME BaseInv, DeleteSlot
  PROVE  BaseInv'
<1> USE DEF BaseInv
<1>0. /\ UNCHANGED <<disk, pages, chain, log, txVars, workVars, issued, restarts>>
      /\ busy.op = "DELETE" /\ busy' = NoOp
      /\ mem' = [mem EXCEPT ![busy.page] = PageDelete(@, busy.slot)]
  BY DEF DeleteSlot
<1>1. busy.page \in 1 .. pages /\ busy.page \in PageIds
  BY <1>0, ConstantTypes DEF StageInv, TypeInv, PageIds
<1>2. PageDelete(mem[busy.page], busy.slot) \in Page
  BY <1>1, PageDeleteType DEF TypeInv, Contents
<1>3. mem' \in Contents /\ \A q \in PageIds : q # busy.page => mem'[q] = mem[q]
  BY <1>0, <1>1, <1>2 DEF TypeInv, Contents
<1>4. TypeInv'
  BY <1>0, <1>3, ConstantTypes DEF TypeInv, txVars, workVars
<1>5. StageInv'
  BY <1>0, ConstantTypes DEF StageInv, txVars, workVars, Undoings
<1>6. \A q \in PageIds : q > pages => q # busy.page
  BY <1>1 DEF PageIds, TypeInv
<1>7. SpaceInv'
  BY <1>0, <1>3, <1>6 DEF SpaceInv, DataIn, workVars
<1> QED
  BY <1>4, <1>5, <1>7

(* The record of an INSERT or of an UPDATE                                 *)
LEMMA LogRecord ==
  ASSUME BaseInv, Log
  PROVE  \E e \in Record :
           /\ e = [type |-> busy.op, tx |-> tx_id, page |-> busy.page,
                   slot |-> busy.slot, new |-> busy.row, old |-> busy.old]
           /\ wal_write(e) /\ busy.page \in 1 .. pages /\ busy.op \in {"INSERT", "UPDATE"}
           /\ busy.row # NoRow
<1> DEFINE e == [type |-> busy.op, tx |-> tx_id, page |-> busy.page,
                 slot |-> busy.slot, new |-> busy.row, old |-> busy.old]
<1> USE DEF BaseInv
<1>1. busy.placed /\ wal_write(e)
  BY DEF Log, LoggedTx
<1>2. busy.op \in {"INSERT", "UPDATE"} /\ busy.page \in 1 .. pages /\ busy.op # "none"
  BY <1>1 DEF StageInv
<1>3. busy \in Op /\ tx_id \in Nat /\ busy.row # NoRow
  BY <1>2 DEF TypeInv, StageInv
<1>4. e \in Record
  BY <1>2, <1>3 DEF Record, DataOps, Op, NoRow, Slot, Deleted
<1> QED
  BY <1>1, <1>2, <1>3, <1>4

LEMMA BaseLog ==
  ASSUME BaseInv, Log
  PROVE  BaseInv'
<1> USE DEF BaseInv
<1>0. UNCHANGED <<pageVars, txVars, workVars, issued, restarts>> /\ busy' = NoOp
  BY DEF Log
<1>1. PICK e \in Record :
           /\ e = [type |-> busy.op, tx |-> tx_id, page |-> busy.page,
                   slot |-> busy.slot, new |-> busy.row, old |-> busy.old]
           /\ wal_write(e) /\ busy.page \in 1 .. pages /\ busy.op \in {"INSERT", "UPDATE"}
           /\ busy.row # NoRow
  BY LogRecord
<1>2. log' \in Seq(Record) /\ Len(log') <= MaxLog
  BY <1>1, AppendRecord
<1>3. TypeInv'
  BY <1>0, <1>2, ConstantTypes DEF TypeInv, pageVars, txVars, workVars
<1>4. StageInv'
  BY <1>0, ConstantTypes DEF StageInv, pageVars, txVars, workVars, Undoings
<1>5. \A i \in DataIn(log') : log'[i].page \in 1 .. pages'
  <2>1. e.page = busy.page /\ UNCHANGED pages
    BY <1>0, <1>1 DEF pageVars
  <2> QED
    BY <1>1, <2>1, AppendSpace
<1>6. SpaceInv'
  BY <1>0, <1>5 DEF SpaceInv, pageVars, workVars
<1> QED
  BY <1>3, <1>4, <1>6

LEMMA BaseWriteBack ==
  ASSUME BaseInv, NEW p \in PageIds, WriteBack(p)
  PROVE  BaseInv'
<1> USE DEF BaseInv
<1>0. /\ UNCHANGED <<mem, pages, chain, log, txVars, busy, workVars, issued, restarts>>
      /\ disk' = [disk EXCEPT ![p] = mem[p]]
  BY DEF WriteBack
<1>1. disk' \in Contents /\ \A q \in PageIds : disk'[q] \in {disk[q], mem[q]}
  BY <1>0 DEF TypeInv, Contents
<1>2. TypeInv'
  BY <1>0, <1>1 DEF TypeInv, txVars, workVars
<1>3. StageInv'
  BY <1>0 DEF StageInv, txVars, workVars
<1>4. SpaceInv'
  BY <1>0, <1>1 DEF SpaceInv, DataIn, workVars
<1> QED
  BY <1>2, <1>3, <1>4

(* Transactions                                                            *)
LEMMA BeginRecord ==
  ASSUME BaseInv, Begin
  PROVE  \E e \in Record : /\ e = Control("BEGIN", Len(txs) + 1) /\ wal_write(e)
                           /\ e.type = "BEGIN" /\ e.tx = Len(txs) + 1
                           /\ Len(txs) \in Nat /\ txs' = Append(txs, TRUE) /\ tx_id' = Len(txs) + 1
                           /\ txs \in Seq(BOOLEAN) /\ txs' \in Seq(BOOLEAN)
                           /\ Len(txs') = Len(txs) + 1 /\ DOMAIN txs = 1 .. Len(txs)
                           /\ DOMAIN txs' = 1 .. Len(txs) + 1
                           /\ \A t \in DOMAIN txs : txs'[t] = txs[t]
                           /\ txs'[Len(txs) + 1]
<1>1. txs \in Seq(BOOLEAN) /\ Len(txs) + 1 \in Nat
  BY DEF BaseInv, TypeInv
<1>2. txs' = Append(txs, TRUE) /\ tx_id' = Len(txs) + 1 /\ wal_write(Control("BEGIN", Len(txs) + 1))
  BY DEF Begin
<1>3. /\ Control("BEGIN", Len(txs) + 1) \in Record
      /\ Control("BEGIN", Len(txs) + 1).type = "BEGIN" /\ Control("BEGIN", Len(txs) + 1).tx = Len(txs) + 1
  BY <1>1, ControlRecord
<1>4. /\ txs' \in Seq(BOOLEAN) /\ Len(txs') = Len(txs) + 1 /\ DOMAIN txs = 1 .. Len(txs)
      /\ DOMAIN txs' = 1 .. Len(txs) + 1
      /\ \A t \in DOMAIN txs : txs'[t] = txs[t]
      /\ txs'[Len(txs) + 1] = TRUE
  <2> QED
    <3> DEFINE b == TRUE
    <3>1. b \in BOOLEAN /\ txs' = Append(txs, b)
      BY <1>2
    <3> HIDE DEF b
    <3>2. /\ txs' \in Seq(BOOLEAN) /\ Len(txs') = Len(txs) + 1 /\ DOMAIN txs = 1 .. Len(txs)
          /\ DOMAIN txs' = 1 .. Len(txs) + 1
          /\ \A t \in DOMAIN txs : txs'[t] = txs[t]
          /\ txs'[Len(txs) + 1] = b
      BY <1>1, <3>1, AppendElements
    <3> QED
      BY <3>2 DEF b
<1> QED
  BY <1>1, <1>2, <1>3, <1>4

LEMMA BaseBegin ==
  ASSUME BaseInv, Begin
  PROVE  BaseInv'
<1> USE DEF BaseInv
<1>0. UNCHANGED <<pageVars, savepoints, busy, workVars, issued, restarts>> /\ Ready
  BY DEF Begin
<1>1. PICK e \in Record : /\ wal_write(e) /\ e.type = "BEGIN"
                          /\ Len(txs) \in Nat /\ tx_id' = Len(txs) + 1
                          /\ txs' \in Seq(BOOLEAN) /\ Len(txs') = Len(txs) + 1
  BY BeginRecord
<1>2. log' \in Seq(Record) /\ Len(log') <= MaxLog
  BY <1>1, AppendRecord
<1>3. tx_id' \in 0 .. Len(txs')
  BY <1>1
<1>4. TypeInv'
  BY <1>0, <1>1, <1>2, <1>3 DEF TypeInv, pageVars, workVars
<1>5. StageInv'
  BY <1>0 DEF StageInv, pageVars, workVars, Ready, Undoings
<1>6. \A i \in DataIn(log') : log'[i].page \in 1 .. pages'
  BY <1>0, <1>1, AppendSpace DEF pageVars, DataOps
<1>7. SpaceInv'
  BY <1>0, <1>6 DEF SpaceInv, pageVars, workVars
<1> QED
  BY <1>4, <1>5, <1>7

LEMMA CloseTx ==
  ASSUME BaseInv, txs' = [txs EXCEPT ![tx_id] = FALSE]
  PROVE  /\ txs' \in Seq(BOOLEAN) /\ Len(txs') = Len(txs) /\ 0 \in 0 .. Len(txs')
         /\ DOMAIN txs' = DOMAIN txs
         /\ \A t \in DOMAIN txs : t # tx_id => txs'[t] = txs[t]
<1>1. txs \in Seq(BOOLEAN)
  BY DEF BaseInv, TypeInv
<1>2. txs' \in Seq(BOOLEAN) /\ Len(txs') = Len(txs) /\ Len(txs) \in Nat
  <2>1. FALSE \in BOOLEAN
    OBVIOUS
  <2> QED
    BY <1>1, <2>1, ExceptElements
<1>3. DOMAIN txs' = DOMAIN txs /\ \A t \in DOMAIN txs : t # tx_id => txs'[t] = txs[t]
  OBVIOUS
<1> QED
  BY <1>1, <1>2, <1>3

LEMMA EndRecord ==
  ASSUME BaseInv, NEW type \in {"COMMIT", "ABORT", "SAVEPOINT"}, wal_write(Control(type, tx_id))
  PROVE  \E e \in Record : /\ e = Control(type, tx_id) /\ wal_write(e)
                           /\ e.type = type /\ e.tx = tx_id /\ tx_id \in Nat
<1>1. tx_id \in Nat
  BY DEF BaseInv, TypeInv
<1> QED
  BY <1>1, ControlRecord

LEMMA BaseCommit ==
  ASSUME BaseInv, Commit
  PROVE  BaseInv'
<1> USE DEF BaseInv
<1>0. UNCHANGED <<pageVars, savepoints, busy, workVars, issued, restarts, atBegin>> /\ Ready
      /\ tx_id' = 0 /\ txs' = [txs EXCEPT ![tx_id] = FALSE] /\ wal_write(Control("COMMIT", tx_id))
  BY DEF Commit
<1>1. PICK e \in Record : wal_write(e) /\ e.type = "COMMIT"
  BY <1>0, EndRecord
<1>2. log' \in Seq(Record) /\ Len(log') <= MaxLog
  BY <1>1, AppendRecord
<1>3. txs' \in Seq(BOOLEAN) /\ tx_id' \in 0 .. Len(txs')
  BY <1>0, CloseTx
<1>4. TypeInv'
  BY <1>0, <1>2, <1>3 DEF TypeInv, pageVars, workVars
<1>5. StageInv'
  BY <1>0 DEF StageInv, pageVars, workVars, Ready, Undoings
<1>6. \A i \in DataIn(log') : log'[i].page \in 1 .. pages'
  BY <1>0, <1>1, AppendSpace DEF pageVars, DataOps
<1>7. SpaceInv'
  BY <1>0, <1>6 DEF SpaceInv, pageVars, workVars
<1> QED
  BY <1>4, <1>5, <1>7

LEMMA SavepointKept ==
  ASSUME BaseInv, NEW name \in Names, Savepoint(name)
  PROVE  /\ savepoints' \in Seq(Saved) /\ DOMAIN savepoints \subseteq DOMAIN savepoints'
         /\ \A i \in DOMAIN savepoints : savepoints'[i] = savepoints[i]
         /\ \A i \in DOMAIN savepoints' : i \in DOMAIN savepoints \/
              savepoints'[i] = [name |-> name, offset |-> Len(log) + 1, tx |-> tx_id]
<1> DEFINE new == [name |-> name, offset |-> Len(log) + 1, tx |-> tx_id]
<1>1. savepoints \in Seq(Saved) /\ log \in Seq(Record) /\ tx_id \in Nat
  BY DEF BaseInv, TypeInv
<1>2. new \in Saved
  BY <1>1 DEF Saved
<1>3. savepoints' = IF Len(savepoints) < MaxSavepoints THEN Append(savepoints, new) ELSE savepoints
  BY DEF Savepoint
<1> HIDE DEF new
<1>4. CASE Len(savepoints) < MaxSavepoints
  <2>1. /\ savepoints' \in Seq(Saved) /\ DOMAIN savepoints' = 1 .. Len(savepoints) + 1
        /\ savepoints'[Len(savepoints) + 1] = new /\ DOMAIN savepoints = 1 .. Len(savepoints)
        /\ Len(savepoints) \in Nat
        /\ \A i \in 1 .. Len(savepoints) : savepoints'[i] = savepoints[i]
    BY <1>1, <1>2, <1>3, <1>4
  <2>2. \A i \in DOMAIN savepoints' : i \in DOMAIN savepoints \/ i = Len(savepoints) + 1
    BY <2>1
  <2>3. DOMAIN savepoints \subseteq DOMAIN savepoints'
    BY <2>1
  <2> QED
    BY <2>1, <2>2, <2>3 DEF new
<1>5. CASE ~(Len(savepoints) < MaxSavepoints)
  BY <1>1, <1>3, <1>5
<1> QED
  BY <1>4, <1>5

LEMMA BaseSavepoint ==
  ASSUME BaseInv, NEW name \in Names, Savepoint(name)
  PROVE  BaseInv'
<1> USE DEF BaseInv
<1>0. UNCHANGED <<pageVars, txs, tx_id, busy, workVars, issued, restarts, atBegin>> /\ Ready
      /\ wal_write(Control("SAVEPOINT", tx_id))
  BY DEF Savepoint
<1>1. PICK e \in Record : wal_write(e) /\ e.type = "SAVEPOINT"
  BY <1>0, EndRecord
<1>2. log' \in Seq(Record) /\ Len(log') <= MaxLog
  BY <1>1, AppendRecord
<1>4. TypeInv'
  BY <1>0, <1>2, SavepointKept DEF TypeInv, pageVars, workVars
<1>5. StageInv'
  BY <1>0 DEF StageInv, pageVars, workVars, Ready, Undoings
<1>6. \A i \in DataIn(log') : log'[i].page \in 1 .. pages'
  BY <1>0, <1>1, AppendSpace DEF pageVars, DataOps
<1>7. SpaceInv'
  BY <1>0, <1>6 DEF SpaceInv, pageVars, workVars
<1> QED
  BY <1>4, <1>5, <1>7

(* Rollback and recovery                                                   *)
LEMMA AboutSpace ==
  ASSUME BaseInv, NEW steps, About(steps, log)
  PROVE  steps \in Seq(Steps) /\ \A n \in DOMAIN steps : steps[n].rec.page \in 1 .. pages
BY DEF BaseInv, SpaceInv, About

LEMMA BaseRollbackBegin ==
  ASSUME BaseInv, NEW next \in {"rollback", "closing"}, RollbackBegin(next)
  PROVE  BaseInv'
<1> USE DEF BaseInv
<1>0. UNCHANGED <<mem, pages, chain, txVars, busy, cut, issued, restarts>> /\ Ready
      /\ wal_write(Control("ABORT", tx_id)) /\ tx_id # 0
      /\ disk' = mem /\ phase' = next /\ work' = RollbackWork(log, tx_id)
  BY DEF RollbackBegin
<1>1. PICK e \in Record : wal_write(e) /\ e.type = "ABORT"
  BY <1>0, EndRecord
<1>2. log' \in Seq(Record) /\ Len(log') <= MaxLog
  BY <1>1, AppendRecord
<1>3. log \in Seq(Record) /\ 0 \in Nat
  BY DEF TypeInv
<1>4. About(work', log)
  BY <1>0, <1>3, WorkAbout
<1>5. work' \in Seq(Steps) /\ \A n \in DOMAIN work' : work'[n].rec.page \in 1 .. pages
  BY <1>4, AboutSpace
<1>6. TypeInv'
  BY <1>0, <1>2, <1>5 DEF TypeInv, txVars, Undoings
<1>7. StageInv'
  BY <1>0 DEF StageInv, txVars, Ready, Undoings
<1>8. \A i \in DataIn(log') : log'[i].page \in 1 .. pages'
  BY <1>0, <1>1, AppendSpace DEF DataOps
<1>9. SpaceInv'
  BY <1>0, <1>5, <1>8 DEF SpaceInv
<1> QED
  BY <1>6, <1>7, <1>9

LEMMA BaseRollbackToBegin ==
  ASSUME BaseInv, NEW name \in Names, RollbackToBegin(name)
  PROVE  /\ BaseInv'
         /\ cut' \in DOMAIN savepoints /\ savepoints[cut'].offset \in Nat
         /\ StaleSavepoints \/ savepoints[cut'].tx = tx_id
         /\ work' = PartialWork(log, savepoints[cut'].offset, tx_id)
<1> USE DEF BaseInv
<1>0. PICK i : /\ i = LatestOf(name)
               /\ i # 0 /\ cut' = i
               /\ StaleSavepoints \/ savepoints[i].tx = tx_id
               /\ work' = PartialWork(log, savepoints[i].offset, tx_id)
  BY DEF RollbackToBegin
<1>a. UNCHANGED <<mem, pages, chain, log, txVars, busy, issued, restarts>> /\ Ready /\ tx_id # 0
      /\ disk' = mem /\ phase' = "rollback_to"
  BY DEF RollbackToBegin
<1>1. savepoints \in Seq(Saved) /\ log \in Seq(Record) /\ DOMAIN savepoints \subseteq Nat
      /\ DOMAIN savepoints = 1 .. Len(savepoints) /\ Len(savepoints) \in Nat
  BY DEF TypeInv
<1>2. i \in DOMAIN savepoints
  <2> DEFINE of == {k \in DOMAIN savepoints : savepoints[k].name = name}
             Is(k) == \A j \in of : j <= k
             mirror == {Len(savepoints) - k : k \in of}
  <2>1. of # {} /\ i = CHOOSE k \in of : Is(k)
    <3>1. LatestOf(name) = IF of = {} THEN 0 ELSE CHOOSE k \in of : Is(k)
      BY DEF LatestOf
    <3> HIDE DEF of, Is
    <3> QED
      BY <1>0, <3>1
  <2>2. mirror # {} /\ mirror \in SUBSET Nat
    <3>1. \A k \in of : k \in 1 .. Len(savepoints)
      BY <1>1
    <3> HIDE DEF of
    <3>2. \A k \in of : Len(savepoints) - k \in Nat
      BY <1>1, <3>1
    <3> QED
      BY <2>1, <3>2
  <2>3. PICK m \in mirror : \A k \in mirror : m <= k
    <3> HIDE DEF mirror
    <3> QED
      BY <2>2, LeastNumber
  <2>4. PICK k \in of : m = Len(savepoints) - k
    BY <2>3
  <2>5. Is(k)
    <3> SUFFICES ASSUME NEW j \in of PROVE j <= k
      OBVIOUS
    <3>1. m <= Len(savepoints) - j
      BY <2>3
    <3>2. j \in Nat /\ k \in Nat
      BY <1>1
    <3> QED
      BY <1>1, <2>4, <3>1, <3>2
  <2>6. i \in of
    <3> HIDE DEF Is, of
    <3> QED
      BY <2>1, <2>4, <2>5
  <2> QED
    BY <2>6
<1>3. savepoints[i] \in Saved
  BY <1>1, <1>2
<1>4. savepoints[i].offset \in Nat
  BY <1>3 DEF Saved
<1>5. About(work', log)
  BY <1>0, <1>1, <1>4, WorkAbout
<1>6. work' \in Seq(Steps) /\ \A n \in DOMAIN work' : work'[n].rec.page \in 1 .. pages
  BY <1>5, AboutSpace
<1>7. cut' \in Nat /\ cut' \in DOMAIN savepoints
  BY <1>0, <1>1, <1>2
<1>8. TypeInv'
  BY <1>a, <1>6, <1>7 DEF TypeInv, txVars, Undoings
<1>9. StageInv'
  BY <1>a, <1>7 DEF StageInv, txVars, Ready, Undoings
<1>10. SpaceInv'
  BY <1>a, <1>6 DEF SpaceInv, DataIn
<1> QED
  BY <1>0, <1>4, <1>7, <1>8, <1>9, <1>10

LEMMA TailElements ==
  ASSUME NEW S, NEW s \in Seq(S), s # <<>>
  PROVE  /\ Tail(s) \in Seq(S) /\ Head(s) \in S /\ 1 \in DOMAIN s /\ Head(s) = s[1]
         /\ \A n \in DOMAIN Tail(s) : n + 1 \in DOMAIN s /\ Tail(s)[n] = s[n + 1]
         /\ \A n \in DOMAIN s : n = 1 \/ (n - 1 \in DOMAIN Tail(s) /\ Tail(s)[n - 1] = s[n])
<1>1. Len(s) \in Nat /\ Len(s) >= 1 /\ DOMAIN s = 1 .. Len(s) /\ Head(s) = s[1] /\ Tail(s) \in Seq(S)
  OBVIOUS
<1>2. Len(Tail(s)) = Len(s) - 1 /\ DOMAIN Tail(s) = 1 .. Len(s) - 1
  OBVIOUS
<1>3. \A n \in 1 .. Len(s) - 1 : Tail(s)[n] = s[n + 1]
  OBVIOUS
<1>4. 1 \in DOMAIN s /\ s[1] \in S
  BY <1>1
<1>5. \A n \in DOMAIN Tail(s) : n + 1 \in DOMAIN s
  BY <1>1, <1>2
<1>6. ASSUME NEW n \in DOMAIN s, n # 1 PROVE n - 1 \in DOMAIN Tail(s) /\ Tail(s)[n - 1] = s[n]
  <2>1. n - 1 \in 1 .. Len(s) - 1 /\ (n - 1) + 1 = n
    BY <1>1, <1>6
  <2>2. Tail(s)[n - 1] = s[(n - 1) + 1]
    BY <1>3, <2>1
  <2> QED
    BY <1>2, <2>1, <2>2
<1> QED
  BY <1>1, <1>2, <1>3, <1>4, <1>5, <1>6

LEMMA BaseApplyStep ==
  ASSUME BaseInv, ApplyStep
  PROVE  BaseInv'
<1> USE DEF BaseInv
<1>0. UNCHANGED <<mem, pages, chain, log, txVars, busy, phase, cut, issued, restarts>>
      /\ work # <<>> /\ disk' = Apply(disk, Head(work)) /\ work' = Tail(work)
  BY DEF ApplyStep
<1>1. work \in Seq(Steps) /\ disk \in Contents /\ pages \in PageIds
  BY DEF TypeInv
<1>2. /\ work' \in Seq(Steps) /\ Head(work) \in Steps /\ 1 \in DOMAIN work /\ Head(work) = work[1]
      /\ \A n \in DOMAIN work' : n + 1 \in DOMAIN work /\ work'[n] = work[n + 1]
  BY <1>0, <1>1, TailElements
<1>3. disk' \in Contents
  BY <1>0, <1>1, <1>2, ApplyType
<1>4. TypeInv'
  BY <1>0, <1>2, <1>3 DEF TypeInv, txVars
<1>5. phase # "up"
  BY <1>0 DEF StageInv
<1>6. StageInv'
  BY <1>0, <1>5 DEF StageInv, txVars
<1>7. \A p \in PageIds : p > pages => p # Head(work).rec.page
  BY <1>1, <1>2 DEF SpaceInv, PageIds
<1>8. \A p \in PageIds : p > pages => disk'[p] = disk[p]
  BY <1>0, <1>1, <1>7 DEF Apply, Contents
<1>9. SpaceInv'
  BY <1>0, <1>2, <1>8 DEF SpaceInv, DataIn
<1> QED
  BY <1>4, <1>6, <1>9

LEMMA BaseRollbackEnd ==
  ASSUME BaseInv, RollbackEnd
  PROVE  BaseInv'
<1> USE DEF BaseInv
<1>0. UNCHANGED <<disk, pages, chain, log, savepoints, busy, work, cut, issued, restarts, atBegin>>
      /\ phase = "rollback" /\ work = <<>> /\ mem' = disk /\ tx_id' = 0 /\ phase' = "up"
      /\ txs' = [txs EXCEPT ![tx_id] = FALSE]
  BY DEF RollbackEnd, Reread
<1>1. txs' \in Seq(BOOLEAN) /\ tx_id' \in 0 .. Len(txs')
  BY <1>0, CloseTx
<1>2. TypeInv'
  BY <1>0, <1>1 DEF TypeInv
<1>3. StageInv'
  BY <1>0, ConstantTypes DEF StageInv, Undoings
<1>4. SpaceInv'
  BY <1>0 DEF SpaceInv, DataIn
<1> QED
  BY <1>2, <1>3, <1>4

(* What RollbackToEnd leaves of the log and of the savepoints              *)
LEMMA RollbackToCuts ==
  ASSUME BaseInv, RollbackToEnd
  PROVE  /\ cut \in DOMAIN savepoints /\ savepoints[cut].offset \in Nat
         /\ log' \in Seq(Record) /\ Len(log') <= Len(log)
         /\ DOMAIN log' = {i \in DOMAIN log : i <= savepoints[cut].offset}
         /\ \A i \in DOMAIN log' : log'[i] = log[i]
         /\ savepoints' \in Seq(Saved) /\ DOMAIN savepoints' \subseteq DOMAIN savepoints
         /\ \A i \in DOMAIN savepoints' : savepoints'[i] = savepoints[i]
<1> USE DEF BaseInv
<1>0. phase = "rollback_to" /\ log' = First(log, savepoints[cut].offset)
      /\ savepoints' = First(savepoints, cut - 1)
  BY DEF RollbackToEnd
<1>1. savepoints \in Seq(Saved) /\ log \in Seq(Record) /\ cut \in DOMAIN savepoints
  BY <1>0 DEF TypeInv, StageInv
<1>2. savepoints[cut] \in Saved /\ cut - 1 \in Nat
  BY <1>1
<1>3. savepoints[cut].offset \in Nat
  BY <1>2 DEF Saved
<1> DEFINE n == savepoints[cut].offset
<1> HIDE DEF n
<1>4. /\ First(log, n) \in Seq(Record) /\ Len(First(log, n)) <= Len(log)
      /\ DOMAIN First(log, n) = {i \in DOMAIN log : i <= n}
      /\ \A i \in DOMAIN First(log, n) : First(log, n)[i] = log[i]
  <2>1. n \in Nat
    BY <1>3 DEF n
  <2> QED
    BY <1>1, <2>1, FirstPrefix
<1>5. /\ savepoints' \in Seq(Saved)
      /\ DOMAIN savepoints' = {i \in DOMAIN savepoints : i <= cut - 1}
      /\ \A i \in DOMAIN savepoints' : savepoints'[i] = savepoints[i]
  BY <1>0, <1>1, <1>2, FirstPrefix
<1>6. DOMAIN savepoints' \subseteq DOMAIN savepoints
  BY <1>5
<1> QED
  BY <1>0, <1>1, <1>3, <1>4, <1>5, <1>6 DEF n

LEMMA BaseRollbackToEnd ==
  ASSUME BaseInv, RollbackToEnd
  PROVE  BaseInv'
<1> USE DEF BaseInv
<1>0. UNCHANGED <<disk, pages, chain, txs, tx_id, busy, work, issued, restarts, atBegin>>
      /\ phase = "rollback_to" /\ work = <<>> /\ mem' = disk /\ phase' = "up" /\ cut' = 0
  BY DEF RollbackToEnd, Reread
<1>1. log \in Seq(Record) /\ Len(log) \in Nat /\ Len(log') \in Nat /\ Len(log') <= MaxLog
  <2>1. log \in Seq(Record) /\ log' \in Seq(Record) /\ Len(log') <= Len(log) /\ Len(log) <= MaxLog
    BY RollbackToCuts DEF TypeInv
  <2>2. Len(log') \in Nat /\ Len(log) \in Nat
    BY <2>1
  <2> QED
    BY <2>1, <2>2, ConstantTypes
<1>2. TypeInv'
  BY <1>0, <1>1, RollbackToCuts DEF TypeInv
<1>3. StageInv'
  BY <1>0, ConstantTypes DEF StageInv, Undoings
<1>4. SpaceInv'
  BY <1>0, RollbackToCuts DEF SpaceInv, DataIn
<1> QED
  BY <1>2, <1>3, <1>4

LEMMA BaseShutdown ==
  ASSUME BaseInv, Shutdown
  PROVE  /\ BaseInv'
         /\ mem' = disk' /\ log' = <<>> /\ phase' = "up" /\ busy' = NoOp /\ busy = NoOp
         /\ txs' = <<>> /\ tx_id' = 0 /\ UNCHANGED <<pages, chain, atBegin>>
         /\ \A i \in DOMAIN savepoints' : savepoints'[i].tx = 0
         /\ mem' \in Contents
<1> USE DEF BaseInv
<1>0. UNCHANGED <<pages, chain, busy, work, cut, issued, atBegin>>
      /\ log' = <<>> /\ txs' = <<>> /\ tx_id' = 0 /\ phase' = "up"
  BY DEF Shutdown, Reopened
<1>1. (Ready /\ disk' = mem /\ mem' = mem) \/ (phase = "closing" /\ work = <<>> /\ mem' = disk /\ disk' = disk)
  BY DEF Shutdown, Reread
<1>2. mem' = disk' /\ mem' \in {mem, disk} /\ work' = <<>>
  BY <1>0, <1>1 DEF StageInv, Ready
<1>3. busy = NoOp
  BY <1>1 DEF StageInv, Ready
<1>4. savepoints' \in Seq(Saved) /\ \A i \in DOMAIN savepoints' : savepoints'[i].tx = 0
  <2> DEFINE f == [i \in DOMAIN savepoints |-> [savepoints[i] EXCEPT !.tx = 0]]
  <2>1. savepoints' \in {<<>>, f}
    BY DEF Shutdown
  <2>2. savepoints \in Seq(Saved)
    BY DEF TypeInv
  <2>3. \A i \in DOMAIN savepoints : f[i] \in Saved /\ f[i].tx = 0
    <3>1. \A i \in DOMAIN savepoints : savepoints[i] \in Saved
      BY <2>2
    <3> QED
      BY <3>1 DEF Saved
  <2>4. f \in [1 .. Len(savepoints) -> Saved] /\ Len(savepoints) \in Nat /\ DOMAIN f = DOMAIN savepoints
    BY <2>2, <2>3
  <2>5. f \in Seq(Saved) /\ \A i \in DOMAIN f : f[i].tx = 0
    <3>1. \A i \in DOMAIN f : f[i].tx = 0
      BY <2>3, <2>4
    <3> HIDE DEF f
    <3> QED
      BY <2>4, <3>1
  <2>6. <<>> \in Seq(Saved) /\ DOMAIN <<>> = {}
    OBVIOUS
  <2> HIDE DEF f
  <2> QED
    BY <2>1, <2>5, <2>6
<1>5. <<>> \in Seq(Record) /\ <<>> \in Seq(BOOLEAN) /\ Len(<<>>) = 0 /\ DOMAIN <<>> = {}
      /\ 0 \in 0 .. 0
  OBVIOUS
<1>6. TypeInv'
  BY <1>0, <1>2, <1>4, <1>5, ConstantTypes DEF TypeInv
<1>7. StageInv'
  BY <1>0, <1>2, <1>3, ConstantTypes DEF StageInv, Undoings
<1>8. \A i \in DataIn(log') : FALSE
  BY <1>0, <1>5 DEF DataIn
<1>9. SpaceInv'
  BY <1>0, <1>2, <1>5, <1>8 DEF SpaceInv
<1> QED
  BY <1>0, <1>2, <1>3, <1>4, <1>6, <1>7, <1>9 DEF TypeInv

LEMMA BaseCrash ==
  ASSUME BaseInv, Crash
  PROVE  BaseInv'
<1> USE DEF BaseInv
<1>0. UNCHANGED <<disk, pages, chain, log, issued, atBegin>>
      /\ phase' = "recover" /\ work' = RecoveryWork(log) /\ cut' = 0 /\ busy' = NoOp /\ mem' = disk
      /\ txs' = <<>> /\ tx_id' = 0 /\ savepoints' = <<>>
  BY DEF Crash
<1>1. log \in Seq(Record) /\ 0 \in Nat
  BY DEF TypeInv
<1>2. About(work', log)
  BY <1>0, <1>1, WorkAbout
<1>3. work' \in Seq(Steps) /\ \A n \in DOMAIN work' : work'[n].rec.page \in 1 .. pages
  BY <1>2, AboutSpace
<1>4. <<>> \in Seq(Saved) /\ <<>> \in Seq(BOOLEAN) /\ Len(<<>>) = 0 /\ 0 \in 0 .. 0
  OBVIOUS
<1>5. TypeInv'
  BY <1>0, <1>3, <1>4, ConstantTypes DEF TypeInv
<1>6. StageInv'
  BY <1>0, ConstantTypes DEF StageInv, Undoings
<1>7. SpaceInv'
  BY <1>0, <1>3 DEF SpaceInv, DataIn
<1> QED
  BY <1>5, <1>6, <1>7

LEMMA BaseRecoverEnd ==
  ASSUME BaseInv, RecoverEnd
  PROVE  BaseInv'
<1> USE DEF BaseInv
<1>0. UNCHANGED <<disk, pages, chain, txVars, busy, work, cut, issued, restarts>>
      /\ phase = "recover" /\ work = <<>> /\ mem' = disk /\ log' = <<>> /\ phase' = "up"
  BY DEF RecoverEnd
<1>1. <<>> \in Seq(Record) /\ Len(<<>>) = 0 /\ DOMAIN <<>> = {}
  OBVIOUS
<1>2. TypeInv'
  BY <1>0, <1>1, ConstantTypes DEF TypeInv, txVars
<1>3. StageInv'
  BY <1>0, ConstantTypes DEF StageInv, Undoings
<1>4. \A i \in DataIn(log') : FALSE
  BY <1>0, <1>1 DEF DataIn
<1>5. SpaceInv'
  BY <1>0, <1>1, <1>4 DEF SpaceInv
<1> QED
  BY <1>2, <1>3, <1>5

LEMMA BaseStep ==
  ASSUME BaseInv, [Next]_vars
  PROVE  BaseInv'
<1>1. CASE UNCHANGED vars
  BY <1>1 DEF vars, BaseInv, TypeInv, StageInv, SpaceInv, DataIn
<1>2. ASSUME Next PROVE BaseInv'
  BY <1>2, BaseInsert, BaseUpdate, BaseDelete, BaseDeleteSlot, BasePlaceUpdated, BaseLink, BaseLog,
     BaseWriteBack, BaseBegin, BaseCommit, BaseSavepoint, BaseRollbackBegin, BaseRollbackToBegin,
     BaseApplyStep, BaseRollbackEnd, BaseRollbackToEnd, BaseShutdown, BaseCrash, BaseRecoverEnd
     DEF Next
<1> QED
  BY <1>1, <1>2

(* Types are kept; row operations and replays exclude each other; nothing  *)
(* is written to a page that no row operation has been given: the engine   *)
(* of heap.c, wal.c and db_api.c works on well-formed pages and records.   *)
THEOREM EngineTyped == Spec => []BaseInv
<1>1. Init => BaseInv
  BY InitBase
<1>2. BaseInv /\ [Next]_vars => BaseInv'
  BY BaseStep
<1> QED
  BY <1>1, <1>2, PTL DEF Spec

-----------------------------------------------------------------------------
(* Recovery undoes only open transactions                                  *)

(* A record that neither begins nor ends a transaction                     *)
LEMMA LedgerAppend ==
  ASSUME BaseInv, LedgerInv, NEW e \in Record, wal_write(e), e.type \notin EndsTx \cup {"BEGIN"},
         UNCHANGED <<txs, tx_id, phase, cut>>, phase = "up",
         savepoints' = savepoints \/
           \A i \in DOMAIN savepoints' :
             \/ i \in DOMAIN savepoints /\ savepoints'[i] = savepoints[i]
             \/ savepoints'[i].offset = Len(log) + 1 /\ savepoints'[i].tx = tx_id
  PROVE  LedgerInv'
<1> DEFINE n == Len(log) + 1
<1> USE DEF BaseInv
<1>1. /\ DOMAIN log \subseteq DOMAIN log' /\ \A i \in DOMAIN log : log'[i] = log[i] /\ i < n
      /\ \A i \in DOMAIN log' : i \in DOMAIN log \/ (i = n /\ log'[i] = e)
      /\ n \in Nat /\ DOMAIN log \subseteq Nat /\ DOMAIN log' \subseteq Nat
  BY AppendRecord DEF TypeInv
<1> HIDE DEF n
<1>2. Accounted'
  BY <1>1 DEF LedgerInv, Accounted, Ends
<1>3. /\ \A i \in DOMAIN savepoints' : savepoints'[i].tx <= Len(txs')
      /\ CutsNoEnd'
  <2>1. CASE savepoints' = savepoints
    BY <1>1, <2>1 DEF LedgerInv, CutsNoEnd
  <2>2. ASSUME NEW i \in DOMAIN savepoints', i \in DOMAIN savepoints, savepoints'[i] = savepoints[i]
        PROVE  /\ savepoints'[i].tx <= Len(txs')
               /\ savepoints'[i].tx = tx_id' /\ tx_id' # 0 =>
                    \A j \in DOMAIN log' : log'[j].type \in EndsTx => j <= savepoints'[i].offset
    BY <1>1, <2>2 DEF LedgerInv, CutsNoEnd
  <2>3. ASSUME NEW i \in DOMAIN savepoints', savepoints'[i].offset = n, savepoints'[i].tx = tx_id
        PROVE  /\ savepoints'[i].tx <= Len(txs')
               /\ \A j \in DOMAIN log' : log'[j].type \in EndsTx => j <= savepoints'[i].offset
    <3>1. tx_id <= Len(txs')
      BY DEF TypeInv
    <3>2. \A j \in DOMAIN log' : j <= n
      BY <1>1
    <3> QED
      BY <2>3, <3>1, <3>2
  <2> QED
    BY <2>1, <2>2, <2>3 DEF n, CutsNoEnd
<1> QED
  BY <1>2, <1>3 DEF LedgerInv

LEMMA LedgerBegin ==
  ASSUME BaseInv, LedgerInv, Begin
  PROVE  LedgerInv'
<1> DEFINE n == Len(log) + 1
           next == Len(txs) + 1
<1> USE DEF BaseInv
<1>0. UNCHANGED <<savepoints, phase, cut>> /\ phase = "up"
  BY DEF Begin, Ready, workVars
<1>1. PICK e \in Record : /\ wal_write(e) /\ e.type = "BEGIN" /\ e.tx = next /\ Len(txs) \in Nat
                          /\ tx_id' = next /\ Len(txs') = next
                          /\ DOMAIN txs = 1 .. Len(txs) /\ DOMAIN txs' = 1 .. next
                          /\ \A k \in DOMAIN txs : txs'[k] = txs[k]
                          /\ txs'[next]
  BY BeginRecord
<1>2. /\ DOMAIN log \subseteq DOMAIN log' /\ \A i \in DOMAIN log : log'[i] = log[i]
      /\ \A i \in DOMAIN log' : i \in DOMAIN log \/ (i = n /\ log'[i] = e)
  BY <1>1, AppendRecord
<1> HIDE DEF n
<1>3. next \in DOMAIN txs' /\ \A k \in DOMAIN txs : k \in DOMAIN txs'
  BY <1>1
<1>4. Accounted'
  <2> SUFFICES ASSUME NEW i \in DOMAIN log', log'[i].type = "BEGIN", NEW t, t = log'[i].tx
               PROVE  t \in DOMAIN txs' /\ (~txs'[t] => \E j \in DOMAIN log' : Ends(j, t)')
    BY DEF Accounted
  <2>1. CASE i \in DOMAIN log
    <3>1. log'[i] = log[i] /\ t \in DOMAIN txs
          /\ (~txs[t] => \E j \in DOMAIN log : Ends(j, t))
      BY <1>0, <1>2, <2>1 DEF LedgerInv, Accounted
    <3>2. \A j \in DOMAIN log : Ends(j, t) => j \in DOMAIN log' /\ Ends(j, t)'
      BY <1>2 DEF Ends
    <3> QED
      BY <1>1, <1>3, <3>1, <3>2
  <2>2. CASE i = n /\ log'[i] = e
    BY <1>1, <1>3, <2>2
  <2> QED
    BY <1>2, <2>1, <2>2
<1>5. \A i \in DOMAIN savepoints : savepoints[i].tx <= Len(txs) /\ savepoints[i].tx \in Nat
  <2>1. \A i \in DOMAIN savepoints : savepoints[i] \in Saved
    <3>1. savepoints \in Seq(Saved)
      BY DEF TypeInv
    <3> QED
      BY <3>1, SequenceElements
  <2> QED
    BY <2>1 DEF LedgerInv, Saved
<1>6. \A i \in DOMAIN savepoints : savepoints[i].tx <= Len(txs') /\ savepoints[i].tx # tx_id'
  BY <1>1, <1>5
<1> QED
  BY <1>0, <1>4, <1>6 DEF LedgerInv, CutsNoEnd

LEMMA LedgerCommit ==
  ASSUME BaseInv, LedgerInv, Commit
  PROVE  LedgerInv'
<1> USE DEF BaseInv
<1>0. UNCHANGED <<savepoints, phase, cut>> /\ phase = "up" /\ tx_id' = 0
      /\ txs' = [txs EXCEPT ![tx_id] = FALSE] /\ wal_write(Control("COMMIT", tx_id))
  BY DEF Commit, Ready, workVars
<1>1. PICK e \in Record : wal_write(e) /\ e.type = "COMMIT" /\ e.tx = tx_id
  BY <1>0, EndRecord
<1>2. PICK n :
      /\ DOMAIN log \subseteq DOMAIN log' /\ \A i \in DOMAIN log : log'[i] = log[i]
      /\ \A i \in DOMAIN log' : i \in DOMAIN log \/ (i = n /\ log'[i] = e)
      /\ n \in DOMAIN log' /\ log'[n] = e
  BY <1>1, AppendRecord
<1>3. DOMAIN txs' = DOMAIN txs /\ Len(txs') = Len(txs) /\ \A k \in DOMAIN txs : k # tx_id => txs'[k] = txs[k]
  BY <1>0, CloseTx
<1>4. Accounted'
  <2> SUFFICES ASSUME NEW i \in DOMAIN log', log'[i].type = "BEGIN", NEW t, t = log'[i].tx
               PROVE  t \in DOMAIN txs' /\ (~txs'[t] => \E j \in DOMAIN log' : Ends(j, t)')
    BY DEF Accounted
  <2>1. i \in DOMAIN log /\ log'[i] = log[i]
    BY <1>1, <1>2
  <2>2. t \in DOMAIN txs /\ (~txs[t] => \E j \in DOMAIN log : Ends(j, t))
    BY <1>0, <2>1 DEF LedgerInv, Accounted
  <2>3. \A j \in DOMAIN log : Ends(j, t) => j \in DOMAIN log' /\ Ends(j, t)'
    BY <1>2 DEF Ends
  <2>4. CASE t = tx_id
    <3>1. Ends(n, t)'
      BY <1>1, <1>2, <2>4 DEF Ends, EndsTx
    <3> QED
      BY <1>2, <1>3, <2>2, <3>1
  <2>5. CASE t # tx_id
    BY <1>3, <2>1, <2>2, <2>3, <2>5
  <2> QED
    BY <2>4, <2>5
<1> QED
  BY <1>0, <1>3, <1>4 DEF LedgerInv, CutsNoEnd

LEMMA LedgerRollbackBegin ==
  ASSUME BaseInv, LedgerInv, NEW next \in {"rollback", "closing"}, RollbackBegin(next)
  PROVE  LedgerInv'
<1> USE DEF BaseInv
<1>0. UNCHANGED <<txs, tx_id, savepoints, cut>> /\ phase = "up" /\ phase' = next
      /\ wal_write(Control("ABORT", tx_id))
  BY DEF RollbackBegin, Ready, txVars
<1>1. PICK e \in Record : wal_write(e) /\ e.type = "ABORT" /\ e.tx = tx_id
  BY <1>0, EndRecord
<1>2. PICK n :
      /\ DOMAIN log \subseteq DOMAIN log' /\ \A i \in DOMAIN log : log'[i] = log[i]
      /\ \A i \in DOMAIN log' : i \in DOMAIN log \/ (i = n /\ log'[i] = e)
      /\ n \in DOMAIN log' /\ log'[n] = e
  BY <1>1, AppendRecord
<1>3. Accounted'
  BY <1>0, <1>1, <1>2 DEF LedgerInv, Accounted, Ends
<1>4. \E j \in DOMAIN log' : Ends(j, tx_id)'
  <2>1. Ends(n, tx_id)'
    <3>1. log'[n].type \in EndsTx /\ log'[n].tx = tx_id'
      BY <1>0, <1>1, <1>2 DEF EndsTx
    <3> QED
      BY <1>2, <3>1 DEF Ends
  <2> QED
    BY <1>2, <2>1
<1> QED
  BY <1>0, <1>2, <1>3, <1>4 DEF LedgerInv

LEMMA LedgerRollbackEnd ==
  ASSUME BaseInv, LedgerInv, RollbackEnd
  PROVE  LedgerInv'
<1>0. UNCHANGED <<log, savepoints, cut>> /\ phase = "rollback" /\ phase' = "up" /\ tx_id' = 0
      /\ txs' = [txs EXCEPT ![tx_id] = FALSE]
  BY DEF RollbackEnd
<1>1. DOMAIN txs' = DOMAIN txs /\ Len(txs') = Len(txs) /\ \A k \in DOMAIN txs : k # tx_id => txs'[k] = txs[k]
  BY <1>0, CloseTx
<1>2. \A j, t : Ends(j, t)' <=> Ends(j, t)
  BY <1>0 DEF Ends
<1>3. Accounted'
  <2> SUFFICES ASSUME NEW i \in DOMAIN log, log[i].type = "BEGIN"
               PROVE  /\ log[i].tx \in DOMAIN txs'
                      /\ ~txs'[log[i].tx] => \E j \in DOMAIN log : Ends(j, log[i].tx)
    BY <1>0, <1>2 DEF Accounted
  <2> QED
    BY <1>0, <1>1 DEF LedgerInv, Accounted
<1> QED
  BY <1>0, <1>1, <1>3 DEF LedgerInv, CutsNoEnd

(* What ROLLBACK TO cuts off is no end of a transaction.                   *)
LEMMA LedgerRollbackToEnd ==
  ASSUME BaseInv, LedgerInv, RollbackToEnd
  PROVE  LedgerInv'
<1> USE DEF BaseInv
<1>0. UNCHANGED <<txs, tx_id>> /\ phase = "rollback_to" /\ phase' = "up" /\ tx_id # 0
  BY DEF RollbackToEnd, StageInv, Undoings
<1>1. /\ cut \in DOMAIN savepoints /\ savepoints[cut].tx = tx_id
      /\ \A j \in DOMAIN log : log[j].type \in EndsTx => j <= savepoints[cut].offset
  BY <1>0, RollbackToCuts DEF LedgerInv, CutsNoEnd
<1>2. \A j, t : Ends(j, t) => j \in DOMAIN log' /\ Ends(j, t)'
  BY <1>1, RollbackToCuts DEF Ends
<1>3. Accounted'
  <2> SUFFICES ASSUME NEW i \in DOMAIN log', log'[i].type = "BEGIN", NEW t, t = log'[i].tx
               PROVE  t \in DOMAIN txs' /\ (~txs'[t] => \E j \in DOMAIN log' : Ends(j, t)')
    BY DEF Accounted
  <2>1. i \in DOMAIN log /\ log'[i] = log[i]
    BY RollbackToCuts
  <2>2. t \in DOMAIN txs /\ (~txs[t] => \E j \in DOMAIN log : Ends(j, t))
    BY <1>0, <2>1 DEF LedgerInv, Accounted
  <2> QED
    BY <1>0, <1>2, <2>1, <2>2
<1>4. CutsNoEnd'
  <2> SUFFICES ASSUME NEW i \in DOMAIN savepoints', savepoints'[i].tx = tx_id,
                      NEW j \in DOMAIN log', log'[j].type \in EndsTx
               PROVE  j <= savepoints'[i].offset
    BY <1>0 DEF CutsNoEnd
  <2>1. i \in DOMAIN savepoints /\ savepoints'[i] = savepoints[i] /\ j \in DOMAIN log /\ log'[j] = log[j]
    BY RollbackToCuts
  <2> QED
    BY <1>0, <2>1 DEF LedgerInv, CutsNoEnd
<1>5. \A i \in DOMAIN savepoints' : savepoints'[i].tx <= Len(txs')
  BY <1>0, RollbackToCuts DEF LedgerInv
<1> QED
  BY <1>0, <1>3, <1>4, <1>5 DEF LedgerInv

LEMMA LedgerStep ==
  ASSUME BaseInv, LedgerInv, [Next]_vars, ~StaleSavepoints
  PROVE  LedgerInv'
<1> DEFINE Quiet == UNCHANGED <<log, txs, tx_id, savepoints, phase, cut>>
<1>1. ASSUME Quiet PROVE LedgerInv'
  BY <1>1 DEF LedgerInv, Accounted, CutsNoEnd, Ends
<1>2. CASE UNCHANGED vars
  <2>1. Quiet
    BY <1>2 DEF vars
  <2> QED
    BY <1>1, <2>1
<1>3. ASSUME NEW big \in Oversize, Insert(big) PROVE LedgerInv'
  BY <1>1, <1>3 DEF Insert, txVars, workVars
<1>4. ASSUME NEW p \in PageIds, NEW s \in 1 .. Slots, NEW big \in Oversize, Update(p, s, big) PROVE LedgerInv'
  BY <1>1, <1>4 DEF Update, txVars, workVars
<1>5. ASSUME NEW p \in PageIds, NEW s \in 1 .. Slots, Delete(p, s) PROVE LedgerInv'
  <2>1. PICK e \in Record : wal_write(e) /\ e.type = "DELETE"
    BY <1>5, DeleteRecord
  <2>2. UNCHANGED <<txs, tx_id, phase, cut, savepoints>> /\ phase = "up"
    BY <1>5 DEF Delete, Ready, txVars, workVars
  <2> QED
    BY <2>1, <2>2, LedgerAppend DEF EndsTx
<1>6. ASSUME DeleteSlot PROVE LedgerInv'
  BY <1>1, <1>6 DEF DeleteSlot, txVars, workVars
<1>7. ASSUME PlaceUpdated PROVE LedgerInv'
  BY <1>1, <1>7 DEF PlaceUpdated, txVars, workVars
<1>8. ASSUME Link PROVE LedgerInv'
  BY <1>1, <1>8 DEF Link, txVars, workVars
<1>9. ASSUME Log PROVE LedgerInv'
  <2>1. PICK e \in Record : wal_write(e) /\ e.type \in {"INSERT", "UPDATE"}
    BY <1>9, LogRecord
  <2>2. UNCHANGED <<txs, tx_id, phase, cut, savepoints>> /\ busy.placed
    BY <1>9 DEF Log, txVars, workVars
  <2>3. phase = "up"
    BY <2>2, ConstantTypes DEF BaseInv, StageInv
  <2> QED
    BY <2>1, <2>2, <2>3, LedgerAppend DEF EndsTx
<1>10. ASSUME NEW p \in PageIds, WriteBack(p) PROVE LedgerInv'
  BY <1>1, <1>10 DEF WriteBack, txVars, workVars
<1>11. ASSUME NEW name \in Names, Savepoint(name) PROVE LedgerInv'
  <2>1. UNCHANGED <<txs, tx_id, phase, cut>> /\ phase = "up" /\ wal_write(Control("SAVEPOINT", tx_id))
    BY <1>11 DEF Savepoint, Ready, workVars
  <2>2. PICK e \in Record : wal_write(e) /\ e.type = "SAVEPOINT"
    BY <2>1, EndRecord
  <2>3. \A i \in DOMAIN savepoints' :
             \/ i \in DOMAIN savepoints /\ savepoints'[i] = savepoints[i]
             \/ savepoints'[i].offset = Len(log) + 1 /\ savepoints'[i].tx = tx_id
    BY <1>11, SavepointKept
  <2> QED
    BY <2>1, <2>2, <2>3, LedgerAppend DEF EndsTx
<1>12. ASSUME NEW name \in Names, RollbackToBegin(name) PROVE LedgerInv'
  <2>1. UNCHANGED <<log, txs, tx_id, savepoints>> /\ phase' = "rollback_to" /\ phase = "up"
    BY <1>12 DEF RollbackToBegin, txVars, Ready
  <2>2. savepoints[cut'].tx = tx_id
    BY <1>12, BaseRollbackToBegin
  <2> QED
    BY <2>1, <2>2 DEF LedgerInv, Accounted, CutsNoEnd, Ends
<1>13. ASSUME ApplyStep PROVE LedgerInv'
  BY <1>1, <1>13 DEF ApplyStep, txVars
<1>14. ASSUME Shutdown PROVE LedgerInv'
  <2>1. DOMAIN log' = {} /\ phase' = "up" /\ tx_id' = 0 /\ txs' = <<>>
        /\ \A i \in DOMAIN savepoints' : savepoints'[i].tx = 0
    BY <1>14, BaseShutdown
  <2> QED
    BY <2>1 DEF LedgerInv, Accounted, CutsNoEnd
<1>15. ASSUME Crash PROVE LedgerInv'
  BY <1>15 DEF Crash, LedgerInv
<1>16. ASSUME RecoverEnd PROVE LedgerInv'
  <2>1. DOMAIN log' = {} /\ phase' = "up" /\ UNCHANGED <<savepoints, txs>>
    BY <1>16 DEF RecoverEnd, txVars
  <2> QED
    BY <2>1 DEF LedgerInv, Accounted, CutsNoEnd
<1> QED
  BY <1>2, <1>3, <1>4, <1>5, <1>6, <1>7, <1>8, <1>9, <1>10, <1>11, <1>12, <1>13, <1>14, <1>15, <1>16,
     LedgerBegin, LedgerCommit, LedgerRollbackBegin, LedgerRollbackEnd, LedgerRollbackToEnd
     DEF Next

LEMMA LedgerHolds == ~StaleSavepoints => (Spec => [](BaseInv /\ LedgerInv))
<1> SUFFICES ASSUME ~StaleSavepoints PROVE Spec => [](BaseInv /\ LedgerInv)
  OBVIOUS
<1>1. Init => BaseInv /\ LedgerInv
  <2> SUFFICES ASSUME Init PROVE LedgerInv
    BY InitBase
  <2>1. DOMAIN log = {} /\ DOMAIN savepoints = {} /\ phase = "up"
    BY DEF Init
  <2> QED
    BY <2>1 DEF LedgerInv, Accounted, CutsNoEnd
<1>2. BaseInv /\ LedgerInv /\ [Next]_vars => (BaseInv /\ LedgerInv)'
  BY BaseStep, LedgerStep
<1> QED
  BY <1>1, <1>2, PTL DEF Spec

(* wal_recovery takes back only what transactions did that are still open: *)
(* once COMMIT or ROLLBACK has returned, the log says so. (ROLLBACK TO a   *)
(* savepoint of an earlier transaction is excepted: it cuts the record     *)
(* off.)                                                                   *)
THEOREM OnlyOpenUndoneSafe == ~StaleSavepoints => (Spec => []OnlyOpenUndone)
<1>1. BaseInv /\ LedgerInv => OnlyOpenUndone
  <2> SUFFICES ASSUME LedgerInv, phase = "up", NEW t \in Unfinished(log)
               PROVE  t \in DOMAIN txs /\ txs[t]
    BY DEF OnlyOpenUndone
  <2>1. PICK i \in DOMAIN log : log[i].type = "BEGIN" /\ log[i].tx = t
    BY DEF Unfinished
  <2>2. ~ \E j \in DOMAIN log : Ends(j, t)
    BY DEF Unfinished, Ends
  <2> QED
    BY <2>1, <2>2 DEF LedgerInv, Accounted
<1> QED
  BY <1>1, LedgerHolds, PTL

-----------------------------------------------------------------------------
(* Recovery rebuilds the table                                             *)
LEMMA PageShape ==
  ASSUME NEW pgs \in Contents, NEW p \in PageIds
  PROVE  /\ pgs[p] \in Page /\ pgs[p] \in Seq(Slot) /\ DOMAIN pgs[p] = 1 .. Len(pgs[p])
         /\ Len(pgs[p]) \in Nat /\ Len(pgs[p]) <= Slots
         /\ \A s \in DOMAIN pgs[p] : pgs[p][s] \in Slot
<1>1. pgs[p] \in Page
  BY DEF Contents
<1>2. pgs[p] \in Seq(Slot) /\ Len(pgs[p]) <= Slots
  BY <1>1 DEF Page
<1> QED
  BY <1>1, <1>2, SequenceElements

(* Slots are only added and emptied.                                       *)
Grows(pg, qg) == \A s \in DOMAIN pg : s \in DOMAIN qg /\ qg[s] \in {pg[s], Deleted}

LEMMA InsertGrows ==
  ASSUME NEW pg \in Page, NEW r \in Slot
  PROVE  /\ Grows(pg, PageInsert(pg, r))
         /\ HasRoom(pg) => /\ PageInsert(pg, r) = Append(pg, r)
                           /\ Len(PageInsert(pg, r)) = Len(pg) + 1
                           /\ DOMAIN PageInsert(pg, r) = 1 .. Len(pg) + 1
                           /\ PageInsert(pg, r)[Len(pg) + 1] = r
                           /\ \A s \in DOMAIN pg : PageInsert(pg, r)[s] = pg[s]
<1>1. pg \in Seq(Slot)
  BY DEF Page
<1>2. /\ Len(Append(pg, r)) = Len(pg) + 1 /\ Len(pg) \in Nat
      /\ DOMAIN pg = 1 .. Len(pg) /\ DOMAIN Append(pg, r) = 1 .. Len(pg) + 1
      /\ \A i \in DOMAIN pg : Append(pg, r)[i] = pg[i]
      /\ Append(pg, r)[Len(pg) + 1] = r
  BY <1>1, AppendElements
<1>3. DOMAIN pg \subseteq DOMAIN Append(pg, r)
  BY <1>2
<1>4. CASE HasRoom(pg)
  <2>1. PageInsert(pg, r) = Append(pg, r)
    BY <1>4 DEF PageInsert
  <2> QED
    BY <1>2, <1>3, <2>1 DEF Grows
<1>5. CASE ~HasRoom(pg)
  BY <1>5 DEF Grows, PageInsert
<1> QED
  BY <1>4, <1>5

LEMMA DeleteGrows ==
  ASSUME NEW pg \in Page, NEW s
  PROVE  /\ Grows(pg, PageDelete(pg, s)) /\ DOMAIN PageDelete(pg, s) = DOMAIN pg
         /\ Len(PageDelete(pg, s)) = Len(pg)
         /\ s \in DOMAIN pg => PageDelete(pg, s)[s] = Deleted
         /\ \A k \in DOMAIN pg : k # s => PageDelete(pg, s)[k] = pg[k]
<1>1. pg \in Seq(Slot) /\ Deleted \in Slot
  BY DEF Page, Slot
<1>2. CASE s \in DOMAIN pg
  <2>1. PageDelete(pg, s) = [pg EXCEPT ![s] = Deleted]
    BY <1>2 DEF PageDelete
  <2>2. Len([pg EXCEPT ![s] = Deleted]) = Len(pg)
    BY <1>1, ExceptElements
  <2> QED
    BY <1>2, <2>1, <2>2 DEF Grows
<1>3. CASE s \notin DOMAIN pg
  BY <1>3 DEF Grows, PageDelete
<1> QED
  BY <1>2, <1>3

LEMMA GrowsOn ==
  ASSUME NEW a, NEW b, NEW c, Grows(a, b), Grows(b, c)
  PROVE  Grows(a, c)
BY DEF Grows

LEMMA ApplyGrows ==
  ASSUME NEW pgs \in Contents, NEW step \in Steps, NEW p \in PageIds
  PROVE  Grows(pgs[p], Apply(pgs, step)[p])
<1> DEFINE e == step.rec
<1>1. e \in Record /\ e.type \in DataOps /\ e.new \in Slot /\ e.old \in Slot
  BY DEF Steps, Record, Slot, NoRow, Deleted
<1>2. ASSUME NEW pg \in Page PROVE Grows(pg, Redo(pg, e)) /\ Grows(pg, Undo(pg, e))
  <2>1. PageDelete(pg, e.slot) \in Page /\ Grows(pg, PageDelete(pg, e.slot))
    BY PageDeleteType, DeleteGrows
  <2>2. \A r \in Slot, q \in Page : Grows(q, PageInsert(q, r))
    BY InsertGrows
  <2>3. Grows(pg, pg)
    BY DEF Grows
  <2> HIDE DEF e
  <2>4. \A r \in Slot : Grows(pg, PageInsert(PageDelete(pg, e.slot), r))
    BY <2>1, <2>2, GrowsOn
  <2> QED
    BY <1>1, <2>1, <2>2, <2>3, <2>4 DEF Redo, Undo, DataOps
<1>3. pgs[p] \in Page
  BY PageShape
<1>4. Apply(pgs, step)[p] \in {pgs[p], Redo(pgs[p], e), Undo(pgs[p], e)}
  BY DEF Apply, Contents
<1>5. Grows(pgs[p], pgs[p])
  BY DEF Grows
<1> HIDE DEF e
<1> QED
  BY <1>2, <1>3, <1>4, <1>5

(* After k steps of the redo: between the file and memory, with all that   *)
(* the records repeated so far say.                                        *)
Redone(l, at, k, d, m, q, p) ==
  /\ Len(d) <= Len(q) /\ Len(q) <= Len(m)
  /\ \A s \in DOMAIN q : m[s] \in {q[s], Deleted}
  /\ \A s \in DOMAIN d : d[s] = Deleted => q[s] = Deleted
  /\ \A n \in 1 .. k, s \in DOMAIN m :
       /\ At(l, "INSERT", at[n], p, s) => s \in DOMAIN q
       /\ At(l, "DELETE", at[n], p, s) => s \in DOMAIN q /\ q[s] = Deleted

(* The records before the k-th of the data records have been repeated.     *)
LEMMA RepeatedBefore ==
  ASSUME NEW l, NEW at, NEW steps, Repeats(steps, at, l, DataIn(l)),
         NEW k \in 1 .. Len(steps), NEW j \in DataIn(l), j < at[k], l \in Seq(Record)
  PROVE  \E n \in 1 .. k - 1 : at[n] = j
<1>1. PICK n \in 1 .. Len(steps) : at[n] = j
  BY DEF Repeats
<1>2. at[k] \in Nat /\ j \in Nat /\ Len(steps) \in Nat
  <2>1. DataIn(l) \subseteq Nat
    BY DEF DataIn
  <2> QED
    BY <2>1 DEF Repeats
<1>3. ~(n = k)
  BY <1>1, <1>2
<1>4. ~(k < n)
  <2> SUFFICES ASSUME k < n PROVE FALSE
    OBVIOUS
  <2>1. at[k] < at[n]
    BY DEF Repeats
  <2> QED
    BY <1>1, <1>2, <2>1
<1>5. n \in 1 .. k - 1
  BY <1>2, <1>3, <1>4
<1> QED
  BY <1>1, <1>5

LEMMA EarlierRepeated ==
  ASSUME NEW l \in Seq(Record), NEW at, NEW steps, Repeats(steps, at, l, DataIn(l)),
         NEW k \in 1 .. Len(steps), NEW p, NEW s, Earlier(l, at[k], p, s)
  PROVE  \E n \in 1 .. k - 1 : At(l, "INSERT", at[n], p, s)
<1>1. PICK j \in DOMAIN l : j < at[k] /\ At(l, "INSERT", j, p, s)
  BY DEF Earlier
<1>2. j \in DataIn(l)
  BY <1>1 DEF At, DataIn, DataOps
<1> QED
  BY <1>1, <1>2, RepeatedBefore

LEMMA RedoneOn ==
  ASSUME NEW l \in Seq(Record), NEW at, NEW steps, Repeats(steps, at, l, DataIn(l)),
         NEW k \in 1 .. Len(steps), NEW p \in PageIds,
         NEW d \in Page, NEW m \in Page, NEW q \in Page,
         Redone(l, at, k - 1, d, m, q, p),
         Behind(l, d, m, NoOp, p),
         l[at[k]].page = p, Shows(l[at[k]], m, NoOp), l[at[k]].type # "UPDATE"
  PROVE  Redone(l, at, k, d, m, Redo(q, l[at[k]]), p)
<1> DEFINE e == l[at[k]]
           s == e.slot
           z == Redo(q, e)
<1>0. /\ at[k] \in DOMAIN l /\ e \in Record /\ e.type \in {"INSERT", "DELETE"} /\ e.new \in Slot
      /\ Len(steps) \in Nat
  <2>1. at[k] \in DataIn(l)
    BY DEF Repeats
  <2>2. e.type \in DataOps /\ at[k] \in DOMAIN l
    BY <2>1 DEF DataIn
  <2>3. e \in Record
    BY <2>2
  <2> QED
    BY <2>2, <2>3 DEF DataOps, Record, Slot, NoRow, Deleted, Repeats
<1>1. /\ DOMAIN d = 1 .. Len(d) /\ DOMAIN m = 1 .. Len(m) /\ DOMAIN q = 1 .. Len(q)
      /\ Len(d) \in Nat /\ Len(m) \in Nat /\ Len(q) \in Nat /\ Len(m) <= Slots /\ Slots \in Nat
  BY ConstantTypes DEF Page
<1>2. \A u : ~Unlogged(NoOp, p, u) /\ ~Unapplied(NoOp, p, u)
  BY DEF Unlogged, Unapplied, NoOp
<1>3. \A n \in 1 .. k : n = k \/ n \in 1 .. k - 1
  BY <1>0
<1>4. /\ Len(d) <= Len(q) /\ Len(q) <= Len(m)
      /\ \A u \in DOMAIN q : m[u] \in {q[u], Deleted}
      /\ \A u \in DOMAIN d : d[u] = Deleted => q[u] = Deleted
      /\ \A n \in 1 .. k - 1, u \in DOMAIN m :
           /\ At(l, "INSERT", at[n], p, u) => u \in DOMAIN q
           /\ At(l, "DELETE", at[n], p, u) => u \in DOMAIN q /\ q[u] = Deleted
  BY DEF Redone
<1>5. \A u : Earlier(l, at[k], p, u) /\ u \in DOMAIN m => u \in DOMAIN q
  BY <1>4, EarlierRepeated
<1>6. s \in DOMAIN m /\ At(l, e.type, at[k], p, s)
  BY <1>0 DEF Shows, At
<1>7. CASE e.type = "INSERT"
  <2>1. e.new # NoRow /\ m[s] \in {e.new, Deleted}
    BY <1>7 DEF Shows
  <2>2. CASE s \in DOMAIN q
    <3>1. z = q
      BY <1>1, <1>7, <2>2 DEF Redo, RedoMissing
    <3>2. \A u : At(l, "INSERT", at[k], p, u) => u = s
      BY DEF At
    <3>3. \A u : ~At(l, "DELETE", at[k], p, u)
      BY <1>7 DEF At
    <3> HIDE DEF z, e, s
    <3> QED
      BY <1>3, <1>4, <2>2, <3>1, <3>2, <3>3 DEF Redone, e, z
  <2>3. CASE s \notin DOMAIN q
    <3>1. s = Len(q) + 1
      <4>0. s > Len(d) + 1 => Earlier(l, at[k], p, s - 1)
        BY <1>0, <1>6, <1>7 DEF Behind
      <4> HIDE DEF s, e, z
      <4>1. s \in 1 .. Len(m) /\ s > Len(q)
        BY <1>1, <1>6, <2>3
      <4>2. CASE s > Len(d) + 1
        <5>1. Earlier(l, at[k], p, s - 1)
          BY <4>0, <4>2
        <5>2. s - 1 \in DOMAIN m
          BY <1>1, <4>1, <4>2
        <5>3. s - 1 \in DOMAIN q
          BY <1>5, <5>1, <5>2
        <5> QED
          BY <1>1, <4>1, <5>3
      <4>3. CASE ~(s > Len(d) + 1)
        BY <1>1, <1>4, <4>1, <4>3
      <4> QED
        BY <4>2, <4>3
    <3>2. HasRoom(q) /\ Len(q) + 1 <= Len(m)
      BY <1>1, <1>6, <3>1 DEF HasRoom
    <3>3. z = PageInsert(q, e.new)
      BY <1>7, <3>1 DEF Redo, RedoMissing
    <3>4. /\ Len(z) = Len(q) + 1 /\ DOMAIN z = 1 .. Len(q) + 1 /\ z[s] = e.new
          /\ \A u \in DOMAIN q : z[u] = q[u]
      BY <1>0, <3>1, <3>2, <3>3, InsertGrows
    <3>5. \A u : At(l, "INSERT", at[k], p, u) => u = s
      BY DEF At
    <3>6. \A u : ~At(l, "DELETE", at[k], p, u)
      BY <1>7 DEF At
    <3> HIDE DEF z, e
    <3>7. \A u \in DOMAIN z : u \in DOMAIN q \/ u = s
      BY <1>1, <3>1, <3>4
    <3>8. DOMAIN q \subseteq DOMAIN z /\ s \in DOMAIN z /\ DOMAIN d \subseteq DOMAIN q
      BY <1>1, <1>4, <3>1, <3>4
    <3>9. Len(d) <= Len(z) /\ Len(z) <= Len(m)
      BY <1>1, <1>4, <3>2, <3>4
    <3> HIDE DEF s
    <3>10. \A u \in DOMAIN z : m[u] \in {z[u], Deleted}
      BY <1>4, <2>1, <3>4, <3>7
    <3>11. \A u \in DOMAIN d : d[u] = Deleted => z[u] = Deleted
      BY <1>4, <3>4, <3>8
    <3>12. \A n \in 1 .. k, u \in DOMAIN m :
             /\ At(l, "INSERT", at[n], p, u) => u \in DOMAIN z
             /\ At(l, "DELETE", at[n], p, u) => u \in DOMAIN z /\ z[u] = Deleted
      BY <1>3, <1>4, <3>4, <3>5, <3>6, <3>8
    <3> QED
      BY <3>9, <3>10, <3>11, <3>12 DEF Redone, z, e
  <2> QED
    BY <2>2, <2>3
<1>8. CASE e.type = "DELETE"
  <2>1. m[s] = Deleted
    BY <1>2, <1>8 DEF Shows
  <2>2. s \in DOMAIN q
    <3>1. CASE s > Len(d)
      <4>1. Earlier(l, at[k], p, s)
        BY <1>0, <1>6, <1>8, <3>1 DEF Behind
      <4> QED
        BY <1>5, <1>6, <4>1
    <3>2. CASE ~(s > Len(d))
      BY <1>1, <1>4, <1>6, <3>2
    <3> QED
      BY <3>1, <3>2
  <2>3. z = PageDelete(q, s)
    BY <1>8 DEF Redo
  <2>4. /\ DOMAIN z = DOMAIN q /\ Len(z) = Len(q) /\ z[s] = Deleted
        /\ \A u \in DOMAIN q : u # s => z[u] = q[u]
    BY <2>2, <2>3, DeleteGrows
  <2>5. \A u : At(l, "DELETE", at[k], p, u) => u = s
    BY DEF At
  <2>6. \A u : ~At(l, "INSERT", at[k], p, u)
    BY <1>8 DEF At
  <2>7. DOMAIN d \subseteq DOMAIN q
    BY <1>1, <1>4
  <2> HIDE DEF z, e, s
  <2>8. \A u \in DOMAIN z : m[u] \in {z[u], Deleted}
    BY <1>4, <2>1, <2>4
  <2>9. \A u \in DOMAIN d : d[u] = Deleted => z[u] = Deleted
    BY <1>4, <2>4, <2>7
  <2>10. \A n \in 1 .. k, u \in DOMAIN m :
             /\ At(l, "INSERT", at[n], p, u) => u \in DOMAIN z
             /\ At(l, "DELETE", at[n], p, u) => u \in DOMAIN z /\ z[u] = Deleted
    BY <1>3, <1>4, <2>2, <2>4, <2>5, <2>6
  <2> QED
    BY <1>4, <2>4, <2>8, <2>9, <2>10 DEF Redone, z, e
<1> QED
  BY <1>0, <1>7, <1>8

(* Repeating the log on the file gives the pages in memory.                *)
LEMMA RedoRebuilds ==
  ASSUME NEW l \in Seq(Record), NEW D \in Contents, NEW M \in Contents,
         \A i \in DOMAIN l : l[i].type # "UPDATE",
         \A i \in DataIn(l) : l[i].page \in PageIds,
         Agrees(l, M, NoOp),
         \A p \in PageIds : Behind(l, D[p], M[p], NoOp, p)
  PROVE  ApplyAll[<<D, Redoing[l]>>] = M
<1> DEFINE steps == Redoing[l]
<1>1. PICK at : Repeats(steps, at, l, DataIn(l))
  BY RedoingRepeats
<1> HIDE DEF steps
<1>2. steps \in Seq(Steps) /\ Len(steps) \in Nat
  BY <1>1 DEF Repeats
<1>3. PICK f : Replays(f, D, steps) /\ ApplyAll[<<D, steps>>] = f[Len(steps)]
  BY <1>2, ApplyAllReplays
<1> DEFINE N == Len(steps)
           Good == {k \in 0 .. N : \A p \in PageIds : Redone(l, at, k, D[p], M[p], f[k][p], p)}
<1>4. f \in [0 .. N -> Contents] /\ f[0] = D /\ \A n \in 1 .. N : f[n] = Apply(f[n - 1], steps[n])
  BY <1>3 DEF Replays
<1>5. 0 \in Good
  <2> SUFFICES ASSUME NEW p \in PageIds PROVE Redone(l, at, 0, D[p], M[p], D[p], p)
    BY <1>2, <1>4
  <2>1. Len(D[p]) <= Len(M[p]) /\ \A s \in DOMAIN D[p] : M[p][s] \in {D[p][s], Deleted}
    BY DEF Behind
  <2>2. Len(D[p]) \in Nat
    BY PageShape
  <2>3. \A n \in 1 .. 0 : FALSE
    OBVIOUS
  <2> QED
    BY <2>1, <2>2, <2>3 DEF Redone
<1>6. ASSUME NEW k \in 1 .. N, k - 1 \in Good PROVE k \in Good
  <2> DEFINE e == l[at[k]]
  <2>1. k - 1 \in 0 .. N /\ k \in 0 .. N /\ at[k] \in DataIn(l) /\ steps[k] = Step("redo", e)
    BY <1>1, <1>2 DEF Repeats
  <2>2. e.page \in PageIds /\ e.type # "UPDATE" /\ Shows(e, M[e.page], NoOp)
    BY <2>1 DEF DataIn, Agrees
  <2>3. f[k - 1] \in Contents /\ f[k] \in Contents
    BY <1>4, <2>1
  <2>4. f[k] = [f[k - 1] EXCEPT ![e.page] = Redo(@, e)]
    <3>1. f[k] = Apply(f[k - 1], Step("redo", e))
      BY <1>4, <2>1
    <3> QED
      BY <3>1 DEF Apply, Step
  <2>5. ASSUME NEW p \in PageIds PROVE Redone(l, at, k, D[p], M[p], f[k][p], p)
    <3>1. D[p] \in Page /\ M[p] \in Page /\ f[k - 1][p] \in Page
      BY <2>3, PageShape
    <3>2. Redone(l, at, k - 1, D[p], M[p], f[k - 1][p], p)
      BY <1>6
    <3>3. CASE p = e.page
      <4>1. f[k][p] = Redo(f[k - 1][p], e)
        BY <2>3, <2>4, <3>3 DEF Contents
      <4>2. Redone(l, at, k, D[p], M[p], Redo(f[k - 1][p], e), p)
        BY <1>1, <2>2, <3>1, <3>2, <3>3, RedoneOn
      <4> QED
        BY <4>1, <4>2
    <3>4. CASE p # e.page
      <4>1. f[k][p] = f[k - 1][p]
        BY <2>3, <2>4, <3>4 DEF Contents
      <4>2. \A type, s : ~At(l, type, at[k], p, s)
        BY <3>4 DEF At
      <4>3. \A n \in 1 .. k : n = k \/ n \in 1 .. k - 1
        BY <1>2
      <4> HIDE DEF e
      <4> QED
        BY <3>2, <4>1, <4>2, <4>3 DEF Redone
    <3> QED
      BY <3>3, <3>4
  <2> QED
    BY <2>1, <2>5
<1>7. \A p \in PageIds : Redone(l, at, N, D[p], M[p], f[N][p], p)
  <2>1. \A k \in 0 .. N : k \in Good
    <3> HIDE DEF Good, N
    <3>1. N \in Nat
      BY <1>2 DEF N
    <3> QED
      BY <3>1, <1>5, <1>6, Induction
  <2>2. N \in 0 .. N
    BY <1>2
  <2> QED
    BY <2>1, <2>2
<1>8. f[N] \in Contents
  BY <1>2, <1>4
<1>9. ASSUME NEW p \in PageIds PROVE f[N][p] = M[p]
  <2> DEFINE q == f[N][p]
             m == M[p]
             d == D[p]
  <2>1. /\ q \in Seq(Slot) /\ DOMAIN q = 1 .. Len(q) /\ Len(q) \in Nat
        /\ m \in Seq(Slot) /\ DOMAIN m = 1 .. Len(m) /\ Len(m) \in Nat
        /\ DOMAIN d = 1 .. Len(d) /\ Len(d) \in Nat
    BY <1>8, PageShape
  <2>2. Redone(l, at, N, d, m, q, p) /\ Behind(l, d, m, NoOp, p)
    BY <1>7
  <2>3. ASSUME NEW type \in {"INSERT", "DELETE"}, NEW s, Logged(l, type, p, s)
        PROVE  \E n \in 1 .. N : At(l, type, at[n], p, s)
    <3>1. PICK i \in DOMAIN l : At(l, type, i, p, s)
      BY <2>3 DEF Logged
    <3>2. i \in DataIn(l)
      BY <3>1 DEF At, DataIn, DataOps
    <3>3. PICK n \in 1 .. N : at[n] = i
      BY <1>1, <3>2 DEF Repeats
    <3> QED
      BY <3>1, <3>3
  <2>4. \A s : ~Unlogged(NoOp, p, s)
    BY DEF Unlogged, NoOp
  <2> HIDE DEF q, m, d, N
  <2>5. \A s \in DOMAIN m : s > Len(d) => s \in DOMAIN q
    BY <2>2, <2>3, <2>4 DEF Behind, Redone
  <2>6. Len(q) = Len(m)
    <3>1. Len(d) <= Len(q) /\ Len(q) <= Len(m)
      BY <2>2 DEF Redone
    <3>2. ASSUME Len(q) < Len(m) PROVE FALSE
      <4>1. Len(m) \in DOMAIN m /\ Len(m) > Len(d) /\ Len(m) \notin DOMAIN q
        BY <2>1, <3>1, <3>2
      <4> QED
        BY <2>5, <4>1
    <3>3. Len(q) \in Nat /\ Len(m) \in Nat
      BY <2>1
    <3> QED
      BY <3>1, <3>2, <3>3
  <2>7. ASSUME NEW s \in DOMAIN m PROVE q[s] = m[s]
    <3>1. s \in DOMAIN q
      BY <2>1, <2>6
    <3>2. m[s] \in {q[s], Deleted}
      BY <2>2, <3>1 DEF Redone
    <3>3. ASSUME m[s] = Deleted PROVE q[s] = Deleted
      <4>1. CASE s \in DOMAIN d /\ d[s] = Deleted
        BY <2>2, <4>1 DEF Redone
      <4>2. CASE Logged(l, "DELETE", p, s)
        <5>1. PICK n \in 1 .. N : At(l, "DELETE", at[n], p, s)
          BY <2>3, <4>2
        <5> QED
          BY <2>2, <5>1 DEF Redone
      <4> QED
        BY <2>2, <3>3, <4>1, <4>2 DEF Behind
    <3> QED
      BY <3>2, <3>3
  <2>8. q = m
    BY <2>1, <2>6, <2>7
  <2> QED
    BY <2>8 DEF q, m
<1>10. f[N] = M
  BY <1>8, <1>9 DEF Contents
<1> QED
  BY <1>3, <1>10 DEF steps

LEMMA PageIndexes ==
  ASSUME NEW a \in Page
  PROVE  /\ DOMAIN a = 1 .. Len(a) /\ Len(a) \in Nat
         /\ \A s \in DOMAIN a : s \in Nat /\ s <= Len(a) /\ ~(s > Len(a)) /\ ~(s > Len(a) + 1)
<1>1. DOMAIN a = 1 .. Len(a) /\ Len(a) \in Nat
  BY DEF Page
<1> QED
  BY <1>1

LEMMA ShorterPage ==
  ASSUME NEW a \in Page, NEW b \in Page, Len(a) <= Len(b)
  PROVE  DOMAIN a \subseteq DOMAIN b
BY PageIndexes

(* How an operation changes what HeapInv says of a page                    *)
LEMMA ShowsKept ==
  ASSUME NEW e, NEW pg, NEW qg, NEW op, NEW oq, Shows(e, pg, op), Grows(pg, qg),
         Unapplied(op, e.page, e.slot) =>
           Unapplied(oq, e.page, e.slot) \/ (e.slot \in DOMAIN pg => qg[e.slot] = Deleted)
  PROVE  Shows(e, qg, oq)
BY DEF Shows, Grows

LEMMA AgreesKept ==
  ASSUME NEW l \in Seq(Record), NEW pgs, NEW qgs, NEW op, NEW oq, Agrees(l, pgs, op),
         \A i \in DOMAIN l : l[i].type # "UPDATE",
         \A i \in DataIn(l) : l[i].page \in PageIds,
         \A p \in PageIds : Grows(pgs[p], qgs[p]),
         \A p \in PageIds : \A s \in DOMAIN pgs[p] :
           Unapplied(op, p, s) => Unapplied(oq, p, s) \/ qgs[p][s] = Deleted
  PROVE  Agrees(l, qgs, oq)
<1> SUFFICES ASSUME NEW i \in DOMAIN l PROVE Shows(l[i], qgs[l[i].page], oq)
  BY DEF Agrees
<1>1. Shows(l[i], pgs[l[i].page], op)
  BY DEF Agrees
<1>2. CASE i \in DataIn(l)
  BY <1>1, <1>2, ShowsKept
<1>3. CASE i \notin DataIn(l)
  BY <1>3 DEF DataIn, DataOps, Shows
<1> QED
  BY <1>2, <1>3

(* A row is appended to a page, or the page is written to the file, or     *)
(* both.                                                                   *)
(* the page m was given one more row, that is not in the log yet           *)
Lengthened(m, n, op, p) ==
  /\ Len(n) = Len(m) + 1 /\ \A s \in DOMAIN m : n[s] = m[s]
  /\ n[Len(m) + 1] # Deleted /\ Unlogged(op, p, Len(m) + 1)

LEMMA BehindPlaced ==
  ASSUME NEW l \in Seq(Record), NEW d \in Page, NEW m \in Page, NEW p, NEW op, NEW oq,
         NEW e \in Page, NEW n \in Page,
         Behind(l, d, m, op, p),
         \A i \in DOMAIN l : l[i].page = p => Shows(l[i], m, op),
         e \in {d, m},
         n = m \/ Lengthened(m, n, oq, p),
         \A s \in DOMAIN m : ~Unlogged(op, p, s)
  PROVE  Behind(l, e, n, oq, p)
<1>1. /\ DOMAIN d = 1 .. Len(d) /\ DOMAIN m = 1 .. Len(m) /\ DOMAIN n = 1 .. Len(n)
      /\ Len(d) \in Nat /\ Len(m) \in Nat /\ Len(n) \in Nat
  BY DEF Page
<1>2. /\ Len(d) <= Len(m) /\ Len(m) <= Len(n) /\ DOMAIN m \subseteq DOMAIN n /\ DOMAIN d \subseteq DOMAIN m
      /\ \A s \in DOMAIN m : n[s] = m[s]
      /\ \A s \in DOMAIN n : s \in DOMAIN m \/ (s = Len(m) + 1 /\ n[s] # Deleted /\ Unlogged(oq, p, s))
  <2>0. Len(d) <= Len(m)
    BY DEF Behind
  <2>1. Len(d) <= Len(m) /\ DOMAIN d \subseteq DOMAIN m
    BY <2>0, ShorterPage
  <2>2. CASE n = m
    BY <1>1, <2>1, <2>2
  <2>3. CASE Lengthened(m, n, oq, p)
    <3> USE <2>3 DEF Lengthened
    <3>1. \A s \in DOMAIN n : s \in DOMAIN m \/ s = Len(m) + 1
      BY <1>1, <2>3
    <3>2. Len(m) <= Len(n) /\ DOMAIN m \subseteq DOMAIN n
      BY <1>1, <2>3
    <3> QED
      BY <2>1, <2>3, <3>1, <3>2
  <2> QED
    BY <2>2, <2>3
<1>a. \A s \in DOMAIN m : ~(s > Len(m)) /\ ~(s > Len(m) + 1)
  BY PageIndexes
<1>3. \A i \in DOMAIN l : \A s : At(l, "INSERT", i, p, s) \/ At(l, "DELETE", i, p, s) => s \in DOMAIN m
  BY DEF At, Shows
<1>4. CASE e = d
  <2>1. \A s \in DOMAIN d : n[s] \in {d[s], Deleted}
    BY <1>2 DEF Behind
  <2>2. \A s \in DOMAIN n : s > Len(d) => Unlogged(oq, p, s) \/ Logged(l, "INSERT", p, s)
    BY <1>2 DEF Behind
  <2>3. \A s \in DOMAIN n : n[s] = Deleted => (s \in DOMAIN d /\ d[s] = Deleted) \/ Logged(l, "DELETE", p, s)
    BY <1>2 DEF Behind
  <2>4. \A i \in DOMAIN l, s \in DOMAIN n :
       /\ At(l, "INSERT", i, p, s) /\ s > Len(d) + 1 => Earlier(l, i, p, s - 1)
       /\ At(l, "DELETE", i, p, s) /\ s > Len(d) => Earlier(l, i, p, s)
    BY <1>3 DEF Behind
  <2>5. Len(d) <= Len(n)
    <3>1. Len(d) \in Nat /\ Len(m) \in Nat /\ Len(n) \in Nat /\ Len(d) <= Len(m) /\ Len(m) <= Len(n)
      BY <1>1, <1>2
    <3> QED
      BY <3>1
  <2> QED
    BY <1>4, <2>1, <2>2, <2>3, <2>4, <2>5 DEF Behind
<1>5. CASE e = m
  <2>1. \A s \in DOMAIN m : n[s] \in {m[s], Deleted}
    BY <1>2
  <2>2. \A s \in DOMAIN n : s > Len(m) => Unlogged(oq, p, s)
    BY <1>2, <1>a
  <2>3. \A s \in DOMAIN n : n[s] = Deleted => s \in DOMAIN m /\ m[s] = Deleted
    BY <1>2
  <2>4. \A i \in DOMAIN l, s \in DOMAIN n :
       /\ At(l, "INSERT", i, p, s) /\ s > Len(m) + 1 => Earlier(l, i, p, s - 1)
       /\ At(l, "DELETE", i, p, s) /\ s > Len(m) => Earlier(l, i, p, s)
    BY <1>3, <1>a
  <2>5. Len(m) <= Len(n)
    BY <1>2
  <2> QED
    BY <1>5, <2>1, <2>2, <2>3, <2>4, <2>5 DEF Behind
<1> QED
  BY <1>4, <1>5

(* A row is deleted after its record.                                      *)
LEMMA BehindDeleted ==
  ASSUME NEW l, NEW d \in Page, NEW m \in Page, NEW p, NEW op, NEW oq, NEW s,
         Behind(l, d, m, op, p), \A u \in DOMAIN m : ~Unlogged(op, p, u), Logged(l, "DELETE", p, s)
  PROVE  Behind(l, d, PageDelete(m, s), oq, p)
<1> DEFINE n == PageDelete(m, s)
<1>1. DOMAIN n = DOMAIN m /\ Len(n) = Len(m) /\ \A u \in DOMAIN m : u # s => n[u] = m[u]
  BY DeleteGrows
<1>2. \A u \in DOMAIN m : n[u] \in {m[u], Deleted}
  BY DeleteGrows DEF Grows
<1>3. DOMAIN d \subseteq DOMAIN m
  BY DEF Behind, Page
<1> HIDE DEF n
<1>4. \A u \in DOMAIN n : n[u] = Deleted => m[u] = Deleted \/ u = s
  BY <1>1
<1> QED
  BY <1>1, <1>2, <1>3, <1>4 DEF Behind, n

(* A record is written.                                                    *)
Extends(l, e, k, n) ==
  /\ \A i \in DOMAIN l : i \in DOMAIN k /\ k[i] = l[i] /\ i < n
  /\ \A i \in DOMAIN k : i \in DOMAIN l \/ i = n
  /\ n \in DOMAIN k /\ k[n] = e

LEMMA BehindLogged ==
  ASSUME NEW l, NEW e, NEW k, NEW n, Extends(l, e, k, n),
         NEW d \in Page, NEW m \in Page, NEW p, NEW op, NEW oq,
         Behind(l, d, m, op, p), e.type # "UPDATE",
         \A s \in DOMAIN m : Unlogged(op, p, s) => e.type = "INSERT" /\ e.page = p /\ e.slot = s,
         e.type = "INSERT" /\ e.page = p => Unlogged(op, p, e.slot),
         e.type = "DELETE" /\ e.page = p => \A s \in DOMAIN m : ~Unlogged(op, p, s)
  PROVE  Behind(k, d, m, oq, p)
<1>1. \A type, s : Logged(l, type, p, s) => Logged(k, type, p, s)
  BY DEF Logged, At, Extends
<1>2. \A i, s : Earlier(l, i, p, s) => Earlier(k, i, p, s)
  BY DEF Earlier, At, Extends
<1>3. \A s : Logged(l, "INSERT", p, s) => Earlier(k, n, p, s)
  BY DEF Logged, Earlier, At, Extends
<1>4. \A i \in DOMAIN l : \A type, s : At(k, type, i, p, s) => At(l, type, i, p, s)
  BY DEF At, Extends
<1>5. \A s \in DOMAIN m : Unlogged(op, p, s) => Logged(k, "INSERT", p, s)
  <2> SUFFICES ASSUME NEW s \in DOMAIN m, Unlogged(op, p, s) PROVE Logged(k, "INSERT", p, s)
    OBVIOUS
  <2>1. At(k, "INSERT", n, p, s)
    BY DEF At, Extends
  <2> QED
    BY <2>1 DEF Logged, Extends
<1>6. DOMAIN m = 1 .. Len(m) /\ Len(m) \in Nat /\ Len(d) \in Nat
  BY DEF Page
<1>7. ASSUME NEW s \in DOMAIN m, At(k, "INSERT", n, p, s), s > Len(d) + 1
      PROVE  Earlier(k, n, p, s - 1)
  <2>1. Unlogged(op, p, s)
    BY <1>7 DEF At, Extends
  <2>2. s - 1 \in DOMAIN m /\ s - 1 > Len(d) /\ s - 1 # s
    BY <1>6, <1>7
  <2>3. ~Unlogged(op, p, s - 1)
    BY <2>1, <2>2 DEF Unlogged
  <2> QED
    BY <1>3, <2>2, <2>3 DEF Behind
<1>8. ASSUME NEW s \in DOMAIN m, At(k, "DELETE", n, p, s), s > Len(d)
      PROVE  Earlier(k, n, p, s)
  <2>1. ~Unlogged(op, p, s)
    BY <1>8 DEF At, Extends
  <2> QED
    BY <1>3, <1>8, <2>1 DEF Behind
<1>9. \A i \in DOMAIN k, s \in DOMAIN m :
       /\ At(k, "INSERT", i, p, s) /\ s > Len(d) + 1 => Earlier(k, i, p, s - 1)
       /\ At(k, "DELETE", i, p, s) /\ s > Len(d) => Earlier(k, i, p, s)
  <2> SUFFICES ASSUME NEW i \in DOMAIN k, NEW s \in DOMAIN m
               PROVE  /\ At(k, "INSERT", i, p, s) /\ s > Len(d) + 1 => Earlier(k, i, p, s - 1)
                      /\ At(k, "DELETE", i, p, s) /\ s > Len(d) => Earlier(k, i, p, s)
    OBVIOUS
  <2>1. CASE i \in DOMAIN l
    BY <1>2, <1>4, <2>1 DEF Behind
  <2>2. CASE i = n
    BY <1>7, <1>8, <2>2
  <2> QED
    BY <2>1, <2>2 DEF Extends
<1> QED
  BY <1>1, <1>5, <1>9 DEF Behind

LEMMA AgreesLogged ==
  ASSUME NEW l, NEW e, NEW k, NEW n, Extends(l, e, k, n), NEW pgs, NEW op, NEW oq,
         Agrees(l, pgs, op), Shows(e, pgs[e.page], oq),
         \A p, s : Unapplied(op, p, s) => Unapplied(oq, p, s)
  PROVE  Agrees(k, pgs, oq)
<1> SUFFICES ASSUME NEW i \in DOMAIN k PROVE Shows(k[i], pgs[k[i].page], oq)
  BY DEF Agrees
<1>1. CASE i \in DOMAIN l
  BY <1>1 DEF Agrees, Shows, Extends
<1>2. CASE i = n
  BY <1>2 DEF Extends
<1> QED
  BY <1>1, <1>2 DEF Extends

(* Memory and file the same: nothing is behind.                            *)
LEMMA NothingBehind ==
  ASSUME NEW l, NEW m \in Page, NEW p, NEW op,
         \A i \in DOMAIN l : l[i].page = p => Shows(l[i], m, op)
  PROVE  Behind(l, m, m, op, p)
<1>1. DOMAIN m = 1 .. Len(m) /\ Len(m) \in Nat
  BY DEF Page
<1>2. \A s \in DOMAIN m : ~(s > Len(m)) /\ ~(s > Len(m) + 1)
  BY <1>1
<1>3. \A i \in DOMAIN l : \A s : At(l, "INSERT", i, p, s) \/ At(l, "DELETE", i, p, s) => s \in DOMAIN m
  BY DEF At, Shows
<1> QED
  BY <1>1, <1>2, <1>3 DEF Behind

LEMMA DataPages ==
  ASSUME BaseInv
  PROVE  /\ \A i \in DataIn(log) : log[i].page \in PageIds
         /\ \A i \in DOMAIN log : log[i].type \in {"INSERT", "DELETE"} => i \in DataIn(log)
         /\ log \in Seq(Record) /\ mem \in Contents /\ disk \in Contents
         /\ \A p \in 1 .. pages : p \in PageIds
<1>1. log \in Seq(Record) /\ mem \in Contents /\ disk \in Contents /\ pages \in PageIds
  BY DEF BaseInv, TypeInv
<1>2. \A p \in 1 .. pages : p \in PageIds
  BY <1>1, ConstantTypes DEF PageIds
<1>3. \A i \in DataIn(log) : log[i].page \in PageIds
  BY <1>2 DEF BaseInv, SpaceInv
<1>4. \A i \in DOMAIN log : log[i].type \in {"INSERT", "DELETE"} => i \in DataIn(log)
  BY DEF DataIn, DataOps
<1> QED
  BY <1>1, <1>2, <1>3, <1>4

(* Pages are written to the file, memory stays.                            *)
LEMMA HeapWritten ==
  ASSUME BaseInv, HeapInv, phase = "up", UNCHANGED <<mem, log, phase>>,
         disk' \in Contents, \A q \in PageIds : disk'[q] \in {disk[q], mem[q]},
         ~busy.placed, ~busy'.placed, busy'.op # "UPDATE",
         busy' = busy \/ (busy.op # "DELETE" /\ busy'.op # "DELETE")
  PROVE  HeapInv'
<1>1. Agrees(log, mem, busy) /\ \A p \in PageIds : Behind(log, disk[p], mem[p], busy, p)
  BY DEF HeapInv
<1>2. \A p, s : ~Unlogged(busy, p, s)
  BY DEF Unlogged
<1>3. \A p, s : Unapplied(busy, p, s) => Unapplied(busy', p, s)
  BY DEF Unapplied
<1>4. Agrees(log, mem, busy')
  BY <1>1, <1>3 DEF Agrees, Shows
<1>5. ASSUME NEW p \in PageIds PROVE Behind(log, disk'[p], mem[p], busy', p)
  <2>1. /\ log \in Seq(Record) /\ disk[p] \in Page /\ mem[p] \in Page /\ disk'[p] \in Page
        /\ disk'[p] \in {disk[p], mem[p]}
    BY DataPages, PageShape
  <2>2. \A i \in DOMAIN log : log[i].page = p => Shows(log[i], mem[p], busy)
    BY <1>1 DEF Agrees
  <2>3. Behind(log, disk[p], mem[p], busy, p)
    BY <1>1
  <2> DEFINE d == disk[p]
             m == mem[p]
             e == disk'[p]
  <2> HIDE DEF d, m, e
  <2> SUFFICES Behind(log, e, m, busy', p)
    BY DEF m, e
  <2> QED
    BY <2>1, <2>2, <2>3, <1>2, BehindPlaced DEF d, m, e
<1>6. phase' = "up" /\ "up" \notin Undoings
  BY DEF Undoings
<1>7. busy'.op = "DELETE" => busy' = busy
  OBVIOUS
<1> QED
  BY <1>4, <1>5, <1>6, <1>7 DEF HeapInv

(* A row is placed; at the same time pages may be written to the file.     *)
LEMMA HeapPlaced ==
  ASSUME BaseInv, HeapInv, phase = "up", UNCHANGED <<log, phase>>,
         disk' \in Contents, \A q \in PageIds : disk'[q] \in {disk[q], mem[q]},
         ~busy.placed, busy.op # "DELETE",
         NEW op \in Op, op.op = "INSERT", op.row # NoRow,
         NEW p \in PageIds, Placed(op, p), HasRoom(mem[p])
  PROVE  HeapInv'
<1>1. Agrees(log, mem, busy) /\ \A q \in PageIds : Behind(log, disk[q], mem[q], busy, q)
  BY DEF HeapInv
<1>2. \A q, s : ~Unlogged(busy, q, s)
  BY DEF Unlogged
<1>3. \A q, s : ~Unapplied(busy, q, s)
  BY DEF Unapplied
<1>4. mem[p] \in Page /\ op.row \in Slot /\ Len(mem[p]) \in Nat /\ mem \in Contents
  BY DataPages, PageShape DEF Op
<1>5. mem'[p] = PageInsert(mem[p], op.row)
  BY <1>4 DEF Placed, Contents
<1>6. /\ Grows(mem[p], mem'[p]) /\ Len(mem'[p]) = Len(mem[p]) + 1
      /\ DOMAIN mem'[p] = 1 .. Len(mem[p]) + 1 /\ mem'[p][Len(mem[p]) + 1] = op.row
      /\ \A s \in DOMAIN mem[p] : mem'[p][s] = mem[p][s]
  BY <1>4, <1>5, InsertGrows
<1>7. /\ busy'.op = "INSERT" /\ busy'.placed /\ busy'.page = p /\ busy'.slot = Len(mem[p]) + 1
      /\ busy'.row = op.row
  BY DEF Placed
<1>8. \A q \in PageIds : Grows(mem[q], mem'[q])
  BY <1>6 DEF Placed, Grows
<1>9. Agrees(log, mem', busy')
  <2>1. log \in Seq(Record) /\ \A i \in DataIn(log) : log[i].page \in PageIds
    BY DataPages
  <2>2. \A i \in DOMAIN log : log[i].type # "UPDATE"
    BY DEF HeapInv
  <2> DEFINE z == mem'
             o == busy'
  <2> HIDE DEF z, o
  <2>3. Agrees(log, z, o)
    BY <1>1, <1>3, <1>8, <2>1, <2>2, AgreesKept DEF z
  <2> QED
    BY <2>3 DEF z, o
<1>10. ASSUME NEW q \in PageIds PROVE Behind(log, disk'[q], mem'[q], busy', q)
  <2> DEFINE d == disk[q]
             m == mem[q]
             e == disk'[q]
             n == mem'[q]
             o == busy'
  <2>1. /\ log \in Seq(Record) /\ d \in Page /\ m \in Page /\ e \in Page /\ e \in {d, m} /\ n \in Page
    BY DataPages, PageShape DEF Placed
  <2>2. \A i \in DOMAIN log : log[i].page = q => Shows(log[i], m, busy)
    BY <1>1 DEF Agrees
  <2>3. Behind(log, d, m, busy, q)
    BY <1>1
  <2>4. n = m \/ Lengthened(m, n, o, q)
    <3>1. CASE q = p
      BY <1>6, <1>7, <3>1 DEF Lengthened, Unlogged, NoRow, Deleted
    <3>2. CASE q # p
      BY <3>2 DEF Placed
    <3> QED
      BY <3>1, <3>2
  <2> HIDE DEF d, m, e, n, o
  <2>6. \A s \in DOMAIN m : ~Unlogged(busy, q, s)
    BY <1>2
  <2>5. Behind(log, e, n, o, q)
    BY <2>1, <2>2, <2>3, <2>4, <2>6, BehindPlaced
  <2> QED
    BY <2>5 DEF e, n, o
<1>11. phase' = "up" /\ "up" \notin Undoings
  BY DEF Undoings
<1>12. Len(mem[p]) + 1 \in DOMAIN mem'[p]
  BY <1>4, <1>6
<1> QED
  BY <1>6, <1>7, <1>9, <1>10, <1>11, <1>12 DEF HeapInv

LEMMA HeapInsertStep ==
  ASSUME BaseInv, HeapInv, NEW big \in Oversize, Insert(big)
  PROVE  HeapInv'
<1> DEFINE op == [NoOp EXCEPT !.op = "INSERT", !.row = issued + 1, !.big = big]
<1>0. /\ UNCHANGED <<disk, chain, log, phase>>
      /\ phase = "up" /\ busy = NoOp /\ HeapInsert(op) /\ issued < MaxRows
  BY DEF Insert, Ready, workVars
<1>1. issued \in Nat /\ issued + 1 \in Rows /\ disk \in Contents
  <2>1. issued \in 0 .. MaxRows /\ disk \in Contents
    BY DEF BaseInv, TypeInv
  <2>2. issued < MaxRows
    BY <1>0
  <2> QED
    BY <2>1, <2>2, ConstantTypes DEF Rows
<1>2. op \in Op /\ op.op = "INSERT" /\ op.row = issued + 1 /\ ~op.placed /\ op.row # NoRow
  <2>1. big \in BOOLEAN /\ issued + 1 \in Slot /\ issued + 1 # NoRow
        /\ "INSERT" \in DataOps \cup {"none"}
    BY <1>1, ConstantTypes DEF Slot, NoRow, Deleted, DataOps
  <2>2. NoOp \in Op /\ ~NoOp.placed
    BY ConstantTypes
  <2> QED
    BY <2>1, <2>2 DEF Op
<1>3. PICK o : o = op
  OBVIOUS
<1>4. HeapInsert(o) /\ o \in Op /\ o.op = "INSERT" /\ o.row # NoRow /\ ~o.placed
  BY <1>0, <1>2, <1>3
<1> HIDE DEF op
<1>5. disk' \in Contents /\ (\A q \in PageIds : disk'[q] \in {disk[q], mem[q]})
      /\ ~busy.placed /\ busy.op # "DELETE"
  BY <1>0, <1>1, ConstantTypes
<1>6. CASE /\ Placed(o, FirstFit) /\ FirstFit \in 1 .. pages /\ HasRoom(mem[FirstFit])
  <2>1. FirstFit \in PageIds
    BY <1>6, DataPages
  <2> QED
    BY <1>0, <1>4, <1>5, <1>6, <2>1, HeapPlaced
<1>7. CASE mem' = mem /\ busy' = [o EXCEPT !.fresh = pages + 1]
  <2>1. busy'.op = "INSERT" /\ ~busy'.placed
    BY <1>4, <1>7 DEF Op
  <2> QED
    BY <1>0, <1>5, <1>7, <2>1, HeapWritten
<1>8. CASE mem' = mem /\ busy' = NoOp
  BY <1>0, <1>5, <1>8, ConstantTypes, HeapWritten
<1> QED
  BY <1>4, <1>6, <1>7, <1>8, HeapInsertCases DEF BaseInv

LEMMA HeapLink ==
  ASSUME BaseInv, HeapInv, Link
  PROVE  HeapInv'
<1>1. UNCHANGED <<log, phase>> /\ phase = "up" /\ ~busy.placed /\ busy.op = "INSERT"
      /\ pages \in PageIds /\ disk' \in Contents /\ busy.row # NoRow /\ busy \in Op
  BY LinkPlaces DEF Link, workVars, HeapInv, BaseInv, StageInv, TypeInv
<1>2. \A q \in PageIds : disk'[q] \in {disk[q], mem[q]}
  BY LinkPlaces DEF BaseInv, TypeInv, Contents
<1>3. CASE busy.big
  BY <1>1, <1>2, <1>3, LinkPlaces, HeapWritten, ConstantTypes
<1>4. CASE ~busy.big
  BY <1>1, <1>2, <1>4, LinkPlaces, HeapPlaced
<1> QED
  BY <1>3, <1>4

LEMMA HeapWriteBack ==
  ASSUME BaseInv, HeapInv, NEW p \in PageIds, WriteBack(p)
  PROVE  HeapInv'
<1>1. UNCHANGED <<mem, log, phase, busy>> /\ phase = "up" /\ ~busy.placed
      /\ disk' = [disk EXCEPT ![p] = mem[p]]
  BY DEF WriteBack, workVars
<1>2. disk' \in Contents /\ \A q \in PageIds : disk'[q] \in {disk[q], mem[q]}
  BY <1>1 DEF BaseInv, TypeInv, Contents
<1> QED
  BY <1>1, <1>2, HeapWritten DEF HeapInv

LEMMA AppendExtends ==
  ASSUME TypeInv, NEW e \in Record, wal_write(e)
  PROVE  \E n : n = Len(log) + 1 /\ Extends(log, e, log', n)
BY AppendRecord DEF Extends

LEMMA HeapDelete ==
  ASSUME BaseInv, HeapInv, NEW p \in PageIds, NEW s \in 1 .. Slots, Delete(p, s)
  PROVE  HeapInv'
<1>0. UNCHANGED <<mem, disk, phase>> /\ phase = "up" /\ busy = NoOp
  BY DEF Delete, Ready, pageVars, workVars
<1>1. PICK e \in Record :
           /\ e = [type |-> "DELETE", tx |-> tx_id, page |-> p, slot |-> s, new |-> NoRow, old |-> mem[p][s]]
           /\ wal_write(e) /\ s \in DOMAIN mem[p]
           /\ busy' \in Op /\ busy'.op = "DELETE" /\ busy'.page = p /\ busy'.slot = s
           /\ busy'.fresh = 0 /\ ~busy'.placed
  BY DeleteRecord
<1>2. PICK n : Extends(log, e, log', n)
  BY <1>1, AppendExtends DEF BaseInv
<1>3. e.type = "DELETE" /\ e.page = p /\ e.slot = s
  BY <1>1
<1>4. \A q, u : ~Unlogged(busy, q, u) /\ ~Unapplied(busy, q, u)
  BY <1>0, ConstantTypes DEF Unlogged, Unapplied
<1>5. Agrees(log, mem, busy) /\ \A q \in PageIds : Behind(log, disk[q], mem[q], busy, q)
  BY <1>0 DEF HeapInv
<1>6. Agrees(log', mem, busy')
  <2>1. Shows(e, mem[e.page], busy')
    BY <1>1, <1>3 DEF Shows, Unapplied
  <2> DEFINE k == log'
             o == busy'
  <2>2. Extends(log, e, k, n) /\ Shows(e, mem[e.page], o)
    BY <1>2, <2>1
  <2> HIDE DEF k, o
  <2>3. Agrees(k, mem, o)
    BY <1>4, <1>5, <2>2, AgreesLogged
  <2> QED
    BY <2>3 DEF k, o
<1>7. ASSUME NEW q \in PageIds PROVE Behind(log', disk[q], mem[q], busy', q)
  <2> DEFINE k == log'
             o == busy'
             d == disk[q]
             m == mem[q]
  <2>1. Extends(log, e, k, n) /\ d \in Page /\ m \in Page /\ Behind(log, d, m, busy, q)
    BY <1>2, <1>5, DataPages, PageShape
  <2> HIDE DEF k, o, d, m
  <2>2. Behind(k, d, m, o, q)
    BY <1>3, <1>4, <2>1, BehindLogged
  <2> QED
    BY <2>2 DEF k, o, d, m
<1>8. Logged(log', "DELETE", p, s)
  BY <1>2, <1>3 DEF Logged, At, Extends
<1>9. \A i \in DOMAIN log' : log'[i].type # "UPDATE"
  BY <1>2, <1>3 DEF HeapInv, Extends
<1>10. phase' = "up" /\ "up" \notin Undoings
  BY <1>0 DEF Undoings
<1> QED
  BY <1>0, <1>1, <1>6, <1>7, <1>8, <1>9, <1>10 DEF HeapInv

LEMMA HeapDeleteSlot ==
  ASSUME BaseInv, HeapInv, DeleteSlot
  PROVE  HeapInv'
<1>0. /\ UNCHANGED <<disk, log, phase>> /\ busy.op = "DELETE" /\ busy' = NoOp
      /\ mem' = [mem EXCEPT ![busy.page] = PageDelete(@, busy.slot)]
  BY DEF DeleteSlot, workVars
<1>1. phase = "up" /\ busy.page \in PageIds /\ busy.slot \in DOMAIN mem[busy.page]
      /\ Logged(log, "DELETE", busy.page, busy.slot)
  BY <1>0, ConstantTypes, DataPages DEF HeapInv, BaseInv, StageInv
<1>2. \A q, u : ~Unlogged(busy, q, u)
  BY <1>0 DEF Unlogged
<1>3. Agrees(log, mem, busy) /\ \A q \in PageIds : Behind(log, disk[q], mem[q], busy, q)
  BY <1>1 DEF HeapInv
<1>4. /\ \A q \in PageIds : q # busy.page => mem'[q] = mem[q]
      /\ mem'[busy.page] = PageDelete(mem[busy.page], busy.slot)
  BY <1>0, <1>1, DataPages DEF Contents
<1>5. /\ Grows(mem[busy.page], mem'[busy.page])
      /\ mem'[busy.page][busy.slot] = Deleted
  BY <1>1, <1>4, DataPages, PageShape, DeleteGrows
<1>6. \A q \in PageIds : Grows(mem[q], mem'[q])
  BY <1>4, <1>5 DEF Grows
<1>7. Agrees(log, mem', NoOp)
  <2>1. \A q \in PageIds : \A u \in DOMAIN mem[q] : Unapplied(busy, q, u) => mem'[q][u] = Deleted
    BY <1>5 DEF Unapplied
  <2>2. log \in Seq(Record) /\ (\A i \in DataIn(log) : log[i].page \in PageIds)
        /\ \A i \in DOMAIN log : log[i].type # "UPDATE"
    BY DataPages DEF HeapInv
  <2> DEFINE z == mem'
  <2> HIDE DEF z
  <2>3. Agrees(log, z, NoOp)
    BY <1>3, <1>6, <2>1, <2>2, AgreesKept DEF z
  <2> QED
    BY <2>3 DEF z
<1>8. ASSUME NEW q \in PageIds PROVE Behind(log, disk[q], mem'[q], NoOp, q)
  <2> DEFINE d == disk[q]
             m == mem[q]
             n == mem'[q]
             s == busy.slot
  <2>1. /\ log \in Seq(Record) /\ d \in Page /\ m \in Page /\ Behind(log, d, m, busy, q)
        /\ \A u \in DOMAIN m : ~Unlogged(busy, q, u)
    BY <1>2, <1>3, DataPages, PageShape
  <2>2. CASE q = busy.page
    <3>1. n = PageDelete(m, s) /\ Logged(log, "DELETE", q, s)
      BY <1>1, <1>4, <2>2
    <3> HIDE DEF d, m, n, s
    <3>2. Behind(log, d, n, NoOp, q)
      BY <2>1, <3>1, BehindDeleted
    <3> QED
      BY <3>2 DEF d, n
  <2>3. CASE q # busy.page
    <3>1. n = m
      BY <1>4, <2>3
    <3>2. \A i \in DOMAIN log : log[i].page = q => Shows(log[i], m, busy)
      BY <1>3 DEF Agrees
    <3> HIDE DEF d, m, n, s
    <3>3. Behind(log, d, n, NoOp, q)
      BY <2>1, <3>1, <3>2, BehindPlaced
    <3> QED
      BY <3>3 DEF d, n
  <2> QED
    BY <2>2, <2>3
<1>9. phase' = "up" /\ "up" \notin Undoings
  BY <1>0, <1>1 DEF Undoings
<1> QED
  BY <1>0, <1>7, <1>8, <1>9, ConstantTypes DEF HeapInv

LEMMA HeapLog ==
  ASSUME BaseInv, HeapInv, Log
  PROVE  HeapInv'
<1>0. UNCHANGED <<mem, disk, phase>> /\ busy' = NoOp /\ busy.placed
  BY DEF Log, pageVars, workVars
<1>1. PICK e \in Record :
           /\ e = [type |-> busy.op, tx |-> tx_id, page |-> busy.page,
                   slot |-> busy.slot, new |-> busy.row, old |-> busy.old]
           /\ wal_write(e) /\ busy.page \in 1 .. pages /\ busy.op \in {"INSERT", "UPDATE"}
           /\ busy.row # NoRow
  BY LogRecord
<1>2. PICK n : Extends(log, e, log', n)
  BY <1>1, AppendExtends DEF BaseInv
<1>3. e.type = "INSERT" /\ e.page = busy.page /\ e.slot = busy.slot /\ e.new = busy.row /\ busy.op = "INSERT"
  BY <1>1 DEF HeapInv
<1>4. phase = "up"
  BY <1>0, ConstantTypes DEF BaseInv, StageInv
<1>5. Agrees(log, mem, busy) /\ \A q \in PageIds : Behind(log, disk[q], mem[q], busy, q)
  BY <1>4 DEF HeapInv
<1>6. \A q, u : ~Unapplied(busy, q, u) /\ ~Unapplied(NoOp, q, u)
  BY <1>3, ConstantTypes DEF Unapplied
<1>7. Agrees(log', mem, NoOp)
  <2>1. busy.slot \in DOMAIN mem[busy.page] /\ mem[busy.page][busy.slot] = busy.row
    BY <1>0, <1>3 DEF HeapInv
  <2>2. Shows(e, mem[e.page], NoOp)
    BY <1>1, <1>3, <2>1 DEF Shows
  <2> DEFINE k == log'
  <2>3. Extends(log, e, k, n)
    BY <1>2
  <2> HIDE DEF k
  <2>4. Agrees(k, mem, NoOp)
    BY <1>5, <1>6, <2>2, <2>3, AgreesLogged
  <2> QED
    BY <2>4 DEF k
<1>8. ASSUME NEW q \in PageIds PROVE Behind(log', disk[q], mem[q], NoOp, q)
  <2> DEFINE k == log'
             d == disk[q]
             m == mem[q]
  <2>1. Extends(log, e, k, n) /\ d \in Page /\ m \in Page /\ Behind(log, d, m, busy, q)
    BY <1>2, <1>5, DataPages, PageShape
  <2>2. \A s : Unlogged(busy, q, s) => e.type = "INSERT" /\ e.page = q /\ e.slot = s
    BY <1>3 DEF Unlogged
  <2>3. e.page = q => Unlogged(busy, q, e.slot)
    BY <1>0, <1>3 DEF Unlogged
  <2> HIDE DEF k, d, m
  <2>4. Behind(k, d, m, NoOp, q)
    BY <1>3, <2>1, <2>2, <2>3, BehindLogged
  <2> QED
    BY <2>4 DEF k, d, m
<1>9. \A i \in DOMAIN log' : log'[i].type # "UPDATE"
  BY <1>2, <1>3 DEF HeapInv, Extends
<1>10. phase' = "up" /\ "up" \notin Undoings
  BY <1>0, <1>4 DEF Undoings
<1> QED
  BY <1>0, <1>7, <1>8, <1>9, <1>10, ConstantTypes DEF HeapInv

(* A control record says nothing of pages.                                 *)
LEMMA HeapControl ==
  ASSUME BaseInv, HeapInv, NEW e \in Record, wal_write(e), e.type \notin DataOps,
         UNCHANGED <<mem, busy>>, phase = "up", busy = NoOp,
         \/ UNCHANGED <<disk, phase>>
         \/ disk' = mem /\ phase' \in Undoings
  PROVE  HeapInv'
<1>1. PICK n : Extends(log, e, log', n)
  BY AppendExtends DEF BaseInv
<1>2. e.type \notin {"INSERT", "UPDATE", "DELETE"}
  BY DEF DataOps
<1>3. Agrees(log, mem, busy) /\ \A q \in PageIds : Behind(log, disk[q], mem[q], busy, q)
  BY DEF HeapInv
<1>4. Agrees(log', mem, busy)
  <2> DEFINE k == log'
  <2>1. Extends(log, e, k, n) /\ Shows(e, mem[e.page], busy)
    BY <1>1, <1>2 DEF Shows
  <2> HIDE DEF k
  <2>2. Agrees(k, mem, busy)
    BY <1>3, <2>1, AgreesLogged
  <2> QED
    BY <2>2 DEF k
<1>5. ASSUME NEW q \in PageIds PROVE Behind(log', disk[q], mem[q], busy, q)
  <2> DEFINE k == log'
             d == disk[q]
             m == mem[q]
  <2>1. Extends(log, e, k, n) /\ d \in Page /\ m \in Page /\ Behind(log, d, m, busy, q)
    BY <1>1, <1>3, DataPages, PageShape
  <2>2. \A s : ~Unlogged(busy, q, s)
    BY ConstantTypes DEF Unlogged
  <2> HIDE DEF k, d, m
  <2>3. Behind(k, d, m, busy, q)
    BY <1>2, <2>1, <2>2, BehindLogged
  <2> QED
    BY <2>3 DEF k, d, m
<1>6. \A i \in DOMAIN log' : log'[i].type # "UPDATE"
  BY <1>1, <1>2 DEF HeapInv, Extends
<1>7. "up" \notin Undoings
  BY DEF Undoings
<1>8. busy'.op = "none" /\ busy' = busy
  BY ConstantTypes
<1>9. CASE UNCHANGED <<disk, phase>>
  BY <1>4, <1>5, <1>6, <1>7, <1>8, <1>9 DEF HeapInv
<1>10. CASE disk' = mem /\ phase' \in Undoings
  BY <1>4, <1>6, <1>7, <1>8, <1>10 DEF HeapInv
<1> QED
  BY <1>9, <1>10

(* After a rollback memory is what is in the file, and a log cut short     *)
(* says no more than the whole.                                            *)
LEMMA HeapReread ==
  ASSUME BaseInv, HeapInv, phase \in Undoings, phase' = "up", mem' = disk, UNCHANGED <<disk, busy>>,
         DOMAIN log' \subseteq DOMAIN log, \A i \in DOMAIN log' : log'[i] = log[i]
  PROVE  HeapInv'
<1>1. busy = NoOp /\ Agrees(log, disk, busy)
  BY DEF BaseInv, StageInv, HeapInv, Undoings
<1>2. Agrees(log', disk, busy)
  BY <1>1 DEF Agrees, Shows
<1>3. ASSUME NEW q \in PageIds PROVE Behind(log', disk[q], disk[q], busy, q)
  <2> DEFINE k == log'
             m == disk[q]
  <2>1. m \in Page /\ \A i \in DOMAIN k : k[i].page = q => Shows(k[i], m, busy)
    BY <1>2, DataPages, PageShape DEF Agrees
  <2> HIDE DEF k, m
  <2>2. Behind(k, m, m, busy, q)
    BY <2>1, NothingBehind
  <2> QED
    BY <2>2 DEF k, m
<1>4. \A i \in DOMAIN log' : log'[i].type # "UPDATE"
  BY DEF HeapInv
<1>5. busy'.op = "none" /\ busy' = busy /\ "up" \notin Undoings
  BY <1>1, ConstantTypes DEF Undoings
<1> QED
  BY <1>2, <1>3, <1>4, <1>5 DEF HeapInv

(* Replaying keeps what the records say.                                   *)
LEMMA HeapApplyStep ==
  ASSUME BaseInv, HeapInv, ApplyStep
  PROVE  HeapInv'
<1>0. UNCHANGED <<mem, log, busy, phase>> /\ work # <<>> /\ disk' = Apply(disk, Head(work))
  BY DEF ApplyStep
<1>1. phase # "up" /\ busy = NoOp /\ work \in Seq(Steps) /\ disk \in Contents
  BY <1>0 DEF BaseInv, StageInv, TypeInv
<1>2. Head(work) \in Steps
  BY <1>0, <1>1, TailElements
<1>3. \A p \in PageIds : Grows(disk[p], disk'[p])
  BY <1>0, <1>1, <1>2, ApplyGrows
<1>4. phase \in Undoings => Agrees(log, disk', busy)
  <2> SUFFICES ASSUME phase \in Undoings PROVE Agrees(log, disk', busy)
    OBVIOUS
  <2>1. Agrees(log, disk, busy) /\ (\A i \in DOMAIN log : log[i].type # "UPDATE")
        /\ log \in Seq(Record) /\ \A i \in DataIn(log) : log[i].page \in PageIds
    BY DataPages DEF HeapInv
  <2> DEFINE z == disk'
  <2> HIDE DEF z
  <2>2. Agrees(log, z, busy)
    BY <1>3, <2>1, AgreesKept DEF z
  <2> QED
    BY <2>2 DEF z
<1>5. busy'.op = "none"
  BY <1>0, <1>1, ConstantTypes
<1> QED
  BY <1>0, <1>1, <1>4, <1>5 DEF HeapInv

LEMMA HeapShutdown ==
  ASSUME BaseInv, HeapInv, Shutdown
  PROVE  HeapInv'
<1>1. mem' = disk' /\ log' = <<>> /\ phase' = "up" /\ busy' = NoOp /\ mem' \in Contents
  BY BaseShutdown
<1>2. DOMAIN log' = {}
  BY <1>1
<1>3. Agrees(log', mem', busy')
  BY <1>2 DEF Agrees
<1>4. ASSUME NEW q \in PageIds PROVE Behind(log', disk'[q], mem'[q], busy', q)
  <2> DEFINE k == log'
             m == mem'[q]
  <2>1. m \in Page /\ DOMAIN k = {} /\ disk'[q] = m
    BY <1>1, <1>2, PageShape
  <2> HIDE DEF k, m
  <2>2. Behind(k, m, m, NoOp, q)
    BY <2>1, NothingBehind
  <2> QED
    BY <1>1, <2>1, <2>2 DEF k, m
<1>5. "up" \notin Undoings
  BY DEF Undoings
<1> QED
  BY <1>1, <1>2, <1>3, <1>4, <1>5, ConstantTypes DEF HeapInv

LEMMA HeapRecoverEnd ==
  ASSUME BaseInv, HeapInv, RecoverEnd
  PROVE  HeapInv'
<1>1. mem' = disk /\ disk' = disk /\ log' = <<>> /\ phase' = "up" /\ busy' = busy /\ phase = "recover"
  BY DEF RecoverEnd
<1>2. DOMAIN log' = {} /\ busy' = NoOp
  BY <1>1 DEF BaseInv, StageInv
<1>3. Agrees(log', mem', busy')
  BY <1>2 DEF Agrees
<1>4. ASSUME NEW q \in PageIds PROVE Behind(log', disk'[q], mem'[q], busy', q)
  <2> DEFINE k == log'
             m == disk[q]
  <2>1. m \in Page /\ DOMAIN k = {} /\ disk'[q] = m /\ mem'[q] = m
    BY <1>1, <1>2, PageShape, DataPages
  <2> HIDE DEF k, m
  <2>2. Behind(k, m, m, NoOp, q)
    BY <2>1, NothingBehind
  <2> QED
    BY <1>2, <2>1, <2>2 DEF k
<1>5. "up" \notin Undoings
  BY DEF Undoings
<1> QED
  BY <1>1, <1>2, <1>3, <1>4, <1>5, ConstantTypes DEF HeapInv

LEMMA HeapStep ==
  ASSUME BaseInv, HeapInv, [Next]_vars, "UPDATE" \notin AutoStatements \cup TxStatements
  PROVE  HeapInv'
<1>1. CASE UNCHANGED vars
  BY <1>1 DEF vars, HeapInv
<1>2. ASSUME NEW p \in PageIds, NEW s \in 1 .. Slots, NEW big \in Oversize, Update(p, s, big) PROVE HeapInv'
  BY <1>2 DEF Update, Uses
<1>3. ASSUME PlaceUpdated PROVE HeapInv'
  BY <1>3 DEF PlaceUpdated, HeapInv
<1>4. ASSUME Begin PROVE HeapInv'
  <2>1. UNCHANGED <<mem, disk, busy, phase>> /\ phase = "up" /\ busy = NoOp
    BY <1>4 DEF Begin, pageVars, workVars, Ready
  <2>2. PICK e \in Record : wal_write(e) /\ e.type = "BEGIN"
    BY <1>4, BeginRecord
  <2> QED
    BY <2>1, <2>2, HeapControl DEF DataOps
<1>5. ASSUME Commit PROVE HeapInv'
  <2>1. UNCHANGED <<mem, disk, busy, phase>> /\ phase = "up" /\ busy = NoOp /\ wal_write(Control("COMMIT", tx_id))
    BY <1>5 DEF Commit, pageVars, workVars, Ready
  <2>2. PICK e \in Record : wal_write(e) /\ e.type = "COMMIT"
    BY <2>1, EndRecord
  <2> QED
    BY <2>1, <2>2, HeapControl DEF DataOps
<1>6. ASSUME NEW name \in Names, Savepoint(name) PROVE HeapInv'
  <2>1. UNCHANGED <<mem, disk, busy, phase>> /\ phase = "up" /\ busy = NoOp /\ wal_write(Control("SAVEPOINT", tx_id))
    BY <1>6 DEF Savepoint, pageVars, workVars, Ready
  <2>2. PICK e \in Record : wal_write(e) /\ e.type = "SAVEPOINT"
    BY <2>1, EndRecord
  <2> QED
    BY <2>1, <2>2, HeapControl DEF DataOps
<1>7. ASSUME NEW next \in {"rollback", "closing"}, RollbackBegin(next) PROVE HeapInv'
  <2>1. UNCHANGED <<mem, busy>> /\ phase = "up" /\ busy = NoOp /\ disk' = mem /\ phase' \in Undoings
        /\ wal_write(Control("ABORT", tx_id))
    BY <1>7 DEF RollbackBegin, Ready, Undoings
  <2>2. PICK e \in Record : wal_write(e) /\ e.type = "ABORT"
    BY <2>1, EndRecord
  <2> QED
    BY <2>1, <2>2, HeapControl DEF DataOps
<1>8. ASSUME NEW name \in Names, RollbackToBegin(name) PROVE HeapInv'
  <2>1. UNCHANGED <<mem, log, busy>> /\ phase = "up" /\ busy = NoOp /\ disk' = mem /\ phase' = "rollback_to"
    BY <1>8 DEF RollbackToBegin, Ready
  <2> QED
    BY <2>1, ConstantTypes DEF HeapInv
<1>9. ASSUME RollbackEnd PROVE HeapInv'
  <2>1. phase \in Undoings /\ phase' = "up" /\ mem' = disk /\ UNCHANGED <<disk, busy, log>>
    BY <1>9 DEF RollbackEnd, Reread, Undoings
  <2> QED
    BY <2>1, HeapReread
<1>10. ASSUME RollbackToEnd PROVE HeapInv'
  <2>1. phase \in Undoings /\ phase' = "up" /\ mem' = disk /\ UNCHANGED <<disk, busy>>
    BY <1>10 DEF RollbackToEnd, Reread, Undoings
  <2>2. DOMAIN log' \subseteq DOMAIN log /\ \A i \in DOMAIN log' : log'[i] = log[i]
    BY <1>10, RollbackToCuts
  <2> QED
    BY <2>1, <2>2, HeapReread
<1>11. ASSUME Crash PROVE HeapInv'
  <2>1. busy' = NoOp /\ phase' = "recover" /\ log' = log
    BY <1>11 DEF Crash
  <2> QED
    BY <2>1, ConstantTypes DEF HeapInv, Undoings
<1> QED
  BY <1>1, <1>2, <1>3, <1>4, <1>5, <1>6, <1>7, <1>8, <1>9, <1>10, <1>11, HeapInsertStep, HeapDelete,
     HeapDeleteSlot, HeapLink, HeapLog, HeapWriteBack, HeapApplyStep, HeapShutdown, HeapRecoverEnd
     DEF Next

LEMMA InitHeap == Init => HeapInv
<1> SUFFICES ASSUME Init PROVE HeapInv
  OBVIOUS
<1>1. mem = disk /\ DOMAIN log = {} /\ log = <<>> /\ phase = "up" /\ busy = NoOp /\ mem \in Contents
  BY InitBase DEF Init, BaseInv, TypeInv
<1>2. Agrees(log, mem, busy)
  BY <1>1 DEF Agrees
<1>3. ASSUME NEW q \in PageIds PROVE Behind(log, disk[q], mem[q], busy, q)
  BY <1>1, NothingBehind, PageShape
<1>4. "up" \notin Undoings
  BY DEF Undoings
<1> QED
  BY <1>1, <1>2, <1>3, <1>4, ConstantTypes DEF HeapInv

(* A crash while no statement runs and no transaction is open loses no row *)
(* and brings none back: wal_recovery rebuilds the pages. It must be able  *)
(* to read the whole log, and no statement may have been an UPDATE, whose  *)
(* record names one of the two slots it changes.                           *)
THEOREM RestartKeepsRowsSafe ==
  /\ "UPDATE" \notin AutoStatements \cup TxStatements
  /\ MaxLog <= MaxEntries
  => (Spec => []RestartKeepsRows)
<1> SUFFICES ASSUME "UPDATE" \notin AutoStatements \cup TxStatements, MaxLog <= MaxEntries
             PROVE  Spec => []RestartKeepsRows
  OBVIOUS
<1>1. Init => BaseInv /\ HeapInv
  BY InitBase, InitHeap
<1>2. BaseInv /\ HeapInv /\ [Next]_vars => (BaseInv /\ HeapInv)'
  BY BaseStep, HeapStep
<1>3. BaseInv /\ HeapInv => RestartKeepsRows
  <2> SUFFICES ASSUME BaseInv, HeapInv, Ready, Unfinished(log) = {}
               PROVE  RowsOf(Replayed) = RowsOf(mem)
    BY DEF RestartKeepsRows
  <2>1. phase = "up" /\ busy = NoOp /\ log \in Seq(Record) /\ Len(log) <= MaxLog
    BY DEF Ready, BaseInv, TypeInv
  <2>2. First(log, MaxEntries) = log
    <3>1. Len(log) <= MaxEntries
      <4>1. Len(log) \in Nat /\ MaxLog \in Nat /\ MaxEntries \in Nat
        BY <2>1, ConstantTypes
      <4> QED
        BY <2>1, <4>1
    <3> QED
      BY <3>1 DEF First
  <2>3. Undoing[<<log, {}>>] = <<>>
    <3> DEFINE u == Undoing[<<log, {}>>]
    <3>1. Undoes(u, log, {} \cap DataIn(log))
      BY <2>1, UndoingUndoes
    <3> HIDE DEF u
    <3>2. u \in Seq(Steps) /\ \A n \in 1 .. Len(u) : FALSE
      BY <3>1 DEF Undoes
    <3>3. Len(u) = 0
      <4>1. Len(u) \in Nat
        BY <3>2
      <4>2. Len(u) # 0 => 1 \in 1 .. Len(u)
        BY <4>1
      <4> QED
        BY <3>2, <4>2
    <3>4. u = <<>>
      BY <3>2, <3>3
    <3> QED
      BY <3>4 DEF u
  <2>4. RecoveryWork(log) = Redoing[log] \o <<>>
    <3>1. {i \in DOMAIN log : log[i].tx \in Unfinished(log)} = {}
      OBVIOUS
    <3> QED
      BY <2>2, <2>3, <3>1 DEF RecoveryWork
  <2>5. RecoveryWork(log) = Redoing[log]
    <3>1. About(Redoing[log], log)
      BY <2>1, RedoingAbout
    <3>2. Redoing[log] \in Seq(Steps)
      BY <3>1 DEF About
    <3> DEFINE r == Redoing[log]
    <3> HIDE DEF r
    <3>3. r \o <<>> = r
      BY <3>2 DEF r
    <3> QED
      BY <2>4, <3>3 DEF r
  <2>6. ApplyAll[<<disk, Redoing[log]>>] = mem
    <3>1. /\ log \in Seq(Record) /\ disk \in Contents /\ mem \in Contents
          /\ \A i \in DOMAIN log : log[i].type # "UPDATE"
          /\ \A i \in DataIn(log) : log[i].page \in PageIds
          /\ Agrees(log, mem, NoOp)
          /\ \A p \in PageIds : Behind(log, disk[p], mem[p], NoOp, p)
      BY <2>1, DataPages DEF HeapInv
    <3> QED
      BY <3>1, RedoRebuilds
  <2> QED
    BY <2>1, <2>5, <2>6 DEF Replayed
<1> QED
  BY <1>1, <1>2, <1>3, PTL DEF Spec

-----------------------------------------------------------------------------
(* What ROLLBACK gives back: the rows of the transaction are told apart    *)
(* from those it found.                                                    *)

(* The pages of the table, and what is in them                             *)
LEMMA TablePages ==
  ASSUME TypeInv
  PROVE  /\ ChainPages \in SUBSET PageIds
         /\ \A pgs, r : r \in RowsOf(pgs) <=>
              r # Deleted /\ \E p \in ChainPages : \E s \in DOMAIN pgs[p] : pgs[p][s] = r
<1>1. chain \in Seq(1 .. pages) /\ pages \in PageIds
  BY DEF TypeInv
<1>2. \A p \in 1 .. pages : p \in PageIds
  BY <1>1, ConstantTypes DEF PageIds
<1>3. \A i \in DOMAIN chain : chain[i] \in 1 .. pages
  BY <1>1, SequenceElements
<1>4. ASSUME NEW pgs, NEW r
      PROVE  r \in RowsOf(pgs) <=>
               r # Deleted /\ \E p \in ChainPages : \E s \in DOMAIN pgs[p] : pgs[p][s] = r
  <2>1. r \in RowsOf(pgs) <=> r # Deleted /\ \E i \in DOMAIN chain : r \in ToSet(pgs[chain[i]])
    BY DEF RowsOf, RowsIn
  <2>2. \A p : r \in ToSet(pgs[p]) <=> \E s \in DOMAIN pgs[p] : pgs[p][s] = r
    BY DEF ToSet
  <2>3. (\E i \in DOMAIN chain : r \in ToSet(pgs[chain[i]])) <=> \E p \in ChainPages : r \in ToSet(pgs[p])
    BY DEF ChainPages
  <2> QED
    BY <2>1, <2>2, <2>3
<1> QED
  BY <1>2, <1>3, <1>4 DEF ChainPages

(* A new row goes to a slot that nothing was in.                           *)
(* the row operation o has put its row at the end of page p                *)
Puts(pgs, pgs2, o, p, r) ==
  /\ HasRoom(pgs[p]) /\ pgs2[p] = PageInsert(pgs[p], r)
  /\ \A q \in PageIds : q # p => pgs2[q] = pgs[q]
  /\ o.op = "INSERT" /\ o.placed /\ o.page = p /\ o.slot = Len(pgs[p]) + 1

LEMMA TellsApartPlaced ==
  ASSUME NEW l, NEW t, NEW op, NEW o, NEW pgs \in Contents, NEW pgs2 \in Contents,
         NEW ps \in SUBSET PageIds, NEW was, NEW p \in PageIds, NEW r,
         TellsApart(l, t, op, pgs, ps, was), p \in ps \/ pgs[p] = <<>>,
         ~op.placed, Puts(pgs, pgs2, o, p, r)
  PROVE  TellsApart(l, t, o, pgs2, ps \cup {p}, was)
<1> USE DEF Puts
<1>1. /\ Len(pgs[p]) \in Nat /\ DOMAIN pgs[p] = 1 .. Len(pgs[p])
      /\ Len(pgs2[p]) = Len(pgs[p]) + 1 /\ DOMAIN pgs2[p] = 1 .. Len(pgs[p]) + 1
      /\ \A s \in DOMAIN pgs[p] : pgs2[p][s] = pgs[p][s]
  <2>1. pgs[p] \in Page /\ pgs2[p] \in Page
    BY DEF Contents
  <2>2. pgs2[p] = Append(pgs[p], r)
    BY DEF PageInsert
  <2> DEFINE m == pgs[p]
             n == pgs2[p]
  <2>3. m \in Seq(Slot) /\ n = Append(m, r)
    BY <2>1, <2>2 DEF Page
  <2> HIDE DEF m, n
  <2>4. /\ Len(m) \in Nat /\ DOMAIN m = 1 .. Len(m)
        /\ Len(n) = Len(m) + 1 /\ DOMAIN n = 1 .. Len(m) + 1
        /\ \A s \in DOMAIN m : n[s] = m[s]
    BY <2>3
  <2> QED
    BY <2>4 DEF m, n
<1>2. \A q, s : Unlogged(o, q, s) <=> q = p /\ s = Len(pgs[p]) + 1
  BY DEF Unlogged
<1>3. \A q, s : ~Unlogged(op, q, s)
  BY DEF Unlogged
<1>4. ASSUME NEW q \in ps \cup {p}, NEW s \in DOMAIN pgs2[q]
      PROVE  pgs2[q][s] \in {Deleted} \cup was \/ Mine(l, t, o, q, s)
  <2>1. CASE q = p /\ s = Len(pgs[p]) + 1
    BY <1>2, <2>1 DEF Mine
  <2>2. CASE ~(q = p /\ s = Len(pgs[p]) + 1)
    <3>1. s \in DOMAIN pgs[q] /\ pgs2[q][s] = pgs[q][s] /\ (q = p => pgs[p] # <<>>)
      <4>1. CASE q = p
        <5>1. s \in DOMAIN pgs[p]
          BY <1>1, <2>2, <4>1
        <5>2. pgs[p] # <<>>
          BY <5>1
        <5> QED
          BY <1>1, <4>1, <5>1, <5>2
      <4>2. CASE q # p
        BY <4>2
      <4> QED
        BY <4>1, <4>2
    <3>2. q \in ps
      BY <3>1
    <3>3. pgs[q][s] \in {Deleted} \cup was \/ Mine(l, t, op, q, s)
      BY <3>1, <3>2 DEF TellsApart
    <3> QED
      BY <1>3, <3>1, <3>3 DEF Mine
  <2> QED
    BY <2>1, <2>2
<1>5. ASSUME NEW x \in was
      PROVE  \E q \in ps \cup {p} : \E s \in DOMAIN pgs2[q] : pgs2[q][s] = x /\ ~Mine(l, t, o, q, s)
  <2>0. PICK q \in ps : \E s \in DOMAIN pgs[q] : pgs[q][s] = x /\ ~Mine(l, t, op, q, s)
    BY DEF TellsApart
  <2>1. PICK s \in DOMAIN pgs[q] : pgs[q][s] = x /\ ~Mine(l, t, op, q, s)
    BY <2>0
  <2>2. s \in DOMAIN pgs2[q] /\ pgs2[q][s] = pgs[q][s]
    <3>1. CASE q = p
      <4>1. s \in 1 .. Len(pgs[p]) + 1
        BY <1>1, <3>1
      <4> QED
        BY <1>1, <3>1, <4>1
    <3>2. CASE q # p
      BY <3>2
    <3> QED
      BY <3>1, <3>2
  <2>3. ~(q = p /\ s = Len(pgs[p]) + 1)
    BY <1>1
  <2>4. ~Mine(l, t, o, q, s)
    BY <1>2, <2>1, <2>3 DEF Mine
  <2> QED
    BY <2>1, <2>2, <2>4
<1> QED
  BY <1>4, <1>5 DEF TellsApart

(* The record of a new row says of it what the operation has said.         *)
LEMMA TellsApartLogged ==
  ASSUME NEW l, NEW k, NEW t, NEW op, NEW o, NEW pgs, NEW ps, NEW was,
         TellsApart(l, t, op, pgs, ps, was),
         \A p, s : Mine(k, t, o, p, s) <=> Mine(l, t, op, p, s)
  PROVE  TellsApart(k, t, o, pgs, ps, was)
BY DEF TellsApart

(* A record is added to the log, all of whose records are of transactions  *)
(* known by then.                                                          *)
LEMMA LabelledAppend ==
  ASSUME BaseInv, Labelled, NEW e \in Record, wal_write(e), phase # "recover", phase' # "recover",
         Len(txs') \in Nat, Len(txs) <= Len(txs'), e.tx <= Len(txs'),
         Deleted \notin atBegin', e.type = "INSERT" => e.new # NoRow,
         tx_id' # 0 => /\ busy'.op \in {"none", "INSERT"}
                       /\ e.type \in DataOps => e.type = "INSERT"
                       /\ \A i \in DataIn(log) : log[i].tx = tx_id' => log[i].type = "INSERT"
  PROVE  Labelled'
<1>1. /\ Len(log) + 1 \in DOMAIN log' /\ log'[Len(log) + 1] = e
      /\ \A i \in DOMAIN log : i \in DOMAIN log' /\ log'[i] = log[i]
      /\ \A i \in DOMAIN log' : i \in DOMAIN log \/ i = Len(log) + 1
  BY AppendRecord DEF BaseInv
<1>2. ASSUME NEW i \in DOMAIN log' PROVE log'[i].tx <= Len(txs')
  <2>1. CASE i = Len(log) + 1
    BY <1>1, <2>1
  <2>2. CASE i \in DOMAIN log
    <3>1. log'[i] = log[i] /\ log[i].tx <= Len(txs)
      BY <1>1, <2>2 DEF Labelled
    <3>2. log[i].tx \in Nat /\ Len(txs) \in Nat
      <4>1. log \in Seq(Record) /\ txs \in Seq(BOOLEAN)
        BY DEF BaseInv, TypeInv
      <4>2. log[i] \in Record /\ Len(txs) \in Nat
        BY <2>2, <4>1, SequenceElements
      <4> QED
        BY <4>2 DEF Record
    <3> QED
      BY <3>1, <3>2
  <2> QED
    BY <1>1, <2>1, <2>2
<1>3. ASSUME NEW i \in DOMAIN log', log'[i].type = "INSERT" PROVE log'[i].new # NoRow
  BY <1>1, <1>3 DEF Labelled
<1>4. ASSUME tx_id' # 0, NEW i \in DataIn(log'), log'[i].tx = tx_id' PROVE log'[i].type = "INSERT"
  BY <1>1, <1>4 DEF DataIn
<1> QED
  BY <1>2, <1>3, <1>4 DEF Labelled

(* The log is kept or becomes shorter.                                     *)
LEMMA LabelledCut ==
  ASSUME Labelled, DOMAIN log' \subseteq DOMAIN log, \A i \in DOMAIN log' : log'[i] = log[i],
         phase # "recover", Len(txs') = Len(txs), UNCHANGED atBegin,
         phase' = "recover" => tx_id' = 0,
         tx_id' # 0 => busy'.op \in {"none", "INSERT"} /\ tx_id' = tx_id
  PROVE  Labelled'
BY DEF Labelled, DataIn

LEMMA LabelledStep ==
  ASSUME BaseInv, Labelled, [Next]_vars, TxStatements \subseteq {"INSERT"}
  PROVE  Labelled'
<1>0. /\ log \in Seq(Record) /\ txs \in Seq(BOOLEAN) /\ Len(txs) \in Nat /\ tx_id \in Nat
      /\ tx_id <= Len(txs) /\ busy \in Op /\ NoOp.op = "none"
  <2>1. log \in Seq(Record) /\ txs \in Seq(BOOLEAN) /\ tx_id \in 0 .. Len(txs) /\ busy \in Op
    BY DEF BaseInv, TypeInv
  <2>2. Len(txs) \in Nat
    BY <2>1
  <2> QED
    BY <2>1, <2>2, ConstantTypes
<1>1. ASSUME UNCHANGED <<log, txs, tx_id, phase, atBegin>>,
             tx_id # 0 => busy'.op \in {"none", "INSERT"}
      PROVE  Labelled'
  BY <1>1 DEF Labelled, DataIn
<1>2. CASE UNCHANGED vars
  BY <1>1, <1>2 DEF vars, Labelled
<1>3. ASSUME NEW big \in Oversize, Insert(big) PROVE Labelled'
  <2> DEFINE op == [NoOp EXCEPT !.op = "INSERT", !.row = issued + 1, !.big = big]
  <2>1. UNCHANGED <<log, txs, tx_id, phase, atBegin>> /\ HeapInsert(op)
    BY <1>3 DEF Insert, txVars, workVars
  <2>2. op.op = "INSERT"
    BY DEF NoOp
  <2>3. busy'.op \in {"none", "INSERT"}
    <3>1. op \in Op
      <4>1. issued + 1 \in Slot /\ big \in BOOLEAN /\ "INSERT" \in DataOps \cup {"none"}
        <5>1. issued \in 0 .. MaxRows /\ issued < MaxRows
          BY <1>3 DEF BaseInv, TypeInv, Insert
        <5> QED
          BY <5>1, ConstantTypes DEF Slot, Rows, DataOps
      <4> QED
        BY <4>1, ConstantTypes DEF Op
    <3> HIDE DEF op
    <3>2. CASE Placed(op, FirstFit)
      BY <2>2, <3>2 DEF Placed
    <3>3. CASE busy' = [op EXCEPT !.fresh = pages + 1]
      BY <2>2, <3>1, <3>3 DEF Op
    <3>4. CASE busy' = NoOp
      BY <1>0, <3>4
    <3> QED
      BY <2>1, <3>1, <3>2, <3>3, <3>4, HeapInsertCases DEF BaseInv
  <2> QED
    BY <1>1, <2>1, <2>3
<1>4. ASSUME NEW p \in PageIds, NEW s \in 1 .. Slots, NEW big \in Oversize, Update(p, s, big)
      PROVE  Labelled'
  <2>1. UNCHANGED <<log, txs, tx_id, phase, atBegin>> /\ Uses("UPDATE")
    BY <1>4 DEF Update, txVars, workVars
  <2>2. tx_id = 0
    BY <2>1 DEF Uses
  <2> QED
    BY <1>1, <2>1, <2>2
<1>5. ASSUME NEW p \in PageIds, NEW s \in 1 .. Slots, Delete(p, s) PROVE Labelled'
  <2>1. UNCHANGED <<txs, tx_id, phase, atBegin>> /\ Uses("DELETE") /\ phase = "up"
    BY <1>5 DEF Delete, txVars, workVars, Ready
  <2>2. tx_id = 0
    BY <2>1 DEF Uses
  <2>3. PICK e \in Record :
          /\ e = [type |-> "DELETE", tx |-> tx_id, page |-> p, slot |-> s, new |-> NoRow, old |-> mem[p][s]]
          /\ wal_write(e)
    BY <1>5, DeleteRecord
  <2>4. e.type = "DELETE" /\ e.tx <= Len(txs')
    BY <1>0, <2>1, <2>2, <2>3
  <2>5. Deleted \notin atBegin'
    BY <2>1 DEF Labelled
  <2> QED
    BY <1>0, <2>1, <2>2, <2>3, <2>4, <2>5, LabelledAppend
<1>6. ASSUME DeleteSlot PROVE Labelled'
  BY <1>0, <1>1, <1>6 DEF DeleteSlot, txVars, workVars
<1>7. ASSUME PlaceUpdated PROVE Labelled'
  <2>1. UNCHANGED <<log, txs, tx_id, phase, atBegin>> /\ busy.op = "UPDATE"
    BY <1>7 DEF PlaceUpdated, txVars, workVars
  <2>2. tx_id = 0
    BY <2>1 DEF Labelled
  <2> QED
    BY <1>1, <2>1, <2>2
<1>8. ASSUME Link PROVE Labelled'
  <2>1. UNCHANGED <<log, txs, tx_id, phase, atBegin>>
    BY <1>8 DEF Link, txVars, workVars
  <2>2. busy'.op \in {busy.op, "none"}
    <3>1. CASE busy.big
      BY <1>0, <1>8, <3>1, LinkPlaces
    <3>2. CASE ~busy.big
      BY <1>8, <3>2, LinkPlaces DEF Placed
    <3> QED
      BY <3>1, <3>2
  <2> QED
    BY <1>1, <2>1, <2>2 DEF Labelled
<1>9. ASSUME Log PROVE Labelled'
  <2>1. UNCHANGED <<txs, tx_id, phase, atBegin>> /\ busy' = NoOp /\ busy.placed
    BY <1>9 DEF Log, txVars, workVars
  <2>2. phase = "up"
    BY <2>1, ConstantTypes DEF BaseInv, StageInv
  <2>3. PICK e \in Record :
          /\ e = [type |-> busy.op, tx |-> tx_id, page |-> busy.page,
                  slot |-> busy.slot, new |-> busy.row, old |-> busy.old]
          /\ wal_write(e) /\ busy.op \in {"INSERT", "UPDATE"} /\ busy.row # NoRow
    BY <1>9, LogRecord
  <2>4. e.type = busy.op /\ e.tx <= Len(txs') /\ e.new = busy.row
    BY <1>0, <2>1, <2>3
  <2>5. Deleted \notin atBegin' /\ (tx_id' # 0 => e.type = "INSERT" /\ busy'.op = "none"
           /\ \A i \in DataIn(log) : log[i].tx = tx_id' => log[i].type = "INSERT")
    BY <1>0, <2>1, <2>3, <2>4 DEF Labelled
  <2> QED
    BY <1>0, <2>1, <2>2, <2>3, <2>4, <2>5, LabelledAppend
<1>10. ASSUME NEW p \in PageIds, WriteBack(p) PROVE Labelled'
  BY <1>1, <1>10 DEF WriteBack, txVars, workVars, Labelled
<1>11. ASSUME Begin PROVE Labelled'
  <2>1. UNCHANGED <<busy, phase>> /\ phase = "up" /\ busy = NoOp /\ atBegin' = RowsOf(mem)
    BY <1>11 DEF Begin, Ready, workVars
  <2>2. PICK e \in Record : /\ wal_write(e) /\ e.type = "BEGIN" /\ e.tx = Len(txs) + 1
                            /\ txs' = Append(txs, TRUE) /\ tx_id' = Len(txs) + 1
    BY <1>11, BeginRecord
  <2>3. Len(txs') = Len(txs) + 1 /\ Len(txs') \in Nat /\ "BEGIN" \notin DataOps
    BY <1>0, <2>2 DEF DataOps
  <2>4. Deleted \notin atBegin'
    BY <2>1 DEF RowsOf, RowsIn
  <2>5. ASSUME NEW i \in DataIn(log), log[i].tx = tx_id' PROVE FALSE
    <3>1. i \in DOMAIN log /\ log[i].tx <= Len(txs)
      BY <2>1 DEF DataIn, Labelled
    <3> QED
      BY <1>0, <2>2, <2>5, <3>1
  <2>6. e.tx <= Len(txs') /\ Len(txs) <= Len(txs')
    BY <1>0, <2>2, <2>3
  <2> QED
    BY <1>0, <2>1, <2>2, <2>3, <2>4, <2>5, <2>6, LabelledAppend
<1>12. ASSUME NEW e \in Record, wal_write(e), e.type \notin DataOps, e.tx = tx_id,
              UNCHANGED <<busy, atBegin>>, phase = "up", phase' # "recover",
              Len(txs') = Len(txs), tx_id' \in {0, tx_id}
       PROVE  Labelled'
  <2>1. e.tx <= Len(txs') /\ Len(txs) <= Len(txs') /\ Len(txs') \in Nat
    BY <1>0, <1>12
  <2>2. e.type # "INSERT" /\ Deleted \notin atBegin'
    BY <1>12 DEF DataOps, Labelled
  <2>3. tx_id' # 0 => /\ busy'.op \in {"none", "INSERT"}
                      /\ \A i \in DataIn(log) : log[i].tx = tx_id' => log[i].type = "INSERT"
    BY <1>12 DEF Labelled
  <2> QED
    BY <1>12, <2>1, <2>2, <2>3, LabelledAppend
<1>13. ASSUME Commit PROVE Labelled'
  <2>1. /\ UNCHANGED <<busy, atBegin, phase>> /\ phase = "up" /\ tx_id' = 0
        /\ txs' = [txs EXCEPT ![tx_id] = FALSE] /\ wal_write(Control("COMMIT", tx_id))
    BY <1>13 DEF Commit, Ready, workVars
  <2>2. Len(txs') = Len(txs)
    BY <1>0, <2>1, ExceptElements
  <2> QED
    BY <1>0, <1>12, <2>1, <2>2, ControlRecord DEF DataOps
<1>14. ASSUME NEW name \in Names, Savepoint(name) PROVE Labelled'
  <2>1. UNCHANGED <<busy, atBegin, phase, txs, tx_id>> /\ phase = "up" /\ wal_write(Control("SAVEPOINT", tx_id))
    BY <1>14 DEF Savepoint, Ready, workVars
  <2> QED
    BY <1>0, <1>12, <2>1, ControlRecord DEF DataOps
<1>15. ASSUME NEW next \in {"rollback", "closing"}, RollbackBegin(next) PROVE Labelled'
  <2>1. /\ UNCHANGED <<busy, atBegin, txs, tx_id>> /\ phase = "up" /\ phase' = next
        /\ wal_write(Control("ABORT", tx_id))
    BY <1>15 DEF RollbackBegin, Ready, txVars
  <2> QED
    BY <1>0, <1>12, <2>1, ControlRecord DEF DataOps
<1>16. ASSUME NEW name \in Names, RollbackToBegin(name) PROVE Labelled'
  <2>1. UNCHANGED <<log, txs, tx_id, busy, atBegin>> /\ phase' = "rollback_to" /\ phase = "up"
    BY <1>16 DEF RollbackToBegin, txVars, Ready
  <2> QED
    BY <2>1 DEF Labelled, DataIn
<1>17. ASSUME ApplyStep PROVE Labelled'
  BY <1>1, <1>17 DEF ApplyStep, txVars, Labelled
<1>18. ASSUME RollbackEnd PROVE Labelled'
  <2>1. /\ UNCHANGED <<log, busy, atBegin>> /\ phase = "rollback" /\ phase' = "up" /\ tx_id' = 0
        /\ txs' = [txs EXCEPT ![tx_id] = FALSE]
    BY <1>18 DEF RollbackEnd
  <2>2. Len(txs') = Len(txs)
    BY <1>0, <2>1, ExceptElements
  <2> QED
    BY <2>1, <2>2, LabelledCut
<1>19. ASSUME RollbackToEnd PROVE Labelled'
  <2>1. UNCHANGED <<busy, atBegin, txs, tx_id>> /\ phase = "rollback_to" /\ phase' = "up" /\ busy = NoOp
    BY <1>19 DEF RollbackToEnd, BaseInv, StageInv
  <2>2. DOMAIN log' \subseteq DOMAIN log /\ \A i \in DOMAIN log' : log'[i] = log[i]
    BY <1>19, RollbackToCuts
  <2> QED
    BY <1>0, <2>1, <2>2, LabelledCut
<1>20. ASSUME Shutdown PROVE Labelled'
  <2>1. DOMAIN log' = {} /\ phase' = "up" /\ tx_id' = 0 /\ txs' = <<>>
    BY <1>20, BaseShutdown
  <2>2. UNCHANGED atBegin
    BY <1>20 DEF Shutdown, Reopened
  <2> QED
    BY <2>1, <2>2 DEF Labelled
<1>21. ASSUME Crash PROVE Labelled'
  BY <1>21 DEF Crash, Labelled
<1>22. ASSUME RecoverEnd PROVE Labelled'
  <2>1. DOMAIN log' = {} /\ phase' = "up" /\ phase = "recover" /\ UNCHANGED <<txs, tx_id, atBegin>>
    BY <1>22 DEF RecoverEnd, txVars
  <2> QED
    BY <2>1 DEF Labelled
<1> QED
  BY <1>2, <1>3, <1>4, <1>5, <1>6, <1>7, <1>8, <1>9, <1>10, <1>11, <1>13, <1>14, <1>15, <1>16, <1>17,
     <1>18, <1>19, <1>20, <1>21, <1>22 DEF Next

(* The chain of the table does not change, and neither do its rows.        *)
LEMMA SamePages == UNCHANGED chain => ChainPages' = ChainPages
BY DEF ChainPages

(* Begin: nothing in the log is of the new transaction.                    *)
LEMMA RestoreBegin ==
  ASSUME BaseInv, Labelled, Begin
  PROVE  TellsApart(log', tx_id', busy', mem', ChainPages', atBegin')
<1>0. /\ UNCHANGED <<mem, chain, busy>> /\ busy = NoOp /\ phase = "up" /\ atBegin' = RowsOf(mem)
  BY DEF Begin, Ready, pageVars
<1>1. PICK e \in Record : /\ wal_write(e) /\ e.type = "BEGIN" /\ tx_id' = Len(txs) + 1 /\ Len(txs) \in Nat
  BY BeginRecord
<1>2. /\ log'[Len(log) + 1] = e /\ \A i \in DOMAIN log : log'[i] = log[i]
      /\ \A i \in DOMAIN log' : i \in DOMAIN log \/ i = Len(log) + 1
  BY <1>1, AppendRecord DEF BaseInv
<1>3. ASSUME NEW i, NEW p, NEW s, Own(log', tx_id', i, p, s) PROVE FALSE
  <2>1. i \in DOMAIN log' /\ log'[i].type = "INSERT" /\ log'[i].tx = tx_id'
    BY <1>3 DEF Own, At
  <2>2. i \in DOMAIN log /\ log[i].tx = Len(txs) + 1
    BY <1>1, <1>2, <2>1
  <2>3. log[i].tx <= Len(txs)
    BY <1>0, <2>2 DEF Labelled
  <2> QED
    BY <1>1, <2>2, <2>3
<1>4. ASSUME NEW p, NEW s PROVE ~Mine(log', tx_id', busy', p, s)
  BY <1>0, <1>3, ConstantTypes DEF Mine, Unlogged
<1>5. \A r : r \in atBegin' <=> r # Deleted /\ \E p \in ChainPages : \E s \in DOMAIN mem[p] : mem[p][s] = r
  BY <1>0, TablePages DEF BaseInv
<1>6. ChainPages' = ChainPages
  BY <1>0, SamePages
<1> DEFINE l == log'
           t == tx_id'
           o == busy'
           was == atBegin'
<1> HIDE DEF l, t, o, was
<1>7. TellsApart(l, t, o, mem, ChainPages, was)
  BY <1>4, <1>5 DEF TellsApart, l, t, o, was
<1> QED
  BY <1>0, <1>6, <1>7 DEF l, t, o, was

(* The transaction undoes all that is its own.                             *)
LEMMA RestoreRollbackBegin ==
  ASSUME BaseInv, OwnInv, MaxLog <= MaxEntries, RollbackBegin("rollback")
  PROVE  WillRestore(log', tx_id', 0, work', disk', ChainPages', atBegin')
<1>0. /\ UNCHANGED <<chain, tx_id, atBegin, busy>> /\ disk' = mem /\ busy = NoOp /\ tx_id # 0
      /\ phase = "up" /\ work' = RollbackWork(log, tx_id) /\ wal_write(Control("ABORT", tx_id))
  BY DEF RollbackBegin, Ready, txVars
<1>1. TellsApart(log, tx_id, NoOp, mem, ChainPages, atBegin)
  BY <1>0 DEF OwnInv
<1>2. /\ log \in Seq(Record) /\ Len(log) \in Nat /\ Len(log) <= MaxEntries /\ DOMAIN log = 1 .. Len(log)
      /\ Control("ABORT", tx_id) \in Record /\ Control("ABORT", tx_id).type = "ABORT"
  <2>1. log \in Seq(Record) /\ Len(log) <= MaxLog /\ tx_id \in Nat
    BY DEF BaseInv, TypeInv
  <2>2. Len(log) \in Nat /\ DOMAIN log = 1 .. Len(log)
    BY <2>1
  <2> QED
    BY <2>1, <2>2, ConstantTypes, ControlRecord
<1>3. /\ log'[Len(log) + 1] = Control("ABORT", tx_id)
      /\ \A i \in DOMAIN log : i \in DOMAIN log' /\ log'[i] = log[i]
      /\ \A i \in DOMAIN log' : i \in DOMAIN log \/ i = Len(log) + 1
  BY <1>0, <1>2, AppendRecord DEF BaseInv
<1> DEFINE I == {i \in DOMAIN log : log[i].tx = tx_id}
           w == RollbackWork(log, tx_id)
<1>4. Undoes(w, log, I \cap DataIn(log))
  <2>1. FirstOf(I, MaxEntries) = I /\ I \in SUBSET Nat
    <3> DEFINE n == Len(log)
    <3>1. n \in Nat /\ I \subseteq 1 .. n /\ n <= MaxEntries /\ MaxEntries \in Nat
      BY <1>2, ConstantTypes
    <3> HIDE DEF I, n
    <3>2. FirstOf(I, MaxEntries) = I
      BY <3>1, FirstOfAll
    <3>3. I \in SUBSET Nat
      BY <3>1
    <3> QED
      BY <3>2, <3>3
  <2>2. w = Undoing[<<log, I>>]
    BY <2>1 DEF RollbackWork
  <2> HIDE DEF I, w
  <2>3. Undoes(Undoing[<<log, I>>], log, I \cap DataIn(log))
    BY <1>2, <2>1, UndoingUndoes
  <2> QED
    BY <2>2, <2>3
<1>5. \A i \in I \cap DataIn(log) : log[i].tx = tx_id /\ log[i].type = "INSERT"
  BY <1>0 DEF OwnInv, Labelled
<1>6. \A i, p, s : Own(log', tx_id, i, p, s) => Own(log, tx_id, i, p, s)
  <2> SUFFICES ASSUME NEW i, NEW p, NEW s, Own(log', tx_id, i, p, s) PROVE Own(log, tx_id, i, p, s)
    OBVIOUS
  <2>1. i \in DOMAIN log' /\ log'[i].type = "INSERT"
    BY DEF Own, At
  <2>2. i \in DOMAIN log /\ log'[i] = log[i]
    BY <1>2, <1>3, <2>1
  <2> QED
    BY <2>2 DEF Own, At
<1>7. \A i, p, s : Own(log, tx_id, i, p, s) => i \in I \cap DataIn(log)
  BY DEF Own, At, DataIn, DataOps
<1> HIDE DEF I
<1>8. w \in Seq(Steps) /\ DOMAIN w = 1 .. Len(w)
  BY <1>4 DEF Undoes
<1> DEFINE l == log'
<1> HIDE DEF w, l
<1>9. ASSUME NEW n \in DOMAIN w
      PROVE  \E i \in DOMAIN l : w[n] = Step("undo", l[i]) /\ l[i].tx = tx_id /\ l[i].type = "INSERT"
  <2>1. PICK i \in I \cap DataIn(log) : w[n] = Step("undo", log[i])
    BY <1>4, <1>8, <1>9 DEF Undoes
  <2>2. i \in DOMAIN l /\ l[i] = log[i]
    BY <1>3, <2>1 DEF l, DataIn
  <2> QED
    BY <1>5, <2>1, <2>2
<1>10. ASSUME NEW p \in ChainPages, NEW s \in DOMAIN mem[p]
       PROVE  mem[p][s] \in {Deleted} \cup atBegin \/ \E n \in DOMAIN w : w[n].rec.page = p /\ w[n].rec.slot = s
  <2> SUFFICES ASSUME mem[p][s] \notin {Deleted} \cup atBegin
               PROVE  \E n \in DOMAIN w : w[n].rec.page = p /\ w[n].rec.slot = s
    OBVIOUS
  <2>1. Mine(log, tx_id, NoOp, p, s)
    BY <1>1 DEF TellsApart
  <2>2. PICK i \in DOMAIN log : Own(log, tx_id, i, p, s)
    BY <2>1, ConstantTypes DEF Mine, Unlogged
  <2>3. PICK n \in DOMAIN w : w[n] = Step("undo", log[i])
    BY <1>4, <1>7, <1>8, <2>2 DEF Undoes
  <2> QED
    BY <2>2, <2>3 DEF Own, At, Step
<1>11. ASSUME NEW r \in atBegin
       PROVE  \E p \in ChainPages : \E s \in DOMAIN mem[p] :
                mem[p][s] = r /\ \A i \in DOMAIN l : ~Own(l, tx_id, i, p, s)
  <2>1. PICK p \in ChainPages : \E s \in DOMAIN mem[p] : mem[p][s] = r /\ ~Mine(log, tx_id, NoOp, p, s)
    BY <1>1 DEF TellsApart
  <2>2. PICK s \in DOMAIN mem[p] : mem[p][s] = r /\ ~Mine(log, tx_id, NoOp, p, s)
    BY <2>1
  <2>3. \A i \in DOMAIN l : ~Own(l, tx_id, i, p, s)
    <3>1. \A i : ~Own(log, tx_id, i, p, s)
      BY <2>2 DEF Mine, Own, At
    <3> QED
      BY <1>6, <3>1 DEF l
  <2> QED
    BY <2>2, <2>3
<1>12. WillRestore(l, tx_id, 0, w, mem, ChainPages, atBegin)
  BY <1>9, <1>10, <1>11 DEF WillRestore
<1>13. ChainPages' = ChainPages
  BY <1>0, SamePages
<1> QED
  BY <1>0, <1>12, <1>13 DEF l, w

LEMMA BehindIndex ==
  ASSUME NEW n \in Nat, NEW k \in Nat, NEW i \in 1 .. n, ~(i <= k)
  PROVE  i \in k + 1 .. n
OBVIOUS

(* ROLLBACK TO undoes what is its own from the savepoint on.               *)
LEMMA RestoreRollbackToBegin ==
  ASSUME BaseInv, OwnInv, MaxLog <= MaxUndo, NEW name \in Names, RollbackToBegin(name)
  PROVE  WillRestore(log', tx_id', Kept', work', disk', ChainPages', atBegin')
<1> DEFINE c == LatestOf(name)
<1>0. /\ UNCHANGED <<chain, log, tx_id, savepoints, atBegin, busy>> /\ disk' = mem /\ busy = NoOp
      /\ tx_id # 0 /\ phase = "up" /\ phase' = "rollback_to" /\ cut' = c
      /\ work' = PartialWork(log, savepoints[c].offset, tx_id)
  BY DEF RollbackToBegin, Ready, txVars
<1> HIDE DEF c
<1>1. TellsApart(log, tx_id, NoOp, mem, ChainPages, atBegin)
  BY <1>0 DEF OwnInv
<1>2. /\ log \in Seq(Record) /\ Len(log) \in Nat /\ Len(log) <= MaxUndo /\ DOMAIN log = 1 .. Len(log)
  <2>1. log \in Seq(Record) /\ Len(log) <= MaxLog
    BY DEF BaseInv, TypeInv
  <2>2. Len(log) \in Nat /\ DOMAIN log = 1 .. Len(log)
    BY <2>1
  <2> QED
    BY <2>1, <2>2, ConstantTypes
<1>3. savepoints[c].offset \in Nat /\ Kept' = savepoints[c].offset
  <2>1. c \in DOMAIN savepoints /\ savepoints \in Seq(Saved)
    <3>1. BaseInv'
      BY BaseRollbackToBegin
    <3> QED
      BY <1>0, <3>1 DEF BaseInv, StageInv, TypeInv
  <2>2. savepoints[c] \in Saved
    BY <2>1, SequenceElements
  <2> QED
    BY <1>0, <2>2 DEF Saved, Kept
<1> DEFINE k == savepoints[c].offset
           I == {i \in k + 1 .. Len(log) : log[i].tx = tx_id /\ Undoable(log[i])}
           w == PartialWork(log, k, tx_id)
<1>4. Undoes(w, log, I \cap DataIn(log))
  <2>1. FirstOf(I, MaxUndo) = I /\ I \in SUBSET Nat
    <3> DEFINE n == Len(log)
    <3>1. n \in Nat /\ n <= MaxUndo
      BY <1>2
    <3>2. k + 1 .. n \subseteq 1 .. n
      <4> HIDE DEF k, n
      <4>1. k \in Nat
        BY <1>3 DEF k
      <4> QED
        BY <3>1, <4>1
    <3>3. I \subseteq 1 .. n
      BY <3>2
    <3>4. MaxUndo \in Nat
      BY ConstantTypes
    <3> HIDE DEF I, n
    <3>5. FirstOf(I, MaxUndo) = I
      BY <3>1, <3>3, <3>4, FirstOfAll
    <3>6. I \in SUBSET Nat
      BY <3>1, <3>3
    <3> QED
      BY <3>5, <3>6
  <2>2. w = Undoing[<<log, I>>]
    BY <2>1 DEF PartialWork
  <2> HIDE DEF I, w
  <2>3. Undoes(Undoing[<<log, I>>], log, I \cap DataIn(log))
    BY <1>2, <2>1, UndoingUndoes
  <2> QED
    BY <2>2, <2>3
<1>5. \A i \in I \cap DataIn(log) : log[i].tx = tx_id /\ log[i].type = "INSERT"
  BY <1>0 DEF OwnInv, Labelled
<1>7. ASSUME NEW i, NEW p, NEW s, Own(log, tx_id, i, p, s), ~(i <= k) PROVE i \in I \cap DataIn(log)
  <2>1. /\ i \in DOMAIN log /\ log[i].tx = tx_id /\ log[i].type = "INSERT" /\ i \in DataIn(log)
    BY <1>7 DEF Own, At, DataIn, DataOps
  <2>2. Undoable(log[i])
    BY <2>1 DEF OwnInv, Labelled, Undoable, DataOps
  <2>3. i \in k + 1 .. Len(log)
    <3> DEFINE n == Len(log)
    <3>1. i \in 1 .. n /\ n \in Nat /\ k \in Nat /\ ~(i <= k)
      BY <1>2, <1>3, <1>7, <2>1
    <3> HIDE DEF k, n
    <3>2. i \in k + 1 .. n
      BY <3>1, BehindIndex
    <3> QED
      BY <3>2 DEF n
  <2> QED
    BY <2>1, <2>2, <2>3
<1>8. w \in Seq(Steps) /\ DOMAIN w = 1 .. Len(w)
  BY <1>4 DEF Undoes
<1> HIDE DEF I, w, k
<1>9. ASSUME NEW n \in DOMAIN w
      PROVE  \E i \in DOMAIN log : w[n] = Step("undo", log[i]) /\ log[i].tx = tx_id /\ log[i].type = "INSERT"
  <2>1. PICK i \in I \cap DataIn(log) : w[n] = Step("undo", log[i])
    BY <1>4, <1>8, <1>9 DEF Undoes
  <2> QED
    BY <1>5, <2>1 DEF DataIn
<1>10. ASSUME NEW p \in ChainPages, NEW s \in DOMAIN mem[p]
       PROVE  \/ mem[p][s] \in {Deleted} \cup atBegin
              \/ \E i \in DOMAIN log : i <= k /\ Own(log, tx_id, i, p, s)
              \/ \E n \in DOMAIN w : w[n].rec.page = p /\ w[n].rec.slot = s
  <2> SUFFICES ASSUME mem[p][s] \notin {Deleted} \cup atBegin,
                      ~ \E i \in DOMAIN log : i <= k /\ Own(log, tx_id, i, p, s)
               PROVE  \E n \in DOMAIN w : w[n].rec.page = p /\ w[n].rec.slot = s
    OBVIOUS
  <2>1. Mine(log, tx_id, NoOp, p, s)
    BY <1>1 DEF TellsApart
  <2>2. PICK i \in DOMAIN log : Own(log, tx_id, i, p, s)
    BY <2>1, ConstantTypes DEF Mine, Unlogged
  <2>3. i \in I \cap DataIn(log)
    BY <1>7, <2>2
  <2>4. PICK n \in DOMAIN w : w[n] = Step("undo", log[i])
    BY <1>4, <1>8, <2>3 DEF Undoes
  <2> QED
    BY <2>2, <2>4 DEF Own, At, Step
<1>11. ASSUME NEW r \in atBegin
       PROVE  \E p \in ChainPages : \E s \in DOMAIN mem[p] :
                mem[p][s] = r /\ \A i \in DOMAIN log : ~Own(log, tx_id, i, p, s)
  <2>1. PICK p \in ChainPages : \E s \in DOMAIN mem[p] : mem[p][s] = r /\ ~Mine(log, tx_id, NoOp, p, s)
    BY <1>1 DEF TellsApart
  <2> QED
    BY <2>1 DEF Mine
<1>12. WillRestore(log, tx_id, k, w, mem, ChainPages, atBegin)
  BY <1>9, <1>10, <1>11 DEF WillRestore
<1>13. ChainPages' = ChainPages
  BY <1>0, SamePages
<1> QED
  BY <1>0, <1>3, <1>12, <1>13 DEF k, w

(* One record is undone: the slot of a row of the transaction is emptied.  *)
LEMMA RestoreApplyStep ==
  ASSUME BaseInv, OwnInv, ApplyStep, phase \in {"rollback", "rollback_to"}
  PROVE  WillRestore(log', tx_id', Kept', work', disk', ChainPages', atBegin')
<1>0. /\ UNCHANGED <<chain, log, tx_id, savepoints, phase, cut, atBegin>> /\ work # <<>>
      /\ disk' = Apply(disk, Head(work)) /\ work' = Tail(work)
  BY DEF ApplyStep, txVars
<1>1. WillRestore(log, tx_id, Kept, work, disk, ChainPages, atBegin)
  BY DEF OwnInv
<1>2. /\ work \in Seq(Steps) /\ disk \in Contents /\ ChainPages \in SUBSET PageIds
  BY TablePages DEF BaseInv, TypeInv
<1>3. /\ Head(work) \in Steps /\ 1 \in DOMAIN work /\ Head(work) = work[1]
      /\ \A n \in DOMAIN work' : n + 1 \in DOMAIN work /\ work'[n] = work[n + 1]
      /\ \A n \in DOMAIN work : n = 1 \/ (n - 1 \in DOMAIN work' /\ work'[n - 1] = work[n])
  BY <1>0, <1>2, TailElements
<1>4. PICK j \in DOMAIN log :
        work[1] = Step("undo", log[j]) /\ log[j].tx = tx_id /\ log[j].type = "INSERT"
  BY <1>1, <1>3 DEF WillRestore
<1>5. log[j].page \in PageIds
  BY <1>3, <1>4, DataPages DEF DataIn, DataOps
<1>6. /\ disk'[log[j].page] = PageDelete(disk[log[j].page], log[j].slot)
      /\ \A q \in PageIds : q # log[j].page => disk'[q] = disk[q]
  <2>1. Head(work).rec = log[j] /\ Head(work).does = "undo"
    BY <1>3, <1>4 DEF Step
  <2>2. disk' = [disk EXCEPT ![log[j].page] = Undo(disk[log[j].page], log[j])]
    BY <1>0, <1>2, <1>5, <2>1 DEF Apply
  <2> QED
    BY <1>2, <1>4, <1>5, <2>2 DEF Undo, Contents
<1>7. ASSUME NEW q \in PageIds
      PROVE  /\ DOMAIN disk'[q] = DOMAIN disk[q]
             /\ \A s \in DOMAIN disk[q] :
                  \/ disk'[q][s] = disk[q][s] /\ ~(q = log[j].page /\ s = log[j].slot)
                  \/ disk'[q][s] = Deleted /\ q = log[j].page /\ s = log[j].slot
  <2>1. CASE q # log[j].page
    BY <1>6, <2>1
  <2>2. CASE q = log[j].page
    <3> DEFINE pg == disk[q]
               s0 == log[j].slot
    <3>1. disk'[q] = PageDelete(pg, s0)
      BY <1>6, <2>2
    <3> HIDE DEF pg, s0
    <3>2. /\ DOMAIN PageDelete(pg, s0) = DOMAIN pg
          /\ \A s \in DOMAIN pg : PageDelete(pg, s0)[s] = IF s = s0 THEN Deleted ELSE pg[s]
      BY DEF PageDelete
    <3> QED
      BY <2>2, <3>1, <3>2 DEF pg, s0
  <2> QED
    BY <2>1, <2>2
<1> DEFINE d == disk'
           w == work'
<1> HIDE DEF d, w
<1>8. ASSUME NEW n \in DOMAIN w
      PROVE  \E i \in DOMAIN log : w[n] = Step("undo", log[i]) /\ log[i].tx = tx_id /\ log[i].type = "INSERT"
  <2>1. n + 1 \in DOMAIN work /\ w[n] = work[n + 1]
    BY <1>3 DEF w
  <2> QED
    BY <1>1, <2>1 DEF WillRestore
<1>9. ASSUME NEW p \in ChainPages, NEW s \in DOMAIN d[p]
      PROVE  \/ d[p][s] \in {Deleted} \cup atBegin
             \/ \E i \in DOMAIN log : i <= Kept /\ Own(log, tx_id, i, p, s)
             \/ \E n \in DOMAIN w : w[n].rec.page = p /\ w[n].rec.slot = s
  <2> SUFFICES ASSUME d[p][s] # Deleted
               PROVE  \/ d[p][s] \in atBegin
                      \/ \E i \in DOMAIN log : i <= Kept /\ Own(log, tx_id, i, p, s)
                      \/ \E n \in DOMAIN w : w[n].rec.page = p /\ w[n].rec.slot = s
    OBVIOUS
  <2>1. s \in DOMAIN disk[p] /\ d[p][s] = disk[p][s] /\ ~(p = log[j].page /\ s = log[j].slot)
    BY <1>2, <1>7 DEF d
  <2>2. \/ disk[p][s] \in {Deleted} \cup atBegin
        \/ \E i \in DOMAIN log : i <= Kept /\ Own(log, tx_id, i, p, s)
        \/ \E n \in DOMAIN work : work[n].rec.page = p /\ work[n].rec.slot = s
    BY <1>1, <2>1 DEF WillRestore
  <2>3. ASSUME NEW n \in DOMAIN work, work[n].rec.page = p, work[n].rec.slot = s
        PROVE  \E m \in DOMAIN w : w[m].rec.page = p /\ w[m].rec.slot = s
    <3>1. n # 1
      BY <1>4, <2>1, <2>3 DEF Step
    <3>2. n - 1 \in DOMAIN w /\ w[n - 1] = work[n]
      BY <1>3, <3>1 DEF w
    <3> QED
      BY <2>3, <3>2
  <2> QED
    BY <2>1, <2>2, <2>3
<1>10. ASSUME NEW r \in atBegin
       PROVE  \E p \in ChainPages : \E s \in DOMAIN d[p] :
                d[p][s] = r /\ \A i \in DOMAIN log : ~Own(log, tx_id, i, p, s)
  <2>1. PICK p \in ChainPages : \E s \in DOMAIN disk[p] :
                disk[p][s] = r /\ \A i \in DOMAIN log : ~Own(log, tx_id, i, p, s)
    BY <1>1 DEF WillRestore
  <2>2. PICK s \in DOMAIN disk[p] : disk[p][s] = r /\ \A i \in DOMAIN log : ~Own(log, tx_id, i, p, s)
    BY <2>1
  <2>3. ~(p = log[j].page /\ s = log[j].slot)
    BY <1>4, <2>2 DEF Own, At
  <2>4. s \in DOMAIN d[p] /\ d[p][s] = r
    BY <1>2, <1>7, <2>2, <2>3 DEF d
  <2> QED
    BY <2>2, <2>4
<1>11. WillRestore(log, tx_id, Kept, w, d, ChainPages, atBegin)
  BY <1>8, <1>9, <1>10 DEF WillRestore
<1>12. ChainPages' = ChainPages /\ Kept' = Kept
  BY <1>0, SamePages DEF Kept
<1> QED
  BY <1>0, <1>11, <1>12 DEF d, w

(* ROLLBACK TO keeps the transaction, and the records up to the savepoint. *)
LEMMA RestoreRollbackToEnd ==
  ASSUME BaseInv, OwnInv, RollbackToEnd
  PROVE  TellsApart(log', tx_id', busy', mem', ChainPages', atBegin')
<1>0. /\ UNCHANGED <<chain, tx_id, busy, atBegin>> /\ phase = "rollback_to" /\ work = <<>>
      /\ mem' = disk
  BY DEF RollbackToEnd, Reread
<1>1. WillRestore(log, tx_id, savepoints[cut].offset, <<>>, disk, ChainPages, atBegin)
  BY <1>0 DEF OwnInv, Kept
<1>2. /\ DOMAIN log' = {i \in DOMAIN log : i <= savepoints[cut].offset}
      /\ \A i \in DOMAIN log' : log'[i] = log[i]
  BY RollbackToCuts
<1>3. busy = NoOp
  BY <1>0 DEF BaseInv, StageInv
<1>4. ASSUME NEW i, NEW p, NEW s
      PROVE  Own(log', tx_id, i, p, s) <=> Own(log, tx_id, i, p, s) /\ i <= savepoints[cut].offset
  BY <1>2 DEF Own, At
<1>5. DOMAIN <<>> = {}
  OBVIOUS
<1> DEFINE l == log'
<1> HIDE DEF l
<1>6. ASSUME NEW p \in ChainPages, NEW s \in DOMAIN disk[p]
      PROVE  disk[p][s] \in {Deleted} \cup atBegin \/ Mine(l, tx_id, NoOp, p, s)
  <2>1. \/ disk[p][s] \in {Deleted} \cup atBegin
        \/ \E i \in DOMAIN log : i <= savepoints[cut].offset /\ Own(log, tx_id, i, p, s)
    BY <1>1, <1>5 DEF WillRestore
  <2>2. ASSUME NEW i \in DOMAIN log, i <= savepoints[cut].offset, Own(log, tx_id, i, p, s)
        PROVE  Mine(l, tx_id, NoOp, p, s)
    <3>1. Own(l, tx_id, i, p, s)
      BY <1>4, <2>2 DEF l
    <3> QED
      BY <3>1 DEF Mine, Own, At
  <2> QED
    BY <2>1, <2>2
<1>7. ASSUME NEW r \in atBegin
      PROVE  \E p \in ChainPages : \E s \in DOMAIN disk[p] : disk[p][s] = r /\ ~Mine(l, tx_id, NoOp, p, s)
  <2>1. PICK p \in ChainPages : \E s \in DOMAIN disk[p] :
                disk[p][s] = r /\ \A i \in DOMAIN log : ~Own(log, tx_id, i, p, s)
    BY <1>1 DEF WillRestore
  <2>2. PICK s \in DOMAIN disk[p] : disk[p][s] = r /\ \A i \in DOMAIN log : ~Own(log, tx_id, i, p, s)
    BY <2>1
  <2>3. \A i : ~Own(l, tx_id, i, p, s)
    <3>1. \A i : ~Own(log, tx_id, i, p, s)
      BY <2>2 DEF Own, At
    <3> QED
      BY <1>4, <3>1 DEF l
  <2>4. ~Mine(l, tx_id, NoOp, p, s)
    BY <2>3, ConstantTypes DEF Mine, Unlogged
  <2> QED
    BY <2>2, <2>4
<1>8. TellsApart(l, tx_id, NoOp, disk, ChainPages, atBegin)
  BY <1>6, <1>7 DEF TellsApart
<1>9. ChainPages' = ChainPages
  BY <1>0, SamePages
<1> QED
  BY <1>0, <1>3, <1>8, <1>9 DEF l

(* A row operation of the transaction: the row is placed, then logged.     *)
LEMMA RestoreInsert ==
  ASSUME BaseInv, OwnInv, tx_id # 0, NEW big \in Oversize, Insert(big)
  PROVE  TellsApart(log', tx_id', busy', mem', ChainPages', atBegin')
<1> DEFINE op == [NoOp EXCEPT !.op = "INSERT", !.row = issued + 1, !.big = big]
<1>0. /\ UNCHANGED <<log, tx_id, chain, atBegin>> /\ HeapInsert(op) /\ phase = "up" /\ busy = NoOp
  BY DEF Insert, txVars, Ready
<1>1. op.op = "INSERT" /\ ~op.placed
  BY DEF NoOp
<1>2. op \in Op
  <2>1. issued + 1 \in Slot /\ big \in BOOLEAN /\ "INSERT" \in DataOps \cup {"none"}
    <3>1. issued \in 0 .. MaxRows /\ issued < MaxRows
      BY DEF BaseInv, TypeInv, Insert
    <3> QED
      BY <3>1, ConstantTypes DEF Slot, Rows, DataOps
  <2> QED
    BY <2>1, ConstantTypes DEF Op
<1> HIDE DEF op
<1>3. TellsApart(log, tx_id, NoOp, mem, ChainPages, atBegin) /\ ~NoOp.placed
  BY <1>0, ConstantTypes DEF OwnInv
<1>4. ChainPages' = ChainPages /\ ChainPages \in SUBSET PageIds /\ mem \in Contents
  BY <1>0, SamePages, TablePages DEF BaseInv, TypeInv
<1>5. CASE /\ Placed(op, FirstFit) /\ FirstFit \in ChainPages /\ HasRoom(mem[FirstFit])
  <2>1. PICK p \in ChainPages : Placed(op, p) /\ HasRoom(mem[p])
    BY <1>5
  <2>2. /\ mem' \in Contents /\ mem'[p] = PageInsert(mem[p], op.row)
        /\ \A q \in PageIds : q # p => mem'[q] = mem[q]
        /\ busy'.op = "INSERT" /\ busy'.placed /\ busy'.page = p /\ busy'.slot = Len(mem[p]) + 1
    BY <1>1, <1>4, <2>1 DEF Placed, Contents
  <2>3. ChainPages \cup {p} = ChainPages
    OBVIOUS
  <2> DEFINE m == mem'
             o == busy'
  <2>4. Puts(mem, m, o, p, op.row) /\ m \in Contents /\ p \in PageIds
    BY <1>4, <2>1, <2>2 DEF Puts
  <2> HIDE DEF m, o
  <2>5. TellsApart(log, tx_id, o, m, ChainPages \cup {p}, atBegin)
    BY <1>3, <1>4, <2>4, TellsApartPlaced
  <2> QED
    BY <1>0, <1>4, <2>3, <2>5 DEF m, o
<1>6. ASSUME mem' = mem, ~busy'.placed
      PROVE  TellsApart(log', tx_id', busy', mem', ChainPages', atBegin')
  <2> DEFINE o == busy'
  <2>1. ~o.placed
    BY <1>6
  <2> HIDE DEF o
  <2>2. \A p, s : Mine(log, tx_id, o, p, s) <=> Mine(log, tx_id, NoOp, p, s)
    BY <1>3, <2>1 DEF Mine, Unlogged
  <2>3. TellsApart(log, tx_id, o, mem, ChainPages, atBegin)
    BY <1>3, <2>2, TellsApartLogged
  <2> QED
    BY <1>0, <1>4, <1>6, <2>3 DEF o
<1>7. CASE mem' = mem /\ busy' = [op EXCEPT !.fresh = pages + 1]
  BY <1>1, <1>2, <1>6, <1>7 DEF Op
<1>8. CASE mem' = mem /\ busy' = NoOp
  BY <1>3, <1>6, <1>8
<1> QED
  BY <1>0, <1>2, <1>5, <1>7, <1>8, HeapInsertCases DEF BaseInv

LEMMA RestoreLink ==
  ASSUME BaseInv, OwnInv, tx_id # 0, Link
  PROVE  TellsApart(log', tx_id', busy', mem', ChainPages', atBegin')
<1>0. UNCHANGED <<log, tx_id, atBegin>> /\ phase = "up"
  BY LinkPlaces DEF Link, txVars
<1>1. TellsApart(log, tx_id, busy, mem, ChainPages, atBegin) /\ busy.op = "INSERT" /\ ~busy.placed
  BY <1>0, LinkPlaces DEF OwnInv, Labelled
<1>2. ChainPages' = ChainPages \cup {pages} /\ mem[pages] = <<>> /\ pages \in PageIds
  BY LinkPlaces
<1>3. ChainPages \in SUBSET PageIds /\ mem \in Contents
  BY TablePages DEF BaseInv, TypeInv
<1>4. CASE busy.big
  <2>1. busy' = NoOp /\ mem' = mem
    BY <1>4, LinkPlaces
  <2>2. \A p, s : Mine(log, tx_id, NoOp, p, s) <=> Mine(log, tx_id, busy, p, s)
    BY <1>1, ConstantTypes DEF Mine, Unlogged
  <2>3. TellsApart(log, tx_id, NoOp, mem, ChainPages, atBegin)
    BY <1>1, <2>2, TellsApartLogged
  <2>4. DOMAIN mem[pages] = {}
    BY <1>2
  <2>5. TellsApart(log, tx_id, NoOp, mem, ChainPages \cup {pages}, atBegin)
    BY <2>3, <2>4 DEF TellsApart
  <2> QED
    BY <1>0, <1>2, <2>1, <2>5
<1>5. CASE ~busy.big
  <2>1. Placed(busy, pages) /\ HasRoom(mem[pages])
    BY <1>5, LinkPlaces
  <2>2. /\ mem' \in Contents /\ mem'[pages] = PageInsert(mem[pages], busy.row)
        /\ \A q \in PageIds : q # pages => mem'[q] = mem[q]
        /\ busy'.op = "INSERT" /\ busy'.placed /\ busy'.page = pages /\ busy'.slot = Len(mem[pages]) + 1
    BY <1>1, <1>2, <1>3, <2>1 DEF Placed, Contents
  <2> DEFINE m == mem'
             o == busy'
  <2>3. Puts(mem, m, o, pages, busy.row) /\ m \in Contents
    BY <2>1, <2>2 DEF Puts
  <2> HIDE DEF m, o
  <2>4. TellsApart(log, tx_id, o, m, ChainPages \cup {pages}, atBegin)
    BY <1>1, <1>2, <1>3, <2>3, TellsApartPlaced
  <2> QED
    BY <1>0, <1>2, <2>4 DEF m, o
<1> QED
  BY <1>4, <1>5

LEMMA RestoreLog ==
  ASSUME BaseInv, OwnInv, tx_id # 0, Log
  PROVE  TellsApart(log', tx_id', busy', mem', ChainPages', atBegin')
<1>0. UNCHANGED <<mem, chain, tx_id, atBegin>> /\ busy' = NoOp /\ busy.placed
  BY DEF Log, txVars, pageVars
<1>1. phase = "up"
  BY <1>0, ConstantTypes DEF BaseInv, StageInv
<1>2. PICK e \in Record :
        /\ e = [type |-> busy.op, tx |-> tx_id, page |-> busy.page,
                slot |-> busy.slot, new |-> busy.row, old |-> busy.old]
        /\ wal_write(e) /\ busy.op \in {"INSERT", "UPDATE"}
  BY LogRecord
<1>3. busy.op = "INSERT" /\ e.type = "INSERT" /\ e.tx = tx_id /\ e.page = busy.page /\ e.slot = busy.slot
  BY <1>2 DEF OwnInv, Labelled
<1>4. /\ Len(log) + 1 \in DOMAIN log' /\ log'[Len(log) + 1] = e
      /\ \A i \in DOMAIN log : i \in DOMAIN log' /\ log'[i] = log[i]
      /\ \A i \in DOMAIN log' : i \in DOMAIN log \/ i = Len(log) + 1
  BY <1>2, AppendRecord DEF BaseInv
<1> DEFINE l == log'
<1> HIDE DEF l
<1>5. ASSUME NEW p, NEW s PROVE Mine(l, tx_id, NoOp, p, s) <=> Mine(log, tx_id, busy, p, s)
  <2>1. Unlogged(busy, p, s) => \E i \in DOMAIN l : Own(l, tx_id, i, p, s)
    BY <1>3, <1>4 DEF Unlogged, Own, At, l
  <2>2. ASSUME NEW i \in DOMAIN l, Own(l, tx_id, i, p, s)
        PROVE  Unlogged(busy, p, s) \/ \E k \in DOMAIN log : Own(log, tx_id, k, p, s)
    BY <1>0, <1>3, <1>4, <2>2 DEF Unlogged, Own, At, l
  <2>3. ASSUME NEW i \in DOMAIN log, Own(log, tx_id, i, p, s)
        PROVE  \E k \in DOMAIN l : Own(l, tx_id, k, p, s)
    BY <1>4, <2>3 DEF Own, At, l
  <2>4. ~Unlogged(NoOp, p, s)
    BY ConstantTypes DEF Unlogged
  <2> QED
    BY <2>1, <2>2, <2>3, <2>4 DEF Mine
<1>6. TellsApart(log, tx_id, busy, mem, ChainPages, atBegin)
  BY <1>1 DEF OwnInv
<1>7. TellsApart(l, tx_id, NoOp, mem, ChainPages, atBegin)
  BY <1>5, <1>6, TellsApartLogged
<1> QED
  BY <1>0, <1>7, SamePages DEF l

(* A record that is about no row                                           *)
LEMMA RestoreControl ==
  ASSUME BaseInv, OwnInv, tx_id # 0, NEW e \in Record, wal_write(e), e.type \notin DataOps,
         phase = "up", UNCHANGED <<mem, chain, tx_id, atBegin, busy>>
  PROVE  TellsApart(log', tx_id', busy', mem', ChainPages', atBegin')
<1>1. /\ log'[Len(log) + 1] = e /\ e.type # "INSERT"
      /\ \A i \in DOMAIN log : i \in DOMAIN log' /\ log'[i] = log[i]
      /\ \A i \in DOMAIN log' : i \in DOMAIN log \/ i = Len(log) + 1
  BY AppendRecord DEF BaseInv, DataOps
<1> DEFINE l == log'
<1> HIDE DEF l
<1>2. ASSUME NEW i, NEW p, NEW s PROVE Own(l, tx_id, i, p, s) <=> Own(log, tx_id, i, p, s)
  <2>1. Own(log, tx_id, i, p, s) => Own(l, tx_id, i, p, s)
    BY <1>1 DEF Own, At, l
  <2>2. ASSUME Own(l, tx_id, i, p, s) PROVE Own(log, tx_id, i, p, s)
    <3>1. i \in DOMAIN log' /\ log'[i].type = "INSERT"
      BY <2>2 DEF Own, At, l
    <3>2. i \in DOMAIN log /\ log'[i] = log[i]
      BY <1>1, <3>1
    <3> QED
      BY <2>2, <3>2 DEF Own, At, l
  <2> QED
    BY <2>1, <2>2
<1>3. \A p, s : Mine(l, tx_id, busy, p, s) <=> Mine(log, tx_id, busy, p, s)
  <2>1. \A i, p, s : Own(l, tx_id, i, p, s) => i \in DOMAIN l
    BY DEF Own, At
  <2>2. \A i, p, s : Own(log, tx_id, i, p, s) => i \in DOMAIN log
    BY DEF Own, At
  <2> QED
    BY <1>2, <2>1, <2>2 DEF Mine
<1>4. TellsApart(log, tx_id, busy, mem, ChainPages, atBegin)
  BY DEF OwnInv
<1>5. TellsApart(l, tx_id, busy, mem, ChainPages, atBegin)
  BY <1>3, <1>4, TellsApartLogged
<1> QED
  BY <1>5, SamePages DEF l

LEMMA OwnStep ==
  ASSUME BaseInv, OwnInv, [Next]_vars, TxStatements \subseteq {"INSERT"},
         MaxLog <= MaxEntries, MaxLog <= MaxUndo
  PROVE  OwnInv'
<1>0. Labelled /\ Labelled'
  BY LabelledStep DEF OwnInv
<1> DEFINE Restores ==
      /\ tx_id # 0 /\ phase = "up" => TellsApart(log, tx_id, busy, mem, ChainPages, atBegin)
      /\ phase \in {"rollback", "rollback_to"} =>
           WillRestore(log, tx_id, Kept, work, disk, ChainPages, atBegin)
<1> SUFFICES Restores'
  BY <1>0 DEF OwnInv
<1>1. CASE UNCHANGED vars
  BY <1>1 DEF vars, OwnInv, TellsApart, WillRestore, Mine, Unlogged, Own, At, ChainPages, Kept
<1>2. ASSUME phase' = "up", tx_id' = 0 PROVE Restores'
  BY <1>2
<1>3. ASSUME phase' = "up", TellsApart(log', tx_id', busy', mem', ChainPages', atBegin')
      PROVE  Restores'
  BY <1>3
<1>4. ASSUME NEW big \in Oversize, Insert(big) PROVE Restores'
  <2>1. phase' = "up" /\ tx_id' = tx_id
    BY <1>4 DEF Insert, Ready, workVars, txVars
  <2> HIDE DEF Restores
  <2> QED
    BY <1>2, <1>3, <1>4, <2>1, RestoreInsert
<1>5. ASSUME NEW p \in PageIds, NEW s \in 1 .. Slots, NEW big \in Oversize, Update(p, s, big)
      PROVE  Restores'
  <2>1. phase' = "up" /\ tx_id' = tx_id /\ Uses("UPDATE")
    BY <1>5 DEF Update, Ready, workVars, txVars
  <2>2. tx_id = 0
    BY <2>1 DEF Uses
  <2> QED
    BY <1>2, <2>1, <2>2
<1>6. ASSUME NEW p \in PageIds, NEW s \in 1 .. Slots, Delete(p, s) PROVE Restores'
  <2>1. phase' = "up" /\ tx_id' = tx_id /\ Uses("DELETE")
    BY <1>6 DEF Delete, Ready, workVars, txVars
  <2>2. tx_id = 0
    BY <2>1 DEF Uses
  <2> QED
    BY <1>2, <2>1, <2>2
<1>7. ASSUME DeleteSlot \/ PlaceUpdated PROVE Restores'
  <2>1. busy.op \in {"DELETE", "UPDATE"} /\ tx_id' = tx_id /\ phase' = phase
    BY <1>7 DEF DeleteSlot, PlaceUpdated, workVars, txVars
  <2>2. tx_id = 0 /\ phase = "up"
    BY <1>0, <2>1, ConstantTypes DEF Labelled, BaseInv, StageInv
  <2> QED
    BY <1>2, <2>1, <2>2
<1>8. ASSUME Link PROVE Restores'
  <2>1. phase' = "up" /\ tx_id' = tx_id
    BY <1>8, LinkPlaces DEF Link, workVars, txVars
  <2> HIDE DEF Restores
  <2> QED
    BY <1>2, <1>3, <1>8, <2>1, RestoreLink
<1>9. ASSUME Log PROVE Restores'
  <2>1. phase' = phase /\ tx_id' = tx_id /\ busy.placed
    BY <1>9 DEF Log, workVars, txVars
  <2>2. phase = "up"
    BY <2>1, ConstantTypes DEF BaseInv, StageInv
  <2> HIDE DEF Restores
  <2> QED
    BY <1>2, <1>3, <1>9, <2>1, <2>2, RestoreLog
<1>10. ASSUME NEW p \in PageIds, WriteBack(p) PROVE Restores'
  <2>1. UNCHANGED <<log, tx_id, busy, mem, chain, atBegin, phase>> /\ phase = "up"
    BY <1>10 DEF WriteBack, workVars, txVars
  <2> QED
    BY <2>1, SamePages DEF OwnInv
<1>11. ASSUME Begin PROVE Restores'
  <2>1. phase' = "up"
    BY <1>11 DEF Begin, Ready, workVars
  <2> HIDE DEF Restores
  <2> QED
    BY <1>0, <1>3, <1>11, <2>1, RestoreBegin
<1>12. ASSUME Commit PROVE Restores'
  BY <1>2, <1>12 DEF Commit, Ready, workVars
<1>13. ASSUME NEW name \in Names, Savepoint(name) PROVE Restores'
  <2>1. /\ UNCHANGED <<mem, chain, tx_id, atBegin, busy, phase>> /\ phase = "up" /\ tx_id # 0
        /\ wal_write(Control("SAVEPOINT", tx_id))
    BY <1>13 DEF Savepoint, Ready, workVars, pageVars
  <2>2. Control("SAVEPOINT", tx_id) \in Record /\ Control("SAVEPOINT", tx_id).type \notin DataOps
    <3>1. tx_id \in Nat
      BY DEF BaseInv, TypeInv
    <3> QED
      BY <3>1, ControlRecord DEF DataOps
  <2>3. TellsApart(log', tx_id', busy', mem', ChainPages', atBegin')
    BY <2>1, <2>2, RestoreControl
  <2> HIDE DEF Restores
  <2> QED
    BY <1>3, <2>1, <2>3
<1>14. ASSUME NEW next \in {"rollback", "closing"}, RollbackBegin(next) PROVE Restores'
  <2>1. phase' = next
    BY <1>14 DEF RollbackBegin
  <2>2. CASE next = "rollback"
    <3>1. WillRestore(log', tx_id', 0, work', disk', ChainPages', atBegin')
      BY <1>14, <2>2, RestoreRollbackBegin
    <3>2. Kept' = 0
      BY <2>1, <2>2 DEF Kept
    <3> QED
      BY <2>1, <2>2, <3>1, <3>2
  <2>3. CASE next = "closing"
    BY <2>1, <2>3
  <2> QED
    BY <2>2, <2>3
<1>15. ASSUME NEW name \in Names, RollbackToBegin(name) PROVE Restores'
  <2>1. phase' = "rollback_to"
    BY <1>15 DEF RollbackToBegin
  <2> QED
    BY <1>15, <2>1, RestoreRollbackToBegin
<1>16. ASSUME ApplyStep PROVE Restores'
  <2>1. phase' = phase /\ phase # "up"
    BY <1>16 DEF ApplyStep, BaseInv, StageInv
  <2> QED
    BY <1>16, <2>1, RestoreApplyStep
<1>17. ASSUME RollbackEnd PROVE Restores'
  BY <1>2, <1>17 DEF RollbackEnd
<1>18. ASSUME RollbackToEnd PROVE Restores'
  <2>1. phase' = "up"
    BY <1>18 DEF RollbackToEnd
  <2> QED
    BY <1>18, <2>1, RestoreRollbackToEnd
<1>19. ASSUME Shutdown PROVE Restores'
  <2>1. phase' = "up" /\ tx_id' = 0
    BY <1>19 DEF Shutdown, Reopened
  <2> QED
    BY <1>2, <2>1
<1>20. ASSUME Crash PROVE Restores'
  BY <1>20 DEF Crash
<1>21. ASSUME RecoverEnd PROVE Restores'
  <2>1. phase' = "up" /\ tx_id' = 0
    BY <1>0, <1>21 DEF RecoverEnd, txVars, Labelled
  <2> QED
    BY <1>2, <2>1
<1> HIDE DEF Restores
<1> QED
  BY <1>1, <1>4, <1>5, <1>6, <1>7, <1>8, <1>9, <1>10, <1>11, <1>12, <1>13, <1>14, <1>15, <1>16, <1>17,
     <1>18, <1>19, <1>20, <1>21 DEF Next

LEMMA InitOwn == Init => OwnInv
<1> SUFFICES ASSUME Init PROVE OwnInv
  OBVIOUS
<1>1. log = <<>> /\ DOMAIN log = {} /\ tx_id = 0 /\ atBegin = {} /\ phase = "up" /\ txs = <<>>
  BY DEF Init
<1> QED
  BY <1>1 DEF OwnInv, Labelled

(* ROLLBACK gives back the rows of the table as BEGIN found them: of a     *)
(* transaction that only inserts, after any of its ROLLBACK TO, and with   *)
(* every record of the log within reach of the undo.                       *)
THEOREM RollbackRestoresSafe ==
  /\ TxStatements \subseteq {"INSERT"}
  /\ MaxLog <= MaxEntries /\ MaxLog <= MaxUndo
  => (Spec => RollbackRestores)
<1> SUFFICES ASSUME TxStatements \subseteq {"INSERT"}, MaxLog <= MaxEntries, MaxLog <= MaxUndo
             PROVE  Spec => RollbackRestores
  OBVIOUS
<1>1. Init => BaseInv /\ OwnInv
  BY InitBase, InitOwn
<1>2. BaseInv /\ OwnInv /\ [Next]_vars => (BaseInv /\ OwnInv)'
  BY BaseStep, OwnStep
<1>3. BaseInv /\ OwnInv /\ [Next]_vars =>
        [phase = "rollback" /\ phase' = "up" => RowsIn(mem', chain') = atBegin]_vars
  <2> SUFFICES ASSUME BaseInv, OwnInv, Next, phase = "rollback", phase' = "up"
               PROVE  RowsIn(mem', chain') = atBegin
    BY DEF vars
  <2>1. RollbackEnd
    <3>1. phase # "up" /\ phase # "rollback_to" /\ phase # "closing" /\ phase # "recover" /\ busy = NoOp
      BY DEF BaseInv, StageInv
    <3> QED
      BY <3>1, ConstantTypes DEF Next, Insert, Update, Delete, Ready, DeleteSlot, PlaceUpdated, Link, Log,
         WriteBack, Begin, Commit, Savepoint, RollbackBegin, RollbackToBegin, ApplyStep, RollbackToEnd,
         Shutdown, Crash, RecoverEnd
  <2>2. mem' = disk /\ chain' = chain /\ work = <<>> /\ DOMAIN work = {}
    BY <2>1 DEF RollbackEnd, Reread
  <2>3. WillRestore(log, tx_id, 0, work, disk, ChainPages, atBegin)
    BY DEF OwnInv, Kept
  <2>4. \A i \in DOMAIN log : ~(i <= 0)
    <3>1. log \in Seq(Record)
      BY DEF BaseInv, TypeInv
    <3> QED
      BY <3>1
  <2>5. ASSUME NEW r PROVE r \in RowsOf(disk) <=> r \in atBegin
    <3>1. r \in RowsOf(disk) <=> r # Deleted /\ \E p \in ChainPages : \E s \in DOMAIN disk[p] : disk[p][s] = r
      BY TablePages DEF BaseInv
    <3>2. ASSUME NEW p \in ChainPages, NEW s \in DOMAIN disk[p], disk[p][s] # Deleted
          PROVE  disk[p][s] \in atBegin
      BY <2>2, <2>3, <2>4, <3>2 DEF WillRestore
    <3>3. r \in atBegin => \E p \in ChainPages : \E s \in DOMAIN disk[p] : disk[p][s] = r
      BY <2>3 DEF WillRestore
    <3>4. r \in atBegin => r # Deleted
      BY DEF OwnInv, Labelled
    <3> QED
      BY <3>1, <3>2, <3>3, <3>4
  <2>6. RowsIn(mem', chain') = RowsOf(disk)
    BY <2>2 DEF RowsOf
  <2> HIDE DEF RowsOf
  <2>7. RowsOf(disk) \subseteq atBegin /\ atBegin \subseteq RowsOf(disk)
    BY <2>5
  <2> QED
    BY <2>6, <2>7
<1> QED
  BY <1>1, <1>2, <1>3, PTL DEF Spec, RollbackRestores

-----------------------------------------------------------------------------
(***************************************************************************)
(* The engine implements TxnStore. Working, durable and own rows of        *)
(* TxnStore are sets; the engine has slots of pages, written back at any   *)
(* time, and the log. The invariants below say where each row is and what  *)
(* replaying the log makes of it; then each step of the engine is shown to *)
(* be a step of TxnStore or to change none of its variables.               *)
(***************************************************************************)

-----------------------------------------------------------------------------
(* Replaying in parts                                                      *)

(* No steps change nothing; one step is Apply; a replay is the replay of   *)
(* its first steps and then of the others.                                 *)
LEMMA ReplayNothing ==
  ASSUME NEW pgs \in Contents
  PROVE  ApplyAll[<<pgs, <<>>>>] = pgs
<1>1. <<>> \in Seq(Steps) /\ Len(<<>>) = 0
  OBVIOUS
<1>2. PICK f : Replays(f, pgs, <<>>) /\ ApplyAll[<<pgs, <<>>>>] = f[Len(<<>>)]
  BY <1>1, ApplyAllReplays
<1> QED
  BY <1>1, <1>2 DEF Replays

LEMMA ReplayParts ==
  ASSUME NEW pgs \in Contents, NEW a \in Seq(Steps), NEW b \in Seq(Steps)
  PROVE  ApplyAll[<<pgs, a \o b>>] = ApplyAll[<<ApplyAll[<<pgs, a>>], b>>]
<1> DEFINE w == a \o b
           M == Len(a)
           N == Len(b)
           mid == ApplyAll[<<pgs, a>>]
<1>1. /\ w \in Seq(Steps) /\ Len(w) = M + N /\ M \in Nat /\ N \in Nat
      /\ \A n \in 1 .. M : w[n] = a[n]
      /\ \A k \in 1 .. N : w[M + k] = b[k]
  <2>1. w \in Seq(Steps) /\ Len(w) = M + N /\ M \in Nat /\ N \in Nat
    OBVIOUS
  <2>2. \A n \in 1 .. M : w[n] = a[n]
    OBVIOUS
  <2>3. \A k \in 1 .. N : w[M + k] = b[k]
    OBVIOUS
  <2> HIDE DEF w, M, N
  <2> QED
    BY <2>1, <2>2, <2>3
<1>2. PICK f : Replays(f, pgs, w) /\ ApplyAll[<<pgs, w>>] = f[Len(w)]
  BY <1>1, ApplyAllReplays
<1>3. PICK g : Replays(g, pgs, a) /\ mid = g[M]
  BY ApplyAllReplays
<1>4. mid \in Contents
  BY ApplyAllType
<1>5. PICK h : Replays(h, mid, b) /\ ApplyAll[<<mid, b>>] = h[N]
  BY <1>4, ApplyAllReplays
<1> HIDE DEF w, M, N, mid
<1>6. \A n \in 0 .. M : n \in {k \in 0 .. M : f[k] = g[k]}
  <2> DEFINE Good == {k \in 0 .. M : f[k] = g[k]}
  <2>1. 0 \in Good
    BY <1>1, <1>2, <1>3 DEF Replays
  <2>2. ASSUME NEW n \in 1 .. M, n - 1 \in Good PROVE n \in Good
    <3>1. n \in 1 .. Len(w) /\ n \in 1 .. Len(a) /\ n \in 0 .. M /\ w[n] = a[n]
      BY <1>1 DEF M
    <3>2. f[n] = Apply(f[n - 1], w[n]) /\ g[n] = Apply(g[n - 1], a[n])
      BY <1>2, <1>3, <3>1 DEF Replays
    <3> QED
      BY <2>2, <3>1, <3>2
  <2> HIDE DEF Good
  <2>3. \A n \in 0 .. M : n \in Good
    BY <1>1, <2>1, <2>2, Induction
  <2> QED
    BY <2>3 DEF Good
<1>7. f[M] = mid
  <2>1. M \in 0 .. M
    BY <1>1
  <2> QED
    BY <1>3, <1>6, <2>1
<1>8. \A n \in 0 .. N : n \in {k \in 0 .. N : f[M + k] = h[k]}
  <2> DEFINE Good == {k \in 0 .. N : f[M + k] = h[k]}
  <2>1. 0 \in Good
    BY <1>1, <1>5, <1>7 DEF Replays
  <2>2. ASSUME NEW n \in 1 .. N, n - 1 \in Good PROVE n \in Good
    <3>1. M + n \in 1 .. M + N /\ n \in 0 .. N /\ M + n - 1 = M + (n - 1)
      BY <1>1
    <3> DEFINE k == M + n
    <3>7. w[k] = b[n]
      BY <1>1
    <3>8. n \in 1 .. Len(b)
      BY DEF N
    <3>2. k \in 1 .. Len(w) /\ w[k] = b[n] /\ n \in 1 .. Len(b)
      BY <1>1, <3>1, <3>7, <3>8
    <3> HIDE DEF k
    <3>3. f[k] = Apply(f[k - 1], w[k])
      BY <1>2, <3>2 DEF Replays
    <3>4. h[n] = Apply(h[n - 1], b[n])
      BY <1>5, <3>2 DEF Replays
    <3>5. f[M + (n - 1)] = h[n - 1]
      BY <2>2
    <3>6. k - 1 = M + (n - 1)
      BY <1>1 DEF k
    <3>9. f[k] = h[n]
      BY <3>2, <3>3, <3>4, <3>5, <3>6
    <3> QED
      BY <3>1, <3>9 DEF k
  <2> HIDE DEF Good
  <2>3. \A n \in 0 .. N : n \in Good
    BY <1>1, <2>1, <2>2, Induction
  <2> QED
    BY <2>3 DEF Good
<1>9. f[M + N] = h[N]
  <2>1. N \in 0 .. N
    BY <1>1
  <2> QED
    BY <1>8, <2>1
<1> QED
  BY <1>1, <1>2, <1>5, <1>9 DEF w, mid

LEMMA ReplayOne ==
  ASSUME NEW pgs \in Contents, NEW w \in Seq(Steps), w # <<>>
  PROVE  ApplyAll[<<pgs, w>>] = ApplyAll[<<Apply(pgs, Head(w)), Tail(w)>>]
<1>1. Head(w) \in Steps /\ Tail(w) \in Seq(Steps) /\ w = <<Head(w)>> \o Tail(w)
  <2>1. Head(w) \in Steps /\ Tail(w) \in Seq(Steps)
    OBVIOUS
  <2>2. w = <<Head(w)>> \o Tail(w)
    OBVIOUS
  <2> QED
    BY <2>1, <2>2
<1> DEFINE a == <<Head(w)>>
<1>2. a \in Seq(Steps) /\ Len(a) = 1 /\ a[1] = Head(w)
  BY <1>1
<1> HIDE DEF a
<1>3. PICK f : Replays(f, pgs, a) /\ ApplyAll[<<pgs, a>>] = f[Len(a)]
  BY <1>2, ApplyAllReplays
<1>4. 1 \in 1 .. Len(a) /\ 1 - 1 = 0
  BY <1>2
<1>5. ApplyAll[<<pgs, a>>] = Apply(pgs, Head(w))
  BY <1>2, <1>3, <1>4 DEF Replays
<1>6. w = a \o Tail(w)
  BY <1>1 DEF a
<1>7. ApplyAll[<<pgs, a \o Tail(w)>>] = ApplyAll[<<ApplyAll[<<pgs, a>>], Tail(w)>>]
  BY <1>1, <1>2, ReplayParts
<1> QED
  BY <1>5, <1>6, <1>7

(* The pages with the slots in E emptied, and the slots that steps name    *)
Emptied(pgs, E) ==
  [p \in PageIds |-> [s \in DOMAIN pgs[p] |-> IF <<p, s>> \in E THEN Deleted ELSE pgs[p][s]]]
Named(w, n) == {<<w[k].rec.page, w[k].rec.slot>> : k \in 1 .. n}

LEMMA EmptiedShape ==
  ASSUME NEW pgs \in Contents, NEW E
  PROVE  /\ Emptied(pgs, E) \in Contents
         /\ \A p \in PageIds : /\ Emptied(pgs, E)[p] \in Page
                               /\ DOMAIN Emptied(pgs, E)[p] = DOMAIN pgs[p]
                               /\ Len(Emptied(pgs, E)[p]) = Len(pgs[p])
                               /\ \A s \in DOMAIN pgs[p] :
                                    Emptied(pgs, E)[p][s] = IF <<p, s>> \in E THEN Deleted ELSE pgs[p][s]
<1>1. ASSUME NEW p \in PageIds
      PROVE  /\ Emptied(pgs, E)[p] \in Page
             /\ DOMAIN Emptied(pgs, E)[p] = DOMAIN pgs[p]
             /\ Len(Emptied(pgs, E)[p]) = Len(pgs[p])
             /\ \A s \in DOMAIN pgs[p] :
                  Emptied(pgs, E)[p][s] = IF <<p, s>> \in E THEN Deleted ELSE pgs[p][s]
  <2> DEFINE m == pgs[p]
             g == [s \in DOMAIN m |-> IF <<p, s>> \in E THEN Deleted ELSE m[s]]
  <2>1. Emptied(pgs, E)[p] = g
    BY DEF Emptied
  <2>2. /\ m \in Seq(Slot) /\ DOMAIN m = 1 .. Len(m) /\ Len(m) \in Nat /\ Len(m) <= Slots
        /\ \A s \in DOMAIN m : m[s] \in Slot
    BY PageShape
  <2> HIDE DEF m
  <2>3. g \in [1 .. Len(m) -> Slot]
    BY <2>2 DEF Slot
  <2>4. g \in Seq(Slot) /\ Len(g) = Len(m)
    <3> HIDE DEF g
    <3> QED
      BY <2>2, <2>3
  <2>5. g \in Page /\ DOMAIN g = DOMAIN m /\ \A s \in DOMAIN m : g[s] = IF <<p, s>> \in E THEN Deleted ELSE m[s]
    BY <2>2, <2>4 DEF Page
  <2> HIDE DEF g
  <2> QED
    BY <2>1, <2>4, <2>5 DEF m
<1>2. Emptied(pgs, E) \in Contents
  <2> DEFINE f == Emptied(pgs, E)
  <2>1. f = [p \in PageIds |-> f[p]]
    BY DEF Emptied
  <2>2. \A p \in PageIds : f[p] \in Page
    BY <1>1
  <2> HIDE DEF f
  <2>3. f \in Contents
    BY <2>1, <2>2 DEF Contents
  <2> QED
    BY <2>3 DEF f
<1> HIDE DEF Emptied
<1> QED
  BY <1>1, <1>2

(* Two contents with the same slots are the same.                          *)
LEMMA SameContents ==
  ASSUME NEW a \in Contents, NEW b \in Contents,
         \A p \in PageIds : DOMAIN a[p] = DOMAIN b[p] /\ \A s \in DOMAIN b[p] : a[p][s] = b[p][s]
  PROVE  a = b
<1>1. ASSUME NEW p \in PageIds PROVE a[p] = b[p]
  <2> DEFINE x == a[p]
             y == b[p]
  <2>1. x \in Seq(Slot) /\ y \in Seq(Slot) /\ DOMAIN x = DOMAIN y /\ \A s \in DOMAIN y : x[s] = y[s]
    BY PageShape
  <2> HIDE DEF x, y
  <2>2. x = y
    BY <2>1
  <2> QED
    BY <2>2 DEF x, y
<1> QED
  BY <1>1 DEF Contents

(* To undo insertions is to empty the slots they name.                     *)
LEMMA UndoEmpties ==
  ASSUME NEW pgs \in Contents, NEW w \in Seq(Steps),
         \A n \in DOMAIN w : w[n].does = "undo" /\ w[n].rec.type = "INSERT"
  PROVE  ApplyAll[<<pgs, w>>] = Emptied(pgs, Named(w, Len(w)))
<1>1. PICK f : Replays(f, pgs, w) /\ ApplyAll[<<pgs, w>>] = f[Len(w)]
  BY ApplyAllReplays
<1> DEFINE N == Len(w)
           Good == {n \in 0 .. N : f[n] = Emptied(pgs, Named(w, n))}
<1>2. N \in Nat /\ DOMAIN w = 1 .. N
  OBVIOUS
<1>3. f \in [0 .. N -> Contents] /\ f[0] = pgs /\ \A n \in 1 .. N : f[n] = Apply(f[n - 1], w[n])
  BY <1>1 DEF Replays
<1> HIDE DEF N
<1>4. 0 \in Good
  <2>1. Named(w, 0) = {}
    <3>1. 1 .. 0 = {}
      OBVIOUS
    <3> QED
      BY <3>1 DEF Named
  <2>2. pgs = Emptied(pgs, {})
    <3> DEFINE E == {}
               y == Emptied(pgs, E)
    <3>1. \A x : x \notin E
      OBVIOUS
    <3> HIDE DEF E
    <3>2. y \in Contents /\ \A p \in PageIds : DOMAIN y[p] = DOMAIN pgs[p] /\ \A s \in DOMAIN pgs[p] :
                    y[p][s] = IF <<p, s>> \in E THEN Deleted ELSE pgs[p][s]
      BY EmptiedShape
    <3> HIDE DEF y
    <3>3. \A p \in PageIds : DOMAIN y[p] = DOMAIN pgs[p] /\ \A s \in DOMAIN pgs[p] : y[p][s] = pgs[p][s]
      BY <3>1, <3>2
    <3>4. y = pgs
      BY <3>2, <3>3, SameContents
    <3> QED
      BY <3>4 DEF y, E
  <2>3. 0 \in 0 .. N
    BY <1>2
  <2> QED
    BY <1>3, <2>1, <2>2, <2>3
<1>5. ASSUME NEW n \in 1 .. N, n - 1 \in Good PROVE n \in Good
  <2> DEFINE e == w[n].rec
             E == Named(w, n - 1)
             z == Emptied(pgs, E)
  <2>1. n \in DOMAIN w /\ w[n] \in Steps /\ n \in 0 .. N /\ n - 1 \in 0 .. N
    BY <1>2
  <2>2. w[n].does = "undo" /\ e.type = "INSERT"
    BY <2>1
  <2>3. f[n - 1] = z /\ z \in Contents /\ f[n] \in Contents
    BY <1>3, <1>5, <2>1, EmptiedShape
  <2>4. f[n] = [z EXCEPT ![e.page] = PageDelete(@, e.slot)]
    <3>1. f[n] = Apply(z, w[n])
      BY <1>3, <2>3
    <3> HIDE DEF z
    <3> QED
      BY <2>2, <3>1 DEF Apply, Undo
  <2>5. Named(w, n) = E \cup {<<e.page, e.slot>>}
    <3>1. 1 .. n = (1 .. n - 1) \cup {n}
      OBVIOUS
    <3> QED
      BY <3>1 DEF Named
  <2>6. ASSUME NEW p \in PageIds
        PROVE  /\ DOMAIN f[n][p] = DOMAIN pgs[p]
               /\ \A s \in DOMAIN pgs[p] :
                    f[n][p][s] = IF <<p, s>> \in Named(w, n) THEN Deleted ELSE pgs[p][s]
    <3>1. /\ z[p] \in Page /\ DOMAIN z[p] = DOMAIN pgs[p]
          /\ \A s \in DOMAIN pgs[p] : z[p][s] = IF <<p, s>> \in E THEN Deleted ELSE pgs[p][s]
      BY EmptiedShape
    <3> HIDE DEF z, E, e
    <3>2. CASE p = e.page
      <4>1. f[n][p] = PageDelete(z[p], e.slot)
        BY <2>3, <2>4, <3>2 DEF Contents
      <4>2. /\ DOMAIN PageDelete(z[p], e.slot) = DOMAIN z[p]
            /\ e.slot \in DOMAIN z[p] => PageDelete(z[p], e.slot)[e.slot] = Deleted
            /\ \A k \in DOMAIN z[p] : k # e.slot => PageDelete(z[p], e.slot)[k] = z[p][k]
        BY <3>1, DeleteGrows
      <4> QED
        BY <2>5, <3>1, <3>2, <4>1, <4>2
    <3>3. CASE p # e.page
      <4>1. f[n][p] = z[p]
        BY <2>3, <2>4, <3>3 DEF Contents
      <4> QED
        BY <2>5, <3>1, <3>3, <4>1
    <3> QED
      BY <3>2, <3>3
  <2>7. f[n] = Emptied(pgs, Named(w, n))
    <3> DEFINE y == Emptied(pgs, Named(w, n))
    <3>1. y \in Contents /\ \A p \in PageIds : DOMAIN y[p] = DOMAIN pgs[p] /\ \A s \in DOMAIN pgs[p] :
                    y[p][s] = IF <<p, s>> \in Named(w, n) THEN Deleted ELSE pgs[p][s]
      BY EmptiedShape
    <3> HIDE DEF y, z, e, E
    <3>2. \A p \in PageIds : DOMAIN f[n][p] = DOMAIN y[p] /\ \A s \in DOMAIN y[p] : f[n][p][s] = y[p][s]
      BY <2>6, <3>1
    <3>3. f[n] = y
      BY <2>3, <3>1, <3>2, SameContents
    <3> QED
      BY <3>3 DEF y
  <2> QED
    BY <2>1, <2>7
<1>6. \A n \in 0 .. N : n \in Good
  <2> HIDE DEF Good
  <2> QED
    BY <1>2, <1>4, <1>5, Induction
<1>7. N \in 0 .. N
  BY <1>2
<1> QED
  BY <1>1, <1>6, <1>7 DEF N

-----------------------------------------------------------------------------
(* What recovery leaves                                                    *)

(* The file d is between the pages x and what the log l says of them.      *)
Replayable(l, d, x) ==
  Agrees(l, x, NoOp) /\ \A p \in PageIds : Behind(l, d[p], x[p], NoOp, p)

(* The insertions of unfinished transactions: their records, slots, rows   *)
OpenInserts(l) == {i \in DOMAIN l : l[i].type = "INSERT" /\ l[i].tx \in Unfinished(l)}
OpenSlots(l)   == {<<l[i].page, l[i].slot>> : i \in OpenInserts(l)}
Pending(l)     == {l[i].new : i \in OpenInserts(l)}

(* Recovery can read the whole log, and all it has to undo is insertions.  *)
Recoverable(l) ==
  /\ l \in Seq(Record) /\ Len(l) <= MaxEntries
  /\ \A i \in DOMAIN l : l[i].type # "UPDATE"
  /\ \A i \in DataIn(l) : l[i].page \in PageIds
  /\ \A i \in DataIn(l) : l[i].tx \in Unfinished(l) => l[i].type = "INSERT"

(* The undo of insertions names their slots.                               *)
SlotsOf(l, I) == {<<l[i].page, l[i].slot>> : i \in I}

(* The steps u undo exactly the records J of the log l.                   *)
UndoesAll(u, l, J) ==
  /\ u \in Seq(Steps) /\ DOMAIN u = 1 .. Len(u)
  /\ \A n \in DOMAIN u : \E i \in J : u[n] = Step("undo", l[i])
  /\ \A i \in J : \E n \in DOMAIN u : u[n] = Step("undo", l[i])
  /\ Named(u, Len(u)) = SlotsOf(l, J)

LEMMA UndoingNames ==
  ASSUME NEW l \in Seq(Record), NEW I \in SUBSET Nat, NEW J,
         \A i : i \in I \cap DataIn(l) <=> i \in J
  PROVE  UndoesAll(Undoing[<<l, I>>], l, J)
<1> DEFINE u == Undoing[<<l, I>>]
<1>1. Undoes(u, l, I \cap DataIn(l))
  BY UndoingUndoes
<1> HIDE DEF u
<1>2. /\ u \in Seq(Steps) /\ DOMAIN u = 1 .. Len(u)
      /\ \A n \in 1 .. Len(u) : \E i \in J : u[n] = Step("undo", l[i])
      /\ \A i \in J : \E n \in 1 .. Len(u) : u[n] = Step("undo", l[i])
  <2>1. u \in Seq(Steps) /\ DOMAIN u = 1 .. Len(u)
    BY <1>1 DEF Undoes
  <2>2. \A n \in 1 .. Len(u) : \E i \in J : u[n] = Step("undo", l[i])
    BY <1>1 DEF Undoes
  <2>3. \A i \in J : \E n \in 1 .. Len(u) : u[n] = Step("undo", l[i])
    BY <1>1 DEF Undoes
  <2> QED
    BY <2>1, <2>2, <2>3
<1>3. ASSUME NEW x PROVE x \in Named(u, Len(u)) <=> x \in SlotsOf(l, J)
  <2>1. x \in Named(u, Len(u)) => x \in SlotsOf(l, J)
    <3> SUFFICES ASSUME NEW n \in 1 .. Len(u), x = <<u[n].rec.page, u[n].rec.slot>>
                 PROVE  x \in SlotsOf(l, J)
      BY DEF Named
    <3>1. PICK i \in J : u[n] = Step("undo", l[i])
      BY <1>2
    <3> QED
      BY <3>1 DEF Step, SlotsOf
  <2>2. x \in SlotsOf(l, J) => x \in Named(u, Len(u))
    <3> SUFFICES ASSUME NEW i \in J, x = <<l[i].page, l[i].slot>>
                 PROVE  x \in Named(u, Len(u))
      BY DEF SlotsOf
    <3>1. PICK n \in 1 .. Len(u) : u[n] = Step("undo", l[i])
      BY <1>2
    <3> QED
      BY <3>1 DEF Step, Named
  <2> QED
    BY <2>1, <2>2
<1>4. Named(u, Len(u)) = SlotsOf(l, J)
  BY <1>3
<1>5. UndoesAll(u, l, J)
  BY <1>2, <1>4 DEF UndoesAll
<1> QED
  BY <1>5 DEF u

LEMMA RecoveryParts ==
  ASSUME NEW l, Recoverable(l)
  PROVE  \E u \in Seq(Steps) :
           /\ RecoveryWork(l) = Redoing[l] \o u
           /\ \A n \in DOMAIN u : \E i \in OpenInserts(l) : u[n] = Step("undo", l[i])
           /\ Named(u, Len(u)) = OpenSlots(l)
<1> DEFINE I == {i \in DOMAIN l : l[i].tx \in Unfinished(l)}
           u == Undoing[<<l, I>>]
<1>1. l \in Seq(Record) /\ Len(l) \in Nat /\ Len(l) <= MaxEntries /\ MaxEntries \in Nat
  BY ConstantTypes DEF Recoverable
<1>2. First(l, MaxEntries) = l
  BY <1>1 DEF First
<1>3. RecoveryWork(l) = Redoing[l] \o u
  BY <1>2 DEF RecoveryWork
<1>4. I \in SUBSET Nat
  BY <1>1
<1>5. \A i : i \in I \cap DataIn(l) <=> i \in OpenInserts(l)
  BY DEF Recoverable, OpenInserts, DataIn, DataOps
<1> HIDE DEF I
<1>6. /\ u \in Seq(Steps)
      /\ \A n \in DOMAIN u : \E i \in OpenInserts(l) : u[n] = Step("undo", l[i])
      /\ Named(u, Len(u)) = SlotsOf(l, OpenInserts(l))
  <2>1. UndoesAll(u, l, OpenInserts(l))
    BY <1>1, <1>4, <1>5, UndoingNames
  <2> HIDE DEF u
  <2> QED
    BY <2>1 DEF UndoesAll
<1> HIDE DEF u
<1> QED
  BY <1>3, <1>6 DEF OpenSlots, SlotsOf

(* Recovery leaves the pages, with these slots emptied.                    *)
LEMMA RecoveryLeaves ==
  ASSUME NEW l, Recoverable(l), NEW d \in Contents, NEW x \in Contents, Replayable(l, d, x)
  PROVE  ApplyAll[<<d, RecoveryWork(l)>>] = Emptied(x, OpenSlots(l))
<1>1. PICK u \in Seq(Steps) :
           /\ RecoveryWork(l) = Redoing[l] \o u
           /\ \A n \in DOMAIN u : \E i \in OpenInserts(l) : u[n] = Step("undo", l[i])
           /\ Named(u, Len(u)) = OpenSlots(l)
  BY RecoveryParts
<1>2. ApplyAll[<<d, Redoing[l]>>] = x
  BY RedoRebuilds DEF Recoverable, Replayable
<1>3. Redoing[l] \in Seq(Steps)
  BY RedoingAbout DEF About, Recoverable
<1>4. ApplyAll[<<d, RecoveryWork(l)>>] = ApplyAll[<<x, u>>]
  <2> DEFINE a == Redoing[l]
  <2>1. a \in Seq(Steps) /\ ApplyAll[<<d, a>>] = x /\ RecoveryWork(l) = a \o u
    BY <1>1, <1>2, <1>3
  <2> HIDE DEF a
  <2>2. ApplyAll[<<d, a \o u>>] = ApplyAll[<<ApplyAll[<<d, a>>], u>>]
    BY <2>1, ReplayParts
  <2> QED
    BY <2>1, <2>2
<1>5. \A n \in DOMAIN u : u[n].does = "undo" /\ u[n].rec.type = "INSERT"
  BY <1>1 DEF Step, OpenInserts
<1>6. ApplyAll[<<x, u>>] = Emptied(x, Named(u, Len(u)))
  BY <1>5, UndoEmpties
<1> QED
  BY <1>1, <1>4, <1>6

(* The rows of emptied pages                                               *)
LEMMA EmptiedRows ==
  ASSUME TypeInv, NEW pgs \in Contents, NEW E, NEW R,
         \A p \in PageIds : \A s \in DOMAIN pgs[p] :
           pgs[p][s] # Deleted => (<<p, s>> \in E <=> pgs[p][s] \in R)
  PROVE  RowsOf(Emptied(pgs, E)) = RowsOf(pgs) \ R
<1> DEFINE y == Emptied(pgs, E)
<1>1. \A p \in PageIds : DOMAIN y[p] = DOMAIN pgs[p] /\ \A s \in DOMAIN pgs[p] :
                    y[p][s] = IF <<p, s>> \in E THEN Deleted ELSE pgs[p][s]
  BY EmptiedShape
<1> HIDE DEF y
<1>2. /\ ChainPages \in SUBSET PageIds
      /\ \A r : r \in RowsOf(y) <=>
              r # Deleted /\ \E p \in ChainPages : \E s \in DOMAIN y[p] : y[p][s] = r
      /\ \A r : r \in RowsOf(pgs) <=>
              r # Deleted /\ \E p \in ChainPages : \E s \in DOMAIN pgs[p] : pgs[p][s] = r
  BY TablePages
<1> HIDE DEF RowsOf
<1>3. ASSUME NEW r PROVE r \in RowsOf(y) => r \in RowsOf(pgs) \ R
  <2> SUFFICES ASSUME r # Deleted, NEW p \in ChainPages, NEW s \in DOMAIN y[p], y[p][s] = r
               PROVE  r \in RowsOf(pgs) \ R
    BY <1>2
  <2>1. p \in PageIds /\ s \in DOMAIN pgs[p] /\ pgs[p][s] = r /\ <<p, s>> \notin E
    BY <1>1, <1>2
  <2>2. r \notin R
    BY <2>1
  <2> QED
    BY <1>2, <2>1, <2>2
<1>4. ASSUME NEW r PROVE r \in RowsOf(pgs) \ R => r \in RowsOf(y)
  <2> SUFFICES ASSUME r # Deleted, r \notin R, NEW p \in ChainPages, NEW s \in DOMAIN pgs[p], pgs[p][s] = r
               PROVE  r \in RowsOf(y)
    BY <1>2
  <2>1. p \in PageIds /\ s \in DOMAIN y[p] /\ y[p][s] = r
    BY <1>1, <1>2
  <2> QED
    BY <1>2, <2>1
<1>5. \A r : r \in RowsOf(y) <=> r \in RowsOf(pgs) \ R
  BY <1>3, <1>4
<1> QED
  BY <1>5 DEF y

(* Pages that say all that the log says need no repeating.                 *)
LEMMA AlreadyReplayed ==
  ASSUME NEW l, NEW x \in Contents, Agrees(l, x, NoOp)
  PROVE  Replayable(l, x, x)
<1> SUFFICES ASSUME NEW p \in PageIds PROVE Behind(l, x[p], x[p], NoOp, p)
  BY DEF Replayable
<1> DEFINE m == x[p]
<1>1. m \in Page /\ \A i \in DOMAIN l : l[i].page = p => Shows(l[i], m, NoOp)
  BY PageShape DEF Agrees
<1> HIDE DEF m
<1>2. Behind(l, m, m, NoOp, p)
  BY <1>1, NothingBehind
<1> QED
  BY <1>2 DEF m

-----------------------------------------------------------------------------
(* What the refinement rests on                                            *)

(* A row is in one slot at most: in memory, in the file and in the log.    *)
Held(m, d, l, r, p, s) ==
  \/ s \in DOMAIN m[p] /\ m[p][s] = r
  \/ s \in DOMAIN d[p] /\ d[p][s] = r
  \/ \E i \in DOMAIN l : At(l, "INSERT", i, p, s) /\ l[i].new = r

Located ==
  \A r \in Rows, p, q \in PageIds : \A s, u :
    Held(mem, disk, log, r, p, s) /\ Held(mem, disk, log, r, q, u) => p = q /\ s = u

(* A row that is not placed yet is nowhere, and one not logged not there.  *)
InHand(op, r) == op.op = "INSERT" /\ op.row = r

Issued ==
  \A r \in Rows, p \in PageIds : \A s : Held(mem, disk, log, r, p, s) =>
    r <= issued /\ (InHand(busy, r) => Unlogged(busy, p, s))

HandInv ==
  /\ busy.old = NoRow
  /\ busy.op = "INSERT" =>
       /\ busy.row <= issued
       /\ \A i \in DOMAIN log : log[i].type = "INSERT" => log[i].new # busy.row
  /\ busy.op = "DELETE" => mem[busy.page][busy.slot] = busy.row
  /\ busy.placed => busy.page \in ChainPages /\ Len(disk[busy.page]) < busy.slot

LogInv ==
  /\ \A i \in DOMAIN log :
       /\ log[i].type = "BEGIN" => log[i].tx # 0
       /\ log[i].type \in DataOps /\ log[i].tx # 0 => log[i].type = "INSERT"
       /\ log[i].type = "INSERT" => log[i].old = NoRow
       /\ log[i].type \notin DataOps => log[i].old = NoRow /\ log[i].new = NoRow
  /\ \A i, j \in DOMAIN log :
       log[i].type = "INSERT" /\ log[j].type = "INSERT" /\ log[i].new = log[j].new => i = j

(* The current transaction has begun and not ended, and what follows one   *)
(* of its savepoints is its own.                                           *)
TxInv ==
  /\ Len(txs) <= MaxTx
  /\ phase \in {"up", "rollback_to"} /\ tx_id # 0 =>
       /\ \E i \in DOMAIN log : log[i].type = "BEGIN" /\ log[i].tx = tx_id
       /\ \A i \in DOMAIN log : ~Ends(i, tx_id)
       /\ \A c \in DOMAIN savepoints, i \in DOMAIN log : savepoints[c].tx = tx_id =>
            /\ i > savepoints[c].offset => log[i].tx = tx_id
            /\ log[i].type = "BEGIN" /\ log[i].tx = tx_id => i <= savepoints[c].offset

(* What is replayed: redo of the log, undo of insertions.                  *)
WorkInv ==
  \A n \in DOMAIN work :
    \/ phase = "recover" /\ \E i \in DataIn(log) : work[n] = Step("redo", log[i])
    \/ phase = "recover" /\ \E i \in OpenInserts(log) : work[n] = Step("undo", log[i])
    \/ /\ phase \in Undoings
       /\ \E i \in DOMAIN log : /\ log[i].type = "INSERT" /\ log[i].tx = tx_id
                                /\ work[n] = Step("undo", log[i])

(* ROLLBACK TO has undone, or will, what it cuts off.                      *)
Emptying(pgs, w, e) ==
  \/ e.slot \in DOMAIN pgs[e.page] /\ pgs[e.page][e.slot] = Deleted
  \/ \E n \in DOMAIN w : w[n] = Step("undo", e)

PendInv ==
  phase = "rollback_to" =>
    \A i \in DataIn(log) : i > savepoints[cut].offset => Emptying(disk, work, log[i])

RecoverInv ==
  phase = "recover" =>
    /\ \E x \in Contents : Replayable(log, disk, x)
    /\ Working = Durable

StoreInv ==
  Located /\ Issued /\ HandInv /\ LogInv /\ TxInv /\ WorkInv /\ PendInv /\ RecoverInv

AllInv == BaseInv /\ LedgerInv /\ HeapInv /\ OwnInv /\ StoreInv

(* Clients insert, and outside transactions delete; recovery and rollback  *)
(* reach all of the log.                                                   *)
Inserting ==
  /\ "UPDATE" \notin AutoStatements /\ TxStatements \subseteq {"INSERT"}
  /\ MaxLog <= MaxEntries /\ MaxLog <= MaxUndo

LEMMA LogRecoverable ==
  ASSUME BaseInv, HeapInv, LogInv, MaxLog <= MaxEntries
  PROVE  Recoverable(log)
<1>1. log \in Seq(Record) /\ Len(log) \in Nat /\ Len(log) <= MaxLog
  BY DEF BaseInv, TypeInv
<1>2. Len(log) <= MaxEntries
  BY <1>1, ConstantTypes
<1>3. \A i \in DataIn(log) : log[i].page \in PageIds
  BY DataPages
<1>4. \A t \in Unfinished(log) : t # 0
  BY DEF Unfinished, LogInv
<1>5. \A i \in DataIn(log) : log[i].tx # 0 => log[i].type = "INSERT"
  BY DEF LogInv, DataIn
<1> QED
  BY <1>1, <1>2, <1>3, <1>4, <1>5 DEF Recoverable, HeapInv

(* The rows in pages of memory or of the file, where the log has them      *)
LEMMA RowType ==
  ASSUME BaseInv, NEW x \in Contents, NEW p \in PageIds, NEW s \in DOMAIN x[p], x[p][s] # Deleted
  PROVE  x[p][s] \in Rows
BY PageShape DEF Slot, Deleted

(* Pages whose rows are where memory, the file or the log have them: the   *)
(* slots of unfinished transactions are those with their rows.             *)
LEMMA OpenSlotsPending ==
  ASSUME BaseInv, Located, NEW x \in Contents, Agrees(log, x, NoOp),
         \A p \in PageIds : \A s \in DOMAIN x[p] :
           x[p][s] # Deleted => Held(mem, disk, log, x[p][s], p, s),
         NEW J, \A i \in J : i \in DataIn(log) /\ log[i].type = "INSERT"
  PROVE  \A p \in PageIds : \A s \in DOMAIN x[p] :
           x[p][s] # Deleted => (<<p, s>> \in SlotsOf(log, J) <=> x[p][s] \in {log[i].new : i \in J})
<1> SUFFICES ASSUME NEW p \in PageIds, NEW s \in DOMAIN x[p], x[p][s] # Deleted
             PROVE  <<p, s>> \in SlotsOf(log, J) <=> x[p][s] \in {log[i].new : i \in J}
  OBVIOUS
<1>1. x[p][s] \in Rows
  BY RowType
<1>2. ASSUME NEW i \in J, log[i].page = p, log[i].slot = s PROVE log[i].new = x[p][s]
  BY <1>2 DEF Agrees, Shows, DataIn
<1>3. ASSUME NEW i \in J, log[i].new = x[p][s] PROVE log[i].page = p /\ log[i].slot = s
  <2>1. i \in DOMAIN log /\ log[i].type = "INSERT" /\ log[i].page \in PageIds
    BY DataPages DEF DataIn
  <2>2. Held(mem, disk, log, x[p][s], log[i].page, log[i].slot)
    BY <1>3, <2>1 DEF Held, At
  <2> QED
    BY <1>1, <2>1, <2>2 DEF Located
<1>4. <<p, s>> \in SlotsOf(log, J) <=> \E i \in J : log[i].page = p /\ log[i].slot = s
  BY DEF SlotsOf
<1> QED
  BY <1>2, <1>3, <1>4

(* What a crash would leave: the rows of the pages, without those of       *)
(* unfinished transactions.                                                *)
LEMMA CrashLeaves ==
  ASSUME BaseInv, HeapInv, LogInv, Located, MaxLog <= MaxEntries,
         NEW d \in Contents, NEW x \in Contents, Replayable(log, d, x),
         \A p \in PageIds : \A s \in DOMAIN x[p] :
           x[p][s] # Deleted => Held(mem, disk, log, x[p][s], p, s)
  PROVE  RowsOf(ApplyAll[<<d, RecoveryWork(log)>>]) = RowsOf(x) \ Pending(log)
<1>1. Recoverable(log)
  BY LogRecoverable
<1>2. ApplyAll[<<d, RecoveryWork(log)>>] = Emptied(x, OpenSlots(log))
  BY <1>1, RecoveryLeaves
<1> DEFINE J == OpenInserts(log)
<1>3. \A i \in J : i \in DataIn(log) /\ log[i].type = "INSERT"
  BY DEF OpenInserts, DataIn, DataOps
<1>4. OpenSlots(log) = SlotsOf(log, J) /\ Pending(log) = {log[i].new : i \in J}
  BY DEF OpenSlots, SlotsOf, Pending
<1> HIDE DEF J
<1>5. \A p \in PageIds : \A s \in DOMAIN x[p] :
           x[p][s] # Deleted => (<<p, s>> \in SlotsOf(log, J) <=> x[p][s] \in {log[i].new : i \in J})
  BY <1>3, OpenSlotsPending DEF Replayable
<1> DEFINE E == OpenSlots(log)
           R == Pending(log)
<1>6. \A p \in PageIds : \A s \in DOMAIN x[p] : x[p][s] # Deleted => (<<p, s>> \in E <=> x[p][s] \in R)
  BY <1>4, <1>5
<1> HIDE DEF E, R
<1>7. RowsOf(Emptied(x, E)) = RowsOf(x) \ R
  BY <1>6, EmptiedRows DEF BaseInv
<1> QED
  BY <1>2, <1>7 DEF E, R

(* The rows of pages between the file and the log are held there.          *)
LEMMA ReplayableHeld ==
  ASSUME BaseInv, NEW x \in Contents, Replayable(log, disk, x),
         NEW p \in PageIds, NEW s \in DOMAIN x[p], x[p][s] # Deleted
  PROVE  Held(mem, disk, log, x[p][s], p, s)
<1>1. Behind(log, disk[p], x[p], NoOp, p) /\ Agrees(log, x, NoOp)
  BY DEF Replayable
<1>2. disk[p] \in Page /\ x[p] \in Page
  BY DataPages, PageShape
<1>3. CASE s \in DOMAIN disk[p]
  <2>1. x[p][s] \in {disk[p][s], Deleted}
    BY <1>1, <1>3 DEF Behind
  <2> QED
    BY <1>3, <2>1 DEF Held
<1>4. CASE s \notin DOMAIN disk[p]
  <2>1. s > Len(disk[p])
    BY <1>2, <1>4, PageIndexes
  <2>2. ~Unlogged(NoOp, p, s)
    BY ConstantTypes DEF Unlogged
  <2>3. Logged(log, "INSERT", p, s)
    BY <1>1, <2>1, <2>2 DEF Behind
  <2>4. PICK i \in DOMAIN log : At(log, "INSERT", i, p, s)
    BY <2>3 DEF Logged
  <2>5. x[p][s] \in {log[i].new, Deleted}
    BY <1>1, <2>4 DEF Agrees, Shows, At
  <2> QED
    BY <2>4, <2>5 DEF Held
<1> QED
  BY <1>3, <1>4

(* Which rows a table has: the rows in the pages of its chain              *)
LEMMA RowsInPages ==
  ASSUME NEW chained, NEW pgs, NEW r
  PROVE  r \in RowsIn(pgs, chained) <=>
           /\ r # Deleted
           /\ \E i \in DOMAIN chained : \E s \in DOMAIN pgs[chained[i]] : pgs[chained[i]][s] = r
BY DEF RowsIn, ToSet

(* With no row operation, the pages in memory are what replaying the log   *)
(* would rebuild.                                                          *)
Settled(x) ==
  /\ x \in Contents /\ Replayable(log, disk, x)
  /\ \A p \in PageIds : \A s \in DOMAIN x[p] : x[p][s] # Deleted =>
       s \in DOMAIN mem[p] /\ mem[p][s] = x[p][s] /\ x[p][s] # busy.row
  /\ \A p \in PageIds : \A s \in DOMAIN mem[p] :
       mem[p][s] # Deleted /\ mem[p][s] # busy.row => s \in DOMAIN x[p] /\ x[p][s] = mem[p][s]

LEMMA SettledUnplaced ==
  ASSUME BaseInv, HeapInv, Issued, phase = "up", ~busy.placed, busy.op # "DELETE"
  PROVE  Settled(mem)
<1>1. mem \in Contents
  BY DataPages
<1>2. \A p, s : ~Unapplied(busy, p, s) /\ ~Unlogged(busy, p, s)
  BY DEF Unapplied, Unlogged
<1>3. \A p, s : ~Unapplied(NoOp, p, s) /\ ~Unlogged(NoOp, p, s)
  BY ConstantTypes DEF Unapplied, Unlogged
<1>4. Agrees(log, mem, NoOp)
  BY <1>2, <1>3 DEF HeapInv, Agrees, Shows
<1>5. \A p \in PageIds : Behind(log, disk[p], mem[p], NoOp, p)
  BY <1>2, <1>3 DEF HeapInv, Behind
<1>6. ASSUME NEW p \in PageIds, NEW s \in DOMAIN mem[p], mem[p][s] # Deleted
      PROVE  mem[p][s] # busy.row
  <2>1. mem[p][s] \in Rows
    BY <1>1, <1>6, RowType
  <2>2. CASE busy.op = "INSERT"
    <3>1. Held(mem, disk, log, mem[p][s], p, s)
      BY DEF Held
    <3>2. ~InHand(busy, mem[p][s])
      BY <1>2, <2>1, <3>1 DEF Issued
    <3> QED
      BY <2>2, <3>2 DEF InHand
  <2>3. CASE busy.op = "none"
    BY <1>6, <2>3 DEF BaseInv, StageInv, NoOp, NoRow, Deleted
  <2> QED
    BY <2>2, <2>3 DEF BaseInv, TypeInv, Op, HeapInv, DataOps
<1> QED
  BY <1>1, <1>4, <1>5, <1>6 DEF Settled, Replayable

LEMMA SettledPlaced ==
  ASSUME BaseInv, HeapInv, Located, Issued, HandInv, phase = "up", busy.placed, LogInv
  PROVE  \E x : Settled(x)
<1> DEFINE b == busy.page
           c == busy.slot - 1
           x == [mem EXCEPT ![b] = First(mem[b], c)]
<1>1. /\ busy.op = "INSERT" /\ b \in PageIds /\ busy.slot \in Nat /\ busy.row \in Rows
      /\ busy.slot = Len(mem[b]) /\ busy.slot \in DOMAIN mem[b] /\ mem[b][busy.slot] = busy.row
      /\ Len(disk[b]) < busy.slot
  <2>1. busy.op = "INSERT" /\ b \in PageIds /\ busy.row # NoRow
    BY DataPages DEF BaseInv, StageInv, HeapInv
  <2>2. busy.slot \in Nat /\ busy.row \in Rows
    BY <2>1 DEF BaseInv, TypeInv, Op, Slot, Deleted, NoRow
  <2> QED
    BY <2>1, <2>2 DEF HeapInv, HandInv
<1>2. mem \in Contents /\ disk \in Contents /\ log \in Seq(Record)
  BY DataPages
<1>3. /\ mem[b] \in Page /\ mem[b] \in Seq(Slot) /\ Len(mem[b]) \in Nat /\ Len(mem[b]) <= Slots
      /\ DOMAIN mem[b] = 1 .. Len(mem[b])
      /\ disk[b] \in Page /\ Len(disk[b]) \in Nat /\ DOMAIN disk[b] = 1 .. Len(disk[b])
  BY <1>1, <1>2, PageShape
<1>4. c \in Nat /\ c + 1 = Len(mem[b]) /\ Len(disk[b]) <= c /\ busy.slot = c + 1
  BY <1>1, <1>3
<1> DEFINE m == mem[b]
           f == First(m, c)
<1> HIDE DEF c, m
<1>5. /\ f \in Seq(Slot) /\ Len(f) <= Len(m) /\ Len(f) <= c
      /\ DOMAIN f = {i \in DOMAIN m : i <= c}
      /\ \A i \in DOMAIN f : f[i] = m[i]
  <2>1. m \in Seq(Slot) /\ c \in Nat
    BY <1>3, <1>4 DEF m
  <2> QED
    BY <2>1, FirstPrefix
<1> HIDE DEF f
<1>6. f \in Page /\ Len(f) = c /\ DOMAIN f = 1 .. c
  <2>1. DOMAIN f = 1 .. c
    BY <1>3, <1>4, <1>5 DEF m
  <2>2. Len(f) = c
    BY <1>4, <1>5, <2>1
  <2> QED
    BY <1>3, <1>4, <1>5, <2>1, <2>2, ConstantTypes DEF Page
<1>7. x \in Contents /\ x[b] = f /\ \A p \in PageIds : p # b => x[p] = mem[p]
  BY <1>1, <1>2, <1>6 DEF Contents, f, m
<1> HIDE DEF x
<1>8. \A p, s : (Unlogged(busy, p, s) <=> p = b /\ s = c + 1) /\ ~Unapplied(busy, p, s)
  BY <1>1, <1>4 DEF Unlogged, Unapplied
<1>9. \A p, s : ~Unapplied(NoOp, p, s) /\ ~Unlogged(NoOp, p, s)
  BY ConstantTypes DEF Unapplied, Unlogged
<1>10. \A i \in DOMAIN log : log[i].type \in {"INSERT", "DELETE"} => log[i].page \in PageIds
  BY DataPages
<1>11. Agrees(log, mem, busy) /\ \A p \in PageIds : Behind(log, disk[p], mem[p], busy, p)
  BY DEF HeapInv
<1>12. ASSUME NEW i \in DOMAIN log, log[i].page = b, log[i].slot = c + 1,
              log[i].type \in {"INSERT", "DELETE"}
       PROVE  FALSE
  <2>1. Shows(log[i], m, busy)
    BY <1>11, <1>12 DEF Agrees, m
  <2>2. m[c + 1] = busy.row /\ busy.row # Deleted
    BY <1>1, <1>4 DEF m, Rows, Deleted
  <2>3. log[i].type = "INSERT" /\ log[i].new = busy.row
    BY <1>8, <1>12, <2>1, <2>2 DEF Shows
  <2> QED
    BY <1>1, <2>3 DEF HandInv
<1>13. Agrees(log, x, NoOp)
  <2> SUFFICES ASSUME NEW i \in DOMAIN log, log[i].type \in {"INSERT", "DELETE"}
               PROVE  Shows(log[i], x[log[i].page], NoOp)
    BY DEF Agrees, Shows
  <2>1. Shows(log[i], mem[log[i].page], busy)
    BY <1>11 DEF Agrees
  <2>2. CASE log[i].page # b
    BY <1>7, <1>8, <1>10, <2>1, <2>2 DEF Shows
  <2>3. CASE log[i].page = b
    <3>1. log[i].slot \in DOMAIN m /\ log[i].slot # c + 1
      BY <1>12, <2>1, <2>3 DEF Shows, m
    <3>2. log[i].slot \in DOMAIN f
      BY <1>3, <1>4, <1>6, <3>1 DEF m
    <3> QED
      BY <1>5, <1>7, <1>8, <2>1, <2>3, <3>2 DEF Shows, m
  <2> QED
    BY <2>2, <2>3
<1>14. ASSUME NEW p \in PageIds PROVE Behind(log, disk[p], x[p], NoOp, p)
  <2>1. CASE p # b
    BY <1>7, <1>8, <1>9, <1>11, <2>1 DEF Behind
  <2>2. CASE p = b
    <3>1. Behind(log, disk[b], m, busy, b)
      BY <1>1, <1>11 DEF m
    <3>2. DOMAIN f \subseteq DOMAIN m /\ \A s \in DOMAIN f : s # c + 1
      BY <1>4, <1>5, <1>6
    <3>3. DOMAIN disk[b] \subseteq DOMAIN f
      BY <1>3, <1>4, <1>6
    <3>4. Behind(log, disk[b], f, NoOp, b)
      BY <1>4, <1>5, <1>6, <1>8, <3>1, <3>2, <3>3 DEF Behind
    <3> QED
      BY <1>7, <2>2, <3>4
  <2> QED
    BY <2>1, <2>2
<1>15. ASSUME NEW p \in PageIds, NEW s \in DOMAIN mem[p], mem[p][s] = busy.row
       PROVE  p = b /\ s = c + 1
  <2>1. Held(mem, disk, log, busy.row, p, s)
    BY <1>15 DEF Held
  <2> QED
    BY <1>1, <1>8, <2>1 DEF Issued, InHand
<1>16. ASSUME NEW p \in PageIds, NEW s \in DOMAIN x[p]
       PROVE  s \in DOMAIN mem[p] /\ mem[p][s] = x[p][s] /\ mem[p][s] # busy.row
  <2>1. CASE p # b
    BY <1>7, <1>15, <2>1
  <2>2. CASE p = b
    <3>1. s \in DOMAIN m /\ m[s] = f[s] /\ s # c + 1
      BY <1>4, <1>5, <1>6, <1>7, <2>2
    <3> QED
      BY <1>7, <1>15, <2>2, <3>1 DEF m
  <2> QED
    BY <2>1, <2>2
<1>17. ASSUME NEW p \in PageIds, NEW s \in DOMAIN mem[p], mem[p][s] # busy.row
       PROVE  s \in DOMAIN x[p] /\ x[p][s] = mem[p][s]
  <2>1. CASE p # b
    BY <1>7, <2>1
  <2>2. CASE p = b
    <3>1. s \in DOMAIN m /\ s # c + 1
      BY <1>1, <1>4, <1>17, <2>2 DEF m
    <3>2. s \in DOMAIN f
      BY <1>3, <1>4, <1>6, <3>1 DEF m
    <3> QED
      BY <1>5, <1>7, <2>2, <3>2 DEF m
  <2> QED
    BY <2>1, <2>2
<1> QED
  BY <1>7, <1>13, <1>14, <1>16, <1>17 DEF Settled, Replayable

LEMMA SettledDeleting ==
  ASSUME BaseInv, HeapInv, Located, HandInv, phase = "up", busy.op = "DELETE"
  PROVE  \E x : Settled(x)
<1> DEFINE b == busy.page
           c == busy.slot
           m == mem[b]
           f == PageDelete(m, c)
           x == [mem EXCEPT ![b] = f]
<1>1. /\ b \in PageIds /\ busy.row \in Rows /\ busy.row # Deleted
      /\ c \in DOMAIN m /\ m[c] = busy.row /\ Logged(log, "DELETE", b, c)
  <2>1. b \in PageIds /\ busy.row # NoRow
    BY DataPages DEF BaseInv, StageInv
  <2>2. busy.row \in Rows
    BY <2>1 DEF BaseInv, TypeInv, Op, Slot, Deleted, NoRow
  <2> QED
    BY <2>1, <2>2 DEF HeapInv, HandInv, Deleted, NoRow
<1>2. mem \in Contents /\ disk \in Contents /\ m \in Page
  BY <1>1, DataPages, PageShape DEF m
<1> HIDE DEF m
<1>3. /\ f \in Page /\ DOMAIN f = DOMAIN m /\ f[c] = Deleted
      /\ \A k \in DOMAIN m : k # c => f[k] = m[k]
  BY <1>1, <1>2, DeleteGrows, PageDeleteType
<1>4. x \in Contents /\ x[b] = f /\ \A p \in PageIds : p # b => x[p] = mem[p]
  BY <1>1, <1>2, <1>3 DEF Contents
<1>5. \A p, s : (Unapplied(busy, p, s) <=> p = b /\ s = c) /\ ~Unlogged(busy, p, s)
  BY DEF Unlogged, Unapplied
<1>6. \A p, s : ~Unapplied(NoOp, p, s) /\ ~Unlogged(NoOp, p, s)
  BY ConstantTypes DEF Unapplied, Unlogged
<1>7. Agrees(log, mem, busy) /\ \A p \in PageIds : Behind(log, disk[p], mem[p], busy, p)
  BY DEF HeapInv
<1>8. Agrees(log, x, NoOp)
  <2> HIDE DEF x, f
  <2> SUFFICES ASSUME NEW i \in DOMAIN log, log[i].type \in {"INSERT", "DELETE"}
               PROVE  Shows(log[i], x[log[i].page], NoOp)
    BY DEF Agrees, Shows
  <2>1. Shows(log[i], mem[log[i].page], busy) /\ log[i].page \in PageIds
    BY <1>7, DataPages DEF Agrees
  <2>2. CASE log[i].page # b
    BY <1>4, <1>5, <2>1, <2>2 DEF Shows
  <2>3. CASE log[i].page = b
    <3>1. Shows(log[i], m, busy)
      BY <2>1, <2>3 DEF m
    <3>2. Shows(log[i], f, NoOp)
      BY <1>3, <1>5, <2>3, <3>1 DEF Shows
    <3> QED
      BY <1>4, <2>3, <3>2
  <2> QED
    BY <2>2, <2>3
<1>9. ASSUME NEW p \in PageIds PROVE Behind(log, disk[p], x[p], NoOp, p)
  <2>1. CASE p # b
    BY <1>4, <1>5, <1>6, <1>7, <2>1 DEF Behind
  <2>2. CASE p = b
    <3>1. Behind(log, disk[b], m, busy, b) /\ disk[b] \in Page
      BY <1>1, <1>2, <1>7, PageShape DEF m
    <3>2. Behind(log, disk[b], PageDelete(m, c), NoOp, b)
      BY <1>1, <1>2, <1>5, <3>1, BehindDeleted
    <3> QED
      BY <1>4, <2>2, <3>2
  <2> QED
    BY <2>1, <2>2
<1> HIDE DEF x, f
<1>10. ASSUME NEW p \in PageIds, NEW s \in DOMAIN mem[p], mem[p][s] = busy.row
       PROVE  p = b /\ s = c
  <2>1. Held(mem, disk, log, busy.row, p, s) /\ Held(mem, disk, log, busy.row, b, c)
    BY <1>1, <1>10 DEF Held, m
  <2> QED
    BY <1>1, <2>1 DEF Located
<1>11. ASSUME NEW p \in PageIds, NEW s \in DOMAIN x[p], x[p][s] # Deleted
       PROVE  s \in DOMAIN mem[p] /\ mem[p][s] = x[p][s] /\ mem[p][s] # busy.row
  <2>1. CASE p # b
    BY <1>4, <1>10, <2>1
  <2>2. CASE p = b
    BY <1>3, <1>4, <1>10, <1>11, <2>2 DEF m
  <2> QED
    BY <2>1, <2>2
<1>12. ASSUME NEW p \in PageIds, NEW s \in DOMAIN mem[p], mem[p][s] # busy.row
       PROVE  s \in DOMAIN x[p] /\ x[p][s] = mem[p][s]
  <2>1. CASE p # b
    BY <1>4, <2>1
  <2>2. CASE p = b
    <3>1. s # c
      BY <1>1, <1>12, <2>2 DEF m
    <3> QED
      BY <1>3, <1>4, <2>2, <3>1 DEF m
  <2> QED
    BY <2>1, <2>2
<1> QED
  BY <1>4, <1>8, <1>9, <1>11, <1>12 DEF Settled, Replayable

(* Between the statements and within them, a crash would leave the working *)
(* rows but for those that open transactions inserted.                     *)
LEMMA RowsUp ==
  MaxLog <= MaxEntries /\ AllInv /\ phase = "up" =>
    /\ Working = RowsOf(mem) \ {busy.row}
    /\ Durable = Working \ Pending(log)
    /\ \E x : Settled(x)
<1> SUFFICES ASSUME MaxLog <= MaxEntries, AllInv, phase = "up"
             PROVE  /\ Working = RowsOf(mem) \ {busy.row}
                    /\ Durable = Working \ Pending(log)
                    /\ \E x : Settled(x)
  OBVIOUS
<1>1. BaseInv /\ HeapInv /\ Located /\ Issued /\ HandInv /\ LogInv
  BY DEF AllInv, StoreInv
<1>2. Working = RowsOf(mem) \ {busy.row}
  BY <1>1 DEF Working, HandInv
<1>3. PICK x : Settled(x)
  BY <1>1, SettledUnplaced, SettledPlaced, SettledDeleting
<1>4. x \in Contents /\ Replayable(log, disk, x) /\ disk \in Contents
  BY <1>1, <1>3, DataPages DEF Settled
<1>5. \A p \in PageIds : \A s \in DOMAIN x[p] :
        x[p][s] # Deleted => Held(mem, disk, log, x[p][s], p, s)
  BY <1>1, <1>4, ReplayableHeld
<1>6. RowsOf(ApplyAll[<<disk, RecoveryWork(log)>>]) = RowsOf(x) \ Pending(log)
  BY <1>1, <1>4, <1>5, CrashLeaves
<1>7. Durable = RowsOf(ApplyAll[<<disk, RecoveryWork(log)>>])
  BY DEF Durable
<1>8. RowsOf(x) = RowsOf(mem) \ {busy.row}
  <2>1. TypeInv
    BY <1>1 DEF BaseInv
  <2>2. /\ ChainPages \in SUBSET PageIds
        /\ \A r : r \in RowsOf(x) <=>
             r # Deleted /\ \E p \in ChainPages : \E s \in DOMAIN x[p] : x[p][s] = r
        /\ \A r : r \in RowsOf(mem) <=>
             r # Deleted /\ \E p \in ChainPages : \E s \in DOMAIN mem[p] : mem[p][s] = r
    BY <2>1, TablePages
  <2>3. ASSUME NEW r \in RowsOf(x) PROVE r \in RowsOf(mem) /\ r # busy.row
    BY <1>3, <2>2 DEF Settled
  <2>4. ASSUME NEW r \in RowsOf(mem), r # busy.row PROVE r \in RowsOf(x)
    <3>1. PICK p \in ChainPages : \E s \in DOMAIN mem[p] : mem[p][s] = r
      BY <2>2
    <3>2. PICK s \in DOMAIN mem[p] : mem[p][s] = r
      BY <3>1
    <3>3. p \in PageIds /\ r # Deleted
      BY <2>2
    <3>4. s \in DOMAIN x[p] /\ x[p][s] = r
      BY <1>3, <2>4, <3>2, <3>3 DEF Settled
    <3> QED
      BY <2>2, <3>3, <3>4
  <2> QED
    BY <2>3, <2>4
<1> QED
  BY <1>2, <1>3, <1>6, <1>7, <1>8

(* The rows the records J inserted                                         *)
NewRows(l, J) == {l[i].new : i \in J}

(* The steps w undo exactly the insertions J of the log.                   *)
ExactUndo(w, J) ==
  /\ w \in Seq(Steps)
  /\ \A i \in J : i \in DOMAIN log /\ log[i].type = "INSERT"
  /\ \A n \in DOMAIN w : \E i \in J : w[n] = Step("undo", log[i])
  /\ \A i \in J : \E n \in DOMAIN w : w[n] = Step("undo", log[i])

(* To undo insertions takes their rows out of the table; the log still     *)
(* agrees with the pages.                                                  *)
LEMMA UndoneRows ==
  ASSUME BaseInv, Located, HeapInv, NEW d \in Contents, Agrees(log, d, NoOp),
         \A p \in PageIds : \A s \in DOMAIN d[p] :
           d[p][s] # Deleted => Held(mem, disk, log, d[p][s], p, s),
         NEW w, NEW J, ExactUndo(w, J)
  PROVE  /\ ApplyAll[<<d, w>>] \in Contents
         /\ Agrees(log, ApplyAll[<<d, w>>], NoOp)
         /\ \A p \in PageIds : \A s \in DOMAIN ApplyAll[<<d, w>>][p] :
              ApplyAll[<<d, w>>][p][s] # Deleted => s \in DOMAIN d[p] /\ d[p][s] = ApplyAll[<<d, w>>][p][s]
         /\ RowsOf(ApplyAll[<<d, w>>]) = RowsOf(d) \ NewRows(log, J)
<1>0. /\ w \in Seq(Steps)
      /\ \A i \in J : i \in DOMAIN log /\ log[i].type = "INSERT"
      /\ \A n \in DOMAIN w : \E i \in J : w[n] = Step("undo", log[i])
      /\ \A i \in J : \E n \in DOMAIN w : w[n] = Step("undo", log[i])
  BY DEF ExactUndo
<1>1. DOMAIN w = 1 .. Len(w)
  BY <1>0, SequenceElements
<1>2. \A i \in J : i \in DataIn(log) /\ log[i].type = "INSERT"
  BY <1>0, DataPages
<1>3. \A n \in DOMAIN w : w[n].does = "undo" /\ w[n].rec.type = "INSERT"
  BY <1>0, <1>2 DEF Step
<1> DEFINE E == SlotsOf(log, J)
           R == NewRows(log, J)
           y == ApplyAll[<<d, w>>]
<1>4. Named(w, Len(w)) = E
  <2>1. ASSUME NEW x \in Named(w, Len(w)) PROVE x \in E
    <3>1. PICK n \in 1 .. Len(w) : x = <<w[n].rec.page, w[n].rec.slot>>
      BY DEF Named
    <3>2. PICK i \in J : w[n] = Step("undo", log[i])
      BY <1>0, <1>1
    <3> QED
      BY <3>1, <3>2 DEF Step, SlotsOf
  <2>2. ASSUME NEW x \in E PROVE x \in Named(w, Len(w))
    <3>1. PICK i \in J : x = <<log[i].page, log[i].slot>>
      BY DEF SlotsOf
    <3>2. PICK n \in DOMAIN w : w[n] = Step("undo", log[i])
      BY <1>0
    <3> QED
      BY <1>1, <3>1, <3>2 DEF Step, Named
  <2> QED
    BY <2>1, <2>2
<1>5. y = Emptied(d, E)
  BY <1>0, <1>3, <1>4, UndoEmpties
<1>6. \A p \in PageIds : \A s \in DOMAIN d[p] :
           d[p][s] # Deleted => (<<p, s>> \in SlotsOf(log, J) <=> d[p][s] \in {log[i].new : i \in J})
  BY <1>2, OpenSlotsPending
<1>7. \A p \in PageIds : \A s \in DOMAIN d[p] : d[p][s] # Deleted => (<<p, s>> \in E <=> d[p][s] \in R)
  BY <1>6 DEF NewRows
<1> HIDE DEF E, R
<1>8. RowsOf(Emptied(d, E)) = RowsOf(d) \ R
  BY <1>7, EmptiedRows DEF BaseInv
<1> HIDE DEF y
<1>9. /\ y \in Contents
      /\ \A p \in PageIds : DOMAIN y[p] = DOMAIN d[p] /\ \A s \in DOMAIN d[p] :
                    y[p][s] = IF <<p, s>> \in E THEN Deleted ELSE d[p][s]
  BY <1>5, EmptiedShape
<1>10. Agrees(log, y, NoOp)
  <2> SUFFICES ASSUME NEW i \in DOMAIN log, log[i].type \in {"INSERT", "DELETE"}
               PROVE  Shows(log[i], y[log[i].page], NoOp)
    BY DEF Agrees, Shows
  <2>1. Shows(log[i], d[log[i].page], NoOp) /\ log[i].page \in PageIds
    BY DataPages DEF Agrees
  <2>2. ~Unapplied(NoOp, log[i].page, log[i].slot)
    BY ConstantTypes DEF Unapplied
  <2> QED
    BY <1>9, <2>1, <2>2 DEF Shows
<1>11. \A p \in PageIds : \A s \in DOMAIN y[p] :
         y[p][s] # Deleted => s \in DOMAIN d[p] /\ d[p][s] = y[p][s]
  BY <1>9
<1> QED
  BY <1>5, <1>8, <1>9, <1>10, <1>11 DEF y, R

(* The same for the pages in the file while a transaction is undone: after *)
(* the ABORT record a crash would leave the working rows, but for those of *)
(* other transactions, and during ROLLBACK TO those of the file.           *)
LEMMA RowsUndoing ==
  MaxLog <= MaxEntries /\ AllInv /\ phase \in Undoings =>
    /\ Working = RowsOf(ApplyAll[<<disk, work>>])
    /\ phase \in {"rollback", "closing"} => Durable = Working \ Pending(log)
    /\ phase = "rollback_to" => Durable = RowsOf(disk) \ Pending(log)
<1> SUFFICES ASSUME MaxLog <= MaxEntries, AllInv, phase \in Undoings
             PROVE  /\ Working = RowsOf(ApplyAll[<<disk, work>>])
                    /\ phase \in {"rollback", "closing"} => Durable = Working \ Pending(log)
                    /\ phase = "rollback_to" => Durable = RowsOf(disk) \ Pending(log)
  OBVIOUS
<1>1. BaseInv /\ HeapInv /\ Located /\ LogInv /\ WorkInv
  BY DEF AllInv, StoreInv
<1>2. disk \in Contents /\ work \in Seq(Steps) /\ phase \notin {"up", "recover"}
  BY <1>1 DEF BaseInv, TypeInv, Undoings
<1>3. Agrees(log, disk, NoOp)
  BY <1>1, <1>2 DEF HeapInv, BaseInv, StageInv
<1> DEFINE y == ApplyAll[<<disk, work>>]
<1>4. Replayed = y /\ Working = RowsOf(y)
  BY <1>2 DEF Replayed, Working
<1>5. \A p \in PageIds : \A s \in DOMAIN disk[p] : Held(mem, disk, log, disk[p][s], p, s)
  BY DEF Held
<1>6. /\ y \in Contents /\ Agrees(log, y, NoOp)
      /\ \A p \in PageIds : \A s \in DOMAIN y[p] :
              y[p][s] # Deleted => s \in DOMAIN disk[p] /\ disk[p][s] = y[p][s]
  <2> DEFINE J == {i \in DOMAIN log : log[i].type = "INSERT" /\ \E n \in DOMAIN work : work[n] = Step("undo", log[i])}
  <2>1. \A i \in J : i \in DOMAIN log /\ log[i].type = "INSERT"
    OBVIOUS
  <2>2. \A i \in J : \E n \in DOMAIN work : work[n] = Step("undo", log[i])
    OBVIOUS
  <2>3. \A n \in DOMAIN work : \E i \in J : work[n] = Step("undo", log[i])
    BY <1>1, <1>2 DEF WorkInv
  <2> HIDE DEF J
  <2>4. ExactUndo(work, J)
    BY <1>2, <2>1, <2>2, <2>3 DEF ExactUndo
  <2> QED
    BY <1>1, <1>2, <1>3, <1>5, <2>4, UndoneRows
<1> HIDE DEF y
<1>7. CASE phase \in {"rollback", "closing"}
  <2>1. Durable = RowsOf(ApplyAll[<<y, RecoveryWork(log)>>])
    BY <1>4, <1>7 DEF Durable
  <2>2. Replayable(log, y, y)
    BY <1>6, AlreadyReplayed
  <2>3. \A p \in PageIds : \A s \in DOMAIN y[p] : y[p][s] # Deleted => Held(mem, disk, log, y[p][s], p, s)
    BY <1>6 DEF Held
  <2>4. RowsOf(ApplyAll[<<y, RecoveryWork(log)>>]) = RowsOf(y) \ Pending(log)
    BY <1>1, <1>6, <2>2, <2>3, CrashLeaves
  <2> QED
    BY <1>4, <1>7, <2>1, <2>4 DEF y
<1>8. CASE phase = "rollback_to"
  <2>1. Durable = RowsOf(ApplyAll[<<disk, RecoveryWork(log)>>])
    BY <1>8 DEF Durable
  <2>2. Replayable(log, disk, disk)
    BY <1>2, <1>3, AlreadyReplayed
  <2>3. RowsOf(ApplyAll[<<disk, RecoveryWork(log)>>]) = RowsOf(disk) \ Pending(log)
    BY <1>1, <1>2, <1>5, <2>2, CrashLeaves
  <2> QED
    BY <1>4, <1>8, <2>1, <2>3 DEF y
<1> QED
  BY <1>2, <1>7, <1>8 DEF Undoings

(* During recovery it would leave the same again.                          *)
LEMMA RowsRecovering ==
  MaxLog <= MaxEntries /\ AllInv /\ phase = "recover" =>
    /\ Working = RowsOf(ApplyAll[<<disk, work>>])
    /\ Durable = Working
    /\ Durable = RowsOf(ApplyAll[<<disk, RecoveryWork(log)>>])
BY DEF AllInv, StoreInv, RecoverInv, Working, Durable, Replayed

-----------------------------------------------------------------------------
(* A row stays where it is                                                 *)

(* Pages and records that hold only rows held there before                 *)
LEMMA HeldKept ==
  ASSUME Located, Issued,
         \A p \in PageIds : \A s \in DOMAIN mem'[p] :
           mem'[p][s] # Deleted => Held(mem, disk, log, mem'[p][s], p, s),
         \A p \in PageIds : \A s \in DOMAIN disk'[p] :
           disk'[p][s] # Deleted => Held(mem, disk, log, disk'[p][s], p, s),
         \A i \in DOMAIN log' : log'[i].type = "INSERT" =>
           Held(mem, disk, log, log'[i].new, log'[i].page, log'[i].slot),
         issued' = issued, busy' = busy \/ busy'.op # "INSERT"
  PROVE  Located' /\ Issued'
<1>1. ASSUME NEW r \in Rows, NEW p \in PageIds, NEW s, Held(mem', disk', log', r, p, s)
      PROVE  Held(mem, disk, log, r, p, s)
  <2>1. r # Deleted
    BY DEF Rows, Deleted
  <2>2. CASE s \in DOMAIN mem'[p] /\ mem'[p][s] = r
    BY <2>1, <2>2
  <2>3. CASE s \in DOMAIN disk'[p] /\ disk'[p][s] = r
    BY <2>1, <2>3
  <2>4. CASE \E i \in DOMAIN log' : At(log', "INSERT", i, p, s) /\ log'[i].new = r
    BY <2>4 DEF At
  <2> QED
    BY <1>1, <2>2, <2>3, <2>4 DEF Held
<1>2. Located'
  BY <1>1 DEF Located
<1>3. Issued'
  <2> SUFFICES ASSUME NEW r \in Rows, NEW p \in PageIds, NEW s, Held(mem', disk', log', r, p, s)
               PROVE  r <= issued' /\ (InHand(busy', r) => Unlogged(busy', p, s))
    BY DEF Issued
  <2>1. r <= issued /\ (InHand(busy, r) => Unlogged(busy, p, s))
    BY <1>1 DEF Issued
  <2> QED
    BY <2>1 DEF InHand
<1> QED
  BY <1>2, <1>3

(* Pages go from memory to the file and back, and the log gets no record   *)
(* of an insertion.                                                        *)
LEMMA HeldCopied ==
  ASSUME BaseInv, Located, Issued,
         \A p \in PageIds : mem'[p] \in {mem[p], disk[p]} /\ disk'[p] \in {mem[p], disk[p]},
         \A i \in DOMAIN log' : log'[i].type = "INSERT" => i \in DOMAIN log /\ log'[i] = log[i],
         issued' = issued, busy' = busy \/ busy'.op # "INSERT"
  PROVE  Located' /\ Issued'
<1>1. \A p \in PageIds : \A s \in DOMAIN mem'[p] :
           mem'[p][s] # Deleted => Held(mem, disk, log, mem'[p][s], p, s)
  BY DEF Held
<1>2. \A p \in PageIds : \A s \in DOMAIN disk'[p] :
           disk'[p][s] # Deleted => Held(mem, disk, log, disk'[p][s], p, s)
  BY DEF Held
<1>3. \A i \in DOMAIN log' : log'[i].type = "INSERT" =>
           Held(mem, disk, log, log'[i].new, log'[i].page, log'[i].slot)
  BY DEF Held, At
<1> QED
  BY <1>1, <1>2, <1>3, HeldKept

(* A new row is placed where there was none, and is nowhere else.          *)
LEMMA HeldPlaced ==
  ASSUME BaseInv, Located, Issued, log' = log,
         \A q \in PageIds : disk'[q] \in {disk[q], mem[q]},
         NEW op \in Op, op.op = "INSERT", op.row # NoRow, NEW p \in PageIds, Placed(op, p), HasRoom(mem[p]),
         \A q \in PageIds : \A s : ~Held(mem, disk, log, op.row, q, s),
         \A r \in Rows : r <= issued => r <= issued', op.row <= issued'
  PROVE  Located' /\ Issued'
<1>1. mem \in Contents /\ mem[p] \in Page /\ op.row \in Slot /\ op.row \in Rows
  BY DataPages, PageShape DEF Op, Slot, NoRow, Deleted
<1> DEFINE n == Len(mem[p]) + 1
           g == PageInsert(mem[p], op.row)
<1>2. mem'[p] = g /\ \A q \in PageIds : q # p => mem'[q] = mem[q]
  BY <1>1 DEF Placed, Contents
<1>3. DOMAIN g = 1 .. n /\ g[n] = op.row /\ DOMAIN mem[p] = 1 .. n - 1 /\ \A s \in DOMAIN mem[p] : g[s] = mem[p][s]
  BY <1>1, InsertGrows, PageShape
<1>4. busy'.op = "INSERT" /\ busy'.row = op.row /\ busy'.placed /\ busy'.page = p /\ busy'.slot = n
  BY DEF Placed
<1>5. Len(mem[p]) \in Nat
  BY <1>1, PageIndexes
<1> HIDE DEF g, n
<1>6. \A s \in DOMAIN g : s # n => s \in DOMAIN mem[p]
  BY <1>3, <1>5 DEF n
<1>7. ASSUME NEW r \in Rows, NEW q \in PageIds, NEW s, Held(mem', disk', log', r, q, s)
      PROVE  Held(mem, disk, log, r, q, s) \/ (r = op.row /\ q = p /\ s = n)
  <2>1. CASE s \in DOMAIN mem'[q] /\ mem'[q][s] = r
    <3>1. CASE q # p
      BY <1>2, <2>1, <3>1 DEF Held
    <3>2. CASE q = p /\ s # n
      BY <1>2, <1>3, <1>6, <2>1, <3>2 DEF Held
    <3>3. CASE q = p /\ s = n
      BY <1>2, <1>3, <2>1, <3>3
    <3> QED
      BY <3>1, <3>2, <3>3
  <2>2. CASE s \in DOMAIN disk'[q] /\ disk'[q][s] = r
    BY <2>2 DEF Held
  <2>3. CASE \E i \in DOMAIN log' : At(log', "INSERT", i, q, s) /\ log'[i].new = r
    BY <2>3 DEF Held
  <2> QED
    BY <1>7, <2>1, <2>2, <2>3 DEF Held
<1>8. Located'
  <2> SUFFICES ASSUME NEW r \in Rows, NEW a \in PageIds, NEW b \in PageIds, NEW s, NEW u,
                      Held(mem', disk', log', r, a, s), Held(mem', disk', log', r, b, u)
               PROVE  a = b /\ s = u
    BY DEF Located
  <2>1. CASE r = op.row
    BY <1>7, <2>1
  <2>2. CASE r # op.row
    BY <1>7, <2>2 DEF Located
  <2> QED
    BY <2>1, <2>2
<1>9. Issued'
  <2> SUFFICES ASSUME NEW r \in Rows, NEW q \in PageIds, NEW s, Held(mem', disk', log', r, q, s)
               PROVE  r <= issued' /\ (InHand(busy', r) => Unlogged(busy', q, s))
    BY DEF Issued
  <2>1. CASE r = op.row
    BY <1>4, <1>7, <2>1 DEF Unlogged
  <2>2. CASE r # op.row
    <3>1. r <= issued
      BY <1>7, <2>2 DEF Issued
    <3> QED
      BY <1>4, <2>2, <3>1 DEF InHand
  <2> QED
    BY <2>1, <2>2
<1> QED
  BY <1>8, <1>9

-----------------------------------------------------------------------------
(* The invariants of rows and of the log                                   *)
PlacesInv == Located /\ Issued /\ HandInv /\ LogInv

LEMMA LogRowsIssued ==
  ASSUME BaseInv, Labelled, Issued
  PROVE  \A i \in DOMAIN log : log[i].type = "INSERT" =>
           /\ log[i].new \in Rows /\ log[i].new <= issued /\ log[i].page \in PageIds
           /\ Held(mem, disk, log, log[i].new, log[i].page, log[i].slot)
<1> SUFFICES ASSUME NEW i \in DOMAIN log, log[i].type = "INSERT"
             PROVE  /\ log[i].new \in Rows /\ log[i].new <= issued /\ log[i].page \in PageIds
                    /\ Held(mem, disk, log, log[i].new, log[i].page, log[i].slot)
  OBVIOUS
<1>1. log[i] \in Record /\ log[i].page \in PageIds /\ log[i].new # NoRow
  BY DataPages, SequenceElements DEF Labelled
<1>2. log[i].new \in Rows
  BY <1>1 DEF Record
<1>3. Held(mem, disk, log, log[i].new, log[i].page, log[i].slot)
  BY DEF Held, At
<1> QED
  BY <1>1, <1>2, <1>3 DEF Issued

(* The log is cut or kept, or gets a record.                               *)
LEMMA LogInvCut ==
  ASSUME LogInv, DOMAIN log' \subseteq DOMAIN log, \A i \in DOMAIN log' : log'[i] = log[i]
  PROVE  LogInv'
BY DEF LogInv

LEMMA LogInvAppend ==
  ASSUME TypeInv, LogInv, NEW e \in Record, wal_write(e),
         e.type = "BEGIN" => e.tx # 0,
         e.type \in DataOps /\ e.tx # 0 => e.type = "INSERT",
         e.type = "INSERT" => /\ e.old = NoRow
                              /\ \A i \in DOMAIN log : log[i].type = "INSERT" => log[i].new # e.new,
         e.type \notin DataOps => e.old = NoRow /\ e.new = NoRow
  PROVE  LogInv'
<1> DEFINE n == Len(log) + 1
<1>1. /\ n \in DOMAIN log' /\ log'[n] = e
      /\ \A i \in DOMAIN log : i \in DOMAIN log' /\ log'[i] = log[i]
      /\ \A i \in DOMAIN log' : i \in DOMAIN log \/ i = n
  BY AppendRecord
<1> HIDE DEF n
<1>2. \A i \in DOMAIN log' :
       /\ log'[i].type = "BEGIN" => log'[i].tx # 0
       /\ log'[i].type \in DataOps /\ log'[i].tx # 0 => log'[i].type = "INSERT"
       /\ log'[i].type = "INSERT" => log'[i].old = NoRow
       /\ log'[i].type \notin DataOps => log'[i].old = NoRow /\ log'[i].new = NoRow
  BY <1>1 DEF LogInv
<1>3. \A i, j \in DOMAIN log' :
         log'[i].type = "INSERT" /\ log'[j].type = "INSERT" /\ log'[i].new = log'[j].new => i = j
  BY <1>1 DEF LogInv
<1> QED
  BY <1>2, <1>3 DEF LogInv

(* The transaction statements, their end, and restarts                     *)
Quiet ==
  /\ busy' = NoOp /\ issued' = issued
  /\ \A p \in PageIds : mem'[p] \in {mem[p], disk[p]} /\ disk'[p] \in {mem[p], disk[p]}

LEMMA PlacesCut ==
  ASSUME AllInv, Quiet, DOMAIN log' \subseteq DOMAIN log, \A i \in DOMAIN log' : log'[i] = log[i]
  PROVE  PlacesInv'
<1>1. BaseInv /\ Located /\ Issued /\ LogInv
  BY DEF AllInv, StoreInv
<1>2. LogInv'
  BY <1>1, LogInvCut
<1>3. busy'.op = "none" /\ ~busy'.placed /\ busy'.old = NoRow
  BY ConstantTypes DEF Quiet, NoOp
<1>4. HandInv'
  BY <1>3 DEF HandInv
<1>5. Located' /\ Issued'
  BY <1>1, <1>3, HeldCopied DEF Quiet
<1> QED
  BY <1>2, <1>4, <1>5 DEF PlacesInv

LEMMA PlacesControl ==
  ASSUME AllInv, Quiet, NEW type \in {"BEGIN", "COMMIT", "ABORT", "SAVEPOINT"}, NEW t \in Nat,
         wal_write(Control(type, t)), type = "BEGIN" => t # 0
  PROVE  PlacesInv'
<1>1. BaseInv /\ Located /\ Issued /\ LogInv /\ TypeInv
  BY DEF AllInv, StoreInv, BaseInv
<1> DEFINE e == Control(type, t)
<1>2. e \in Record /\ e.type = type /\ e.tx = t /\ e.new = NoRow /\ e.old = NoRow
  BY ControlRecord DEF Control
<1> HIDE DEF e
<1>3. wal_write(e)
  BY DEF e
<1>4. e.type \notin DataOps /\ e.type # "INSERT"
  BY <1>2 DEF DataOps
<1>5. LogInv'
  BY <1>1, <1>2, <1>3, <1>4, LogInvAppend
<1>6. \A i \in DOMAIN log' : log'[i].type = "INSERT" => i \in DOMAIN log /\ log'[i] = log[i]
  BY <1>1, <1>2, <1>3, <1>4, AppendRecord
<1>7. busy'.op = "none" /\ ~busy'.placed /\ busy'.old = NoRow
  BY ConstantTypes DEF Quiet, NoOp
<1>8. HandInv'
  BY <1>7 DEF HandInv
<1>9. Located' /\ Issued'
  BY <1>1, <1>6, <1>7, HeldCopied DEF Quiet
<1> QED
  BY <1>5, <1>8, <1>9 DEF PlacesInv

(* Row operations                                                          *)
LEMMA PlacesInsert ==
  ASSUME AllInv, NEW big \in Oversize, Insert(big)
  PROVE  PlacesInv'
<1>1. /\ BaseInv /\ Located /\ Issued /\ LogInv /\ TypeInv /\ Labelled /\ HeapInv
      /\ issued \in Nat /\ issued < MaxRows /\ phase = "up" /\ ~busy.placed /\ MaxRows \in Nat
  BY ConstantTypes DEF AllInv, StoreInv, BaseInv, OwnInv, TypeInv, Insert, Ready
<1>2. /\ issued' = issued + 1 /\ UNCHANGED <<disk, chain, log>>
  BY <1>1 DEF Insert
<1> DEFINE op == [NoOp EXCEPT !.op = "INSERT", !.row = issued + 1, !.big = big]
<1>3. op \in Op /\ op.op = "INSERT" /\ op.row = issued + 1 /\ op.row # NoRow /\ op.old = NoRow /\ ~op.placed
  <2>1. issued + 1 \in Rows /\ big \in BOOLEAN /\ "INSERT" \in DataOps \cup {"none"} /\ issued + 1 # NoRow
    BY <1>1, ConstantTypes DEF Rows, DataOps, NoRow
  <2> QED
    BY <2>1, ConstantTypes DEF Op, NoOp, Slot, NoRow
<1>4. HeapInsert(op)
  BY DEF Insert
<1> HIDE DEF op
<1>5. \A r \in Rows : r <= issued => r <= issued' /\ r # op.row
  BY <1>1, <1>2, <1>3 DEF Rows
<1>6. \A q \in PageIds : \A s : ~Held(mem, disk, log, op.row, q, s)
  <2>1. op.row \in Rows /\ ~(op.row <= issued)
    BY <1>1, <1>3 DEF Op, Slot, NoRow, Deleted
  <2> QED
    BY <1>1, <2>1 DEF Issued
<1>7. LogInv'
  BY <1>1, <1>2, LogInvCut
<1>8. op.row <= issued' /\ \A i \in DOMAIN log : log[i].type = "INSERT" => log[i].new # op.row
  BY <1>1, <1>2, <1>3, <1>5, LogRowsIssued
<1>9. CASE Placed(op, FirstFit) /\ FirstFit \in 1 .. pages /\ FirstFit \in ChainPages /\ HasRoom(mem[FirstFit])
  <2> DEFINE p == FirstFit
  <2>1. p \in PageIds /\ p \in ChainPages /\ HasRoom(mem[p]) /\ Placed(op, p)
    BY <1>1, <1>9, DataPages
  <2> HIDE DEF p
  <2>2. Located' /\ Issued'
    BY <1>1, <1>2, <1>3, <1>5, <1>6, <1>8, <2>1, HeldPlaced
  <2>3. /\ busy'.op = "INSERT" /\ busy'.row = op.row /\ busy'.old = NoRow /\ busy'.page = p
        /\ busy'.slot = Len(mem[p]) + 1
    BY <1>3, <2>1 DEF Placed
  <2>4. Len(disk[p]) <= Len(mem[p]) /\ Len(mem[p]) \in Nat /\ Len(disk[p]) \in Nat
    BY <1>1, <2>1, DataPages, PageShape DEF HeapInv, Behind
  <2>5. busy'.page \in ChainPages' /\ Len(disk'[busy'.page]) < busy'.slot
    BY <1>2, <2>1, <2>3, <2>4 DEF ChainPages
  <2>6. HandInv'
    BY <1>2, <1>8, <2>3, <2>5 DEF HandInv
  <2> QED
    BY <1>7, <2>2, <2>6 DEF PlacesInv
<1>10. CASE busy' = [op EXCEPT !.fresh = pages + 1] /\ mem' = mem
  <2>1. busy'.op = "INSERT" /\ busy'.row = op.row /\ busy'.old = NoRow /\ ~busy'.placed
    BY <1>3, <1>10 DEF Op
  <2>2. HandInv'
    BY <1>2, <1>8, <2>1 DEF HandInv
  <2>3. Located'
    BY <1>1, <1>2, <1>10 DEF Located
  <2>4. Issued'
    BY <1>1, <1>2, <1>5, <1>10, <2>1 DEF Issued, InHand
  <2> QED
    BY <1>7, <2>2, <2>3, <2>4 DEF PlacesInv
<1>11. CASE busy' = NoOp /\ mem' = mem
  <2>1. busy'.op = "none" /\ busy'.old = NoRow /\ ~busy'.placed
    BY <1>11, ConstantTypes DEF NoOp
  <2>2. HandInv'
    BY <2>1 DEF HandInv
  <2>3. Located'
    BY <1>1, <1>2, <1>11 DEF Located
  <2>4. Issued'
    BY <1>1, <1>2, <1>5, <1>11, <2>1 DEF Issued, InHand
  <2> QED
    BY <1>7, <2>2, <2>3, <2>4 DEF PlacesInv
<1> QED
  BY <1>1, <1>3, <1>4, <1>9, <1>10, <1>11, HeapInsertCases

LEMMA PlacesLink ==
  ASSUME AllInv, Link
  PROVE  PlacesInv'
<1>1. /\ BaseInv /\ Located /\ Issued /\ LogInv /\ HandInv /\ HeapInv
      /\ issued \in Nat
  BY ConstantTypes DEF AllInv, StoreInv, BaseInv, TypeInv
<1>2. UNCHANGED <<issued, log>>
  BY DEF Link
<1>3. /\ ChainPages' = ChainPages \cup {pages}
      /\ pages \in PageIds /\ phase = "up" /\ ~busy.placed /\ busy.op = "INSERT"
      /\ disk' = [disk EXCEPT ![Last(chain)] = mem[Last(chain)]]
      /\ busy.big => busy' = NoOp /\ UNCHANGED mem
      /\ ~busy.big => Placed(busy, pages) /\ HasRoom(mem[pages])
  BY <1>1, LinkPlaces DEF HeapInv
<1>4. mem \in Contents /\ disk \in Contents /\ busy \in Op /\ busy.row # NoRow
  BY <1>1, <1>3, DataPages DEF BaseInv, TypeInv, StageInv
<1>5. \A q \in PageIds : disk'[q] \in {disk[q], mem[q]}
  BY <1>3, <1>4 DEF Contents
<1>6. LogInv'
  BY <1>1, <1>2, LogInvCut
<1>7. CASE busy.big
  <2>1. busy'.op = "none" /\ busy'.old = NoRow /\ ~busy'.placed
    BY <1>3, <1>7, ConstantTypes DEF NoOp
  <2>2. HandInv'
    BY <2>1 DEF HandInv
  <2>3. Located' /\ Issued'
    BY <1>1, <1>2, <1>3, <1>5, <1>7, <2>1, HeldCopied
  <2> QED
    BY <1>6, <2>2, <2>3 DEF PlacesInv
<1>8. CASE ~busy.big
  <2>1. \A q \in PageIds : \A s : ~Held(mem, disk, log, busy.row, q, s)
    <3>1. busy.row \in Rows
      BY <1>4 DEF Op, Slot, NoRow, Deleted
    <3>2. \A q, s : ~Unlogged(busy, q, s)
      BY <1>3 DEF Unlogged
    <3> QED
      BY <1>1, <1>3, <3>1, <3>2 DEF Issued, InHand
  <2>2. /\ busy.row <= issued
        /\ \A i \in DOMAIN log : log[i].type = "INSERT" => log[i].new # busy.row
    BY <1>1, <1>3 DEF HandInv
  <2>3. Located' /\ Issued'
    BY <1>1, <1>2, <1>3, <1>4, <1>5, <1>8, <2>1, <2>2, HeldPlaced
  <2>4. /\ busy'.op = "INSERT" /\ busy'.row = busy.row /\ busy'.old = NoRow /\ busy'.page = pages
        /\ busy'.slot = Len(mem[pages]) + 1
    BY <1>1, <1>3, <1>8 DEF Placed, HandInv
  <2>5. Len(disk[pages]) <= Len(mem[pages]) /\ Len(mem[pages]) \in Nat /\ Len(disk[pages]) \in Nat
    BY <1>1, <1>3, <1>4, PageShape DEF HeapInv, Behind
  <2>6. busy'.page \in ChainPages' /\ Len(disk'[busy'.page]) < busy'.slot
    <3>1. disk'[pages] \in {disk[pages], mem[pages]}
      BY <1>3, <1>5
    <3> QED
      BY <1>3, <2>4, <2>5, <3>1
  <2>7. HandInv'
    BY <1>2, <2>2, <2>4, <2>6 DEF HandInv
  <2> QED
    BY <1>6, <2>3, <2>7 DEF PlacesInv
<1> QED
  BY <1>7, <1>8

(* Only outside a transaction *)
LEMMA PlacesDelete ==
  ASSUME AllInv, Inserting, NEW p \in PageIds, NEW s \in 1 .. Slots, Delete(p, s)
  PROVE  PlacesInv'
<1>1. BaseInv /\ TypeInv /\ Located /\ Issued /\ LogInv
  BY DEF AllInv, StoreInv, BaseInv
<1>2. UNCHANGED <<mem, disk, issued, chain>> /\ tx_id = 0
  BY DEF Delete, pageVars, Uses, Inserting
<1>3. PICK e \in Record :
        /\ e = [type |-> "DELETE", tx |-> tx_id, page |-> p, slot |-> s, new |-> NoRow, old |-> mem[p][s]]
        /\ wal_write(e) /\ busy' \in Op /\ busy'.op = "DELETE" /\ busy'.page = p /\ busy'.slot = s
        /\ ~busy'.placed
  BY <1>1, DeleteRecord
<1>4. e.type = "DELETE" /\ e.type \in DataOps /\ e.tx = 0
  BY <1>2, <1>3 DEF DataOps
<1>5. LogInv'
  BY <1>1, <1>3, <1>4, LogInvAppend
<1>6. \A i \in DOMAIN log' : log'[i].type = "INSERT" => i \in DOMAIN log /\ log'[i] = log[i]
  BY <1>1, <1>3, <1>4, AppendRecord
<1>7. Located' /\ Issued'
  BY <1>1, <1>2, <1>3, <1>6, HeldCopied
<1>8. busy' = [NoOp EXCEPT !.op = "DELETE", !.row = mem[p][s], !.page = p, !.slot = s]
  BY DEF Delete
<1>9. busy'.row = mem[p][s] /\ busy'.old = NoRow
  BY <1>8 DEF NoOp
<1>10. HandInv'
  BY <1>2, <1>3, <1>9 DEF HandInv
<1> QED
  BY <1>5, <1>7, <1>10 DEF PlacesInv

LEMMA PlacesDeleteSlot ==
  ASSUME AllInv, DeleteSlot
  PROVE  PlacesInv'
<1>1. BaseInv /\ Located /\ Issued /\ LogInv /\ mem \in Contents
  BY DataPages DEF AllInv, StoreInv
<1>2. /\ UNCHANGED <<disk, issued, log>> /\ busy' = NoOp
      /\ mem' = [mem EXCEPT ![busy.page] = PageDelete(@, busy.slot)]
  BY DEF DeleteSlot
<1>3. busy'.op = "none" /\ busy'.old = NoRow /\ ~busy'.placed
  BY <1>2, ConstantTypes DEF NoOp
<1>4. LogInv'
  BY <1>1, <1>2, LogInvCut
<1>5. HandInv'
  BY <1>3 DEF HandInv
<1>6. ASSUME NEW p \in PageIds, NEW s \in DOMAIN mem'[p], mem'[p][s] # Deleted
      PROVE  Held(mem, disk, log, mem'[p][s], p, s)
  <2>1. CASE p # busy.page
    BY <1>1, <1>2, <2>1 DEF Contents, Held
  <2>2. CASE p = busy.page
    <3>1. mem'[p] = PageDelete(mem[p], busy.slot) /\ mem[p] \in Page
      BY <1>1, <1>2, <2>2, PageShape DEF Contents
    <3>2. s \in DOMAIN mem[p] /\ mem'[p][s] = mem[p][s]
      BY <1>6, <3>1, DeleteGrows
    <3> QED
      BY <3>2 DEF Held
  <2> QED
    BY <2>1, <2>2
<1>7. \A p \in PageIds : \A s \in DOMAIN disk'[p] : Held(mem, disk, log, disk'[p][s], p, s)
  BY <1>2 DEF Held
<1>8. \A i \in DOMAIN log' : log'[i].type = "INSERT" =>
           Held(mem, disk, log, log'[i].new, log'[i].page, log'[i].slot)
  BY <1>2 DEF Held, At
<1>9. Located' /\ Issued'
  BY <1>1, <1>2, <1>3, <1>6, <1>7, <1>8, HeldKept
<1> QED
  BY <1>4, <1>5, <1>9 DEF PlacesInv

LEMMA PlacesLog ==
  ASSUME AllInv, Log
  PROVE  PlacesInv'
<1>1. BaseInv /\ TypeInv /\ Located /\ Issued /\ LogInv /\ HandInv /\ HeapInv
  BY DEF AllInv, StoreInv, BaseInv
<1>2. UNCHANGED <<mem, disk, issued>> /\ busy' = NoOp /\ busy.placed
  BY DEF Log, pageVars
<1>3. PICK e \in Record :
        /\ e = [type |-> busy.op, tx |-> tx_id, page |-> busy.page,
                   slot |-> busy.slot, new |-> busy.row, old |-> busy.old]
        /\ wal_write(e) /\ busy.op = "INSERT"
  BY <1>1, LogRecord DEF HeapInv
<1>4. /\ e.type = "INSERT" /\ e.type \in DataOps /\ e.new = busy.row /\ e.old = NoRow
      /\ e.page = busy.page /\ e.slot = busy.slot
  BY <1>1, <1>3 DEF DataOps, HandInv
<1>5. \A i \in DOMAIN log : log[i].type = "INSERT" => log[i].new # e.new
  BY <1>1, <1>3, <1>4 DEF HandInv
<1>6. LogInv'
  BY <1>1, <1>3, <1>4, <1>5, LogInvAppend
<1>7. \A i \in DOMAIN log' : log'[i].type = "INSERT" =>
           Held(mem, disk, log, log'[i].new, log'[i].page, log'[i].slot)
  <2> SUFFICES ASSUME NEW i \in DOMAIN log', log'[i].type = "INSERT"
               PROVE  Held(mem, disk, log, log'[i].new, log'[i].page, log'[i].slot)
    OBVIOUS
  <2>1. (i \in DOMAIN log /\ log'[i] = log[i]) \/ log'[i] = e
    BY <1>1, <1>3, AppendRecord
  <2>2. CASE i \in DOMAIN log /\ log'[i] = log[i]
    BY <2>2 DEF Held, At
  <2>3. CASE log'[i] = e
    BY <1>1, <1>2, <1>3, <1>4, <2>3 DEF HeapInv, Held
  <2> QED
    BY <2>1, <2>2, <2>3
<1>8. \A p \in PageIds : /\ \A s \in DOMAIN mem'[p] : Held(mem, disk, log, mem'[p][s], p, s)
                         /\ \A s \in DOMAIN disk'[p] : Held(mem, disk, log, disk'[p][s], p, s)
  BY <1>2 DEF Held
<1>9. busy'.op = "none" /\ busy'.old = NoRow /\ ~busy'.placed
  BY <1>2, ConstantTypes DEF NoOp
<1>10. HandInv'
  BY <1>9 DEF HandInv
<1>11. Located' /\ Issued'
  BY <1>1, <1>2, <1>7, <1>8, <1>9, HeldKept
<1> QED
  BY <1>6, <1>10, <1>11 DEF PlacesInv

LEMMA PlacesWriteBack ==
  ASSUME AllInv, NEW p \in PageIds, WriteBack(p)
  PROVE  PlacesInv'
<1>1. BaseInv /\ Located /\ Issued /\ LogInv /\ HandInv /\ disk \in Contents
  BY DataPages DEF AllInv, StoreInv
<1>2. /\ UNCHANGED <<mem, chain, log, issued, busy>> /\ ~busy.placed
      /\ disk' = [disk EXCEPT ![p] = mem[p]]
  BY DEF WriteBack
<1>3. \A q \in PageIds : disk'[q] \in {mem[q], disk[q]}
  BY <1>1, <1>2 DEF Contents
<1>4. LogInv'
  BY <1>1, <1>2, LogInvCut
<1>5. HandInv'
  BY <1>1, <1>2 DEF HandInv
<1>6. Located' /\ Issued'
  BY <1>1, <1>2, <1>3, HeldCopied
<1> QED
  BY <1>4, <1>5, <1>6 DEF PlacesInv

(* What a step of undo or redo makes of the pages d                         *)
Applied(does, d, g, e) ==
  /\ g \in Contents
  /\ \A q \in PageIds : q # e.page => g[q] = d[q]
  /\ does = "redo" => g[e.page] = Redo(d[e.page], e)
  /\ does = "undo" => g[e.page] = Undo(d[e.page], e)
  /\ does = "undo" /\ e.type = "INSERT" => g[e.page] = PageDelete(d[e.page], e.slot)

(* One step changes one page of the file: an insertion repeated where it   *)
(* is missing, a deletion repeated, or an insertion undone.                *)
LEMMA AppliedPage ==
  ASSUME NEW d \in Contents, NEW e \in Record, e.page \in PageIds, NEW does \in {"redo", "undo"},
         e.type \in {"INSERT", "DELETE"}
  PROVE  Step(does, e) \in Steps /\ Applied(does, d, Apply(d, Step(does, e)), e)
<1> DEFINE step == Step(does, e)
<1>1. step \in Steps /\ step.rec = e /\ step.does = does
  BY DEF Step, Steps, DataOps
<1>2. Apply(d, step) = [d EXCEPT ![e.page] = IF step.does = "redo" THEN Redo(d[e.page], e) ELSE Undo(d[e.page], e)]
  BY <1>1 DEF Apply
<1>3. Apply(d, step) \in Contents
  BY <1>1, ApplyType
<1> HIDE DEF step
<1>4. \A q \in PageIds : q # e.page => Apply(d, step)[q] = d[q]
  BY <1>2 DEF Contents
<1>5. Apply(d, step)[e.page] = IF does = "redo" THEN Redo(d[e.page], e) ELSE Undo(d[e.page], e)
  BY <1>1, <1>2 DEF Contents
<1>6. e.type = "INSERT" => Undo(d[e.page], e) = PageDelete(d[e.page], e.slot)
  BY DEF Undo
<1>7. Applied(does, d, Apply(d, step), e)
  BY <1>3, <1>4, <1>5, <1>6 DEF Applied
<1> QED
  BY <1>1, <1>7 DEF step

LEMMA AppliedStep ==
  ASSUME BaseInv, HeapInv, WorkInv, ApplyStep
  PROVE  \E i \in DataIn(log) :
           /\ log[i] \in Record /\ log[i].page \in PageIds /\ log[i].type \in {"INSERT", "DELETE"}
           /\ \/ phase = "recover" /\ Head(work) = Step("redo", log[i])
              \/ phase = "recover" /\ i \in OpenInserts(log) /\ Head(work) = Step("undo", log[i])
              \/ /\ phase \in Undoings /\ log[i].type = "INSERT" /\ log[i].tx = tx_id
                 /\ Head(work) = Step("undo", log[i])
<1>1. work \in Seq(Steps) /\ work # <<>> /\ log \in Seq(Record)
  BY DataPages DEF ApplyStep, BaseInv, TypeInv
<1>2. 1 \in DOMAIN work /\ Head(work) = work[1]
  BY <1>1, TailElements
<1>3. \A i \in DataIn(log) : /\ log[i] \in Record /\ log[i].page \in PageIds
                             /\ log[i].type \in {"INSERT", "DELETE"}
  BY <1>1, DataPages, SequenceElements DEF DataIn, DataOps, HeapInv
<1>4. \A i \in DOMAIN log : log[i].type = "INSERT" => i \in DataIn(log)
  BY DataPages
<1> QED
  BY <1>2, <1>3, <1>4 DEF WorkInv, OpenInserts

LEMMA PlacesApplyStep ==
  ASSUME AllInv, ApplyStep
  PROVE  PlacesInv'
<1>1. /\ BaseInv /\ Located /\ Issued /\ LogInv /\ HeapInv /\ WorkInv
      /\ disk \in Contents
  BY DataPages DEF AllInv, StoreInv
<1>2. /\ UNCHANGED <<mem, log, issued, busy>> /\ busy = NoOp
      /\ disk' = Apply(disk, Head(work))
  BY <1>1 DEF ApplyStep, BaseInv, StageInv
<1>3. PICK i \in DataIn(log) :
           /\ log[i] \in Record /\ log[i].page \in PageIds /\ log[i].type \in {"INSERT", "DELETE"}
           /\ \/ phase = "recover" /\ Head(work) = Step("redo", log[i])
              \/ log[i].type = "INSERT" /\ Head(work) = Step("undo", log[i])
  BY <1>1, AppliedStep DEF OpenInserts
<1> DEFINE e == log[i]
           b == e.page
           d == disk[b]
<1>4. d \in Page
  BY <1>1, <1>3, PageShape
<1>5. \A q \in PageIds : q # b => disk'[q] = disk[q]
  BY <1>1, <1>2, <1>3, AppliedPage DEF Applied
<1>6. \A s \in DOMAIN disk'[b] : disk'[b][s] # Deleted => Held(mem, disk, log, disk'[b][s], b, s)
  <2>1. CASE disk'[b] = PageDelete(d, e.slot)
    BY <1>4, <2>1, DeleteGrows DEF Held
  <2>2. CASE disk'[b] = d
    BY <2>2 DEF Held
  <2>3. CASE e.type = "INSERT" /\ e.slot = Len(d) + 1 /\ disk'[b] = PageInsert(d, e.new)
    <3>1. e.new \in Slot /\ i \in DOMAIN log
      BY <1>3 DEF Record, Slot, Deleted, NoRow, DataIn
    <3>2. CASE HasRoom(d)
      <4> DEFINE g == disk'[b]
      <4>1. DOMAIN g = 1 .. Len(d) + 1 /\ g[Len(d) + 1] = e.new /\ \A s \in DOMAIN d : g[s] = d[s]
        BY <1>4, <2>3, <3>1, <3>2, InsertGrows
      <4>2. DOMAIN d = 1 .. Len(d) /\ Len(d) \in Nat
        BY <1>4, PageIndexes
      <4> HIDE DEF g
      <4>3. \A s \in DOMAIN g : s \in DOMAIN d \/ s = e.slot
        BY <2>3, <4>1, <4>2
      <4>4. \A s \in DOMAIN g : Held(mem, disk, log, g[s], b, s)
        BY <2>3, <3>1, <4>1, <4>3 DEF Held, At
      <4> QED
        BY <4>4 DEF g
    <3>3. CASE ~HasRoom(d)
      BY <2>3, <3>3 DEF PageInsert, Held
    <3> QED
      BY <3>2, <3>3
  <2>4. \/ disk'[b] = PageDelete(d, e.slot)
        \/ disk'[b] = d
        \/ e.type = "INSERT" /\ e.slot = Len(d) + 1 /\ disk'[b] = PageInsert(d, e.new)
    <3>1. CASE Head(work) = Step("undo", e) /\ e.type = "INSERT"
      BY <1>1, <1>2, <1>3, <3>1, AppliedPage DEF Applied
    <3>2. CASE Head(work) = Step("redo", e)
      <4>1. disk'[b] = Redo(d, e)
        <5>1. disk' = Apply(disk, Step("redo", e)) /\ e \in Record /\ b \in PageIds
              /\ e.type \in {"INSERT", "DELETE"}
          BY <1>2, <1>3, <3>2
        <5> HIDE DEF e
        <5>2. Applied("redo", disk, disk', e)
          BY <1>1, <5>1, AppliedPage
        <5> QED
          BY <5>2 DEF Applied
      <4>2. CASE e.type = "INSERT"
        BY <4>1, <4>2 DEF Redo, RedoMissing
      <4>3. CASE e.type = "DELETE"
        BY <4>1, <4>3 DEF Redo
      <4> QED
        BY <1>3, <4>2, <4>3
    <3> QED
      BY <1>3, <3>1, <3>2
  <2> QED
    BY <2>1, <2>2, <2>3, <2>4
<1>7. \A p \in PageIds : \A s \in DOMAIN disk'[p] :
           disk'[p][s] # Deleted => Held(mem, disk, log, disk'[p][s], p, s)
  BY <1>5, <1>6 DEF Held
<1>8. \A p \in PageIds : \A s \in DOMAIN mem'[p] : Held(mem, disk, log, mem'[p][s], p, s)
  BY <1>2 DEF Held
<1>9. \A j \in DOMAIN log' : log'[j].type = "INSERT" =>
           Held(mem, disk, log, log'[j].new, log'[j].page, log'[j].slot)
  BY <1>2 DEF Held, At
<1>10. LogInv'
  BY <1>1, <1>2, LogInvCut
<1>11. busy'.op = "none" /\ busy'.old = NoRow /\ ~busy'.placed
  BY <1>2, ConstantTypes DEF NoOp
<1>12. HandInv'
  BY <1>11 DEF HandInv
<1>13. Located' /\ Issued'
  BY <1>1, <1>2, <1>7, <1>8, <1>9, HeldKept
<1> QED
  BY <1>10, <1>12, <1>13 DEF PlacesInv

(* No statement of a client updates.                                       *)
LEMMA NoUpdate ==
  ASSUME Inserting, HeapInv
  PROVE  /\ \A p, s, big : ~Update(p, s, big)
         /\ ~PlaceUpdated
BY DEF Inserting, HeapInv, Update, PlaceUpdated, Uses

LEMMA PlacesStep ==
  ASSUME AllInv, Inserting, [Next]_vars
  PROVE  PlacesInv'
<1>0. BaseInv /\ HeapInv /\ Located /\ Issued /\ HandInv /\ LogInv
  BY DEF AllInv, StoreInv
<1>1. ASSUME UNCHANGED vars PROVE PlacesInv'
  <2>1. UNCHANGED <<mem, disk, chain, log, busy, issued>>
    BY <1>1 DEF vars
  <2>2. Located' /\ Issued'
    BY <1>0, <2>1 DEF Located, Issued
  <2>3. HandInv' /\ LogInv'
    BY <1>0, <2>1 DEF HandInv, LogInv, ChainPages
  <2> QED
    BY <2>2, <2>3 DEF PlacesInv
<1>3. ASSUME Begin PROVE PlacesInv'
  <2>1. Quiet /\ wal_write(Control("BEGIN", Len(txs) + 1))
    BY <1>3 DEF Begin, Quiet, Ready, pageVars
  <2>2. Len(txs) + 1 \in Nat /\ Len(txs) + 1 # 0
    BY <1>0 DEF BaseInv, TypeInv
  <2> QED
    BY <2>1, <2>2, PlacesControl
<1>4. tx_id \in Nat
  BY <1>0 DEF BaseInv, TypeInv
<1>5. ASSUME Commit PROVE PlacesInv'
  <2>1. Quiet /\ wal_write(Control("COMMIT", tx_id))
    BY <1>5 DEF Commit, Quiet, Ready, pageVars
  <2> QED
    BY <1>4, <2>1, PlacesControl
<1>6. ASSUME NEW name \in Names, Savepoint(name) PROVE PlacesInv'
  <2>1. Quiet /\ wal_write(Control("SAVEPOINT", tx_id))
    BY <1>6 DEF Savepoint, Quiet, Ready, pageVars
  <2> QED
    BY <1>4, <2>1, PlacesControl
<1>7. ASSUME NEW next \in {"rollback", "closing"}, RollbackBegin(next) PROVE PlacesInv'
  <2>1. Quiet /\ wal_write(Control("ABORT", tx_id))
    BY <1>7 DEF RollbackBegin, Quiet, Ready
  <2> QED
    BY <1>4, <2>1, PlacesControl
<1>8. ASSUME NEW name \in Names, RollbackToBegin(name) PROVE PlacesInv'
  <2>1. Quiet /\ UNCHANGED log
    BY <1>8 DEF RollbackToBegin, Quiet, Ready
  <2> QED
    BY <2>1, PlacesCut
<1>9. ASSUME RollbackEnd PROVE PlacesInv'
  <2>1. Quiet /\ UNCHANGED log
    BY <1>0, <1>9 DEF RollbackEnd, Quiet, Reread, BaseInv, StageInv
  <2> QED
    BY <2>1, PlacesCut
<1>10. ASSUME RollbackToEnd PROVE PlacesInv'
  <2>1. Quiet
    BY <1>0, <1>10 DEF RollbackToEnd, Quiet, Reread, BaseInv, StageInv
  <2>2. DOMAIN log' \subseteq DOMAIN log /\ \A i \in DOMAIN log' : log'[i] = log[i]
    BY <1>0, <1>10, RollbackToCuts
  <2> QED
    BY <2>1, <2>2, PlacesCut
<1>11. DOMAIN <<>> = {}
  OBVIOUS
<1>12. ASSUME Shutdown PROVE PlacesInv'
  <2>1. Quiet /\ log' = <<>>
    <3>1. busy' = NoOp /\ log' = <<>>
      BY <1>0, <1>12, BaseShutdown
    <3> QED
      BY <1>12, <3>1 DEF Shutdown, Reopened, Quiet, Reread
  <2> QED
    BY <1>11, <2>1, PlacesCut
<1>13. ASSUME Crash PROVE PlacesInv'
  <2>1. Quiet /\ UNCHANGED log
    BY <1>13 DEF Crash, Quiet
  <2> QED
    BY <2>1, PlacesCut
<1>14. ASSUME RecoverEnd PROVE PlacesInv'
  <2>1. Quiet /\ log' = <<>>
    BY <1>0, <1>14 DEF RecoverEnd, Quiet, BaseInv, StageInv
  <2> QED
    BY <1>11, <2>1, PlacesCut
<1> QED
  BY <1>0, <1>1, <1>3, <1>5, <1>6, <1>7, <1>8, <1>9, <1>10, <1>12, <1>13, <1>14, NoUpdate, PlacesInsert,
     PlacesLink, PlacesDelete, PlacesDeleteSlot, PlacesLog, PlacesWriteBack, PlacesApplyStep DEF Next

-----------------------------------------------------------------------------
(* The current transaction                                                 *)
LEMMA TxInvAppend ==
  ASSUME BaseInv, TxInv, phase = "up", phase' = "up", NEW e \in Record, wal_write(e), e.tx = tx_id,
         e.type \notin EndsTx \cup {"BEGIN"}, UNCHANGED <<txs, tx_id>>,
         \A c \in DOMAIN savepoints' :
             \/ c \in DOMAIN savepoints /\ savepoints'[c] = savepoints[c]
             \/ savepoints'[c].offset = Len(log) + 1
  PROVE  TxInv'
<1> DEFINE m == Len(log) + 1
<1>1. /\ m \in Nat /\ m \in DOMAIN log' /\ log'[m] = e
      /\ \A i \in DOMAIN log : i \in DOMAIN log' /\ log'[i] = log[i]
      /\ \A i \in DOMAIN log' : i \in DOMAIN log \/ i = m
      /\ \A i \in DOMAIN log' : i <= m /\ ~(i > m)
  <2>1. TypeInv
    BY DEF BaseInv
  <2>2. DOMAIN log' = 1 .. m /\ Len(log) \in Nat
    BY <2>1, AppendRecord
  <2>3. \A i \in 1 .. m : i <= m /\ ~(i > m)
    BY <2>2
  <2>4. m \in Nat
    BY <2>2
  <2> HIDE DEF m
  <2>5. /\ m \in DOMAIN log' /\ log'[m] = e
        /\ \A i \in DOMAIN log : i \in DOMAIN log' /\ log'[i] = log[i]
        /\ \A i \in DOMAIN log' : i \in DOMAIN log \/ i = m
    BY <2>1, AppendRecord DEF m
  <2> QED
    BY <2>2, <2>3, <2>4, <2>5
<1> HIDE DEF m
<1>2. Len(txs') <= MaxTx
  BY DEF TxInv
<1>3. ASSUME tx_id # 0
      PROVE  /\ \E i \in DOMAIN log' : log'[i].type = "BEGIN" /\ log'[i].tx = tx_id
             /\ \A i \in DOMAIN log' : ~Ends(i, tx_id)'
             /\ \A c \in DOMAIN savepoints', i \in DOMAIN log' : savepoints'[c].tx = tx_id =>
                  /\ i > savepoints'[c].offset => log'[i].tx = tx_id
                  /\ log'[i].type = "BEGIN" /\ log'[i].tx = tx_id => i <= savepoints'[c].offset
  <2>1. \E i \in DOMAIN log' : log'[i].type = "BEGIN" /\ log'[i].tx = tx_id
    BY <1>1, <1>3 DEF TxInv
  <2>2. \A i \in DOMAIN log' : ~(log'[i].type \in EndsTx /\ log'[i].tx = tx_id)
    BY <1>1, <1>3 DEF TxInv, Ends
  <2>3. ASSUME NEW c \in DOMAIN savepoints', NEW i \in DOMAIN log', savepoints'[c].tx = tx_id
        PROVE  /\ i > savepoints'[c].offset => log'[i].tx = tx_id
               /\ log'[i].type = "BEGIN" /\ log'[i].tx = tx_id => i <= savepoints'[c].offset
    <3>1. CASE savepoints'[c].offset = m
      BY <1>1, <3>1
    <3>2. CASE c \in DOMAIN savepoints /\ savepoints'[c] = savepoints[c]
      BY <1>1, <1>3, <2>3, <3>2 DEF TxInv
    <3> QED
      BY <3>1, <3>2 DEF m
  <2> QED
    BY <2>1, <2>2, <2>3 DEF Ends
<1> QED
  BY <1>2, <1>3 DEF TxInv

LEMMA TxInvBegin ==
  ASSUME BaseInv, LedgerInv, Labelled, Begin
  PROVE  TxInv'
<1>1. PICK e \in Record : /\ wal_write(e) /\ e.type = "BEGIN" /\ e.tx = Len(txs) + 1
                          /\ Len(txs) \in Nat /\ tx_id' = Len(txs) + 1
                          /\ Len(txs') = Len(txs) + 1
  BY BeginRecord
<1>2. phase = "up" /\ UNCHANGED savepoints /\ Len(txs) < MaxTx
  BY DEF Begin, Ready, HasFreeTx
<1>3. Len(txs') <= MaxTx
  BY <1>1, <1>2, EngineAssumption
<1> DEFINE m == Len(log) + 1
<1>4. /\ m \in DOMAIN log' /\ log'[m] = e
      /\ \A i \in DOMAIN log' : i = m \/ (i \in DOMAIN log /\ log'[i] = log[i])
  BY <1>1, AppendRecord DEF BaseInv
<1> HIDE DEF m
<1>5. /\ \A i \in DOMAIN log : log[i].tx # tx_id'
      /\ \A c \in DOMAIN savepoints : savepoints[c].tx # tx_id'
  <2>1. log \in Seq(Record) /\ savepoints \in Seq(Saved)
    BY DEF BaseInv, TypeInv
  <2>2. \A i \in DOMAIN log : log[i].tx \in Nat
    <3>1. \A i \in DOMAIN log : log[i] \in Record
      BY <2>1, SequenceElements
    <3> QED
      BY <3>1 DEF Record
  <2>3. \A c \in DOMAIN savepoints : savepoints[c].tx \in Nat
    <3>1. \A c \in DOMAIN savepoints : savepoints[c] \in Saved
      BY <2>1, SequenceElements
    <3> QED
      BY <3>1 DEF Saved
  <2>4. /\ \A i \in DOMAIN log : log[i].tx <= Len(txs)
        /\ \A c \in DOMAIN savepoints : savepoints[c].tx <= Len(txs)
    BY <1>2 DEF Labelled, LedgerInv
  <2> QED
    BY <1>1, <2>2, <2>3, <2>4
<1>6. "BEGIN" \notin EndsTx
  BY DEF EndsTx
<1>7. /\ \E i \in DOMAIN log' : log'[i].type = "BEGIN" /\ log'[i].tx = tx_id'
      /\ \A i \in DOMAIN log' : ~Ends(i, tx_id)'
      /\ \A c \in DOMAIN savepoints' : savepoints'[c].tx # tx_id'
  BY <1>1, <1>2, <1>4, <1>5, <1>6 DEF Ends
<1> QED
  BY <1>3, <1>7 DEF TxInv

LEMMA TxInvStep ==
  ASSUME AllInv, Inserting, [Next]_vars
  PROVE  TxInv'
<1>0. BaseInv /\ LedgerInv /\ HeapInv /\ Labelled /\ TxInv
  BY DEF AllInv, StoreInv, OwnInv
<1>1. ASSUME UNCHANGED <<log, txs, tx_id, savepoints>>, phase' \in {"up", "rollback_to"} => phase = "up" \/ phase' = phase
      PROVE  TxInv'
  BY <1>0, <1>1 DEF TxInv, Ends
<1>2. ASSUME Len(txs') <= MaxTx, tx_id' = 0 PROVE TxInv'
  BY <1>2 DEF TxInv
<1>3. CASE UNCHANGED vars
  BY <1>1, <1>3 DEF vars
<1>4. ASSUME NEW big \in Oversize, Insert(big) PROVE TxInv'
  BY <1>1, <1>4 DEF Insert, Ready, txVars, workVars
<1>5. ASSUME NEW p \in PageIds, NEW s \in 1 .. Slots, Delete(p, s) PROVE TxInv'
  <2>1. UNCHANGED <<txs, tx_id, savepoints, phase>> /\ phase = "up"
    BY <1>5 DEF Delete, Ready, txVars, workVars
  <2>2. PICK e \in Record : e.type = "DELETE" /\ e.tx = tx_id /\ wal_write(e)
    BY <1>0, <1>5, DeleteRecord
  <2>3. e.type \notin EndsTx \cup {"BEGIN"}
    BY <2>2 DEF EndsTx
  <2> QED
    BY <1>0, <2>1, <2>2, <2>3, TxInvAppend
<1>6. ASSUME DeleteSlot PROVE TxInv'
  BY <1>1, <1>6 DEF DeleteSlot, txVars, workVars
<1>7. ASSUME Link PROVE TxInv'
  BY <1>1, <1>7 DEF Link, txVars, workVars
<1>8. ASSUME Log PROVE TxInv'
  <2>1. UNCHANGED <<txs, tx_id, savepoints, phase>> /\ busy.placed
    BY <1>8 DEF Log, txVars, workVars
  <2>2. phase = "up"
    BY <1>0, <2>1, ConstantTypes DEF BaseInv, StageInv
  <2>3. PICK e \in Record : e.type \in {"INSERT", "UPDATE"} /\ e.tx = tx_id /\ wal_write(e)
    BY <1>0, <1>8, LogRecord
  <2>4. e.type \notin EndsTx \cup {"BEGIN"}
    BY <2>3 DEF EndsTx
  <2> QED
    BY <1>0, <2>1, <2>2, <2>3, <2>4, TxInvAppend
<1>9. ASSUME NEW p \in PageIds, WriteBack(p) PROVE TxInv'
  BY <1>1, <1>9 DEF WriteBack, txVars, workVars
<1>10. ASSUME Begin PROVE TxInv'
  BY <1>0, <1>10, TxInvBegin
<1>11. ASSUME Commit PROVE TxInv'
  <2>1. txs' = [txs EXCEPT ![tx_id] = FALSE] /\ tx_id' = 0
    BY <1>11 DEF Commit
  <2>2. Len(txs') = Len(txs)
    BY <1>0, <2>1, CloseTx
  <2> QED
    BY <1>0, <1>2, <2>1, <2>2 DEF TxInv
<1>12. ASSUME NEW name \in Names, Savepoint(name) PROVE TxInv'
  <2>1. UNCHANGED <<txs, tx_id, phase>> /\ phase = "up" /\ wal_write(Control("SAVEPOINT", tx_id))
    BY <1>12 DEF Savepoint, Ready, txVars, workVars
  <2>2. PICK e \in Record : e.type = "SAVEPOINT" /\ e.tx = tx_id /\ wal_write(e)
    BY <1>0, <2>1, EndRecord
  <2>3. e.type \notin EndsTx \cup {"BEGIN"}
    BY <2>2 DEF EndsTx
  <2>4. \A c \in DOMAIN savepoints' :
             \/ c \in DOMAIN savepoints /\ savepoints'[c] = savepoints[c]
             \/ savepoints'[c].offset = Len(log) + 1
    BY <1>0, <1>12, SavepointKept
  <2> QED
    BY <1>0, <2>1, <2>2, <2>3, <2>4, TxInvAppend
<1>13. ASSUME NEW next \in {"rollback", "closing"}, RollbackBegin(next) PROVE TxInv'
  BY <1>0, <1>13 DEF RollbackBegin, txVars, TxInv
<1>14. ASSUME NEW name \in Names, RollbackToBegin(name) PROVE TxInv'
  BY <1>1, <1>14 DEF RollbackToBegin, Ready, txVars
<1>15. ASSUME ApplyStep PROVE TxInv'
  BY <1>1, <1>15 DEF ApplyStep, txVars
<1>16. ASSUME RollbackEnd PROVE TxInv'
  <2>1. txs' = [txs EXCEPT ![tx_id] = FALSE] /\ tx_id' = 0
    BY <1>16 DEF RollbackEnd
  <2>2. Len(txs') = Len(txs)
    BY <1>0, <2>1, CloseTx
  <2> QED
    BY <1>0, <1>2, <2>1, <2>2 DEF TxInv
<1>17. ASSUME RollbackToEnd PROVE TxInv'
  <2>1. UNCHANGED <<txs, tx_id>> /\ phase = "rollback_to"
    BY <1>17 DEF RollbackToEnd
  <2>2. /\ cut \in DOMAIN savepoints
        /\ DOMAIN log' = {i \in DOMAIN log : i <= savepoints[cut].offset}
        /\ \A i \in DOMAIN log' : log'[i] = log[i]
        /\ DOMAIN savepoints' \subseteq DOMAIN savepoints
        /\ \A i \in DOMAIN savepoints' : savepoints'[i] = savepoints[i]
    BY <1>0, <1>17, RollbackToCuts
  <2>3. savepoints[cut].tx = tx_id /\ Len(txs') <= MaxTx
    BY <1>0, <2>1 DEF LedgerInv, TxInv
  <2>4. ASSUME tx_id # 0
        PROVE  /\ \E i \in DOMAIN log' : log'[i].type = "BEGIN" /\ log'[i].tx = tx_id
               /\ \A i \in DOMAIN log' : ~Ends(i, tx_id)'
               /\ \A c \in DOMAIN savepoints', i \in DOMAIN log' : savepoints'[c].tx = tx_id =>
                    /\ i > savepoints'[c].offset => log'[i].tx = tx_id
                    /\ log'[i].type = "BEGIN" /\ log'[i].tx = tx_id => i <= savepoints'[c].offset
    BY <1>0, <2>1, <2>2, <2>3, <2>4 DEF TxInv, Ends
  <2> QED
    BY <2>1, <2>3, <2>4 DEF TxInv
<1>18. Len(<<>>) = 0 /\ 0 <= MaxTx
  BY EngineAssumption
<1>19. ASSUME Shutdown PROVE TxInv'
  BY <1>2, <1>18, <1>19 DEF Shutdown, Reopened
<1>20. ASSUME Crash PROVE TxInv'
  BY <1>2, <1>18, <1>20 DEF Crash
<1>21. ASSUME RecoverEnd PROVE TxInv'
  BY <1>0, <1>2, <1>21 DEF RecoverEnd, txVars, TxInv, Labelled
<1> QED
  BY <1>0, <1>3, <1>4, <1>5, <1>6, <1>7, <1>8, <1>9, <1>10, <1>11, <1>12, <1>13, <1>14, <1>15, <1>16,
     <1>17, <1>19, <1>20, <1>21, NoUpdate DEF Next

-----------------------------------------------------------------------------
(* What is replayed                                                        *)
Inserts(l, t) == {i \in DOMAIN l : l[i].type = "INSERT" /\ l[i].tx = t}

(* ROLLBACK undoes the insertions of the transaction.                      *)
LEMMA RollbackSteps ==
  ASSUME AllInv, Inserting, tx_id # 0
  PROVE  LET w == RollbackWork(log, tx_id)
         IN  /\ w \in Seq(Steps)
             /\ \A n \in DOMAIN w : \E i \in Inserts(log, tx_id) : w[n] = Step("undo", log[i])
             /\ \A i \in Inserts(log, tx_id) : \E n \in DOMAIN w : w[n] = Step("undo", log[i])
<1>1. BaseInv /\ Labelled /\ TypeInv
  BY DEF AllInv, OwnInv, BaseInv
<1>2. log \in Seq(Record) /\ Len(log) \in Nat /\ Len(log) <= MaxLog /\ DOMAIN log = 1 .. Len(log)
  BY <1>1, SequenceElements DEF TypeInv
<1>3. Len(log) <= MaxEntries
  BY <1>2, ConstantTypes DEF Inserting
<1> DEFINE I == {i \in DOMAIN log : log[i].tx = tx_id}
           w == Undoing[<<log, I>>]
<1>4. I \subseteq 1 .. Len(log) /\ MaxEntries \in Nat
  BY <1>2, ConstantTypes
<1>5. I \in SUBSET Nat
  BY <1>2
<1>6. \A i : i \in I \cap DataIn(log) <=> i \in Inserts(log, tx_id)
  BY <1>1 DEF Inserts, Labelled, DataIn, DataOps
<1> HIDE DEF I
<1>7. FirstOf(I, MaxEntries) = I
  BY <1>2, <1>3, <1>4, FirstOfAll
<1>8. RollbackWork(log, tx_id) = w
  BY <1>7 DEF RollbackWork, I
<1>9. /\ w \in Seq(Steps)
      /\ \A n \in DOMAIN w : \E i \in Inserts(log, tx_id) : w[n] = Step("undo", log[i])
      /\ \A i \in Inserts(log, tx_id) : \E n \in DOMAIN w : w[n] = Step("undo", log[i])
  <2>1. UndoesAll(w, log, Inserts(log, tx_id))
    BY <1>2, <1>5, <1>6, UndoingNames
  <2> HIDE DEF w
  <2> QED
    BY <2>1 DEF UndoesAll
<1> QED
  BY <1>8, <1>9

(* ROLLBACK TO undoes those behind the savepoint.                          *)
Cutting(l, k) == {i \in DOMAIN l : l[i].type \in DataOps /\ i > k}

LEMMA PartialSteps ==
  ASSUME AllInv, Inserting, tx_id # 0, phase = "up",
         NEW c \in DOMAIN savepoints, savepoints[c].tx = tx_id, savepoints[c].offset \in Nat
  PROVE  LET k == savepoints[c].offset
             w == PartialWork(log, k, tx_id)
         IN  /\ w \in Seq(Steps)
             /\ \A i \in Cutting(log, k) : i \in Inserts(log, tx_id)
             /\ \A n \in DOMAIN w : \E i \in Cutting(log, k) : w[n] = Step("undo", log[i])
             /\ \A i \in Cutting(log, k) : \E n \in DOMAIN w : w[n] = Step("undo", log[i])
<1>1. BaseInv /\ Labelled /\ TypeInv /\ TxInv /\ LogInv
  BY DEF AllInv, OwnInv, BaseInv, StoreInv
<1>2. log \in Seq(Record) /\ Len(log) \in Nat /\ Len(log) <= MaxLog /\ DOMAIN log = 1 .. Len(log)
  BY <1>1, SequenceElements DEF TypeInv
<1>3. Len(log) <= MaxUndo /\ MaxUndo \in Nat
  BY <1>2, ConstantTypes DEF Inserting
<1> DEFINE k == savepoints[c].offset
           I == {i \in k + 1 .. Len(log) : log[i].tx = tx_id /\ Undoable(log[i])}
           w == Undoing[<<log, I>>]
<1>4. \A i \in DOMAIN log : i > k => log[i].tx = tx_id
  BY <1>1 DEF TxInv
<1> HIDE DEF k
<1>5. k \in Nat
  BY DEF k
<1>6. I \subseteq 1 .. Len(log) /\ I \in SUBSET Nat
  BY <1>2, <1>5
<1>7. \A i \in Cutting(log, k) : i \in Inserts(log, tx_id)
  BY <1>1, <1>4 DEF Cutting, Inserts, LogInv
<1>8. \A i : i \in I \cap DataIn(log) <=> i \in Cutting(log, k)
  <2>1. ASSUME NEW i \in Cutting(log, k) PROVE i \in I \cap DataIn(log)
    <3>1. i \in DOMAIN log /\ i > k /\ log[i].type \in DataOps
      BY DEF Cutting
    <3>2. log[i].tx = tx_id /\ log[i].new # NoRow
      BY <1>1, <1>7, <2>1 DEF Inserts, Labelled
    <3>3. i \in k + 1 .. Len(log)
      BY <1>2, <1>5, <3>1
    <3> QED
      BY <3>1, <3>2, <3>3 DEF Undoable, DataIn
  <2>2. ASSUME NEW i \in I \cap DataIn(log) PROVE i \in Cutting(log, k)
    <3>1. i \in k + 1 .. Len(log) /\ i \in DOMAIN log /\ log[i].type \in DataOps
      BY <2>2 DEF DataIn
    <3>2. i > k
      BY <1>2, <1>5, <3>1
    <3> QED
      BY <3>1, <3>2 DEF Cutting
  <2> QED
    BY <2>1, <2>2
<1>9. PartialWork(log, k, tx_id) = Undoing[<<log, FirstOf(I, MaxUndo)>>]
  BY DEF PartialWork
<1> HIDE DEF I
<1>10. FirstOf(I, MaxUndo) = I
  BY <1>2, <1>3, <1>6, FirstOfAll
<1>11. /\ w \in Seq(Steps)
       /\ \A n \in DOMAIN w : \E i \in Cutting(log, k) : w[n] = Step("undo", log[i])
       /\ \A i \in Cutting(log, k) : \E n \in DOMAIN w : w[n] = Step("undo", log[i])
  <2>1. UndoesAll(w, log, Cutting(log, k))
    BY <1>2, <1>6, <1>8, UndoingNames
  <2> HIDE DEF w
  <2> QED
    BY <2>1 DEF UndoesAll
<1>12. w = PartialWork(log, k, tx_id)
  BY <1>9, <1>10
<1> HIDE DEF w
<1>13. /\ PartialWork(log, k, tx_id) \in Seq(Steps)
       /\ \A i \in Cutting(log, k) : i \in Inserts(log, tx_id)
       /\ \A n \in DOMAIN PartialWork(log, k, tx_id) :
            \E i \in Cutting(log, k) : PartialWork(log, k, tx_id)[n] = Step("undo", log[i])
       /\ \A i \in Cutting(log, k) : \E n \in DOMAIN PartialWork(log, k, tx_id) :
            PartialWork(log, k, tx_id)[n] = Step("undo", log[i])
  BY <1>7, <1>11, <1>12
<1> QED
  BY <1>13 DEF k

(* Recovery repeats what the log says, and undoes insertions of unfinished *)
(* transactions.                                                           *)
LEMMA RecoverySteps ==
  ASSUME AllInv, Inserting
  PROVE  LET w == RecoveryWork(log)
         IN  \A n \in DOMAIN w :
               \/ \E i \in DataIn(log) : w[n] = Step("redo", log[i])
               \/ \E i \in OpenInserts(log) : w[n] = Step("undo", log[i])
<1>1. BaseInv /\ HeapInv /\ LogInv /\ log \in Seq(Record)
  BY DataPages DEF AllInv, StoreInv
<1>2. Recoverable(log)
  BY <1>1, LogRecoverable DEF Inserting
<1>3. PICK u \in Seq(Steps) :
           /\ RecoveryWork(log) = Redoing[log] \o u
           /\ \A n \in DOMAIN u : \E i \in OpenInserts(log) : u[n] = Step("undo", log[i])
  BY <1>2, RecoveryParts
<1> DEFINE r == Redoing[log]
           w == r \o u
<1>4. PICK at : Repeats(r, at, log, DataIn(log))
  BY <1>1, RedoingRepeats
<1> HIDE DEF r
<1>5. r \in Seq(Steps) /\ \A n \in 1 .. Len(r) : r[n] = Step("redo", log[at[n]]) /\ at[n] \in DataIn(log)
  BY <1>4 DEF Repeats
<1>6. ASSUME NEW n \in DOMAIN w
      PROVE  \/ n \in 1 .. Len(r) /\ w[n] = r[n]
             \/ n - Len(r) \in DOMAIN u /\ w[n] = u[n - Len(r)]
  BY <1>5
<1> HIDE DEF w
<1>7. ASSUME NEW n \in DOMAIN w
      PROVE  \/ \E i \in DataIn(log) : w[n] = Step("redo", log[i])
             \/ \E i \in OpenInserts(log) : w[n] = Step("undo", log[i])
  <2>1. CASE n \in 1 .. Len(r) /\ w[n] = r[n]
    <3>1. r[n] = Step("redo", log[at[n]]) /\ at[n] \in DataIn(log)
      BY <1>5, <2>1
    <3> QED
      BY <2>1, <3>1
  <2>2. CASE n - Len(r) \in DOMAIN u /\ w[n] = u[n - Len(r)]
    <3>1. PICK i \in OpenInserts(log) : u[n - Len(r)] = Step("undo", log[i])
      BY <1>3, <2>2
    <3> QED
      BY <2>2, <3>1
  <2> QED
    BY <1>6, <2>1, <2>2
<1> QED
  BY <1>3, <1>7 DEF w, r

LEMMA PendApplyStep ==
  ASSUME BaseInv, HeapInv, WorkInv, PendInv, ApplyStep
  PROVE  WorkInv' /\ PendInv'
<1>1. /\ UNCHANGED <<log, tx_id, phase, savepoints, cut>> /\ work # <<>>
      /\ disk' = Apply(disk, Head(work)) /\ work' = Tail(work)
  BY DEF ApplyStep, txVars
<1>2. work \in Seq(Steps) /\ disk \in Contents /\ log \in Seq(Record)
  BY DataPages DEF BaseInv, TypeInv
<1>3. /\ Head(work) \in Steps /\ 1 \in DOMAIN work /\ Head(work) = work[1]
      /\ \A n \in DOMAIN Tail(work) : n + 1 \in DOMAIN work /\ Tail(work)[n] = work[n + 1]
      /\ \A n \in DOMAIN work : n = 1 \/ (n - 1 \in DOMAIN Tail(work) /\ Tail(work)[n - 1] = work[n])
  BY <1>1, <1>2, TailElements
<1>4. WorkInv'
  <2>1. \A n \in DOMAIN work' : \E m \in DOMAIN work : work'[n] = work[m]
    BY <1>1, <1>3
  <2> QED
    BY <1>1, <2>1 DEF WorkInv, OpenInserts
<1>5. PendInv'
  <2> SUFFICES ASSUME phase = "rollback_to", NEW i \in DataIn(log), i > savepoints[cut].offset
               PROVE  Emptying(disk', work', log[i])
    BY <1>1 DEF PendInv
  <2> DEFINE e == log[i]
             d == disk[e.page]
             g == disk'[e.page]
  <2>1. Emptying(disk, work, e) /\ e.page \in PageIds /\ e \in Record
    BY <1>2, DataPages, SequenceElements DEF PendInv, DataIn
  <2>2. CASE e.slot \in DOMAIN d /\ d[e.slot] = Deleted
    <3>1. Grows(d, g)
      BY <1>1, <1>2, <1>3, <2>1, ApplyGrows
    <3>2. e.slot \in DOMAIN g /\ g[e.slot] = Deleted
      <4> HIDE DEF d, g
      <4> QED
        BY <2>2, <3>1 DEF Grows
    <3> QED
      BY <3>2 DEF Emptying
  <2>3. ASSUME NEW n \in DOMAIN work, work[n] = Step("undo", e)
        PROVE  Emptying(disk', work', e)
    <3>1. CASE n = 1
      <4>1. e.type = "INSERT" /\ e.slot \in DOMAIN d
        <5>1. PICK j \in DOMAIN log : log[j].type = "INSERT" /\ work[n] = Step("undo", log[j])
          BY DEF WorkInv
        <5>2. e.type = "INSERT"
          BY <2>3, <5>1 DEF Step
        <5>3. Agrees(log, disk, busy)
          BY DEF HeapInv, Undoings
        <5> QED
          BY <5>2, <5>3 DEF Agrees, Shows, DataIn
      <4>2. g = PageDelete(d, e.slot)
        <5> HIDE DEF d
        <5>1. Head(work) = Step("undo", e)
          BY <1>3, <2>3, <3>1
        <5> QED
          <6>1. disk' = Apply(disk, Step("undo", e)) /\ e.type \in {"INSERT", "DELETE"}
            BY <1>1, <4>1, <5>1
          <6> HIDE DEF e
          <6>2. Applied("undo", disk, disk', e)
            BY <1>2, <2>1, <6>1, AppliedPage
          <6> QED
            BY <4>1, <6>2 DEF Applied, d
      <4>3. d \in Page
        BY <1>2, <2>1, PageShape
      <4>4. e.slot \in DOMAIN g /\ g[e.slot] = Deleted
        BY <4>1, <4>2, <4>3, DeleteGrows
      <4> QED
        BY <4>4 DEF Emptying
    <3>2. CASE n # 1
      <4> DEFINE m == n - 1
      <4>1. m \in DOMAIN work' /\ work'[m] = Step("undo", e)
        BY <1>1, <1>3, <2>3, <3>2
      <4> HIDE DEF m, e
      <4> QED
        BY <4>1 DEF Emptying
    <3> QED
      BY <3>1, <3>2
  <2> QED
    BY <2>1, <2>2, <2>3 DEF Emptying
<1> QED
  BY <1>4, <1>5

LEMMA WorkPendStep ==
  ASSUME AllInv, Inserting, ~StaleSavepoints, [Next]_vars, BaseInv'
  PROVE  WorkInv' /\ PendInv'
<1>0. BaseInv /\ HeapInv /\ WorkInv /\ PendInv
  BY DEF AllInv, StoreInv
<1>1. ASSUME phase' = "up" PROVE WorkInv' /\ PendInv'
  <2>1. work' = <<>> /\ DOMAIN <<>> = {}
    BY <1>1 DEF BaseInv, StageInv
  <2> QED
    BY <1>1, <2>1 DEF WorkInv, PendInv
<1>2. CASE UNCHANGED vars
  BY <1>0, <1>2 DEF vars, WorkInv, PendInv, OpenInserts
<1>3. ASSUME NEW next \in {"rollback", "closing"}, RollbackBegin(next) PROVE WorkInv' /\ PendInv'
  <2>1. /\ tx_id # 0 /\ phase' = next /\ UNCHANGED tx_id
        /\ wal_write(Control("ABORT", tx_id)) /\ work' = RollbackWork(log, tx_id)
    BY <1>3 DEF RollbackBegin, txVars
  <2>2. \A n \in DOMAIN work' : \E i \in Inserts(log, tx_id) : work'[n] = Step("undo", log[i])
    BY <2>1, RollbackSteps
  <2>3. \A i \in DOMAIN log : i \in DOMAIN log' /\ log'[i] = log[i]
    <3>1. PICK e \in Record : wal_write(e)
      BY <1>0, <2>1, EndRecord
    <3> QED
      BY <1>0, <3>1, AppendRecord DEF BaseInv
  <2> QED
    BY <2>1, <2>2, <2>3 DEF WorkInv, PendInv, Undoings, Inserts
<1>4. ASSUME NEW name \in Names, RollbackToBegin(name) PROVE WorkInv' /\ PendInv'
  <2>1. tx_id # 0 /\ phase = "up" /\ phase' = "rollback_to" /\ UNCHANGED <<tx_id, log, savepoints>>
    BY <1>4 DEF RollbackToBegin, Ready, txVars
  <2> DEFINE k == savepoints[cut'].offset
  <2>2. /\ cut' \in DOMAIN savepoints /\ k \in Nat /\ savepoints[cut'].tx = tx_id
        /\ work' = PartialWork(log, k, tx_id)
    BY <1>0, <1>4, BaseRollbackToBegin
  <2>3. /\ \A i \in Cutting(log, k) : i \in Inserts(log, tx_id)
        /\ \A n \in DOMAIN work' : \E i \in Cutting(log, k) : work'[n] = Step("undo", log[i])
        /\ \A i \in Cutting(log, k) : \E n \in DOMAIN work' : work'[n] = Step("undo", log[i])
    <3> DEFINE c == cut'
    <3>1. c \in DOMAIN savepoints /\ savepoints[c].tx = tx_id /\ savepoints[c].offset \in Nat
      BY <2>2
    <3>2. work' = PartialWork(log, savepoints[c].offset, tx_id)
      BY <2>2
    <3> HIDE DEF c
    <3>3. /\ \A i \in Cutting(log, savepoints[c].offset) : i \in Inserts(log, tx_id)
          /\ \A n \in DOMAIN work' : \E i \in Cutting(log, savepoints[c].offset) : work'[n] = Step("undo", log[i])
          /\ \A i \in Cutting(log, savepoints[c].offset) : \E n \in DOMAIN work' : work'[n] = Step("undo", log[i])
      BY <2>1, <3>1, <3>2, PartialSteps
    <3> QED
      BY <3>3 DEF c
  <2> HIDE DEF k
  <2>4. WorkInv'
    BY <2>1, <2>3 DEF WorkInv, Undoings, Inserts
  <2>5. \A i \in DataIn(log) : i > k => Emptying(disk', work', log[i])
    BY <2>3 DEF Emptying, Cutting, DataIn
  <2>6. PendInv'
    BY <2>1, <2>5 DEF PendInv, k
  <2> QED
    BY <2>4, <2>6
<1>5. ASSUME Crash PROVE WorkInv' /\ PendInv'
  <2>1. phase' = "recover" /\ work' = RecoveryWork(log) /\ UNCHANGED log
    BY <1>5 DEF Crash
  <2>2. \A n \in DOMAIN work' :
               \/ \E i \in DataIn(log) : work'[n] = Step("redo", log[i])
               \/ \E i \in OpenInserts(log) : work'[n] = Step("undo", log[i])
    BY <2>1, RecoverySteps
  <2> QED
    BY <2>1, <2>2 DEF WorkInv, PendInv, OpenInserts
<1>6. ASSUME ApplyStep PROVE WorkInv' /\ PendInv'
  BY <1>0, <1>6, PendApplyStep
<1>7. ASSUME NEW big \in Oversize, Insert(big) PROVE phase' = "up"
  BY <1>7 DEF Insert, Ready, workVars
<1>8. ASSUME NEW p \in PageIds, NEW s \in 1 .. Slots, Delete(p, s) PROVE phase' = "up"
  BY <1>8 DEF Delete, Ready, workVars
<1>9. ASSUME DeleteSlot \/ Log PROVE phase' = "up"
  <2>1. phase' = phase /\ busy # NoOp
    BY <1>9, ConstantTypes DEF DeleteSlot, Log, workVars
  <2> QED
    BY <1>0, <2>1 DEF BaseInv, StageInv
<1>10. ASSUME Link PROVE phase' = "up"
  BY <1>0, <1>10, LinkPlaces DEF Link, workVars
<1>11. ASSUME NEW p \in PageIds, WriteBack(p) PROVE phase' = "up"
  BY <1>11 DEF WriteBack, workVars
<1>12. ASSUME Begin \/ Commit \/ \E name \in Names : Savepoint(name) PROVE phase' = "up"
  BY <1>12 DEF Begin, Commit, Savepoint, Ready, workVars
<1>13. ASSUME RollbackEnd \/ RollbackToEnd \/ Shutdown \/ RecoverEnd PROVE phase' = "up"
  BY <1>13 DEF RollbackEnd, RollbackToEnd, Shutdown, Reopened, RecoverEnd
<1> QED
  BY <1>0, <1>1, <1>2, <1>3, <1>4, <1>5, <1>6, <1>7, <1>8, <1>9, <1>10, <1>11, <1>12, <1>13, NoUpdate DEF Next

-----------------------------------------------------------------------------
(* Recovery                                                                *)

(* Repeating a record of the log brings the file no further from the pages *)
(* that the log says all about; undoing an insertion takes the row away    *)
(* from both.                                                              *)
LEMMA BehindRedone ==
  ASSUME NEW l, NEW e \in Record, NEW p, NEW d \in Page, NEW x \in Page,
         e.type \in {"INSERT", "DELETE"}, Shows(e, x, NoOp), Behind(l, d, x, NoOp, p)
  PROVE  Behind(l, Redo(d, e), x, NoOp, p)
<1> DEFINE g == Redo(d, e)
<1>1. /\ DOMAIN d = 1 .. Len(d) /\ DOMAIN x = 1 .. Len(x) /\ Len(d) \in Nat /\ Len(x) \in Nat
      /\ Len(d) <= Len(x) /\ Len(x) <= Slots
      /\ \A s \in DOMAIN d : x[s] \in {d[s], Deleted}
  BY PageIndexes DEF Behind, Page
<1>2. /\ e.type = "INSERT" => e.slot \in DOMAIN x /\ x[e.slot] \in {e.new, Deleted} /\ e.new \in Slot /\ e.new # Deleted
      /\ e.type = "DELETE" => e.slot \in DOMAIN x /\ x[e.slot] = Deleted
  BY ConstantTypes DEF Shows, Unapplied, Record, Slot, NoRow, Deleted
<1>3. CASE g = d
  BY <1>3
<1>4. CASE e.type = "DELETE"
  <2>1. g = PageDelete(d, e.slot)
    BY <1>4 DEF Redo
  <2>2. /\ DOMAIN g = DOMAIN d /\ Len(g) = Len(d)
        /\ e.slot \in DOMAIN d => g[e.slot] = Deleted
        /\ \A k \in DOMAIN d : k # e.slot => g[k] = d[k]
    BY <2>1, DeleteGrows
  <2>3. /\ \A s \in DOMAIN d : x[s] \in {g[s], Deleted}
        /\ \A s \in DOMAIN d : d[s] = Deleted => g[s] = Deleted
    BY <1>1, <1>2, <1>4, <2>2
  <2> HIDE DEF g
  <2>4. \A s \in DOMAIN x : s > Len(g) => Unlogged(NoOp, p, s) \/ Logged(l, "INSERT", p, s)
    BY <2>2 DEF Behind
  <2>5. \A s \in DOMAIN x : x[s] = Deleted => (s \in DOMAIN g /\ g[s] = Deleted) \/ Logged(l, "DELETE", p, s)
    BY <2>2, <2>3 DEF Behind
  <2>6. \A i \in DOMAIN l, s \in DOMAIN x :
          /\ At(l, "INSERT", i, p, s) /\ s > Len(g) + 1 => Earlier(l, i, p, s - 1)
          /\ At(l, "DELETE", i, p, s) /\ s > Len(g) => Earlier(l, i, p, s)
    BY <2>2 DEF Behind
  <2>7. Len(g) <= Len(x) /\ \A s \in DOMAIN g : x[s] \in {g[s], Deleted}
    BY <1>1, <2>2, <2>3
  <2>8. Behind(l, g, x, NoOp, p)
    BY <2>4, <2>5, <2>6, <2>7 DEF Behind
  <2> QED
    BY <2>8 DEF g
<1>5. CASE e.type = "INSERT" /\ e.slot = Len(d) + 1
  <2>1. g = PageInsert(d, e.new)
    BY <1>5 DEF Redo, RedoMissing
  <2>2. Len(d) + 1 <= Len(x) /\ HasRoom(d)
    BY <1>1, <1>2, <1>5, ConstantTypes DEF HasRoom
  <2>3. /\ Len(g) = Len(d) + 1 /\ DOMAIN g = 1 .. Len(d) + 1 /\ g[Len(d) + 1] = e.new
        /\ \A s \in DOMAIN d : g[s] = d[s]
    BY <1>2, <1>5, <2>1, <2>2, InsertGrows
  <2> HIDE DEF g
  <2>4. \A s \in DOMAIN g : s \in DOMAIN d \/ s = e.slot
    BY <1>1, <1>5, <2>3
  <2>5. \A s \in DOMAIN g : x[s] \in {g[s], Deleted}
    BY <1>1, <1>2, <1>5, <2>3, <2>4
  <2>6. Len(g) <= Len(x) /\ DOMAIN d \subseteq DOMAIN g
    BY <1>1, <2>2, <2>3
  <2>7. \A s \in DOMAIN x : (s > Len(g) => s > Len(d)) /\ (s > Len(g) + 1 => s > Len(d) + 1)
    BY <1>1, <2>3
  <2>8. \A s \in DOMAIN x : s > Len(g) => Unlogged(NoOp, p, s) \/ Logged(l, "INSERT", p, s)
    BY <2>7 DEF Behind
  <2>9. \A s \in DOMAIN x : x[s] = Deleted => (s \in DOMAIN g /\ g[s] = Deleted) \/ Logged(l, "DELETE", p, s)
    BY <2>3, <2>6 DEF Behind
  <2>10. \A i \in DOMAIN l, s \in DOMAIN x :
          /\ At(l, "INSERT", i, p, s) /\ s > Len(g) + 1 => Earlier(l, i, p, s - 1)
          /\ At(l, "DELETE", i, p, s) /\ s > Len(g) => Earlier(l, i, p, s)
    BY <2>7 DEF Behind
  <2>11. Behind(l, g, x, NoOp, p)
    BY <2>5, <2>6, <2>8, <2>9, <2>10 DEF Behind
  <2> QED
    BY <2>11 DEF g
<1>6. g = d \/ e.type = "DELETE" \/ (e.type = "INSERT" /\ e.slot = Len(d) + 1)
  BY DEF Redo, RedoMissing
<1> QED
  BY <1>3, <1>4, <1>5, <1>6

LEMMA BehindUndone ==
  ASSUME NEW l, NEW p, NEW d \in Page, NEW x \in Page, NEW s \in DOMAIN d, Behind(l, d, x, NoOp, p)
  PROVE  Behind(l, PageDelete(d, s), PageDelete(x, s), NoOp, p)
<1> DEFINE g == PageDelete(d, s)
           y == PageDelete(x, s)
<1>1. Len(d) <= Len(x)
  BY DEF Behind
<1>2. DOMAIN d \subseteq DOMAIN x
  BY <1>1, ShorterPage
<1>3. /\ DOMAIN g = DOMAIN d /\ Len(g) = Len(d) /\ g[s] = Deleted
      /\ \A k \in DOMAIN d : k # s => g[k] = d[k]
  BY DeleteGrows
<1>4. /\ DOMAIN y = DOMAIN x /\ Len(y) = Len(x) /\ y[s] = Deleted
      /\ \A k \in DOMAIN x : k # s => y[k] = x[k]
  BY <1>2, DeleteGrows
<1> HIDE DEF g, y
<1>5. /\ \A k \in DOMAIN g : y[k] \in {g[k], Deleted}
      /\ \A k \in DOMAIN y : y[k] = Deleted => (k \in DOMAIN g /\ g[k] = Deleted) \/ Logged(l, "DELETE", p, k)
  BY <1>2, <1>3, <1>4 DEF Behind
<1>6. Behind(l, g, y, NoOp, p)
  BY <1>3, <1>4, <1>5 DEF Behind
<1> QED
  BY <1>6 DEF g, y

(* The pages that recovery rebuilds, and their rows                        *)
LEMMA RecoverPages ==
  ASSUME AllInv, Inserting, ApplyStep, phase = "recover"
  PROVE  \E y \in Contents : Replayable(log, disk', y) /\ RowsOf(ApplyAll[<<disk', RecoveryWork(log)>>]) = Durable
<1>1. /\ BaseInv /\ HeapInv /\ LogInv /\ Located /\ WorkInv /\ disk \in Contents /\ disk' = Apply(disk, Head(work))
      /\ MaxLog <= MaxEntries
  BY DataPages DEF AllInv, StoreInv, ApplyStep, Inserting
<1>2. PICK x \in Contents : Replayable(log, disk, x)
  BY DEF AllInv, StoreInv, RecoverInv
<1>3. Agrees(log, x, NoOp) /\ \A p \in PageIds : Behind(log, disk[p], x[p], NoOp, p)
  BY <1>2 DEF Replayable
<1>4. \A p \in PageIds : \A s \in DOMAIN x[p] : x[p][s] # Deleted => Held(mem, disk, log, x[p][s], p, s)
  BY <1>1, <1>2, ReplayableHeld
<1>5. Durable = RowsOf(x) \ Pending(log)
  <2>1. RowsOf(ApplyAll[<<disk, RecoveryWork(log)>>]) = RowsOf(x) \ Pending(log)
    BY <1>1, <1>2, <1>4, CrashLeaves
  <2> QED
    BY <2>1 DEF Durable
<1>6. PICK i \in DataIn(log) :
           /\ log[i] \in Record /\ log[i].page \in PageIds /\ log[i].type \in {"INSERT", "DELETE"}
           /\ \/ Head(work) = Step("redo", log[i])
              \/ i \in OpenInserts(log) /\ Head(work) = Step("undo", log[i])
  BY <1>1, AppliedStep DEF Undoings
<1> DEFINE e == log[i]
           b == e.page
           d == disk[b]
           m == x[b]
<1>7. d \in Page /\ m \in Page /\ Shows(e, m, NoOp) /\ Behind(log, d, m, NoOp, b) /\ disk' \in Contents
      /\ \A q \in PageIds : q # b => disk'[q] = disk[q]
  <2>1. disk' \in Contents /\ \A q \in PageIds : q # b => disk'[q] = disk[q]
    <3>1. \E does \in {"redo", "undo"} : disk' = Apply(disk, Step(does, e))
      BY <1>1, <1>6
    <3>2. e \in Record /\ b \in PageIds /\ e.type \in {"INSERT", "DELETE"}
      BY <1>6
    <3> HIDE DEF e
    <3>3. PICK does \in {"redo", "undo"} : disk' = Apply(disk, Step(does, e))
      BY <3>1
    <3>4. Applied(does, disk, disk', e)
      BY <1>1, <3>2, <3>3, AppliedPage
    <3> QED
      BY <3>4 DEF Applied
  <2> QED
    BY <1>1, <1>2, <1>3, <1>6, <2>1, PageShape DEF Agrees, DataIn
<1>8. ASSUME NEW y \in Contents, Replayable(log, disk', y), RowsOf(y) \ Pending(log) = RowsOf(x) \ Pending(log),
             \A p \in PageIds : \A s \in DOMAIN y[p] : y[p][s] # Deleted => s \in DOMAIN x[p] /\ x[p][s] = y[p][s]
      PROVE  RowsOf(ApplyAll[<<disk', RecoveryWork(log)>>]) = Durable
  <2>1. \A p \in PageIds : \A s \in DOMAIN y[p] : y[p][s] # Deleted => Held(mem, disk, log, y[p][s], p, s)
    BY <1>4, <1>8
  <2> DEFINE z == disk'
  <2>2. z \in Contents /\ Replayable(log, z, y)
    BY <1>7, <1>8
  <2> HIDE DEF z
  <2>3. RowsOf(ApplyAll[<<z, RecoveryWork(log)>>]) = RowsOf(y) \ Pending(log)
    BY <1>1, <1>8, <2>1, <2>2, CrashLeaves
  <2> QED
    BY <1>5, <1>8, <2>3 DEF z
<1>9. ASSUME Behind(log, disk'[b], m, NoOp, b)
      PROVE  Replayable(log, disk', x)
  <2>1. ASSUME NEW p \in PageIds PROVE Behind(log, disk'[p], x[p], NoOp, p)
    BY <1>3, <1>7, <1>9
  <2> QED
    BY <1>3, <2>1 DEF Replayable
<1>10. CASE Head(work) = Step("redo", e)
  <2>1. disk'[b] = Redo(d, e)
    <3>1. disk' = Apply(disk, Step("redo", e))
      BY <1>1, <1>10
    <3>2. e \in Record /\ b \in PageIds /\ e.type \in {"INSERT", "DELETE"}
      BY <1>6
    <3> HIDE DEF e
    <3>3. Applied("redo", disk, disk', e)
      BY <1>1, <3>1, <3>2, AppliedPage
    <3> QED
      BY <3>3 DEF Applied
  <2>2. Behind(log, disk'[b], m, NoOp, b)
    <3> HIDE DEF d, m, b
    <3> QED
      BY <1>6, <1>7, <2>1, BehindRedone
  <2> QED
    BY <1>2, <1>8, <1>9, <2>2
<1>11. CASE i \in OpenInserts(log) /\ Head(work) = Step("undo", e)
  <2>1. e.type = "INSERT" /\ e.new \in Pending(log) /\ i \in DOMAIN log
    BY <1>11 DEF OpenInserts, Pending
  <2>2. disk'[b] = PageDelete(d, e.slot)
    <3>1. disk' = Apply(disk, Step("undo", e))
      BY <1>1, <1>11
    <3>2. e \in Record /\ b \in PageIds /\ e.type \in {"INSERT", "DELETE"}
      BY <1>6
    <3> HIDE DEF e
    <3>3. Applied("undo", disk, disk', e)
      BY <1>1, <3>1, <3>2, AppliedPage
    <3> QED
      BY <2>1, <3>3 DEF Applied
  <2>3. CASE e.slot \notin DOMAIN d
    <3>1. disk'[b] = d
      BY <2>2, <2>3 DEF PageDelete
    <3> QED
      BY <1>2, <1>7, <1>8, <1>9, <3>1
  <2>4. CASE e.slot \in DOMAIN d
    <3> DEFINE f == PageDelete(m, e.slot)
               y == [x EXCEPT ![b] = f]
    <3>1. f \in Page
      BY <1>7, PageDeleteType
    <3>2. y \in Contents /\ y[b] = f /\ \A q \in PageIds : q # b => y[q] = x[q]
      BY <1>2, <1>6, <3>1 DEF Contents
    <3>3. /\ DOMAIN f = DOMAIN m /\ (e.slot \in DOMAIN m => f[e.slot] = Deleted)
          /\ \A k \in DOMAIN m : k # e.slot => f[k] = m[k]
      BY <1>7, DeleteGrows
    <3>4. Behind(log, disk'[b], f, NoOp, b)
      <4> HIDE DEF d, m, b, e
      <4> QED
        BY <1>7, <2>2, <2>4, BehindUndone
    <3> HIDE DEF y, f
    <3>5. ASSUME NEW p \in PageIds PROVE Behind(log, disk'[p], y[p], NoOp, p)
      BY <1>3, <1>7, <3>2, <3>4
    <3>6. \A p \in PageIds : /\ DOMAIN y[p] = DOMAIN x[p]
                             /\ \A s \in DOMAIN x[p] : y[p][s] = IF p = b /\ s = e.slot THEN Deleted ELSE x[p][s]
      BY <3>2, <3>3
    <3>7. Agrees(log, y, NoOp)
      <4> SUFFICES ASSUME NEW j \in DOMAIN log, log[j].type \in {"INSERT", "DELETE"}
                   PROVE  Shows(log[j], y[log[j].page], NoOp)
        BY DEF Agrees, Shows
      <4>1. Shows(log[j], x[log[j].page], NoOp) /\ log[j].page \in PageIds
        BY <1>1, <1>3, DataPages DEF Agrees
      <4>2. \A p, s : ~Unapplied(NoOp, p, s)
        BY ConstantTypes DEF Unapplied
      <4> QED
        BY <3>6, <4>1, <4>2 DEF Shows
    <3>8. \A p \in PageIds : \A s \in DOMAIN y[p] : y[p][s] # Deleted => s \in DOMAIN x[p] /\ x[p][s] = y[p][s]
      BY <3>6
    <3>9. RowsOf(y) \ Pending(log) = RowsOf(x) \ Pending(log)
      <4>1. TypeInv
        BY <1>1 DEF BaseInv
      <4>2. /\ ChainPages \in SUBSET PageIds
            /\ \A r : r \in RowsOf(x) <=>
                 r # Deleted /\ \E p \in ChainPages : \E s \in DOMAIN x[p] : x[p][s] = r
            /\ \A r : r \in RowsOf(y) <=>
                 r # Deleted /\ \E p \in ChainPages : \E s \in DOMAIN y[p] : y[p][s] = r
        BY <4>1, TablePages
      <4>3. ASSUME NEW r \in RowsOf(y) PROVE r \in RowsOf(x)
        BY <3>8, <4>2
      <4>4. ASSUME NEW r \in RowsOf(x), r \notin Pending(log) PROVE r \in RowsOf(y)
        <5>5. PICK p \in ChainPages : \E s \in DOMAIN x[p] : x[p][s] = r
          BY <4>2
        <5>1. PICK s \in DOMAIN x[p] : x[p][s] = r
          BY <5>5
        <5>2. p \in PageIds /\ r # Deleted
          BY <4>2
        <5>3. ~(p = b /\ s = e.slot)
          <6> SUFFICES ASSUME p = b, s = e.slot PROVE FALSE
            OBVIOUS
          <6>1. m[e.slot] \in {e.new, Deleted} /\ m[e.slot] = r
            BY <1>7, <2>1, <5>1 DEF Shows
          <6> QED
            BY <2>1, <4>4, <5>2, <6>1
        <5>4. s \in DOMAIN y[p] /\ y[p][s] = r
          BY <3>6, <5>1, <5>2, <5>3
        <5> QED
          BY <4>2, <5>2, <5>4
      <4> QED
        BY <4>3, <4>4
    <3> QED
      BY <1>8, <3>2, <3>5, <3>7, <3>8, <3>9 DEF Replayable
  <2> QED
    BY <2>3, <2>4
<1> QED
  BY <1>6, <1>10, <1>11

LEMMA RecoverStep ==
  ASSUME AllInv, Inserting, CrashPhases \subseteq {"up", "recover", "rollback_to"}, [Next]_vars
  PROVE  RecoverInv'
<1>0. BaseInv /\ HeapInv /\ MaxLog <= MaxEntries
  BY DEF AllInv, Inserting
<1>1. ASSUME phase' # "recover" PROVE RecoverInv'
  BY <1>1 DEF RecoverInv
<1>2. CASE UNCHANGED vars
  <2>1. RecoverInv
    BY DEF AllInv, StoreInv
  <2> QED
    BY <1>2, <2>1 DEF vars, RecoverInv, Working, Durable, Replayed, RowsOf
<1>3. ASSUME Crash PROVE RecoverInv'
  <2>1. /\ phase' = "recover" /\ work' = RecoveryWork(log) /\ disk' = disk /\ log' = log
        /\ phase \in {"up", "recover", "rollback_to"}
    BY <1>3 DEF Crash
  <2>2. Working' = Durable'
    BY <2>1 DEF Working, Durable, Replayed, RowsOf
  <2>3. \E x \in Contents : Replayable(log, disk, x)
    <3>1. CASE phase = "up"
      BY <1>0, <3>1, RowsUp DEF Settled
    <3>2. CASE phase = "recover"
      BY <3>2 DEF AllInv, StoreInv, RecoverInv
    <3>3. CASE phase = "rollback_to"
      <4>1. Agrees(log, disk, NoOp) /\ disk \in Contents
        BY <1>0, <3>3, DataPages DEF HeapInv, Undoings, BaseInv, StageInv
      <4> QED
        BY <4>1, AlreadyReplayed
    <3> QED
      BY <2>1, <3>1, <3>2, <3>3
  <2> QED
    BY <2>1, <2>2, <2>3 DEF RecoverInv
<1>4. ASSUME ApplyStep PROVE RecoverInv'
  <2>1. /\ UNCHANGED <<log, chain, phase>> /\ work # <<>> /\ disk' = Apply(disk, Head(work)) /\ work' = Tail(work)
    BY <1>4 DEF ApplyStep
  <2>2. CASE phase # "recover"
    BY <1>1, <2>1, <2>2
  <2>3. CASE phase = "recover"
    <3>1. PICK y \in Contents : Replayable(log, disk', y) /\ RowsOf(ApplyAll[<<disk', RecoveryWork(log)>>]) = Durable
      BY <1>4, <2>3, RecoverPages
    <3>2. Durable' = Durable
      BY <2>1, <2>3, <3>1 DEF Durable, RowsOf
    <3>3. Working' = Working
      <4>1. work \in Seq(Steps) /\ disk \in Contents
        BY <1>0 DEF BaseInv, TypeInv
      <4>2. ApplyAll[<<disk, work>>] = ApplyAll[<<disk', work'>>]
        BY <2>1, <4>1, ReplayOne
      <4> QED
        BY <2>1, <2>3, <4>2 DEF Working, Replayed, RowsOf
    <3>4. Working = Durable
      BY <2>3 DEF AllInv, StoreInv, RecoverInv
    <3> QED
      BY <2>1, <3>1, <3>2, <3>3, <3>4 DEF RecoverInv
  <2> QED
    BY <2>2, <2>3
<1>5. ASSUME NEW big \in Oversize, Insert(big) PROVE phase' # "recover"
  BY <1>5 DEF Insert, Ready, workVars
<1>6. ASSUME NEW p \in PageIds, NEW s \in 1 .. Slots, Delete(p, s) PROVE phase' # "recover"
  BY <1>6 DEF Delete, Ready, workVars
<1>7. ASSUME DeleteSlot \/ Log PROVE phase' # "recover"
  <2>1. phase' = phase /\ busy # NoOp
    BY <1>7, ConstantTypes DEF DeleteSlot, Log, workVars
  <2> QED
    BY <1>0, <2>1 DEF BaseInv, StageInv
<1>8. ASSUME Link PROVE phase' # "recover"
  BY <1>0, <1>8, LinkPlaces DEF Link, workVars
<1>9. ASSUME NEW p \in PageIds, WriteBack(p) PROVE phase' # "recover"
  BY <1>9 DEF WriteBack, workVars
<1>10. ASSUME Begin \/ Commit \/ \E name \in Names : Savepoint(name) PROVE phase' # "recover"
  BY <1>10 DEF Begin, Commit, Savepoint, Ready, workVars
<1>11. ASSUME RollbackEnd \/ RollbackToEnd \/ Shutdown \/ RecoverEnd PROVE phase' # "recover"
  BY <1>11 DEF RollbackEnd, RollbackToEnd, Shutdown, Reopened, RecoverEnd
<1>12. ASSUME \/ \E next \in {"rollback", "closing"} : RollbackBegin(next)
              \/ \E name \in Names : RollbackToBegin(name)
       PROVE  phase' # "recover"
  BY <1>12 DEF RollbackBegin, RollbackToBegin
<1> QED
  BY <1>0, <1>1, <1>2, <1>3, <1>4, <1>5, <1>6, <1>7, <1>8, <1>9, <1>10, <1>11, <1>12, NoUpdate DEF Next

(* What the refinement assumes: the process does not die while a ROLLBACK  *)
(* undoes changes, and no savepoint outlives its transaction.              *)
StoreLimits ==
  /\ "UPDATE" \notin AutoStatements /\ TxStatements \subseteq {"INSERT"}
  /\ ~StaleSavepoints
  /\ MaxLog <= MaxEntries /\ MaxLog <= MaxUndo
  /\ CrashPhases \subseteq {"up", "recover", "rollback_to"}

(* All of it is inductive.                                                 *)
LEMMA StoreStep ==
  ASSUME StoreLimits, AllInv, [Next]_vars
  PROVE  AllInv'
<1>1. BaseInv /\ LedgerInv /\ HeapInv /\ OwnInv /\ Inserting /\ "UPDATE" \notin AutoStatements \cup TxStatements
  BY DEF AllInv, StoreLimits, Inserting
<1>2. BaseInv'
  BY <1>1, BaseStep
<1>3. LedgerInv'
  BY <1>1, LedgerStep DEF StoreLimits
<1>4. HeapInv'
  BY <1>1, HeapStep
<1>5. OwnInv'
  BY <1>1, OwnStep DEF StoreLimits
<1>6. PlacesInv'
  BY <1>1, PlacesStep
<1>7. TxInv'
  BY <1>1, TxInvStep
<1>8. WorkInv' /\ PendInv'
  BY <1>1, <1>2, WorkPendStep DEF StoreLimits
<1>9. RecoverInv'
  BY <1>1, RecoverStep DEF StoreLimits
<1> QED
  BY <1>2, <1>3, <1>4, <1>5, <1>6, <1>7, <1>8, <1>9 DEF AllInv, StoreInv, PlacesInv

LEMMA InitStore == Init => AllInv
<1> SUFFICES ASSUME Init PROVE AllInv
  OBVIOUS
<1>1. BaseInv /\ HeapInv /\ OwnInv
  BY InitBase, InitHeap, InitOwn
<1>2. /\ mem = [p \in PageIds |-> <<>>] /\ disk = mem /\ log = <<>> /\ txs = <<>> /\ tx_id = 0
      /\ savepoints = <<>> /\ busy = NoOp /\ phase = "up" /\ work = <<>>
  BY DEF Init
<1>3. DOMAIN <<>> = {} /\ Len(<<>>) = 0
  OBVIOUS
<1>4. \A r, p, s : p \in PageIds => ~Held(mem, disk, log, r, p, s)
  BY <1>2, <1>3 DEF Held
<1>5. Located /\ Issued
  BY <1>4 DEF Located, Issued
<1>6. HandInv
  BY <1>2, ConstantTypes DEF HandInv, NoOp
<1>7. LogInv /\ WorkInv /\ PendInv /\ RecoverInv
  BY <1>2, <1>3 DEF LogInv, WorkInv, PendInv, RecoverInv
<1>8. TxInv
  BY <1>2, <1>3, EngineAssumption DEF TxInv
<1>9. LedgerInv
  BY <1>2, <1>3 DEF LedgerInv, Accounted, CutsNoEnd
<1> QED
  BY <1>1, <1>5, <1>6, <1>7, <1>8, <1>9 DEF AllInv, StoreInv

-----------------------------------------------------------------------------
(* What the log says of each transaction                                   *)

(* The state of TxnStore *)
Owned    == [t \in 1 .. MaxTx |-> ChangesOf(t)]
Statuses == [t \in 1 .. MaxTx |-> StatusOf(t)]
Current  == IF phase \in {"rollback", "closing"} THEN 0 ELSE tx_id

TypesOf(l, t)    == {l[i].type : i \in {j \in DOMAIN l : l[j].tx = t}}
InsertedBy(l, t) == {l[i].new : i \in Inserts(l, t)}
StatusFrom(types) ==
  CASE "COMMIT" \in types -> "committed"
    [] "ABORT" \in types -> "aborted"
    [] "BEGIN" \in types /\ types \cap {"COMMIT", "ABORT"} = {} -> "open"
    [] OTHER -> "none"
OwnOf(l, t) ==
  IF t \in Unfinished(l) THEN [ins |-> InsertedBy(l, t), del |-> {}] ELSE [ins |-> {}, del |-> {}]

(* An unfinished transaction has a BEGIN and no end.                       *)
LEMMA UnfinishedTypes ==
  ASSUME NEW l, NEW t
  PROVE  t \in Unfinished(l) <=> "BEGIN" \in TypesOf(l, t) /\ TypesOf(l, t) \cap EndsTx = {}
<1>1. t \in Unfinished(l) <=> /\ \E i \in DOMAIN l : l[i].type = "BEGIN" /\ l[i].tx = t
                              /\ ~ \E i \in DOMAIN l : l[i].type \in EndsTx /\ l[i].tx = t
  BY DEF Unfinished
<1>2. \A y : y \in TypesOf(l, t) <=> \E i \in DOMAIN l : l[i].type = y /\ l[i].tx = t
  BY DEF TypesOf
<1> QED
  BY <1>1, <1>2

(* What a record added to the log changes of that                          *)
LEMMA AppendedTypes ==
  ASSUME NEW l, NEW e, NEW k, NEW n, Extends(l, e, k, n)
  PROVE  /\ \A t : TypesOf(k, t) = IF e.tx = t THEN TypesOf(l, t) \cup {e.type} ELSE TypesOf(l, t)
         /\ \A t : InsertedBy(k, t) = IF e.type = "INSERT" /\ e.tx = t
                                      THEN InsertedBy(l, t) \cup {e.new} ELSE InsertedBy(l, t)
<1>1. /\ \A i \in DOMAIN l : i \in DOMAIN k /\ k[i] = l[i]
      /\ \A i \in DOMAIN k : i \in DOMAIN l \/ i = n
      /\ n \in DOMAIN k /\ k[n] = e
  BY DEF Extends
<1>2. ASSUME NEW t, NEW y
      PROVE  y \in TypesOf(k, t) <=> y \in TypesOf(l, t) \/ (e.tx = t /\ y = e.type)
  BY <1>1 DEF TypesOf
<1>3. ASSUME NEW t, NEW r
      PROVE  r \in InsertedBy(k, t) <=> r \in InsertedBy(l, t) \/ (e.type = "INSERT" /\ e.tx = t /\ r = e.new)
  BY <1>1 DEF InsertedBy, Inserts
<1>4. \A t : TypesOf(k, t) = IF e.tx = t THEN TypesOf(l, t) \cup {e.type} ELSE TypesOf(l, t)
  BY <1>2
<1>5. \A t : InsertedBy(k, t) = IF e.type = "INSERT" /\ e.tx = t
                                THEN InsertedBy(l, t) \cup {e.new} ELSE InsertedBy(l, t)
  BY <1>3
<1> QED
  BY <1>4, <1>5

LEMMA PendingInserted ==
  ASSUME NEW l, NEW r
  PROVE  r \in Pending(l) <=> \E t \in Unfinished(l) : r \in InsertedBy(l, t)
BY DEF Pending, OpenInserts, InsertedBy, Inserts

(* In a transaction only insertions carry rows.                            *)
LEMMA OwnedChanges ==
  AllInv => \A t \in 1 .. MaxTx : ChangesOf(t) = OwnOf(LiveLog, t) /\ StatusOf(t) = StatusFrom(TypesOf(LiveLog, t))
<1> SUFFICES ASSUME AllInv, NEW t \in 1 .. MaxTx
             PROVE  ChangesOf(t) = OwnOf(LiveLog, t) /\ StatusOf(t) = StatusFrom(TypesOf(LiveLog, t))
  OBVIOUS
<1> DEFINE l == LiveLog
<1>1. /\ BaseInv /\ LogInv /\ Labelled
      /\ \A i \in DOMAIN log : log[i].type = "INSERT" => log[i].new # NoRow
  BY DEF AllInv, OwnInv, StoreInv, Labelled
<1>2. t # 0
  OBVIOUS
<1>3. \A i \in DOMAIN l : \E j \in DOMAIN log : l[i] = log[j]
  <2>1. CASE phase = "recover"
    BY <2>1 DEF LiveLog
  <2>2. CASE phase = "rollback_to"
    <3>1. cut \in DOMAIN savepoints /\ savepoints \in Seq(Saved) /\ log \in Seq(Record)
      BY <1>1, <2>2 DEF BaseInv, StageInv, TypeInv
    <3>2. savepoints[cut].offset \in Nat
      <4>1. savepoints[cut] \in Saved
        BY <3>1, SequenceElements
      <4> QED
        BY <4>1 DEF Saved
    <3> DEFINE k == savepoints[cut].offset
               f == First(log, k)
    <3>3. l = f
      BY <2>2 DEF LiveLog
    <3> HIDE DEF l, k, f
    <3>4. k \in Nat
      BY <3>2 DEF k
    <3>5. DOMAIN f = {i \in DOMAIN log : i <= k} /\ \A i \in DOMAIN f : f[i] = log[i]
      BY <3>1, <3>4, FirstPrefix DEF f
    <3> QED
      BY <3>3, <3>5
  <2>3. CASE phase \notin {"recover", "rollback_to"}
    BY <2>3 DEF LiveLog
  <2> QED
    BY <2>1, <2>2, <2>3
<1> HIDE DEF l
<1>4. ASSUME NEW i \in DOMAIN l, l[i].tx = t
      PROVE  /\ l[i].old = NoRow
             /\ l[i].type = "INSERT" => l[i].new # NoRow
             /\ l[i].type # "INSERT" => l[i].new = NoRow
  <2>1. PICK j \in DOMAIN log : l[i] = log[j]
    BY <1>3
  <2> QED
    BY <1>1, <1>2, <1>4, <2>1 DEF LogInv
<1> DEFINE done == {e \in ToSet(l) : e.tx = t}
<1>5. \A e : e \in done <=> \E i \in DOMAIN l : e = l[i] /\ l[i].tx = t
  BY DEF ToSet
<1> HIDE DEF done
<1>6. {e.new : e \in done} \ {NoRow} = InsertedBy(l, t)
  <2>1. ASSUME NEW r \in InsertedBy(l, t) PROVE r \in {e.new : e \in done} \ {NoRow}
    BY <1>4, <1>5 DEF InsertedBy, Inserts
  <2>2. ASSUME NEW r \in {e.new : e \in done} \ {NoRow} PROVE r \in InsertedBy(l, t)
    BY <1>4, <1>5 DEF InsertedBy, Inserts
  <2> QED
    BY <2>1, <2>2
<1>7. {e.old : e \in done} \ {NoRow} = {}
  BY <1>4, <1>5
<1>8. ChangesOf(t) = OwnOf(LiveLog, t)
  BY <1>6, <1>7 DEF ChangesOf, OwnOf, done, l
<1>9. {e.type : e \in done} = TypesOf(l, t)
  BY <1>5 DEF TypesOf
<1>10. StatusOf(t) = StatusFrom(TypesOf(LiveLog, t))
  BY <1>9 DEF StatusOf, StatusFrom, done, l
<1> QED
  BY <1>8, <1>10

(* With the same records both maps are the same.                           *)
LEMMA MapsKept ==
  ASSUME LiveLog' = LiveLog
  PROVE  Owned' = Owned /\ Statuses' = Statuses
BY DEF Owned, Statuses, ChangesOf, StatusOf, Unfinished

(* The maps at both ends of a step                                         *)
LEMMA MapsAre ==
  ASSUME AllInv, AllInv'
  PROVE  /\ Owned = [t \in 1 .. MaxTx |-> OwnOf(LiveLog, t)]
         /\ Owned' = [t \in 1 .. MaxTx |-> OwnOf(LiveLog', t)]
         /\ Statuses = [t \in 1 .. MaxTx |-> StatusFrom(TypesOf(LiveLog, t))]
         /\ Statuses' = [t \in 1 .. MaxTx |-> StatusFrom(TypesOf(LiveLog', t))]
<1>1. \A t \in 1 .. MaxTx : ChangesOf(t) = OwnOf(LiveLog, t) /\ StatusOf(t) = StatusFrom(TypesOf(LiveLog, t))
  BY OwnedChanges
<1>2. (AllInv => \A t \in 1 .. MaxTx : ChangesOf(t) = OwnOf(LiveLog, t)
                                       /\ StatusOf(t) = StatusFrom(TypesOf(LiveLog, t)))'
  BY OwnedChanges, PTL
<1>3. \A t \in 1 .. MaxTx : /\ ChangesOf(t)' = OwnOf(LiveLog', t)
                            /\ StatusOf(t)' = StatusFrom(TypesOf(LiveLog', t))
  BY <1>2 DEF OwnOf, TypesOf, StatusFrom, Unfinished, InsertedBy, Inserts
<1> QED
  BY <1>1, <1>3 DEF Owned, Statuses

-----------------------------------------------------------------------------
(* The steps of TxnStore, in terms of the engine                           *)
LEMMA IsStutter ==
  ASSUME Working' = Working, Durable' = Durable, Owned' = Owned, Statuses' = Statuses, Current' = Current
  PROVE  [Store!StoreNext]_(Store!storeVars)
BY DEF Store!storeVars, Owned, Statuses, Current

LEMMA IsBegin ==
  ASSUME NEW t \in 1 .. MaxTx, Statuses[t] = "none", Statuses' = [Statuses EXCEPT ![t] = "open"],
         Current' = t, Working' = Working, Durable' = Durable, Owned' = Owned
  PROVE  Store!StoreNext
BY DEF Store!StoreNext, Store!Begin, Owned, Statuses, Current

LEMMA IsStatement ==
  ASSUME NEW ins, NEW del, ins = Working' \ Working, del = Working \ Working',
         ins # {} \/ del # {},
         \A r, s \in ins : r = s, \A r, s \in del : r = s,
         Current = 0 => Durable' = (Durable \ del) \cup ins /\ Owned' = Owned,
         Current # 0 => /\ Durable' = Durable
                        /\ Owned' = [Owned EXCEPT ![Current] = [ins |-> @.ins \cup ins, del |-> @.del \cup del]],
         Statuses' = Statuses, Current' = Current
  PROVE  Store!StoreNext
BY DEF Store!StoreNext, Store!Statement, Owned, Statuses, Current

LEMMA IsCommit ==
  ASSUME Current # 0, Statuses' = [Statuses EXCEPT ![Current] = "committed"],
         Owned' = [Owned EXCEPT ![Current] = [ins |-> {}, del |-> {}]], Current' = 0,
         Working' = Working,
         Durable' = (Durable \cup (Owned[Current].ins \cap Working)) \ Owned[Current].del
  PROVE  Store!StoreNext
BY DEF Store!StoreNext, Store!Commit, Store!Finish, Store!Nothing, Owned, Statuses, Current

LEMMA IsRollback ==
  ASSUME Current # 0, Statuses' = [Statuses EXCEPT ![Current] = "aborted"],
         Owned' = [Owned EXCEPT ![Current] = [ins |-> {}, del |-> {}]], Current' = 0,
         Durable' = Durable, Owned[Current].del = {},
         Working' = Working \ Owned[Current].ins
  PROVE  Store!StoreNext
<1>1. Working' = Store!Without(Owned[Current], Store!Nothing)
  BY DEF Store!Without, Store!Nothing
<1> QED
  BY <1>1 DEF Store!StoreNext, Store!Rollback, Store!Finish, Store!Nothing, Owned, Statuses, Current

LEMMA IsRollbackTo ==
  ASSUME Current # 0, Current \in 1 .. MaxTx,
         NEW new, Owned' = [Owned EXCEPT ![Current] = new],
         new.ins \subseteq Owned[Current].ins, new.del = {}, Owned[Current].del = {},
         Working' = Working \ (Owned[Current].ins \ new.ins),
         Durable' = Durable, Statuses' = Statuses, Current' = Current
  PROVE  Store!StoreNext
<1>1. DOMAIN Owned = 1 .. MaxTx
  BY DEF Owned
<1>2. Owned'[Current] = new
  BY <1>1
<1>3. Working' = Store!Without(Owned[Current], Owned'[Current])
  BY <1>2 DEF Store!Without
<1>4. /\ Owned'[Current].ins \subseteq Owned[Current].ins
      /\ Owned'[Current].del \subseteq Owned[Current].del
      /\ Owned' = [Owned EXCEPT ![Current] = Owned'[Current]]
  BY <1>2
<1>5. Store!RollbackTo
  BY <1>3, <1>4 DEF Store!RollbackTo, Owned, Statuses, Current
<1> QED
  BY <1>5 DEF Store!StoreNext

LEMMA IsRestart ==
  ASSUME Owned' = [t \in 1 .. MaxTx |-> [ins |-> {}, del |-> {}]],
         Statuses' = [t \in 1 .. MaxTx |-> "none"], Current' = 0,
         \/ Working' = Durable /\ Durable' = Durable
         \/ Working' = Working /\ Durable' = Working
  PROVE  Store!StoreNext
BY DEF Store!StoreNext, Store!Crash, Store!Shutdown, Store!Restart, Store!Nothing, Owned, Statuses, Current

-----------------------------------------------------------------------------
(* The rows before and after a step between statements                     *)
Shown(r, pgs, ps) == r # Deleted /\ \E p \in ps : \E s \in DOMAIN pgs[p] : pgs[p][s] = r

LEMMA RowsShown ==
  /\ \A pgs, r : r \in RowsIn(pgs, chain) <=> Shown(r, pgs, ChainPages)
  /\ \A pgs, r : r \in RowsIn(pgs, chain') <=> Shown(r, pgs, ChainPages')
<1>1. \A pgs, r : r \in RowsIn(pgs, chain) <=> Shown(r, pgs, ChainPages)
  BY RowsInPages DEF Shown, ChainPages
<1>2. \A pgs, r : r \in RowsIn(pgs, chain') <=> Shown(r, pgs, ChainPages')
  BY RowsInPages DEF Shown, ChainPages
<1> QED
  BY <1>1, <1>2

LEMMA UpShown ==
  ASSUME AllInv, MaxLog <= MaxEntries, phase = "up"
  PROVE  /\ \A r : r \in Working <=> Shown(r, mem, ChainPages) /\ r # busy.row
         /\ Durable = Working \ Pending(log)
<1>1. Working = RowsOf(mem) \ {busy.row} /\ Durable = Working \ Pending(log)
  BY RowsUp
<1> QED
  BY <1>1, RowsShown DEF RowsOf

LEMMA UpShownNext ==
  ASSUME AllInv', MaxLog <= MaxEntries, phase' = "up"
  PROVE  /\ \A r : r \in Working' <=> Shown(r, mem', ChainPages') /\ r # busy'.row
         /\ Durable' = Working' \ Pending(log')
<1>1. (MaxLog <= MaxEntries /\ AllInv /\ phase = "up" =>
         /\ Working = RowsOf(mem) \ {busy.row}
         /\ Durable = Working \ Pending(log)
         /\ \E x : Settled(x))'
  BY RowsUp, PTL
<1>2. Working' = RowsIn(mem', chain') \ {busy'.row} /\ Durable' = Working' \ Pending(log')
  BY <1>1 DEF RowsOf, Pending, OpenInserts, Unfinished
<1> QED
  BY <1>2, RowsShown

(* The records count as long as nothing is replayed.                       *)
LEMMA UpMaps ==
  ASSUME phase = "up", phase' = "up"
  PROVE  /\ LiveLog = log /\ LiveLog' = log' /\ Current = tx_id /\ Current' = tx_id'
         /\ UNCHANGED log => Owned' = Owned /\ Statuses' = Statuses
<1>1. LiveLog = log /\ LiveLog' = log' /\ Current = tx_id /\ Current' = tx_id'
  BY DEF LiveLog, Current
<1> QED
  BY <1>1, MapsKept

(* A row that is placed shows; all others as before.                       *)
LEMMA PlacedShows ==
  ASSUME TypeInv, NEW op \in Op, op.row # NoRow, NEW p \in PageIds, Placed(op, p), HasRoom(mem[p])
  PROVE  \A q \in PageIds : \A r : r # op.row =>
           ((\E s \in DOMAIN mem'[q] : mem'[q][s] = r) <=> (\E s \in DOMAIN mem[q] : mem[q][s] = r))
<1>1. mem \in Contents /\ op.row \in Slot /\ mem[p] \in Page
  <2>1. mem \in Contents /\ op.row \in Slot
    BY DEF TypeInv, Op
  <2> QED
    BY <2>1, PageShape
<1>2. mem'[p] = PageInsert(mem[p], op.row) /\ \A q \in PageIds : q # p => mem'[q] = mem[q]
  BY <1>1 DEF Placed, Contents
<1> DEFINE m == mem[p]
           n == mem'[p]
<1>3. /\ DOMAIN n = 1 .. Len(m) + 1 /\ DOMAIN m = 1 .. Len(m) /\ Len(m) \in Nat
      /\ n[Len(m) + 1] = op.row
      /\ \A s \in DOMAIN m : n[s] = m[s]
  BY <1>1, <1>2, InsertGrows, PageIndexes
<1> HIDE DEF m, n
<1>4. \A r : r # op.row => ((\E s \in DOMAIN n : n[s] = r) <=> (\E s \in DOMAIN m : m[s] = r))
  <2>1. \A s \in DOMAIN n : s \in DOMAIN m \/ s = Len(m) + 1
    BY <1>3
  <2>2. \A s \in DOMAIN m : s \in DOMAIN n
    BY <1>3
  <2> QED
    BY <1>3, <2>1, <2>2
<1> QED
  BY <1>2, <1>4 DEF m, n

(* A row operation counts from its log record on.                          *)
LEMMA InsertStutters ==
  ASSUME AllInv, AllInv', Inserting, NEW big \in Oversize, Insert(big)
  PROVE  [Store!StoreNext]_(Store!storeVars)
<1> DEFINE op == [NoOp EXCEPT !.op = "INSERT", !.row = issued + 1, !.big = big]
<1>1. /\ BaseInv /\ Issued /\ TypeInv /\ MaxLog <= MaxEntries /\ issued \in Nat
      /\ mem \in Contents
  BY ConstantTypes, DataPages DEF AllInv, StoreInv, BaseInv, TypeInv, Inserting
<1>2. /\ phase = "up" /\ busy = NoOp /\ UNCHANGED <<log, phase, tx_id, chain>>
      /\ HeapInsert(op) /\ issued < MaxRows
  BY DEF Insert, Ready, workVars, txVars
<1>3. op \in Op /\ op.row = issued + 1 /\ op.row \in Rows /\ op.row # NoRow
  <2>1. NoOp \in Op /\ big \in BOOLEAN
    BY ConstantTypes
  <2>2. issued + 1 \in Rows
    BY <1>1, <1>2, ConstantTypes DEF Rows
  <2>3. issued + 1 # NoRow
    BY <1>1 DEF NoRow
  <2> QED
    BY <2>1, <2>2, <2>3 DEF Op, NoOp, Slot, DataOps
<1> HIDE DEF op
<1>4. \A r : ~(Shown(r, mem, ChainPages) /\ r = op.row)
  <2> SUFFICES ASSUME Shown(op.row, mem, ChainPages) PROVE FALSE
    OBVIOUS
  <2>1. PICK p \in ChainPages : \E s \in DOMAIN mem[p] : mem[p][s] = op.row
    BY DEF Shown
  <2>2. p \in PageIds
    BY <1>1, TablePages
  <2>3. PICK s \in DOMAIN mem[p] : mem[p][s] = op.row
    BY <2>1
  <2>4. Held(mem, disk, log, op.row, p, s)
    BY <2>3 DEF Held
  <2>5. op.row <= issued
    BY <1>1, <1>3, <2>2, <2>4 DEF Issued
  <2> QED
    BY <1>1, <1>3, <2>5
<1>5. \A r : r \in Working <=> Shown(r, mem, ChainPages)
  <2>1. busy.row = Deleted
    BY <1>2 DEF NoOp, NoRow, Deleted
  <2> QED
    BY <1>1, <1>2, <2>1, UpShown DEF Shown
<1>6. /\ \A r : r \in Working' <=> Shown(r, mem', ChainPages) /\ r # busy'.row
      /\ Durable' = Working' \ Pending(log) /\ Durable = Working \ Pending(log)
  BY <1>1, <1>2, UpShown, UpShownNext, SamePages
<1>7. \A r : r \in Working' <=> Shown(r, mem, ChainPages)
  <2>1. CASE Placed(op, FirstFit) /\ FirstFit \in 1 .. pages /\ HasRoom(mem[FirstFit])
    <3>1. FirstFit \in PageIds
      BY <1>1, <2>1, DataPages
    <3>2. \A q \in PageIds : \A r : r # op.row =>
           ((\E s \in DOMAIN mem'[q] : mem'[q][s] = r) <=> (\E s \in DOMAIN mem[q] : mem[q][s] = r))
      BY <1>1, <1>3, <2>1, <3>1, PlacedShows
    <3>3. ChainPages \in SUBSET PageIds
      BY <1>1, TablePages
    <3>4. busy'.row = op.row
      BY <2>1 DEF Placed
    <3>5. \A r : r # op.row => (Shown(r, mem', ChainPages) <=> Shown(r, mem, ChainPages))
      BY <3>2, <3>3 DEF Shown
    <3> QED
      BY <1>4, <1>6, <3>4, <3>5
  <2>2. CASE mem' = mem /\ busy' = [op EXCEPT !.fresh = pages + 1]
    <3>1. busy'.row = op.row
      BY <1>3, <2>2 DEF Op
    <3> QED
      BY <1>4, <1>6, <2>2, <3>1
  <2>3. CASE mem' = mem /\ busy' = NoOp
    <3>1. busy'.row = Deleted
      BY <2>3 DEF NoOp, NoRow, Deleted
    <3> QED
      BY <1>6, <2>3, <3>1 DEF Shown
  <2> QED
    BY <1>1, <1>2, <1>3, <2>1, <2>2, <2>3, HeapInsertCases
<1>8. Working' = Working
  BY <1>5, <1>7
<1> QED
  BY <1>2, <1>6, <1>8, UpMaps, IsStutter

(* A row that is not placed yet is not in the table.                       *)
LEMMA UnplacedHidden ==
  ASSUME AllInv, busy.op = "INSERT", ~busy.placed
  PROVE  ~Shown(busy.row, mem, ChainPages)
<1> SUFFICES ASSUME Shown(busy.row, mem, ChainPages) PROVE FALSE
  OBVIOUS
<1>1. BaseInv /\ TypeInv /\ Issued
  BY DEF AllInv, StoreInv, BaseInv
<1>2. PICK p \in ChainPages : \E s \in DOMAIN mem[p] : mem[p][s] = busy.row
  BY DEF Shown
<1>3. p \in PageIds
  BY <1>1, TablePages
<1>4. PICK s \in DOMAIN mem[p] : mem[p][s] = busy.row
  BY <1>2
<1>5. Held(mem, disk, log, busy.row, p, s)
  BY <1>4 DEF Held
<1>6. busy.row \in Rows
  BY <1>1 DEF BaseInv, StageInv, TypeInv, Op, Slot, NoRow, Deleted
<1> QED
  BY <1>1, <1>3, <1>5, <1>6 DEF Issued, InHand, Unlogged

LEMMA LinkStutters ==
  ASSUME AllInv, AllInv', Inserting, Link
  PROVE  [Store!StoreNext]_(Store!storeVars)
<1>1. BaseInv /\ TypeInv /\ HeapInv /\ MaxLog <= MaxEntries
  BY DEF AllInv, BaseInv, Inserting
<1>2. /\ ChainPages' = ChainPages \cup {pages}
      /\ pages \in PageIds /\ mem[pages] = <<>> /\ phase = "up" /\ ~busy.placed /\ busy.op = "INSERT"
      /\ busy.big => busy' = NoOp /\ UNCHANGED mem
      /\ ~busy.big => Placed(busy, pages) /\ HasRoom(mem[pages])
  BY <1>1, LinkPlaces DEF HeapInv
<1>3. UNCHANGED <<log, phase, tx_id>>
  BY DEF Link, workVars, txVars
<1>4. ~Shown(busy.row, mem, ChainPages)
  BY <1>2, UnplacedHidden
<1>5. \A r : Shown(r, mem, ChainPages') <=> Shown(r, mem, ChainPages)
  <2>1. DOMAIN mem[pages] = {}
    BY <1>2
  <2> QED
    BY <1>2, <2>1 DEF Shown
<1>6. /\ \A r : r \in Working <=> Shown(r, mem, ChainPages)
      /\ \A r : r \in Working' <=> Shown(r, mem', ChainPages') /\ r # busy'.row
      /\ Durable' = Working' \ Pending(log) /\ Durable = Working \ Pending(log)
  BY <1>1, <1>2, <1>3, <1>4, UpShown, UpShownNext
<1>7. \A r : r \in Working' <=> Shown(r, mem, ChainPages)
  <2>1. CASE busy.big
    <3>1. busy'.row = Deleted
      BY <1>2, <2>1 DEF NoOp, NoRow, Deleted
    <3> QED
      BY <1>2, <1>5, <1>6, <2>1, <3>1 DEF Shown
  <2>2. CASE ~busy.big
    <3>1. busy'.row = busy.row
      BY <1>2, <2>2 DEF Placed
    <3>2. busy \in Op /\ busy.row # NoRow
      BY <1>1, <1>2 DEF TypeInv, BaseInv, StageInv
    <3>3. \A q \in PageIds : \A r : r # busy.row =>
           ((\E s \in DOMAIN mem'[q] : mem'[q][s] = r) <=> (\E s \in DOMAIN mem[q] : mem[q][s] = r))
      BY <1>1, <1>2, <2>2, <3>2, PlacedShows
    <3>4. ChainPages' \in SUBSET PageIds
      BY <1>1, <1>2, TablePages
    <3>5. \A r : r # busy.row => (Shown(r, mem', ChainPages') <=> Shown(r, mem, ChainPages'))
      BY <3>3, <3>4 DEF Shown
    <3> QED
      BY <1>4, <1>5, <1>6, <3>1, <3>5
  <2> QED
    BY <2>1, <2>2
<1>8. Working' = Working
  BY <1>6, <1>7
<1> QED
  BY <1>2, <1>3, <1>6, <1>8, UpMaps, IsStutter

LEMMA DeleteSlotStutters ==
  ASSUME AllInv, AllInv', Inserting, DeleteSlot
  PROVE  [Store!StoreNext]_(Store!storeVars)
<1>1. /\ BaseInv /\ TypeInv /\ HeapInv /\ HandInv /\ Located /\ MaxLog <= MaxEntries
      /\ mem \in Contents
  BY DataPages DEF AllInv, StoreInv, BaseInv, Inserting
<1> DEFINE b == busy.page
           c == busy.slot
           m == mem[b]
           n == mem'[b]
<1>2. /\ UNCHANGED <<log, phase, tx_id, chain>> /\ busy' = NoOp /\ busy.op = "DELETE"
      /\ mem' = [mem EXCEPT ![b] = PageDelete(@, c)]
  BY DEF DeleteSlot, workVars, txVars
<1>3. phase = "up" /\ b \in PageIds /\ busy.row \in Rows /\ m[c] = busy.row /\ c \in DOMAIN m
  <2>1. phase = "up" /\ b \in 1 .. pages /\ busy.row # NoRow
    BY <1>1, <1>2, ConstantTypes DEF BaseInv, StageInv
  <2>2. busy.row \in Slot
    BY <1>1 DEF TypeInv, Op
  <2> QED
    BY <1>1, <1>2, <2>1, <2>2, DataPages DEF Slot, NoRow, Deleted, HandInv, HeapInv
<1>4. n = PageDelete(m, c) /\ m \in Page /\ \A q \in PageIds : q # b => mem'[q] = mem[q]
  BY <1>1, <1>2, <1>3, PageShape DEF Contents
<1>5. DOMAIN n = DOMAIN m /\ n[c] = Deleted /\ \A k \in DOMAIN m : k # c => n[k] = m[k]
  BY <1>3, <1>4, DeleteGrows
<1>6. ASSUME NEW q \in PageIds, NEW s \in DOMAIN mem[q], mem[q][s] = busy.row PROVE q = b /\ s = c
  <2>1. Held(mem, disk, log, busy.row, q, s) /\ Held(mem, disk, log, busy.row, b, c)
    BY <1>3, <1>6 DEF Held
  <2> QED
    BY <1>1, <1>3, <2>1 DEF Located
<1>7. ASSUME NEW r, NEW q \in PageIds, r # Deleted
      PROVE  (\E s \in DOMAIN mem'[q] : mem'[q][s] = r)
             <=> (\E s \in DOMAIN mem[q] : mem[q][s] = r) /\ r # busy.row
  <2>1. CASE q # b
    BY <1>4, <1>6, <2>1
  <2>2. CASE q = b
    <3>1. \A s \in DOMAIN m : m[s] = busy.row => s = c
      BY <1>3, <1>6
    <3> HIDE DEF m, n, c
    <3>2. (\E s \in DOMAIN n : n[s] = r) <=> (\E s \in DOMAIN m : m[s] = r) /\ r # busy.row
      BY <1>3, <1>5, <1>7, <3>1
    <3> QED
      BY <2>2, <3>2 DEF m, n
  <2> QED
    BY <2>1, <2>2
<1>8. ChainPages' = ChainPages /\ ChainPages \in SUBSET PageIds
  BY <1>1, <1>2, SamePages, TablePages
<1>9. \A r : Shown(r, mem', ChainPages') <=> Shown(r, mem, ChainPages) /\ r # busy.row
  BY <1>7, <1>8 DEF Shown
<1>10. /\ \A r : r \in Working <=> Shown(r, mem, ChainPages) /\ r # busy.row
       /\ \A r : r \in Working' <=> Shown(r, mem', ChainPages') /\ r # busy'.row
       /\ Durable' = Working' \ Pending(log) /\ Durable = Working \ Pending(log)
  BY <1>1, <1>2, <1>3, UpShown, UpShownNext
<1>11. busy'.row = Deleted
  BY <1>2 DEF NoOp, NoRow, Deleted
<1>12. Working' = Working
  BY <1>9, <1>10, <1>11 DEF Shown
<1> QED
  BY <1>2, <1>3, <1>10, <1>12, UpMaps, IsStutter

LEMMA WriteBackStutters ==
  ASSUME AllInv, AllInv', Inserting, NEW p \in PageIds, WriteBack(p)
  PROVE  [Store!StoreNext]_(Store!storeVars)
<1>1. /\ UNCHANGED <<mem, log, phase, tx_id, chain, busy>> /\ phase = "up" /\ MaxLog <= MaxEntries
  BY DEF WriteBack, workVars, txVars, Inserting
<1>2. /\ \A r : r \in Working <=> Shown(r, mem, ChainPages) /\ r # busy.row
      /\ \A r : r \in Working' <=> Shown(r, mem, ChainPages) /\ r # busy.row
      /\ Durable' = Working' \ Pending(log) /\ Durable = Working \ Pending(log)
  BY <1>1, UpShown, UpShownNext, SamePages
<1>3. Working' = Working
  BY <1>2
<1> QED
  BY <1>1, <1>2, <1>3, UpMaps, IsStutter

(* A record that neither begins nor ends a transaction                     *)
LEMMA AppendedWithin ==
  ASSUME NEW l, NEW e, NEW k, NEW n, Extends(l, e, k, n), e.type \notin EndsTx \cup {"BEGIN"}
  PROVE  /\ Unfinished(k) = Unfinished(l)
         /\ \A t : StatusFrom(TypesOf(k, t)) = StatusFrom(TypesOf(l, t))
         /\ \A t : e.type = "INSERT" /\ e.tx = t /\ t \in Unfinished(l) =>
              OwnOf(k, t) = [ins |-> InsertedBy(l, t) \cup {e.new}, del |-> {}]
         /\ \A t : ~(e.type = "INSERT" /\ e.tx = t /\ t \in Unfinished(l)) => OwnOf(k, t) = OwnOf(l, t)
         /\ Pending(k) = IF e.type = "INSERT" /\ e.tx \in Unfinished(l)
                         THEN Pending(l) \cup {e.new} ELSE Pending(l)
<1>1. /\ \A t : TypesOf(k, t) = IF e.tx = t THEN TypesOf(l, t) \cup {e.type} ELSE TypesOf(l, t)
      /\ \A t : InsertedBy(k, t) = IF e.type = "INSERT" /\ e.tx = t
                                   THEN InsertedBy(l, t) \cup {e.new} ELSE InsertedBy(l, t)
  BY AppendedTypes
<1>2. e.type # "BEGIN" /\ e.type # "COMMIT" /\ e.type # "ABORT"
  BY DEF EndsTx
<1>3. \A t : t \in Unfinished(k) <=> t \in Unfinished(l)
  BY <1>1, <1>2, UnfinishedTypes DEF EndsTx
<1>4. Unfinished(k) = Unfinished(l)
  <2>1. Unfinished(k) \subseteq Unfinished(l) /\ Unfinished(l) \subseteq Unfinished(k)
    BY <1>3
  <2> QED
    BY <2>1
<1>5. ASSUME NEW t PROVE StatusFrom(TypesOf(k, t)) = StatusFrom(TypesOf(l, t))
  <2> DEFINE a == TypesOf(l, t)
             b == TypesOf(k, t)
  <2>1. \A y \in {"BEGIN", "COMMIT", "ABORT"} : y \in b <=> y \in a
    BY <1>1, <1>2
  <2> HIDE DEF a, b
  <2>2. b \cap {"COMMIT", "ABORT"} = {} <=> a \cap {"COMMIT", "ABORT"} = {}
    BY <2>1
  <2>3. StatusFrom(b) = StatusFrom(a)
    BY <2>1, <2>2 DEF StatusFrom
  <2> QED
    BY <2>3 DEF a, b
<1>6. /\ \A t : e.type = "INSERT" /\ e.tx = t /\ t \in Unfinished(l) =>
              OwnOf(k, t) = [ins |-> InsertedBy(l, t) \cup {e.new}, del |-> {}]
      /\ \A t : ~(e.type = "INSERT" /\ e.tx = t /\ t \in Unfinished(l)) => OwnOf(k, t) = OwnOf(l, t)
  BY <1>1, <1>4 DEF OwnOf
<1>7. ASSUME NEW r
      PROVE  r \in Pending(k) <=> r \in Pending(l) \/ (e.type = "INSERT" /\ e.tx \in Unfinished(l) /\ r = e.new)
  BY <1>1, <1>4, PendingInserted
<1>8. Pending(k) = IF e.type = "INSERT" /\ e.tx \in Unfinished(l) THEN Pending(l) \cup {e.new} ELSE Pending(l)
  BY <1>7
<1> QED
  BY <1>4, <1>5, <1>6, <1>8

(* The current transaction is open.                                        *)
LEMMA CurrentOpen ==
  ASSUME AllInv, tx_id # 0
  PROVE  /\ tx_id \in 1 .. MaxTx /\ tx_id \in Nat
         /\ phase \in {"up", "rollback_to"} => tx_id \in Unfinished(log)
<1>1. tx_id \in 0 .. Len(txs) /\ txs \in Seq(BOOLEAN) /\ Len(txs) <= MaxTx /\ TxInv
  BY DEF AllInv, BaseInv, TypeInv, StoreInv, TxInv
<1>2. Len(txs) \in Nat /\ MaxTx \in Nat
  BY <1>1, EngineAssumption
<1>3. tx_id \in 1 .. MaxTx
  BY <1>1, <1>2
<1>4. ASSUME phase \in {"up", "rollback_to"} PROVE tx_id \in Unfinished(log)
  BY <1>1, <1>4 DEF TxInv, Unfinished, Ends
<1> QED
  BY <1>3, <1>4

LEMMA NoTx == ASSUME AllInv PROVE 0 \notin Unfinished(log)
BY DEF AllInv, StoreInv, LogInv, Unfinished

(* Between statements, a step that leaves the pages alone                  *)
LEMMA QuietRows ==
  ASSUME AllInv, AllInv', Inserting, phase = "up", phase' = "up", UNCHANGED <<mem, chain, busy>>
  PROVE  /\ Working' = Working
         /\ Durable = Working \ Pending(log) /\ Durable' = Working \ Pending(log')
<1>1. MaxLog <= MaxEntries
  BY DEF Inserting
<1>2. /\ \A r : r \in Working <=> Shown(r, mem, ChainPages) /\ r # busy.row
      /\ \A r : r \in Working' <=> Shown(r, mem, ChainPages) /\ r # busy.row
      /\ Durable' = Working' \ Pending(log') /\ Durable = Working \ Pending(log)
  BY <1>1, UpShown, UpShownNext, SamePages
<1>3. Working' = Working
  BY <1>2
<1> QED
  BY <1>2, <1>3

LEMMA SavepointStutters ==
  ASSUME AllInv, AllInv', Inserting, NEW name \in Names, Savepoint(name)
  PROVE  [Store!StoreNext]_(Store!storeVars)
<1>1. /\ UNCHANGED <<mem, chain, busy, phase, tx_id>> /\ phase = "up" /\ BaseInv
      /\ wal_write(Control("SAVEPOINT", tx_id))
  BY DEF Savepoint, Ready, pageVars, workVars, AllInv
<1>2. PICK e \in Record : e.type = "SAVEPOINT" /\ wal_write(e)
  BY <1>1, EndRecord
<1>3. PICK n : Extends(log, e, log', n)
  BY <1>1, <1>2, AppendExtends DEF BaseInv
<1>4. e.type \notin EndsTx \cup {"BEGIN"} /\ e.type # "INSERT"
  BY <1>2 DEF EndsTx
<1>5. /\ \A t : StatusFrom(TypesOf(log', t)) = StatusFrom(TypesOf(log, t))
      /\ \A t : OwnOf(log', t) = OwnOf(log, t)
      /\ Pending(log') = Pending(log)
  BY <1>3, <1>4, AppendedWithin
<1>6. LiveLog = log /\ LiveLog' = log' /\ Current' = Current
  BY <1>1, UpMaps
<1>7. Owned' = Owned /\ Statuses' = Statuses
  BY <1>5, <1>6, MapsAre
<1>8. Working' = Working /\ Durable' = Durable
  BY <1>1, <1>5, QuietRows
<1> QED
  BY <1>6, <1>7, <1>8, IsStutter

(* INSERT: the row is in the table from its record on, and durable at once *)
(* outside a transaction.                                                  *)
LEMMA LogStates ==
  ASSUME AllInv, AllInv', Inserting, Log
  PROVE  [Store!StoreNext]_(Store!storeVars)
<1>1. /\ BaseInv /\ TypeInv /\ HeapInv /\ HandInv /\ MaxLog <= MaxEntries
      /\ mem \in Contents
  BY DataPages DEF AllInv, StoreInv, BaseInv, Inserting
<1>2. /\ UNCHANGED <<mem, chain, phase, tx_id>> /\ busy' = NoOp /\ busy.placed
  BY DEF Log, pageVars, workVars, txVars
<1>3. phase = "up" /\ busy.op = "INSERT"
  BY <1>1, <1>2, ConstantTypes DEF BaseInv, StageInv, HeapInv
<1> DEFINE r == busy.row
<1>4. r # NoRow /\ \A i \in DOMAIN log : log[i].type = "INSERT" => log[i].new # r
  BY <1>1, <1>3 DEF BaseInv, StageInv, HandInv
<1>5. Shown(r, mem, ChainPages)
  <2>1. busy.page \in ChainPages /\ busy.slot \in DOMAIN mem[busy.page] /\ mem[busy.page][busy.slot] = r
    BY <1>1, <1>2, <1>3 DEF HeapInv, HandInv
  <2> QED
    BY <1>4, <2>1 DEF Shown, NoRow, Deleted
<1>6. PICK e \in Record : wal_write(e) /\ e.type = "INSERT" /\ e.tx = tx_id /\ e.new = r
  <2>1. PICK e \in Record :
           /\ e = [type |-> busy.op, tx |-> tx_id, page |-> busy.page,
                   slot |-> busy.slot, new |-> busy.row, old |-> busy.old]
           /\ wal_write(e)
    BY <1>1, LogRecord
  <2>2. e.type = busy.op /\ e.tx = tx_id /\ e.new = busy.row
    BY <2>1
  <2> QED
    BY <1>3, <2>1, <2>2
<1>7. PICK n : Extends(log, e, log', n)
  BY <1>1, <1>6, AppendExtends
<1> HIDE DEF r
<1>8. e.type \notin EndsTx \cup {"BEGIN"}
  BY <1>6 DEF EndsTx
<1>9. /\ \A t : StatusFrom(TypesOf(log', t)) = StatusFrom(TypesOf(log, t))
      /\ \A t : t = tx_id /\ t \in Unfinished(log) =>
              OwnOf(log', t) = [ins |-> InsertedBy(log, t) \cup {r}, del |-> {}]
      /\ \A t : ~(t = tx_id /\ t \in Unfinished(log)) => OwnOf(log', t) = OwnOf(log, t)
      /\ Pending(log') = IF tx_id \in Unfinished(log) THEN Pending(log) \cup {r} ELSE Pending(log)
  BY <1>6, <1>7, <1>8, AppendedWithin
<1>10. /\ \A x : x \in Working <=> Shown(x, mem, ChainPages) /\ x # r
       /\ \A x : x \in Working' <=> Shown(x, mem, ChainPages) /\ x # busy'.row
       /\ Durable' = Working' \ Pending(log') /\ Durable = Working \ Pending(log)
  BY <1>1, <1>2, <1>3, UpShown, UpShownNext, SamePages DEF r
<1>11. \A x : x \in Working' <=> Shown(x, mem, ChainPages)
  <2>1. busy'.row = Deleted
    BY <1>2 DEF NoOp, NoRow, Deleted
  <2> QED
    BY <1>10, <2>1 DEF Shown
<1>12. Working' \ Working = {r} /\ Working \ Working' = {} /\ Working' = Working \cup {r} /\ r \notin Working
  BY <1>5, <1>10, <1>11
<1>13. LiveLog = log /\ LiveLog' = log' /\ Current = tx_id /\ Current' = tx_id
  BY <1>2, <1>3, UpMaps
<1>14. Statuses' = Statuses
  BY <1>9, <1>13, MapsAre
<1>15. ASSUME tx_id = 0 PROVE Durable' = (Durable \ {}) \cup {r} /\ Owned' = Owned
  <2>1. tx_id \notin Unfinished(log)
    BY <1>15, NoTx
  <2>2. Owned' = Owned
    BY <1>9, <1>13, <2>1, MapsAre
  <2>3. r \notin Pending(log)
    BY <1>4 DEF Pending, OpenInserts
  <2> QED
    BY <1>9, <1>10, <1>12, <2>1, <2>2, <2>3
<1>16. ASSUME tx_id # 0
       PROVE  /\ Durable' = Durable
              /\ Owned' = [Owned EXCEPT ![tx_id] = [ins |-> @.ins \cup {r}, del |-> @.del \cup {}]]
  <2>1. tx_id \in Unfinished(log) /\ tx_id \in 1 .. MaxTx
    BY <1>3, <1>16, CurrentOpen
  <2>2. Durable' = Durable
    BY <1>9, <1>10, <1>12, <2>1
  <2>3. OwnOf(log, tx_id) = [ins |-> InsertedBy(log, tx_id), del |-> {}]
    BY <2>1 DEF OwnOf
  <2>4. OwnOf(log', tx_id) = [ins |-> OwnOf(log, tx_id).ins \cup {r}, del |-> OwnOf(log, tx_id).del \cup {}]
    BY <1>9, <2>1, <2>3
  <2>5. \A t : t # tx_id => OwnOf(log', t) = OwnOf(log, t)
    BY <1>9
  <2>6. /\ Owned = [t \in 1 .. MaxTx |-> OwnOf(log, t)]
        /\ Owned' = [t \in 1 .. MaxTx |-> OwnOf(log', t)]
    BY <1>13, MapsAre
  <2> QED
    BY <2>1, <2>2, <2>4, <2>5, <2>6
<1> DEFINE ins == {r}
           del == {}
<1>17. /\ ins = Working' \ Working /\ del = Working \ Working' /\ ins # {}
       /\ \A x, y \in ins : x = y
       /\ \A x, y \in del : x = y
  BY <1>12
<1>18. /\ Current = 0 => Durable' = (Durable \ del) \cup ins /\ Owned' = Owned
       /\ Current # 0 => /\ Durable' = Durable
                         /\ Owned' = [Owned EXCEPT ![Current] = [ins |-> @.ins \cup ins, del |-> @.del \cup del]]
  BY <1>13, <1>15, <1>16
<1> HIDE DEF ins, del
<1> QED
  BY <1>13, <1>14, <1>17, <1>18, IsStatement

(* DELETE, outside a transaction: the row is gone from its record on.      *)
LEMMA DeleteStates ==
  ASSUME AllInv, AllInv', Inserting, NEW p \in PageIds, NEW s \in 1 .. Slots, Delete(p, s)
  PROVE  [Store!StoreNext]_(Store!storeVars)
<1>1. /\ BaseInv /\ TypeInv /\ MaxLog <= MaxEntries
  BY DEF AllInv, BaseInv, Inserting
<1> DEFINE r == mem[p][s]
<1>2. /\ UNCHANGED <<mem, chain, phase, tx_id>> /\ busy = NoOp /\ phase = "up" /\ tx_id = 0
      /\ p \in ToSet(chain) /\ busy'.row = r /\ s \in DOMAIN mem[p] /\ r # Deleted
  BY DEF Delete, Ready, pageVars, workVars, txVars, Uses, Inserting, NoOp
<1>3. Shown(r, mem, ChainPages)
  <2>1. p \in ChainPages
    BY <1>2 DEF ToSet, ChainPages
  <2> QED
    BY <1>2, <2>1 DEF Shown
<1>4. PICK e \in Record : wal_write(e) /\ e.type = "DELETE" /\ e.tx = 0
  <2>1. PICK e \in Record :
           /\ e = [type |-> "DELETE", tx |-> tx_id, page |-> p, slot |-> s, new |-> NoRow, old |-> mem[p][s]]
           /\ wal_write(e)
    BY <1>1, DeleteRecord
  <2>2. e.type = "DELETE" /\ e.tx = tx_id
    BY <2>1
  <2> QED
    BY <1>2, <2>1, <2>2
<1>5. PICK n : Extends(log, e, log', n)
  BY <1>1, <1>4, AppendExtends
<1> HIDE DEF r
<1>6. e.type \notin EndsTx \cup {"BEGIN"} /\ e.type # "INSERT"
  BY <1>4 DEF EndsTx
<1>7. /\ \A t : StatusFrom(TypesOf(log', t)) = StatusFrom(TypesOf(log, t))
      /\ \A t : OwnOf(log', t) = OwnOf(log, t)
      /\ Pending(log') = Pending(log)
  BY <1>5, <1>6, AppendedWithin
<1>8. /\ \A x : x \in Working <=> Shown(x, mem, ChainPages) /\ x # busy.row
      /\ \A x : x \in Working' <=> Shown(x, mem, ChainPages) /\ x # r
      /\ Durable' = Working' \ Pending(log') /\ Durable = Working \ Pending(log)
  BY <1>1, <1>2, UpShown, UpShownNext, SamePages
<1>9. \A x : x \in Working <=> Shown(x, mem, ChainPages)
  <2>1. busy.row = Deleted
    BY <1>2 DEF NoOp, NoRow, Deleted
  <2> QED
    BY <1>8, <2>1 DEF Shown
<1>10. Working' \ Working = {} /\ Working \ Working' = {r} /\ Working' = Working \ {r}
  BY <1>3, <1>8, <1>9
<1>11. LiveLog = log /\ LiveLog' = log' /\ Current = 0 /\ Current' = 0
  BY <1>2, UpMaps
<1>12. Statuses' = Statuses /\ Owned' = Owned
  BY <1>7, <1>11, MapsAre
<1>13. Durable' = (Durable \ {r}) \cup {}
  BY <1>7, <1>8, <1>10
<1> DEFINE ins == {}
           del == {r}
<1>14. /\ ins = Working' \ Working /\ del = Working \ Working' /\ del # {}
       /\ \A x, y \in ins : x = y
       /\ \A x, y \in del : x = y
       /\ Durable' = (Durable \ del) \cup ins
  BY <1>10, <1>13
<1> HIDE DEF ins, del
<1> QED
  BY <1>11, <1>12, <1>14, IsStatement

(* BEGIN: the transaction has no record before.                            *)
LEMMA BeginStates ==
  ASSUME AllInv, AllInv', Inserting, Begin
  PROVE  [Store!StoreNext]_(Store!storeVars)
<1>1. BaseInv /\ TypeInv /\ Labelled
  BY DEF AllInv, BaseInv, OwnInv
<1>2. UNCHANGED <<mem, chain, phase, busy>> /\ phase = "up" /\ Len(txs) < MaxTx
  BY DEF Begin, Ready, pageVars, workVars, HasFreeTx
<1> DEFINE t == Len(txs) + 1
<1>3. PICK e \in Record : /\ wal_write(e) /\ e.type = "BEGIN" /\ e.tx = t
                          /\ Len(txs) \in Nat /\ tx_id' = t
  BY <1>1, BeginRecord
<1>4. PICK n : Extends(log, e, log', n)
  BY <1>1, <1>3, AppendExtends
<1>5. t \in 1 .. MaxTx /\ \A i \in DOMAIN log : log[i].tx # t
  <2>1. \A i \in DOMAIN log : log[i].tx <= Len(txs)
    BY <1>1, <1>2 DEF Labelled
  <2>2. \A x : x <= Len(txs) => x # t
    BY <1>3
  <2>3. t \in 1 .. MaxTx
    BY <1>2, <1>3, EngineAssumption
  <2> QED
    BY <2>1, <2>2, <2>3
<1> HIDE DEF t
<1>6. TypesOf(log, t) = {} /\ InsertedBy(log, t) = {}
  BY <1>5 DEF TypesOf, InsertedBy, Inserts
<1>7. /\ \A u : TypesOf(log', u) = IF t = u THEN TypesOf(log, u) \cup {"BEGIN"} ELSE TypesOf(log, u)
      /\ \A u : InsertedBy(log', u) = InsertedBy(log, u)
  BY <1>3, <1>4, AppendedTypes
<1>8. TypesOf(log', t) = {"BEGIN"}
  BY <1>6, <1>7
<1>9. StatusFrom(TypesOf(log, t)) = "none" /\ StatusFrom(TypesOf(log', t)) = "open"
  BY <1>6, <1>8 DEF StatusFrom
<1>10. \A u : u # t => TypesOf(log', u) = TypesOf(log, u) /\ (u \in Unfinished(log') <=> u \in Unfinished(log))
  BY <1>7, UnfinishedTypes
<1>11. \A u : OwnOf(log', u) = OwnOf(log, u)
  BY <1>6, <1>7, <1>10 DEF OwnOf
<1>12. Pending(log') = Pending(log)
  <2>1. ASSUME NEW r PROVE r \in Pending(log') <=> r \in Pending(log)
    BY <1>6, <1>7, <1>10, PendingInserted
  <2> QED
    BY <2>1
<1>13. LiveLog = log /\ LiveLog' = log' /\ Current' = t
  BY <1>2, <1>3, UpMaps
<1>14. Owned' = Owned
  BY <1>11, <1>13, MapsAre
<1>15. Statuses[t] = "none" /\ Statuses' = [Statuses EXCEPT ![t] = "open"]
  <2>1. /\ Statuses = [u \in 1 .. MaxTx |-> StatusFrom(TypesOf(log, u))]
        /\ Statuses' = [u \in 1 .. MaxTx |-> StatusFrom(TypesOf(log', u))]
    BY <1>13, MapsAre
  <2>2. \A u : u # t => StatusFrom(TypesOf(log', u)) = StatusFrom(TypesOf(log, u))
    BY <1>10
  <2> QED
    BY <1>5, <1>9, <2>1, <2>2
<1> QED
  BY <1>2, <1>5, <1>12, <1>13, <1>14, <1>15, QuietRows, IsBegin

(* The record that ends an open transaction                                *)
LEMMA AppendedEnd ==
  ASSUME NEW l, NEW e, NEW k, NEW n, Extends(l, e, k, n), e.type \in EndsTx, e.tx \in Unfinished(l)
  PROVE  /\ \A t : t # e.tx => StatusFrom(TypesOf(k, t)) = StatusFrom(TypesOf(l, t)) /\ OwnOf(k, t) = OwnOf(l, t)
         /\ StatusFrom(TypesOf(k, e.tx)) = IF e.type = "COMMIT" THEN "committed" ELSE "aborted"
         /\ OwnOf(k, e.tx) = [ins |-> {}, del |-> {}]
         /\ OwnOf(l, e.tx) = [ins |-> InsertedBy(l, e.tx), del |-> {}]
         /\ Pending(l) = Pending(k) \cup InsertedBy(l, e.tx)
         /\ \A r \in Pending(k) : \E t : t # e.tx /\ r \in InsertedBy(l, t)
<1>1. /\ \A t : TypesOf(k, t) = IF e.tx = t THEN TypesOf(l, t) \cup {e.type} ELSE TypesOf(l, t)
      /\ \A t : InsertedBy(k, t) = InsertedBy(l, t)
  <2>1. e.type # "INSERT"
    BY DEF EndsTx
  <2> QED
    BY <2>1, AppendedTypes
<1>2. e.tx \notin Unfinished(k) /\ \A t : t # e.tx => (t \in Unfinished(k) <=> t \in Unfinished(l))
  BY <1>1, UnfinishedTypes
<1>3. \A t : t # e.tx => StatusFrom(TypesOf(k, t)) = StatusFrom(TypesOf(l, t)) /\ OwnOf(k, t) = OwnOf(l, t)
  BY <1>1, <1>2 DEF OwnOf
<1>4. TypesOf(l, e.tx) \cap {"COMMIT", "ABORT"} = {} /\ e.type \in {"COMMIT", "ABORT"}
  BY UnfinishedTypes DEF EndsTx
<1>5. StatusFrom(TypesOf(k, e.tx)) = IF e.type = "COMMIT" THEN "committed" ELSE "aborted"
  BY <1>1, <1>4 DEF StatusFrom
<1>6. OwnOf(k, e.tx) = [ins |-> {}, del |-> {}] /\ OwnOf(l, e.tx) = [ins |-> InsertedBy(l, e.tx), del |-> {}]
  BY <1>2 DEF OwnOf
<1>7. ASSUME NEW r PROVE r \in Pending(l) <=> r \in Pending(k) \cup InsertedBy(l, e.tx)
  BY <1>1, <1>2, PendingInserted
<1>8. \A r \in Pending(k) : \E t : t # e.tx /\ r \in InsertedBy(l, t)
  BY <1>1, <1>2, PendingInserted
<1>9. Pending(l) = Pending(k) \cup InsertedBy(l, e.tx)
  BY <1>7
<1> QED
  BY <1>3, <1>5, <1>6, <1>8, <1>9

(* A row is inserted by one transaction.                                   *)
LEMMA InsertedOnce ==
  ASSUME LogInv, NEW t, NEW u, NEW r \in InsertedBy(log, t), r \in InsertedBy(log, u)
  PROVE  t = u
BY DEF LogInv, InsertedBy, Inserts

(* COMMIT makes the rows of the transaction durable.                       *)
LEMMA CommitStates ==
  ASSUME AllInv, AllInv', Inserting, Commit
  PROVE  [Store!StoreNext]_(Store!storeVars)
<1>1. BaseInv /\ TypeInv /\ LogInv
  BY DEF AllInv, BaseInv, StoreInv
<1>2. /\ UNCHANGED <<mem, chain, phase, busy>> /\ phase = "up" /\ tx_id # 0 /\ tx_id' = 0
      /\ wal_write(Control("COMMIT", tx_id))
  BY DEF Commit, Ready, pageVars, workVars
<1>3. PICK e \in Record : wal_write(e) /\ e.type = "COMMIT" /\ e.tx = tx_id
  BY <1>1, <1>2, EndRecord
<1>4. PICK n : Extends(log, e, log', n)
  BY <1>1, <1>3, AppendExtends
<1>5. tx_id \in Unfinished(log) /\ tx_id \in 1 .. MaxTx
  BY <1>2, CurrentOpen
<1>6. /\ \A t : t # tx_id => StatusFrom(TypesOf(log', t)) = StatusFrom(TypesOf(log, t))
                              /\ OwnOf(log', t) = OwnOf(log, t)
      /\ StatusFrom(TypesOf(log', tx_id)) = "committed"
      /\ OwnOf(log', tx_id) = [ins |-> {}, del |-> {}]
      /\ OwnOf(log, tx_id) = [ins |-> InsertedBy(log, tx_id), del |-> {}]
      /\ Pending(log) = Pending(log') \cup InsertedBy(log, tx_id)
      /\ \A r \in Pending(log') : \E t : t # tx_id /\ r \in InsertedBy(log, t)
  <2> DEFINE u == e.tx
  <2>1. u = tx_id /\ u \in Unfinished(log) /\ e.type = "COMMIT" /\ e.type \in EndsTx
    BY <1>3, <1>5 DEF EndsTx
  <2>2. /\ \A t : t # u => StatusFrom(TypesOf(log', t)) = StatusFrom(TypesOf(log, t))
                        /\ OwnOf(log', t) = OwnOf(log, t)
        /\ StatusFrom(TypesOf(log', u)) = IF e.type = "COMMIT" THEN "committed" ELSE "aborted"
        /\ OwnOf(log', u) = [ins |-> {}, del |-> {}]
        /\ OwnOf(log, u) = [ins |-> InsertedBy(log, u), del |-> {}]
        /\ Pending(log) = Pending(log') \cup InsertedBy(log, u)
        /\ \A r \in Pending(log') : \E t : t # u /\ r \in InsertedBy(log, t)
    BY <1>4, <2>1, AppendedEnd
  <2> HIDE DEF u
  <2> QED
    BY <2>1, <2>2
<1>7. Pending(log') \cap InsertedBy(log, tx_id) = {}
  BY <1>1, <1>6, InsertedOnce
<1>8. LiveLog = log /\ LiveLog' = log' /\ Current = tx_id /\ Current' = 0
  BY <1>2, UpMaps
<1>9. /\ Owned = [u \in 1 .. MaxTx |-> OwnOf(log, u)]
      /\ Owned' = [u \in 1 .. MaxTx |-> OwnOf(log', u)]
      /\ Statuses = [u \in 1 .. MaxTx |-> StatusFrom(TypesOf(log, u))]
      /\ Statuses' = [u \in 1 .. MaxTx |-> StatusFrom(TypesOf(log', u))]
  BY <1>8, MapsAre
<1>10. /\ Owned' = [Owned EXCEPT ![tx_id] = [ins |-> {}, del |-> {}]]
       /\ Owned[tx_id].ins = InsertedBy(log, tx_id) /\ Owned[tx_id].del = {}
  <2>1. Owned[tx_id] = OwnOf(log, tx_id)
    BY <1>5, <1>9
  <2>2. Owned' = [Owned EXCEPT ![tx_id] = [ins |-> {}, del |-> {}]]
    BY <1>5, <1>6, <1>9
  <2> QED
    BY <1>6, <2>1, <2>2
<1>11. Statuses' = [Statuses EXCEPT ![tx_id] = "committed"]
  BY <1>5, <1>6, <1>9
<1>12. Working' = Working /\ Durable = Working \ Pending(log) /\ Durable' = Working \ Pending(log')
  BY <1>2, QuietRows
<1>13. Durable' = (Durable \cup (Owned[tx_id].ins \cap Working)) \ Owned[tx_id].del
  BY <1>6, <1>7, <1>10, <1>12
<1> QED
  BY <1>2, <1>8, <1>10, <1>11, <1>12, <1>13, IsCommit

-----------------------------------------------------------------------------
(* The steps of a rollback                                                 *)
LEMMA UndoingNext ==
  ASSUME AllInv', MaxLog <= MaxEntries, phase' \in Undoings
  PROVE  /\ Working' = RowsIn(ApplyAll[<<disk', work'>>], chain')
         /\ phase' \in {"rollback", "closing"} => Durable' = Working' \ Pending(log')
         /\ phase' = "rollback_to" => Durable' = RowsIn(disk', chain') \ Pending(log')
<1>1. (MaxLog <= MaxEntries /\ AllInv /\ phase \in Undoings =>
        /\ Working = RowsOf(ApplyAll[<<disk, work>>])
        /\ phase \in {"rollback", "closing"} => Durable = Working \ Pending(log)
        /\ phase = "rollback_to" => Durable = RowsOf(disk) \ Pending(log))'
  BY RowsUndoing, PTL
<1> QED
  BY <1>1 DEF RowsOf, Pending, OpenInserts, Unfinished, Undoings

LEMMA UndoneTable ==
  ASSUME BaseInv, Located, HeapInv, NEW d \in Contents, Agrees(log, d, NoOp), d \in {mem, disk},
         NEW w, NEW J, ExactUndo(w, J)
  PROVE  RowsOf(ApplyAll[<<d, w>>]) = RowsOf(d) \ NewRows(log, J)
<1>1. \A p \in PageIds : \A s \in DOMAIN d[p] :
        d[p][s] # Deleted => Held(mem, disk, log, d[p][s], p, s)
  BY DEF Held
<1> QED
  BY <1>1, UndoneRows

(* Without a row operation the working rows are those of the pages.        *)
LEMMA ReadyRows ==
  ASSUME AllInv, MaxLog <= MaxEntries, phase = "up", busy = NoOp
  PROVE  Working = RowsOf(mem) /\ Durable = RowsOf(mem) \ Pending(log)
<1>1. Working = RowsOf(mem) \ {busy.row} /\ Durable = Working \ Pending(log)
  BY RowsUp
<1>2. busy.row \notin RowsOf(mem)
  BY DEF NoOp, NoRow, Deleted, RowsOf, RowsIn
<1> QED
  BY <1>1, <1>2

(* ROLLBACK, from its ABORT record on                                      *)
LEMMA RollbackStates ==
  ASSUME AllInv, AllInv', Inserting, NEW next \in {"rollback", "closing"}, RollbackBegin(next)
  PROVE  [Store!StoreNext]_(Store!storeVars)
<1>1. BaseInv /\ TypeInv /\ LogInv /\ HeapInv /\ Located /\ MaxLog <= MaxEntries /\ mem \in Contents
  BY DataPages DEF AllInv, BaseInv, StoreInv, Inserting
<1>2. /\ UNCHANGED <<mem, chain>> /\ phase = "up" /\ phase' = next /\ tx_id # 0 /\ busy = NoOp
      /\ disk' = mem /\ work' = RollbackWork(log, tx_id)
      /\ wal_write(Control("ABORT", tx_id))
  BY DEF RollbackBegin, Ready
<1>3. PICK e \in Record : wal_write(e) /\ e.type = "ABORT" /\ e.tx = tx_id
  BY <1>1, <1>2, EndRecord
<1>4. PICK n : Extends(log, e, log', n)
  BY <1>1, <1>3, AppendExtends
<1>5. tx_id \in Unfinished(log) /\ tx_id \in 1 .. MaxTx
  BY <1>2, CurrentOpen
<1>6. /\ \A t : t # tx_id => StatusFrom(TypesOf(log', t)) = StatusFrom(TypesOf(log, t))
                              /\ OwnOf(log', t) = OwnOf(log, t)
      /\ StatusFrom(TypesOf(log', tx_id)) = "aborted"
      /\ OwnOf(log', tx_id) = [ins |-> {}, del |-> {}]
      /\ OwnOf(log, tx_id) = [ins |-> InsertedBy(log, tx_id), del |-> {}]
      /\ Pending(log) = Pending(log') \cup InsertedBy(log, tx_id)
  <2> DEFINE u == e.tx
  <2>1. u = tx_id /\ u \in Unfinished(log) /\ e.type = "ABORT" /\ e.type \in EndsTx
    BY <1>3, <1>5 DEF EndsTx
  <2>2. /\ \A t : t # u => StatusFrom(TypesOf(log', t)) = StatusFrom(TypesOf(log, t))
                        /\ OwnOf(log', t) = OwnOf(log, t)
        /\ StatusFrom(TypesOf(log', u)) = IF e.type = "COMMIT" THEN "committed" ELSE "aborted"
        /\ OwnOf(log', u) = [ins |-> {}, del |-> {}]
        /\ OwnOf(log, u) = [ins |-> InsertedBy(log, u), del |-> {}]
        /\ Pending(log) = Pending(log') \cup InsertedBy(log, u)
        /\ \A r \in Pending(log') : \E t : t # u /\ r \in InsertedBy(log, t)
    BY <1>4, <2>1, AppendedEnd
  <2> HIDE DEF u
  <2> QED
    BY <2>1, <2>2
<1>7. LiveLog = log /\ LiveLog' = log' /\ Current = tx_id /\ Current' = 0
  BY <1>2 DEF LiveLog, Current
<1>8. /\ Owned = [u \in 1 .. MaxTx |-> OwnOf(log, u)]
      /\ Owned' = [u \in 1 .. MaxTx |-> OwnOf(log', u)]
      /\ Statuses = [u \in 1 .. MaxTx |-> StatusFrom(TypesOf(log, u))]
      /\ Statuses' = [u \in 1 .. MaxTx |-> StatusFrom(TypesOf(log', u))]
  BY <1>7, MapsAre
<1>9. /\ Owned' = [Owned EXCEPT ![tx_id] = [ins |-> {}, del |-> {}]]
      /\ Owned[tx_id].ins = InsertedBy(log, tx_id) /\ Owned[tx_id].del = {}
  <2>1. Owned[tx_id] = OwnOf(log, tx_id)
    BY <1>5, <1>8
  <2>2. Owned' = [Owned EXCEPT ![tx_id] = [ins |-> {}, del |-> {}]]
    BY <1>5, <1>6, <1>8
  <2> QED
    BY <1>6, <2>1, <2>2
<1>10. Statuses' = [Statuses EXCEPT ![tx_id] = "aborted"]
  BY <1>5, <1>6, <1>8
<1>11. Working = RowsOf(mem) /\ Durable = RowsOf(mem) \ Pending(log)
  BY <1>1, <1>2, ReadyRows
<1> DEFINE w == RollbackWork(log, tx_id)
           J == Inserts(log, tx_id)
<1>12. /\ w \in Seq(Steps)
       /\ \A k \in DOMAIN w : \E i \in J : w[k] = Step("undo", log[i])
       /\ \A i \in J : \E k \in DOMAIN w : w[k] = Step("undo", log[i])
  BY <1>2, RollbackSteps
<1>13. \A i \in J : i \in DOMAIN log /\ log[i].type = "INSERT"
  BY DEF Inserts
<1>14. Agrees(log, mem, NoOp)
  BY <1>1, <1>2 DEF HeapInv
<1>15. ExactUndo(w, J)
  BY <1>12, <1>13 DEF ExactUndo
<1> HIDE DEF w, J
<1>16. RowsOf(ApplyAll[<<mem, w>>]) = RowsOf(mem) \ NewRows(log, J)
  BY <1>1, <1>14, <1>15, UndoneTable
<1>17. /\ Working' = RowsIn(ApplyAll[<<disk', work'>>], chain')
       /\ Durable' = Working' \ Pending(log')
  BY <1>1, <1>2, UndoingNext DEF Undoings
<1>18. Working' = Working \ InsertedBy(log, tx_id)
  BY <1>2, <1>11, <1>16, <1>17 DEF w, J, RowsOf, InsertedBy, NewRows
<1>19. Durable' = Durable
  BY <1>6, <1>11, <1>17, <1>18
<1> QED
  BY <1>2, <1>7, <1>9, <1>10, <1>18, <1>19, IsRollback

(* A step of the undo or of the recovery: what is left to do counts as     *)
(* done.                                                                   *)
LEMMA ApplyStepStutters ==
  ASSUME AllInv, AllInv', Inserting, ApplyStep
  PROVE  [Store!StoreNext]_(Store!storeVars)
<1>1. /\ BaseInv /\ HeapInv /\ WorkInv /\ Located /\ MaxLog <= MaxEntries
      /\ disk \in Contents /\ work \in Seq(Steps)
  BY DEF AllInv, StoreInv, Inserting, BaseInv, TypeInv
<1>2. /\ UNCHANGED <<mem, chain, log, phase, tx_id, cut, savepoints>>
      /\ work # <<>> /\ disk' = Apply(disk, Head(work)) /\ work' = Tail(work)
  BY DEF ApplyStep, txVars
<1>3. ApplyAll[<<disk', work'>>] = ApplyAll[<<disk, work>>]
  BY <1>1, <1>2, ReplayOne
<1>4. Owned' = Owned /\ Statuses' = Statuses /\ Current' = Current
  BY <1>2, MapsKept DEF LiveLog, Current
<1>5. CASE phase \in {"rollback", "closing"}
  <2>1. Working = RowsOf(ApplyAll[<<disk, work>>]) /\ Durable = Working \ Pending(log)
    BY <1>1, <1>5, RowsUndoing DEF Undoings
  <2>2. Working' = RowsIn(ApplyAll[<<disk', work'>>], chain) /\ Durable' = Working' \ Pending(log)
    BY <1>1, <1>2, <1>5, UndoingNext DEF Undoings
  <2>3. Working' = Working /\ Durable' = Durable
    BY <1>3, <2>1, <2>2 DEF RowsOf
  <2> QED
    BY <1>4, <2>3, IsStutter
<1>6. CASE phase = "rollback_to"
  <2>1. Working = RowsOf(ApplyAll[<<disk, work>>]) /\ Durable = RowsOf(disk) \ Pending(log)
    BY <1>1, <1>6, RowsUndoing DEF Undoings
  <2>2. /\ Working' = RowsIn(ApplyAll[<<disk', work'>>], chain)
        /\ Durable' = RowsIn(disk', chain) \ Pending(log)
    BY <1>1, <1>2, <1>6, UndoingNext DEF Undoings
  <2>3. PICK i \in DataIn(log) : log[i].type = "INSERT" /\ log[i].tx = tx_id /\ Head(work) = Step("undo", log[i])
    BY <1>1, <1>6, AppliedStep
  <2>4. tx_id # 0
    BY <1>1, <1>6 DEF BaseInv, StageInv, Undoings
  <2>5. tx_id \in Unfinished(log)
    BY <1>6, <2>4, CurrentOpen
  <2>6. log[i].new \in Pending(log)
    BY <2>3, <2>5 DEF Pending, OpenInserts, DataIn
  <2> DEFINE w == <<Head(work)>>
             J == {i}
  <2>7. w \in Seq(Steps) /\ w # <<>> /\ Head(w) = Head(work) /\ Tail(w) = <<>> /\ DOMAIN w = {1} /\ w[1] = Head(work)
    <3>1. Head(work) \in Steps
      BY <1>1, <1>2, TailElements
    <3> QED
      BY <3>1
  <2>8. disk' \in Contents
    <3>1. BaseInv'
      BY DEF AllInv
    <3> QED
      BY <3>1 DEF BaseInv, TypeInv
  <2> HIDE DEF w
  <2>9. ApplyAll[<<disk, w>>] = disk'
    <3>1. ApplyAll[<<disk, w>>] = ApplyAll[<<Apply(disk, Head(w)), Tail(w)>>]
      BY <1>1, <2>7, ReplayOne
    <3>2. ApplyAll[<<disk, w>>] = ApplyAll[<<disk', <<>>>>]
      BY <1>2, <2>7, <3>1
    <3> QED
      BY <2>8, <3>2, ReplayNothing
  <2>10. Agrees(log, disk, NoOp)
    BY <1>1, <1>6 DEF HeapInv, BaseInv, StageInv, Undoings
  <2>11. \A j \in J : j \in DOMAIN log /\ log[j].type = "INSERT"
    BY <2>3 DEF DataIn
  <2>12. ExactUndo(w, J)
    BY <2>3, <2>7, <2>11 DEF ExactUndo
  <2>13. NewRows(log, J) \subseteq Pending(log)
    BY <2>6 DEF NewRows
  <2> HIDE DEF J
  <2>14. RowsOf(ApplyAll[<<disk, w>>]) = RowsOf(disk) \ NewRows(log, J)
    BY <1>1, <2>10, <2>12, UndoneTable
  <2>15. Durable' = Durable
    BY <2>1, <2>2, <2>9, <2>13, <2>14 DEF RowsOf
  <2>16. Working' = Working
    BY <1>3, <2>1, <2>2 DEF RowsOf
  <2> QED
    BY <1>4, <2>15, <2>16, IsStutter
<1>7. CASE phase = "recover"
  <2>1. RowsOf(ApplyAll[<<disk', RecoveryWork(log)>>]) = Durable
    BY <1>7, RecoverPages
  <2>2. Durable' = Durable
    BY <1>2, <1>7, <2>1 DEF Durable, RowsOf
  <2>3. Working' = Working
    BY <1>2, <1>3, <1>7 DEF Working, Replayed, RowsOf
  <2> QED
    BY <1>4, <2>2, <2>3, IsStutter
<1>8. phase \in {"rollback", "closing", "rollback_to", "recover"}
  BY <1>1, <1>2 DEF BaseInv, StageInv, TypeInv, Undoings
<1> QED
  BY <1>5, <1>6, <1>7, <1>8

LEMMA RollbackEndStutters ==
  ASSUME AllInv, AllInv', Inserting, RollbackEnd
  PROVE  [Store!StoreNext]_(Store!storeVars)
<1>1. BaseInv /\ MaxLog <= MaxEntries /\ disk \in Contents
  BY DataPages DEF AllInv, Inserting
<1>2. /\ UNCHANGED <<chain, log, busy>> /\ phase = "rollback" /\ work = <<>> /\ mem' = disk
      /\ tx_id' = 0 /\ phase' = "up" /\ busy = NoOp
  BY <1>1 DEF RollbackEnd, Reread, BaseInv, StageInv
<1>3. Working = RowsOf(disk) /\ Durable = RowsOf(disk) \ Pending(log)
  <2>1. Working = RowsOf(ApplyAll[<<disk, work>>]) /\ Durable = Working \ Pending(log)
    BY <1>1, <1>2, RowsUndoing DEF Undoings
  <2>2. ApplyAll[<<disk, work>>] = disk
    BY <1>1, <1>2, ReplayNothing
  <2> QED
    BY <2>1, <2>2
<1>4. /\ \A r : r \in Working' <=> Shown(r, disk, ChainPages') /\ r # busy'.row
      /\ Durable' = Working' \ Pending(log)
  BY <1>1, <1>2, UpShownNext
<1>5. busy'.row = Deleted
  BY <1>2 DEF NoOp, NoRow, Deleted
<1>6. \A r : r \in Working' <=> r \in RowsOf(disk)
  BY <1>2, <1>4, <1>5, RowsShown DEF Shown, RowsOf
<1>7. Working' = Working /\ Durable' = Durable
  BY <1>3, <1>4, <1>6
<1>8. LiveLog' = LiveLog /\ Current' = Current
  BY <1>2 DEF LiveLog, Current
<1> QED
  BY <1>7, <1>8, MapsKept, IsStutter

(* What ROLLBACK TO keeps: all of the other transactions, and of the       *)
(* current one what is before the savepoint.                               *)
KeepsRecords(l, k) ==
  /\ DOMAIN l = {i \in DOMAIN log : i <= k} /\ \A i \in DOMAIN l : l[i] = log[i]
  /\ \A i \in DOMAIN log : i \in DOMAIN l \/ i > k
  /\ Unfinished(l) = Unfinished(log)
  /\ \A t : t # tx_id => OwnOf(l, t) = OwnOf(log, t)
  /\ \A t : StatusFrom(TypesOf(l, t)) = StatusFrom(TypesOf(log, t))
  /\ OwnOf(l, tx_id) = [ins |-> InsertedBy(l, tx_id), del |-> {}]
  /\ OwnOf(log, tx_id) = [ins |-> InsertedBy(log, tx_id), del |-> {}]
  /\ InsertedBy(l, tx_id) \subseteq InsertedBy(log, tx_id)
  /\ InsertedBy(log, tx_id) \ InsertedBy(l, tx_id) = NewRows(log, Cutting(log, k))

LEMMA KeptRecords ==
  ASSUME AllInv, tx_id # 0, phase \in {"up", "rollback_to"},
         NEW c \in DOMAIN savepoints, savepoints[c].tx = tx_id
  PROVE  KeepsRecords(First(log, savepoints[c].offset), savepoints[c].offset)
<1> DEFINE k == savepoints[c].offset
           l == First(log, k)
<1>0. k \in Nat
  <2>1. savepoints \in Seq(Saved)
    BY DEF AllInv, BaseInv, TypeInv
  <2>2. savepoints[c] \in Saved
    BY <2>1, SequenceElements
  <2> QED
    BY <2>2 DEF Saved
<1>1. log \in Seq(Record) /\ TxInv /\ LogInv
  BY DEF AllInv, BaseInv, TypeInv, StoreInv
<1> HIDE DEF k, l
<1>2. DOMAIN l = {i \in DOMAIN log : i <= k} /\ \A i \in DOMAIN l : l[i] = log[i]
  BY <1>0, <1>1, FirstPrefix DEF l
<1>3. \A i \in DOMAIN log : i \in DOMAIN l \/ i > k
  <2>1. \A i \in DOMAIN log : i \in Nat
    BY <1>1
  <2> QED
    BY <1>0, <1>2, <2>1
<1>4. \A i \in DOMAIN log : i > k => log[i].tx = tx_id /\ i \notin DOMAIN l
  <2>1. \A i \in DOMAIN log : i > k => log[i].tx = tx_id
    BY <1>1 DEF TxInv, k
  <2>2. \A i \in DOMAIN log : i \in Nat
    BY <1>1
  <2> QED
    BY <1>0, <1>2, <2>1, <2>2
<1>5. tx_id \in Unfinished(log)
  BY CurrentOpen
<1>6. tx_id \in Unfinished(l)
  <2>1. PICK i \in DOMAIN log : log[i].type = "BEGIN" /\ log[i].tx = tx_id
    BY <1>1 DEF TxInv
  <2>2. i <= k
    BY <1>1, <2>1 DEF TxInv, k
  <2>3. i \in DOMAIN l /\ l[i] = log[i]
    BY <1>2, <2>2
  <2>4. \A j \in DOMAIN l : ~(l[j].type \in EndsTx /\ l[j].tx = tx_id)
    BY <1>1, <1>2 DEF TxInv, Ends
  <2> QED
    BY <2>1, <2>3, <2>4 DEF Unfinished
<1>7. \A t : t # tx_id => TypesOf(l, t) = TypesOf(log, t) /\ InsertedBy(l, t) = InsertedBy(log, t)
  <2> SUFFICES ASSUME NEW t, t # tx_id
               PROVE  TypesOf(l, t) = TypesOf(log, t) /\ InsertedBy(l, t) = InsertedBy(log, t)
    OBVIOUS
  <2>1. \A i : i \in DOMAIN l /\ l[i].tx = t <=> i \in DOMAIN log /\ log[i].tx = t
    BY <1>2, <1>3, <1>4
  <2>2. ASSUME NEW y PROVE y \in TypesOf(l, t) <=> y \in TypesOf(log, t)
    BY <1>2, <2>1 DEF TypesOf
  <2>3. ASSUME NEW r PROVE r \in InsertedBy(l, t) <=> r \in InsertedBy(log, t)
    BY <1>2, <2>1 DEF InsertedBy, Inserts
  <2>4. TypesOf(l, t) = TypesOf(log, t)
    BY <2>2
  <2>5. InsertedBy(l, t) = InsertedBy(log, t)
    BY <2>3
  <2> QED
    BY <2>4, <2>5
<1>8. Unfinished(l) = Unfinished(log)
  <2>1. \A t : t \in Unfinished(l) <=> t \in Unfinished(log)
    BY <1>5, <1>6, <1>7, UnfinishedTypes
  <2>2. Unfinished(l) \subseteq Unfinished(log) /\ Unfinished(log) \subseteq Unfinished(l)
    BY <2>1
  <2> QED
    BY <2>2
<1>9. \A t : t # tx_id => OwnOf(l, t) = OwnOf(log, t)
  BY <1>7, <1>8 DEF OwnOf
<1>10. \A t : t \in Unfinished(l) => StatusFrom(TypesOf(l, t)) = "open"
  BY UnfinishedTypes DEF StatusFrom, EndsTx
<1>11. \A t : t \in Unfinished(log) => StatusFrom(TypesOf(log, t)) = "open"
  BY UnfinishedTypes DEF StatusFrom, EndsTx
<1>12. \A t : StatusFrom(TypesOf(l, t)) = StatusFrom(TypesOf(log, t))
  BY <1>5, <1>6, <1>7, <1>10, <1>11
<1>13. /\ OwnOf(l, tx_id) = [ins |-> InsertedBy(l, tx_id), del |-> {}]
       /\ OwnOf(log, tx_id) = [ins |-> InsertedBy(log, tx_id), del |-> {}]
  BY <1>5, <1>6 DEF OwnOf
<1>14. InsertedBy(l, tx_id) \subseteq InsertedBy(log, tx_id)
  BY <1>2 DEF InsertedBy, Inserts
<1>15. ASSUME NEW r \in InsertedBy(log, tx_id) \ InsertedBy(l, tx_id)
       PROVE  r \in {log[i].new : i \in Cutting(log, k)}
  <2>1. PICK i \in DOMAIN log : log[i].type = "INSERT" /\ log[i].tx = tx_id /\ log[i].new = r
    BY DEF InsertedBy, Inserts
  <2>2. i \notin DOMAIN l
    BY <1>2, <1>15, <2>1 DEF InsertedBy, Inserts
  <2>3. i \in Cutting(log, k)
    BY <1>3, <2>1, <2>2 DEF Cutting, DataOps
  <2> QED
    BY <2>1, <2>3
<1>16. ASSUME NEW i \in Cutting(log, k) PROVE log[i].new \in InsertedBy(log, tx_id) \ InsertedBy(l, tx_id)
  <2>1. i \in DOMAIN log /\ i > k /\ log[i].type \in DataOps
    BY DEF Cutting
  <2>2. log[i].tx = tx_id /\ i \notin DOMAIN l
    BY <1>4, <2>1
  <2>3. log[i].type = "INSERT"
    BY <1>1, <2>1, <2>2 DEF LogInv
  <2>4. \A j \in DOMAIN l : l[j].type = "INSERT" => l[j].new # log[i].new
    BY <1>1, <1>2, <2>1, <2>2, <2>3 DEF LogInv
  <2>5. log[i].new \notin InsertedBy(l, tx_id)
    BY <2>4 DEF InsertedBy, Inserts
  <2>6. log[i].new \in InsertedBy(log, tx_id)
    BY <2>1, <2>2, <2>3 DEF InsertedBy, Inserts
  <2> QED
    BY <2>5, <2>6
<1>17. InsertedBy(log, tx_id) \ InsertedBy(l, tx_id) = NewRows(log, Cutting(log, k))
  BY <1>15, <1>16 DEF NewRows
<1>18. KeepsRecords(l, k)
  BY <1>2, <1>3, <1>8, <1>9, <1>12, <1>13, <1>14, <1>17 DEF KeepsRecords
<1> QED
  BY <1>18 DEF l, k

LEMMA RollbackToStates ==
  ASSUME AllInv, AllInv', Inserting, NEW name \in Names, RollbackToBegin(name)
  PROVE  [Store!StoreNext]_(Store!storeVars)
<1>1. BaseInv /\ LedgerInv /\ HeapInv /\ Located /\ MaxLog <= MaxEntries /\ mem \in Contents
  BY DataPages DEF AllInv, StoreInv, Inserting
<1>2. /\ UNCHANGED <<mem, chain, log, tx_id, savepoints>> /\ phase = "up" /\ phase' = "rollback_to"
      /\ tx_id # 0 /\ busy = NoOp /\ disk' = mem
  BY DEF RollbackToBegin, Ready, txVars
<1> DEFINE c == cut'
           k == savepoints[c].offset
           l == First(log, k)
<1>3. LedgerInv' /\ BaseInv'
  BY DEF AllInv
<1>4. /\ c \in DOMAIN savepoints /\ k \in Nat /\ savepoints[c].tx = tx_id
      /\ work' = PartialWork(log, k, tx_id)
  <2>1. c \in DOMAIN savepoints /\ savepoints[c].tx = tx_id
    BY <1>2, <1>3 DEF LedgerInv, BaseInv, StageInv
  <2>2. savepoints \in Seq(Saved)
    BY <1>1 DEF BaseInv, TypeInv
  <2>3. savepoints[c] \in Saved
    BY <2>1, <2>2, SequenceElements
  <2>4. work' = PartialWork(log, k, tx_id)
    BY DEF RollbackToBegin
  <2> QED
    BY <2>1, <2>3, <2>4 DEF Saved
<1>5. LiveLog = log /\ LiveLog' = l /\ Current = tx_id /\ Current' = tx_id
  BY <1>2 DEF LiveLog, Current
<1> HIDE DEF c, k, l
<1>6. /\ \A t : t # tx_id => OwnOf(l, t) = OwnOf(log, t)
      /\ \A t : StatusFrom(TypesOf(l, t)) = StatusFrom(TypesOf(log, t))
      /\ OwnOf(l, tx_id) = [ins |-> InsertedBy(l, tx_id), del |-> {}]
      /\ OwnOf(log, tx_id) = [ins |-> InsertedBy(log, tx_id), del |-> {}]
      /\ InsertedBy(l, tx_id) \subseteq InsertedBy(log, tx_id)
      /\ InsertedBy(log, tx_id) \ InsertedBy(l, tx_id) = NewRows(log, Cutting(log, k))
  <2>1. tx_id # 0 /\ phase \in {"up", "rollback_to"}
    BY <1>2
  <2>2. KeepsRecords(First(log, savepoints[c].offset), savepoints[c].offset)
    BY <1>4, <2>1, KeptRecords
  <2>3. KeepsRecords(l, k)
    BY <2>2 DEF k, l
  <2> QED
    BY <2>3 DEF KeepsRecords
<1>7. tx_id \in 1 .. MaxTx
  BY <1>2, CurrentOpen
<1>8. /\ Owned = [u \in 1 .. MaxTx |-> OwnOf(log, u)]
      /\ Owned' = [u \in 1 .. MaxTx |-> OwnOf(l, u)]
      /\ Statuses = [u \in 1 .. MaxTx |-> StatusFrom(TypesOf(log, u))]
      /\ Statuses' = [u \in 1 .. MaxTx |-> StatusFrom(TypesOf(l, u))]
  BY <1>5, MapsAre
<1>9. Statuses' = Statuses
  BY <1>6, <1>8
<1> DEFINE new == OwnOf(l, tx_id)
<1>10. /\ Owned' = [Owned EXCEPT ![tx_id] = new]
       /\ Owned[tx_id].ins = InsertedBy(log, tx_id) /\ Owned[tx_id].del = {}
       /\ new.ins = InsertedBy(l, tx_id) /\ new.del = {}
  <2>1. Owned[tx_id] = OwnOf(log, tx_id)
    BY <1>7, <1>8
  <2>2. Owned' = [Owned EXCEPT ![tx_id] = new]
    BY <1>6, <1>7, <1>8
  <2> QED
    BY <1>6, <2>1, <2>2
<1> HIDE DEF new
<1>11. Working = RowsOf(mem) /\ Durable = RowsOf(mem) \ Pending(log)
  BY <1>1, <1>2, ReadyRows
<1> DEFINE w == work'
           J == Cutting(log, k)
<1>12. /\ w \in Seq(Steps)
       /\ \A i \in J : i \in Inserts(log, tx_id)
       /\ \A n \in DOMAIN w : \E i \in J : w[n] = Step("undo", log[i])
       /\ \A i \in J : \E n \in DOMAIN w : w[n] = Step("undo", log[i])
  <2>1. savepoints[c].offset = k /\ savepoints[c].offset \in Nat
    BY <1>4 DEF k
  <2> QED
    BY <1>2, <1>4, <2>1, PartialSteps
<1>13. \A i \in J : i \in DOMAIN log /\ log[i].type = "INSERT"
  BY <1>12 DEF Inserts
<1>14. Agrees(log, mem, NoOp)
  BY <1>1, <1>2 DEF HeapInv
<1>15. ExactUndo(w, J)
  BY <1>12, <1>13 DEF ExactUndo
<1> HIDE DEF w, J
<1>16. RowsOf(ApplyAll[<<mem, w>>]) = RowsOf(mem) \ NewRows(log, J)
  BY <1>1, <1>14, <1>15, UndoneTable
<1>17. /\ Working' = RowsIn(ApplyAll[<<disk', work'>>], chain')
       /\ Durable' = RowsIn(disk', chain') \ Pending(log')
  BY <1>1, <1>2, UndoingNext DEF Undoings
<1>18. Durable' = Durable
  BY <1>2, <1>11, <1>17 DEF RowsOf
<1>19. Working' = Working \ (Owned[tx_id].ins \ new.ins)
  BY <1>2, <1>6, <1>10, <1>11, <1>16, <1>17 DEF w, J, RowsOf
<1> QED
  BY <1>2, <1>5, <1>6, <1>7, <1>9, <1>10, <1>18, <1>19, IsRollbackTo

LEMMA RollbackToEndStutters ==
  ASSUME AllInv, AllInv', Inserting, RollbackToEnd
  PROVE  [Store!StoreNext]_(Store!storeVars)
<1>1. /\ BaseInv /\ LedgerInv /\ HeapInv /\ Located /\ LogInv /\ PendInv /\ MaxLog <= MaxEntries
      /\ disk \in Contents
  BY DataPages DEF AllInv, StoreInv, Inserting
<1>2. /\ UNCHANGED <<chain, tx_id, busy>> /\ phase = "rollback_to" /\ work = <<>> /\ mem' = disk
      /\ log' = First(log, savepoints[cut].offset) /\ phase' = "up" /\ busy = NoOp
  BY <1>1 DEF RollbackToEnd, Reread, BaseInv, StageInv
<1>3. tx_id # 0 /\ cut \in DOMAIN savepoints /\ savepoints[cut].tx = tx_id /\ savepoints[cut].offset \in Nat
  <2>1. tx_id # 0 /\ cut \in DOMAIN savepoints /\ savepoints[cut].tx = tx_id
    BY <1>1, <1>2 DEF BaseInv, StageInv, LedgerInv, Undoings
  <2>2. savepoints[cut].offset \in Nat
    BY <1>1, RollbackToCuts
  <2> QED
    BY <2>1, <2>2
<1> DEFINE k == savepoints[cut].offset
<1>4. k \in Nat /\ log' = First(log, k) /\ k = savepoints[cut].offset
  BY <1>2, <1>3
<1>5. LiveLog' = LiveLog /\ Current' = Current
  BY <1>2 DEF LiveLog, Current
<1> HIDE DEF k
<1>6. /\ DOMAIN log' = {i \in DOMAIN log : i <= k} /\ \A i \in DOMAIN log' : log'[i] = log[i]
      /\ \A i \in DOMAIN log : i \in DOMAIN log' \/ i > k
      /\ Unfinished(log') = Unfinished(log)
  <2>1. KeepsRecords(First(log, savepoints[cut].offset), savepoints[cut].offset)
    BY <1>2, <1>3, KeptRecords
  <2>2. KeepsRecords(log', k)
    BY <1>2, <2>1 DEF k
  <2> QED
    BY <2>2 DEF KeepsRecords
<1>7. Working = RowsOf(disk) /\ Durable = RowsOf(disk) \ Pending(log)
  <2>1. Working = RowsOf(ApplyAll[<<disk, work>>]) /\ Durable = RowsOf(disk) \ Pending(log)
    BY <1>1, <1>2, RowsUndoing DEF Undoings
  <2>2. ApplyAll[<<disk, work>>] = disk
    BY <1>1, <1>2, ReplayNothing
  <2> QED
    BY <2>1, <2>2
<1>8. /\ \A r : r \in Working' <=> Shown(r, disk, ChainPages') /\ r # busy'.row
      /\ Durable' = Working' \ Pending(log')
  BY <1>1, <1>2, UpShownNext
<1>9. Working' = Working
  <2>1. busy'.row = Deleted
    BY <1>2 DEF NoOp, NoRow, Deleted
  <2>2. \A r : r \in Working' <=> r \in RowsOf(disk)
    BY <1>2, <1>8, <2>1, RowsShown DEF Shown, RowsOf
  <2> QED
    BY <1>7, <2>2
<1>10. \A r : r \in Pending(log') => r \in Pending(log)
  <2> SUFFICES ASSUME NEW r \in Pending(log') PROVE r \in Pending(log)
    OBVIOUS
  <2>1. PICK i \in DOMAIN log' : /\ log'[i].type = "INSERT" /\ log'[i].tx \in Unfinished(log')
                                 /\ r = log'[i].new
    BY DEF Pending, OpenInserts
  <2>2. i \in DOMAIN log /\ log[i] = log'[i]
    BY <1>6
  <2> QED
    BY <1>6, <2>1, <2>2 DEF Pending, OpenInserts
<1>11. ASSUME NEW r \in RowsOf(disk), r \in Pending(log) PROVE r \in Pending(log')
  <2>1. PICK i \in DOMAIN log : log[i].type = "INSERT" /\ log[i].tx \in Unfinished(log) /\ r = log[i].new
    BY <1>11 DEF Pending, OpenInserts
  <2>2. i \notin DOMAIN log' => FALSE
    <3> SUFFICES ASSUME i \notin DOMAIN log' PROVE FALSE
      OBVIOUS
    <3>1. i > k /\ i \in DataIn(log) /\ log[i].page \in PageIds
      BY <1>1, <1>6, <2>1, DataPages
    <3>2. Emptying(disk, work, log[i])
      BY <1>1, <1>2, <1>4, <3>1 DEF PendInv
    <3>3. log[i].slot \in DOMAIN disk[log[i].page] /\ disk[log[i].page][log[i].slot] = Deleted
      <4>1. DOMAIN work = {}
        BY <1>2
      <4> QED
        BY <3>2, <4>1 DEF Emptying
    <3>4. Shown(r, disk, ChainPages)
      BY <1>11, RowsShown DEF RowsOf
    <3>5. PICK p \in ChainPages : \E s \in DOMAIN disk[p] : disk[p][s] = r
      BY <3>4 DEF Shown
    <3>6. p \in PageIds /\ r # Deleted
      BY <1>1, <3>4, TablePages DEF BaseInv, Shown
    <3>7. PICK s \in DOMAIN disk[p] : disk[p][s] = r
      BY <3>5
    <3>8. r \in Rows
      BY <1>1, <3>6, <3>7, RowType
    <3>9. Held(mem, disk, log, r, p, s) /\ Held(mem, disk, log, r, log[i].page, log[i].slot)
      BY <2>1, <3>7 DEF Held, At
    <3>10. p = log[i].page /\ s = log[i].slot
      BY <1>1, <3>1, <3>6, <3>8, <3>9 DEF Located
    <3> QED
      BY <3>3, <3>6, <3>7, <3>10
  <2> QED
    BY <1>6, <2>1, <2>2 DEF Pending, OpenInserts
<1>12. Durable' = Durable
  BY <1>7, <1>8, <1>9, <1>10, <1>11
<1> QED
  BY <1>5, <1>9, <1>12, MapsKept, IsStutter

-----------------------------------------------------------------------------
(* Crashes and restarts                                                    *)

(* An empty log knows of no transaction.                                   *)
LEMMA EmptyLog ==
  /\ \A t : OwnOf(<<>>, t) = [ins |-> {}, del |-> {}]
  /\ \A t : StatusFrom(TypesOf(<<>>, t)) = "none"
  /\ Pending(<<>>) = {}
<1>1. DOMAIN <<>> = {}
  OBVIOUS
<1>2. Unfinished(<<>>) = {} /\ OpenInserts(<<>>) = {} /\ \A t : TypesOf(<<>>, t) = {}
  BY <1>1 DEF Unfinished, OpenInserts, TypesOf
<1>3. StatusFrom({}) = "none"
  BY DEF StatusFrom
<1> QED
  BY <1>2, <1>3 DEF OwnOf, Pending

LEMMA EmptyMaps ==
  ASSUME AllInv, AllInv', LiveLog' = <<>>
  PROVE  /\ Owned' = [t \in 1 .. MaxTx |-> [ins |-> {}, del |-> {}]]
         /\ Statuses' = [t \in 1 .. MaxTx |-> "none"]
BY MapsAre, EmptyLog

(* A crash loses what is not durable, and no more: recovery will rebuild   *)
(* that.                                                                   *)
LEMMA CrashStates ==
  ASSUME AllInv, AllInv', Inserting, CrashPhases \subseteq {"up", "recover", "rollback_to"}, Crash
  PROVE  [Store!StoreNext]_(Store!storeVars)
<1>1. /\ phase \in {"up", "recover", "rollback_to"} /\ phase' = "recover" /\ tx_id' = 0
      /\ work' = RecoveryWork(log) /\ UNCHANGED <<disk, chain, log>>
  BY DEF Crash
<1>2. Durable = RowsOf(ApplyAll[<<disk, RecoveryWork(log)>>])
  BY <1>1 DEF Durable
<1>3. Durable' = RowsIn(ApplyAll[<<disk', RecoveryWork(log')>>], chain')
  <2>1. (phase = "recover" => Durable = RowsOf(ApplyAll[<<disk, RecoveryWork(log)>>]))'
    <3>1. phase = "recover" => Durable = RowsOf(ApplyAll[<<disk, RecoveryWork(log)>>])
      BY DEF Durable
    <3> QED
      BY <1>1 DEF Durable
  <2> QED
    BY <1>1, <2>1 DEF RowsOf
<1>4. Working' = RowsIn(ApplyAll[<<disk', work'>>], chain')
  BY <1>1 DEF Working, Replayed, RowsOf
<1>5. Working' = Durable /\ Durable' = Durable
  BY <1>1, <1>2, <1>3, <1>4 DEF RowsOf
<1>6. LiveLog' = <<>> /\ Current' = 0
  BY <1>1 DEF LiveLog, Current
<1> QED
  BY <1>5, <1>6, EmptyMaps, IsRestart

LEMMA ShutdownStates ==
  ASSUME AllInv, AllInv', Inserting, Shutdown
  PROVE  [Store!StoreNext]_(Store!storeVars)
<1>1. BaseInv /\ MaxLog <= MaxEntries /\ disk \in Contents
  BY DataPages DEF AllInv, Inserting
<1>2. /\ mem' = disk' /\ log' = <<>> /\ phase' = "up" /\ busy' = NoOp /\ busy = NoOp
      /\ tx_id' = 0 /\ UNCHANGED chain
  BY <1>1, BaseShutdown
<1>3. Working = RowsIn(mem', chain)
  <2>1. CASE Ready /\ tx_id = 0 /\ UNCHANGED mem
    <3>1. Working = RowsOf(mem)
      BY <1>1, <1>2, <2>1, ReadyRows DEF Ready
    <3> QED
      BY <2>1, <3>1 DEF RowsOf
  <2>2. CASE phase = "closing" /\ work = <<>> /\ mem' = disk
    <3>1. Working = RowsOf(ApplyAll[<<disk, work>>])
      BY <1>1, <2>2, RowsUndoing DEF Undoings
    <3>2. ApplyAll[<<disk, work>>] = disk
      BY <1>1, <2>2, ReplayNothing
    <3> QED
      BY <2>2, <3>1, <3>2 DEF RowsOf
  <2> QED
    BY <2>1, <2>2 DEF Shutdown, Reread
<1>4. /\ \A r : r \in Working' <=> Shown(r, mem', ChainPages') /\ r # busy'.row
      /\ Durable' = Working' \ Pending(log')
  BY <1>1, <1>2, UpShownNext
<1>5. Working' = Working
  <2>1. busy'.row = Deleted
    BY <1>2 DEF NoOp, NoRow, Deleted
  <2>2. \A r : r \in Working' <=> r \in RowsIn(mem', chain')
    BY <1>4, <2>1, RowsShown DEF Shown
  <2> QED
    BY <1>2, <1>3, <2>2
<1>6. Durable' = Working
  BY <1>2, <1>4, <1>5, EmptyLog
<1>7. LiveLog' = <<>> /\ Current' = 0
  BY <1>2 DEF LiveLog, Current
<1> QED
  BY <1>5, <1>6, <1>7, EmptyMaps, IsRestart

LEMMA RecoverEndStutters ==
  ASSUME AllInv, AllInv', Inserting, RecoverEnd
  PROVE  [Store!StoreNext]_(Store!storeVars)
<1>1. BaseInv /\ MaxLog <= MaxEntries /\ disk \in Contents
  BY DataPages DEF AllInv, Inserting
<1>2. /\ mem' = disk /\ log' = <<>> /\ phase = "recover" /\ work = <<>> /\ phase' = "up"
      /\ busy = NoOp /\ UNCHANGED <<chain, tx_id, busy>>
  BY <1>1 DEF RecoverEnd, txVars, BaseInv, StageInv
<1>3. Working = RowsOf(disk) /\ Durable = RowsOf(disk)
  <2>1. Working = RowsOf(ApplyAll[<<disk, work>>]) /\ Durable = Working
    BY <1>1, <1>2, RowsRecovering
  <2>2. ApplyAll[<<disk, work>>] = disk
    BY <1>1, <1>2, ReplayNothing
  <2> QED
    BY <2>1, <2>2
<1>4. /\ \A r : r \in Working' <=> Shown(r, disk, ChainPages') /\ r # busy'.row
      /\ Durable' = Working' \ Pending(log')
  BY <1>1, <1>2, UpShownNext
<1>5. Working' = Working
  <2>1. busy'.row = Deleted
    BY <1>2 DEF NoOp, NoRow, Deleted
  <2>2. \A r : r \in Working' <=> r \in RowsOf(disk)
    BY <1>2, <1>4, <2>1, RowsShown DEF Shown, RowsOf
  <2> QED
    BY <1>3, <2>2
<1>6. Durable' = Durable
  BY <1>2, <1>3, <1>4, <1>5, EmptyLog
<1>7. LiveLog' = LiveLog /\ Current' = Current
  BY <1>2 DEF LiveLog, Current
<1> QED
  BY <1>5, <1>6, <1>7, MapsKept, IsStutter

-----------------------------------------------------------------------------
(* The refinement                                                          *)
LEMMA StoreInitial ==
  ASSUME Inserting, Init
  PROVE  Store!StoreInit
<1>1. AllInv
  BY InitStore
<1>2. /\ mem = [p \in PageIds |-> <<>>] /\ disk = mem /\ log = <<>> /\ phase = "up" /\ tx_id = 0
      /\ busy = NoOp
  BY DEF Init
<1>3. LiveLog = <<>> /\ Current = 0
  BY <1>2 DEF LiveLog, Current
<1>4. /\ Owned = [t \in 1 .. MaxTx |-> [ins |-> {}, del |-> {}]]
      /\ Statuses = [t \in 1 .. MaxTx |-> "none"]
  BY <1>1, <1>3, OwnedChanges, EmptyLog DEF Owned, Statuses
<1>5. \A r : ~Shown(r, mem, ChainPages)
  <2>1. DOMAIN <<>> = {} /\ ChainPages \in SUBSET PageIds
    BY <1>1, TablePages DEF AllInv, BaseInv
  <2> QED
    BY <1>2, <2>1 DEF Shown
<1>6. RowsOf(mem) = {}
  BY <1>5, RowsShown DEF RowsOf
<1>7. MaxLog <= MaxEntries
  BY DEF Inserting
<1>8. Working = {} /\ Durable = {}
  BY <1>1, <1>2, <1>6, <1>7, ReadyRows
<1> QED
  BY <1>3, <1>4, <1>8 DEF Store!StoreInit, Store!Nothing, Owned, Statuses, Current

(* Every step of the engine is one of TxnStore, or changes none of it.     *)
LEMMA EngineStores ==
  ASSUME StoreLimits, AllInv, AllInv', [Next]_vars
  PROVE  [Store!StoreNext]_(Store!storeVars)
<1>1. Inserting /\ CrashPhases \subseteq {"up", "recover", "rollback_to"} /\ HeapInv
  BY DEF StoreLimits, Inserting, AllInv
<1>2. CASE UNCHANGED vars
  <2>1. Working' = Working /\ Durable' = Durable
    BY <1>2 DEF vars, Working, Durable, Replayed, RowsOf
  <2>2. LiveLog' = LiveLog /\ Current' = Current
    BY <1>2 DEF vars, LiveLog, Current
  <2> QED
    BY <2>1, <2>2, MapsKept, IsStutter
<1>3. ASSUME NEW big \in Oversize, Insert(big) PROVE [Store!StoreNext]_(Store!storeVars)
  BY <1>1, <1>3, InsertStutters
<1>4. ASSUME NEW p \in PageIds, NEW s \in 1 .. Slots, Delete(p, s)
      PROVE  [Store!StoreNext]_(Store!storeVars)
  BY <1>1, <1>4, DeleteStates
<1>5. CASE DeleteSlot
  BY <1>1, <1>5, DeleteSlotStutters
<1>6. CASE Link
  BY <1>1, <1>6, LinkStutters
<1>7. CASE Log
  BY <1>1, <1>7, LogStates
<1>8. ASSUME NEW p \in PageIds, WriteBack(p) PROVE [Store!StoreNext]_(Store!storeVars)
  BY <1>1, <1>8, WriteBackStutters
<1>9. CASE Begin
  BY <1>1, <1>9, BeginStates
<1>10. CASE Commit
  BY <1>1, <1>10, CommitStates
<1>11. ASSUME NEW name \in Names, Savepoint(name) PROVE [Store!StoreNext]_(Store!storeVars)
  BY <1>1, <1>11, SavepointStutters
<1>12. ASSUME NEW next \in {"rollback", "closing"}, RollbackBegin(next)
       PROVE  [Store!StoreNext]_(Store!storeVars)
  BY <1>1, <1>12, RollbackStates
<1>13. ASSUME NEW name \in Names, RollbackToBegin(name) PROVE [Store!StoreNext]_(Store!storeVars)
  BY <1>1, <1>13, RollbackToStates
<1>14. CASE ApplyStep
  BY <1>1, <1>14, ApplyStepStutters
<1>15. CASE RollbackEnd
  BY <1>1, <1>15, RollbackEndStutters
<1>16. CASE RollbackToEnd
  BY <1>1, <1>16, RollbackToEndStutters
<1>17. CASE Shutdown
  BY <1>1, <1>17, ShutdownStates
<1>18. CASE Crash
  BY <1>1, <1>18, CrashStates
<1>19. CASE RecoverEnd
  BY <1>1, <1>19, RecoverEndStutters
<1> QED
  BY <1>1, <1>2, <1>3, <1>4, <1>5, <1>6, <1>7, <1>8, <1>9, <1>10, <1>11, <1>12, <1>13, <1>14,
     <1>15, <1>16, <1>17, <1>18, <1>19, NoUpdate DEF Next

(* The engine implements TxnStore where clients insert and delete outside  *)
(* transactions and insert inside, use only savepoints of their own        *)
(* transaction, and the log is never longer than recovery and rollback     *)
(* read; the process may die at any time but while a ROLLBACK (or a        *)
(* shutdown's) undoes changes, which recovery would repeat.                *)
THEOREM TxnStoreImplemented ==
  /\ "UPDATE" \notin AutoStatements /\ TxStatements \subseteq {"INSERT"}
  /\ ~StaleSavepoints
  /\ MaxLog <= MaxEntries /\ MaxLog <= MaxUndo
  /\ CrashPhases \subseteq {"up", "recover", "rollback_to"}
  => (Spec => ImplementsTxnStore)
<1> SUFFICES ASSUME StoreLimits PROVE Spec => ImplementsTxnStore
  BY DEF StoreLimits
<1>1. Init => AllInv /\ Store!StoreInit
  BY InitStore, StoreInitial DEF StoreLimits, Inserting
<1>2. AllInv /\ [Next]_vars => AllInv'
  BY StoreStep
<1>3. AllInv /\ AllInv' /\ [Next]_vars => [Store!StoreNext]_(Store!storeVars)
  BY EngineStores
<1> QED
  BY <1>1, <1>2, <1>3, PTL DEF Spec, ImplementsTxnStore, Store!StoreSpec
=============================================================================
