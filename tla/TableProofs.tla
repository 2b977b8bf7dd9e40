---------------------------- MODULE TableProofs ----------------------------
(***************************************************************************)
(* Table: the in-memory indexes equal the rows in every reachable state,   *)
(* and the statements implement KeyedRows.  TableInv is the inductive      *)
(* invariant; every action has a lemma that says it keeps TableInv.        *)
(***************************************************************************)
EXTENDS Table, WellFoundedInduction, FiniteSetTheorems, TLAPS

-----------------------------------------------------------------------------
(* Induction. The least element of a set of numbers stands for the         *)
(* induction rule, and a function that iterates another one for recursion. *)

(* Every nonempty set of natural numbers has a least element.              *)
LEMMA LeastNumber ==
  ASSUME NEW T \in SUBSET Nat, T # {}
  PROVE  \E m \in T : \A k \in T : m <= k
<1> DEFINE Less == {ss \in Nat \X Nat : ss[1] < ss[2]}
<1>1. IsWellFoundedOn(Less, Nat)
  <2>1. OpToRel(<, Nat) = Less
    BY DEF OpToRel
  <2> QED
    BY <2>1, NatLessThanWellFounded
<1>2. \E x \in T : \A y \in T : ~ (<<y, x>> \in Less)
  <2> HIDE DEF Less
  <2> QED
    BY <1>1, WFMin
<1>3. PICK m \in T : \A k \in T : ~ (<<k, m>> \in Less)
  BY <1>2
<1>4. ASSUME NEW k \in T PROVE m <= k
  <2>1. <<k, m>> \in Nat \X Nat /\ <<k, m>>[1] = k /\ <<k, m>>[2] = m
    OBVIOUS
  <2> QED
    BY <1>3, <2>1
<1> QED
  BY <1>4

(* A set with 0 and with the successor of each of its elements below N.    *)
LEMMA Induction ==
  ASSUME NEW S, NEW N \in Nat, 0 \in S, \A n \in 1 .. N : n - 1 \in S => n \in S
  PROVE  \A n \in 0 .. N : n \in S
<1> DEFINE T == (0 .. N) \ S
<1> SUFFICES ASSUME T # {} PROVE FALSE
  OBVIOUS
<1>1. T \in SUBSET Nat
  OBVIOUS
<1>2. PICK m \in T : \A k \in T : m <= k
  <2> HIDE DEF T
  <2> QED
    BY <1>1, LeastNumber
<1>3. m \in 0 .. N /\ m \notin S /\ m # 0
  OBVIOUS
<1>4. m \in 1 .. N /\ m - 1 \in 0 .. N /\ ~(m <= m - 1)
  BY <1>3
<1>5. m - 1 \in S
  BY <1>2, <1>4
<1> QED
  BY <1>3, <1>4, <1>5

(* f[0], f[1], ... f[N] are base and what step makes of each from the one  *)
(* before.                                                                 *)
Iterates(f, S, base, N, step) ==
  /\ f \in [0 .. N -> S]
  /\ f[0] = base
  /\ \A n \in 1 .. N : f[n] = step[<<n, f[n - 1]>>]

(* Such a function exists, whatever the step is.                           *)
LEMMA Iteration ==
  ASSUME NEW S, NEW base \in S, NEW N \in Nat, NEW step \in [(1 .. N) \X S -> S]
  PROVE  \E f : Iterates(f, S, base, N, step)
<1> DEFINE Rec(f, n) == /\ f \in [0 .. n -> S]
                        /\ f[0] = base
                        /\ \A k \in 1 .. n : f[k] = step[<<k, f[k - 1]>>]
           Good == {n \in 0 .. N : \E f : Rec(f, n)}
<1>1. 0 \in Good
  <2>1. Rec([k \in 0 .. 0 |-> base], 0)
    OBVIOUS
  <2> HIDE DEF Rec
  <2> QED
    BY <2>1
<1>2. ASSUME NEW n \in 1 .. N, n - 1 \in Good
      PROVE  n \in Good
  <2>1. PICK f : Rec(f, n - 1)
    BY <1>2
  <2> DEFINE g == [k \in 0 .. n |-> IF k = n THEN step[<<n, f[n - 1]>>] ELSE f[k]]
  <2>2. /\ n - 1 \in 0 .. n - 1 /\ 0 \in 0 .. n - 1
        /\ f \in [0 .. n - 1 -> S]
    BY <2>1
  <2>3. f[n - 1] \in S /\ <<n, f[n - 1]>> \in (1 .. N) \X S
    BY <2>2
  <2>4. g \in [0 .. n -> S]
    BY <2>2, <2>3
  <2>5. g[0] = base
    BY <2>1, <2>2
  <2>6. ASSUME NEW k \in 1 .. n PROVE g[k] = step[<<k, g[k - 1]>>]
    <3>1. CASE k = n
      <4>1. n - 1 \in 0 .. n /\ n - 1 # n /\ n \in 0 .. n
        OBVIOUS
      <4>2. g[n - 1] = f[n - 1] /\ g[n] = step[<<n, f[n - 1]>>]
        BY <4>1
      <4> QED
        BY <3>1, <4>2
    <3>2. CASE k # n
      <4>1. k \in 1 .. n - 1 /\ k - 1 \in 0 .. n - 1
        BY <3>2
      <4>2. g[k] = f[k] /\ g[k - 1] = f[k - 1]
        BY <4>1
      <4> QED
        BY <2>1, <4>1, <4>2
    <3> QED
      BY <3>1, <3>2
  <2>7. Rec(g, n)
    BY <2>4, <2>5, <2>6
  <2>8. n \in 0 .. N
    OBVIOUS
  <2> HIDE DEF Rec, g
  <2> QED
    BY <2>7, <2>8
<1> HIDE DEF Rec
<1>3. \A n \in 0 .. N : n \in Good
  <2> HIDE DEF Good
  <2> QED
    BY <1>1, <1>2, Induction
<1>4. \E f : Rec(f, N)
  BY <1>3
<1> QED
  BY <1>4 DEF Rec, Iterates

-----------------------------------------------------------------------------
(* Sequences *)
LEMMA Elements ==
  ASSUME NEW S, NEW s \in Seq(S)
  PROVE  DOMAIN s = 1 .. Len(s) /\ Len(s) \in Nat /\ \A i \in DOMAIN s : s[i] \in S
OBVIOUS

(* What the library operators on sequences return                          *)
LEMMA SubSeqElements ==
  ASSUME NEW S, NEW s \in Seq(S), NEW a \in Nat \ {0}, NEW b \in Nat, b <= Len(s), a <= b + 1
  PROVE  /\ SubSeq(s, a, b) \in Seq(S) /\ Len(SubSeq(s, a, b)) = b + 1 - a
         /\ DOMAIN SubSeq(s, a, b) = 1 .. b + 1 - a
         /\ \A j \in 1 .. b + 1 - a : SubSeq(s, a, b)[j] = s[a + j - 1]
OBVIOUS

(* ... and an element appended.                                            *)
LEMMA AppendElements ==
  ASSUME NEW S, NEW s \in Seq(S), NEW e \in S
  PROVE  /\ Append(s, e) \in Seq(S) /\ Len(Append(s, e)) = Len(s) + 1 /\ Len(s) \in Nat
         /\ DOMAIN s = 1 .. Len(s) /\ DOMAIN Append(s, e) = 1 .. Len(s) + 1
         /\ \A i \in DOMAIN s : Append(s, e)[i] = s[i]
         /\ Append(s, e)[Len(s) + 1] = e
OBVIOUS

(* The first element and the others                                        *)
LEMMA TailElements ==
  ASSUME NEW S, NEW s \in Seq(S), s # <<>>
  PROVE  /\ Tail(s) \in Seq(S) /\ Len(Tail(s)) = Len(s) - 1 /\ Len(s) \in Nat /\ Len(s) >= 1
         /\ DOMAIN s = 1 .. Len(s) /\ DOMAIN Tail(s) = 1 .. Len(s) - 1
         /\ Head(s) = s[1] /\ 1 \in DOMAIN s /\ s[1] \in S
         /\ \A i \in DOMAIN Tail(s) : i + 1 \in DOMAIN s /\ Tail(s)[i] = s[i + 1]
OBVIOUS

(* A function on 1 .. n is a sequence.                                     *)
LEMMA SequenceOf ==
  ASSUME NEW S, NEW n \in Nat, NEW f \in [1 .. n -> S]
  PROVE  f \in Seq(S) /\ Len(f) = n /\ DOMAIN f = 1 .. n
OBVIOUS

-----------------------------------------------------------------------------
(* The invariant. Row ids of the heap and of the running statement         *)
Slot  == RowType \cup {Null}
Work  == [rid : Nat, old : Slot, new : Slot]
Entry == [type : {"INSERT", "UPDATE", "DELETE"}, rid : Nat, old : Slot]
Kinds == {"none", "INSERT", "UPDATE", "DELETE"}

Listing(c) == [list : [Values(c) -> Seq(Nat)], max : Nat]

Types(h, ixs, st, lg, sv) ==
  /\ h \in Seq(Slot)
  /\ ixs = [c \in Columns |-> ixs[c]]
  /\ st \in [kind : Kinds, todo : Seq(Work), done : Nat, before : SUBSET RowType]
  /\ st.kind = "none" => st = Idle
  /\ st # Idle => st.todo # <<>>
  /\ lg # Null => lg \in Seq(Entry)
  /\ sv \subseteq RowType

(* Records of the log name rows that were there; an insertion took none    *)
(* away.                                                                   *)
Logged(h, lg) ==
  lg # Null => \A i \in DOMAIN lg : /\ lg[i].rid \in DOMAIN h
                                    /\ lg[i].type # "INSERT" => lg[i].old \in RowType

(* An index lists, for every value, the rows that hold it, each once.      *)
Once(l) == \A i, j \in DOMAIN l : l[i] = l[j] => i = j
Holders(h, c, x) == {i \in Rids(h) : h[i][c] = x}
Lists(h, c, ix) ==
  /\ ix \in Listing(c)
  /\ \A x \in Values(c) : /\ ToSet(ix.list[x]) = Holders(h, c, x) /\ Once(ix.list[x])
                          /\ c = "id" /\ ix.list[x] # <<>> => x <= ix.max
Indexed(h, ixs) == \A c \in Columns : ixs[c] # Null => Lists(h, c, ixs[c])

(* The rows still to be written are as the statement read them.            *)
Current(h, st) ==
  /\ st.kind \in {"UPDATE", "DELETE"} =>
       /\ \A i \in DOMAIN st.todo : st.todo[i].rid \in Rids(h) /\ st.todo[i].old = h[st.todo[i].rid]
       /\ \A i, j \in DOMAIN st.todo : st.todo[i].rid = st.todo[j].rid => i = j
  /\ st.kind \in {"INSERT", "UPDATE"} => \A i \in DOMAIN st.todo : st.todo[i].new \in RowType
  /\ st.kind = "INSERT" => \A i \in DOMAIN st.todo : st.todo[i].rid = 0

(* The rows that the statement leaves as they are now, and those it is     *)
(* about to write: together they have each key once.                       *)
Rest(h, st) == {i \in Rids(h) : \A j \in DOMAIN st.todo : st.todo[j].rid # i}
RestRows(h, st) == {h[i] : i \in Rest(h, st)}
NewRows(st) == {st.todo[i].new : i \in DOMAIN st.todo}
Keyed(h, st) ==
  /\ \A i, j \in Rest(h, st) : h[i].id = h[j].id => i = j
  /\ st.kind \in {"INSERT", "UPDATE"} =>
       /\ \A i \in Rest(h, st), j \in DOMAIN st.todo : h[i].id # st.todo[j].new.id
       /\ \A i, j \in DOMAIN st.todo : st.todo[i].new.id = st.todo[j].new.id => i = j

(* What the table will be when all of them are written is what the         *)
(* statement promises of the rows it started with.                         *)
Selected(w, rows) == {r \in rows : R!Matches(w, r)}
Outcome(h, st) ==
  /\ st.kind = "INSERT" => st.before \subseteq RestRows(h, st)
  /\ st.kind = "UPDATE" =>
       \E w \in Wheres, s \in Sets :
         LET new == {R!NewRow(s, r) : r \in Selected(w, st.before)}
         IN  /\ Cardinality(new) = Cardinality(Selected(w, st.before))
             /\ RestRows(h, st) \cup NewRows(st) = (st.before \ Selected(w, st.before)) \cup new
  /\ st.kind = "DELETE" =>
       \E w \in Wheres : RestRows(h, st) = st.before \ Selected(w, st.before)

(* No two rows have the same key.                                          *)
Distinct(h) == \A i, j \in Rids(h) : h[i].id = h[j].id => i = j

Promises(h, st, lg, sv) ==
  /\ Keyed(h, st) /\ Outcome(h, st)
  /\ lg # Null => R!UniqueKeys(sv)
  /\ st # Idle /\ st.done = 0 => Rows(h) = st.before /\ Distinct(h)

(* torn: a failure has stopped a statement half way, and then nothing is   *)
(* promised of the rows, but of the indexes all the same.                  *)
Sound(h, ixs, st, lg, sv, tr) ==
  /\ Types(h, ixs, st, lg, sv) /\ Logged(h, lg)
  /\ Indexed(h, ixs) /\ Current(h, st)
  /\ tr \in BOOLEAN
  /\ tr = FALSE => Promises(h, st, lg, sv)
TableInv == Sound(heap, index, stmt, log, saved, torn)

(* Appending an element                                                    *)
LEMMA AppendSet ==
  ASSUME NEW S, NEW s \in Seq(S), NEW e \in S
  PROVE  ToSet(Append(s, e)) = ToSet(s) \cup {e}
<1> DEFINE t == Append(s, e)
           n == Len(s)
<1>1. /\ n \in Nat /\ DOMAIN s = 1 .. n /\ DOMAIN t = 1 .. n + 1
      /\ \A i \in DOMAIN s : t[i] = s[i]
      /\ t[n + 1] = e
  BY AppendElements
<1> HIDE DEF t, n
<1>2. \A i \in 1 .. n + 1 : i \in 1 .. n \/ i = n + 1
  BY <1>1
<1>3. n + 1 \in 1 .. n + 1 /\ \A i \in 1 .. n : i \in 1 .. n + 1
  BY <1>1
<1>4. ToSet(t) = ToSet(s) \cup {e}
  BY <1>1, <1>2, <1>3 DEF ToSet
<1> QED
  BY <1>4 DEF t

(* Appending a new element to a list without repetitions                   *)
LEMMA AppendOnce ==
  ASSUME NEW S, NEW s \in Seq(S), NEW e \in S, e \notin ToSet(s), Once(s)
  PROVE  Once(Append(s, e))
<1> DEFINE t == Append(s, e)
           n == Len(s)
<1>1. /\ n \in Nat /\ DOMAIN s = 1 .. n /\ DOMAIN t = 1 .. n + 1
      /\ \A i \in DOMAIN s : t[i] = s[i]
      /\ t[n + 1] = e
  BY AppendElements
<1> HIDE DEF t, n
<1>2. \A i \in 1 .. n + 1 : i \in 1 .. n \/ i = n + 1
  BY <1>1
<1>3. \A i \in DOMAIN s : s[i] # e
  BY DEF ToSet
<1>4. Once(t)
  BY <1>1, <1>2, <1>3 DEF Once
<1> QED
  BY <1>4 DEF t

-----------------------------------------------------------------------------
(* The loops of the model are recursive functions; each of them exists     *)
(* (Iteration) and is what its definition says.                            *)

(* Two functions that start alike and go on alike are the same.            *)
LoopOver(f, N) == f = [n \in 0 .. N |-> f[n]]
(* Two such functions that start alike and go on alike are the same.       *)
LEMMA SameLoop ==
  ASSUME NEW N \in Nat, NEW f, NEW g, LoopOver(f, N), LoopOver(g, N),
         f[0] = g[0], \A n \in 1 .. N : f[n - 1] = g[n - 1] => f[n] = g[n]
  PROVE  f = g
<1> DEFINE G == {n \in 0 .. N : f[n] = g[n]}
<1>1. 0 \in G /\ \A n \in 1 .. N : n - 1 \in G => n \in G
  <2>1. 0 \in 0 .. N /\ \A n \in 1 .. N : n \in 0 .. N
    OBVIOUS
  <2> QED
    BY <2>1
<1>2. \A n \in 0 .. N : n \in G
  <2> HIDE DEF G
  <2> QED
    BY <1>1, Induction
<1>3. \A n \in 0 .. N : f[n] = g[n]
  BY <1>2
<1> QED
  BY <1>3 DEF LoopOver

(* Kept filters a list.                                                    *)
LEMMA KeptLoop ==
  ASSUME NEW s \in Seq(Nat), NEW T
  PROVE  \E f : /\ f \in [0 .. Len(s) -> Seq(Nat)] /\ f[0] = <<>>
                /\ \A n \in 1 .. Len(s) : f[n] = IF s[n] \in T THEN Append(f[n - 1], s[n]) ELSE f[n - 1]
                /\ Kept(s, T) = f[Len(s)]
<1> DEFINE N    == Len(s)
           step == [x \in (1 .. N) \X Seq(Nat) |-> IF s[x[1]] \in T THEN Append(x[2], s[x[1]]) ELSE x[2]]
           Is(f) == f = [n \in 0 .. N |-> IF n = 0 THEN <<>>
                                          ELSE IF s[n] \in T THEN Append(f[n - 1], s[n]) ELSE f[n - 1]]
           look  == CHOOSE f : Is(f)
<1>1. N \in Nat /\ <<>> \in Seq(Nat) /\ \A n \in 1 .. N : s[n] \in Nat
  OBVIOUS
<1>2. step \in [(1 .. N) \X Seq(Nat) -> Seq(Nat)]
  <2>1. ASSUME NEW x \in (1 .. N) \X Seq(Nat)
        PROVE (IF s[x[1]] \in T THEN Append(x[2], s[x[1]]) ELSE x[2]) \in Seq(Nat)
    <3>1. x[1] \in 1 .. N /\ x[2] \in Seq(Nat) /\ s[x[1]] \in Nat
      BY <1>1
    <3>2. Append(x[2], s[x[1]]) \in Seq(Nat)
      BY <3>1, AppendElements
    <3> QED
      BY <3>1, <3>2
  <2> HIDE DEF N
  <2> QED
    BY <2>1
<1>3. PICK f : Iterates(f, Seq(Nat), <<>>, N, step)
  <2> HIDE DEF N, step
  <2> QED
    BY <1>1, <1>2, Iteration
<1>4. f \in [0 .. N -> Seq(Nat)] /\ f[0] = <<>>
  BY <1>3 DEF Iterates
<1>5. \A n \in 1 .. N : f[n] = IF s[n] \in T THEN Append(f[n - 1], s[n]) ELSE f[n - 1]
  <2> SUFFICES ASSUME NEW n \in 1 .. N
               PROVE f[n] = IF s[n] \in T THEN Append(f[n - 1], s[n]) ELSE f[n - 1]
    OBVIOUS
  <2>1. f[n] = step[<<n, f[n - 1]>>]
    BY <1>3 DEF Iterates
  <2>2. n - 1 \in 0 .. N
    BY <1>1
  <2>3. f[n - 1] \in Seq(Nat)
    BY <1>4, <2>2
  <2>4. <<n, f[n - 1]>> \in (1 .. N) \X Seq(Nat)
    BY <2>3
  <2> HIDE DEF N
  <2> QED
    BY <2>1, <2>4
<1>6. Is(f)
  <2>1. f = [n \in 0 .. N |-> f[n]] /\ \A n \in 0 .. N : n # 0 => n \in 1 .. N
    BY <1>1, <1>4
  <2> HIDE DEF N, step
  <2> QED
    BY <1>4, <1>5, <2>1
<1>7. Is(look)
  <2> HIDE DEF Is
  <2> QED
    BY <1>6
<1>8. Kept(s, T) = look[N]
  BY DEF Kept
<1>9. look = f
  <2>1. LoopOver(f, N) /\ LoopOver(look, N) /\ 0 \in 0 .. N
    <3>1. 0 \in 0 .. N
      BY <1>1
    <3> HIDE DEF look, N
    <3> QED
      BY <1>4, <1>7, <3>1 DEF LoopOver
  <2> HIDE DEF look, N
  <2>2. look[0] = f[0]
    BY <1>4, <1>7, <2>1
  <2>3. ASSUME NEW n \in 1 .. N, look[n - 1] = f[n - 1] PROVE look[n] = f[n]
    <3>1. n \in 0 .. N /\ n # 0
      BY <1>1
    <3> QED
      BY <1>5, <1>7, <2>3, <3>1
  <2> QED
    BY <1>1, <2>1, <2>2, <2>3, SameLoop
<1> HIDE DEF look
<1> QED
  BY <1>4, <1>5, <1>8, <1>9

(* It returns the elements of s that are in T.                             *)
LEMMA KeptIs ==
  ASSUME NEW s \in Seq(Nat), NEW T, NEW k, k = Kept(s, T)
  PROVE  k \in Seq(Nat) /\ ToSet(k) = ToSet(s) \cap T /\ (Once(s) => Once(k))
<1> DEFINE N == Len(s)
           Upto(n) == {s[i] : i \in 1 .. n}
<1>1. PICK f : /\ f \in [0 .. N -> Seq(Nat)] /\ f[0] = <<>>
               /\ \A n \in 1 .. N : f[n] = IF s[n] \in T THEN Append(f[n - 1], s[n]) ELSE f[n - 1]
               /\ k = f[N]
  BY KeptLoop
<1>2. N \in Nat /\ DOMAIN s = 1 .. N /\ \A n \in 1 .. N : s[n] \in Nat
  OBVIOUS
<1> HIDE DEF N
<1> DEFINE P(n) == ToSet(f[n]) = Upto(n) \cap T /\ (Once(s) => Once(f[n]))
           G == {n \in 0 .. N : P(n)}
<1>3. 0 \in G
  <2>1. ToSet(<<>>) = {} /\ Once(<<>>)
    BY DEF ToSet, Once
  <2>2. Upto(0) = {}
    OBVIOUS
  <2> QED
    BY <1>1, <1>2, <2>1, <2>2
<1>4. ASSUME NEW n \in 1 .. N, n - 1 \in G PROVE n \in G
  <2>1. n - 1 \in 0 .. N /\ n \in 0 .. N /\ n \in Nat /\ n \notin 1 .. n - 1
    BY <1>2
  <2>2. f[n - 1] \in Seq(Nat) /\ s[n] \in Nat /\ P(n - 1)
    BY <1>1, <1>2, <1>4, <2>1
  <2>3. Upto(n) = Upto(n - 1) \cup {s[n]}
    <3>1. \A i \in 1 .. n : i \in 1 .. n - 1 \/ i = n
      BY <2>1
    <3>2. n \in 1 .. n /\ \A i \in 1 .. n - 1 : i \in 1 .. n
      BY <2>1
    <3> QED
      BY <3>1, <3>2
  <2>4. Once(s) => s[n] \notin Upto(n - 1)
    <3>1. \A i \in 1 .. n - 1 : i \in DOMAIN s /\ i # n
      BY <1>2, <2>1
    <3>2. n \in DOMAIN s
      BY <1>2
    <3> QED
      BY <3>1, <3>2 DEF Once
  <2> HIDE DEF Upto
  <2>5. CASE s[n] \in T
    <3>1. f[n] = Append(f[n - 1], s[n])
      BY <1>1, <2>5
    <3>2. ToSet(f[n]) = ToSet(f[n - 1]) \cup {s[n]}
      BY <2>2, <3>1, AppendSet
    <3>3. Once(s) => Once(f[n])
      <4> SUFFICES ASSUME Once(s) PROVE Once(f[n])
        OBVIOUS
      <4>1. s[n] \notin ToSet(f[n - 1]) /\ Once(f[n - 1])
        BY <2>2, <2>4
      <4> QED
        BY <2>2, <3>1, <4>1, AppendOnce
    <3> QED
      BY <2>1, <2>2, <2>3, <2>5, <3>2, <3>3
  <2>6. CASE s[n] \notin T
    <3>1. f[n] = f[n - 1]
      BY <1>1, <2>6
    <3> QED
      BY <2>1, <2>2, <2>3, <2>6, <3>1
  <2> QED
    BY <2>5, <2>6
<1>5. \A n \in 0 .. N : n \in G
  <2> HIDE DEF G
  <2> QED
    BY <1>2, <1>3, <1>4, Induction
<1>6. N \in 0 .. N
  BY <1>2
<1>7. P(N)
  BY <1>5, <1>6
<1>8. Upto(N) = ToSet(s)
  BY <1>2 DEF ToSet
<1> HIDE DEF Upto
<1> QED
  BY <1>1, <1>6, <1>7, <1>8

-----------------------------------------------------------------------------
(* What an index entry is: rows and their columns                          *)
LEMMA ColumnValue ==
  ASSUME NEW row \in RowType, NEW c \in Columns
  PROVE  /\ row[c] \in Values(c) \cup {Null} /\ Null \notin Values(c)
         /\ c = "id" => row[c] = row.id /\ row.id \in Values(c) /\ row.id \in Nat
<1>1. Null \notin Texts /\ Null \notin Nat /\ MaxInt \in Nat
  BY TableAssumption
<1>2. row.id \in 1 .. MaxInt /\ row.v \in Texts \cup {Null}
  BY DEF RowType
<1>3. CASE c = "id"
  BY <1>1, <1>2, <1>3 DEF Values
<1>4. CASE c = "v"
  <2>1. Values(c) = Texts /\ c # "id"
    BY <1>4 DEF Values
  <2> QED
    BY <1>1, <1>2, <1>4, <2>1
<1> QED
  BY <1>3, <1>4 DEF Columns

(* A row is never NULL, nor is a row of the heap.                          *)
LEMMA NoNullRow == Null \notin RowType /\ Null \notin Nat
BY TableAssumption

(* The heap with a row more, or a row less                                 *)
Gains(h, h2, rid, row) ==
  /\ rid \in Nat /\ rid \notin Rids(h) /\ Rids(h2) = Rids(h) \cup {rid}
  /\ h2[rid] = row /\ \A i \in Rids(h) : h2[i] = h[i]
Loses(h, h2, rid, row) ==
  /\ rid \in Rids(h) /\ h[rid] = row /\ Rids(h2) = Rids(h) \ {rid}
  /\ \A i \in Rids(h2) : h2[i] = h[i]

(* Changing one list of an index                                           *)
Relisted(c, ix, ix2, x, l, m) ==
  ix2 = [list |-> [ix.list EXCEPT ![x] = l], max |-> m]
(* It changes that list, the maximum, and no other list.                   *)
LEMMA RelistedIs ==
  ASSUME NEW c, NEW ix \in Listing(c), NEW x \in Values(c), NEW l \in Seq(Nat), NEW m \in Nat,
         NEW ix2, Relisted(c, ix, ix2, x, l, m)
  PROVE  /\ ix2 \in Listing(c) /\ ix2.max = m /\ ix2.list[x] = l
         /\ \A y \in Values(c) : y # x => ix2.list[y] = ix.list[y]
BY DEF Listing, Relisted

(* mi_add keeps an index equal to the rows.                                *)
LEMMA AddLists ==
  ASSUME NEW c \in Columns, NEW h, NEW h2, NEW rid, NEW row \in RowType, Gains(h, h2, rid, row),
         NEW ix, Lists(h, c, ix)
  PROVE  Lists(h2, c, mi_add(ix, c, row, rid))
<1> DEFINE x == row[c]
           l == Append(ix.list[x], rid)
           m == IF c = "id" /\ row.id > ix.max THEN row.id ELSE ix.max
           ix2 == mi_add(ix, c, row, rid)
<1>1. /\ x \in Values(c) \cup {Null} /\ Null \notin Values(c)
      /\ c = "id" => x = row.id /\ row.id \in Values(c) /\ row.id \in Nat
  BY ColumnValue
<1>2. /\ rid \in Nat /\ rid \notin Rids(h) /\ Rids(h2) = Rids(h) \cup {rid}
      /\ h2[rid] = row /\ \A i \in Rids(h) : h2[i] = h[i]
  BY DEF Gains
<1>3. ix \in Listing(c) /\ ix.max \in Nat /\ \A y \in Values(c) : ix.list[y] \in Seq(Nat)
  BY DEF Lists, Listing
<1>4. \A y \in Values(c) : /\ ToSet(ix.list[y]) = Holders(h, c, y) /\ Once(ix.list[y])
                           /\ c = "id" /\ ix.list[y] # <<>> => y <= ix.max
  BY DEF Lists
<1>5. \A y : y # x => Holders(h2, c, y) = Holders(h, c, y)
  BY <1>2 DEF Holders
<1>6. Holders(h2, c, x) = Holders(h, c, x) \cup {rid} /\ rid \notin Holders(h, c, x)
  BY <1>2 DEF Holders
<1>7. CASE x = Null
  <2>1. ix2 = ix
    BY <1>7 DEF mi_add
  <2>2. \A y \in Values(c) : y # x
    BY <1>1, <1>7
  <2> HIDE DEF ix2, x
  <2> QED
    BY <1>3, <1>4, <1>5, <2>1, <2>2 DEF Lists, ix2
<1>8. CASE x # Null
  <2>1. Relisted(c, ix, ix2, x, l, m)
    BY <1>8 DEF mi_add, Relisted
  <2>2. x \in Values(c) /\ ix.list[x] \in Seq(Nat) /\ ToSet(ix.list[x]) = Holders(h, c, x) /\ Once(ix.list[x])
    <3> HIDE DEF x
    <3> QED
      BY <1>1, <1>3, <1>4, <1>8
  <2>3. m \in Nat /\ ix.max <= m /\ (c = "id" => x <= m)
    <3> HIDE DEF x
    <3> QED
      BY <1>1, <1>3
  <2> HIDE DEF x, m
  <2>4. l \in Seq(Nat) /\ ToSet(l) = ToSet(ix.list[x]) \cup {rid} /\ Once(l)
    <3>1. l \in Seq(Nat)
      BY <1>2, <2>2, AppendElements
    <3>2. ToSet(l) = ToSet(ix.list[x]) \cup {rid}
      BY <1>2, <2>2, AppendSet
    <3>3. rid \notin ToSet(ix.list[x])
      BY <1>6, <2>2
    <3>4. Once(l)
      BY <1>2, <2>2, <3>3, AppendOnce
    <3> QED
      BY <3>1, <3>2, <3>4
  <2> HIDE DEF l, ix2
  <2>5. /\ ix2 \in Listing(c) /\ ix2.max = m /\ ix2.list[x] = l
        /\ \A y \in Values(c) : y # x => ix2.list[y] = ix.list[y]
    BY <1>3, <2>1, <2>2, <2>3, <2>4, RelistedIs
  <2>6. ASSUME NEW y \in Values(c)
        PROVE  /\ ToSet(ix2.list[y]) = Holders(h2, c, y) /\ Once(ix2.list[y])
               /\ c = "id" /\ ix2.list[y] # <<>> => y <= ix2.max
    <3>1. CASE y = x
      BY <1>6, <2>2, <2>3, <2>4, <2>5, <3>1
    <3>2. CASE y # x
      <4>1. ix2.list[y] = ix.list[y] /\ Holders(h2, c, y) = Holders(h, c, y)
        BY <1>5, <2>5, <3>2
      <4>2. c = "id" => y \in Nat
        BY TableAssumption DEF Values
      <4>3. c = "id" /\ ix2.list[y] # <<>> => y <= ix2.max
        BY <1>3, <1>4, <2>3, <2>5, <4>1, <4>2
      <4> QED
        BY <1>4, <4>1, <4>3
    <3> QED
      BY <3>1, <3>2
  <2> QED
    BY <2>5, <2>6 DEF Lists, ix2
<1> QED
  BY <1>7, <1>8 DEF x, ix2

(* TakeOut removes one row id from a list.                                 *)
LEMMA TakeOutIs ==
  ASSUME NEW l \in Seq(Nat), Once(l), NEW rid, NEW t, t = TakeOut(l, rid)
  PROVE  t \in Seq(Nat) /\ ToSet(t) = ToSet(l) \ {rid} /\ Once(t)
<1>1. CASE rid \notin ToSet(l)
  <2>1. t = l
    BY <1>1 DEF TakeOut
  <2> QED
    BY <1>1, <2>1
<1>2. CASE rid \in ToSet(l)
  <2> DEFINE n == Len(l)
             k == CHOOSE i \in DOMAIN l : l[i] = rid
             m == [l EXCEPT ![k] = Last(l)]
  <2>1. n \in Nat /\ DOMAIN l = 1 .. n
    OBVIOUS
  <2>2. k \in DOMAIN l /\ l[k] = rid
    <3>1. \E i \in DOMAIN l : l[i] = rid
      BY <1>2 DEF ToSet
    <3> QED
      BY <3>1
  <2>3. t = Front(m)
    BY <1>2 DEF TakeOut
  <2> HIDE DEF k
  <2>4. n \in 1 .. n /\ l[n] \in Nat /\ Last(l) = l[n] /\ n - 1 \in Nat /\ n - 1 <= n
    BY <2>1, <2>2 DEF Last
  <2>5. /\ m \in Seq(Nat) /\ Len(m) = n
        /\ \A j \in 1 .. n : m[j] = IF j = k THEN l[n] ELSE l[j]
    <3>1. m \in [1 .. n -> Nat] /\ m = [j \in 1 .. n |-> IF j = k THEN l[n] ELSE l[j]]
      <4>1. l \in [1 .. n -> Nat]
        OBVIOUS
      <4>2. m = [l EXCEPT ![k] = l[n]]
        BY <2>4
      <4> HIDE DEF m, n
      <4> QED
        BY <2>4, <4>1, <4>2
    <3> HIDE DEF m, n
    <3> QED
      BY <2>1, <3>1, SequenceOf
  <2>. n \in Nat /\ DOMAIN l = 1 .. n
    BY <2>1
  <2> HIDE DEF n, m
  <2>6. /\ t \in Seq(Nat) /\ DOMAIN t = 1 .. n - 1
        /\ \A j \in 1 .. n - 1 : t[j] = m[j]
    <3>1. 1 <= n - 1 + 1 /\ (n - 1) + 1 - 1 = n - 1 /\ \A j \in 1 .. n - 1 : 1 + j - 1 = j
      BY <2>4
    <3>2. t = SubSeq(m, 1, n - 1)
      BY <2>3, <2>5 DEF Front
    <3> DEFINE p == n - 1
    <3>3. p \in Nat /\ p <= Len(m) /\ 1 <= p + 1
      BY <2>4, <2>5, <3>1
    <3> HIDE DEF p
    <3>4. /\ SubSeq(m, 1, p) \in Seq(Nat) /\ DOMAIN SubSeq(m, 1, p) = 1 .. p + 1 - 1
          /\ \A j \in 1 .. p + 1 - 1 : SubSeq(m, 1, p)[j] = m[1 + j - 1]
      BY <2>5, <3>3, SubSeqElements
    <3> QED
      BY <3>1, <3>2, <3>4 DEF p
  <2>7. \A j \in 1 .. n - 1 : j \in 1 .. n /\ j # n /\ t[j] = IF j = k THEN l[n] ELSE l[j]
    <3> SUFFICES ASSUME NEW j \in 1 .. n - 1
                 PROVE  j \in 1 .. n /\ j # n /\ t[j] = IF j = k THEN l[n] ELSE l[j]
      OBVIOUS
    <3>1. j \in 1 .. n /\ j # n
      BY <2>1, <2>4
    <3>2. t[j] = m[j]
      BY <2>6
    <3> QED
      BY <2>5, <3>1, <3>2
  <2>8. \A i, j \in 1 .. n : l[i] = l[j] => i = j
    BY <2>1 DEF Once
  <2>9. Once(t)
    <3> SUFFICES ASSUME NEW i \in 1 .. n - 1, NEW j \in 1 .. n - 1, t[i] = t[j] PROVE i = j
      BY <2>6 DEF Once
    <3> QED
      BY <2>4, <2>7, <2>8
  <2>10. ASSUME NEW j \in 1 .. n - 1 PROVE t[j] \in ToSet(l) /\ t[j] # rid
    BY <2>1, <2>2, <2>4, <2>7, <2>8 DEF ToSet
  <2>11. ASSUME NEW i \in 1 .. n, l[i] # rid PROVE \E j \in 1 .. n - 1 : t[j] = l[i]
    <3>1. CASE i = n
      <4>1. k # n /\ k \in 1 .. n - 1
        BY <2>1, <2>2, <2>11, <3>1
      <4> QED
        BY <2>7, <3>1, <4>1
    <3>2. CASE i # n
      <4>1. i \in 1 .. n - 1 /\ i # k
        BY <2>1, <2>2, <2>11, <3>2
      <4> QED
        BY <2>7, <4>1
    <3> QED
      BY <3>1, <3>2
  <2>12. ToSet(t) = ToSet(l) \ {rid}
    <3>1. \A e \in ToSet(t) : e \in ToSet(l) /\ e # rid
      BY <2>6, <2>10 DEF ToSet
    <3>2. ASSUME NEW e \in ToSet(l), e # rid PROVE e \in ToSet(t)
      <4>1. PICK i \in 1 .. n : l[i] = e
        BY <2>1 DEF ToSet
      <4>2. PICK j \in 1 .. n - 1 : t[j] = l[i]
        BY <2>11, <3>2, <4>1
      <4> QED
        BY <2>6, <4>1, <4>2 DEF ToSet
    <3> QED
      BY <3>1, <3>2
  <2> QED
    BY <2>6, <2>9, <2>12
<1> QED
  BY <1>1, <1>2

(* mi_remove keeps an index equal to the rows.                             *)
LEMMA RemoveLists ==
  ASSUME NEW c \in Columns, NEW h, NEW h2, NEW rid, NEW row \in RowType, Loses(h, h2, rid, row),
         NEW ix, Lists(h, c, ix)
  PROVE  Lists(h2, c, mi_remove(ix, c, row, rid))
<1> DEFINE x == row[c]
           l == TakeOut(ix.list[x], rid)
           ix2 == mi_remove(ix, c, row, rid)
<1>1. x \in Values(c) \cup {Null} /\ Null \notin Values(c)
  BY ColumnValue
<1>2. /\ rid \in Rids(h) /\ h[rid] = row /\ Rids(h2) = Rids(h) \ {rid}
      /\ \A i \in Rids(h2) : h2[i] = h[i]
  BY DEF Loses
<1>3. /\ ix \in Listing(c) /\ ix.max \in Nat /\ \A y \in Values(c) : ix.list[y] \in Seq(Nat)
      /\ ix = [list |-> ix.list, max |-> ix.max]
  BY DEF Lists, Listing
<1>4. \A y \in Values(c) : /\ ToSet(ix.list[y]) = Holders(h, c, y) /\ Once(ix.list[y])
                           /\ c = "id" /\ ix.list[y] # <<>> => y <= ix.max
  BY DEF Lists
<1>5. \A y : y # x => Holders(h2, c, y) = Holders(h, c, y)
  BY <1>2 DEF Holders
<1>6. Holders(h2, c, x) = Holders(h, c, x) \ {rid} /\ rid \in Holders(h, c, x)
  BY <1>2 DEF Holders
<1>7. CASE x = Null
  <2>1. ix2 = ix
    BY <1>7 DEF mi_remove
  <2>2. \A y \in Values(c) : y # x
    BY <1>1, <1>7
  <2> HIDE DEF ix2, x
  <2> QED
    BY <1>3, <1>4, <1>5, <2>1, <2>2 DEF Lists, ix2
<1>8. CASE x # Null
  <2>1. Relisted(c, ix, ix2, x, l, ix.max)
    <3>1. ix2 = [ix EXCEPT !.list = [ix.list EXCEPT ![x] = l]]
      BY <1>8 DEF mi_remove
    <3> HIDE DEF l, x, ix2
    <3> QED
      BY <1>3, <3>1 DEF Relisted, Listing
  <2>2. x \in Values(c) /\ ix.list[x] \in Seq(Nat) /\ ToSet(ix.list[x]) = Holders(h, c, x) /\ Once(ix.list[x])
    <3> HIDE DEF x
    <3> QED
      BY <1>1, <1>3, <1>4, <1>8
  <2> HIDE DEF x
  <2>3. l \in Seq(Nat) /\ ToSet(l) = ToSet(ix.list[x]) \ {rid} /\ Once(l)
    BY <2>2, TakeOutIs
  <2> HIDE DEF l, ix2
  <2>4. /\ ix2 \in Listing(c) /\ ix2.max = ix.max /\ ix2.list[x] = l
        /\ \A y \in Values(c) : y # x => ix2.list[y] = ix.list[y]
    BY <1>3, <2>1, <2>2, <2>3, RelistedIs
  <2>5. l # <<>> => ix.list[x] # <<>>
    <3>1. CASE ix.list[x] = <<>>
      <4>1. ToSet(l) = {}
        BY <2>3, <3>1 DEF ToSet
      <4>2. l = <<>>
        BY <2>3, <4>1 DEF ToSet
      <4> QED
        BY <4>2
    <3> QED
      BY <3>1
  <2>6. ASSUME NEW y \in Values(c)
        PROVE  /\ ToSet(ix2.list[y]) = Holders(h2, c, y) /\ Once(ix2.list[y])
               /\ c = "id" /\ ix2.list[y] # <<>> => y <= ix2.max
    <3>1. CASE y = x
      BY <1>4, <1>6, <2>2, <2>3, <2>4, <2>5, <3>1
    <3>2. CASE y # x
      <4>1. ix2.list[y] = ix.list[y] /\ Holders(h2, c, y) = Holders(h, c, y)
        BY <1>5, <2>4, <3>2
      <4> QED
        BY <1>4, <2>4, <4>1
    <3> QED
      BY <3>1, <3>2
  <2> QED
    BY <2>4, <2>6 DEF Lists, ix2
<1> QED
  BY <1>7, <1>8 DEF x, ix2

(* mi_add gives an index.                                                  *)
LEMMA AddTyped ==
  ASSUME NEW c \in Columns, NEW rid \in Nat, NEW row \in RowType, NEW ix \in Listing(c)
  PROVE  mi_add(ix, c, row, rid) \in Listing(c)
<1> DEFINE x == row[c]
           l == Append(ix.list[x], rid)
           m == IF c = "id" /\ row.id > ix.max THEN row.id ELSE ix.max
           ix2 == mi_add(ix, c, row, rid)
<1>1. /\ x \in Values(c) \cup {Null} /\ (c = "id" => row.id \in Nat)
  BY ColumnValue
<1>2. CASE x = Null
  BY <1>2 DEF mi_add
<1>3. CASE x # Null
  <2>1. Relisted(c, ix, ix2, x, l, m)
    BY <1>3 DEF mi_add, Relisted
  <2>2. x \in Values(c)
    BY <1>1, <1>3
  <2> HIDE DEF x
  <2>3. ix.list[x] \in Seq(Nat) /\ ix.max \in Nat
    BY <2>2 DEF Listing
  <2>4. l \in Seq(Nat) /\ m \in Nat
    BY <1>1, <2>3, AppendElements
  <2> HIDE DEF l, m, ix2
  <2>5. ix2 \in Listing(c)
    BY <2>1, <2>2, <2>4, RelistedIs
  <2> QED
    BY <2>5 DEF ix2
<1> QED
  BY <1>2, <1>3

(* Build adds the rows of the heap one by one.                             *)
LEMMA BuildLoop ==
  ASSUME NEW c \in Columns, heap \in Seq(Slot)
  PROVE  \E f : /\ f \in [0 .. Len(heap) -> Listing(c)] /\ f[0] = EmptyIndex(c)
                /\ \A i \in 1 .. Len(heap) :
                     f[i] = IF heap[i] = Null THEN f[i - 1] ELSE mi_add(f[i - 1], c, heap[i], i)
                /\ Build(c) = f[Len(heap)]
<1> DEFINE N    == Len(heap)
           S    == Listing(c)
           base == EmptyIndex(c)
           step == [x \in (1 .. N) \X S |-> IF heap[x[1]] = Null THEN x[2] ELSE mi_add(x[2], c, heap[x[1]], x[1])]
           Is(f) == f = [i \in 0 .. N |-> IF i = 0 THEN base ELSE IF heap[i] = Null THEN f[i - 1]
                                          ELSE mi_add(f[i - 1], c, heap[i], i)]
           look  == CHOOSE f : Is(f)
<1>1. N \in Nat /\ DOMAIN heap = 1 .. N /\ \A i \in 1 .. N : i \in Nat /\ heap[i] \in RowType \cup {Null}
  BY Elements DEF Slot
<1>2. base \in S
  <2>1. <<>> \in Seq(Nat) /\ 0 \in Nat
    OBVIOUS
  <2> QED
    BY <2>1 DEF EmptyIndex, Listing
<1>3. step \in [(1 .. N) \X S -> S]
  <2>1. ASSUME NEW x \in (1 .. N) \X S
        PROVE (IF heap[x[1]] = Null THEN x[2] ELSE mi_add(x[2], c, heap[x[1]], x[1])) \in S
    <3>1. x[1] \in 1 .. N /\ x[2] \in S
      OBVIOUS
    <3>2. heap[x[1]] # Null => mi_add(x[2], c, heap[x[1]], x[1]) \in S
      BY <1>1, <3>1, AddTyped
    <3> QED
      BY <3>1, <3>2
  <2> HIDE DEF N, S
  <2> QED
    BY <2>1
<1>4. PICK f : Iterates(f, S, base, N, step)
  <2> HIDE DEF N, S, base, step
  <2> QED
    BY <1>1, <1>2, <1>3, Iteration
<1>5. f \in [0 .. N -> S] /\ f[0] = base
  BY <1>4 DEF Iterates
<1>6. \A i \in 1 .. N : f[i] = IF heap[i] = Null THEN f[i - 1] ELSE mi_add(f[i - 1], c, heap[i], i)
  <2> SUFFICES ASSUME NEW i \in 1 .. N
               PROVE f[i] = IF heap[i] = Null THEN f[i - 1] ELSE mi_add(f[i - 1], c, heap[i], i)
    OBVIOUS
  <2>1. f[i] = step[<<i, f[i - 1]>>]
    BY <1>4 DEF Iterates
  <2>2. i - 1 \in 0 .. N
    BY <1>1
  <2> HIDE DEF N, S
  <2>3. <<i, f[i - 1]>> \in (1 .. N) \X S
    BY <1>5, <2>2
  <2> QED
    BY <2>1, <2>3
<1>7. Is(f)
  <2>1. f = [n \in 0 .. N |-> f[n]] /\ \A n \in 0 .. N : n # 0 => n \in 1 .. N
    BY <1>1, <1>5
  <2> HIDE DEF N, step, base, S
  <2> QED
    BY <1>5, <1>6, <2>1
<1>8. Is(look)
  <2> HIDE DEF Is
  <2> QED
    BY <1>7
<1>9. Build(c) = look[N]
  BY DEF Build
<1>10. look = f
  <2>1. LoopOver(f, N) /\ LoopOver(look, N) /\ 0 \in 0 .. N
    <3>1. 0 \in 0 .. N
      BY <1>1
    <3> HIDE DEF look, N, base, S
    <3> QED
      BY <1>5, <1>8, <3>1 DEF LoopOver
  <2> HIDE DEF look, N, base, S
  <2>2. look[0] = f[0]
    BY <1>5, <1>8, <2>1
  <2>3. ASSUME NEW n \in 1 .. N, look[n - 1] = f[n - 1] PROVE look[n] = f[n]
    <3>1. n \in 0 .. N /\ n # 0
      BY <1>1
    <3> QED
      BY <1>6, <1>8, <2>3, <3>1
  <2> QED
    BY <1>1, <2>1, <2>2, <2>3, SameLoop
<1> HIDE DEF look
<1> QED
  BY <1>5, <1>6, <1>9, <1>10

(* ... and the result equals the rows.                                     *)
LEMMA BuildLists ==
  ASSUME NEW c \in Columns, heap \in Seq(Slot)
  PROVE  Lists(heap, c, Build(c))
<1> DEFINE N == Len(heap)
           Part(n) == [i \in 1 .. n |-> heap[i]]
<1>1. PICK f : /\ f \in [0 .. N -> Listing(c)] /\ f[0] = EmptyIndex(c)
               /\ \A i \in 1 .. N : f[i] = IF heap[i] = Null THEN f[i - 1] ELSE mi_add(f[i - 1], c, heap[i], i)
               /\ Build(c) = f[N]
  BY BuildLoop
<1>2. N \in Nat /\ DOMAIN heap = 1 .. N /\ \A i \in 1 .. N : i \in Nat /\ heap[i] \in RowType \cup {Null}
  BY Elements DEF Slot
<1> HIDE DEF N
<1> DEFINE G == {n \in 0 .. N : Lists(Part(n), c, f[n])}
<1>3. 0 \in G
  <2>1. Lists(Part(0), c, EmptyIndex(c))
    <3>1. Rids(Part(0)) = {}
      BY DEF Rids
    <3>2. ToSet(<<>>) = {} /\ Once(<<>>) /\ <<>> \in Seq(Nat) /\ 0 \in Nat
      BY DEF ToSet, Once
    <3>3. \A x \in Values(c) : EmptyIndex(c).list[x] = <<>> /\ Holders(Part(0), c, x) = {}
      BY <3>1 DEF EmptyIndex, Holders
    <3>4. EmptyIndex(c) \in Listing(c)
      BY <3>2 DEF EmptyIndex, Listing
    <3> HIDE DEF Part
    <3> QED
      BY <3>2, <3>3, <3>4 DEF Lists
  <2>2. 0 \in 0 .. N
    BY <1>2
  <2> HIDE DEF Part
  <2> QED
    BY <1>1, <2>1, <2>2
<1>4. ASSUME NEW n \in 1 .. N, n - 1 \in G PROVE n \in G
  <2>1. n \in 0 .. N /\ n - 1 \in 0 .. N /\ n \in Nat
    BY <1>2
  <2>2. \A i \in 1 .. n : i \in 1 .. n - 1 \/ i = n
    BY <2>1
  <2>3. n \in 1 .. n /\ n \notin 1 .. n - 1 /\ \A i \in 1 .. n - 1 : i \in 1 .. n
    BY <2>1
  <2>4. /\ DOMAIN Part(n) = 1 .. n /\ DOMAIN Part(n - 1) = 1 .. n - 1
        /\ \A i \in 1 .. n : Part(n)[i] = heap[i]
        /\ \A i \in 1 .. n - 1 : Part(n - 1)[i] = heap[i]
    OBVIOUS
  <2> HIDE DEF Part
  <2>5. Lists(Part(n - 1), c, f[n - 1])
    BY <1>4
  <2>6. CASE heap[n] = Null
    <3>1. Rids(Part(n)) = Rids(Part(n - 1))
      BY <2>2, <2>3, <2>4, <2>6 DEF Rids
    <3>2. \A i \in Rids(Part(n)) : Part(n)[i] = Part(n - 1)[i]
      BY <2>3, <2>4, <3>1 DEF Rids
    <3>3. \A x : Holders(Part(n), c, x) = Holders(Part(n - 1), c, x)
      BY <3>1, <3>2 DEF Holders
    <3>4. f[n] = f[n - 1]
      BY <1>1, <2>6
    <3> QED
      BY <2>1, <2>5, <3>3, <3>4 DEF Lists
  <2>7. CASE heap[n] # Null
    <3>1. Gains(Part(n - 1), Part(n), n, heap[n])
      <4>1. Rids(Part(n)) = Rids(Part(n - 1)) \cup {n} /\ n \notin Rids(Part(n - 1))
        BY <2>2, <2>3, <2>4, <2>7 DEF Rids
      <4>2. \A i \in Rids(Part(n - 1)) : Part(n)[i] = Part(n - 1)[i]
        BY <2>3, <2>4 DEF Rids
      <4> QED
        BY <2>1, <2>3, <2>4, <4>1, <4>2 DEF Gains
    <3>2. heap[n] \in RowType
      BY <1>2, <2>7
    <3>3. Lists(Part(n), c, mi_add(f[n - 1], c, heap[n], n))
      BY <2>5, <3>1, <3>2, AddLists
    <3>4. f[n] = mi_add(f[n - 1], c, heap[n], n)
      BY <1>1, <2>7
    <3> QED
      BY <2>1, <3>3, <3>4
  <2> QED
    BY <2>6, <2>7
<1>5. \A n \in 0 .. N : n \in G
  <2> HIDE DEF G
  <2> QED
    BY <1>2, <1>3, <1>4, Induction
<1>6. N \in 0 .. N
  BY <1>2
<1>7. Lists(Part(N), c, f[N])
  <2> HIDE DEF Part
  <2> QED
    BY <1>5, <1>6
<1>8. Rids(Part(N)) = Rids(heap) /\ \A i \in Rids(heap) : Part(N)[i] = heap[i]
  BY <1>2 DEF Rids
<1> HIDE DEF Part
<1>9. \A x : Holders(Part(N), c, x) = Holders(heap, c, x)
  BY <1>8 DEF Holders
<1> QED
  BY <1>1, <1>7, <1>9 DEF Lists

(* An index that is asked for equals the rows, whether it was there or is  *)
(* built now.                                                              *)
LEMMA GetLists ==
  ASSUME heap \in Seq(Slot), Indexed(heap, index), NEW c \in Columns
  PROVE  Lists(heap, c, mi_get(c))
<1>1. Lists(heap, c, Build(c))
  BY BuildLists
<1>2. index[c] # Null => Lists(heap, c, index[c])
  BY DEF Indexed
<1> QED
  BY <1>1, <1>2 DEF mi_get

(* ... and the others stay.                                                *)
LEMMA GotIndexed ==
  ASSUME heap \in Seq(Slot), Indexed(heap, index), NEW cols
  PROVE  Indexed(heap, Got(cols)) /\ Got(cols) = [c \in Columns |-> Got(cols)[c]]
<1>1. ASSUME NEW c \in Columns, Got(cols)[c] # Null PROVE Lists(heap, c, Got(cols)[c])
  <2>1. Got(cols)[c] = IF c \in cols THEN mi_get(c) ELSE index[c]
    BY DEF Got
  <2>2. Lists(heap, c, mi_get(c))
    BY GetLists
  <2>3. index[c] # Null => Lists(heap, c, index[c])
    BY DEF Indexed
  <2> QED
    BY <1>1, <2>1, <2>2, <2>3
<1>2. Indexed(heap, Got(cols))
  BY <1>1 DEF Indexed
<1> QED
  BY <1>2 DEF Got

(* select_matches finds the rows of the condition, each once, by the index *)
(* or by a scan.                                                           *)
LEMMA SelectMatches ==
  ASSUME heap \in Seq(Slot), Indexed(heap, index), NEW w \in Wheres
  PROVE  /\ select_matches(w) \in Seq(Nat) /\ Once(select_matches(w))
         /\ ToSet(select_matches(w)) = {i \in Rids(heap) : R!Matches(w, heap[i])}
<1> DEFINE src == IF UsesIndex(w) THEN mi_get(w.col).list[w.val] ELSE [i \in DOMAIN heap |-> i]
           all == Rids(heap)
           hits == {i \in Rids(heap) : R!Matches(w, heap[i])}
           k == Kept(src, all)
           m == Kept(k, hits)
<1>1. src \in Seq(Nat) /\ Once(src) /\ hits \subseteq ToSet(src)
  <2>1. CASE UsesIndex(w)
    <3>1. w.col \in Columns /\ w.val # Null /\ w.val \in Values(w.col)
      BY <2>1, TableAssumption DEF UsesIndex, Columns, Values
    <3>2. Lists(heap, w.col, mi_get(w.col))
      BY <3>1, GetLists
    <3>3. mi_get(w.col).list[w.val] \in Seq(Nat)
      BY <3>1, <3>2 DEF Lists, Listing
    <3>4. ToSet(mi_get(w.col).list[w.val]) = Holders(heap, w.col, w.val) /\ Once(mi_get(w.col).list[w.val])
      BY <3>1, <3>2 DEF Lists
    <3>5. ASSUME NEW i \in hits PROVE i \in Holders(heap, w.col, w.val)
      <4>1. w.col # "all"
        BY <3>1 DEF Columns
      <4> QED
        BY <3>5, <4>1 DEF Holders, R!Matches
    <3> HIDE DEF hits
    <3> QED
      BY <2>1, <3>3, <3>4, <3>5
  <2>2. CASE ~UsesIndex(w)
    <3> DEFINE t == [i \in DOMAIN heap |-> i]
    <3>1. Len(heap) \in Nat /\ DOMAIN heap = 1 .. Len(heap)
      OBVIOUS
    <3>2. t \in [1 .. Len(heap) -> Nat]
      BY <3>1
    <3>3. \A i \in DOMAIN heap : i \in DOMAIN t /\ t[i] = i
      OBVIOUS
    <3>4. t \in Seq(Nat) /\ DOMAIN t = DOMAIN heap
      <4> HIDE DEF t
      <4> QED
        BY <3>1, <3>2, SequenceOf
    <3>5. src = t
      BY <2>2
    <3> HIDE DEF t, src
    <3>6. Once(t)
      BY <3>3, <3>4 DEF Once
    <3>7. hits \subseteq ToSet(t)
      BY <3>3 DEF Rids, ToSet
    <3> QED
      BY <3>4, <3>5, <3>6, <3>7
  <2> QED
    BY <2>1, <2>2
<1> HIDE DEF src
<1>2. k \in Seq(Nat) /\ ToSet(k) = ToSet(src) \cap all /\ Once(k)
  BY <1>1, KeptIs
<1>3. hits \subseteq all
  OBVIOUS
<1> HIDE DEF k, all, hits
<1>4. m \in Seq(Nat) /\ ToSet(m) = ToSet(k) \cap hits /\ Once(m)
  BY <1>2, KeptIs
<1>5. select_matches(w) = m
  BY DEF select_matches, source_load, src, k, all, hits
<1>6. ToSet(m) = hits
  BY <1>1, <1>2, <1>3, <1>4
<1> HIDE DEF m
<1> QED
  BY <1>4, <1>5, <1>6 DEF hits

-----------------------------------------------------------------------------
(* The rows of an INSERT                                                   *)
Numbered == [id : Nat, v : Texts \cup {Null}]
Verdicts == [ok : BOOLEAN, next : Nat, rows : Seq(Numbered)]

(* One row more: it has an id, and if it passes no row before has it.      *)
RowPasses(ix, acc, acc2) ==
  /\ acc.ok
  /\ \E row \in Numbered :
       /\ acc2.rows = Append(acc.rows, row)
       /\ row.id <= MaxInt /\ row.id >= 1
       /\ ix.list[row.id] = <<>>
       /\ \A i \in DOMAIN acc.rows : acc.rows[i].id # row.id
(* CheckRow does it.                                                       *)
LEMMA CheckRowIs ==
  ASSUME NEW ix \in Listing("id"), NEW acc \in Verdicts, NEW row \in Asked
  PROVE  /\ CheckRow(ix, acc, row) \in Verdicts
         /\ CheckRow(ix, acc, row).ok => RowPasses(ix, acc, CheckRow(ix, acc, row))
<1> DEFINE id == IF row.id = Null THEN acc.next + 1 ELSE row.id
           new == [row EXCEPT !.id = id]
           ok == acc.ok /\ id <= MaxInt /\ ~Taken(ix, acc, id)
           next == IF id > acc.next THEN id ELSE acc.next
           rows == Append(acc.rows, new)
           acc2 == CheckRow(ix, acc, row)
<1>1. /\ row.id \in 1 .. MaxInt \cup {Null} /\ row.v \in Texts \cup {Null}
      /\ row = [id |-> row.id, v |-> row.v]
  BY DEF Asked
<1>2. acc.ok \in BOOLEAN /\ acc.next \in Nat /\ acc.rows \in Seq(Numbered)
  BY DEF Verdicts
<1>3. id \in Nat /\ id >= 1
  BY <1>1, <1>2, TableAssumption
<1>4. acc2 = [ok |-> ok, next |-> next, rows |-> rows]
  BY DEF CheckRow
<1> HIDE DEF id
<1>5. new \in Numbered /\ new.id = id
  BY <1>1, <1>3 DEF Numbered, Asked
<1> HIDE DEF new
<1>6. rows \in Seq(Numbered)
  BY <1>2, <1>5, AppendElements
<1>7. next \in Nat
  BY <1>2, <1>3
<1>8. ok \in BOOLEAN
  OBVIOUS
<1>9. ok => RowPasses(ix, acc, acc2)
  <2> SUFFICES ASSUME ok PROVE RowPasses(ix, acc, acc2)
    OBVIOUS
  <2>1. acc.ok /\ id <= MaxInt /\ ix.list[id] = <<>> /\ \A i \in DOMAIN acc.rows : acc.rows[i].id # id
    BY DEF Taken
  <2>2. acc2.rows = Append(acc.rows, new)
    BY <1>4
  <2> HIDE DEF acc2
  <2> QED
    BY <1>3, <1>5, <2>1, <2>2 DEF RowPasses
<1> HIDE DEF ok, next, rows
<1>10. acc2 \in Verdicts /\ acc2.ok = ok
  <2> HIDE DEF acc2
  <2> QED
    BY <1>4, <1>6, <1>7, <1>8 DEF Verdicts
<1> HIDE DEF acc2
<1>11. acc2.ok => RowPasses(ix, acc, acc2)
  BY <1>9, <1>10
<1> QED
  BY <1>10, <1>11 DEF acc2

(* Checked takes the rows one after the other.                             *)
LEMMA CheckedLoop ==
  ASSUME NEW ix \in Listing("id"), NEW batch \in Seq(Asked)
  PROVE  \E f : /\ f \in [0 .. Len(batch) -> Verdicts]
                /\ f[0] = [ok |-> TRUE, next |-> ix.max, rows |-> <<>>]
                /\ \A n \in 1 .. Len(batch) : f[n] = CheckRow(ix, f[n - 1], batch[n])
                /\ Checked(ix, batch) = f[Len(batch)]
<1> DEFINE N    == Len(batch)
           S    == Verdicts
           base == [ok |-> TRUE, next |-> ix.max, rows |-> <<>>]
           step == [x \in (1 .. N) \X S |-> CheckRow(ix, x[2], batch[x[1]])]
           Is(f) == f = [n \in 0 .. N |-> IF n = 0 THEN base ELSE CheckRow(ix, f[n - 1], batch[n])]
           look  == CHOOSE f : Is(f)
<1>1. N \in Nat /\ DOMAIN batch = 1 .. N /\ \A n \in 1 .. N : n \in Nat /\ batch[n] \in Asked
  BY Elements
<1>2. base \in S
  <2>1. <<>> \in Seq(Numbered) /\ ix.max \in Nat
    BY DEF Listing
  <2> QED
    BY <2>1 DEF Verdicts
<1>3. step \in [(1 .. N) \X S -> S]
  <2>1. ASSUME NEW x \in (1 .. N) \X S PROVE CheckRow(ix, x[2], batch[x[1]]) \in S
    <3>1. x[1] \in 1 .. N /\ x[2] \in Verdicts
      OBVIOUS
    <3> QED
      BY <1>1, <3>1, CheckRowIs
  <2> HIDE DEF N, S
  <2> QED
    BY <2>1
<1>4. PICK f : Iterates(f, S, base, N, step)
  <2> HIDE DEF N, S, base, step
  <2> QED
    BY <1>1, <1>2, <1>3, Iteration
<1>5. f \in [0 .. N -> S] /\ f[0] = base
  BY <1>4 DEF Iterates
<1>6. \A n \in 1 .. N : f[n] = CheckRow(ix, f[n - 1], batch[n])
  <2> SUFFICES ASSUME NEW n \in 1 .. N PROVE f[n] = CheckRow(ix, f[n - 1], batch[n])
    OBVIOUS
  <2>1. f[n] = step[<<n, f[n - 1]>>]
    BY <1>4 DEF Iterates
  <2>2. n - 1 \in 0 .. N
    BY <1>1
  <2> HIDE DEF N, S
  <2>3. <<n, f[n - 1]>> \in (1 .. N) \X S
    BY <1>5, <2>2
  <2> QED
    BY <2>1, <2>3
<1>7. Is(f)
  <2>1. f = [n \in 0 .. N |-> f[n]] /\ \A n \in 0 .. N : n # 0 => n \in 1 .. N
    BY <1>1, <1>5
  <2> HIDE DEF N, step, base, S
  <2> QED
    BY <1>5, <1>6, <2>1
<1>8. Is(look)
  <2> HIDE DEF Is
  <2> QED
    BY <1>7
<1>9. Checked(ix, batch) = look[N]
  BY DEF Checked
<1>10. look = f
  <2>1. LoopOver(f, N) /\ LoopOver(look, N) /\ 0 \in 0 .. N
    <3>1. 0 \in 0 .. N
      BY <1>1
    <3> HIDE DEF look, N, base, S
    <3> QED
      BY <1>5, <1>8, <3>1 DEF LoopOver
  <2> HIDE DEF look, N, base, S
  <2>2. look[0] = f[0]
    BY <1>5, <1>8, <2>1
  <2>3. ASSUME NEW n \in 1 .. N, look[n - 1] = f[n - 1] PROVE look[n] = f[n]
    <3>1. n \in 0 .. N /\ n # 0
      BY <1>1
    <3> QED
      BY <1>6, <1>8, <2>3, <3>1
  <2> QED
    BY <1>1, <2>1, <2>2, <2>3, SameLoop
<1> HIDE DEF look
<1> QED
  BY <1>5, <1>6, <1>9, <1>10

(* The rows that pass have ids of their own.                               *)
Fresh(h, rows) ==
  /\ \A i \in DOMAIN rows : rows[i] \in RowType
  /\ \A i, j \in DOMAIN rows : rows[i].id = rows[j].id => i = j
  /\ \A k \in Rids(h), i \in DOMAIN rows : h[k].id # rows[i].id
(* A row with a new id may be added to such rows.                          *)
LEMMA FreshMore ==
  ASSUME NEW h, NEW rows \in Seq(Numbered), Fresh(h, rows),
         NEW row \in RowType, row \in Numbered, \A i \in DOMAIN rows : rows[i].id # row.id,
         \A k \in Rids(h) : h[k].id # row.id
  PROVE  Fresh(h, Append(rows, row))
<1> DEFINE t == Append(rows, row)
           n == Len(rows)
<1>1. /\ n \in Nat /\ DOMAIN rows = 1 .. n /\ DOMAIN t = 1 .. n + 1
      /\ \A i \in DOMAIN rows : t[i] = rows[i]
      /\ t[n + 1] = row
  BY AppendElements
<1> HIDE DEF t, n
<1>2. \A i \in 1 .. n + 1 : i \in 1 .. n \/ i = n + 1
  BY <1>1
<1>3. /\ \A i \in DOMAIN rows : rows[i] \in RowType
      /\ \A i, j \in DOMAIN rows : rows[i].id = rows[j].id => i = j
      /\ \A k \in Rids(h), i \in DOMAIN rows : h[k].id # rows[i].id
  BY DEF Fresh
<1>4. Fresh(h, t)
  BY <1>1, <1>2, <1>3 DEF Fresh
<1> QED
  BY <1>4 DEF t

(* An id that the index does not list is that of no row.                   *)
LEMMA NotListed ==
  ASSUME NEW h, NEW ix, Lists(h, "id", ix), NEW k \in 1 .. MaxInt, ix.list[k] = <<>>
  PROVE  \A i \in Rids(h) : h[i].id # k
<1>1. "id" \in Columns /\ k \in Values("id") /\ \A i \in Rids(h) : h[i]["id"] = h[i].id
  BY DEF Columns, Values
<1>2. ToSet(ix.list[k]) = {}
  BY DEF ToSet
<1>3. Holders(h, "id", k) = {}
  BY <1>1, <1>2 DEF Lists
<1> QED
  BY <1>1, <1>3 DEF Holders

(* An INSERT that is not refused writes rows with ids that no row has.     *)
LEMMA CheckedIs ==
  ASSUME NEW h, NEW ix, Lists(h, "id", ix), NEW batch \in Seq(Asked)
  PROVE  /\ Checked(ix, batch) \in Verdicts
         /\ Checked(ix, batch).ok => Fresh(h, Checked(ix, batch).rows)
<1> DEFINE N == Len(batch)
<1>1. ix \in Listing("id")
  BY DEF Lists
<1>2. PICK f : /\ f \in [0 .. N -> Verdicts]
               /\ f[0] = [ok |-> TRUE, next |-> ix.max, rows |-> <<>>]
               /\ \A n \in 1 .. N : f[n] = CheckRow(ix, f[n - 1], batch[n])
               /\ Checked(ix, batch) = f[N]
  BY <1>1, CheckedLoop
<1>3. N \in Nat /\ \A n \in 1 .. N : batch[n] \in Asked
  BY Elements
<1> HIDE DEF N
<1> DEFINE G == {n \in 0 .. N : f[n].ok => Fresh(h, f[n].rows)}
<1>4. 0 \in G
  <2>1. Fresh(h, <<>>)
    BY DEF Fresh
  <2>2. 0 \in 0 .. N /\ f[0].rows = <<>>
    BY <1>2, <1>3
  <2> QED
    BY <2>1, <2>2
<1>5. ASSUME NEW n \in 1 .. N, n - 1 \in G PROVE n \in G
  <2>1. n \in 0 .. N /\ n - 1 \in 0 .. N /\ batch[n] \in Asked
    BY <1>3
  <2>2. f[n - 1] \in Verdicts /\ f[n] = CheckRow(ix, f[n - 1], batch[n])
    BY <1>2, <2>1
  <2>3. f[n].ok => RowPasses(ix, f[n - 1], f[n])
    BY <1>1, <2>1, <2>2, CheckRowIs
  <2> SUFFICES ASSUME f[n].ok PROVE Fresh(h, f[n].rows)
    BY <2>1
  <2>4. PICK row \in Numbered :
          /\ f[n].rows = Append(f[n - 1].rows, row)
          /\ row.id <= MaxInt /\ row.id >= 1
          /\ ix.list[row.id] = <<>>
          /\ \A i \in DOMAIN f[n - 1].rows : f[n - 1].rows[i].id # row.id
    BY <2>3 DEF RowPasses
  <2>5. Fresh(h, f[n - 1].rows)
    BY <1>5, <2>3 DEF RowPasses
  <2>6. f[n - 1].rows \in Seq(Numbered)
    BY <2>2 DEF Verdicts
  <2>7. row.id \in 1 .. MaxInt /\ row \in RowType
    BY <2>4, TableAssumption DEF Numbered, RowType
  <2>8. \A i \in Rids(h) : h[i].id # row.id
    BY <2>4, <2>7, NotListed
  <2>9. Fresh(h, Append(f[n - 1].rows, row))
    BY <2>4, <2>5, <2>6, <2>7, <2>8, FreshMore
  <2> QED
    BY <2>4, <2>9
<1>6. \A n \in 0 .. N : n \in G
  <2> HIDE DEF G
  <2> QED
    BY <1>3, <1>4, <1>5, Induction
<1>7. N \in 0 .. N
  BY <1>3
<1>8. f[N] \in Verdicts /\ (f[N].ok => Fresh(h, f[N].rows))
  BY <1>2, <1>6, <1>7
<1> QED
  BY <1>2, <1>8

-----------------------------------------------------------------------------
(* Changes of the heap                                                     *)
LEMMA HeapAppend ==
  ASSUME NEW h \in Seq(Slot), NEW row \in RowType, NEW h2, h2 = Append(h, row)
  PROVE  /\ h2 \in Seq(Slot) /\ DOMAIN h \subseteq DOMAIN h2
         /\ Gains(h, h2, Len(h) + 1, row) /\ Len(h) + 1 \notin DOMAIN h
<1>1. row \in Slot /\ row # Null
  BY NoNullRow DEF Slot
<1>2. /\ h2 \in Seq(Slot) /\ Len(h) \in Nat /\ DOMAIN h = 1 .. Len(h) /\ DOMAIN h2 = 1 .. Len(h) + 1
      /\ \A i \in DOMAIN h : h2[i] = h[i]
      /\ h2[Len(h) + 1] = row
  BY <1>1, AppendElements
<1> DEFINE n == Len(h)
<1> HIDE DEF n
<1>3. /\ \A i \in 1 .. n + 1 : i \in 1 .. n \/ i = n + 1
      /\ n + 1 \in 1 .. n + 1 /\ n + 1 \notin 1 .. n /\ \A i \in 1 .. n : i \in 1 .. n + 1
  BY <1>2 DEF n
<1>4. DOMAIN h \subseteq DOMAIN h2 /\ n + 1 \notin DOMAIN h /\ n + 1 \in Nat
  BY <1>2, <1>3 DEF n
<1>5. Rids(h2) = Rids(h) \cup {n + 1} /\ n + 1 \notin Rids(h)
  BY <1>1, <1>2, <1>3 DEF Rids, n
<1>6. \A i \in Rids(h) : h2[i] = h[i]
  BY <1>2 DEF Rids
<1>7. Gains(h, h2, n + 1, row)
  BY <1>2, <1>4, <1>5, <1>6 DEF Gains, n
<1> QED
  BY <1>2, <1>4, <1>7 DEF n

(* A slot erased, whether a row was in it or not                           *)
LEMMA HeapErase ==
  ASSUME NEW h \in Seq(Slot), NEW rid \in DOMAIN h, NEW h2, h2 = [h EXCEPT ![rid] = Null]
  PROVE  /\ h2 \in Seq(Slot) /\ DOMAIN h2 = DOMAIN h /\ Len(h2) = Len(h)
         /\ rid \in Rids(h) => Loses(h, h2, rid, h[rid])
<1>1. Null \in Slot
  BY DEF Slot
<1>2. /\ h2 \in Seq(Slot) /\ DOMAIN h2 = DOMAIN h /\ Len(h2) = Len(h) /\ h2[rid] = Null
      /\ \A i \in DOMAIN h : i # rid => h2[i] = h[i]
  <2>1. h \in [1 .. Len(h) -> Slot] /\ Len(h) \in Nat /\ DOMAIN h = 1 .. Len(h)
    OBVIOUS
  <2>2. h2 \in [1 .. Len(h) -> Slot]
    BY <1>1, <2>1
  <2>3. h2[rid] = Null /\ \A i \in DOMAIN h : i # rid => h2[i] = h[i]
    BY <2>1
  <2>4. h2 \in Seq(Slot) /\ Len(h2) = Len(h) /\ DOMAIN h2 = 1 .. Len(h)
    BY <2>1, <2>2, SequenceOf
  <2> QED
    BY <2>1, <2>3, <2>4
<1>3. ASSUME rid \in Rids(h) PROVE Loses(h, h2, rid, h[rid])
  <2>1. Rids(h2) = Rids(h) \ {rid}
    BY <1>2 DEF Rids
  <2>2. \A i \in Rids(h2) : h2[i] = h[i]
    BY <1>2, <2>1 DEF Rids
  <2> QED
    BY <1>3, <2>1, <2>2 DEF Loses
<1> QED
  BY <1>2, <1>3

(* What the heap holds                                                     *)
LEMMA HeapRows ==
  ASSUME NEW h \in Seq(Slot)
  PROVE  /\ Len(h) \in Nat /\ DOMAIN h = 1 .. Len(h) /\ Rids(h) \subseteq DOMAIN h /\ 0 \notin Rids(h)
         /\ \A i \in Rids(h) : h[i] \in RowType
         /\ Rows(h) \subseteq RowType
<1>1. Len(h) \in Nat /\ DOMAIN h = 1 .. Len(h) /\ \A i \in DOMAIN h : h[i] \in Slot
  BY Elements
<1>2. Rids(h) \subseteq DOMAIN h /\ 0 \notin DOMAIN h
  BY <1>1 DEF Rids
<1>3. \A i \in Rids(h) : h[i] \in RowType
  BY <1>1 DEF Rids, Slot
<1> QED
  BY <1>1, <1>2, <1>3 DEF Rows

(* mi_on_insert and mi_on_delete do it for each index that exists.         *)
LEMMA OnInsert ==
  ASSUME NEW h, NEW h2, NEW rid, NEW row \in RowType, Gains(h, h2, rid, row),
         NEW ixs, Indexed(h, ixs)
  PROVE  /\ Indexed(h2, mi_on_insert(ixs, row, rid))
         /\ mi_on_insert(ixs, row, rid) = [c \in Columns |-> mi_on_insert(ixs, row, rid)[c]]
<1> DEFINE ixs2 == mi_on_insert(ixs, row, rid)
<1>1. ASSUME NEW c \in Columns, ixs2[c] # Null PROVE Lists(h2, c, ixs2[c])
  <2>1. ixs2[c] = IF ixs[c] = Null THEN Null ELSE mi_add(ixs[c], c, row, rid)
    BY DEF mi_on_insert
  <2>2. ixs[c] # Null /\ ixs2[c] = mi_add(ixs[c], c, row, rid)
    BY <1>1, <2>1
  <2>3. Lists(h, c, ixs[c])
    BY <2>2 DEF Indexed
  <2> HIDE DEF ixs2
  <2> QED
    BY <2>2, <2>3, AddLists
<1>2. Indexed(h2, ixs2)
  BY <1>1 DEF Indexed
<1> QED
  BY <1>2 DEF mi_on_insert

(* A deleted row leaves every index that exists.                           *)
LEMMA OnDelete ==
  ASSUME NEW h, NEW h2, NEW rid, NEW row \in RowType, Loses(h, h2, rid, row), Indexed(h, index)
  PROVE  /\ Indexed(h2, mi_on_delete(row, rid))
         /\ mi_on_delete(row, rid) = [c \in Columns |-> mi_on_delete(row, rid)[c]]
<1> DEFINE ixs2 == mi_on_delete(row, rid)
<1>1. ASSUME NEW c \in Columns, ixs2[c] # Null PROVE Lists(h2, c, ixs2[c])
  <2>1. ixs2[c] = IF index[c] = Null THEN Null ELSE mi_remove(index[c], c, row, rid)
    BY DEF mi_on_delete
  <2>2. index[c] # Null /\ ixs2[c] = mi_remove(index[c], c, row, rid)
    BY <1>1, <2>1
  <2>3. Lists(h, c, index[c])
    BY <2>2 DEF Indexed
  <2> HIDE DEF ixs2
  <2> QED
    BY <2>2, <2>3, RemoveLists
<1>2. Indexed(h2, ixs2)
  BY <1>1 DEF Indexed
<1> QED
  BY <1>2 DEF mi_on_delete

(* Without indexes there is nothing to keep.                               *)
LEMMA NoneIndexed ==
  ASSUME NEW h
  PROVE  Indexed(h, NoIndexes) /\ NoIndexes = [c \in Columns |-> NoIndexes[c]]
BY DEF Indexed, NoIndexes

-----------------------------------------------------------------------------
(* Undoing the log of a transaction: row ids of the log are slots of the   *)
(* heap, which only grows.                                                 *)
Reaches(h) == {g \in Seq(Slot) : DOMAIN h \subseteq DOMAIN g}
(* Undoing one record only erases slots and adds some.                     *)
LEMMA UndoReaches ==
  ASSUME NEW h, NEW g \in Reaches(h), NEW e \in Entry, e.rid \in DOMAIN h,
         e.type # "INSERT" => e.old \in RowType
  PROVE  Undo(g, e) \in Reaches(h)
<1> DEFINE gone == [g EXCEPT ![e.rid] = Null]
<1>1. g \in Seq(Slot) /\ DOMAIN h \subseteq DOMAIN g /\ e.rid \in DOMAIN g
  BY DEF Reaches
<1>2. gone \in Seq(Slot) /\ DOMAIN gone = DOMAIN g
  BY <1>1, HeapErase
<1> HIDE DEF gone
<1>3. e.type \in {"INSERT", "UPDATE", "DELETE"}
  BY DEF Entry
<1>4. CASE e.type = "INSERT"
  <2>1. Undo(g, e) = gone
    BY <1>4 DEF Undo, gone
  <2> QED
    BY <1>1, <1>2, <2>1 DEF Reaches
<1>5. CASE e.type = "UPDATE"
  <2>1. Undo(g, e) = Append(gone, e.old)
    BY <1>5 DEF Undo, gone
  <2>2. e.old \in RowType
    BY <1>5
  <2>3. Append(gone, e.old) \in Seq(Slot) /\ DOMAIN gone \subseteq DOMAIN Append(gone, e.old)
    BY <1>2, <2>2, HeapAppend
  <2> QED
    BY <1>1, <1>2, <2>1, <2>3 DEF Reaches
<1>6. CASE e.type = "DELETE"
  <2>1. Undo(g, e) = Append(g, e.old)
    BY <1>6 DEF Undo
  <2>2. e.old \in RowType
    BY <1>6
  <2>3. Append(g, e.old) \in Seq(Slot) /\ DOMAIN g \subseteq DOMAIN Append(g, e.old)
    BY <1>1, <2>2, HeapAppend
  <2> QED
    BY <1>1, <2>1, <2>3 DEF Reaches
<1> QED
  BY <1>3, <1>4, <1>5, <1>6

(* Undone is a heap.                                                       *)
LEMMA UndoneReaches ==
  ASSUME heap \in Seq(Slot), log # Null, log \in Seq(Entry), Logged(heap, log)
  PROVE  Undone \in Seq(Slot)
<1> DEFINE N    == Len(log)
           S    == Reaches(heap)
           e(n) == log[N + 1 - n]
           step == [x \in (1 .. N) \X S |-> Undo(x[2], e(x[1]))]
           Is(f) == f = [n \in 0 .. N |-> IF n = 0 THEN heap ELSE Undo(f[n - 1], e(n))]
           look  == CHOOSE f : Is(f)
<1>1. N \in Nat /\ DOMAIN log = 1 .. N /\ \A i \in 1 .. N : log[i] \in Entry
  BY Elements
<1>2. \A n \in 1 .. N : e(n) \in Entry /\ e(n).rid \in DOMAIN heap /\ (e(n).type # "INSERT" => e(n).old \in RowType)
  <2> SUFFICES ASSUME NEW n \in 1 .. N
               PROVE  e(n) \in Entry /\ e(n).rid \in DOMAIN heap /\ (e(n).type # "INSERT" => e(n).old \in RowType)
    OBVIOUS
  <2>1. N + 1 - n \in 1 .. N
    BY <1>1
  <2> HIDE DEF N
  <2> QED
    BY <1>1, <2>1 DEF Logged
<1> HIDE DEF e
<1>3. heap \in S
  BY DEF Reaches
<1>4. step \in [(1 .. N) \X S -> S]
  <2>1. ASSUME NEW x \in (1 .. N) \X S PROVE Undo(x[2], e(x[1])) \in S
    <3>1. x[1] \in 1 .. N /\ x[2] \in Reaches(heap)
      OBVIOUS
    <3> QED
      BY <1>2, <3>1, UndoReaches
  <2> HIDE DEF N, S
  <2> QED
    BY <2>1
<1>5. PICK f : Iterates(f, S, heap, N, step)
  <2> HIDE DEF N, S, step
  <2> QED
    BY <1>1, <1>3, <1>4, Iteration
<1>6. f \in [0 .. N -> S] /\ f[0] = heap
  BY <1>5 DEF Iterates
<1>7. \A n \in 1 .. N : f[n] = Undo(f[n - 1], e(n))
  <2> SUFFICES ASSUME NEW n \in 1 .. N PROVE f[n] = Undo(f[n - 1], e(n))
    OBVIOUS
  <2>1. f[n] = step[<<n, f[n - 1]>>]
    BY <1>5 DEF Iterates
  <2>2. n - 1 \in 0 .. N
    BY <1>1
  <2> HIDE DEF N, S
  <2>3. <<n, f[n - 1]>> \in (1 .. N) \X S
    BY <1>6, <2>2
  <2> QED
    BY <2>1, <2>3
<1>8. Is(f)
  <2>1. f = [n \in 0 .. N |-> f[n]] /\ \A n \in 0 .. N : n # 0 => n \in 1 .. N
    BY <1>1, <1>6
  <2> HIDE DEF N, step, S
  <2> QED
    BY <1>6, <1>7, <2>1
<1>9. Is(look)
  <2> HIDE DEF Is
  <2> QED
    BY <1>8
<1>10. Undone = look[N]
  BY DEF Undone, e
<1>11. look = f
  <2>1. LoopOver(f, N) /\ LoopOver(look, N) /\ 0 \in 0 .. N
    <3>1. 0 \in 0 .. N
      BY <1>1
    <3> HIDE DEF look, N, S
    <3> QED
      BY <1>6, <1>9, <3>1 DEF LoopOver
  <2> HIDE DEF look, N, S
  <2>2. look[0] = f[0]
    BY <1>6, <1>9, <2>1
  <2>3. ASSUME NEW n \in 1 .. N, look[n - 1] = f[n - 1] PROVE look[n] = f[n]
    <3>1. n \in 0 .. N /\ n # 0
      BY <1>1
    <3> QED
      BY <1>7, <1>9, <2>3, <3>1
  <2> QED
    BY <1>1, <2>1, <2>2, <2>3, SameLoop
<1> HIDE DEF look
<1>12. N \in 0 .. N
  BY <1>1
<1>13. f[N] \in Reaches(heap)
  BY <1>6, <1>12
<1> QED
  BY <1>10, <1>11, <1>13 DEF Reaches

-----------------------------------------------------------------------------
(* A statement that writes. Peeled: st3 is st without its first row, item. *)
Statements == [kind : Kinds, todo : Seq(Work), done : Nat, before : SUBSET RowType]
Peeled(st, st3, item) ==
  /\ 1 \in DOMAIN st.todo /\ st.todo[1] = item
  /\ \A i \in DOMAIN st3.todo : i + 1 \in DOMAIN st.todo /\ st3.todo[i] = st.todo[i + 1] /\ i + 1 # 1
  /\ \A j \in DOMAIN st.todo : j # 1 => \E i \in DOMAIN st3.todo : j = i + 1
  /\ \A i, j \in DOMAIN st3.todo : i + 1 = j + 1 => i = j
  /\ st3.kind = st.kind /\ st3.before = st.before /\ st3.done = st.done

(* Taking the first row off gives such a statement.                        *)
LEMMA PeeledIs ==
  ASSUME NEW st \in Statements, st.todo # <<>>
  PROVE  /\ [st EXCEPT !.todo = Tail(@)] \in Statements
         /\ Peeled(st, [st EXCEPT !.todo = Tail(@)], Head(st.todo)) /\ Head(st.todo) \in Work
<1> DEFINE l == st.todo
           t == Tail(st.todo)
           st3 == [st EXCEPT !.todo = t]
<1>1. l \in Seq(Work) /\ l # <<>>
  BY DEF Statements
<1>2. /\ t \in Seq(Work) /\ Len(l) \in Nat /\ DOMAIN l = 1 .. Len(l) /\ DOMAIN t = 1 .. Len(l) - 1
      /\ Head(l) = l[1] /\ 1 \in DOMAIN l /\ l[1] \in Work
      /\ \A i \in DOMAIN t : i + 1 \in DOMAIN l /\ t[i] = l[i + 1]
  <2> HIDE DEF l
  <2> QED
    BY <1>1, TailElements DEF l
<1> HIDE DEF t
<1>3. st3 \in Statements /\ st3.todo = t /\ st3.kind = st.kind /\ st3.before = st.before /\ st3.done = st.done
  BY <1>2 DEF Statements
<1> HIDE DEF st3
<1>4. \A i \in DOMAIN t : i + 1 # 1
  BY <1>2
<1>5. ASSUME NEW j \in DOMAIN l, j # 1 PROVE \E i \in DOMAIN t : j = i + 1
  <2>1. j - 1 \in DOMAIN t /\ j = (j - 1) + 1
    BY <1>2, <1>5
  <2> QED
    BY <2>1
<1>6. \A i, j \in DOMAIN t : i + 1 = j + 1 => i = j
  BY <1>2
<1>7. Peeled(st, st3, Head(l))
  BY <1>2, <1>3, <1>4, <1>5, <1>6 DEF Peeled
<1> QED
  BY <1>2, <1>3, <1>7 DEF st3, t

(* The row about to be written is as the statement read it,                *)
LEMMA ItemCurrent ==
  ASSUME NEW h, NEW st, NEW st3, NEW item, Peeled(st, st3, item), Current(h, st)
  PROVE  /\ st.kind \in {"UPDATE", "DELETE"} => item.rid \in Rids(h) /\ item.old = h[item.rid]
         /\ st.kind \in {"INSERT", "UPDATE"} => item.new \in RowType
         /\ st.kind = "INSERT" => item.rid = 0
BY DEF Peeled, Current

(* and so are the others after it has been written.                        *)
LEMMA OthersCurrent ==
  ASSUME NEW h, NEW h2, NEW st, NEW st3, NEW item, Peeled(st, st3, item), Current(h, st),
         st.kind \in {"UPDATE", "DELETE"} =>
           \A i \in Rids(h) : i # item.rid => i \in Rids(h2) /\ h2[i] = h[i]
  PROVE  Current(h2, st3)
<1>1. /\ 1 \in DOMAIN st.todo /\ st.todo[1] = item
      /\ \A i \in DOMAIN st3.todo : i + 1 \in DOMAIN st.todo /\ st3.todo[i] = st.todo[i + 1] /\ i + 1 # 1
      /\ \A i, j \in DOMAIN st3.todo : i + 1 = j + 1 => i = j
      /\ st3.kind = st.kind
  BY DEF Peeled
<1>2. CASE st.kind \in {"UPDATE", "DELETE"}
  <2>1. /\ \A i \in DOMAIN st.todo : st.todo[i].rid \in Rids(h) /\ st.todo[i].old = h[st.todo[i].rid]
        /\ \A i, j \in DOMAIN st.todo : st.todo[i].rid = st.todo[j].rid => i = j
    BY <1>2 DEF Current
  <2>2. \A i \in DOMAIN st3.todo : st3.todo[i].rid \in Rids(h2) /\ st3.todo[i].old = h2[st3.todo[i].rid]
    BY <1>1, <1>2, <2>1
  <2>3. \A i, j \in DOMAIN st3.todo : st3.todo[i].rid = st3.todo[j].rid => i = j
    BY <1>1, <2>1
  <2>4. st.kind = "UPDATE" => \A i \in DOMAIN st3.todo : st3.todo[i].new \in RowType
    BY <1>1 DEF Current
  <2> QED
    BY <1>1, <1>2, <2>2, <2>3, <2>4 DEF Current
<1>3. CASE ~(st.kind \in {"UPDATE", "DELETE"})
  BY <1>1, <1>3 DEF Current
<1> QED
  BY <1>2, <1>3

(* The heap when the row of item has been written as row n                 *)
Puts(h, h2, item, n) ==
  /\ n \notin Rids(h) /\ n # 0 /\ Rids(h2) = (Rids(h) \ {item.rid}) \cup {n}
  /\ h2[n] = item.new /\ \A i \in Rids(h) : i # item.rid => h2[i] = h[i]
(* The written row joins those that the statement leaves as they are.      *)
LEMMA PutsRest ==
  ASSUME NEW h, NEW h2, NEW st, NEW st3, NEW item, NEW n, Peeled(st, st3, item), Current(h, st),
         st.kind \in {"INSERT", "UPDATE"}, Puts(h, h2, item, n)
  PROVE  /\ Rest(h2, st3) = Rest(h, st) \cup {n} /\ n \notin Rest(h, st)
         /\ h2[n] = item.new /\ \A i \in Rest(h, st) : h2[i] = h[i]
         /\ RestRows(h2, st3) = RestRows(h, st) \cup {item.new}
         /\ NewRows(st) = NewRows(st3) \cup {item.new}
<1>1. /\ 1 \in DOMAIN st.todo /\ st.todo[1] = item
      /\ \A i \in DOMAIN st3.todo : i + 1 \in DOMAIN st.todo /\ st3.todo[i] = st.todo[i + 1]
      /\ \A j \in DOMAIN st.todo : j # 1 => \E i \in DOMAIN st3.todo : j = i + 1
  BY DEF Peeled
<1>2. /\ n \notin Rids(h) /\ n # 0 /\ Rids(h2) = (Rids(h) \ {item.rid}) \cup {n}
      /\ h2[n] = item.new /\ \A i \in Rids(h) : i # item.rid => h2[i] = h[i]
  BY DEF Puts
<1>3. \A j \in DOMAIN st.todo : st.todo[j].rid # n
  BY <1>2 DEF Current
<1>4. \A i : (\A j \in DOMAIN st.todo : st.todo[j].rid # i) <=>
               i # item.rid /\ \A j \in DOMAIN st3.todo : st3.todo[j].rid # i
  BY <1>1
<1>5. Rest(h2, st3) = Rest(h, st) \cup {n}
  BY <1>2, <1>3, <1>4 DEF Rest
<1>6. n \notin Rest(h, st)
  BY <1>2 DEF Rest
<1>7. \A i \in Rest(h, st) : h2[i] = h[i]
  BY <1>1, <1>2 DEF Rest
<1>8. RestRows(h2, st3) = RestRows(h, st) \cup {item.new}
  BY <1>2, <1>5, <1>7 DEF RestRows
<1>9. NewRows(st) = NewRows(st3) \cup {item.new}
  BY <1>1 DEF NewRows
<1> QED
  BY <1>2, <1>5, <1>6, <1>7, <1>8, <1>9

(* A written row keeps the promises of its statement.                      *)
LEMMA PutsPromise ==
  ASSUME NEW h, NEW h2, NEW st, NEW st3, NEW item, NEW n, Peeled(st, st3, item), Current(h, st),
         st.kind \in {"INSERT", "UPDATE"}, Puts(h, h2, item, n),
         Keyed(h, st), Outcome(h, st)
  PROVE  Keyed(h2, st3) /\ Outcome(h2, st3)
<1>1. /\ 1 \in DOMAIN st.todo /\ st.todo[1] = item
      /\ \A i \in DOMAIN st3.todo : i + 1 \in DOMAIN st.todo /\ st3.todo[i] = st.todo[i + 1] /\ i + 1 # 1
      /\ \A i, j \in DOMAIN st3.todo : i + 1 = j + 1 => i = j
      /\ st3.kind = st.kind /\ st3.before = st.before
  BY DEF Peeled
<1>2. /\ Rest(h2, st3) = Rest(h, st) \cup {n} /\ n \notin Rest(h, st)
      /\ h2[n] = item.new /\ \A i \in Rest(h, st) : h2[i] = h[i]
      /\ RestRows(h2, st3) = RestRows(h, st) \cup {item.new}
      /\ NewRows(st) = NewRows(st3) \cup {item.new}
  BY PutsRest
<1>3. /\ \A i, j \in Rest(h, st) : h[i].id = h[j].id => i = j
      /\ \A i \in Rest(h, st), j \in DOMAIN st.todo : h[i].id # st.todo[j].new.id
      /\ \A i, j \in DOMAIN st.todo : st.todo[i].new.id = st.todo[j].new.id => i = j
  BY DEF Keyed
<1>4. \A i, j \in Rest(h2, st3) : h2[i].id = h2[j].id => i = j
  BY <1>1, <1>2, <1>3
<1>5. \A i \in Rest(h2, st3), j \in DOMAIN st3.todo : h2[i].id # st3.todo[j].new.id
  BY <1>1, <1>2, <1>3
<1>6. \A i, j \in DOMAIN st3.todo : st3.todo[i].new.id = st3.todo[j].new.id => i = j
  BY <1>1, <1>3
<1>7. Keyed(h2, st3)
  BY <1>4, <1>5, <1>6 DEF Keyed
<1>8. CASE st.kind = "INSERT"
  <2>1. st.before \subseteq RestRows(h, st)
    BY <1>8 DEF Outcome
  <2>2. st3.before \subseteq RestRows(h2, st3) /\ st3.kind = "INSERT"
    BY <1>1, <1>2, <1>8, <2>1
  <2>3. Outcome(h2, st3)
    BY <2>2 DEF Outcome
  <2> QED
    BY <1>7, <2>3
<1>9. CASE st.kind = "UPDATE"
  <2>1. RestRows(h2, st3) \cup NewRows(st3) = RestRows(h, st) \cup NewRows(st)
    BY <1>2
  <2>2. PICK w \in Wheres, s \in Sets :
         LET new == {R!NewRow(s, r) : r \in Selected(w, st.before)}
         IN  /\ Cardinality(new) = Cardinality(Selected(w, st.before))
             /\ RestRows(h, st) \cup NewRows(st) = (st.before \ Selected(w, st.before)) \cup new
    BY <1>9 DEF Outcome
  <2> QED
    BY <1>1, <1>7, <1>9, <2>1, <2>2 DEF Outcome
<1> QED
  BY <1>7, <1>8, <1>9

(* The same for a row that is deleted                                      *)
LEMMA DropPromise ==
  ASSUME NEW h, NEW h2, NEW st, NEW st3, NEW item, Peeled(st, st3, item), Current(h, st),
         st.kind = "DELETE", Loses(h, h2, item.rid, item.old),
         Keyed(h, st), Outcome(h, st)
  PROVE  Keyed(h2, st3) /\ Outcome(h2, st3)
<1>1. /\ 1 \in DOMAIN st.todo /\ st.todo[1] = item
      /\ \A i \in DOMAIN st3.todo : i + 1 \in DOMAIN st.todo /\ st3.todo[i] = st.todo[i + 1] /\ i + 1 # 1
      /\ \A j \in DOMAIN st.todo : j # 1 => \E i \in DOMAIN st3.todo : j = i + 1
      /\ st3.kind = st.kind /\ st3.before = st.before
  BY DEF Peeled
<1>2. /\ Rids(h2) = Rids(h) \ {item.rid} /\ \A i \in Rids(h2) : h2[i] = h[i]
  BY DEF Loses
<1>3. \A i : (\A j \in DOMAIN st.todo : st.todo[j].rid # i) <=>
               i # item.rid /\ \A j \in DOMAIN st3.todo : st3.todo[j].rid # i
  BY <1>1
<1>4. Rest(h2, st3) = Rest(h, st)
  BY <1>2, <1>3 DEF Rest
<1>5. \A i \in Rest(h, st) : h2[i] = h[i]
  BY <1>2, <1>4 DEF Rest
<1>6. RestRows(h2, st3) = RestRows(h, st)
  BY <1>4, <1>5 DEF RestRows
<1>7. Keyed(h2, st3)
  BY <1>1, <1>4, <1>5 DEF Keyed
<1>8. Outcome(h2, st3)
  BY <1>1, <1>6 DEF Outcome
<1> QED
  BY <1>7, <1>8

(* Written ends the statement with its last row, or goes on with the next. *)
Advanced(st, st2) ==
  st2 = IF Len(st.todo) = 1 THEN Idle ELSE [st EXCEPT !.todo = Tail(@), !.done = @ + 1]
(* The statement goes on with the others, or it is over.                   *)
LEMMA AdvancedIs ==
  ASSUME NEW st \in Statements, st # Idle, st.kind = "none" => st = Idle, st.todo # <<>>,
         NEW st2, Advanced(st, st2), NEW st3, st3 = [st EXCEPT !.todo = Tail(@)]
  PROVE  /\ st2 \in Statements /\ (st2.kind = "none" => st2 = Idle) /\ (st2 # Idle => st2.todo # <<>>)
         /\ st2 = Idle => st3.todo = <<>> /\ st2.todo = <<>>
         /\ st2 # Idle => st2.kind = st.kind /\ st2.before = st.before /\ st2.done # 0 /\ st2.todo = st3.todo
<1> DEFINE l == st.todo
           t == Tail(st.todo)
<1>1. l \in Seq(Work) /\ l # <<>> /\ st.done \in Nat /\ st.kind \in Kinds
  BY DEF Statements
<1>2. t \in Seq(Work) /\ Len(t) = Len(l) - 1 /\ Len(l) \in Nat
  <2> HIDE DEF l
  <2> QED
    BY <1>1, TailElements DEF l
<1>3. st3.todo = t
  <2> HIDE DEF t
  <2> QED
    BY DEF Statements, t
<1>4. CASE Len(l) = 1
  <2>1. st2 = Idle
    BY <1>4 DEF Advanced
  <2>2. t = <<>>
    <3> HIDE DEF t
    <3> QED
      BY <1>2, <1>4
  <2>3. Idle \in Statements /\ Idle.todo = <<>>
    BY DEF Idle, Statements, Kinds
  <2> HIDE DEF t
  <2> QED
    BY <1>3, <2>1, <2>2, <2>3
<1>5. CASE Len(l) # 1
  <2>1. st2 = [st EXCEPT !.todo = t, !.done = st.done + 1]
    BY <1>5 DEF Advanced
  <2>2. t # <<>>
    <3> HIDE DEF t, l
    <3>1. Len(<<>>) = 0
      OBVIOUS
    <3>2. Len(l) # 0
      BY <1>1
    <3> QED
      BY <1>2, <1>5, <3>1, <3>2
  <2> HIDE DEF t
  <2>3. st2 \in Statements /\ st2.kind = st.kind /\ st2.before = st.before /\ st2.todo = t /\ st2.done = st.done + 1
    <3>1. st.done + 1 \in Nat
      BY <1>1
    <3> DEFINE d == st.done + 1
    <3>2. d \in Nat /\ st2 = [st EXCEPT !.todo = t, !.done = d]
      BY <3>1, <2>1
    <3> HIDE DEF d
    <3>3. /\ st2 \in Statements /\ st2.kind = st.kind /\ st2.before = st.before
          /\ st2.todo = t /\ st2.done = d
      BY <1>2, <3>2 DEF Statements
    <3> QED
      BY <3>3 DEF d
  <2>4. st2.done # 0
    BY <1>1, <2>3
  <2>5. st.kind # "none"
    OBVIOUS
  <2>6. st2 # Idle
    BY <2>3, <2>5 DEF Idle
  <2> QED
    BY <1>3, <2>2, <2>3, <2>4, <2>5, <2>6
<1> QED
  BY <1>4, <1>5

(* What has been shown of st3 holds of the statement as it goes on.        *)
LEMMA AdvancedKeeps ==
  ASSUME NEW h, NEW st, NEW st2, NEW st3, st3.kind = st.kind, st3.before = st.before,
         st2 = Idle => st3.todo = <<>> /\ st2.todo = <<>>,
         st2 # Idle => st2.kind = st.kind /\ st2.before = st.before /\ st2.todo = st3.todo
  PROVE  /\ Current(h, st3) => Current(h, st2)
         /\ Keyed(h, st3) /\ Outcome(h, st3) => Keyed(h, st2) /\ Outcome(h, st2)
<1>1. CASE st2 = Idle
  <2>1. st2.kind = "none" /\ st2.todo = <<>> /\ st3.todo = <<>>
    BY <1>1 DEF Idle
  <2>2. Rest(h, st2) = Rest(h, st3)
    BY <2>1 DEF Rest
  <2> QED
    BY <2>1, <2>2 DEF Current, Keyed, Outcome
<1>2. CASE st2 # Idle
  <2>1. Rest(h, st2) = Rest(h, st3) /\ RestRows(h, st2) = RestRows(h, st3) /\ NewRows(st2) = NewRows(st3)
    BY <1>2 DEF Rest, RestRows, NewRows
  <2>2. st2.kind = st3.kind /\ st2.before = st3.before /\ st2.todo = st3.todo
    BY <1>2
  <2>3. Current(h, st3) => Current(h, st2)
    BY <2>2 DEF Current
  <2>4. Keyed(h, st3) => Keyed(h, st2)
    BY <2>1, <2>2 DEF Keyed
  <2>5. Outcome(h, st3) => Outcome(h, st2)
    BY <2>1, <2>2 DEF Outcome
  <2> QED
    BY <2>3, <2>4, <2>5
<1> QED
  BY <1>1, <1>2


-----------------------------------------------------------------------------
(* When no statement is writing, only the rows count.                      *)
LEMMA IdleKeeps ==
  ASSUME NEW h
  PROVE  /\ Idle \in Statements /\ Current(h, Idle) /\ Outcome(h, Idle)
         /\ Keyed(h, Idle) <=> Distinct(h)
<1>1. Idle.kind = "none" /\ Idle.todo = <<>> /\ Idle \in Statements
  BY DEF Idle, Statements, Kinds
<1>2. Rest(h, Idle) = Rids(h)
  BY <1>1 DEF Rest
<1>3. Current(h, Idle)
  BY <1>1 DEF Current
<1>4. Outcome(h, Idle)
  BY <1>1 DEF Outcome
<1>5. Keyed(h, Idle) <=> Distinct(h)
  BY <1>1, <1>2 DEF Keyed, Distinct
<1> QED
  BY <1>1, <1>3, <1>4, <1>5

(* The invariant between two statements                                    *)
LEMMA Settled ==
  ASSUME NEW h \in Seq(Slot), NEW ixs, Indexed(h, ixs), ixs = [c \in Columns |-> ixs[c]],
         NEW lg, lg # Null => lg \in Seq(Entry), Logged(h, lg), NEW sv \in SUBSET RowType,
         NEW tr \in BOOLEAN, tr = FALSE => Distinct(h) /\ (lg # Null => R!UniqueKeys(sv))
  PROVE  Sound(h, ixs, Idle, lg, sv, tr)
<1>1. Types(h, ixs, Idle, lg, sv)
  <2>1. Idle \in Statements
    BY IdleKeeps
  <2> QED
    BY <2>1 DEF Types, Statements
<1>2. tr = FALSE => Promises(h, Idle, lg, sv)
  BY IdleKeeps DEF Promises
<1> QED
  BY <1>1, <1>2, IdleKeeps DEF Sound

(* What the invariant says between two statements                          *)
LEMMA FromSettled ==
  ASSUME TableInv, stmt = Idle
  PROVE  /\ heap \in Seq(Slot) /\ index = [c \in Columns |-> index[c]] /\ Indexed(heap, index)
         /\ log # Null => log \in Seq(Entry)
         /\ Logged(heap, log) /\ saved \in SUBSET RowType /\ torn \in BOOLEAN
         /\ torn = FALSE => Distinct(heap) /\ (log # Null => R!UniqueKeys(saved))
<1>1. Types(heap, index, stmt, log, saved) /\ Logged(heap, log) /\ Indexed(heap, index) /\ torn \in BOOLEAN
  BY DEF TableInv, Sound
<1>2. torn = FALSE => Keyed(heap, stmt) /\ (log # Null => R!UniqueKeys(saved))
  BY DEF TableInv, Sound, Promises
<1>3. torn = FALSE => Distinct(heap)
  BY <1>2, IdleKeeps
<1> QED
  BY <1>1, <1>2, <1>3 DEF Types

(* A statement that has been validated starts with rows as they are.       *)
Started(kind, todo) == [kind |-> kind, todo |-> todo, done |-> 0, before |-> Rows(heap)]
(* The invariant after a validation that left every row as it was.         *)
LEMMA StartKeeps ==
  ASSUME TableInv, stmt = Idle, NEW kind \in {"INSERT", "UPDATE", "DELETE"}, NEW ok, NEW todo,
         Proceed(kind, ok, todo), Indexed(heap, index'), index' = [c \in Columns |-> index'[c]],
         ok /\ todo # <<>> =>
           /\ todo \in Seq(Work) /\ Current(heap, Started(kind, todo))
           /\ torn = FALSE => Keyed(heap, Started(kind, todo)) /\ Outcome(heap, Started(kind, todo))
  PROVE  TableInv'
<1>1. /\ heap \in Seq(Slot)
      /\ log # Null => log \in Seq(Entry)
      /\ Logged(heap, log) /\ saved \in SUBSET RowType /\ torn \in BOOLEAN
      /\ torn = FALSE => Distinct(heap) /\ (log # Null => R!UniqueKeys(saved))
  BY FromSettled
<1>2. /\ heap' = heap /\ log' = log /\ saved' = saved /\ torn' = torn
      /\ stmt' = IF ok /\ todo # <<>> THEN Started(kind, todo) ELSE Idle
  BY DEF Proceed, Started
<1>3. CASE ok /\ todo # <<>>
  <2> DEFINE st == Started(kind, todo)
  <2>1. /\ todo \in Seq(Work) /\ Current(heap, st)
        /\ torn = FALSE => Keyed(heap, st) /\ Outcome(heap, st)
    BY <1>3
  <2>2. Rows(heap) \subseteq RowType
    BY <1>1, HeapRows
  <2>3. /\ st.kind = kind /\ st.todo = todo /\ st.done = 0 /\ st.before = Rows(heap)
        /\ st = [kind |-> kind, todo |-> todo, done |-> 0, before |-> Rows(heap)]
    BY DEF Started
  <2>4. st \in [kind : Kinds, todo : Seq(Work), done : Nat, before : SUBSET RowType]
    BY <2>1, <2>2, <2>3 DEF Kinds
  <2>5. stmt' = st
    BY <1>2, <1>3
  <2> HIDE DEF st
  <2>6. Types(heap, index', st, log, saved)
    BY <1>1, <1>3, <2>3, <2>4 DEF Types
  <2>7. torn = FALSE => Promises(heap, st, log, saved)
    BY <1>1, <2>1, <2>3 DEF Promises
  <2>8. Sound(heap, index', st, log, saved, torn)
    BY <1>1, <2>1, <2>6, <2>7 DEF Sound
  <2> QED
    BY <1>2, <2>5, <2>8 DEF TableInv
<1>4. CASE ~(ok /\ todo # <<>>)
  <2>1. Sound(heap, index', Idle, log, saved, torn)
    BY <1>1, Settled
  <2>2. stmt' = Idle
    BY <1>2, <1>4
  <2> QED
    BY <1>2, <2>1, <2>2 DEF TableInv
<1> QED
  BY <1>3, <1>4

(* INSERT: the rows that pass have ids that no row has.                    *)
LEMMA InsertKeeps ==
  ASSUME TableInv, NEW batch \in Batches, Insert(batch)
  PROVE  TableInv'
<1> DEFINE ix == mi_get("id")
           checked == Checked(ix, batch)
           rows == checked.rows
           todo == [i \in DOMAIN rows |-> [rid |-> 0, old |-> Null, new |-> rows[i]]]
           st == Started("INSERT", todo)
<1>1. stmt = Idle /\ Proceed("INSERT", checked.ok, todo) /\ index' = Got({"id"})
  BY DEF Insert
<1>2. /\ heap \in Seq(Slot) /\ Indexed(heap, index)
      /\ torn = FALSE => Distinct(heap)
  BY <1>1, FromSettled
<1>3. Indexed(heap, index') /\ index' = [c \in Columns |-> index'[c]]
  BY <1>1, <1>2, GotIndexed
<1>4. Lists(heap, "id", ix)
  BY <1>2, GetLists DEF Columns
<1>5. batch \in Seq(Asked)
  BY TableAssumption
<1> HIDE DEF ix
<1>6. checked \in Verdicts /\ (checked.ok => Fresh(heap, rows))
  BY <1>4, <1>5, CheckedIs
<1> HIDE DEF checked
<1>7. rows \in Seq(Numbered)
  BY <1>6 DEF Verdicts
<1> HIDE DEF rows
<1>8. DOMAIN rows = 1 .. Len(rows) /\ Len(rows) \in Nat
  BY <1>7, Elements
<1>9. DOMAIN todo = DOMAIN rows /\ \A i \in DOMAIN rows : /\ todo[i].rid = 0 /\ todo[i].new = rows[i]
                                                         /\ todo[i] = [rid |-> 0, old |-> Null, new |-> rows[i]]
  OBVIOUS
<1>10. ASSUME checked.ok
       PROVE  /\ todo \in Seq(Work) /\ Current(heap, st)
              /\ torn = FALSE => Keyed(heap, st) /\ Outcome(heap, st)
  <2>1. /\ \A i \in DOMAIN rows : rows[i] \in RowType
        /\ \A i, j \in DOMAIN rows : rows[i].id = rows[j].id => i = j
        /\ \A k \in Rids(heap), i \in DOMAIN rows : heap[k].id # rows[i].id
    BY <1>6, <1>10 DEF Fresh
  <2>2. \A i \in DOMAIN rows : [rid |-> 0, old |-> Null, new |-> rows[i]] \in Work
    BY <2>1 DEF Work, Slot
  <2>3. todo \in [1 .. Len(rows) -> Work]
    BY <1>8, <2>2
  <2>4. st.kind = "INSERT" /\ st.todo = todo /\ st.before = Rows(heap)
    BY DEF Started
  <2> HIDE DEF st, todo
  <2>5. todo \in Seq(Work)
    BY <1>8, <2>3, SequenceOf
  <2>6. Current(heap, st)
    BY <1>9, <2>1, <2>4 DEF Current
  <2>7. Rest(heap, st) = Rids(heap)
    <3>1. 0 \notin Rids(heap)
      BY <1>2, HeapRows
    <3> QED
      BY <1>9, <2>4, <3>1 DEF Rest
  <2>8. torn = FALSE => Keyed(heap, st)
    BY <1>2, <1>9, <2>1, <2>4, <2>7 DEF Keyed, Distinct
  <2>9. Outcome(heap, st)
    BY <2>4, <2>7 DEF Outcome, RestRows, Rows
  <2> QED
    BY <2>5, <2>6, <2>8, <2>9
<1> HIDE DEF todo, st
<1> QED
  BY <1>1, <1>3, <1>10, StartKeeps DEF st

(* The rows that a statement with a condition works on: select_matches     *)
(* gives the row ids, and the work is done on the rows as they are now.    *)
Chosen(w, rids, todo) ==
  /\ DOMAIN todo = DOMAIN rids
  /\ \A i \in DOMAIN rids : /\ rids[i] \in Rids(heap) /\ heap[rids[i]] \in RowType
                            /\ todo[i].rid = rids[i] /\ todo[i].old = heap[rids[i]]
  /\ \A i, j \in DOMAIN rids : rids[i] = rids[j] => i = j
  /\ {rids[i] : i \in DOMAIN rids} = {i \in Rids(heap) : R!Matches(w, heap[i])}

(* What they leave alone are the rows that do not match.                   *)
LEMMA ChosenRest ==
  ASSUME NEW w, NEW rids, NEW todo, Chosen(w, rids, todo), NEW st, st.todo = todo, st.before = Rows(heap)
  PROVE  /\ Rest(heap, st) = {i \in Rids(heap) : ~R!Matches(w, heap[i])}
         /\ RestRows(heap, st) = st.before \ Selected(w, st.before)
         /\ Selected(w, st.before) = {heap[rids[i]] : i \in DOMAIN rids}
<1>1. /\ DOMAIN todo = DOMAIN rids
      /\ \A i \in DOMAIN rids : rids[i] \in Rids(heap) /\ todo[i].rid = rids[i]
      /\ {rids[i] : i \in DOMAIN rids} = {i \in Rids(heap) : R!Matches(w, heap[i])}
  BY DEF Chosen
<1> DEFINE M(r) == R!Matches(w, r)
<1>2. {rids[i] : i \in DOMAIN rids} = {i \in Rids(heap) : M(heap[i])}
  BY <1>1
<1>3. Selected(w, st.before) = {r \in st.before : M(r)}
  BY DEF Selected
<1> HIDE DEF M
<1>4. Rest(heap, st) = {i \in Rids(heap) : ~M(heap[i])}
  BY <1>1, <1>2 DEF Rest
<1>5. RestRows(heap, st) = st.before \ Selected(w, st.before)
  BY <1>3, <1>4 DEF RestRows, Rows
<1>6. Selected(w, st.before) = {heap[rids[i]] : i \in DOMAIN rids}
  BY <1>1, <1>2, <1>3 DEF Rows
<1> QED
  BY <1>4, <1>5, <1>6 DEF M

(* select_matches gives such rows.                                         *)
LEMMA SelectChooses ==
  ASSUME heap \in Seq(Slot), Indexed(heap, index), NEW w \in Wheres, NEW todo,
         DOMAIN todo = DOMAIN select_matches(w),
         \A i \in DOMAIN select_matches(w) : /\ todo[i].rid = select_matches(w)[i]
                                             /\ todo[i].old = heap[select_matches(w)[i]]
  PROVE  select_matches(w) \in Seq(Nat) /\ Chosen(w, select_matches(w), todo)
<1> DEFINE rids == select_matches(w)
           hits == {i \in Rids(heap) : R!Matches(w, heap[i])}
<1>1. rids \in Seq(Nat) /\ Once(rids) /\ ToSet(rids) = hits
  BY SelectMatches
<1>2. DOMAIN todo = DOMAIN rids /\ \A i \in DOMAIN rids : todo[i].rid = rids[i] /\ todo[i].old = heap[rids[i]]
  OBVIOUS
<1>3. hits \subseteq Rids(heap)
  OBVIOUS
<1> HIDE DEF rids, hits
<1>4. \A i \in DOMAIN rids : rids[i] \in Rids(heap)
  BY <1>1, <1>3 DEF ToSet
<1>5. \A i \in DOMAIN rids : heap[rids[i]] \in RowType
  BY <1>4, HeapRows
<1>6. {rids[i] : i \in DOMAIN rids} = hits
  BY <1>1 DEF ToSet
<1>7. \A i, j \in DOMAIN rids : rids[i] = rids[j] => i = j
  BY <1>1 DEF Once
<1>8. Chosen(w, rids, todo)
  BY <1>2, <1>4, <1>5, <1>6, <1>7 DEF Chosen, hits
<1> QED
  BY <1>1, <1>8 DEF rids

(* DELETE                                                                  *)
LEMMA DeleteKeeps ==
  ASSUME TableInv, NEW w \in Wheres, Delete(w)
  PROVE  TableInv'
<1> DEFINE rids == select_matches(w)
           todo == [i \in DOMAIN rids |-> [rid |-> rids[i], old |-> heap[rids[i]], new |-> Null]]
           st == Started("DELETE", todo)
<1>1. stmt = Idle /\ Proceed("DELETE", TRUE, todo) /\ index' = Got(IndexesFor(w))
  BY DEF Delete
<1>2. heap \in Seq(Slot) /\ Indexed(heap, index) /\ (torn = FALSE => Distinct(heap))
  BY <1>1, FromSettled
<1>3. Indexed(heap, index') /\ index' = [c \in Columns |-> index'[c]]
  BY <1>1, <1>2, GotIndexed
<1>4. DOMAIN todo = DOMAIN rids /\ \A i \in DOMAIN rids : /\ todo[i].rid = rids[i] /\ todo[i].old = heap[rids[i]]
                                     /\ todo[i] = [rid |-> rids[i], old |-> heap[rids[i]], new |-> Null]
  OBVIOUS
<1>5. rids \in Seq(Nat) /\ Chosen(w, rids, todo)
  <2> HIDE DEF todo
  <2> QED
    BY <1>2, <1>4, SelectChooses
<1> HIDE DEF rids
<1>6. DOMAIN rids = 1 .. Len(rids) /\ Len(rids) \in Nat /\ \A i \in DOMAIN rids : rids[i] \in Nat
  BY <1>5, Elements
<1>7. /\ \A i \in DOMAIN rids : rids[i] \in Rids(heap) /\ heap[rids[i]] \in RowType
      /\ \A i, j \in DOMAIN rids : rids[i] = rids[j] => i = j
  BY <1>5 DEF Chosen
<1>8. todo \in [1 .. Len(rids) -> Work]
  BY <1>6, <1>7 DEF Work, Slot
<1>9. st.kind = "DELETE" /\ st.todo = todo /\ st.before = Rows(heap)
  BY DEF Started
<1> HIDE DEF todo, st
<1>10. todo \in Seq(Work)
  BY <1>6, <1>8, SequenceOf
<1>11. Current(heap, st)
  BY <1>4, <1>7, <1>9 DEF Current
<1>12. RestRows(heap, st) = st.before \ Selected(w, st.before)
  BY <1>5, <1>9, ChosenRest
<1>13. Outcome(heap, st)
  BY <1>9, <1>12 DEF Outcome
<1>14. torn = FALSE => Keyed(heap, st)
  <2>1. Rest(heap, st) \subseteq Rids(heap)
    BY DEF Rest
  <2> QED
    BY <1>2, <1>9, <2>1 DEF Keyed, Distinct
<1> QED
  BY <1>1, <1>3, <1>10, <1>11, <1>13, <1>14, StartKeeps DEF st

(* SELECT: an index more, the rows stay.                                   *)
LEMMA SelectKeeps ==
  ASSUME TableInv, NEW w, Select(w)
  PROVE  TableInv'
<1>1. /\ stmt = Idle /\ index' = Got(IndexesFor(w)) /\ stmt' = Idle
      /\ heap' = heap /\ log' = log /\ saved' = saved /\ torn' = torn
  BY DEF Select
<1>2. /\ heap \in Seq(Slot) /\ Indexed(heap, index)
      /\ log # Null => log \in Seq(Entry)
      /\ Logged(heap, log) /\ saved \in SUBSET RowType /\ torn \in BOOLEAN
      /\ torn = FALSE => Distinct(heap) /\ (log # Null => R!UniqueKeys(saved))
  BY <1>1, FromSettled
<1>3. Indexed(heap, index') /\ index' = [c \in Columns |-> index'[c]]
  BY <1>1, <1>2, GotIndexed
<1>4. Sound(heap, index', Idle, log, saved, torn)
  BY <1>2, <1>3, Settled
<1> QED
  BY <1>1, <1>4 DEF TableInv

(* What UPDATE makes of a row                                              *)
LEMMA NewRowIs ==
  ASSUME NEW s \in Sets, NEW row \in RowType, NEW new, new = R!NewRow(s, row)
  PROVE  /\ new.id <= MaxInt => new \in RowType
         /\ s.id = "keep" => new.id = row.id /\ new \in RowType
<1>1. /\ s.id \in {"keep", "next", "flip"} /\ s.v \in Texts \cup {Null, "keep"} /\ MaxInt \in Nat
  BY TableAssumption
<1>2. row.id \in 1 .. MaxInt /\ row.v \in Texts \cup {Null}
  BY DEF RowType
<1> DEFINE k == CASE s.id = "keep" -> row.id
                  [] s.id = "next" -> row.id + 1
                  [] s.id = "flip" -> MaxInt + 1 - row.id
           t == IF s.v = "keep" THEN row.v ELSE s.v
<1>3. new = [id |-> k, v |-> t]
  BY DEF R!NewRow
<1>4. t \in Texts \cup {Null}
  BY <1>1, <1>2
<1>5. CASE s.id = "keep"
  <2>1. k = row.id
    BY <1>5
  <2> HIDE DEF k, t
  <2> QED
    BY <1>2, <1>3, <1>4, <2>1 DEF RowType
<1>6. CASE s.id = "next"
  <2>1. k = row.id + 1
    BY <1>6
  <2> HIDE DEF k, t
  <2>2. k \in Nat /\ k >= 1
    BY <1>1, <1>2, <2>1
  <2>3. k <= MaxInt => k \in 1 .. MaxInt
    BY <1>1, <2>2
  <2> QED
    BY <1>3, <1>4, <1>6, <2>3 DEF RowType
<1>7. CASE s.id = "flip"
  <2>1. k = MaxInt + 1 - row.id
    BY <1>7
  <2>2. k \in 1 .. MaxInt
    BY <1>1, <1>2, <2>1
  <2> HIDE DEF k, t
  <2> QED
    BY <1>3, <1>4, <1>7, <2>2 DEF RowType
<1> QED
  BY <1>1, <1>5, <1>6, <1>7

(* The new keys do not clash: none equals another of them or the key of a  *)
(* row that stays.                                                         *)
LEMMA NoClash ==
  ASSUME heap \in Seq(Slot), Indexed(heap, index), NEW todo, NEW N \in Nat, DOMAIN todo = 1 .. N,
         \A i \in DOMAIN todo : todo[i].new \in RowType, ~KeyClashes(todo)
  PROVE  /\ \A i, j \in DOMAIN todo : todo[i].new.id = todo[j].new.id => i = j
         /\ \A k \in Rids(heap), j \in DOMAIN todo :
              heap[k].id = todo[j].new.id => \E i \in DOMAIN todo : todo[i].rid = k
<1> DEFINE ix == mi_get("id")
           mine == {todo[i].rid : i \in DOMAIN todo}
<1>1. Lists(heap, "id", ix)
  BY GetLists DEF Columns
<1>2. ASSUME NEW i \in DOMAIN todo
      PROVE  /\ ~\E j \in 1 .. i - 1 : todo[j].new.id = todo[i].new.id
             /\ ~\E rid \in ToSet(ix.list[todo[i].new.id]) : rid \notin mine
  BY <1>2 DEF KeyClashes
<1> HIDE DEF ix
<1>3. ASSUME NEW i \in DOMAIN todo, NEW j \in DOMAIN todo, todo[i].new.id = todo[j].new.id
      PROVE  i = j
  <2>1. i \in 1 .. N /\ j \in 1 .. N
    OBVIOUS
  <2>2. CASE i < j
    <3>1. i \in 1 .. j - 1
      BY <2>1, <2>2
    <3> QED
      BY <1>2, <1>3, <3>1
  <2>3. CASE j < i
    <3>1. j \in 1 .. i - 1
      BY <2>1, <2>3
    <3> QED
      BY <1>2, <1>3, <3>1
  <2> QED
    BY <2>1, <2>2, <2>3
<1>4. ASSUME NEW k \in Rids(heap), NEW j \in DOMAIN todo, heap[k].id = todo[j].new.id
      PROVE  k \in mine
  <2> DEFINE x == todo[j].new.id
  <2>1. x \in Values("id")
    BY DEF Values, RowType
  <2>2. ToSet(ix.list[x]) = Holders(heap, "id", x)
    BY <1>1, <2>1 DEF Lists
  <2>3. heap[k] \in RowType
    BY HeapRows
  <2>4. heap[k]["id"] = heap[k].id
    BY <2>3 DEF RowType
  <2>5. k \in Holders(heap, "id", x)
    BY <1>4, <2>4 DEF Holders
  <2> QED
    BY <1>2, <2>2, <2>5
<1> QED
  BY <1>3, <1>4

(* As many new rows as old ones: their keys differ.                        *)
Maps(N, old, F, new, S) ==
  /\ S = {old[i] : i \in 1 .. N}
  /\ \A i \in 1 .. N : new[i] = F[old[i]]
  /\ \A i, j \in 1 .. N : new[i].id = new[j].id => i = j
SameNumber(N, F, new, S) ==
  /\ {F[r] : r \in S} = {new[i] : i \in 1 .. N}
  /\ Cardinality({F[r] : r \in S}) = Cardinality(S)
(* Then there are as many images as elements.                              *)
LEMMA AsMany ==
  ASSUME NEW N \in Nat, NEW old, NEW F, NEW new, NEW S, Maps(N, old, F, new, S)
  PROVE  SameNumber(N, F, new, S)
<1> DEFINE T == {F[r] : r \in S}
           f == [r \in S |-> F[r]]
           o == [i \in 1 .. N |-> old[i]]
<1>0. /\ S = {old[i] : i \in 1 .. N}
      /\ \A i \in 1 .. N : new[i] = F[old[i]]
      /\ \A i, j \in 1 .. N : new[i].id = new[j].id => i = j
  BY DEF Maps
<1>1. IsFiniteSet(S)
  <2>1. o \in Surjection(1 .. N, S)
    BY <1>0 DEF Surjection
  <2>2. IsFiniteSet(1 .. N)
    BY FS_Interval
  <2> QED
    BY <2>1, <2>2, FS_Surjection
<1>2. f \in Surjection(S, T)
  BY DEF Surjection
<1>3. ASSUME NEW a \in S, NEW b \in S, f[a] = f[b] PROVE a = b
  <2>1. PICK i \in 1 .. N : a = old[i]
    BY <1>0
  <2>2. PICK j \in 1 .. N : b = old[j]
    BY <1>0
  <2>3. new[i] = new[j]
    BY <1>0, <1>3, <2>1, <2>2
  <2> QED
    BY <1>0, <2>1, <2>2, <2>3
<1>4. f \in Injection(S, T)
  <2>1. f \in [S -> T]
    OBVIOUS
  <2>2. DOMAIN f = S
    OBVIOUS
  <2> HIDE DEF f, T
  <2> QED
    BY <1>3, <2>1, <2>2 DEF Injection, IsInjective
<1>5. Cardinality(T) = Cardinality(S)
  <2> HIDE DEF f, T
  <2> QED
    BY <1>1, <1>2, <1>4, FS_Surjection
<1>6. T = {new[i] : i \in 1 .. N}
  BY <1>0
<1> QED
  BY <1>5, <1>6 DEF SameNumber

(* UPDATE                                                                  *)
LEMMA UpdateKeeps ==
  ASSUME TableInv, NEW w \in Wheres, NEW s \in Sets, Update(w, s)
  PROVE  TableInv'
<1> DEFINE rids == select_matches(w)
           todo == [i \in DOMAIN rids |-> [rid |-> rids[i], old |-> heap[rids[i]], new |-> R!NewRow(s, heap[rids[i]])]]
           fits == \A i \in DOMAIN todo : todo[i].new.id <= MaxInt
           keyed == s.id # "keep" /\ fits /\ todo # <<>>
           ok == fits /\ (keyed => ~KeyClashes(todo))
           cols == IndexesFor(w) \cup (IF keyed THEN {"id"} ELSE {})
           st == Started("UPDATE", todo)
<1>1. stmt = Idle /\ Proceed("UPDATE", ok, todo) /\ index' = Got(cols)
  BY DEF Update
<1>2. heap \in Seq(Slot) /\ Indexed(heap, index) /\ (torn = FALSE => Distinct(heap))
  BY <1>1, FromSettled
<1>3. Indexed(heap, index') /\ index' = [c \in Columns |-> index'[c]]
  <2> HIDE DEF cols
  <2> QED
    BY <1>1, <1>2, GotIndexed
<1>4. DOMAIN todo = DOMAIN rids /\ \A i \in DOMAIN rids :
         /\ todo[i].rid = rids[i] /\ todo[i].old = heap[rids[i]] /\ todo[i].new = R!NewRow(s, heap[rids[i]])
         /\ todo[i] = [rid |-> rids[i], old |-> heap[rids[i]], new |-> R!NewRow(s, heap[rids[i]])]
  OBVIOUS
<1>5. rids \in Seq(Nat) /\ Chosen(w, rids, todo)
  <2> HIDE DEF todo
  <2> QED
    BY <1>2, <1>4, SelectChooses
<1> HIDE DEF rids
<1>6. DOMAIN rids = 1 .. Len(rids) /\ Len(rids) \in Nat /\ \A i \in DOMAIN rids : rids[i] \in Nat
  BY <1>5, Elements
<1>7. /\ \A i \in DOMAIN rids : rids[i] \in Rids(heap) /\ heap[rids[i]] \in RowType
      /\ \A i, j \in DOMAIN rids : rids[i] = rids[j] => i = j
  BY <1>5 DEF Chosen
<1> HIDE DEF todo, st
<1>8. st.kind = "UPDATE" /\ st.todo = todo /\ st.before = Rows(heap)
  BY DEF Started, st
<1>9. ASSUME ok, todo # <<>>
      PROVE  /\ todo \in Seq(Work) /\ Current(heap, st)
             /\ torn = FALSE => Keyed(heap, st) /\ Outcome(heap, st)
  <2>1. ASSUME NEW i \in DOMAIN rids
        PROVE  /\ todo[i].new \in RowType
               /\ s.id = "keep" => todo[i].new.id = heap[rids[i]].id
    BY <1>4, <1>7, <1>9, NewRowIs
  <2>2. todo \in Seq(Work)
    <3>1. \A i \in DOMAIN rids : todo[i] \in Work
      BY <1>4, <1>6, <1>7, <2>1 DEF Work, Slot
    <3>2. todo = [i \in DOMAIN rids |-> todo[i]]
      BY DEF todo
    <3>3. todo \in [1 .. Len(rids) -> Work]
      BY <1>6, <3>1, <3>2
    <3> QED
      BY <1>6, <3>3, SequenceOf
  <2>3. Current(heap, st)
    BY <1>4, <1>7, <1>8, <2>1 DEF Current
  <2>4. ASSUME torn = FALSE
        PROVE  /\ \A i, j \in DOMAIN todo : todo[i].new.id = todo[j].new.id => i = j
               /\ \A k \in Rids(heap), j \in DOMAIN todo :
                    heap[k].id = todo[j].new.id => \E i \in DOMAIN todo : todo[i].rid = k
    <3>1. CASE s.id = "keep"
      <4>1. \A i, j \in Rids(heap) : heap[i].id = heap[j].id => i = j
        BY <1>2, <2>4 DEF Distinct
      <4>2. \A i \in DOMAIN todo : todo[i].new.id = heap[rids[i]].id /\ todo[i].rid = rids[i] /\ rids[i] \in Rids(heap)
        BY <1>4, <1>7, <2>1, <3>1
      <4> QED
        BY <1>4, <1>7, <4>1, <4>2
    <3>2. CASE s.id # "keep"
      <4>1. ~KeyClashes(todo)
        BY <1>9, <3>2
      <4>2. \A i \in DOMAIN todo : todo[i].new \in RowType
        BY <1>4, <2>1
      <4> QED
        BY <1>2, <1>4, <1>6, <4>1, <4>2, NoClash
    <3> QED
      BY <3>1, <3>2
  <2>5. ASSUME torn = FALSE PROVE Keyed(heap, st)
    <3>1. Rest(heap, st) \subseteq Rids(heap) /\ \A i \in Rest(heap, st) : ~\E j \in DOMAIN todo : todo[j].rid = i
      BY <1>8 DEF Rest
    <3>2. \A i, j \in Rest(heap, st) : heap[i].id = heap[j].id => i = j
      BY <1>2, <2>5, <3>1 DEF Distinct
    <3>3. \A i \in Rest(heap, st), j \in DOMAIN st.todo : heap[i].id # st.todo[j].new.id
      BY <1>8, <2>4, <2>5, <3>1
    <3>4. \A i, j \in DOMAIN st.todo : st.todo[i].new.id = st.todo[j].new.id => i = j
      BY <1>8, <2>4, <2>5
    <3> QED
      BY <3>2, <3>3, <3>4 DEF Keyed
  <2>6. ASSUME torn = FALSE PROVE Outcome(heap, st)
    <3> DEFINE N == Len(rids)
               S == Selected(w, st.before)
               F == [r \in S |-> R!NewRow(s, r)]
               old == [i \in 1 .. N |-> heap[rids[i]]]
               new == [i \in 1 .. N |-> todo[i].new]
    <3>1. RestRows(heap, st) = st.before \ S /\ S = {heap[rids[i]] : i \in DOMAIN rids}
      BY <1>5, <1>8, ChosenRest
    <3> HIDE DEF S
    <3>2. S = {old[i] : i \in 1 .. N}
      BY <1>6, <3>1
    <3>3. \A i \in 1 .. N : new[i] = F[old[i]]
      BY <1>4, <1>6, <3>1
    <3>4. \A i, j \in 1 .. N : new[i].id = new[j].id => i = j
      BY <1>4, <1>6, <2>4, <2>6
    <3>5. {F[r] : r \in S} = {R!NewRow(s, r) : r \in S}
      OBVIOUS
    <3>6. NewRows(st) = {new[i] : i \in 1 .. N}
      BY <1>4, <1>6, <1>8 DEF NewRows
    <3> HIDE DEF old, new, F
    <3>7. {F[r] : r \in S} = {new[i] : i \in 1 .. N} /\ Cardinality({F[r] : r \in S}) = Cardinality(S)
      <4>1. N \in Nat
        BY <1>6
      <4>2. Maps(N, old, F, new, S)
        BY <3>2, <3>3, <3>4 DEF Maps
      <4> HIDE DEF N
      <4>3. SameNumber(N, F, new, S)
        BY <4>1, <4>2, AsMany
      <4> QED
        BY <4>3 DEF SameNumber, N
    <3>8. LET nw == {R!NewRow(s, r) : r \in S}
          IN  /\ Cardinality(nw) = Cardinality(S)
              /\ RestRows(heap, st) \cup NewRows(st) = (st.before \ S) \cup nw
      BY <3>1, <3>5, <3>6, <3>7
    <3> QED
      BY <1>8, <3>8 DEF Outcome, S
  <2> QED
    BY <2>2, <2>3, <2>5, <2>6
<1> HIDE DEF ok
<1> QED
  BY <1>1, <1>3, <1>9, StartKeeps DEF st

-----------------------------------------------------------------------------
(* What the invariant says while a statement is writing; Without is the    *)
(* statement without the row that it is about to write.                    *)
Without == [stmt EXCEPT !.todo = Tail(@)]
(* The parts of the invariant that the writes use.                         *)
LEMMA FromWriting ==
  ASSUME TableInv, stmt # Idle
  PROVE  /\ heap \in Seq(Slot) /\ index = [c \in Columns |-> index[c]] /\ Indexed(heap, index)
         /\ log # Null => log \in Seq(Entry)
         /\ Logged(heap, log) /\ saved \in SUBSET RowType /\ torn \in BOOLEAN
         /\ stmt \in Statements /\ stmt.kind # "none" /\ stmt.todo # <<>>
         /\ Peeled(stmt, Without, Item) /\ Item \in Work /\ Current(heap, stmt)
         /\ torn = FALSE => /\ Keyed(heap, stmt) /\ Outcome(heap, stmt)
                            /\ log # Null => R!UniqueKeys(saved)
                            /\ stmt.done = 0 => Distinct(heap) /\ Rows(heap) = stmt.before
<1>1. /\ Types(heap, index, stmt, log, saved) /\ Logged(heap, log) /\ Indexed(heap, index)
      /\ Current(heap, stmt) /\ torn \in BOOLEAN /\ (torn = FALSE => Promises(heap, stmt, log, saved))
  BY DEF TableInv, Sound
<1>2. /\ heap \in Seq(Slot) /\ index = [c \in Columns |-> index[c]]
      /\ log # Null => log \in Seq(Entry)
      /\ saved \in SUBSET RowType
      /\ stmt \in Statements /\ stmt.kind # "none" /\ stmt.todo # <<>>
  BY <1>1 DEF Types, Statements
<1>3. Peeled(stmt, Without, Item) /\ Item \in Work
  BY <1>2, PeeledIs DEF Without, Item
<1>4. torn = FALSE => /\ Keyed(heap, stmt) /\ Outcome(heap, stmt)
                      /\ log # Null => R!UniqueKeys(saved)
                      /\ stmt.done = 0 => Distinct(heap) /\ Rows(heap) = stmt.before
  BY <1>1 DEF Promises
<1> QED
  BY <1>1, <1>2, <1>3, <1>4

(* A write: the heap has changed, the indexes and the log have followed,   *)
(* and what is left to do is as good as before, if the write succeeded.    *)
Writes ==
  /\ stmt # Idle /\ Written /\ saved' = saved /\ torn' \in BOOLEAN
  /\ heap' \in Seq(Slot) /\ Indexed(heap', index') /\ index' = [c \in Columns |-> index'[c]]
  /\ log' # Null => log' \in Seq(Entry) /\ log # Null
  /\ Logged(heap', log') /\ Current(heap', Without)
  /\ torn' = FALSE => torn = FALSE /\ Keyed(heap', Without) /\ Outcome(heap', Without)

(* The invariant after a write                                             *)
LEMMA WriteKeeps ==
  ASSUME TableInv, Writes
  PROVE  TableInv'
<1>0. /\ stmt # Idle /\ Written /\ saved' = saved /\ torn' \in BOOLEAN
      /\ heap' \in Seq(Slot) /\ Indexed(heap', index') /\ index' = [c \in Columns |-> index'[c]]
      /\ log' # Null => log' \in Seq(Entry) /\ log # Null
      /\ Logged(heap', log') /\ Current(heap', Without)
      /\ torn' = FALSE => torn = FALSE /\ Keyed(heap', Without) /\ Outcome(heap', Without)
  BY DEF Writes
<1>1. /\ saved \in SUBSET RowType /\ stmt \in Statements /\ stmt.kind # "none" /\ stmt.todo # <<>>
      /\ torn = FALSE => (log # Null => R!UniqueKeys(saved))
      /\ Peeled(stmt, Without, Item)
  BY <1>0, FromWriting
<1>2. Advanced(stmt, stmt') /\ Without = [stmt EXCEPT !.todo = Tail(@)]
  BY <1>0 DEF Written, Advanced, Without
<1>3. Without.kind = stmt.kind /\ Without.before = stmt.before
  BY <1>1 DEF Peeled
<1>4. /\ stmt' \in Statements /\ (stmt'.kind = "none" => stmt' = Idle) /\ (stmt' # Idle => stmt'.todo # <<>>)
      /\ stmt' = Idle => Without.todo = <<>> /\ stmt'.todo = <<>>
      /\ stmt' # Idle => stmt'.kind = stmt.kind /\ stmt'.before = stmt.before /\ stmt'.done # 0 /\ stmt'.todo = Without.todo
  BY <1>0, <1>1, <1>2, AdvancedIs
<1>5. /\ Current(heap', Without) => Current(heap', stmt')
      /\ Keyed(heap', Without) /\ Outcome(heap', Without) => Keyed(heap', stmt') /\ Outcome(heap', stmt')
  BY <1>3, <1>4, AdvancedKeeps
<1>6. Types(heap', index', stmt', log', saved')
  BY <1>0, <1>1, <1>4 DEF Types, Statements
<1>7. torn' = FALSE => Promises(heap', stmt', log', saved')
  BY <1>0, <1>1, <1>4, <1>5 DEF Promises
<1>8. Sound(heap', index', stmt', log', saved', torn')
  BY <1>0, <1>5, <1>6, <1>7 DEF Sound
<1> QED
  BY <1>8 DEF TableInv

(* The record of a write                                                   *)
LEMMA LogMore ==
  ASSUME log # Null => log \in Seq(Entry), Logged(heap, log), NEW rid \in Nat, wal_log(rid),
         stmt.kind \in {"INSERT", "UPDATE", "DELETE"}, Item.old \in Slot,
         stmt.kind # "INSERT" => Item.old \in RowType,
         DOMAIN heap \subseteq DOMAIN heap', rid \in DOMAIN heap'
  PROVE  (log' # Null => log' \in Seq(Entry) /\ log # Null) /\ Logged(heap', log')
<1>1. CASE log = Null
  BY <1>1 DEF wal_log, Logged
<1>2. CASE log # Null
  <2> DEFINE e == [type |-> stmt.kind, rid |-> rid, old |-> Item.old]
             l == Append(log, e)
  <2>1. log' = l
    BY <1>2 DEF wal_log
  <2>2. e \in Entry /\ e.rid = rid /\ e.old = Item.old /\ e.type = stmt.kind
    BY DEF Entry
  <2>3. log \in Seq(Entry)
    BY <1>2
  <2> HIDE DEF e
  <2>4. /\ l \in Seq(Entry) /\ DOMAIN log = 1 .. Len(log) /\ DOMAIN l = 1 .. Len(log) + 1 /\ Len(log) \in Nat
        /\ \A i \in DOMAIN log : l[i] = log[i]
        /\ l[Len(log) + 1] = e
    BY <2>2, <2>3, AppendElements
  <2> HIDE DEF l
  <2>5. \A i \in DOMAIN log : log[i].rid \in DOMAIN heap /\ (log[i].type # "INSERT" => log[i].old \in RowType)
    BY <1>2 DEF Logged
  <2>6. ASSUME NEW i \in DOMAIN l
        PROVE  l[i].rid \in DOMAIN heap' /\ (l[i].type # "INSERT" => l[i].old \in RowType)
    <3>1. CASE i \in DOMAIN log
      BY <2>4, <2>5, <3>1
    <3>2. CASE i \notin DOMAIN log
      <4>1. i = Len(log) + 1
        BY <2>4, <3>2
      <4> QED
        BY <2>2, <2>4, <4>1
    <3> QED
      BY <3>1, <3>2
  <2> QED
    BY <1>2, <2>1, <2>4, <2>6 DEF Logged
<1> QED
  BY <1>1, <1>2

(* One row of an INSERT                                                    *)
LEMMA WriteInsertIs ==
  ASSUME TableInv, WriteInsert
  PROVE  Writes
<1>1. /\ stmt.kind = "INSERT" /\ heap' = Append(heap, Item.new) /\ wal_log(NewRid)
      /\ index' = mi_on_insert(index, Item.new, NewRid) /\ Written
      /\ saved' = saved /\ torn' = torn /\ NewRid = Len(heap) + 1
  BY DEF WriteInsert, NewRid
<1>2. stmt # Idle
  BY <1>1 DEF Idle
<1>3. /\ heap \in Seq(Slot) /\ Indexed(heap, index)
      /\ log # Null => log \in Seq(Entry)
      /\ Logged(heap, log) /\ torn \in BOOLEAN
      /\ Peeled(stmt, Without, Item) /\ Item \in Work /\ Current(heap, stmt)
      /\ torn = FALSE => Keyed(heap, stmt) /\ Outcome(heap, stmt)
  BY <1>2, FromWriting
<1>4. Item.new \in RowType /\ Item.rid = 0
  BY <1>1, <1>3, ItemCurrent
<1>5. /\ heap' \in Seq(Slot) /\ DOMAIN heap \subseteq DOMAIN heap'
      /\ Gains(heap, heap', NewRid, Item.new)
  BY <1>1, <1>3, <1>4, HeapAppend
<1>6. Indexed(heap', index') /\ index' = [c \in Columns |-> index'[c]]
  BY <1>1, <1>3, <1>4, <1>5, OnInsert
<1>7. /\ NewRid \in Nat /\ NewRid \notin Rids(heap) /\ NewRid # 0 /\ Rids(heap') = Rids(heap) \cup {NewRid}
      /\ heap'[NewRid] = Item.new /\ \A i \in Rids(heap) : heap'[i] = heap[i]
      /\ 0 \notin Rids(heap)
  <2>1. Len(heap) \in Nat
    BY <1>3, HeapRows
  <2>2. NewRid # 0
    BY <1>1, <2>1
  <2> QED
    BY <1>3, <1>5, <2>2, HeapRows DEF Gains
<1>8. Puts(heap, heap', Item, NewRid)
  BY <1>4, <1>7 DEF Puts
<1>9. NewRid \in DOMAIN heap'
  BY <1>7 DEF Rids
<1>10. (log' # Null => log' \in Seq(Entry) /\ log # Null) /\ Logged(heap', log')
  <2>1. Item.old \in Slot
    BY <1>3 DEF Work
  <2> QED
    BY <1>1, <1>3, <1>5, <1>7, <1>9, <2>1, LogMore
<1>11. Current(heap', Without)
  BY <1>1, <1>3, OthersCurrent
<1>12. torn = FALSE => Keyed(heap', Without) /\ Outcome(heap', Without)
  BY <1>1, <1>3, <1>8, PutsPromise
<1> QED
  BY <1>1, <1>2, <1>3, <1>5, <1>6, <1>10, <1>11, <1>12 DEF Writes

(* One row of a DELETE                                                     *)
LEMMA WriteDeleteIs ==
  ASSUME TableInv, WriteDelete
  PROVE  Writes
<1>1. /\ stmt.kind = "DELETE" /\ heap' = [heap EXCEPT ![Item.rid] = Null] /\ wal_log(Item.rid)
      /\ index' = mi_on_delete(Item.old, Item.rid) /\ Written
      /\ saved' = saved /\ torn' = torn
  BY DEF WriteDelete
<1>2. stmt # Idle
  BY <1>1 DEF Idle
<1>3. /\ heap \in Seq(Slot) /\ Indexed(heap, index)
      /\ log # Null => log \in Seq(Entry)
      /\ Logged(heap, log) /\ torn \in BOOLEAN
      /\ Peeled(stmt, Without, Item) /\ Item \in Work /\ Current(heap, stmt)
      /\ torn = FALSE => Keyed(heap, stmt) /\ Outcome(heap, stmt)
  BY <1>2, FromWriting
<1>4. Item.rid \in Rids(heap) /\ Item.old = heap[Item.rid]
  BY <1>1, <1>3, ItemCurrent
<1>5. Item.old \in RowType /\ Item.rid \in DOMAIN heap /\ Item.rid \in Nat /\ Item.old \in Slot
  BY <1>3, <1>4, HeapRows DEF Work
<1>6. /\ heap' \in Seq(Slot) /\ DOMAIN heap' = DOMAIN heap /\ Loses(heap, heap', Item.rid, Item.old)
  BY <1>1, <1>3, <1>4, <1>5, HeapErase
<1>7. Indexed(heap', index') /\ index' = [c \in Columns |-> index'[c]]
  BY <1>1, <1>3, <1>5, <1>6, OnDelete
<1>8. (log' # Null => log' \in Seq(Entry) /\ log # Null) /\ Logged(heap', log')
  BY <1>1, <1>3, <1>5, <1>6, LogMore
<1>9. \A i \in Rids(heap) : i # Item.rid => i \in Rids(heap') /\ heap'[i] = heap[i]
  BY <1>6 DEF Loses
<1>10. Current(heap', Without)
  BY <1>3, <1>9, OthersCurrent
<1>11. torn = FALSE => Keyed(heap', Without) /\ Outcome(heap', Without)
  BY <1>1, <1>3, <1>6, DropPromise
<1> QED
  BY <1>1, <1>2, <1>3, <1>6, <1>7, <1>8, <1>10, <1>11 DEF Writes

(* One row of an UPDATE: the old row leaves, the new one gets a new id.    *)
LEMMA WriteUpdateIs ==
  ASSUME TableInv, WriteUpdate
  PROVE  Writes
<1> DEFINE gone == [heap EXCEPT ![Item.rid] = Null]
           ixs == mi_on_delete(Item.old, Item.rid)
<1>1. /\ stmt.kind = "UPDATE" /\ heap' = Append(gone, Item.new) /\ wal_log(Item.rid)
      /\ index' = mi_on_insert(ixs, Item.new, NewRid) /\ Written
      /\ saved' = saved /\ torn' = torn /\ NewRid = Len(heap) + 1
  BY DEF WriteUpdate, NewRid
<1>2. stmt # Idle
  BY <1>1 DEF Idle
<1>3. /\ heap \in Seq(Slot) /\ Indexed(heap, index)
      /\ log # Null => log \in Seq(Entry)
      /\ Logged(heap, log) /\ torn \in BOOLEAN
      /\ Peeled(stmt, Without, Item) /\ Item \in Work /\ Current(heap, stmt)
      /\ torn = FALSE => Keyed(heap, stmt) /\ Outcome(heap, stmt)
  BY <1>2, FromWriting
<1>4. Item.rid \in Rids(heap) /\ Item.old = heap[Item.rid] /\ Item.new \in RowType
  BY <1>1, <1>3, ItemCurrent
<1>5. Item.old \in RowType /\ Item.rid \in DOMAIN heap /\ Item.rid \in Nat /\ Item.old \in Slot
  BY <1>3, <1>4, HeapRows DEF Work
<1> HIDE DEF gone
<1>6. /\ gone \in Seq(Slot) /\ DOMAIN gone = DOMAIN heap /\ Len(gone) = Len(heap)
      /\ Loses(heap, gone, Item.rid, Item.old)
  BY <1>3, <1>4, <1>5, HeapErase DEF gone
<1>7. Indexed(gone, ixs)
  BY <1>3, <1>5, <1>6, OnDelete
<1> HIDE DEF ixs
<1>8. /\ heap' \in Seq(Slot) /\ DOMAIN gone \subseteq DOMAIN heap'
      /\ Gains(gone, heap', NewRid, Item.new) /\ NewRid \notin DOMAIN gone
  BY <1>1, <1>4, <1>6, HeapAppend
<1>9. Indexed(heap', index') /\ index' = [c \in Columns |-> index'[c]]
  BY <1>1, <1>4, <1>7, <1>8, OnInsert
<1>10. (log' # Null => log' \in Seq(Entry) /\ log # Null) /\ Logged(heap', log')
  BY <1>1, <1>3, <1>5, <1>6, <1>8, LogMore
<1>11. /\ Rids(gone) = Rids(heap) \ {Item.rid} /\ \A i \in Rids(gone) : gone[i] = heap[i]
       /\ Rids(heap') = Rids(gone) \cup {NewRid}
       /\ heap'[NewRid] = Item.new /\ \A i \in Rids(gone) : heap'[i] = gone[i]
  BY <1>6, <1>8 DEF Gains, Loses
<1>12. NewRid \notin Rids(heap) /\ NewRid # 0
  <2>1. Len(heap) \in Nat /\ Rids(heap) \subseteq DOMAIN heap
    BY <1>3, HeapRows
  <2> QED
    BY <1>1, <1>6, <1>8, <2>1
<1>13. \A i \in Rids(heap) : i # Item.rid => i \in Rids(heap') /\ heap'[i] = heap[i]
  BY <1>11
<1>14. Puts(heap, heap', Item, NewRid)
  BY <1>11, <1>12, <1>13 DEF Puts
<1>15. Current(heap', Without)
  BY <1>3, <1>13, OthersCurrent
<1>16. torn = FALSE => Keyed(heap', Without) /\ Outcome(heap', Without)
  BY <1>1, <1>3, <1>14, PutsPromise
<1> QED
  BY <1>1, <1>2, <1>3, <1>8, <1>9, <1>10, <1>15, <1>16 DEF Writes

-----------------------------------------------------------------------------
(* INSERT and UPDATE that end with an error                                *)
LEMMA AbortKeeps ==
  ASSUME TableInv, stmt # Idle, NEW lost \in BOOLEAN, Abort(lost), heap' \in Seq(Slot), Logged(heap', log),
         lost = FALSE => heap' = heap
  PROVE  TableInv'
<1>1. /\ index' = NoIndexes /\ stmt' = Idle /\ torn' = (torn \/ stmt.done > 0 \/ lost)
      /\ log' = log /\ saved' = saved
  BY DEF Abort, mi_invalidate_table
<1>2. /\ log # Null => log \in Seq(Entry)
      /\ saved \in SUBSET RowType /\ torn \in BOOLEAN /\ stmt \in Statements
      /\ torn = FALSE => /\ log # Null => R!UniqueKeys(saved)
                         /\ stmt.done = 0 => Distinct(heap)
  BY FromWriting
<1>3. stmt.done \in Nat
  BY <1>2 DEF Statements
<1>4. torn' \in BOOLEAN /\ (torn' = FALSE => torn = FALSE /\ stmt.done = 0 /\ lost = FALSE)
  <2>1. stmt.done # 0 => stmt.done > 0
    BY <1>3
  <2> DEFINE some == stmt.done > 0
  <2>2. torn' = (torn \/ some \/ lost) /\ (stmt.done # 0 => some)
    BY <1>1, <2>1
  <2> HIDE DEF some
  <2>3. (torn \/ some \/ lost) \in BOOLEAN
    OBVIOUS
  <2>4. torn' = FALSE => ~torn /\ ~some /\ ~lost
    BY <2>2
  <2> QED
    BY <1>2, <2>2, <2>3, <2>4
<1>5. torn' = FALSE => Distinct(heap') /\ (log # Null => R!UniqueKeys(saved))
  BY <1>2, <1>4
<1>6. Sound(heap', NoIndexes, Idle, log, saved, torn')
  BY <1>2, <1>4, <1>5, NoneIndexed, Settled
<1> QED
  BY <1>1, <1>6 DEF TableInv

(* A write that fails before it has changed the row                        *)
LEMMA FailsKeeps ==
  ASSUME TableInv, InsertFails \/ UpdateFailsOld
  PROVE  TableInv'
<1>1. stmt # Idle /\ heap' = heap /\ Abort(FALSE)
  <2>1. Idle.kind = "none"
    BY DEF Idle
  <2>2. stmt.kind \in {"INSERT", "UPDATE"} /\ heap' = heap /\ Abort(FALSE)
    BY DEF InsertFails, UpdateFailsOld
  <2> QED
    BY <2>1, <2>2
<1>2. heap \in Seq(Slot) /\ Logged(heap, log)
  BY <1>1, FromWriting
<1> QED
  BY <1>1, <1>2, AbortKeeps

(* A heap with the same slots keeps the log good.                          *)
LEMMA LoggedStill ==
  ASSUME NEW h, NEW h2, NEW lg, Logged(h, lg), DOMAIN h \subseteq DOMAIN h2
  PROVE  Logged(h2, lg)
BY DEF Logged

(* An UPDATE that has deleted the old row and cannot insert the new one    *)
LEMMA UpdateFailsNewKeeps ==
  ASSUME TableInv, UpdateFailsNew
  PROVE  TableInv'
<1>1. stmt.kind = "UPDATE" /\ heap' = [heap EXCEPT ![Item.rid] = Null] /\ Abort(TRUE)
  BY DEF UpdateFailsNew
<1>2. stmt # Idle
  BY <1>1 DEF Idle
<1>3. /\ heap \in Seq(Slot) /\ Logged(heap, log)
      /\ Peeled(stmt, Without, Item) /\ Current(heap, stmt)
  BY <1>2, FromWriting
<1>4. Item.rid \in Rids(heap)
  BY <1>1, <1>3, ItemCurrent
<1>5. Item.rid \in DOMAIN heap
  BY <1>4 DEF Rids
<1>6. heap' \in Seq(Slot) /\ DOMAIN heap' = DOMAIN heap
  BY <1>1, <1>3, <1>5, HeapErase
<1>7. Logged(heap', log)
  BY <1>3, <1>6, LoggedStill
<1> QED
  BY <1>1, <1>2, <1>6, <1>7, AbortKeeps

(* A row that DELETE cannot fetch: it has logged it, and goes on.          *)
LEMMA DeleteFailsIs ==
  ASSUME TableInv, DeleteFails
  PROVE  Writes
<1>1. /\ stmt.kind = "DELETE" /\ heap' = heap /\ wal_log(Item.rid)
      /\ index' = NoIndexes /\ Written /\ saved' = saved /\ torn' = TRUE
  BY DEF DeleteFails, mi_invalidate_table
<1>2. stmt # Idle
  BY <1>1 DEF Idle
<1>3. /\ heap \in Seq(Slot)
      /\ log # Null => log \in Seq(Entry)
      /\ Logged(heap, log)
      /\ Peeled(stmt, Without, Item) /\ Item \in Work /\ Current(heap, stmt)
  BY <1>2, FromWriting
<1>4. Item.rid \in Rids(heap) /\ Item.old = heap[Item.rid]
  BY <1>1, <1>3, ItemCurrent
<1>5. Item.old \in RowType /\ Item.rid \in DOMAIN heap /\ Item.rid \in Nat /\ Item.old \in Slot
  BY <1>3, <1>4, HeapRows DEF Work
<1>6. (log' # Null => log' \in Seq(Entry) /\ log # Null) /\ Logged(heap', log')
  BY <1>1, <1>3, <1>5, LogMore
<1>7. Current(heap', Without)
  <2>1. Current(heap, Without)
    BY <1>3, OthersCurrent
  <2> QED
    BY <1>1, <2>1
<1>8. Indexed(heap', index') /\ index' = [c \in Columns |-> index'[c]]
  BY <1>1, NoneIndexed
<1> QED
  BY <1>1, <1>2, <1>3, <1>6, <1>7, <1>8 DEF Writes

-----------------------------------------------------------------------------
(* TRUNCATE                                                                *)
LEMMA TruncateKeeps ==
  ASSUME TableInv, Truncate
  PROVE  TableInv'
<1>1. /\ stmt = Idle /\ heap' = [i \in DOMAIN heap |-> Null] /\ index' = NoIndexes
      /\ stmt' = stmt /\ log' = log /\ saved' = saved /\ torn' = torn
  BY DEF Truncate, mi_invalidate_table
<1>2. /\ heap \in Seq(Slot)
      /\ log # Null => log \in Seq(Entry)
      /\ Logged(heap, log) /\ saved \in SUBSET RowType /\ torn \in BOOLEAN
      /\ torn = FALSE => (log # Null => R!UniqueKeys(saved))
  BY <1>1, FromSettled
<1>3. heap' \in Seq(Slot)
  <2>1. DOMAIN heap = 1 .. Len(heap) /\ Len(heap) \in Nat
    BY <1>2, HeapRows
  <2>2. Null \in Slot
    BY DEF Slot
  <2>3. heap' \in [1 .. Len(heap) -> Slot]
    BY <1>1, <2>1, <2>2
  <2> QED
    BY <2>1, <2>3, SequenceOf
<1>4. DOMAIN heap' = DOMAIN heap /\ \A i \in DOMAIN heap : heap'[i] = Null
  BY <1>1
<1>5. Distinct(heap')
  BY <1>4 DEF Rids, Distinct
<1>6. Logged(heap', log)
  BY <1>2, <1>4, LoggedStill
<1>7. Sound(heap', NoIndexes, Idle, log, saved, torn)
  BY <1>2, <1>3, <1>5, <1>6, NoneIndexed, Settled
<1> QED
  BY <1>1, <1>7 DEF TableInv

(* The statements that only drop the indexes                               *)
LEMMA InvalidateKeeps ==
  ASSUME TableInv, CreateIndex \/ DropIndex \/ Rename
  PROVE  TableInv'
<1>1. /\ stmt = Idle /\ heap' = heap /\ index' = NoIndexes
      /\ stmt' = stmt /\ log' = log /\ saved' = saved /\ torn' = torn
  BY DEF CreateIndex, DropIndex, Rename, mi_invalidate_table
<1>2. /\ heap \in Seq(Slot)
      /\ log # Null => log \in Seq(Entry)
      /\ Logged(heap, log) /\ saved \in SUBSET RowType /\ torn \in BOOLEAN
      /\ torn = FALSE => Distinct(heap) /\ (log # Null => R!UniqueKeys(saved))
  BY <1>1, FromSettled
<1>3. Sound(heap, NoIndexes, Idle, log, saved, torn)
  BY <1>2, NoneIndexed, Settled
<1> QED
  BY <1>1, <1>3 DEF TableInv

(* BEGIN and COMMIT                                                        *)
LEMMA BeginKeeps ==
  ASSUME TableInv, Begin \/ Commit
  PROVE  TableInv'
<1>1. /\ stmt = Idle /\ heap' = heap /\ index' = index /\ stmt' = stmt /\ torn' = torn
      /\ \/ log' = <<>> /\ saved' = Rows(heap)
         \/ log' = Null /\ saved' = {}
  BY DEF Begin, Commit
<1>2. /\ heap \in Seq(Slot) /\ index = [c \in Columns |-> index[c]] /\ Indexed(heap, index)
      /\ torn \in BOOLEAN /\ (torn = FALSE => Distinct(heap))
  BY <1>1, FromSettled
<1>3. Rows(heap) \in SUBSET RowType
  BY <1>2, HeapRows
<1>4. Logged(heap, <<>>) /\ Logged(heap, Null) /\ <<>> \in Seq(Entry)
  BY DEF Logged
<1>5. Distinct(heap) => R!UniqueKeys(Rows(heap))
  BY DEF Distinct, Rows, R!UniqueKeys
<1>6. saved' \in SUBSET RowType /\ Logged(heap, log') /\ (log' # Null => log' \in Seq(Entry))
  BY <1>1, <1>3, <1>4
<1>7. torn = FALSE => Distinct(heap) /\ (log' # Null => R!UniqueKeys(saved'))
  BY <1>1, <1>2, <1>5
<1>8. Sound(heap, index, Idle, log', saved', torn)
  BY <1>2, <1>6, <1>7, Settled
<1> QED
  BY <1>1, <1>8 DEF TableInv

(* As many row ids as rows, and no key twice among the rows: no key twice  *)
(* among the row ids.                                                      *)
LEMMA DistinctRows ==
  ASSUME NEW h \in Seq(Slot), Cardinality(Rids(h)) = Cardinality(Rows(h)), R!UniqueKeys(Rows(h))
  PROVE  Distinct(h)
<1> DEFINE f == [i \in Rids(h) |-> h[i]]
<1>1. IsFiniteSet(Rids(h))
  <2>1. Len(h) \in Nat /\ Rids(h) \in SUBSET (1 .. Len(h))
    BY HeapRows
  <2>2. IsFiniteSet(1 .. Len(h))
    BY <2>1, FS_Interval
  <2> QED
    BY <2>1, <2>2, FS_Subset
<1>2. f \in Surjection(Rids(h), Rows(h))
  BY DEF Surjection, Rows
<1>3. DOMAIN f = Rids(h) /\ \A i \in Rids(h) : f[i] = h[i]
  OBVIOUS
<1> HIDE DEF f
<1>4. f \in Injection(Rids(h), Rows(h))
  BY <1>1, <1>2, FS_Surjection
<1>5. \A i, j \in Rids(h) : f[i] = f[j] => i = j
  BY <1>3, <1>4 DEF Injection, IsInjective
<1>6. \A i, j \in Rids(h) : h[i].id = h[j].id => h[i] = h[j]
  BY DEF R!UniqueKeys, Rows
<1> QED
  BY <1>3, <1>5, <1>6 DEF Distinct

(* ROLLBACK                                                                *)
LEMMA RollbackKeeps ==
  ASSUME TableInv, Rollback
  PROVE  TableInv'
<1>1. /\ stmt = Idle /\ log # Null /\ heap' = Undone /\ index' = NoIndexes
      /\ log' = Null /\ saved' = {} /\ stmt' = stmt
      /\ torn' = (torn \/ Rows(Undone) # saved
                       \/ Cardinality(Rids(Undone)) # Cardinality(saved))
  BY DEF Rollback, executor_invalidate_indexes
<1>2. /\ heap \in Seq(Slot) /\ log \in Seq(Entry)
      /\ Logged(heap, log) /\ saved \in SUBSET RowType /\ torn \in BOOLEAN
      /\ torn = FALSE => R!UniqueKeys(saved)
  BY <1>1, FromSettled
<1>3. Undone \in Seq(Slot)
  BY <1>1, <1>2, UndoneReaches
<1>4. torn' \in BOOLEAN
  BY <1>1, <1>2
<1>5. torn' = FALSE => Distinct(Undone)
  <2> HAVE torn' = FALSE
  <2>1. torn = FALSE /\ Rows(Undone) = saved /\ Cardinality(Rids(Undone)) = Cardinality(saved)
    BY <1>1, <1>2
  <2> QED
    BY <1>2, <1>3, <2>1, DistinctRows
<1>6. Logged(Undone, Null)
  BY DEF Logged
<1>7. Sound(Undone, NoIndexes, Idle, Null, {}, torn')
  <2>1. {} \in SUBSET RowType
    OBVIOUS
  <2> QED
    BY <1>3, <1>4, <1>5, <1>6, <2>1, NoneIndexed, Settled
<1> QED
  BY <1>1, <1>7 DEF TableInv

-----------------------------------------------------------------------------
(* The invariant holds at the start,                                       *)
LEMMA TableInit == Init => TableInv
<1> SUFFICES ASSUME Init PROVE TableInv
  OBVIOUS
<1>1. heap = <<>> /\ index = NoIndexes /\ stmt = Idle /\ log = Null /\ saved = {} /\ torn = FALSE
  BY DEF Init
<1>2. <<>> \in Seq(Slot) /\ Logged(<<>>, Null)
  BY DEF Logged
<1>3. Distinct(<<>>)
  BY DEF Distinct, Rids
<1>4. Sound(<<>>, NoIndexes, Idle, Null, {}, FALSE)
  <2>1. {} \in SUBSET RowType
    OBVIOUS
  <2> QED
    BY <1>2, <1>3, <2>1, NoneIndexed, Settled
<1> QED
  BY <1>1, <1>4 DEF TableInv

(* and every step keeps it.                                                *)
LEMMA TableNext == TableInv /\ [Next]_vars => TableInv'
<1> SUFFICES ASSUME TableInv, [Next]_vars PROVE TableInv'
  OBVIOUS
<1>1. ASSUME NEW batch \in Batches, Insert(batch) PROVE TableInv'
  BY <1>1, InsertKeeps
<1>2. ASSUME NEW w \in Wheres, NEW s \in Sets, Update(w, s) PROVE TableInv'
  BY <1>2, UpdateKeeps
<1>3. ASSUME NEW w \in Wheres, Delete(w) PROVE TableInv'
  BY <1>3, DeleteKeeps
<1>4. ASSUME NEW w \in Wheres, Select(w) PROVE TableInv'
  BY <1>4, SelectKeeps
<1>5. CASE WriteInsert \/ WriteUpdate \/ WriteDelete \/ DeleteFails
  BY <1>5, WriteInsertIs, WriteUpdateIs, WriteDeleteIs, DeleteFailsIs, WriteKeeps
<1>6. CASE InsertFails \/ UpdateFailsOld
  BY <1>6, FailsKeeps
<1>7. CASE UpdateFailsNew
  BY <1>7, UpdateFailsNewKeeps
<1>8. CASE Truncate
  BY <1>8, TruncateKeeps
<1>9. CASE CreateIndex \/ DropIndex \/ Rename
  BY <1>9, InvalidateKeeps
<1>10. CASE Begin \/ Commit
  BY <1>10, BeginKeeps
<1>11. CASE Rollback
  BY <1>11, RollbackKeeps
<1>12. CASE UNCHANGED vars
  <2>1. /\ heap' = heap /\ index' = index /\ stmt' = stmt /\ log' = log /\ saved' = saved
        /\ torn' = torn
    BY <1>12 DEF vars
  <2> QED
    BY <2>1 DEF TableInv
<1> QED
  BY <1>1, <1>2, <1>3, <1>4, <1>5, <1>6, <1>7, <1>8, <1>9, <1>10, <1>11, <1>12 DEF Next

(* The invariant holds in every reachable state: the indexes, the work of  *)
(* the running statement, the log and, until a failure, the promises.      *)
THEOREM TableInvariant == Spec => []TableInv
BY TableInit, TableNext, PTL DEF Spec

(* A list of distinct elements is as long as the set of them.              *)
LEMMA OnceCounts ==
  ASSUME NEW l \in Seq(Nat), Once(l)
  PROVE  Len(l) = Cardinality(ToSet(l))
<1> DEFINE D == 1 .. Len(l)
           f == [i \in D |-> l[i]]
           T == ToSet(l)
<1>1. DOMAIN l = D /\ Len(l) \in Nat
  OBVIOUS
<1>2. T = {l[i] : i \in D}
  BY <1>1 DEF ToSet
<1> HIDE DEF T
<1>3. f \in Surjection(D, T)
  BY <1>2 DEF Surjection
<1>4. DOMAIN f = D /\ \A i \in D : f[i] = l[i]
  OBVIOUS
<1>5. \A i, j \in D : l[i] = l[j] => i = j
  BY <1>1 DEF Once
<1>6. f \in Injection(D, T)
  <2>1. f \in [D -> T]
    BY <1>2
  <2> HIDE DEF f
  <2> QED
    BY <1>4, <1>5, <2>1 DEF Injection, IsInjective
<1>7. IsFiniteSet(D) /\ Cardinality(D) = Len(l)
  <2>1. IsFiniteSet(1 .. Len(l)) /\ Cardinality(1 .. Len(l)) = IF 1 > Len(l) THEN 0 ELSE Len(l) - 1 + 1
    BY <1>1, FS_Interval
  <2> QED
    BY <1>1, <2>1
<1> HIDE DEF f, D
<1>8. Cardinality(T) = Cardinality(D)
  BY <1>3, <1>6, <1>7, FS_Surjection
<1> QED
  BY <1>7, <1>8 DEF T

(* An index that exists lists, for every value, exactly the rows that hold *)
(* it, each once, and AUTO_INCREMENT starts after every key: whatever      *)
(* statement, failure, ROLLBACK or DDL came before.                        *)
THEOREM IndexesMatchHeapSafe == Spec => []IndexesMatchHeap
<1>1. TableInv => IndexesMatchHeap
  <2> SUFFICES ASSUME TableInv, NEW c \in Columns, index[c] # Null, NEW x \in Values(c)
               PROVE  /\ ToSet(index[c].list[x]) = {i \in Rids(heap) : heap[i][c] = x}
                      /\ Len(index[c].list[x]) = Cardinality(ToSet(index[c].list[x]))
                      /\ c = "id" /\ index[c].list[x] # <<>> => x <= index[c].max
    BY DEF IndexesMatchHeap
  <2>1. Lists(heap, c, index[c])
    BY DEF TableInv, Sound, Indexed
  <2>2. /\ index[c] \in Listing(c)
        /\ ToSet(index[c].list[x]) = Holders(heap, c, x) /\ Once(index[c].list[x])
        /\ c = "id" /\ index[c].list[x] # <<>> => x <= index[c].max
    BY <2>1 DEF Lists
  <2>3. index[c].list[x] \in Seq(Nat)
    BY <2>2 DEF Listing
  <2>4. Len(index[c].list[x]) = Cardinality(ToSet(index[c].list[x]))
    BY <2>2, <2>3, OnceCounts
  <2> QED
    BY <2>2, <2>4 DEF Holders
<1> QED
  BY <1>1, TableInvariant, PTL

-----------------------------------------------------------------------------
(* The statements implement KeyedRows. Rel: the rows as the clients see    *)
(* them, all of a statement at once, when its last row is written.         *)
Rel == IF stmt = Idle THEN Rows(heap) ELSE stmt.before
Step == [R!RowsNext]_(R!rowsVars)

(* Cardinality is the same in both modules.                                *)
LEMMA SameCardinality == ASSUME NEW S PROVE R!Cardinality(S) = Cardinality(S)
BY DEF Cardinality, R!Cardinality

(* A step that leaves these rows alone                                     *)
LEMMA Stutters ==
  ASSUME Rel' = Rel, saved' = saved, torn' = torn
  PROVE  Step
BY DEF Step, Rel, R!rowsVars

(* A failure, after which nothing is promised                              *)
LEMMA Damages ==
  ASSUME torn' = TRUE
  PROVE  Step
BY DEF Step, R!RowsNext, R!Damage

(* The start of a statement changes no row.                                *)
LEMMA StartStutters ==
  ASSUME stmt = Idle, NEW kind \in {"INSERT", "UPDATE", "DELETE"}, NEW ok, NEW todo, Proceed(kind, ok, todo)
  PROVE  Step
<1>1. /\ heap' = heap /\ saved' = saved /\ torn' = torn
      /\ stmt' = Idle \/ stmt' = Started(kind, todo)
  BY DEF Proceed, Started
<1>2. Started(kind, todo) # Idle /\ Started(kind, todo).before = Rows(heap)
  BY DEF Started, Idle
<1>3. Rel' = Rows(heap) /\ Rel = Rows(heap)
  BY <1>1, <1>2 DEF Rel
<1> QED
  BY <1>1, <1>3, Stutters

(* A statement without a row left to write has done what it promised.      *)
Ends(kind, before, rows) ==
  /\ R!UniqueKeys(rows)
  /\ kind = "INSERT" => before \subseteq rows
  /\ kind = "UPDATE" =>
       \E w \in Wheres, s \in Sets :
         LET new == {R!NewRow(s, r) : r \in Selected(w, before)}
         IN  /\ Cardinality(new) = Cardinality(Selected(w, before))
             /\ rows = (before \ Selected(w, before)) \cup new
  /\ kind = "DELETE" => \E w \in Wheres : rows = before \ Selected(w, before)
(* What it promised of the rows, by its kind.                              *)
LEMMA Finished ==
  ASSUME NEW h, NEW st, st.todo = <<>>, Keyed(h, st), Outcome(h, st)
  PROVE  Ends(st.kind, st.before, Rows(h))
<1>1. Rest(h, st) = Rids(h)
  BY DEF Rest
<1>2. RestRows(h, st) = Rows(h)
  BY <1>1 DEF RestRows, Rows
<1>3. NewRows(st) = {}
  BY DEF NewRows
<1>4. RestRows(h, st) \cup NewRows(st) = Rows(h)
  BY <1>2, <1>3
<1>5. R!UniqueKeys(Rows(h))
  BY <1>1 DEF Keyed, Rows, R!UniqueKeys
<1>6. CASE st.kind = "INSERT"
  BY <1>2, <1>5, <1>6 DEF Outcome, Ends
<1>7. CASE st.kind = "UPDATE"
  <2>1. \E w \in Wheres, s \in Sets :
          LET new == {R!NewRow(s, r) : r \in Selected(w, st.before)}
          IN  /\ Cardinality(new) = Cardinality(Selected(w, st.before))
              /\ Rows(h) = (st.before \ Selected(w, st.before)) \cup new
    BY <1>4, <1>7 DEF Outcome
  <2> QED
    BY <1>5, <1>7, <2>1 DEF Ends
<1>8. CASE st.kind = "DELETE"
  BY <1>2, <1>5, <1>8 DEF Outcome, Ends
<1>9. CASE ~(st.kind \in {"INSERT", "UPDATE", "DELETE"})
  BY <1>5, <1>9 DEF Ends
<1> QED
  BY <1>6, <1>7, <1>8, <1>9

(* The write of the last row is the statement, the others are nothing.     *)
LEMMA WriteImplements ==
  ASSUME TableInv, Writes
  PROVE  Step
<1>1. /\ stmt # Idle /\ Written /\ saved' = saved /\ torn' \in BOOLEAN
      /\ torn' = FALSE => torn = FALSE /\ Keyed(heap', Without) /\ Outcome(heap', Without)
  BY DEF Writes
<1>2. CASE torn' = TRUE
  BY <1>2, Damages
<1>3. CASE torn' = FALSE
  <2>1. /\ stmt \in Statements /\ stmt.kind # "none" /\ stmt.todo # <<>> /\ Peeled(stmt, Without, Item)
        /\ stmt.kind \in Kinds
    BY <1>1, FromWriting DEF Statements
  <2>2. Advanced(stmt, stmt') /\ Without = [stmt EXCEPT !.todo = Tail(@)]
    BY <1>1 DEF Written, Advanced, Without
  <2>3. /\ stmt' = Idle => Without.todo = <<>>
        /\ stmt' # Idle => stmt'.before = stmt.before
    BY <1>1, <2>1, <2>2, AdvancedIs
  <2>4. Without.kind = stmt.kind /\ Without.before = stmt.before
    BY <2>1 DEF Peeled
  <2>5. CASE stmt' # Idle
    <3>1. Rel' = stmt.before /\ Rel = stmt.before
      BY <1>1, <2>3, <2>5 DEF Rel
    <3> QED
      BY <1>1, <1>3, <3>1, Stutters
  <2>6. CASE stmt' = Idle
    <3>1. Rel = stmt.before /\ Rel' = Rows(heap')
      BY <1>1, <2>6 DEF Rel
    <3>2. torn' = torn
      BY <1>1, <1>3
    <3>3. Ends(stmt.kind, stmt.before, Rows(heap'))
      <4>1. Without.todo = <<>> /\ Keyed(heap', Without) /\ Outcome(heap', Without)
        BY <1>1, <1>3, <2>3, <2>6
      <4>2. Ends(Without.kind, Without.before, Rows(heap'))
        BY <4>1, Finished
      <4> QED
        BY <2>4, <4>2
    <3>4. CASE stmt.kind = "INSERT"
      <4>1. R!InsertRows
        BY <3>1, <3>3, <3>4 DEF R!InsertRows, Rel, Ends
      <4> QED
        BY <1>1, <3>2, <4>1 DEF Step, R!RowsNext, R!Statement
    <3>5. CASE stmt.kind = "UPDATE"
      <4>1. PICK w \in Wheres, s \in Sets :
              LET new == {R!NewRow(s, r) : r \in Selected(w, stmt.before)}
              IN  /\ Cardinality(new) = Cardinality(Selected(w, stmt.before))
                  /\ Rows(heap') = (stmt.before \ Selected(w, stmt.before)) \cup new
        BY <3>3, <3>5 DEF Ends
      <4>2. R!UpdateRows(w, s)
        <5> DEFINE old == {r \in Rel : R!Matches(w, r)}
                   new == {R!NewRow(s, r) : r \in old}
        <5>1. old = Selected(w, stmt.before)
          BY <3>1 DEF Selected
        <5>2. Cardinality(new) = Cardinality(old) /\ Rel' = (Rel \ old) \cup new
          <6> HIDE DEF old
          <6> QED
            BY <3>1, <4>1, <5>1
        <5>3. R!UniqueKeys(Rel')
          BY <3>1, <3>3 DEF Ends
        <5>4. R!Cardinality(new) = R!Cardinality(old)
          <6> HIDE DEF old, new
          <6> QED
            BY <5>2, SameCardinality
        <5> QED
          BY <5>2, <5>3, <5>4 DEF R!UpdateRows, Rel
      <4>3. \E ww \in Wheres, ss \in Sets : R!UpdateRows(ww, ss)
        BY <4>2
      <4> QED
        BY <1>1, <3>2, <4>3 DEF Step, R!RowsNext, R!Statement
    <3>6. CASE stmt.kind = "DELETE"
      <4>1. PICK w \in Wheres : Rows(heap') = stmt.before \ Selected(w, stmt.before)
        BY <3>3, <3>6 DEF Ends
      <4>2. stmt.before \ Selected(w, stmt.before) = {r \in stmt.before : ~R!Matches(w, r)}
        BY DEF Selected
      <4>3. R!DeleteRows(w)
        BY <3>1, <4>1, <4>2 DEF R!DeleteRows, Rel
      <4>4. \E ww \in Wheres : R!DeleteRows(ww)
        BY <4>3
      <4> QED
        BY <1>1, <3>2, <4>4 DEF Step, R!RowsNext, R!Statement
    <3> QED
      BY <2>1, <3>4, <3>5, <3>6 DEF Kinds
  <2> QED
    BY <2>5, <2>6
<1> QED
  BY <1>1, <1>2, <1>3

(* An error before the first write leaves the rows as they were.           *)
LEMMA AbortImplements ==
  ASSUME TableInv, InsertFails \/ UpdateFailsOld \/ UpdateFailsNew
  PROVE  Step
<1>1. /\ stmt # Idle /\ stmt' = Idle /\ saved' = saved
      /\ \E lost \in BOOLEAN : /\ torn' = (torn \/ stmt.done > 0 \/ lost)
                               /\ lost = FALSE => heap' = heap
  <2>1. Idle.kind = "none"
    BY DEF Idle
  <2>2. stmt.kind \in {"INSERT", "UPDATE"}
    BY DEF InsertFails, UpdateFailsOld, UpdateFailsNew
  <2>3. CASE InsertFails \/ UpdateFailsOld
    <3>1. Abort(FALSE) /\ heap' = heap
      BY <2>3 DEF InsertFails, UpdateFailsOld
    <3>2. stmt' = Idle /\ saved' = saved /\ torn' = (torn \/ stmt.done > 0 \/ FALSE)
      BY <3>1 DEF Abort
    <3> QED
      BY <2>1, <2>2, <3>1, <3>2, Zenon
  <2>4. CASE UpdateFailsNew
    <3>1. Abort(TRUE)
      BY <2>4 DEF UpdateFailsNew
    <3>2. stmt' = Idle /\ saved' = saved /\ torn' = (torn \/ stmt.done > 0 \/ TRUE)
      BY <3>1 DEF Abort
    <3> QED
      BY <2>1, <2>2, <3>2, Zenon
  <2> QED
    BY <2>3, <2>4
<1>2. PICK lost \in BOOLEAN : /\ torn' = (torn \/ stmt.done > 0 \/ lost)
                              /\ lost = FALSE => heap' = heap
  BY <1>1
<1>3. /\ torn \in BOOLEAN /\ stmt \in Statements
      /\ torn = FALSE => (stmt.done = 0 => Rows(heap) = stmt.before)
  BY <1>1, FromWriting
<1> DEFINE some == stmt.done > 0
<1>4. stmt.done # 0 => some
  BY <1>3 DEF Statements
<1>5. torn' = (torn \/ some \/ lost)
  BY <1>2
<1> HIDE DEF some
<1>6. CASE torn \/ some \/ lost
  BY <1>5, <1>6, Damages
<1>7. CASE ~(torn \/ some \/ lost)
  <2>1. torn' = FALSE /\ torn = FALSE /\ stmt.done = 0 /\ lost = FALSE
    BY <1>2, <1>3, <1>4, <1>5, <1>7
  <2>2. Rel' = Rows(heap) /\ Rel = stmt.before
    BY <1>1, <1>2, <2>1 DEF Rel
  <2> QED
    BY <1>1, <1>3, <2>1, <2>2, Stutters
<1> QED
  BY <1>6, <1>7

(* TRUNCATE, BEGIN, COMMIT and ROLLBACK act on the rows as a whole.        *)
LEMMA WholeImplements ==
  ASSUME TableInv, Truncate \/ Begin \/ Commit \/ Rollback
  PROVE  Step
<1>1. CASE Truncate
  <2>1. stmt = Idle /\ stmt' = Idle /\ saved' = saved /\ torn' = torn /\ heap' = [i \in DOMAIN heap |-> Null]
    BY <1>1 DEF Truncate
  <2>2. Rel' = {}
    BY <2>1 DEF Rel, Rows, Rids
  <2>3. R!TruncateRows
    BY <2>2 DEF R!TruncateRows, Rel
  <2> QED
    BY <2>1, <2>3 DEF Step, R!RowsNext, R!Statement
<1>2. CASE Begin
  <2>1. stmt = Idle /\ stmt' = Idle /\ saved' = Rows(heap) /\ torn' = torn /\ heap' = heap
    BY <1>2 DEF Begin
  <2>2. Rel' = Rel /\ saved' = Rel
    BY <2>1 DEF Rel
  <2>3. R!Begin
    BY <2>1, <2>2 DEF R!Begin, Rel
  <2> QED
    BY <2>3 DEF Step, R!RowsNext
<1>3. CASE Commit
  <2>1. stmt = Idle /\ stmt' = Idle /\ saved' = {} /\ torn' = torn /\ heap' = heap
    BY <1>3 DEF Commit
  <2>2. Rel' = Rel
    BY <2>1 DEF Rel
  <2>3. R!Commit
    BY <2>1, <2>2 DEF R!Commit, Rel
  <2> QED
    BY <2>3 DEF Step, R!RowsNext
<1>4. CASE Rollback
  <2>1. /\ stmt = Idle /\ stmt' = Idle /\ saved' = {} /\ heap' = Undone
        /\ torn' = (torn \/ Rows(Undone) # saved
                         \/ Cardinality(Rids(Undone)) # Cardinality(saved))
    BY <1>4 DEF Rollback
  <2>2. torn \in BOOLEAN
    BY <2>1, FromSettled
  <2>3. CASE torn \/ Rows(Undone) # saved \/ Cardinality(Rids(Undone)) # Cardinality(saved)
    BY <2>1, <2>3, Damages
  <2>4. CASE ~(torn \/ Rows(Undone) # saved \/ Cardinality(Rids(Undone)) # Cardinality(saved))
    <3>1. torn' = FALSE /\ torn = FALSE /\ Rows(Undone) = saved
      BY <2>1, <2>2, <2>4
    <3>2. Rel' = saved
      BY <2>1, <3>1 DEF Rel
    <3>3. R!Rollback
      BY <2>1, <3>1, <3>2 DEF R!Rollback, Rel
    <3> QED
      BY <3>3 DEF Step, R!RowsNext
  <2> QED
    BY <2>3, <2>4
<1> QED
  BY <1>1, <1>2, <1>3, <1>4

(* Every step of the statements is one of KeyedRows, or nothing.           *)
LEMMA TableImplements == TableInv /\ [Next]_vars => Step
<1> SUFFICES ASSUME TableInv, [Next]_vars PROVE Step
  OBVIOUS
<1>1. ASSUME NEW batch \in Batches, Insert(batch) PROVE Step
  BY <1>1, StartStutters DEF Insert
<1>2. ASSUME NEW w \in Wheres, NEW s \in Sets, Update(w, s) PROVE Step
  BY <1>2, StartStutters DEF Update
<1>3. ASSUME NEW w \in Wheres, Delete(w) PROVE Step
  BY <1>3, StartStutters DEF Delete
<1>4. ASSUME NEW w \in Wheres, Select(w) PROVE Step
  <2>1. Rel' = Rel /\ saved' = saved /\ torn' = torn
    BY <1>4 DEF Select, Rel
  <2> QED
    BY <2>1, Stutters
<1>5. CASE WriteInsert \/ WriteUpdate \/ WriteDelete \/ DeleteFails
  BY <1>5, WriteInsertIs, WriteUpdateIs, WriteDeleteIs, DeleteFailsIs, WriteImplements
<1>6. CASE InsertFails \/ UpdateFailsOld \/ UpdateFailsNew
  BY <1>6, AbortImplements
<1>7. CASE Truncate \/ Begin \/ Commit \/ Rollback
  BY <1>7, WholeImplements
<1>8. CASE CreateIndex \/ DropIndex \/ Rename
  <2>1. Rel' = Rel /\ saved' = saved /\ torn' = torn
    BY <1>8 DEF CreateIndex, DropIndex, Rename, Rel
  <2> QED
    BY <2>1, Stutters
<1>9. CASE UNCHANGED vars
  <2>1. Rel' = Rel /\ saved' = saved /\ torn' = torn
    BY <1>9 DEF vars, Rel
  <2> QED
    BY <2>1, Stutters
<1> QED
  BY <1>1, <1>2, <1>3, <1>4, <1>5, <1>6, <1>7, <1>8, <1>9 DEF Next

(* A statement that no failure hits has its whole effect at once, on the   *)
(* rows and with the values of the moment it started, and a key belongs to *)
(* one row only: the model implements KeyedRows.                           *)
THEOREM RowsImplemented == Spec => ImplementsKeyedRows
<1>1. Init => R!RowsInit
  <2> SUFFICES ASSUME Init PROVE R!RowsInit
    OBVIOUS
  <2>1. heap = <<>> /\ stmt = Idle /\ saved = {} /\ torn = FALSE
    BY DEF Init
  <2>2. Rel = {}
    BY <2>1 DEF Rel, Rows, Rids
  <2> QED
    BY <2>1, <2>2 DEF R!RowsInit, Rel
<1>2. TableInv /\ [Next]_vars => [R!RowsNext]_(R!rowsVars)
  BY TableImplements DEF Step
<1> QED
  BY <1>1, <1>2, TableInvariant, PTL DEF Spec, ImplementsKeyedRows, R!RowsSpec
=============================================================================
