---------------------------- MODULE BTreeProofs ----------------------------
EXTENDS BTree, WellFoundedInduction, TLAPS

-----------------------------------------------------------------------------
(* Induction. The least element of a set of numbers stands for the         *)
(* induction rule, and a function that iterates another one for recursion. *)

(* Every nonempty set of natural numbers has a least element.              *)
LEMMA LeastNumber ==
  ASSUME NEW T \in SUBSET Nat, T # {}
  PROVE  \E m \in T : \A k \in T : m <= k
<1> DEFINE R == {ss \in Nat \X Nat : ss[1] < ss[2]}
<1>1. IsWellFoundedOn(R, Nat)
  <2>1. OpToRel(<, Nat) = R
    BY DEF OpToRel
  <2> QED
    BY <2>1, NatLessThanWellFounded
<1>2. \E x \in T : \A y \in T : ~ (<<y, x>> \in R)
  <2> HIDE DEF R
  <2> QED
    BY <1>1, WFMin
<1>3. PICK m \in T : \A k \in T : ~ (<<k, m>> \in R)
  BY <1>2
<1>4. ASSUME NEW k \in T PROVE m <= k
  <2>1. <<k, m>> \in Nat \X Nat /\ <<k, m>>[1] = k /\ <<k, m>>[2] = m
    OBVIOUS
  <2> QED
    BY <1>3, <2>1
<1> QED
  BY <1>4

(* A set with 0 and with the successor of each of its elements below N.    *)
LEMMA Induction ==
  ASSUME NEW S, NEW N \in Nat, 0 \in S, \A n \in 1 .. N : n - 1 \in S => n \in S
  PROVE  \A n \in 0 .. N : n \in S
<1> DEFINE T == (0 .. N) \ S
<1> SUFFICES ASSUME T # {} PROVE FALSE
  OBVIOUS
<1>1. T \in SUBSET Nat
  OBVIOUS
<1>2. PICK m \in T : \A k \in T : m <= k
  <2> HIDE DEF T
  <2> QED
    BY <1>1, LeastNumber
<1>3. m \in 0 .. N /\ m \notin S /\ m # 0
  OBVIOUS
<1>4. m \in 1 .. N /\ m - 1 \in 0 .. N /\ ~(m <= m - 1)
  BY <1>3
<1>5. m - 1 \in S
  BY <1>2, <1>4
<1> QED
  BY <1>3, <1>4, <1>5

(* f[0], f[1], ... f[N] are base and what step makes of each from the one  *)
(* before.                                                                 *)
Iterates(f, S, base, N, step) ==
  /\ f \in [0 .. N -> S]
  /\ f[0] = base
  /\ \A n \in 1 .. N : f[n] = step[<<n, f[n - 1]>>]

(* Such a function exists, whatever the step is.                           *)
LEMMA Iteration ==
  ASSUME NEW S, NEW base \in S, NEW N \in Nat, NEW step \in [(1 .. N) \X S -> S]
  PROVE  \E f : Iterates(f, S, base, N, step)
<1> DEFINE Rec(f, n) == /\ f \in [0 .. n -> S]
                        /\ f[0] = base
                        /\ \A k \in 1 .. n : f[k] = step[<<k, f[k - 1]>>]
           Good == {n \in 0 .. N : \E f : Rec(f, n)}
<1>1. 0 \in Good
  <2>1. Rec([k \in 0 .. 0 |-> base], 0)
    OBVIOUS
  <2> HIDE DEF Rec
  <2> QED
    BY <2>1
<1>2. ASSUME NEW n \in 1 .. N, n - 1 \in Good
      PROVE  n \in Good
  <2>1. PICK f : Rec(f, n - 1)
    BY <1>2
  <2> DEFINE g == [k \in 0 .. n |-> IF k = n THEN step[<<n, f[n - 1]>>] ELSE f[k]]
  <2>2. /\ n - 1 \in 0 .. n - 1 /\ 0 \in 0 .. n - 1
        /\ f \in [0 .. n - 1 -> S]
    BY <2>1
  <2>3. f[n - 1] \in S /\ <<n, f[n - 1]>> \in (1 .. N) \X S
    BY <2>2
  <2>4. g \in [0 .. n -> S]
    BY <2>2, <2>3
  <2>5. g[0] = base
    BY <2>1, <2>2
  <2>6. ASSUME NEW k \in 1 .. n PROVE g[k] = step[<<k, g[k - 1]>>]
    <3>1. CASE k = n
      <4>1. n - 1 \in 0 .. n /\ n - 1 # n /\ n \in 0 .. n
        OBVIOUS
      <4>2. g[n - 1] = f[n - 1] /\ g[n] = step[<<n, f[n - 1]>>]
        BY <4>1
      <4> QED
        BY <3>1, <4>2
    <3>2. CASE k # n
      <4>1. k \in 1 .. n - 1 /\ k - 1 \in 0 .. n - 1
        BY <3>2
      <4>2. g[k] = f[k] /\ g[k - 1] = f[k - 1]
        BY <4>1
      <4> QED
        BY <2>1, <4>1, <4>2
    <3> QED
      BY <3>1, <3>2
  <2>7. Rec(g, n)
    BY <2>4, <2>5, <2>6
  <2>8. n \in 0 .. N
    OBVIOUS
  <2> HIDE DEF Rec, g
  <2> QED
    BY <2>7, <2>8
<1> HIDE DEF Rec
<1>3. \A n \in 0 .. N : n \in Good
  <2> HIDE DEF Good
  <2> QED
    BY <1>1, <1>2, Induction
<1>4. \E f : Rec(f, N)
  BY <1>3
<1> QED
  BY <1>4 DEF Rec, Iterates

-----------------------------------------------------------------------------
(* Sequences *)
LEMMA Elements ==
  ASSUME NEW S, NEW s \in Seq(S)
  PROVE  DOMAIN s = 1 .. Len(s) /\ Len(s) \in Nat /\ \A i \in DOMAIN s : s[i] \in S
OBVIOUS

(* A sequence is empty if it has no first element.                         *)
LEMMA EmptySequence ==
  ASSUME NEW S, NEW s \in Seq(S)
  PROVE  s = <<>> <=> Len(s) = 0
OBVIOUS

(* What the library operators on sequences return                          *)
LEMMA SubSeqElements ==
  ASSUME NEW S, NEW s \in Seq(S), NEW a \in Nat \ {0}, NEW b \in Nat, b <= Len(s), a <= b + 1
  PROVE  /\ SubSeq(s, a, b) \in Seq(S) /\ Len(SubSeq(s, a, b)) = b + 1 - a
         /\ DOMAIN SubSeq(s, a, b) = 1 .. b + 1 - a
         /\ \A j \in 1 .. b + 1 - a : SubSeq(s, a, b)[j] = s[a + j - 1]
OBVIOUS

(* ... a concatenation,                                                    *)
LEMMA ConcatElements ==
  ASSUME NEW S, NEW s \in Seq(S), NEW t \in Seq(S)
  PROVE  /\ s \o t \in Seq(S) /\ Len(s \o t) = Len(s) + Len(t) /\ DOMAIN (s \o t) = 1 .. Len(s) + Len(t)
         /\ \A j \in 1 .. Len(s) : (s \o t)[j] = s[j]
         /\ \A j \in Len(s) + 1 .. Len(s) + Len(t) : (s \o t)[j] = t[j - Len(s)]
OBVIOUS

(* ... and an element appended.                                            *)
LEMMA AppendElements ==
  ASSUME NEW S, NEW s \in Seq(S), NEW e \in S
  PROVE  /\ Append(s, e) \in Seq(S) /\ Len(Append(s, e)) = Len(s) + 1 /\ Len(s) \in Nat
         /\ DOMAIN s = 1 .. Len(s) /\ DOMAIN Append(s, e) = 1 .. Len(s) + 1
         /\ \A i \in DOMAIN s : Append(s, e)[i] = s[i]
         /\ Append(s, e)[Len(s) + 1] = e
OBVIOUS

(* One element more, at position i                                         *)
LEMMA InsertAtElements ==
  ASSUME NEW S, NEW s \in Seq(S), NEW e \in S, NEW i \in 1 .. Len(s) + 1
  PROVE  /\ InsertAt(s, i, e) \in Seq(S) /\ Len(InsertAt(s, i, e)) = Len(s) + 1
         /\ DOMAIN InsertAt(s, i, e) = 1 .. Len(s) + 1
         /\ \A j \in 1 .. i - 1 : InsertAt(s, i, e)[j] = s[j]
         /\ InsertAt(s, i, e)[i] = e
         /\ \A j \in i + 1 .. Len(s) + 1 : InsertAt(s, i, e)[j] = s[j - 1]
<1> DEFINE n == Len(s)
           a == SubSeq(s, 1, i - 1)
           c == SubSeq(s, i, n)
           ab == a \o <<e>>
<1>1. n \in Nat /\ i \in Nat \ {0} /\ i - 1 \in Nat /\ i - 1 <= n /\ i <= n + 1
  OBVIOUS
<1>2. /\ a \in Seq(S) /\ Len(a) = i - 1 /\ \A j \in 1 .. i - 1 : a[j] = s[j]
  <2>1. 1 <= (i - 1) + 1 /\ (i - 1) + 1 - 1 = i - 1
    BY <1>1
  <2>2. a \in Seq(S) /\ Len(a) = i - 1 /\ \A j \in 1 .. i - 1 : a[j] = s[1 + j - 1]
    BY <1>1, <2>1, SubSeqElements
  <2>3. \A j \in 1 .. i - 1 : 1 + j - 1 = j
    OBVIOUS
  <2> QED
    BY <2>2, <2>3
<1>3. /\ c \in Seq(S) /\ Len(c) = n + 1 - i /\ \A j \in 1 .. n + 1 - i : c[j] = s[i + j - 1]
  BY <1>1, SubSeqElements
<1>4. <<e>> \in Seq(S) /\ Len(<<e>>) = 1 /\ <<e>>[1] = e
  OBVIOUS
<1> HIDE DEF a, c, n
<1>5. /\ ab \in Seq(S) /\ Len(ab) = i
      /\ \A j \in 1 .. i - 1 : ab[j] = s[j]
      /\ ab[i] = e
  <2>1. /\ ab \in Seq(S) /\ Len(ab) = (i - 1) + 1
        /\ \A j \in 1 .. i - 1 : ab[j] = a[j]
        /\ \A j \in (i - 1) + 1 .. (i - 1) + 1 : ab[j] = <<e>>[j - (i - 1)]
    BY <1>1, <1>2, <1>4, ConcatElements
  <2>2. i \in (i - 1) + 1 .. (i - 1) + 1 /\ i - (i - 1) = 1 /\ (i - 1) + 1 = i
    BY <1>1
  <2> QED
    BY <1>2, <1>4, <2>1, <2>2
<1>6. InsertAt(s, i, e) = ab \o c
  BY DEF InsertAt, a, c, n
<1> HIDE DEF ab
<1>7. /\ ab \o c \in Seq(S) /\ Len(ab \o c) = i + (n + 1 - i) /\ DOMAIN (ab \o c) = 1 .. i + (n + 1 - i)
      /\ \A j \in 1 .. i : (ab \o c)[j] = ab[j]
      /\ \A j \in i + 1 .. i + (n + 1 - i) : (ab \o c)[j] = c[j - i]
  <2>1. /\ ab \o c \in Seq(S) /\ Len(ab \o c) = Len(ab) + Len(c) /\ DOMAIN (ab \o c) = 1 .. Len(ab) + Len(c)
        /\ \A j \in 1 .. Len(ab) : (ab \o c)[j] = ab[j]
        /\ \A j \in Len(ab) + 1 .. Len(ab) + Len(c) : (ab \o c)[j] = c[j - Len(ab)]
    BY <1>3, <1>5, ConcatElements
  <2> DEFINE z == ab \o c
  <2> HIDE DEF z
  <2> QED
    BY <1>3, <1>5, <2>1 DEF z
<1>8. i + (n + 1 - i) = n + 1 /\ i \in 1 .. i /\ \A j \in 1 .. i - 1 : j \in 1 .. i
  BY <1>1
<1>9. ASSUME NEW j \in i + 1 .. n + 1 PROVE (ab \o c)[j] = s[j - 1]
  <2>1. j - i \in 1 .. n + 1 - i /\ i + (j - i) - 1 = j - 1
    BY <1>1
  <2> QED
    BY <1>3, <1>7, <1>8, <2>1
<1> QED
  BY <1>5, <1>6, <1>7, <1>8, <1>9 DEF n

(* One element less                                                        *)
LEMMA RemoveAtElements ==
  ASSUME NEW S, NEW s \in Seq(S), NEW i \in 1 .. Len(s)
  PROVE  /\ RemoveAt(s, i) \in Seq(S) /\ Len(RemoveAt(s, i)) = Len(s) - 1
         /\ DOMAIN RemoveAt(s, i) = 1 .. Len(s) - 1
         /\ \A j \in 1 .. i - 1 : RemoveAt(s, i)[j] = s[j]
         /\ \A j \in i .. Len(s) - 1 : RemoveAt(s, i)[j] = s[j + 1]
<1> DEFINE n == Len(s)
           a == SubSeq(s, 1, i - 1)
           c == SubSeq(s, i + 1, n)
<1>1. n \in Nat /\ i + 1 \in Nat \ {0} /\ i - 1 \in Nat /\ i - 1 <= n /\ i + 1 <= n + 1
  OBVIOUS
<1>2. /\ a \in Seq(S) /\ Len(a) = i - 1 /\ \A j \in 1 .. i - 1 : a[j] = s[j]
  <2>1. 1 <= (i - 1) + 1 /\ (i - 1) + 1 - 1 = i - 1
    BY <1>1
  <2>2. a \in Seq(S) /\ Len(a) = i - 1 /\ \A j \in 1 .. i - 1 : a[j] = s[1 + j - 1]
    BY <1>1, <2>1, SubSeqElements
  <2>3. \A j \in 1 .. i - 1 : 1 + j - 1 = j
    OBVIOUS
  <2> QED
    BY <2>2, <2>3
<1>3. /\ c \in Seq(S) /\ Len(c) = n - i /\ \A j \in 1 .. n - i : c[j] = s[i + j]
  <2>1. /\ c \in Seq(S) /\ Len(c) = n + 1 - (i + 1)
        /\ \A j \in 1 .. n + 1 - (i + 1) : c[j] = s[(i + 1) + j - 1]
    BY <1>1, SubSeqElements
  <2>2. n + 1 - (i + 1) = n - i /\ \A j \in 1 .. n - i : (i + 1) + j - 1 = i + j
    BY <1>1
  <2> QED
    BY <2>1, <2>2
<1> HIDE DEF a, c, n
<1>4. /\ a \o c \in Seq(S) /\ Len(a \o c) = (i - 1) + (n - i) /\ DOMAIN (a \o c) = 1 .. (i - 1) + (n - i)
      /\ \A j \in 1 .. i - 1 : (a \o c)[j] = a[j]
      /\ \A j \in (i - 1) + 1 .. (i - 1) + (n - i) : (a \o c)[j] = c[j - (i - 1)]
  <2>1. /\ a \o c \in Seq(S) /\ Len(a \o c) = Len(a) + Len(c) /\ DOMAIN (a \o c) = 1 .. Len(a) + Len(c)
        /\ \A j \in 1 .. Len(a) : (a \o c)[j] = a[j]
        /\ \A j \in Len(a) + 1 .. Len(a) + Len(c) : (a \o c)[j] = c[j - Len(a)]
    BY <1>2, <1>3, ConcatElements
  <2> DEFINE z == a \o c
  <2> HIDE DEF z
  <2> QED
    BY <1>2, <1>3, <2>1 DEF z
<1>5. RemoveAt(s, i) = a \o c
  BY DEF RemoveAt, a, c, n
<1>6. (i - 1) + (n - i) = n - 1 /\ (i - 1) + 1 = i
  BY <1>1
<1>7. ASSUME NEW j \in i .. n - 1 PROVE (a \o c)[j] = s[j + 1]
  <2>1. j - (i - 1) \in 1 .. n - i /\ i + (j - (i - 1)) = j + 1
    BY <1>1
  <2> QED
    BY <1>3, <1>4, <1>6, <2>1
<1> QED
  BY <1>2, <1>4, <1>5, <1>6, <1>7 DEF n

(* t is s with e behind position i; or s without its element i.            *)
Inserted(s, t, i, e) ==
  /\ i \in 0 .. Len(s) /\ Len(s) \in Nat /\ DOMAIN s = 1 .. Len(s)
  /\ Len(t) = Len(s) + 1 /\ DOMAIN t = 1 .. Len(s) + 1
  /\ \A j \in 1 .. i : t[j] = s[j]
  /\ t[i + 1] = e
  /\ \A j \in i + 1 .. Len(s) : t[j + 1] = s[j]
Removed(s, t, i) ==
  /\ i \in 1 .. Len(s) /\ Len(s) \in Nat /\ DOMAIN s = 1 .. Len(s)
  /\ Len(t) = Len(s) - 1 /\ DOMAIN t = 1 .. Len(s) - 1
  /\ \A j \in 1 .. i - 1 : t[j] = s[j]
  /\ \A j \in i + 1 .. Len(s) : t[j - 1] = s[j]

(* InsertAt with the index of the code, which counts from 0                *)
LEMMA InsertAtIs ==
  ASSUME NEW S, NEW s \in Seq(S), NEW e \in S, NEW i \in 0 .. Len(s)
  PROVE  InsertAt(s, i + 1, e) \in Seq(S) /\ Inserted(s, InsertAt(s, i + 1, e), i, e)
<1> DEFINE q == i + 1
           t == InsertAt(s, q, e)
<1>1. Len(s) \in Nat /\ DOMAIN s = 1 .. Len(s)
  BY Elements
<1>2. q \in 1 .. Len(s) + 1 /\ q = i + 1 /\ i \in Nat
  BY <1>1
<1> HIDE DEF q
<1>3. /\ t \in Seq(S) /\ Len(t) = Len(s) + 1 /\ DOMAIN t = 1 .. Len(s) + 1
      /\ \A j \in 1 .. q - 1 : t[j] = s[j]
      /\ t[q] = e
      /\ \A j \in q + 1 .. Len(s) + 1 : t[j] = s[j - 1]
  BY <1>2, InsertAtElements
<1> HIDE DEF t
<1>4. \A j \in 1 .. i : t[j] = s[j]
  BY <1>2, <1>3
<1>5. ASSUME NEW j \in i + 1 .. Len(s) PROVE t[j + 1] = s[j]
  <2>1. j + 1 \in q + 1 .. Len(s) + 1 /\ (j + 1) - 1 = j
    BY <1>1, <1>2
  <2> QED
    BY <1>3, <2>1
<1>6. Inserted(s, t, i, e)
  BY <1>1, <1>2, <1>3, <1>4, <1>5 DEF Inserted
<1> QED
  BY <1>3, <1>6 DEF q, t

(* RemoveAt takes one element out.                                         *)
LEMMA RemoveAtIs ==
  ASSUME NEW S, NEW s \in Seq(S), NEW i \in 1 .. Len(s)
  PROVE  RemoveAt(s, i) \in Seq(S) /\ Removed(s, RemoveAt(s, i), i)
<1> DEFINE t == RemoveAt(s, i)
<1>1. Len(s) \in Nat /\ DOMAIN s = 1 .. Len(s)
  BY Elements
<1>2. /\ t \in Seq(S) /\ Len(t) = Len(s) - 1 /\ DOMAIN t = 1 .. Len(s) - 1
      /\ \A j \in 1 .. i - 1 : t[j] = s[j]
      /\ \A j \in i .. Len(s) - 1 : t[j] = s[j + 1]
  BY RemoveAtElements
<1> HIDE DEF t
<1>3. ASSUME NEW j \in i + 1 .. Len(s) PROVE t[j - 1] = s[j]
  <2>1. j - 1 \in i .. Len(s) - 1 /\ (j - 1) + 1 = j
    BY <1>1
  <2> QED
    BY <1>2, <2>1
<1>4. Removed(s, t, i)
  BY <1>1, <1>2, <1>3 DEF Removed
<1> QED
  BY <1>2, <1>4 DEF t

(* Where the elements of t come from.                                      *)
LEMMA InsertedFrom ==
  ASSUME NEW s, NEW t, NEW i, NEW e, Inserted(s, t, i, e), NEW j \in DOMAIN t
  PROVE  \/ j \in 1 .. i /\ j \in DOMAIN s /\ t[j] = s[j]
         \/ j = i + 1 /\ t[j] = e
         \/ j - 1 \in i + 1 .. Len(s) /\ j - 1 \in DOMAIN s /\ t[j] = s[j - 1]
<1>1. /\ i \in Int /\ 0 <= i /\ i <= Len(s) /\ Len(s) \in Int /\ DOMAIN s = 1 .. Len(s)
      /\ j \in Int /\ 1 <= j /\ j <= Len(s) + 1
  BY DEF Inserted
<1>2. CASE j <= i
  BY <1>1, <1>2 DEF Inserted
<1>3. CASE j = i + 1
  BY <1>3 DEF Inserted
<1>4. CASE j > i + 1
  <2>1. j - 1 \in i + 1 .. Len(s) /\ (j - 1) + 1 = j
    BY <1>1, <1>4
  <2>2. t[(j - 1) + 1] = s[j - 1]
    BY <2>1 DEF Inserted
  <2> QED
    BY <1>1, <2>1, <2>2
<1> QED
  BY <1>1, <1>2, <1>3, <1>4

(* Where each element goes, and where the new one is                       *)
LEMMA InsertedTo ==
  ASSUME NEW s, NEW t, NEW i, NEW e, Inserted(s, t, i, e)
  PROVE  /\ i + 1 \in DOMAIN t /\ t[i + 1] = e
         /\ \A j \in DOMAIN s : j <= i => j \in DOMAIN t /\ t[j] = s[j]
         /\ \A j \in DOMAIN s : j > i => j + 1 \in DOMAIN t /\ t[j + 1] = s[j]
<1>1. i \in Int /\ 0 <= i /\ i <= Len(s) /\ Len(s) \in Int /\ DOMAIN s = 1 .. Len(s) /\ DOMAIN t = 1 .. Len(s) + 1
  BY DEF Inserted
<1>2. i + 1 \in DOMAIN t /\ t[i + 1] = e
  BY <1>1 DEF Inserted
<1>3. ASSUME NEW j \in DOMAIN s, j <= i PROVE j \in DOMAIN t /\ t[j] = s[j]
  <2>1. j \in 1 .. i /\ j \in 1 .. Len(s) + 1
    BY <1>1, <1>3
  <2> QED
    BY <1>1, <2>1 DEF Inserted
<1>4. ASSUME NEW j \in DOMAIN s, j > i PROVE j + 1 \in DOMAIN t /\ t[j + 1] = s[j]
  <2>1. j \in i + 1 .. Len(s) /\ j + 1 \in 1 .. Len(s) + 1
    BY <1>1, <1>4
  <2> QED
    BY <1>1, <2>1 DEF Inserted
<1> QED
  BY <1>2, <1>3, <1>4

(* The same for a removal.                                                 *)
LEMMA RemovedFrom ==
  ASSUME NEW s, NEW t, NEW i, Removed(s, t, i), NEW j \in DOMAIN t
  PROVE  \/ j < i /\ j \in DOMAIN s /\ t[j] = s[j]
         \/ j >= i /\ j + 1 \in DOMAIN s /\ t[j] = s[j + 1]
<1>1. /\ i \in Int /\ 1 <= i /\ i <= Len(s) /\ Len(s) \in Int /\ DOMAIN s = 1 .. Len(s)
      /\ j \in Int /\ 1 <= j /\ j <= Len(s) - 1
  BY DEF Removed
<1>2. CASE j < i
  <2>1. j \in 1 .. i - 1 /\ j \in 1 .. Len(s)
    BY <1>1, <1>2
  <2> QED
    BY <1>1, <1>2, <2>1 DEF Removed
<1>3. CASE j >= i
  <2>1. j + 1 \in i + 1 .. Len(s) /\ (j + 1) - 1 = j /\ j + 1 \in 1 .. Len(s)
    BY <1>1, <1>3
  <2>2. t[(j + 1) - 1] = s[j + 1]
    BY <2>1 DEF Removed
  <2> QED
    BY <1>1, <1>3, <2>1, <2>2
<1> QED
  BY <1>1, <1>2, <1>3

(* Each other element stays, or moves down by one.                         *)
LEMMA RemovedTo ==
  ASSUME NEW s, NEW t, NEW i, Removed(s, t, i), NEW j \in DOMAIN s, j # i
  PROVE  \E n \in DOMAIN t : t[n] = s[j] /\ n = IF j < i THEN j ELSE j - 1
<1>1. /\ i \in Int /\ 1 <= i /\ i <= Len(s) /\ Len(s) \in Int /\ DOMAIN t = 1 .. Len(s) - 1
      /\ j \in Int /\ 1 <= j /\ j <= Len(s)
  BY DEF Removed
<1>2. CASE j < i
  <2>1. j \in 1 .. i - 1 /\ j \in 1 .. Len(s) - 1
    BY <1>1, <1>2
  <2> QED
    BY <1>1, <1>2, <2>1 DEF Removed
<1>3. CASE ~(j < i)
  <2>1. j \in i + 1 .. Len(s) /\ j - 1 \in 1 .. Len(s) - 1
    BY <1>1, <1>3
  <2> QED
    BY <1>1, <1>3, <2>1 DEF Removed
<1> QED
  BY <1>2, <1>3

-----------------------------------------------------------------------------
(* Loops. A function that repeats a step exists, so what is defined as one *)
(* does repeat the step.                                                   *)
Repeated(f, base, N, S, step) ==
  /\ f \in [0 .. N -> S]
  /\ f[0] = base
  /\ \A n \in 1 .. N : f[n] = step[f[n - 1]]

(* A step that stays within S can be repeated.                             *)
LEMMA Repetition ==
  ASSUME NEW S, NEW base \in S, NEW N \in Nat, NEW step \in [S -> S]
  PROVE  \E f : Repeated(f, base, N, S, step)
<1> DEFINE next == [x \in (1 .. N) \X S |-> step[x[2]]]
<1>1. next \in [(1 .. N) \X S -> S]
  OBVIOUS
<1>2. PICK f : Iterates(f, S, base, N, next)
  <2> HIDE DEF next
  <2> QED
    BY <1>1, Iteration
<1>3. f \in [0 .. N -> S] /\ f[0] = base
  BY <1>2 DEF Iterates
<1>4. ASSUME NEW n \in 1 .. N PROVE f[n] = step[f[n - 1]]
  <2>1. n - 1 \in 0 .. N
    OBVIOUS
  <2>2. <<n, f[n - 1]>> \in (1 .. N) \X S
    BY <1>3, <2>1
  <2>3. f[n] = next[<<n, f[n - 1]>>]
    BY <1>2 DEF Iterates
  <2> QED
    BY <2>2, <2>3
<1> QED
  BY <1>3, <1>4 DEF Repeated

(* The locals of a search stay what they are.                              *)
Locals == [found : BOOLEAN, at : Int, hi : Int]

(* The middle of the bounds lies between them.                             *)
LEMMA MidBetween ==
  ASSUME NEW a \in Int, NEW b \in Int, a <= b
  PROVE  (a + b) \div 2 \in Int /\ a <= (a + b) \div 2 /\ (a + b) \div 2 <= b
OBVIOUS

(* One turn of each search, by what the key in the middle is.              *)
Found(t, m)    == t.found = TRUE /\ t.at = m
Right(s, t, m) == t.found = s.found /\ t.at = m + 1 /\ t.hi = s.hi
Left(s, t, m)  == t.found = s.found /\ t.at = s.at /\ t.hi = m - 1

(* A turn keeps the locals, or halves what is left to search.              *)
LEMMA Turns ==
  ASSUME NEW keys, NEW k, NEW s \in Locals,
         NEW l, l = LeafTurn(keys, k, s), NEW c, c = ChildTurn(keys, k, s)
  PROVE  /\ l \in Locals /\ c \in Locals
         /\ s.found \/ s.at > s.hi => l = s
         /\ s.at > s.hi => c = s
         /\ s.at <= s.hi =>
              \E m \in Int :
                /\ s.at <= m /\ m <= s.hi
                /\ ~s.found =>
                     /\ keys[m + 1] = k => Found(l, m)
                     /\ keys[m + 1] # k /\ keys[m + 1] < k => Right(s, l, m)
                     /\ keys[m + 1] # k /\ ~(keys[m + 1] < k) => Left(s, l, m)
                /\ k < keys[m + 1] => Left(s, c, m)
                /\ ~(k < keys[m + 1]) => Right(s, c, m)
<1>1. s.found \in BOOLEAN /\ s.at \in Int /\ s.hi \in Int
  BY DEF Locals
<1>2. CASE s.at > s.hi
  <2>1. l = s /\ c = s
    BY <1>2 DEF LeafTurn, ChildTurn
  <2>2. ~(s.at <= s.hi)
    BY <1>1, <1>2
  <2> QED
    BY <1>2, <2>1, <2>2
<1>3. CASE ~(s.at > s.hi)
  <2> DEFINE m == Mid(s)
             f == [s EXCEPT !.found = TRUE, !.at = m]
             r == [s EXCEPT !.at = m + 1]
             h == [s EXCEPT !.hi = m - 1]
  <2>1. s.at <= s.hi
    BY <1>1, <1>3
  <2>2. m \in Int /\ s.at <= m /\ m <= s.hi
    BY <1>1, <2>1, MidBetween DEF Mid
  <2>3. /\ ~s.found =>
             /\ keys[m + 1] = k => l = f
             /\ keys[m + 1] # k /\ keys[m + 1] < k => l = r
             /\ keys[m + 1] # k /\ ~(keys[m + 1] < k) => l = h
        /\ s.found => l = s
        /\ k < keys[m + 1] => c = h
        /\ ~(k < keys[m + 1]) => c = r
    <3> HIDE DEF m
    <3> QED
      BY <1>3 DEF LeafTurn, ChildTurn, m
  <2> HIDE DEF m
  <2>4. m + 1 \in Int /\ m - 1 \in Int
    BY <2>2
  <2>5. f \in Locals /\ r \in Locals /\ h \in Locals
    BY <1>1, <2>2, <2>4 DEF Locals
  <2>6. Found(f, m) /\ Right(s, r, m) /\ Left(s, h, m)
    BY DEF Found, Right, Left, Locals
  <2> HIDE DEF f, r, h
  <2>7. l \in Locals /\ c \in Locals
    BY <1>1, <2>3, <2>5
  <2>8. /\ ~s.found =>
             /\ keys[m + 1] = k => Found(l, m)
             /\ keys[m + 1] # k /\ keys[m + 1] < k => Right(s, l, m)
             /\ keys[m + 1] # k /\ ~(keys[m + 1] < k) => Left(s, l, m)
        /\ k < keys[m + 1] => Left(s, c, m)
        /\ ~(k < keys[m + 1]) => Right(s, c, m)
    BY <2>3, <2>6
  <2> QED
    BY <1>3, <2>1, <2>2, <2>3, <2>7, <2>8
<1> QED
  BY <1>2, <1>3

(* LeafIndex and ChildIndex are what the turns make of the bounds.         *)
LEMMA LeafLoop ==
  ASSUME NEW keys \in Seq(Nat), NEW k \in Nat
  PROVE  \E f : /\ f[0] = Bounds(keys)
                /\ \A n \in 1 .. Len(keys) : f[n] = LeafTurn(keys, k, f[n - 1])
                /\ LeafIndex(keys, k) = f[Len(keys)]
<1> DEFINE N    == Len(keys)
           base == Bounds(keys)
           step == [s \in Locals |-> LeafTurn(keys, k, s)]
           Is(f) == f = [n \in 0 .. N |-> IF n = 0 THEN base ELSE LeafTurn(keys, k, f[n - 1])]
           look  == CHOOSE f : Is(f)
<1>1. N \in Nat /\ base \in Locals
  BY DEF Bounds, Locals
<1>2. step \in [Locals -> Locals]
  BY Turns
<1>3. PICK f : Repeated(f, base, N, Locals, step)
  <2> HIDE DEF base, N, step
  <2> QED
    BY <1>1, <1>2, Repetition
<1>4. Is(f)
  <2>1. f = [n \in 0 .. N |-> f[n]]
    BY <1>3 DEF Repeated
  <2>2. ASSUME NEW n \in 0 .. N
        PROVE  f[n] = IF n = 0 THEN base ELSE LeafTurn(keys, k, f[n - 1])
    <3>1. CASE n = 0
      BY <1>3, <3>1 DEF Repeated
    <3>2. CASE n # 0
      <4>1. n \in 1 .. N /\ n - 1 \in 0 .. N
        BY <1>1, <3>2
      <4>2. f[n] = step[f[n - 1]] /\ f[n - 1] \in Locals
        BY <1>3, <4>1 DEF Repeated
      <4> QED
        BY <3>2, <4>2
    <3> QED
      BY <3>1, <3>2
  <2> HIDE DEF base, N, step
  <2> QED
    BY <2>1, <2>2
<1>5. Is(look)
  <2> HIDE DEF Is
  <2> QED
    BY <1>4
<1>6. LeafIndex(keys, k) = look[N]
  BY DEF LeafIndex
<1> HIDE DEF look
<1>7. look[0] = base /\ \A n \in 1 .. N : look[n] = LeafTurn(keys, k, look[n - 1])
  <2>1. 0 \in 0 .. N /\ \A n \in 1 .. N : n \in 0 .. N /\ n # 0
    BY <1>1
  <2> HIDE DEF base, N
  <2> QED
    BY <1>5, <2>1
<1> QED
  BY <1>6, <1>7

(* The same for the search of a child                                      *)
LEMMA ChildLoop ==
  ASSUME NEW keys \in Seq(Nat), NEW k \in Nat
  PROVE  \E f : /\ f[0] = Bounds(keys)
                /\ \A n \in 1 .. Len(keys) : f[n] = ChildTurn(keys, k, f[n - 1])
                /\ ChildIndex(keys, k) = f[Len(keys)].at
<1> DEFINE N    == Len(keys)
           base == Bounds(keys)
           step == [s \in Locals |-> ChildTurn(keys, k, s)]
           Is(f) == f = [n \in 0 .. N |-> IF n = 0 THEN base ELSE ChildTurn(keys, k, f[n - 1])]
           look  == CHOOSE f : Is(f)
<1>1. N \in Nat /\ base \in Locals
  BY DEF Bounds, Locals
<1>2. step \in [Locals -> Locals]
  BY Turns
<1>3. PICK f : Repeated(f, base, N, Locals, step)
  <2> HIDE DEF base, N, step
  <2> QED
    BY <1>1, <1>2, Repetition
<1>4. Is(f)
  <2>1. f = [n \in 0 .. N |-> f[n]]
    BY <1>3 DEF Repeated
  <2>2. ASSUME NEW n \in 0 .. N
        PROVE  f[n] = IF n = 0 THEN base ELSE ChildTurn(keys, k, f[n - 1])
    <3>1. CASE n = 0
      BY <1>3, <3>1 DEF Repeated
    <3>2. CASE n # 0
      <4>1. n \in 1 .. N /\ n - 1 \in 0 .. N
        BY <1>1, <3>2
      <4>2. f[n] = step[f[n - 1]] /\ f[n - 1] \in Locals
        BY <1>3, <4>1 DEF Repeated
      <4> QED
        BY <3>2, <4>2
    <3> QED
      BY <3>1, <3>2
  <2> HIDE DEF base, N, step
  <2> QED
    BY <2>1, <2>2
<1>5. Is(look)
  <2> HIDE DEF Is
  <2> QED
    BY <1>4
<1>6. ChildIndex(keys, k) = look[N].at
  BY DEF ChildIndex
<1> HIDE DEF look
<1>7. look[0] = base /\ \A n \in 1 .. N : look[n] = ChildTurn(keys, k, look[n - 1])
  <2>1. 0 \in 0 .. N /\ \A n \in 1 .. N : n \in 0 .. N /\ n # 0
    BY <1>1
  <2> HIDE DEF base, N
  <2> QED
    BY <1>5, <2>1
<1> QED
  BY <1>6, <1>7

-----------------------------------------------------------------------------
(* What the searches answer. The position is within the keys in any case;  *)
(* if these are in order, it parts the smaller ones from the greater ones. *)
Strict(s) == \A i, j \in DOMAIN s : i < j => s[i] < s[j]

(* Where a search is: what is left to it is between s.at and s.hi.         *)
Within(n, s, N) ==
  /\ 0 <= s.at /\ s.at <= s.hi + 1 /\ s.hi + 1 <= N
  /\ s.at <= s.hi => s.hi - s.at + 1 <= N - n

(* A turn of either search takes away one key at least.                    *)
LEMMA StepRight ==
  ASSUME NEW N \in Nat, NEW n \in 1 .. N, NEW s \in Locals, NEW t \in Locals, Within(n - 1, s, N),
         NEW m \in Int, s.at <= m, m <= s.hi, t.at = m + 1, t.hi = s.hi
  PROVE  Within(n, t, N)
BY DEF Within, Locals

(* ... to the left of the middle,                                          *)
LEMMA StepLeft ==
  ASSUME NEW N \in Nat, NEW n \in 1 .. N, NEW s \in Locals, NEW t \in Locals, Within(n - 1, s, N),
         NEW m \in Int, s.at <= m, m <= s.hi, t.at = s.at, t.hi = m - 1
  PROVE  Within(n, t, N)
BY DEF Within, Locals

(* ... and none is left to take away when the bounds have crossed,         *)
LEMMA StepNone ==
  ASSUME NEW N \in Nat, NEW n \in 1 .. N, NEW s \in Locals, Within(n - 1, s, N), s.at > s.hi
  PROVE  Within(n, s, N)
BY DEF Within, Locals

(* as they have after as many turns as there are keys.                     *)
LEMMA StepEnd ==
  ASSUME NEW N \in Nat, NEW s \in Locals, Within(N, s, N)
  PROVE  s.at = s.hi + 1 /\ s.at \in 0 .. N
BY DEF Within, Locals

(* At first all keys are left.                                             *)
LEMMA StepFirst ==
  ASSUME NEW keys \in Seq(Nat)
  PROVE  Bounds(keys) \in Locals /\ Within(0, Bounds(keys), Len(keys))
BY DEF Within, Locals, Bounds

(* LeafIndex finds the key, or the place between smaller and greater ones. *)
LEMMA LeafIndexFinds ==
  ASSUME NEW keys \in Seq(Nat), NEW k \in Nat, NEW i, i = LeafIndex(keys, k)
  PROVE  /\ i.found \in BOOLEAN /\ i.at \in 0 .. Len(keys)
         /\ i.found => i.at + 1 \in DOMAIN keys /\ keys[i.at + 1] = k
         /\ Strict(keys) /\ ~i.found =>
              \A j \in DOMAIN keys : (j <= i.at => keys[j] < k) /\ (j > i.at => k < keys[j])
<1> DEFINE N == Len(keys)
           Parts(s) == Strict(keys) => \A j \in DOMAIN keys : (j <= s.at => keys[j] < k) /\ (j > s.hi + 1 => k < keys[j])
           Good(n, s) ==
             /\ s \in Locals
             /\ s.found => s.at \in 0 .. N /\ s.at + 1 \in DOMAIN keys /\ keys[s.at + 1] = k
             /\ ~s.found => Within(n, s, N) /\ Parts(s)
<1>1. N \in Nat /\ DOMAIN keys = 1 .. N /\ \A j \in DOMAIN keys : keys[j] \in Nat
  BY Elements
<1>2. PICK f : /\ f[0] = Bounds(keys)
               /\ \A n \in 1 .. N : f[n] = LeafTurn(keys, k, f[n - 1])
               /\ LeafIndex(keys, k) = f[N]
  BY LeafLoop
<1>3. Good(0, f[0])
  <2>1. Parts(Bounds(keys)) /\ Bounds(keys).found = FALSE
    BY <1>1 DEF Bounds
  <2> HIDE DEF Parts
  <2> QED
    BY <1>2, <2>1, StepFirst
<1> HIDE DEF N
<1>4. ASSUME NEW n \in 1 .. N, NEW s, Good(n - 1, s)
      PROVE  Good(n, LeafTurn(keys, k, s))
  <2> DEFINE t == LeafTurn(keys, k, s)
  <2>4. t \in Locals
    BY <1>4, Turns
  <2> HIDE DEF t
  <2> SUFFICES Good(n, t)
    BY DEF t
  <2>0. s \in Locals /\ s.found \in BOOLEAN /\ s.at \in Int /\ s.hi \in Int
    BY <1>4 DEF Locals
  <2>1. CASE s.found
    <3>1. t = s
      BY <2>0, <2>1, Turns DEF t
    <3> QED
      BY <1>4, <2>1, <3>1
  <2>2. CASE ~s.found /\ s.at > s.hi
    <3>1. t = s
      BY <2>0, <2>2, Turns DEF t
    <3>2. Within(n, s, N)
      BY <1>1, <1>4, <2>2, StepNone
    <3> QED
      BY <1>4, <2>2, <3>1, <3>2
  <2>3. CASE ~s.found /\ s.at <= s.hi
    <3>1. PICK m \in Int :
            /\ s.at <= m /\ m <= s.hi
            /\ keys[m + 1] = k => Found(t, m)
            /\ keys[m + 1] # k /\ keys[m + 1] < k => Right(s, t, m)
            /\ keys[m + 1] # k /\ ~(keys[m + 1] < k) => Left(s, t, m)
      BY <2>0, <2>3, Turns DEF t
    <3>2. /\ m \in Int /\ m + 1 \in Int /\ m - 1 \in Int /\ s.at <= m /\ m <= s.hi /\ m \in 0 .. N
          /\ m + 1 \in 1 .. N /\ Within(n - 1, s, N) /\ Parts(s)
      <4>1. Within(n - 1, s, N) /\ Parts(s)
        BY <1>4, <2>3
      <4>2. 0 <= s.at /\ s.hi + 1 <= N
        BY <4>1 DEF Within
      <4> HIDE DEF Parts
      <4> QED
        BY <1>1, <2>0, <3>1, <4>1, <4>2
    <3>3. keys[m + 1] \in Nat
      BY <1>1, <3>2
    <3>4. CASE keys[m + 1] = k
      <4>2. t \in Locals /\ t.found = TRUE /\ t.at = m
        BY <2>0, <2>3, <2>4, <3>1, <3>4 DEF Found, Left, Right, Locals
      <4> QED
        BY <1>1, <3>2, <3>4, <4>2
    <3>5. CASE keys[m + 1] # k /\ keys[m + 1] < k
      <4>2. t \in Locals /\ t.found = FALSE /\ t.at = m + 1 /\ t.hi = s.hi
        BY <2>0, <2>3, <2>4, <3>1, <3>5 DEF Found, Left, Right, Locals
      <4>3. Within(n, t, N)
        BY <1>1, <2>0, <3>2, <4>2, StepRight
      <4>4. ASSUME Strict(keys), NEW j \in DOMAIN keys, j <= m + 1 PROVE keys[j] < k
        <5>1. j = m + 1 \/ j < m + 1
          BY <1>1, <3>2, <4>4
        <5>2. j < m + 1 => keys[j] < keys[m + 1]
          BY <1>1, <3>2, <4>4 DEF Strict
        <5>3. keys[j] \in Nat
          BY <1>1
        <5> QED
          BY <3>3, <3>5, <5>1, <5>2, <5>3
      <4>5. Parts(t)
        BY <3>2, <4>2, <4>4
      <4> QED
        BY <2>3, <4>2, <4>3, <4>5
    <3>6. CASE keys[m + 1] # k /\ ~(keys[m + 1] < k)
      <4>2. t \in Locals /\ t.found = FALSE /\ t.at = s.at /\ t.hi = m - 1
        BY <2>0, <2>3, <2>4, <3>1, <3>6 DEF Found, Left, Right, Locals
      <4>3. Within(n, t, N)
        BY <1>1, <2>0, <3>2, <4>2, StepLeft
      <4>4. ASSUME Strict(keys), NEW j \in DOMAIN keys, j > (m - 1) + 1 PROVE k < keys[j]
        <5>1. j = m + 1 \/ m + 1 < j
          BY <1>1, <3>2, <4>4
        <5>2. m + 1 < j => keys[m + 1] < keys[j]
          BY <1>1, <3>2, <4>4 DEF Strict
        <5>3. keys[j] \in Nat
          BY <1>1
        <5> QED
          BY <3>3, <3>6, <5>1, <5>2, <5>3
      <4>5. Parts(t)
        BY <3>2, <4>2, <4>4
      <4> QED
        BY <2>3, <4>2, <4>3, <4>5
    <3> QED
      BY <3>4, <3>5, <3>6
  <2> QED
    BY <2>0, <2>1, <2>2, <2>3
<1> DEFINE S == {n \in 0 .. N : Good(n, f[n])}
<1> HIDE DEF Good
<1>5. 0 \in S
  BY <1>1, <1>3
<1>6. ASSUME NEW n \in 1 .. N, n - 1 \in S PROVE n \in S
  <2>1. n \in 0 .. N /\ Good(n - 1, f[n - 1])
    BY <1>1, <1>6
  <2>2. Good(n, LeafTurn(keys, k, f[n - 1]))
    BY <1>4, <2>1
  <2> QED
    BY <1>2, <2>1, <2>2
<1>7. Good(N, i)
  <2>1. \A n \in 0 .. N : n \in S
    <3> HIDE DEF S
    <3> QED
      BY <1>1, <1>5, <1>6, Induction
  <2>2. N \in S
    BY <1>1, <2>1
  <2> QED
    BY <1>2, <2>2
<1>8. i \in Locals /\ i.found \in BOOLEAN /\ (~i.found => i.at = i.hi + 1 /\ i.at \in 0 .. N)
  <2>1. i \in Locals /\ (~i.found => Within(N, i, N))
    BY <1>7 DEF Good
  <2>2. i.found \in BOOLEAN
    BY <2>1 DEF Locals
  <2> QED
    BY <1>1, <2>1, <2>2, StepEnd
<1>9. i.found => i.at \in 0 .. N /\ i.at + 1 \in DOMAIN keys /\ keys[i.at + 1] = k
  BY <1>7 DEF Good
<1>10. ~i.found => Parts(i)
  BY <1>7 DEF Good
<1> QED
  BY <1>8, <1>9, <1>10 DEF N

(* i is the place of k among the keys of an inner node.                    *)
Between(keys, k, i) ==
  /\ i \in 0 .. Len(keys)
  /\ \A j \in DOMAIN keys : (j <= i => keys[j] <= k) /\ (j > i => k < keys[j])

(* ChildIndex finds the place of the key among the separators.             *)
LEMMA ChildIndexFinds ==
  ASSUME NEW keys \in Seq(Nat), NEW k \in Nat
  PROVE  /\ ChildIndex(keys, k) \in 0 .. Len(keys)
         /\ Strict(keys) => Between(keys, k, ChildIndex(keys, k))
<1> DEFINE N == Len(keys)
           Parts(s) == Strict(keys) => \A j \in DOMAIN keys : (j <= s.at => keys[j] <= k) /\ (j > s.hi + 1 => k < keys[j])
           Good(n, s) == s \in Locals /\ Within(n, s, N) /\ Parts(s)
<1>1. N \in Nat /\ DOMAIN keys = 1 .. N /\ \A j \in DOMAIN keys : keys[j] \in Nat
  BY Elements
<1>2. PICK f : /\ f[0] = Bounds(keys)
               /\ \A n \in 1 .. N : f[n] = ChildTurn(keys, k, f[n - 1])
               /\ ChildIndex(keys, k) = f[N].at
  BY ChildLoop
<1>3. Good(0, f[0])
  <2>1. Parts(Bounds(keys))
    BY <1>1 DEF Bounds
  <2> HIDE DEF Parts
  <2> QED
    BY <1>2, <2>1, StepFirst
<1> HIDE DEF N
<1>4. ASSUME NEW n \in 1 .. N, NEW s, Good(n - 1, s)
      PROVE  Good(n, ChildTurn(keys, k, s))
  <2> DEFINE t == ChildTurn(keys, k, s)
  <2>4. t \in Locals
    BY <1>4, Turns
  <2> HIDE DEF t
  <2> SUFFICES Good(n, t)
    BY DEF t
  <2>0. s \in Locals /\ s.at \in Int /\ s.hi \in Int
    BY <1>4 DEF Locals
  <2>2. CASE s.at > s.hi
    <3>1. t = s
      BY <2>0, <2>2, Turns DEF t
    <3>2. Within(n, s, N)
      BY <1>1, <1>4, <2>2, StepNone
    <3> QED
      BY <1>4, <2>2, <3>1, <3>2
  <2>3. CASE s.at <= s.hi
    <3>1. PICK m \in Int :
            /\ s.at <= m /\ m <= s.hi
            /\ k < keys[m + 1] => Left(s, t, m)
            /\ ~(k < keys[m + 1]) => Right(s, t, m)
      BY <2>0, <2>3, Turns DEF t
    <3>2. /\ m \in Int /\ m + 1 \in Int /\ m - 1 \in Int /\ s.at <= m /\ m <= s.hi
          /\ m + 1 \in 1 .. N /\ Within(n - 1, s, N) /\ Parts(s)
      <4>1. Within(n - 1, s, N) /\ Parts(s)
        BY <1>4, <2>3
      <4>2. 0 <= s.at /\ s.hi + 1 <= N
        BY <4>1 DEF Within
      <4> HIDE DEF Parts
      <4> QED
        BY <1>1, <2>0, <3>1, <4>1, <4>2
    <3>3. keys[m + 1] \in Nat
      BY <1>1, <3>2
    <3>5. CASE ~(k < keys[m + 1])
      <4>2. t \in Locals /\ t.at = m + 1 /\ t.hi = s.hi
        BY <2>0, <2>3, <2>4, <3>1, <3>5 DEF Found, Left, Right, Locals
      <4>3. Within(n, t, N)
        BY <1>1, <2>0, <3>2, <4>2, StepRight
      <4>4. ASSUME Strict(keys), NEW j \in DOMAIN keys, j <= m + 1 PROVE keys[j] <= k
        <5>1. j = m + 1 \/ j < m + 1
          BY <1>1, <3>2, <4>4
        <5>2. j < m + 1 => keys[j] < keys[m + 1]
          BY <1>1, <3>2, <4>4 DEF Strict
        <5>3. keys[j] \in Nat
          BY <1>1
        <5> QED
          BY <3>3, <3>5, <5>1, <5>2, <5>3
      <4>5. Parts(t)
        BY <3>2, <4>2, <4>4
      <4> QED
        BY <2>3, <4>2, <4>3, <4>5
    <3>6. CASE k < keys[m + 1]
      <4>2. t \in Locals /\ t.at = s.at /\ t.hi = m - 1
        BY <2>0, <2>3, <2>4, <3>1, <3>6 DEF Found, Left, Right, Locals
      <4>3. Within(n, t, N)
        BY <1>1, <2>0, <3>2, <4>2, StepLeft
      <4>4. ASSUME Strict(keys), NEW j \in DOMAIN keys, j > (m - 1) + 1 PROVE k < keys[j]
        <5>1. j = m + 1 \/ m + 1 < j
          BY <1>1, <3>2, <4>4
        <5>2. m + 1 < j => keys[m + 1] < keys[j]
          BY <1>1, <3>2, <4>4 DEF Strict
        <5>3. keys[j] \in Nat
          BY <1>1
        <5> QED
          BY <3>3, <3>6, <5>1, <5>2, <5>3
      <4>5. Parts(t)
        BY <3>2, <4>2, <4>4
      <4> QED
        BY <2>3, <4>2, <4>3, <4>5
    <3> QED
      BY <3>5, <3>6
  <2> QED
    BY <2>0, <2>2, <2>3
<1> DEFINE S == {n \in 0 .. N : Good(n, f[n])}
<1> HIDE DEF Good
<1>5. 0 \in S
  BY <1>1, <1>3
<1>6. ASSUME NEW n \in 1 .. N, n - 1 \in S PROVE n \in S
  <2>1. n \in 0 .. N /\ Good(n - 1, f[n - 1])
    BY <1>1, <1>6
  <2>2. Good(n, ChildTurn(keys, k, f[n - 1]))
    BY <1>4, <2>1
  <2> QED
    BY <1>2, <2>1, <2>2
<1>7. Good(N, f[N])
  <2>1. \A n \in 0 .. N : n \in S
    <3> HIDE DEF S
    <3> QED
      BY <1>1, <1>5, <1>6, Induction
  <2>2. N \in S
    BY <1>1, <2>1
  <2> QED
    BY <2>2
<1> DEFINE s == f[N]
<1> HIDE DEF s
<1>8. s \in Locals /\ s.at = s.hi + 1 /\ s.at \in 0 .. N /\ Parts(s)
  <2>1. s \in Locals /\ Within(N, s, N) /\ Parts(s)
    BY <1>7 DEF Good, s
  <2> QED
    BY <1>1, <2>1, StepEnd
<1>9. ChildIndex(keys, k) = s.at
  BY <1>2 DEF s
<1> QED
  BY <1>8, <1>9 DEF N, Between

(* There is one such place.                                                *)
LEMMA OnePlace ==
  ASSUME NEW keys \in Seq(Nat), NEW k \in Nat, Strict(keys), NEW i, Between(keys, k, i)
  PROVE  ChildIndex(keys, k) = i
<1> DEFINE c == ChildIndex(keys, k)
<1>1. Between(keys, k, c)
  BY ChildIndexFinds
<1> HIDE DEF c
<1>2. DOMAIN keys = 1 .. Len(keys) /\ Len(keys) \in Nat /\ \A j \in DOMAIN keys : keys[j] \in Nat
  BY Elements
<1>3. c \in 0 .. Len(keys) /\ i \in 0 .. Len(keys)
  BY <1>1 DEF Between
<1>4. ~(c < i)
  <2> SUFFICES ASSUME c < i PROVE FALSE
    OBVIOUS
  <2>1. i \in DOMAIN keys /\ i > c /\ i <= i
    BY <1>2, <1>3
  <2>2. keys[i] <= k /\ k < keys[i] /\ keys[i] \in Nat
    BY <1>1, <1>2, <2>1 DEF Between
  <2> QED
    BY <2>2
<1>5. ~(i < c)
  <2> SUFFICES ASSUME i < c PROVE FALSE
    OBVIOUS
  <2>1. c \in DOMAIN keys /\ c > i /\ c <= c
    BY <1>2, <1>3
  <2>2. keys[c] <= k /\ k < keys[c] /\ keys[c] \in Nat
    BY <1>1, <1>2, <2>1 DEF Between
  <2> QED
    BY <2>2
<1> QED
  BY <1>3, <1>4, <1>5 DEF c

-----------------------------------------------------------------------------
(* The shape of the tree. The invariant speaks of nd and o, the pages and  *)
(* the running call, and of ghosts that it only claims to exist: the level *)
(* of each page, the chain C of the leaves, the spine L of the first       *)
(* children, and the route that btree_search takes for each key.           *)
NodeType == [leaf : BOOLEAN, keys : Seq(Keys), items : Seq(Vals \cup Nat), next : Nat]

(* A page that was allocated and lost by a failure                         *)
Lost(n) == ~n.leaf /\ n.items = <<>> /\ n.keys = <<>>

(* A leaf has a value for each key, an inner node one child more than it   *)
(* has keys.                                                               *)
Shaped(nd, n) ==
  /\ n.leaf => n.items \in Seq(Vals) /\ Len(n.items) = Len(n.keys)
  /\ ~n.leaf => \A i \in DOMAIN n.items : n.items[i] \in DOMAIN nd
  /\ ~n.leaf /\ ~Lost(n) => Len(n.items) = Len(n.keys) + 1

Pages(nd) ==
  /\ nd \in Seq(NodeType) /\ Root \in DOMAIN nd
  /\ \A p \in DOMAIN nd : Shaped(nd, nd[p])

(* All children of a node are one level below it, and leaves at level 0.   *)
Levelled(nd, level) ==
  /\ level \in [DOMAIN nd -> Nat]
  /\ \A p \in DOMAIN nd : nd[p].leaf <=> level[p] = 0
  /\ \A p \in DOMAIN nd : ~nd[p].leaf =>
       \A i \in DOMAIN nd[p].items : level[p] = level[nd[p].items[i]] + 1
  /\ level[Root] < Len(nd)

(* A page is the child of one node, in one place. The root and a lost page *)
(* are nobody's children.                                                  *)
Orphan(nd, c) == \A p \in DOMAIN nd : ~nd[p].leaf => \A i \in DOMAIN nd[p].items : nd[p].items[i] # c
OneParent(nd) ==
  /\ \A p, q \in DOMAIN nd : ~nd[p].leaf /\ ~nd[q].leaf =>
       \A i \in DOMAIN nd[p].items, j \in DOMAIN nd[q].items :
         nd[p].items[i] = nd[q].items[j] => p = q /\ i = j
  /\ Orphan(nd, Root) /\ ~Lost(nd[Root])
  /\ \A p \in DOMAIN nd : Lost(nd[p]) => Orphan(nd, p)

(* The way down of the running call: each page is the child taken of the   *)
(* page before, and Below is where it leads.                               *)
Below(nd, path) ==
  IF path = <<>> THEN Root ELSE nd[path[Len(path)].page].items[path[Len(path)].ci + 1]
Way(nd, level, path) ==
  /\ path \in Seq([page : DOMAIN nd, ci : Nat])
  /\ \A i \in DOMAIN path :
       /\ ~nd[path[i].page].leaf /\ path[i].ci + 1 \in DOMAIN nd[path[i].page].items
       /\ level[path[i].page] + i = level[Root] + 1
       /\ path[i].page = IF i = 1 THEN Root ELSE nd[path[i - 1].page].items[path[i - 1].ci + 1]

CallType == [kind : {"none", "insert", "delete"}, key : Nat, val : Vals \cup {NoVal},
             at : Nat, path : Seq([page : Nat, ci : Nat]), up : [key : Nat, page : Nat]]
Calls(nd, level, o) ==
  /\ o \in CallType
  /\ o.kind = "none" => o = Idle
  /\ o # Idle => o.key \in Keys /\ Way(nd, level, o.path) /\ (o.kind = "insert" => o.val \in Vals)
  /\ o # Idle /\ o.up = NoSplit => o.at = Below(nd, o.path)
  /\ o.up # NoSplit =>
       /\ o.up.key \in Keys /\ o.up.page \in DOMAIN nd /\ o.up.page # Root
       /\ Orphan(nd, o.up.page) /\ ~Lost(nd[o.up.page])
       /\ level[o.up.page] = level[Below(nd, o.path)]

(* The leaves, in the order a scan visits them                             *)
Chained(nd, C) ==
  /\ C \in Seq(DOMAIN nd) /\ C # <<>> /\ Len(C) <= Len(nd)
  /\ \A p \in DOMAIN nd : nd[p].leaf <=> \E i \in DOMAIN C : C[i] = p
  /\ \A i, j \in DOMAIN C : C[i] = C[j] => i = j
  /\ \A i \in DOMAIN C : nd[C[i]].next = IF i = Len(C) THEN NoPage ELSE C[i + 1]

Spine(nd, level, C, L) ==
  /\ L \in [0 .. level[Root] -> DOMAIN nd]
  /\ L[level[Root]] = Root
  /\ \A n \in 1 .. level[Root] :
       ~nd[L[n]].leaf /\ nd[L[n]].items # <<>> /\ L[n - 1] = nd[L[n]].items[1]
  /\ L[0] = C[1]

Has(n, k) == \E i \in DOMAIN n.keys : n.keys[i] = k
Inhabited(nd, cs) ==
  \A k \in Keys : cs[k] # NoVal => \E p \in DOMAIN nd : nd[p].leaf /\ Has(nd[p], k)

Frame(nd, level, C, L) ==
  /\ Pages(nd) /\ Levelled(nd, level) /\ OneParent(nd)
  /\ Chained(nd, C) /\ Spine(nd, level, C, L)
Tree(nd, o, cs, level, C, L) ==
  Frame(nd, level, C, L) /\ Calls(nd, level, o) /\ Inhabited(nd, cs)

(* Where a key leads. A page that has split and that no parent knows yet   *)
(* is reached from its left sibling.                                       *)
Ordered(nd) == \A p \in DOMAIN nd : Strict(nd[p].keys)

Child(n, k) == n.items[ChildIndex(n.keys, k) + 1]
Moved(nd, o, k, p) ==
  IF o.up # NoSplit /\ p = Below(nd, o.path) /\ o.up.key <= k THEN o.up.page ELSE p

Routed(nd, o, level, route) ==
  /\ route \in [Keys -> [0 .. level[Root] -> DOMAIN nd]]
  /\ \A k \in Keys : \A n \in 0 .. level[Root] : level[route[k][n]] = n /\ ~Lost(nd[route[k][n]])
  /\ \A k \in Keys : route[k][level[Root]] = Moved(nd, o, k, Root)
  /\ \A k \in Keys : \A n \in 1 .. level[Root] :
       route[k][n - 1] = Moved(nd, o, k, Child(nd[route[k][n]], k))

(* Each key in a page leads there, and so does the key of the running call *)
(* on its way down. Of a page that has split, the separator leads to the   *)
(* right half and some smaller key to the left one.                        *)
Settled(nd, o, level, route) ==
  /\ \A p \in DOMAIN nd : \A i \in DOMAIN nd[p].keys :
       level[p] <= level[Root] /\ route[nd[p].keys[i]][level[p]] = p
  /\ o # Idle /\ o.up = NoSplit => route[o.key][level[o.at]] = o.at
  /\ o.up # NoSplit =>
       /\ route[o.up.key][level[o.up.page]] = o.up.page
       /\ \E m \in Keys : m < o.up.key /\ route[m][level[o.up.page]] = Below(nd, o.path)

Stores(nd, cs, route) ==
  \A k \in Keys :
    LET n == nd[route[k][0]]
    IN  /\ cs[k] = NoVal => ~Has(n, k)
        /\ cs[k] # NoVal => \E i \in DOMAIN n.keys : n.keys[i] = k /\ n.items[i] = cs[k]

(* Smaller keys lead to earlier leaves.                                    *)
Rising(C, route) ==
  \A k, m \in Keys : \A i, j \in DOMAIN C :
    k < m /\ C[i] = route[k][0] /\ C[j] = route[m][0] => i <= j

Leads(nd, o, cs, level, C, route) ==
  /\ Ordered(nd) /\ Routed(nd, o, level, route) /\ Settled(nd, o, level, route)
  /\ Stores(nd, cs, route) /\ Rising(C, route)

(* broken: a sibling has been left without a parent, and then some keys    *)
(* are only found by a scan.                                               *)
Sound(nd, o, cs, lost) ==
  \E level, C, L :
    /\ Tree(nd, o, cs, level, C, L)
    /\ ~lost => \E route : Leads(nd, o, cs, level, C, route)

Contents == contents \in [Keys -> Vals \cup {NoVal}] /\ broken \in BOOLEAN
TreeInv == Contents /\ Sound(node, op, contents, broken)

-----------------------------------------------------------------------------
(* Pages and their changes *)
LEMMA KeyTypes == Keys \subseteq Nat /\ NoVal \notin Vals /\ Order \in Nat /\ Order >= 2 /\ MaxPages \in Nat
BY BTreeAssumption

(* A sequence over a set is one over every greater set.                    *)
LEMMA WiderSequence ==
  ASSUME NEW S, NEW T, S \subseteq T, NEW s \in Seq(S)
  PROVE  s \in Seq(T)
OBVIOUS

(* The fields of a page                                                    *)
LEMMA PageFields ==
  ASSUME NEW n \in NodeType
  PROVE  /\ n.leaf \in BOOLEAN /\ n.next \in Nat
         /\ n.keys \in Seq(Keys) /\ n.keys \in Seq(Nat) /\ n.items \in Seq(Vals \cup Nat)
         /\ Len(n.keys) \in Nat /\ DOMAIN n.keys = 1 .. Len(n.keys)
         /\ Len(n.items) \in Nat /\ DOMAIN n.items = 1 .. Len(n.items)
         /\ \A i \in DOMAIN n.keys : n.keys[i] \in Keys /\ n.keys[i] \in Nat
<1>1. n.leaf \in BOOLEAN /\ n.next \in Nat /\ n.keys \in Seq(Keys) /\ n.items \in Seq(Vals \cup Nat)
  BY DEF NodeType
<1>2. /\ Len(n.keys) \in Nat /\ DOMAIN n.keys = 1 .. Len(n.keys)
      /\ \A i \in DOMAIN n.keys : n.keys[i] \in Keys
  BY <1>1, Elements
<1>3. Len(n.items) \in Nat /\ DOMAIN n.items = 1 .. Len(n.items)
  BY <1>1, Elements
<1>4. n.keys \in Seq(Nat)
  BY <1>1, KeyTypes, WiderSequence
<1> QED
  BY <1>1, <1>2, <1>3, <1>4, KeyTypes

(* nd2 is nd with x for page a; or with a page r more, which is y.         *)
Updated(nd, nd2, a, x) ==
  /\ a \in DOMAIN nd /\ x \in NodeType
  /\ nd2 \in Seq(NodeType) /\ Len(nd2) = Len(nd) /\ DOMAIN nd2 = DOMAIN nd
  /\ nd2[a] = x /\ \A p \in DOMAIN nd : p # a => nd2[p] = nd[p]
Grown(nd, nd2, a, x, r, y) ==
  /\ a \in DOMAIN nd /\ x \in NodeType /\ y \in NodeType
  /\ r \in Nat /\ r = Len(nd) + 1 /\ r \notin DOMAIN nd /\ r > Root
  /\ nd2 \in Seq(NodeType) /\ Len(nd2) = Len(nd) + 1 /\ DOMAIN nd2 = DOMAIN nd \cup {r}
  /\ nd2[a] = x /\ nd2[r] = y /\ \A p \in DOMAIN nd : p # a => nd2[p] = nd[p]

(* What the two forms of assignment to the pages do                        *)
LEMMA UpdatedBy ==
  ASSUME NEW nd \in Seq(NodeType), NEW a \in DOMAIN nd, NEW x \in NodeType
  PROVE  Updated(nd, [nd EXCEPT ![a] = x], a, x)
BY DEF Updated

(* ... with a page appended                                                *)
LEMMA GrownBy ==
  ASSUME NEW nd \in Seq(NodeType), Root \in DOMAIN nd, NEW a \in DOMAIN nd, NEW x \in NodeType, NEW y \in NodeType
  PROVE  Grown(nd, Append([nd EXCEPT ![a] = x], y), a, x, Len(nd) + 1, y)
<1> DEFINE b == [nd EXCEPT ![a] = x]
<1>1. /\ b \in Seq(NodeType) /\ Len(b) = Len(nd) /\ DOMAIN b = DOMAIN nd /\ b[a] = x
      /\ \A p \in DOMAIN nd : p # a => b[p] = nd[p]
  OBVIOUS
<1>2. Len(nd) \in Nat /\ DOMAIN nd = 1 .. Len(nd)
  BY Elements
<1>3. Len(nd) + 1 \in Nat /\ Len(nd) + 1 \notin DOMAIN nd /\ Len(nd) + 1 > Root
      /\ 1 .. Len(nd) + 1 = (1 .. Len(nd)) \cup {Len(nd) + 1}
  BY <1>2 DEF Root
<1> HIDE DEF b
<1>4. /\ Append(b, y) \in Seq(NodeType) /\ Len(Append(b, y)) = Len(b) + 1
      /\ DOMAIN Append(b, y) = 1 .. Len(b) + 1
      /\ \A i \in DOMAIN b : Append(b, y)[i] = b[i]
      /\ Append(b, y)[Len(b) + 1] = y
  BY <1>1, AppendElements
<1> QED
  BY <1>1, <1>2, <1>3, <1>4 DEF Grown, b

(* A page with a key or a child more is not a lost one.                    *)
LEMMA NotLost ==
  ASSUME NEW n \in NodeType, n.items # <<>>
  PROVE  ~Lost(n)
BY DEF Lost

-----------------------------------------------------------------------------
(* The tree under a change. In a leaf: *)
LEMMA FrameLeaf ==
  ASSUME NEW nd, NEW level, NEW C, NEW L, Frame(nd, level, C, L),
         NEW nd2, NEW a, NEW x, Updated(nd, nd2, a, x),
         nd[a].leaf, x.leaf, Shaped(nd, x), x.next = nd[a].next
  PROVE  Frame(nd2, level, C, L)
<1>1. Pages(nd2)
  BY DEF Frame, Pages, Shaped, Updated
<1>0. /\ \A p \in DOMAIN nd : nd2[p].leaf <=> nd[p].leaf
      /\ \A p \in DOMAIN nd : ~nd[p].leaf => nd2[p] = nd[p]
      /\ \A p \in DOMAIN nd : nd2[p].next = nd[p].next
      /\ DOMAIN nd2 = DOMAIN nd /\ Len(nd2) = Len(nd)
  BY DEF Updated
<1>2. Levelled(nd2, level)
  <2>1. Levelled(nd, level)
    BY DEF Frame
  <2> QED
    BY <1>0, <2>1 DEF Levelled
<1>3. OneParent(nd2)
  <2>1. OneParent(nd) /\ Root \in DOMAIN nd
    BY DEF Frame, Pages
  <2>2. \A c : Orphan(nd, c) => Orphan(nd2, c)
    BY <1>0 DEF Orphan
  <2>3. \A p \in DOMAIN nd : Lost(nd2[p]) => Lost(nd[p])
    BY <1>0 DEF Lost
  <2> QED
    BY <1>0, <2>1, <2>2, <2>3 DEF OneParent
<1>4. Chained(nd2, C)
  <2>1. Chained(nd, C)
    BY DEF Frame
  <2>2. \A i \in DOMAIN C : C[i] \in DOMAIN nd
    BY <2>1, Elements DEF Chained
  <2> QED
    BY <1>0, <2>1, <2>2 DEF Chained
<1>5. Spine(nd2, level, C, L)
  <2>1. Spine(nd, level, C, L)
    BY DEF Frame
  <2>2. level[Root] \in Nat
    BY DEF Frame, Levelled, Pages
  <2>3. \A n \in 1 .. level[Root] : n \in 0 .. level[Root]
    BY <2>2
  <2>4. \A n \in 1 .. level[Root] : L[n] \in DOMAIN nd
    BY <2>1, <2>3 DEF Spine
  <2> QED
    BY <1>0, <2>1, <2>4 DEF Spine
<1> QED
  BY <1>1, <1>2, <1>3, <1>4, <1>5 DEF Frame

(* One page more, at level v.                                              *)
With(level, r, v) == [p \in DOMAIN level \cup {r} |-> IF p = r THEN v ELSE level[p]]
LevelAdded(level, level2, D, r, v) ==
  /\ level2 \in [D \cup {r} -> Nat] /\ level2[r] = v
  /\ \A p \in D : level2[p] = level[p]

(* Such a level exists.                                                    *)
LEMMA LevelMore ==
  ASSUME NEW D, NEW level \in [D -> Nat], NEW r, r \notin D, NEW v \in Nat
  PROVE  LevelAdded(level, With(level, r, v), D, r, v)
BY DEF With, LevelAdded

(* A page keeps its shape when others come.                                *)
LEMMA ShapedMore ==
  ASSUME NEW nd, NEW nd2, DOMAIN nd \subseteq DOMAIN nd2, NEW n, Shaped(nd, n)
  PROVE  Shaped(nd2, n)
BY DEF Shaped

(* Nothing changes for the inner nodes when only leaves, or a lost page,   *)
(* come or change.                                                         *)
LEMMA SpineSame ==
  ASSUME NEW nd, NEW nd2, NEW level, NEW level2, NEW C, NEW C2, NEW L, Spine(nd, level, C, L),
         level[Root] \in Nat, level2[Root] = level[Root], DOMAIN nd \subseteq DOMAIN nd2, C2[1] = C[1],
         \A p \in DOMAIN nd : ~nd[p].leaf => nd2[p] = nd[p]
  PROVE  Spine(nd2, level2, C2, L)
<1>1. \A n \in 1 .. level[Root] : n \in 0 .. level[Root]
  OBVIOUS
<1>2. \A n \in 1 .. level[Root] : L[n] \in DOMAIN nd
  BY <1>1 DEF Spine
<1>3. L \in [0 .. level[Root] -> DOMAIN nd2]
  BY DEF Spine
<1> QED
  BY <1>2, <1>3 DEF Spine

(* The same for the one parent of each page                                *)
LEMMA OneParentSame ==
  ASSUME NEW nd, NEW nd2, OneParent(nd), Root \in DOMAIN nd, Root \in DOMAIN nd2,
         \A p \in DOMAIN nd2 : ~nd2[p].leaf =>
           \/ p \in DOMAIN nd /\ ~nd[p].leaf /\ nd2[p] = nd[p]
           \/ nd2[p].items = <<>> /\ Orphan(nd, p) /\ p # Root,
         ~nd[Root].leaf => nd2[Root] = nd[Root]
  PROVE  OneParent(nd2) /\ \A c : Orphan(nd, c) => Orphan(nd2, c)
<1>1. \A p \in DOMAIN nd2 : ~nd2[p].leaf => \A i \in DOMAIN nd2[p].items :
        p \in DOMAIN nd /\ ~nd[p].leaf /\ nd2[p] = nd[p]
  <2> SUFFICES ASSUME NEW p \in DOMAIN nd2, ~nd2[p].leaf, NEW i \in DOMAIN nd2[p].items
               PROVE  p \in DOMAIN nd /\ ~nd[p].leaf /\ nd2[p] = nd[p]
    OBVIOUS
  <2>1. nd2[p].items # <<>>
    OBVIOUS
  <2> QED
    BY <2>1
<1>2. \A c : Orphan(nd, c) => Orphan(nd2, c)
  BY <1>1 DEF Orphan
<1>3. ~Lost(nd2[Root])
  BY DEF OneParent, Lost
<1>4. ASSUME NEW p \in DOMAIN nd2, Lost(nd2[p]) PROVE Orphan(nd, p)
  <2>1. ~nd2[p].leaf
    BY <1>4 DEF Lost
  <2> QED
    BY <1>4, <2>1 DEF OneParent
<1>5. ASSUME NEW p \in DOMAIN nd2, NEW q \in DOMAIN nd2, ~nd2[p].leaf, ~nd2[q].leaf,
             NEW i \in DOMAIN nd2[p].items, NEW j \in DOMAIN nd2[q].items, nd2[p].items[i] = nd2[q].items[j]
      PROVE  p = q /\ i = j
  BY <1>1, <1>5 DEF OneParent
<1> QED
  BY <1>2, <1>3, <1>4, <1>5 DEF OneParent

(* A page more behind position i of the chain                              *)
LEMMA ChainMore ==
  ASSUME NEW nd, NEW nd2, NEW C, Chained(nd, C), nd \in Seq(NodeType),
         NEW a, NEW x, NEW r, NEW y, Grown(nd, nd2, a, x, r, y),
         nd[a].leaf, x.leaf, y.leaf, x.next = r, y.next = nd[a].next,
         NEW i \in DOMAIN C, C[i] = a, NEW D \in Seq(DOMAIN nd2), Inserted(C, D, i, r)
  PROVE  Chained(nd2, D)
<1> DEFINE n == Len(C)
<1>0. /\ a \in DOMAIN nd /\ r = Len(nd) + 1 /\ r \notin DOMAIN nd /\ Len(nd2) = Len(nd) + 1
      /\ DOMAIN nd2 = DOMAIN nd \cup {r} /\ nd2[a] = x /\ nd2[r] = y
      /\ \A p \in DOMAIN nd : p # a => nd2[p] = nd[p]
      /\ Len(nd) \in Nat
  BY DEF Grown
<1>1. /\ n \in Nat /\ DOMAIN C = 1 .. n /\ n <= Len(nd) /\ i \in 1 .. n
      /\ \A j \in DOMAIN C : C[j] \in DOMAIN nd
  <2>1. C \in Seq(DOMAIN nd) /\ Len(C) <= Len(nd)
    BY DEF Chained
  <2> QED
    BY <2>1, Elements
<1>3. Len(D) = n + 1 /\ DOMAIN D = 1 .. n + 1
  BY DEF Inserted
<1> HIDE DEF n
<1>2. /\ i + 1 \in DOMAIN D /\ D[i + 1] = r
      /\ \A j \in DOMAIN C : j <= i => j \in DOMAIN D /\ D[j] = C[j]
      /\ \A j \in DOMAIN C : j > i => j + 1 \in DOMAIN D /\ D[j + 1] = C[j]
  BY InsertedTo
<1>4. \A j \in DOMAIN D : \/ j \in 1 .. i /\ j \in DOMAIN C /\ D[j] = C[j]
                          \/ j = i + 1 /\ D[j] = r
                          \/ j - 1 \in i + 1 .. n /\ j - 1 \in DOMAIN C /\ D[j] = C[j - 1]
  BY InsertedFrom DEF n
<1>5. \A j, k \in DOMAIN C : C[j] = C[k] => j = k
  BY DEF Chained
<1>6. \A j, k \in DOMAIN D : D[j] = D[k] => j = k
  <2> SUFFICES ASSUME NEW j \in DOMAIN D, NEW k \in DOMAIN D, D[j] = D[k] PROVE j = k
    OBVIOUS
  <2>1. j \in Int /\ k \in Int /\ i \in Int
    BY <1>1, <1>3
  <2>2. j = i + 1 <=> k = i + 1
    <3>1. \A q \in DOMAIN D : q # i + 1 => D[q] \in DOMAIN nd
      BY <1>1, <1>4
    <3>2. D[i + 1] \notin DOMAIN nd
      BY <1>0, <1>2
    <3> QED
      BY <3>1, <3>2
  <2>3. CASE j # i + 1
    <3>1. \/ j \in 1 .. i /\ j \in DOMAIN C /\ D[j] = C[j]
          \/ j - 1 \in i + 1 .. n /\ j - 1 \in DOMAIN C /\ D[j] = C[j - 1]
      BY <1>4, <2>3
    <3>2. \/ k \in 1 .. i /\ k \in DOMAIN C /\ D[k] = C[k]
          \/ k - 1 \in i + 1 .. n /\ k - 1 \in DOMAIN C /\ D[k] = C[k - 1]
      BY <1>4, <2>2, <2>3
    <3>3. CASE j \in 1 .. i /\ j \in DOMAIN C /\ D[j] = C[j]
      <4>1. CASE k \in 1 .. i /\ k \in DOMAIN C /\ D[k] = C[k]
        BY <1>5, <3>3, <4>1
      <4>2. CASE k - 1 \in i + 1 .. n /\ k - 1 \in DOMAIN C /\ D[k] = C[k - 1]
        <5>1. j = k - 1
          BY <1>5, <3>3, <4>2
        <5> QED
          BY <2>1, <3>3, <4>2, <5>1
      <4> QED
        BY <3>2, <4>1, <4>2
    <3>4. CASE j - 1 \in i + 1 .. n /\ j - 1 \in DOMAIN C /\ D[j] = C[j - 1]
      <4>1. CASE k \in 1 .. i /\ k \in DOMAIN C /\ D[k] = C[k]
        <5>1. k = j - 1
          BY <1>5, <3>4, <4>1
        <5> QED
          BY <2>1, <3>4, <4>1, <5>1
      <4>2. CASE k - 1 \in i + 1 .. n /\ k - 1 \in DOMAIN C /\ D[k] = C[k - 1]
        <5>1. j - 1 = k - 1
          BY <1>5, <3>4, <4>2
        <5> QED
          BY <2>1, <5>1
      <4> QED
        BY <3>2, <4>1, <4>2
    <3> QED
      BY <3>1, <3>3, <3>4
  <2> QED
    BY <2>2, <2>3
<1>7. ASSUME NEW j \in DOMAIN D PROVE nd2[D[j]].next = IF j = Len(D) THEN NoPage ELSE D[j + 1]
  <2>0. j \in Int /\ i \in Int /\ n \in Int
    BY <1>1, <1>3
  <2>1. CASE j \in 1 .. i /\ j \in DOMAIN C /\ D[j] = C[j] /\ j # i
    <3>1. C[j] # a /\ C[j] \in DOMAIN nd
      BY <1>1, <1>5, <2>1
    <3>2. nd2[D[j]].next = nd[C[j]].next
      BY <1>0, <2>1, <3>1
    <3>3. j # n /\ j # n + 1 /\ j + 1 <= i /\ j + 1 \in DOMAIN C
      BY <1>1, <2>0, <2>1
    <3>4. nd[C[j]].next = C[j + 1]
      BY <2>1, <3>3 DEF Chained, n
    <3> QED
      BY <1>2, <1>3, <3>2, <3>3, <3>4
  <2>2. CASE j = i
    <3>0. i <= i
      BY <2>0
    <3>1. D[j] = a
      BY <1>2, <2>2, <3>0
    <3>2. j # n + 1
      BY <1>1, <2>0, <2>2
    <3> QED
      BY <1>0, <1>2, <1>3, <2>2, <3>1, <3>2
  <2>3. CASE j = i + 1
    <3>1. nd2[D[j]].next = nd[a].next
      BY <1>0, <1>2, <2>3
    <3>2. nd[a].next = IF i = n THEN NoPage ELSE C[i + 1]
      BY DEF Chained, n
    <3>3. CASE i = n
      BY <1>3, <2>3, <3>1, <3>2, <3>3
    <3>4. CASE i # n
      <4>1. j # n + 1 /\ i + 1 \in DOMAIN C /\ i + 1 > i /\ (i + 1) + 1 = j + 1
        BY <1>1, <2>0, <2>3, <3>4
      <4> QED
        BY <1>2, <1>3, <3>1, <3>2, <3>4, <4>1
    <3> QED
      BY <3>3, <3>4
  <2>4. CASE j - 1 \in i + 1 .. n /\ j - 1 \in DOMAIN C /\ D[j] = C[j - 1]
    <3>1. j - 1 # i /\ i \in DOMAIN C
      BY <2>0, <2>4
    <3>2. C[j - 1] # a /\ C[j - 1] \in DOMAIN nd
      BY <1>1, <1>5, <2>4, <3>1
    <3>3. nd2[D[j]].next = nd[C[j - 1]].next
      BY <1>0, <2>4, <3>2
    <3>4. nd[C[j - 1]].next = IF j - 1 = n THEN NoPage ELSE C[(j - 1) + 1]
      BY <2>4 DEF Chained, n
    <3>5. (j - 1) + 1 = j /\ (j - 1 = n <=> j = n + 1)
      BY <2>0
    <3>6. CASE j = n + 1
      BY <1>3, <3>3, <3>4, <3>5, <3>6
    <3>7. CASE j # n + 1
      <4>1. j \in DOMAIN C /\ j > i
        BY <1>1, <1>3, <2>0, <2>4, <3>7
      <4> QED
        BY <1>2, <1>3, <3>3, <3>4, <3>5, <3>7, <4>1
    <3> QED
      BY <3>6, <3>7
  <2> QED
    BY <1>4, <2>1, <2>2, <2>3, <2>4
<1>8. \A p \in DOMAIN nd2 : nd2[p].leaf <=> \E j \in DOMAIN D : D[j] = p
  <2>1. ASSUME NEW p \in DOMAIN nd2, nd2[p].leaf PROVE \E j \in DOMAIN D : D[j] = p
    <3>1. CASE p = r
      BY <1>2, <3>1
    <3>2. CASE p # r
      <4>1. p \in DOMAIN nd /\ nd[p].leaf
        BY <1>0, <2>1, <3>2
      <4>2. PICK j \in DOMAIN C : C[j] = p
        BY <4>1 DEF Chained
      <4>3. j <= i \/ j > i
        BY <1>1
      <4> QED
        BY <1>2, <4>2, <4>3
    <3> QED
      BY <3>1, <3>2
  <2>2. ASSUME NEW p \in DOMAIN nd2, NEW j \in DOMAIN D, D[j] = p PROVE nd2[p].leaf
    <3>1. \A m \in DOMAIN C : nd[C[m]].leaf
      BY <1>1 DEF Chained
    <3>2. p = r \/ (p \in DOMAIN nd /\ nd[p].leaf)
      BY <1>1, <1>4, <2>2, <3>1
    <3> QED
      BY <1>0, <3>2
  <2> QED
    BY <2>1, <2>2
<1>9. D # <<>> /\ Len(D) <= Len(nd2)
  BY <1>0, <1>1, <1>3
<1> QED
  BY <1>3, <1>6, <1>7, <1>8, <1>9 DEF Chained

(* A leaf a is split into x and y, which comes behind it in the chain.     *)
LEMMA FrameSplitLeaf ==
  ASSUME NEW nd, NEW level, NEW C, NEW L, Frame(nd, level, C, L),
         NEW nd2, NEW a, NEW x, NEW r, NEW y, Grown(nd, nd2, a, x, r, y),
         nd[a].leaf, x.leaf, y.leaf, Shaped(nd, x), Shaped(nd, y), x.next = r, y.next = nd[a].next,
         NEW i \in DOMAIN C, C[i] = a, NEW D \in Seq(DOMAIN nd2), Inserted(C, D, i, r),
         NEW level2, LevelAdded(level, level2, DOMAIN nd, r, 0)
  PROVE  Frame(nd2, level2, D, L) /\ \A c : Orphan(nd, c) => Orphan(nd2, c)
<1>1. Pages(nd) /\ Levelled(nd, level) /\ OneParent(nd) /\ Chained(nd, C) /\ Spine(nd, level, C, L)
  BY DEF Frame
<1>2. /\ a \in DOMAIN nd /\ r = Len(nd) + 1 /\ r \notin DOMAIN nd /\ Len(nd2) = Len(nd) + 1
      /\ DOMAIN nd2 = DOMAIN nd \cup {r} /\ nd2[a] = x /\ nd2[r] = y
      /\ \A p \in DOMAIN nd : p # a => nd2[p] = nd[p]
  BY DEF Grown
<1>3. nd2 \in Seq(NodeType) /\ nd \in Seq(NodeType) /\ Root \in DOMAIN nd /\ r # Root /\ Len(nd) \in Nat
  BY <1>1, <1>2, Elements DEF Pages, Grown
<1>4. /\ level2 \in [DOMAIN nd2 -> Nat] /\ level2[r] = 0 /\ \A p \in DOMAIN nd : level2[p] = level[p]
  BY <1>2 DEF LevelAdded
<1>5. Chained(nd2, D) /\ D[1] = C[1]
  <2>1. Chained(nd, C) /\ nd \in Seq(NodeType)
    BY <1>1, <1>3
  <2>2. Chained(nd2, D)
    BY <2>1, ChainMore
  <2>3. D[1] = C[1]
    <3>1. 1 \in DOMAIN C /\ 1 <= i
      BY DEF Inserted
    <3> QED
      BY <3>1, InsertedTo
  <2> QED
    BY <2>2, <2>3
<1>6. \A p \in DOMAIN nd2 : ~nd2[p].leaf => p \in DOMAIN nd /\ ~nd[p].leaf /\ nd2[p] = nd[p]
  BY <1>2
<1>7. \A p \in DOMAIN nd : ~nd[p].leaf => nd2[p] = nd[p] /\ ~nd2[p].leaf
  BY <1>2
<1>8. Pages(nd2)
  <2>1. \A p \in DOMAIN nd2 : Shaped(nd, nd2[p])
    BY <1>1, <1>2 DEF Pages
  <2>2. \A p \in DOMAIN nd2 : Shaped(nd2, nd2[p])
    BY <1>2, <2>1, ShapedMore
  <2> QED
    BY <1>2, <1>3, <2>2 DEF Pages
<1>9. Levelled(nd2, level2)
  <2>1. \A p \in DOMAIN nd2 : nd2[p].leaf <=> level2[p] = 0
    <3>1. \A p \in DOMAIN nd : nd2[p].leaf <=> nd[p].leaf
      BY <1>2
    <3> QED
      BY <1>1, <1>2, <1>4, <3>1 DEF Levelled
  <2>2. ASSUME NEW p \in DOMAIN nd2, ~nd2[p].leaf, NEW j \in DOMAIN nd2[p].items
        PROVE  level2[p] = level2[nd2[p].items[j]] + 1
    <3>1. p \in DOMAIN nd /\ ~nd[p].leaf /\ nd2[p] = nd[p]
      BY <1>6, <2>2
    <3>2. nd[p].items[j] \in DOMAIN nd
      BY <1>1, <2>2, <3>1 DEF Pages, Shaped
    <3> QED
      BY <1>1, <1>4, <2>2, <3>1, <3>2 DEF Levelled
  <2>3. level2[Root] < Len(nd2)
    <3>1. level[Root] \in Nat /\ level[Root] < Len(nd)
      BY <1>1, <1>3 DEF Levelled
    <3> QED
      BY <1>2, <1>3, <1>4, <3>1
  <2> QED
    BY <1>4, <2>1, <2>2, <2>3 DEF Levelled
<1>10. OneParent(nd2) /\ \A c : Orphan(nd, c) => Orphan(nd2, c)
  <2>1. Root \in DOMAIN nd2 /\ (~nd[Root].leaf => nd2[Root] = nd[Root])
    BY <1>2, <1>3, <1>7
  <2> QED
    BY <1>1, <1>3, <1>6, <2>1, OneParentSame
<1>11. Spine(nd2, level2, D, L)
  <2>1. level[Root] \in Nat /\ level2[Root] = level[Root] /\ DOMAIN nd \subseteq DOMAIN nd2
    BY <1>1, <1>2, <1>3, <1>4 DEF Levelled
  <2> QED
    BY <1>1, <1>5, <1>7, <2>1, SpineSame
<1> QED
  BY <1>5, <1>8, <1>9, <1>10, <1>11 DEF Frame

(* A page that no page leads to joins nothing.                             *)
LEMMA NewOrphan ==
  ASSUME NEW nd, Pages(nd), NEW r, r \notin DOMAIN nd
  PROVE  Orphan(nd, r)
<1>1. \A p \in DOMAIN nd : Shaped(nd, nd[p])
  BY DEF Pages
<1> QED
  BY <1>1 DEF Shaped, Orphan

(* The chain of the leaves does not depend on inner nodes.                 *)
LEMMA ChainSame ==
  ASSUME NEW nd, NEW nd2, NEW C, Chained(nd, C),
         DOMAIN nd \subseteq DOMAIN nd2, Len(nd) \in Nat, Len(nd2) \in Nat, Len(nd) <= Len(nd2),
         \A p \in DOMAIN nd2 : nd2[p].leaf <=> p \in DOMAIN nd /\ nd[p].leaf,
         \A p \in DOMAIN nd : nd[p].leaf => nd2[p].next = nd[p].next
  PROVE  Chained(nd2, C)
<1>1. C \in Seq(DOMAIN nd) /\ Len(C) <= Len(nd)
  BY DEF Chained
<1>2. C \in Seq(DOMAIN nd2)
  BY <1>1, WiderSequence
<1>3. Len(C) \in Nat /\ \A i \in DOMAIN C : C[i] \in DOMAIN nd
  BY <1>1, Elements
<1>4. \A i \in DOMAIN C : nd[C[i]].leaf
  BY <1>3 DEF Chained
<1>5. Len(C) <= Len(nd2)
  BY <1>1, <1>3
<1>6. \A p \in DOMAIN nd2 : nd2[p].leaf <=> \E i \in DOMAIN C : C[i] = p
  BY <1>3 DEF Chained
<1>7. \A i \in DOMAIN C : nd2[C[i]].next = IF i = Len(C) THEN NoPage ELSE C[i + 1]
  BY <1>3, <1>4 DEF Chained
<1> QED
  BY <1>2, <1>5, <1>6, <1>7 DEF Chained

(* An allocated page is lost: *)
LEMMA FrameLost ==
  ASSUME NEW nd, NEW level, NEW C, NEW L, Frame(nd, level, C, L),
         NEW nd2, NEW r, Grown(nd, nd2, Root, nd[Root], r, ZeroedPage),
         NEW level2, LevelAdded(level, level2, DOMAIN nd, r, 1)
  PROVE  Frame(nd2, level2, C, L) /\ \A c : Orphan(nd, c) => Orphan(nd2, c)
<1>1. Pages(nd) /\ Levelled(nd, level) /\ OneParent(nd) /\ Chained(nd, C) /\ Spine(nd, level, C, L)
  BY DEF Frame
<1>2. /\ r = Len(nd) + 1 /\ r \notin DOMAIN nd /\ Len(nd2) = Len(nd) + 1
      /\ DOMAIN nd2 = DOMAIN nd \cup {r} /\ nd2[r] = ZeroedPage
      /\ \A p \in DOMAIN nd : nd2[p] = nd[p]
  BY DEF Grown
<1>3. nd2 \in Seq(NodeType) /\ nd \in Seq(NodeType) /\ Root \in DOMAIN nd /\ r # Root /\ Len(nd) \in Nat
  BY <1>1, <1>2, Elements DEF Pages, Grown
<1>4. /\ level2 \in [DOMAIN nd2 -> Nat] /\ level2[r] = 1 /\ \A p \in DOMAIN nd : level2[p] = level[p]
  BY <1>2 DEF LevelAdded
<1>5. ~ZeroedPage.leaf /\ ZeroedPage.items = <<>> /\ ZeroedPage.keys = <<>>
  BY DEF ZeroedPage, Page
<1>6. Orphan(nd, r)
  BY <1>1, <1>2, NewOrphan
<1>7. DOMAIN nd \subseteq DOMAIN nd2 /\ Root \in DOMAIN nd2
  BY <1>2, <1>3
<1>8. Pages(nd2)
  <2>1. Shaped(nd, ZeroedPage)
    BY <1>5 DEF Shaped, Lost
  <2>2. \A p \in DOMAIN nd2 : Shaped(nd, nd2[p])
    BY <1>1, <1>2, <2>1 DEF Pages
  <2>3. \A p \in DOMAIN nd2 : Shaped(nd2, nd2[p])
    BY <1>7, <2>2, ShapedMore
  <2> QED
    BY <1>3, <1>7, <2>3 DEF Pages
<1>9. Levelled(nd2, level2)
  <2>1. \A p \in DOMAIN nd2 : nd2[p].leaf <=> level2[p] = 0
    <3>1. \A p \in DOMAIN nd : nd2[p].leaf <=> nd[p].leaf
      BY <1>2
    <3>2. ~nd2[r].leaf /\ level2[r] # 0
      BY <1>2, <1>4, <1>5
    <3> QED
      BY <1>1, <1>2, <1>4, <3>1, <3>2 DEF Levelled
  <2>2. ASSUME NEW p \in DOMAIN nd2, ~nd2[p].leaf, NEW j \in DOMAIN nd2[p].items
        PROVE  level2[p] = level2[nd2[p].items[j]] + 1
    <3>1. p # r
      BY <1>2, <1>5, <2>2
    <3>2. p \in DOMAIN nd /\ ~nd[p].leaf /\ nd2[p] = nd[p]
      BY <1>2, <2>2, <3>1
    <3>3. nd[p].items[j] \in DOMAIN nd
      BY <1>1, <2>2, <3>2 DEF Pages, Shaped
    <3> QED
      BY <1>1, <1>4, <2>2, <3>2, <3>3 DEF Levelled
  <2>3. level2[Root] < Len(nd2)
    <3>1. level[Root] \in Nat /\ level[Root] < Len(nd)
      BY <1>1, <1>3 DEF Levelled
    <3> QED
      BY <1>2, <1>3, <1>4, <3>1
  <2> QED
    BY <1>4, <2>1, <2>2, <2>3 DEF Levelled
<1>10. OneParent(nd2) /\ \A c : Orphan(nd, c) => Orphan(nd2, c)
  <2>1. \A p \in DOMAIN nd2 : ~nd2[p].leaf =>
          \/ p \in DOMAIN nd /\ ~nd[p].leaf /\ nd2[p] = nd[p]
          \/ nd2[p].items = <<>> /\ Orphan(nd, p) /\ p # Root
    BY <1>2, <1>3, <1>5, <1>6
  <2>2. ~nd[Root].leaf => nd2[Root] = nd[Root]
    BY <1>2, <1>3
  <2> QED
    BY <1>1, <1>3, <1>7, <2>1, <2>2, OneParentSame
<1>11. Spine(nd2, level2, C, L)
  <2>1. level[Root] \in Nat /\ level2[Root] = level[Root]
    BY <1>1, <1>3, <1>4 DEF Levelled
  <2> QED
    BY <1>1, <1>2, <1>7, <2>1, SpineSame
<1>12. Chained(nd2, C)
  <2>1. \A p \in DOMAIN nd2 : nd2[p].leaf <=> p \in DOMAIN nd /\ nd[p].leaf
    BY <1>2, <1>5
  <2>2. Len(nd2) \in Nat /\ Len(nd) <= Len(nd2)
    BY <1>2, <1>3
  <2> QED
    BY <1>1, <1>2, <1>3, <1>7, <2>1, <2>2, ChainSame
<1> QED
  BY <1>8, <1>9, <1>10, <1>11, <1>12 DEF Frame

(* A page q that has no parent becomes a child of a, behind child i.       *)
LEMMA OneParentInsert ==
  ASSUME NEW nd, OneParent(nd), NEW nd2, NEW a, NEW x, Updated(nd, nd2, a, x),
         ~nd[a].leaf, ~x.leaf, ~Lost(x), Root \in DOMAIN nd,
         NEW q \in DOMAIN nd, Orphan(nd, q), q # Root, ~Lost(nd[q]), q # a \/ ~Lost(nd[a]),
         NEW i, Inserted(nd[a].items, x.items, i, q)
  PROVE  OneParent(nd2)
<1>1. /\ a \in DOMAIN nd /\ DOMAIN nd2 = DOMAIN nd /\ nd2[a] = x
      /\ \A p \in DOMAIN nd : p # a => nd2[p] = nd[p]
  BY DEF Updated
<1>2. ASSUME NEW p \in DOMAIN nd, ~nd2[p].leaf, NEW j \in DOMAIN nd2[p].items
      PROVE  \/ p = a /\ j = i + 1 /\ nd2[p].items[j] = q
             \/ ~nd[p].leaf /\ \E k \in DOMAIN nd[p].items :
                  /\ nd2[p].items[j] = nd[p].items[k]
                  /\ k = IF p = a /\ j > i + 1 THEN j - 1 ELSE j
                  /\ p = a => j # i + 1
  <2>1. CASE p # a
    BY <1>1, <1>2, <2>1
  <2>2. CASE p = a
    <3>0. i \in Int
      BY DEF Inserted
    <3>1. \/ j \in 1 .. i /\ j \in DOMAIN nd[a].items /\ x.items[j] = nd[a].items[j]
          \/ j = i + 1 /\ x.items[j] = q
          \/ j - 1 \in i + 1 .. Len(nd[a].items) /\ j - 1 \in DOMAIN nd[a].items /\ x.items[j] = nd[a].items[j - 1]
      BY <1>1, <1>2, <2>2, InsertedFrom
    <3>2. CASE j \in 1 .. i /\ j \in DOMAIN nd[a].items /\ x.items[j] = nd[a].items[j]
      <4>1. j # i + 1 /\ ~(j > i + 1)
        BY <3>0, <3>2
      <4> QED
        BY <1>1, <2>2, <3>2, <4>1
    <3>3. CASE j = i + 1 /\ x.items[j] = q
      BY <1>1, <2>2, <3>3
    <3>4. CASE j - 1 \in i + 1 .. Len(nd[a].items) /\ j - 1 \in DOMAIN nd[a].items /\ x.items[j] = nd[a].items[j - 1]
      <4>0. j \in Int
        <5>1. DOMAIN x.items = 1 .. Len(nd[a].items) + 1
          BY DEF Inserted
        <5> QED
          BY <1>1, <1>2, <2>2, <5>1
      <4>1. j # i + 1 /\ j > i + 1
        BY <3>0, <3>4, <4>0
      <4> QED
        BY <1>1, <2>2, <3>4, <4>1
    <3> QED
      BY <3>1, <3>2, <3>3, <3>4
  <2> QED
    BY <2>1, <2>2
<1>3. \A j \in DOMAIN x.items : j \in Int
  <2>1. DOMAIN x.items = 1 .. Len(nd[a].items) + 1
    BY DEF Inserted
  <2> QED
    BY <2>1
<1>4. ASSUME NEW p \in DOMAIN nd, NEW s \in DOMAIN nd, ~nd2[p].leaf, ~nd2[s].leaf,
             NEW j \in DOMAIN nd2[p].items, NEW k \in DOMAIN nd2[s].items, nd2[p].items[j] = nd2[s].items[k]
      PROVE  p = s /\ j = k
  <2> DEFINE New(b, m) == b = a /\ m = i + 1 /\ nd2[b].items[m] = q
             Old(b, m, n) == /\ ~nd[b].leaf /\ n \in DOMAIN nd[b].items
                             /\ nd2[b].items[m] = nd[b].items[n]
                             /\ n = IF b = a /\ m > i + 1 THEN m - 1 ELSE m
                             /\ b = a => m # i + 1
  <2>1. New(p, j) \/ \E n : Old(p, j, n)
    BY <1>2, <1>4
  <2>2. New(s, k) \/ \E n : Old(s, k, n)
    BY <1>2, <1>4
  <2>3. CASE New(p, j)
    <3>1. ~ \E n : Old(s, k, n)
      BY <1>4, <2>3 DEF Orphan
    <3> QED
      BY <2>2, <2>3, <3>1
  <2>4. CASE New(s, k)
    <3>1. ~ \E n : Old(p, j, n)
      BY <1>4, <2>4 DEF Orphan
    <3> QED
      BY <2>1, <2>4, <3>1
  <2>5. CASE (\E n : Old(p, j, n)) /\ (\E n : Old(s, k, n))
    <3>1. PICK n : Old(p, j, n)
      BY <2>5
    <3>2. PICK m : Old(s, k, m)
      BY <2>5
    <3>3. p = s /\ n = m
      <4>1. /\ ~nd[p].leaf /\ ~nd[s].leaf /\ n \in DOMAIN nd[p].items /\ m \in DOMAIN nd[s].items
            /\ nd[p].items[n] = nd[s].items[m]
        BY <1>4, <3>1, <3>2
      <4> HIDE DEF Old, New
      <4> QED
        BY <4>1 DEF OneParent
    <3>4. CASE p # a
      BY <3>1, <3>2, <3>3, <3>4
    <3>5. CASE p = a
      <4>1. j \in Int /\ k \in Int /\ i \in Int
        BY <1>1, <1>3, <1>4, <3>3, <3>5 DEF Inserted
      <4>2. /\ n = IF j > i + 1 THEN j - 1 ELSE j
            /\ n = IF k > i + 1 THEN k - 1 ELSE k
            /\ j # i + 1 /\ k # i + 1
        BY <3>1, <3>2, <3>3, <3>5
      <4>3. j = k
        BY <4>1, <4>2
      <4> QED
        BY <3>3, <4>3
    <3> QED
      BY <3>4, <3>5
  <2> QED
    BY <2>1, <2>2, <2>3, <2>4, <2>5
<1>5. \A c \in DOMAIN nd : Orphan(nd, c) /\ c # q => Orphan(nd2, c)
  BY <1>1, <1>2 DEF Orphan
<1>6. \A p \in DOMAIN nd : Lost(nd2[p]) => p # a /\ p # q /\ Lost(nd[p])
  BY <1>1
<1>7. \A p \in DOMAIN nd : Lost(nd2[p]) => Orphan(nd2, p)
  BY <1>5, <1>6 DEF OneParent
<1>8. Orphan(nd2, Root) /\ ~Lost(nd2[Root])
  BY <1>5, <1>6 DEF OneParent
<1> QED
  BY <1>1, <1>4, <1>7, <1>8 DEF OneParent

(* The parent takes the new sibling q in behind its left half.             *)
LEMMA FrameParent ==
  ASSUME NEW nd, NEW level, NEW C, NEW L, Frame(nd, level, C, L),
         NEW nd2, NEW a, NEW x, Updated(nd, nd2, a, x),
         ~nd[a].leaf, ~x.leaf, Len(x.items) = Len(x.keys) + 1,
         NEW q \in DOMAIN nd, Orphan(nd, q), q # Root, ~Lost(nd[q]), level[a] = level[q] + 1,
         NEW i, i >= 1, Inserted(nd[a].items, x.items, i, q)
  PROVE  Frame(nd2, level, C, L) /\ \A c : c # q /\ Orphan(nd, c) => Orphan(nd2, c)
<1>1. Pages(nd) /\ Levelled(nd, level) /\ OneParent(nd) /\ Chained(nd, C) /\ Spine(nd, level, C, L)
  BY DEF Frame
<1>2. /\ a \in DOMAIN nd /\ Len(nd2) = Len(nd)
      /\ DOMAIN nd2 = DOMAIN nd /\ nd2[a] = x
      /\ \A p \in DOMAIN nd : p # a => nd2[p] = nd[p]
  BY DEF Updated
<1>3. /\ nd2 \in Seq(NodeType) /\ nd \in Seq(NodeType) /\ Root \in DOMAIN nd /\ Len(nd) \in Nat
      /\ level \in [DOMAIN nd -> Nat]
  BY <1>1, Elements DEF Pages, Updated, Levelled
<1>4. \A p \in DOMAIN nd : nd2[p].leaf <=> nd[p].leaf
  BY <1>2
<1>5. i \in Int /\ \A j \in DOMAIN x.items : x.items[j] = q \/ \E k \in DOMAIN nd[a].items : x.items[j] = nd[a].items[k]
  <2>1. i \in Int
    BY DEF Inserted
  <2> QED
    BY <2>1, InsertedFrom
<1>6. ~Lost(x) /\ ~Lost(nd[a])
  <2>1. Len(x.items) \in Nat /\ Len(x.items) >= 2
    <3>1. /\ i \in Int /\ i <= Len(nd[a].items) /\ Len(nd[a].items) \in Nat
          /\ Len(x.items) = Len(nd[a].items) + 1
      BY DEF Inserted
    <3> QED
      BY <3>1
  <2>2. x.items # <<>> /\ nd[a].items # <<>>
    <3>1. 1 \in DOMAIN nd[a].items /\ 1 \in DOMAIN x.items
      <4>1. /\ i \in Int /\ i <= Len(nd[a].items) /\ Len(nd[a].items) \in Nat
            /\ DOMAIN nd[a].items = 1 .. Len(nd[a].items) /\ DOMAIN x.items = 1 .. Len(nd[a].items) + 1
        BY DEF Inserted
      <4> QED
        BY <4>1
    <3> QED
      BY <3>1
  <2> QED
    BY <2>2 DEF Lost
<1>7. Pages(nd2)
  <2>1. \A p \in DOMAIN nd : Shaped(nd, nd[p])
    BY <1>1 DEF Pages
  <2>2. Shaped(nd, x)
    <3>1. \A j \in DOMAIN nd[a].items : nd[a].items[j] \in DOMAIN nd
      BY <1>2, <2>1 DEF Shaped
    <3>2. \A j \in DOMAIN x.items : x.items[j] \in DOMAIN nd
      BY <1>5, <3>1
    <3> QED
      BY <3>2 DEF Shaped
  <2>3. \A p \in DOMAIN nd2 : Shaped(nd, nd2[p])
    BY <1>2, <2>1, <2>2
  <2>4. \A p \in DOMAIN nd2 : Shaped(nd2, nd2[p])
    BY <1>2, <2>3, ShapedMore
  <2> QED
    BY <1>2, <1>3, <2>4 DEF Pages
<1>8. Levelled(nd2, level)
  <2>1. ASSUME NEW p \in DOMAIN nd2, ~nd2[p].leaf, NEW j \in DOMAIN nd2[p].items
        PROVE  level[p] = level[nd2[p].items[j]] + 1
    <3>1. CASE p # a
      BY <1>1, <1>2, <2>1, <3>1 DEF Levelled
    <3>2. CASE p = a
      <4>1. \A k \in DOMAIN nd[a].items : level[a] = level[nd[a].items[k]] + 1
        BY <1>1, <1>2 DEF Levelled
      <4> QED
        BY <1>2, <1>5, <2>1, <3>2, <4>1
    <3> QED
      BY <3>1, <3>2
  <2> QED
    BY <1>1, <1>2, <1>4, <2>1 DEF Levelled
<1>9. OneParent(nd2)
  BY <1>1, <1>3, <1>6, OneParentInsert
<1>10. Chained(nd2, C)
  <2>1. \A p \in DOMAIN nd2 : nd2[p].leaf <=> p \in DOMAIN nd /\ nd[p].leaf
    BY <1>2, <1>4
  <2>2. \A p \in DOMAIN nd : nd[p].leaf => nd2[p].next = nd[p].next
    BY <1>2
  <2>3. DOMAIN nd \subseteq DOMAIN nd2 /\ Len(nd2) \in Nat /\ Len(nd) <= Len(nd2)
    BY <1>2, <1>3
  <2> QED
    BY <1>1, <1>3, <2>1, <2>2, <2>3, ChainSame
<1>11. Spine(nd2, level, C, L)
  <2>1. level[Root] \in Nat
    BY <1>3
  <2>2. \A n \in 1 .. level[Root] : L[n] \in DOMAIN nd /\ ~nd[L[n]].leaf /\ nd[L[n]].items # <<>> /\ L[n - 1] = nd[L[n]].items[1]
    <3>1. \A n \in 1 .. level[Root] : n \in 0 .. level[Root]
      BY <2>1
    <3> QED
      BY <1>1, <3>1 DEF Spine
  <2>3. x.items # <<>> /\ (nd[a].items # <<>> => x.items[1] = nd[a].items[1])
    <3>1. 1 \in 1 .. i /\ 1 \in DOMAIN x.items
      BY <1>5 DEF Inserted
    <3>2. x.items[1] = nd[a].items[1]
      BY <3>1 DEF Inserted
    <3> QED
      BY <3>1, <3>2
  <2>4. \A n \in 1 .. level[Root] : ~nd2[L[n]].leaf /\ nd2[L[n]].items # <<>> /\ L[n - 1] = nd2[L[n]].items[1]
    BY <1>2, <1>4, <2>2, <2>3, SMTT(20)
  <2> QED
    BY <1>1, <1>2, <2>4 DEF Spine
<1>12. \A c : c # q /\ Orphan(nd, c) => Orphan(nd2, c)
  BY <1>2, <1>4, <1>5 DEF Orphan
<1> QED
  BY <1>7, <1>8, <1>9, <1>10, <1>11, <1>12 DEF Frame

(* s is cut behind element m into t and u; g elements in between are left  *)
(* out.                                                                    *)
Parted(s, t, u, m, g) ==
  /\ m \in Nat /\ g \in Nat /\ m + g <= Len(s) /\ Len(s) \in Nat /\ DOMAIN s = 1 .. Len(s)
  /\ Len(t) = m /\ DOMAIN t = 1 .. m /\ \A j \in 1 .. m : t[j] = s[j]
  /\ Len(u) = Len(s) - (m + g) /\ DOMAIN u = 1 .. Len(s) - (m + g)
  /\ \A j \in 1 .. Len(s) - (m + g) : u[j] = s[m + g + j]

(* SubSeq parts a sequence.                                                *)
LEMMA PartedBy ==
  ASSUME NEW S, NEW s \in Seq(S), NEW m \in Nat, NEW g \in Nat, m + g <= Len(s), NEW n, n = Len(s)
  PROVE  /\ SubSeq(s, 1, m) \in Seq(S) /\ SubSeq(s, m + g + 1, n) \in Seq(S)
         /\ Parted(s, SubSeq(s, 1, m), SubSeq(s, m + g + 1, n), m, g)
<1> DEFINE t == SubSeq(s, 1, m)
           b == m + g + 1
           u == SubSeq(s, b, n)
<1>1. n \in Nat /\ DOMAIN s = 1 .. n /\ m <= n
  BY Elements
<1>2. b \in Nat \ {0} /\ b <= n + 1 /\ n + 1 - b = n - (m + g)
  BY <1>1
<1>3. t \in Seq(S) /\ Len(t) = m /\ DOMAIN t = 1 .. m /\ \A j \in 1 .. m : t[j] = s[j]
  <2>1. 1 <= m + 1 /\ m + 1 - 1 = m /\ 1 \in Nat \ {0}
    OBVIOUS
  <2>2. /\ t \in Seq(S) /\ Len(t) = m + 1 - 1 /\ DOMAIN t = 1 .. m + 1 - 1
        /\ \A j \in 1 .. m + 1 - 1 : t[j] = s[1 + j - 1]
    BY <1>1, <2>1, SubSeqElements
  <2>3. \A j \in 1 .. m : 1 + j - 1 = j
    OBVIOUS
  <2> QED
    BY <2>1, <2>2, <2>3
<1> HIDE DEF t, b
<1>4. /\ u \in Seq(S) /\ Len(u) = n + 1 - b /\ DOMAIN u = 1 .. n + 1 - b
      /\ \A j \in 1 .. n + 1 - b : u[j] = s[b + j - 1]
  <2>1. n <= Len(s)
    BY <1>1
  <2> QED
    BY <1>1, <1>2, <2>1, SubSeqElements
<1> HIDE DEF u
<1>5. \A j \in 1 .. n - (m + g) : b + j - 1 = m + g + j
  BY DEF b
<1>6. Parted(s, t, u, m, g)
  <2>1. m + g <= Len(s) /\ Len(s) \in Nat /\ Len(s) = n
    BY <1>1
  <2>2. Len(u) = n - (m + g) /\ DOMAIN u = 1 .. n - (m + g)
    BY <1>2, <1>4
  <2>3. \A j \in 1 .. n - (m + g) : u[j] = s[m + g + j]
    <3>1. \A j \in 1 .. n - (m + g) : u[j] = s[b + j - 1]
      BY <1>2, <1>4
    <3> QED
      BY <1>5, <3>1
  <2> QED
    BY <1>1, <1>3, <2>1, <2>2, <2>3 DEF Parted
<1> QED
  BY <1>3, <1>4, <1>6 DEF t, u, b

(* Where each element of a parted sequence goes and comes from             *)
LEMMA PartedFrom ==
  ASSUME NEW s, NEW t, NEW u, NEW m, NEW g, Parted(s, t, u, m, g)
  PROVE  /\ \A j \in DOMAIN t : j \in DOMAIN s /\ j <= m /\ j \in Int /\ t[j] = s[j]
         /\ \A j \in DOMAIN u : m + g + j \in DOMAIN s /\ j >= 1 /\ j \in Int /\ u[j] = s[m + g + j]
         /\ \A j \in DOMAIN s : j <= m => j \in DOMAIN t /\ t[j] = s[j]
         /\ \A j \in DOMAIN s : j > m + g => j - (m + g) \in DOMAIN u /\ u[j - (m + g)] = s[j]
         /\ m \in Int /\ g \in Int
<1>1. m \in Int /\ g \in Int /\ 0 <= m /\ 0 <= g /\ Len(s) \in Int /\ m + g <= Len(s) /\ DOMAIN s = 1 .. Len(s)
  BY DEF Parted
<1>2. \A j \in DOMAIN t : j \in DOMAIN s /\ j <= m /\ j \in Int /\ t[j] = s[j]
  <2>1. DOMAIN t = 1 .. m /\ \A j \in 1 .. m : t[j] = s[j]
    BY DEF Parted
  <2> QED
    BY <1>1, <2>1
<1>3. \A j \in DOMAIN u : m + g + j \in DOMAIN s /\ j >= 1 /\ j \in Int /\ u[j] = s[m + g + j]
  <2>1. DOMAIN u = 1 .. Len(s) - (m + g) /\ \A j \in 1 .. Len(s) - (m + g) : u[j] = s[m + g + j]
    BY DEF Parted
  <2> QED
    BY <1>1, <2>1
<1>4. ASSUME NEW j \in DOMAIN s, j <= m PROVE j \in DOMAIN t /\ t[j] = s[j]
  <2>1. j \in 1 .. m
    BY <1>1, <1>4
  <2> QED
    BY <2>1 DEF Parted
<1>5. ASSUME NEW j \in DOMAIN s, j > m + g PROVE j - (m + g) \in DOMAIN u /\ u[j - (m + g)] = s[j]
  <2>1. j - (m + g) \in 1 .. Len(s) - (m + g) /\ m + g + (j - (m + g)) = j
    BY <1>1, <1>5
  <2> DEFINE i == j - (m + g)
  <2> HIDE DEF i
  <2>2. i \in 1 .. Len(s) - (m + g) /\ m + g + i = j
    BY <2>1 DEF i
  <2>3. i \in DOMAIN u /\ u[i] = s[j]
    BY <2>2 DEF Parted
  <2> QED
    BY <2>3 DEF i
<1> QED
  BY <1>1, <1>2, <1>3, <1>4, <1>5

(* Inner node a gives its last children to a new page r.                   *)
LEMMA FrameCut ==
  ASSUME NEW nd, NEW level, NEW C, NEW L, Frame(nd, level, C, L),
         NEW nd2, NEW a, NEW x, NEW r, NEW y, Grown(nd, nd2, a, x, r, y),
         ~nd[a].leaf, ~x.leaf, ~y.leaf,
         Len(x.items) = Len(x.keys) + 1, Len(y.items) = Len(y.keys) + 1,
         NEW m, Parted(nd[a].items, x.items, y.items, m, 0), m >= 1, m < Len(nd[a].items),
         NEW level2, LevelAdded(level, level2, DOMAIN nd, r, level[a])
  PROVE  Frame(nd2, level2, C, L) /\ \A c : Orphan(nd, c) => Orphan(nd2, c)
<1>1. Pages(nd) /\ Levelled(nd, level) /\ OneParent(nd) /\ Chained(nd, C) /\ Spine(nd, level, C, L)
  BY DEF Frame
<1>2. /\ a \in DOMAIN nd /\ r = Len(nd) + 1 /\ r \notin DOMAIN nd /\ Len(nd2) = Len(nd) + 1
      /\ DOMAIN nd2 = DOMAIN nd \cup {r} /\ nd2[a] = x /\ nd2[r] = y
      /\ \A p \in DOMAIN nd : p # a => nd2[p] = nd[p]
  BY DEF Grown
<1>3. /\ nd2 \in Seq(NodeType) /\ nd \in Seq(NodeType) /\ Root \in DOMAIN nd /\ r # Root /\ Len(nd) \in Nat
      /\ level \in [DOMAIN nd -> Nat]
  BY <1>1, <1>2, Elements DEF Pages, Grown, Levelled
<1>4. /\ level2 \in [DOMAIN nd2 -> Nat] /\ level2[r] = level[a] /\ \A p \in DOMAIN nd : level2[p] = level[p]
  BY <1>2 DEF LevelAdded
<1>5. DOMAIN nd \subseteq DOMAIN nd2 /\ Root \in DOMAIN nd2
  BY <1>2, <1>3
<1>6. /\ \A j \in DOMAIN x.items : j \in DOMAIN nd[a].items /\ j <= m /\ j \in Int /\ x.items[j] = nd[a].items[j]
      /\ \A j \in DOMAIN y.items : m + j \in DOMAIN nd[a].items /\ j >= 1 /\ j \in Int /\ y.items[j] = nd[a].items[m + j]
      /\ m \in Int
  <2>1. m + 0 = m /\ m \in Int
    BY DEF Parted
  <2> QED
    BY <2>1, PartedFrom
<1>7. \A p \in DOMAIN nd : nd2[p].leaf <=> nd[p].leaf
  BY <1>2
<1>8. /\ 1 \in DOMAIN x.items /\ 1 \in DOMAIN y.items /\ x.items # <<>> /\ y.items # <<>> /\ 1 \in DOMAIN nd[a].items
      /\ x.items[1] = nd[a].items[1]
  <2>1. /\ Len(nd[a].items) \in Nat /\ DOMAIN x.items = 1 .. m /\ DOMAIN y.items = 1 .. Len(nd[a].items) - (m + 0)
    BY DEF Parted
  <2>2. 1 \in DOMAIN x.items /\ 1 \in DOMAIN y.items
    BY <1>6, <2>1
  <2>3. x.items # <<>> /\ y.items # <<>>
    BY <2>2
  <2> QED
    BY <1>6, <2>2, <2>3
<1>9. ~Lost(x) /\ ~Lost(y)
  BY <1>8 DEF Lost
<1>10. Pages(nd2)
  <2>1. \A p \in DOMAIN nd : Shaped(nd, nd[p])
    BY <1>1 DEF Pages
  <2>2. \A j \in DOMAIN nd[a].items : nd[a].items[j] \in DOMAIN nd
    BY <1>2, <2>1 DEF Shaped
  <2>3. Shaped(nd, x)
    BY <1>6, <2>2 DEF Shaped
  <2>4. Shaped(nd, y)
    BY <1>6, <2>2 DEF Shaped
  <2>5. \A p \in DOMAIN nd2 : Shaped(nd, nd2[p])
    BY <1>2, <2>1, <2>3, <2>4
  <2>6. \A p \in DOMAIN nd2 : Shaped(nd2, nd2[p])
    BY <1>5, <2>5, ShapedMore
  <2> QED
    BY <1>3, <1>5, <2>6 DEF Pages
<1> DEFINE Src(p) == IF p = r THEN a ELSE p
           Pos(p, j) == IF p = r THEN m + j ELSE j
<1>11. ASSUME NEW p \in DOMAIN nd2, ~nd2[p].leaf, NEW j \in DOMAIN nd2[p].items
       PROVE  /\ Src(p) \in DOMAIN nd /\ ~nd[Src(p)].leaf /\ Pos(p, j) \in DOMAIN nd[Src(p)].items
              /\ nd2[p].items[j] = nd[Src(p)].items[Pos(p, j)]
  <2>1. CASE p = r
    BY <1>2, <1>6, <1>11, <2>1
  <2>2. CASE p = a
    BY <1>2, <1>6, <1>11, <2>2
  <2>3. CASE p # a /\ p # r
    BY <1>2, <1>11, <2>3
  <2> QED
    BY <2>1, <2>2, <2>3
<1>12. Levelled(nd2, level2)
  <2>1. \A p \in DOMAIN nd2 : nd2[p].leaf <=> level2[p] = 0
    BY <1>1, <1>2, <1>4, <1>7 DEF Levelled
  <2>2. ASSUME NEW p \in DOMAIN nd2, ~nd2[p].leaf, NEW j \in DOMAIN nd2[p].items
        PROVE  level2[p] = level2[nd2[p].items[j]] + 1
    <3>1. level2[p] = level[Src(p)]
      BY <1>2, <1>4
    <3>2. nd[Src(p)].items[Pos(p, j)] \in DOMAIN nd
      BY <1>1, <1>11, <2>2 DEF Pages, Shaped
    <3>3. level[Src(p)] = level[nd[Src(p)].items[Pos(p, j)]] + 1
      <4> HIDE DEF Src, Pos
      <4> QED
        BY <1>1, <1>11, <2>2 DEF Levelled
    <3> HIDE DEF Src, Pos
    <3> QED
      BY <1>4, <1>11, <2>2, <3>1, <3>2, <3>3
  <2>3. level2[Root] < Len(nd2)
    <3>1. level[Root] \in Nat /\ level[Root] < Len(nd)
      BY <1>1, <1>3 DEF Levelled
    <3> QED
      BY <1>2, <1>3, <1>4, <3>1
  <2> QED
    BY <1>4, <2>1, <2>2, <2>3 DEF Levelled
<1>13. \A c : Orphan(nd, c) => Orphan(nd2, c)
  <2> SUFFICES ASSUME NEW c, Orphan(nd, c), NEW p \in DOMAIN nd2, ~nd2[p].leaf, NEW j \in DOMAIN nd2[p].items
               PROVE  nd2[p].items[j] # c
    BY DEF Orphan
  <2> HIDE DEF Src, Pos
  <2> QED
    BY <1>11 DEF Orphan
<1>14. OneParent(nd2)
  <2>1. ASSUME NEW p \in DOMAIN nd2, NEW s \in DOMAIN nd2, ~nd2[p].leaf, ~nd2[s].leaf,
               NEW j \in DOMAIN nd2[p].items, NEW k \in DOMAIN nd2[s].items, nd2[p].items[j] = nd2[s].items[k]
        PROVE  p = s /\ j = k
    <3>1. Src(p) = Src(s) /\ Pos(p, j) = Pos(s, k)
      <4> HIDE DEF Src, Pos
      <4> QED
        BY <1>1, <1>11, <2>1 DEF OneParent
    <3>2. \A b \in DOMAIN nd2 : (b = a => nd2[b] = x) /\ (b = r => nd2[b] = y)
      BY <1>2
    <3>3. CASE p = r /\ s = r
      BY <1>6, <2>1, <3>1, <3>2, <3>3
    <3>4. CASE p = r /\ s # r
      <4>1. s = a /\ m + j = k
        BY <3>1, <3>4
      <4>2. k <= m /\ k \in Int /\ j >= 1 /\ j \in Int
        BY <1>6, <2>1, <3>2, <3>4, <4>1
      <4> QED
        BY <1>6, <4>1, <4>2
    <3>5. CASE p # r /\ s = r
      <4>1. p = a /\ m + k = j
        BY <3>1, <3>5
      <4>2. j <= m /\ j \in Int /\ k >= 1 /\ k \in Int
        BY <1>6, <2>1, <3>2, <3>5, <4>1
      <4> QED
        BY <1>6, <4>1, <4>2
    <3>6. CASE p # r /\ s # r
      BY <3>1, <3>6
    <3> QED
      BY <3>3, <3>4, <3>5, <3>6
  <2>2. Orphan(nd2, Root) /\ ~Lost(nd2[Root])
    BY <1>1, <1>2, <1>3, <1>9, <1>13 DEF OneParent
  <2>3. ASSUME NEW p \in DOMAIN nd2, Lost(nd2[p]) PROVE Orphan(nd2, p)
    <3>1. p \in DOMAIN nd /\ Lost(nd[p])
      BY <1>2, <1>9, <2>3
    <3> QED
      BY <1>1, <1>13, <3>1 DEF OneParent
  <2> QED
    BY <2>1, <2>2, <2>3 DEF OneParent
<1>15. Chained(nd2, C)
  <2>1. \A p \in DOMAIN nd2 : nd2[p].leaf <=> p \in DOMAIN nd /\ nd[p].leaf
    BY <1>2, <1>7
  <2>2. \A p \in DOMAIN nd : nd[p].leaf => nd2[p].next = nd[p].next
    BY <1>2
  <2>3. Len(nd2) \in Nat /\ Len(nd) <= Len(nd2)
    BY <1>2, <1>3
  <2> QED
    BY <1>1, <1>3, <1>5, <2>1, <2>2, <2>3, ChainSame
<1>16. Spine(nd2, level2, C, L)
  <2>1. level[Root] \in Nat /\ level2[Root] = level[Root]
    BY <1>3, <1>4
  <2>2. \A n \in 1 .. level[Root] : L[n] \in DOMAIN nd /\ ~nd[L[n]].leaf /\ nd[L[n]].items # <<>> /\ L[n - 1] = nd[L[n]].items[1]
    <3>1. \A n \in 1 .. level[Root] : n \in 0 .. level[Root]
      BY <2>1
    <3> QED
      BY <1>1, <3>1 DEF Spine
  <2>3. \A n \in 1 .. level[Root] : ~nd2[L[n]].leaf /\ nd2[L[n]].items # <<>> /\ L[n - 1] = nd2[L[n]].items[1]
    BY <1>2, <1>7, <1>8, <2>2
  <2>4. L \in [0 .. level[Root] -> DOMAIN nd2]
    BY <1>1, <1>5 DEF Spine
  <2> QED
    BY <1>1, <2>1, <2>3, <2>4 DEF Spine
<1> QED
  BY <1>10, <1>12, <1>13, <1>14, <1>15, <1>16 DEF Frame

(* The root page moves to r and becomes the parent of r and q.             *)
Raised(level, level2, D, r) ==
  /\ level2 \in [D \cup {r} -> Nat] /\ level2[r] = level[Root] /\ level2[Root] = level[Root] + 1
  /\ \A p \in D : p # Root => level2[p] = level[p]
Renamed(C, D, r) ==
  /\ Len(D) = Len(C) /\ DOMAIN D = DOMAIN C
  /\ \A i \in DOMAIN C : D[i] = IF C[i] = Root THEN r ELSE C[i]
Longer(L, M, h, r, D) ==
  /\ M \in [0 .. h + 1 -> D] /\ M[h + 1] = Root /\ M[h] = r
  /\ \A n \in 0 .. h : n # h => M[n] = L[n]

(* The tree is one level higher then, and still a tree.                    *)
LEMMA FrameSplitRoot ==
  ASSUME NEW nd, NEW level, NEW C, NEW L, Frame(nd, level, C, L),
         NEW nd2, NEW x, NEW r, Grown(nd, nd2, Root, x, r, nd[Root]),
         NEW q \in DOMAIN nd, Orphan(nd, q), q # Root, ~Lost(nd[q]), level[q] = level[Root],
         ~x.leaf, Len(x.keys) = 1, Len(x.items) = 2, DOMAIN x.items = {1, 2}, x.items[1] = r, x.items[2] = q,
         NEW level2, Raised(level, level2, DOMAIN nd, r),
         NEW D \in Seq(DOMAIN nd2), Renamed(C, D, r),
         NEW M, Longer(L, M, level[Root], r, DOMAIN nd2)
  PROVE  Frame(nd2, level2, D, M)
<1> DEFINE h == level[Root]
           Src(p) == IF p = r THEN Root ELSE p
<1>1. Pages(nd) /\ Levelled(nd, level) /\ OneParent(nd) /\ Chained(nd, C) /\ Spine(nd, level, C, L)
  BY DEF Frame
<1>2. /\ Root \in DOMAIN nd /\ r = Len(nd) + 1 /\ r \notin DOMAIN nd /\ Len(nd2) = Len(nd) + 1
      /\ DOMAIN nd2 = DOMAIN nd \cup {r} /\ nd2[Root] = x /\ nd2[r] = nd[Root] /\ r # Root
      /\ \A p \in DOMAIN nd : p # Root => nd2[p] = nd[p]
  BY DEF Grown
<1>3. /\ nd2 \in Seq(NodeType) /\ nd \in Seq(NodeType) /\ Len(nd) \in Nat
      /\ level \in [DOMAIN nd -> Nat]
  BY <1>1, <1>2, Elements DEF Pages, Grown, Levelled
<1>4. /\ level2 \in [DOMAIN nd2 -> Nat] /\ level2[r] = h /\ level2[Root] = h + 1 /\ h \in Nat
      /\ \A p \in DOMAIN nd : p # Root => level2[p] = level[p]
  BY <1>2, <1>3 DEF Raised
<1>5. DOMAIN nd \subseteq DOMAIN nd2 /\ Root \in DOMAIN nd2 /\ r \in DOMAIN nd2
  BY <1>2
<1>6. /\ Orphan(nd, Root) /\ ~Lost(nd[Root]) /\ Orphan(nd, r) /\ ~Lost(x)
  <2>1. Orphan(nd, r)
    BY <1>1, <1>2, NewOrphan
  <2>2. x.items # <<>>
    OBVIOUS
  <2> QED
    BY <1>1, <2>1, <2>2 DEF OneParent, Lost
<1>7. \A p \in DOMAIN nd2 : p # Root =>
        Src(p) \in DOMAIN nd /\ nd2[p] = nd[Src(p)] /\ level2[p] = level[Src(p)]
  BY <1>2, <1>4
<1>8. \A p \in DOMAIN nd : ~nd[p].leaf => \A j \in DOMAIN nd[p].items :
        /\ nd[p].items[j] \in DOMAIN nd /\ nd[p].items[j] # Root /\ nd[p].items[j] # r /\ nd[p].items[j] # q
        /\ level[p] = level[nd[p].items[j]] + 1
        /\ level2[nd[p].items[j]] = level[nd[p].items[j]]
  <2>1. \A p \in DOMAIN nd : Shaped(nd, nd[p])
    BY <1>1 DEF Pages
  <2>2. \A p \in DOMAIN nd : ~nd[p].leaf => \A j \in DOMAIN nd[p].items :
          /\ nd[p].items[j] \in DOMAIN nd /\ nd[p].items[j] # Root /\ nd[p].items[j] # r /\ nd[p].items[j] # q
    BY <1>6, <2>1 DEF Orphan, Shaped
  <2> QED
    BY <1>1, <1>4, <2>2 DEF Levelled
<1> HIDE DEF Src
<1>9. Pages(nd2)
  <2>1. \A p \in DOMAIN nd : Shaped(nd2, nd[p])
    BY <1>1, <1>5, ShapedMore DEF Pages
  <2>2. Shaped(nd2, x)
    BY <1>5 DEF Shaped
  <2>3. \A p \in DOMAIN nd2 : Shaped(nd2, nd2[p])
    BY <1>2, <1>7, <2>1, <2>2
  <2> QED
    BY <1>3, <1>5, <2>3 DEF Pages
<1>10. Levelled(nd2, level2)
  <2>1. \A p \in DOMAIN nd : nd[p].leaf <=> level[p] = 0
    BY <1>1 DEF Levelled
  <2>2. ASSUME NEW p \in DOMAIN nd2 PROVE nd2[p].leaf <=> level2[p] = 0
    <3>1. CASE p = Root
      <4>1. ~nd2[p].leaf /\ level2[p] = h + 1
        BY <1>2, <1>4, <3>1
      <4>2. h + 1 # 0
        BY <1>4
      <4> QED
        BY <4>1, <4>2
    <3>2. CASE p # Root
      BY <1>7, <2>1, <3>2
    <3> QED
      BY <3>1, <3>2
  <2>3. ASSUME NEW p \in DOMAIN nd2, ~nd2[p].leaf, NEW j \in DOMAIN nd2[p].items
        PROVE  level2[p] = level2[nd2[p].items[j]] + 1
    <3>1. CASE p = Root
      BY <1>2, <1>4, <2>3, <3>1
    <3>2. CASE p # Root
      <4>1. Src(p) \in DOMAIN nd /\ nd2[p] = nd[Src(p)] /\ level2[p] = level[Src(p)]
        BY <1>7, <3>2
      <4> QED
        BY <1>8, <2>3, <4>1
    <3> QED
      BY <3>1, <3>2
  <2>4. level2[Root] < Len(nd2)
    <3>1. h < Len(nd)
      BY <1>1 DEF Levelled
    <3> QED
      BY <1>2, <1>3, <1>4, <3>1
  <2> QED
    BY <1>4, <2>2, <2>3, <2>4 DEF Levelled
<1>11. \A p \in DOMAIN nd2 : ~nd2[p].leaf => \A j \in DOMAIN nd2[p].items :
         \/ p = Root /\ j = 1 /\ nd2[p].items[j] = r
         \/ p = Root /\ j = 2 /\ nd2[p].items[j] = q
         \/ /\ p # Root /\ Src(p) \in DOMAIN nd /\ ~nd[Src(p)].leaf /\ j \in DOMAIN nd[Src(p)].items
            /\ nd2[p].items[j] = nd[Src(p)].items[j] /\ nd2[p].items[j] # r /\ nd2[p].items[j] # q
            /\ nd2[p].items[j] # Root
  BY <1>2, <1>7, <1>8
<1>12. \A c : Orphan(nd, c) /\ c # r /\ c # q => Orphan(nd2, c)
  BY <1>11 DEF Orphan
<1>13. OneParent(nd2)
  <2>1. ASSUME NEW p \in DOMAIN nd2, NEW s \in DOMAIN nd2, ~nd2[p].leaf, ~nd2[s].leaf,
               NEW j \in DOMAIN nd2[p].items, NEW k \in DOMAIN nd2[s].items, nd2[p].items[j] = nd2[s].items[k]
        PROVE  p = s /\ j = k
    <3>1. r # q
      BY <1>2
    <3>2. CASE p = Root
      <4>1. s = Root
        BY <1>11, <2>1, <3>2
      <4> QED
        BY <1>11, <2>1, <3>1, <3>2, <4>1
    <3>3. CASE p # Root
      <4>1. s # Root
        BY <1>11, <2>1, <3>3
      <4>2. Src(p) = Src(s) /\ j = k
        BY <1>1, <1>11, <2>1, <3>3, <4>1 DEF OneParent
      <4>3. p = s
        <5>1. \A b \in DOMAIN nd2 : b # r /\ b # Root => Src(b) = b /\ Src(b) # Root
          BY DEF Src
        <5>2. Src(r) = Root
          BY DEF Src
        <5> QED
          BY <3>3, <4>1, <4>2, <5>1, <5>2
      <4> QED
        BY <4>2, <4>3
    <3> QED
      BY <3>2, <3>3
  <2>2. Orphan(nd2, Root) /\ ~Lost(nd2[Root])
    BY <1>2, <1>6, <1>12
  <2>3. ASSUME NEW p \in DOMAIN nd2, Lost(nd2[p]) PROVE Orphan(nd2, p)
    <3>1. p # Root /\ p # r /\ p # q
      BY <1>2, <1>6, <2>3
    <3>2. p \in DOMAIN nd /\ Lost(nd[p])
      BY <1>2, <2>3, <3>1
    <3> QED
      BY <1>1, <1>12, <3>1, <3>2 DEF OneParent
  <2> QED
    BY <2>1, <2>2, <2>3 DEF OneParent
<1>14. Spine(nd2, level2, D, M)
  <2>1. /\ L \in [0 .. h -> DOMAIN nd] /\ L[h] = Root /\ L[0] = C[1]
        /\ \A n \in 1 .. h : ~nd[L[n]].leaf /\ nd[L[n]].items # <<>> /\ L[n - 1] = nd[L[n]].items[1]
    BY <1>1 DEF Spine
  <2>2. /\ M \in [0 .. h + 1 -> DOMAIN nd2] /\ M[h + 1] = Root /\ M[h] = r
        /\ \A n \in 0 .. h : n # h => M[n] = L[n]
    BY DEF Longer
  <2> HIDE DEF h
  <2>3. \A n \in 0 .. h : n # h => L[n] # Root /\ L[n] \in DOMAIN nd
    <3> SUFFICES ASSUME NEW n \in 0 .. h, n # h PROVE L[n] # Root /\ L[n] \in DOMAIN nd
      OBVIOUS
    <3>1. n + 1 \in 1 .. h /\ n + 1 \in 0 .. h /\ (n + 1) - 1 = n
      BY <1>4
    <3>2. L[n + 1] \in DOMAIN nd /\ ~nd[L[n + 1]].leaf /\ nd[L[n + 1]].items # <<>> /\ L[n] = nd[L[n + 1]].items[1]
      BY <2>1, <3>1
    <3>3. nd[L[n + 1]] \in NodeType
      BY <1>3, <3>2, Elements
    <3>4. 1 \in DOMAIN nd[L[n + 1]].items
      <4>1. nd[L[n + 1]].items \in Seq(Vals \cup Nat)
        BY <3>3, PageFields
      <4> QED
        BY <3>2, <4>1
    <3> QED
      BY <1>8, <3>2, <3>4
  <2>4. ASSUME NEW n \in 1 .. h + 1
        PROVE  ~nd2[M[n]].leaf /\ nd2[M[n]].items # <<>> /\ M[n - 1] = nd2[M[n]].items[1]
    <3>1. CASE n = h + 1
      <4>1. n - 1 = h
        BY <1>4, <3>1
      <4>2. x.items # <<>>
        OBVIOUS
      <4> QED
        BY <1>2, <2>2, <3>1, <4>1, <4>2
    <3>2. CASE n = h
      <4>1. n - 1 \in 0 .. h /\ n - 1 # h /\ n \in 1 .. h
        BY <1>4, <3>2
      <4>2. M[n - 1] = L[n - 1] /\ M[n] = r
        BY <2>2, <3>2, <4>1
      <4> QED
        BY <1>2, <2>1, <3>2, <4>1, <4>2
    <3>3. CASE n # h /\ n # h + 1
      <4>1. n - 1 \in 0 .. h /\ n - 1 # h /\ n \in 1 .. h /\ n \in 0 .. h
        BY <1>4, <3>3
      <4>2. M[n - 1] = L[n - 1] /\ M[n] = L[n]
        BY <2>2, <3>3, <4>1
      <4>3. nd2[L[n]] = nd[L[n]]
        BY <1>2, <2>3, <3>3, <4>1
      <4> QED
        BY <2>1, <4>1, <4>2, <4>3
    <3> QED
      BY <3>1, <3>2, <3>3
  <2>5. M[0] = D[1]
    <3>1. D[1] = IF C[1] = Root THEN r ELSE C[1]
      <4>1. C \in Seq(DOMAIN nd) /\ C # <<>>
        BY <1>1 DEF Chained
      <4>2. 1 \in DOMAIN C
        BY <4>1
      <4> QED
        BY <4>2 DEF Renamed
    <3>2. CASE h = 0
      BY <2>1, <2>2, <3>1, <3>2
    <3>3. CASE h # 0
      <4>1. 0 \in 0 .. h
        BY <1>4
      <4> QED
        BY <2>1, <2>2, <2>3, <3>1, <3>3, <4>1
    <3> QED
      BY <3>2, <3>3
  <2> QED
    BY <1>4, <2>2, <2>4, <2>5 DEF Spine
<1>15. Chained(nd2, D)
  <2>1. /\ C \in Seq(DOMAIN nd) /\ C # <<>> /\ Len(C) <= Len(nd)
        /\ \A p \in DOMAIN nd : nd[p].leaf <=> \E i \in DOMAIN C : C[i] = p
        /\ \A i, j \in DOMAIN C : C[i] = C[j] => i = j
        /\ \A i \in DOMAIN C : nd[C[i]].next = IF i = Len(C) THEN NoPage ELSE C[i + 1]
    BY <1>1 DEF Chained
  <2>2. /\ Len(C) \in Nat /\ DOMAIN C = 1 .. Len(C) /\ \A i \in DOMAIN C : C[i] \in DOMAIN nd
    BY <2>1, Elements
  <2>3. Len(D) = Len(C) /\ DOMAIN D = DOMAIN C /\ \A i \in DOMAIN C : D[i] = IF C[i] = Root THEN r ELSE C[i]
    BY DEF Renamed
  <2>4. 1 \in DOMAIN C
    BY <2>1
  <2>5. \A i \in DOMAIN C : i # 1 => C[i] # Root
    <3> SUFFICES ASSUME NEW i \in DOMAIN C, C[i] = Root PROVE i = 1
      OBVIOUS
    <3>1. nd[Root].leaf
      BY <1>2, <2>1
    <3>2. h = 0
      BY <1>1, <1>2, <3>1 DEF Levelled
    <3>3. C[1] = Root
      BY <1>1, <3>2 DEF Spine
    <3> QED
      BY <2>1, <2>4, <3>3
  <2>6. D # <<>> /\ Len(D) <= Len(nd2)
    <3>1. Len(D) <= Len(nd2)
      BY <1>2, <1>3, <2>1, <2>2, <2>3
    <3> QED
      BY <2>3, <2>4, <3>1
  <2>7. \A i, j \in DOMAIN D : D[i] = D[j] => i = j
    <3>1. \A i \in DOMAIN C : C[i] # r
      BY <1>2, <2>2
    <3> QED
      BY <2>1, <2>3, <3>1
  <2>8. \A p \in DOMAIN nd2 : nd2[p].leaf <=> \E i \in DOMAIN D : D[i] = p
    <3>1. ASSUME NEW p \in DOMAIN nd2, nd2[p].leaf PROVE \E i \in DOMAIN D : D[i] = p
      <4>1. p # Root
        BY <1>2, <3>1
      <4>2. Src(p) \in DOMAIN nd /\ nd[Src(p)].leaf
        BY <1>7, <3>1, <4>1
      <4>3. PICK i \in DOMAIN C : C[i] = Src(p)
        BY <2>1, <4>2
      <4>4. D[i] = p
        BY <2>3, <4>1, <4>3 DEF Src
      <4> QED
        BY <2>3, <4>4
    <3>2. ASSUME NEW p \in DOMAIN nd2, NEW i \in DOMAIN D, D[i] = p PROVE nd2[p].leaf
      <4>1. nd[C[i]].leaf /\ C[i] \in DOMAIN nd
        BY <2>1, <2>2, <2>3, <3>2
      <4> QED
        BY <1>2, <2>3, <3>2, <4>1
    <3> QED
      BY <3>1, <3>2
  <2>9. ASSUME NEW i \in DOMAIN D PROVE nd2[D[i]].next = IF i = Len(D) THEN NoPage ELSE D[i + 1]
    <3>1. nd2[D[i]] = nd[C[i]]
      BY <1>2, <2>2, <2>3
    <3>2. i # Len(C) => i + 1 \in DOMAIN C /\ i + 1 # 1
      BY <2>2, <2>3
    <3>3. i # Len(C) => D[i + 1] = C[i + 1]
      BY <2>3, <2>5, <3>2
    <3> QED
      BY <2>1, <2>3, <3>1, <3>3
  <2> QED
    BY <2>6, <2>7, <2>8, <2>9 DEF Chained
<1> QED
  BY <1>9, <1>10, <1>13, <1>14, <1>15 DEF Frame

-----------------------------------------------------------------------------
(* The running call under a change of the tree *)
LEMMA IdleIs ==
  /\ Idle \in CallType /\ Idle.kind = "none" /\ Idle.up = NoSplit /\ Idle.path = <<>>
  /\ NoSplit.key = 0 /\ NoSplit.page = 0
BY DEF Idle, CallType, NoSplit, NoPage

(* No call runs.                                                           *)
LEMMA IdleCall ==
  ASSUME NEW nd, NEW level
  PROVE  Calls(nd, level, Idle)
BY IdleIs DEF Calls

(* Where the way down leads *)
LEMMA WayLeads ==
  ASSUME NEW nd, NEW level, NEW C, NEW L, Frame(nd, level, C, L), NEW path, Way(nd, level, path)
  PROVE  /\ Len(path) \in Nat /\ DOMAIN path = 1 .. Len(path)
         /\ Below(nd, path) \in DOMAIN nd /\ ~Lost(nd[Below(nd, path)])
         /\ level[Below(nd, path)] + Len(path) = level[Root]
         /\ path # <<>> => Below(nd, path) # Root
<1> DEFINE b == Below(nd, path)
           n == Len(path)
<1>1. Pages(nd) /\ Levelled(nd, level) /\ OneParent(nd)
  BY DEF Frame
<1>2. n \in Nat /\ DOMAIN path = 1 .. n
  <2>1. path \in Seq([page : DOMAIN nd, ci : Nat])
    BY DEF Way
  <2> QED
    BY <2>1, Elements
<1>3. Root \in DOMAIN nd /\ level \in [DOMAIN nd -> Nat]
  BY <1>1 DEF Pages, Levelled
<1>4. CASE path = <<>>
  <2>1. b = Root /\ n = 0
    BY <1>4 DEF Below
  <2>2. ~Lost(nd[b]) /\ level[b] + n = level[Root]
    BY <1>1, <1>3, <2>1 DEF OneParent
  <2> QED
    BY <1>2, <1>3, <1>4, <2>1, <2>2
<1>5. CASE path # <<>>
  <2>1. n \in DOMAIN path
    <3>1. n # 0
      <4>1. path \in Seq([page : DOMAIN nd, ci : Nat])
        BY DEF Way
      <4> QED
        BY <1>5, <4>1, EmptySequence
    <3> QED
      BY <1>2, <3>1
  <2> DEFINE p == path[n].page
             j == path[n].ci + 1
  <2>2. p \in DOMAIN nd
    <3>1. path \in Seq([page : DOMAIN nd, ci : Nat])
      BY DEF Way
    <3>2. path[n] \in [page : DOMAIN nd, ci : Nat]
      BY <2>1, <3>1, Elements
    <3> QED
      BY <3>2
  <2>3. ~nd[p].leaf /\ j \in DOMAIN nd[p].items /\ level[p] + n = level[Root] + 1
    BY <2>1 DEF Way
  <2>4. b = nd[p].items[j]
    BY <1>5 DEF Below
  <2> HIDE DEF p, j, b, n
  <2>5. b \in DOMAIN nd
    BY <1>1, <2>2, <2>3, <2>4 DEF Pages, Shaped
  <2>6. level[p] = level[b] + 1
    BY <1>1, <2>2, <2>3, <2>4 DEF Levelled
  <2>7. ~Orphan(nd, b)
    BY <2>2, <2>3, <2>4 DEF Orphan
  <2>8. ~Lost(nd[b]) /\ b # Root
    BY <1>1, <2>5, <2>7 DEF OneParent
  <2>9. level[b] + n = level[Root]
    <3>1. level[b] \in Nat /\ level[p] \in Nat /\ level[Root] \in Nat
      BY <1>3, <2>2, <2>5
    <3> QED
      BY <1>2, <2>3, <2>6, <3>1
  <2> QED
    BY <1>2, <2>5, <2>8, <2>9 DEF b, n
<1> QED
  BY <1>4, <1>5

(* The pages on the way are different ones: each is a level of its own.    *)
LEMMA WayDistinct ==
  ASSUME NEW nd, NEW level, NEW path, Way(nd, level, path), level \in [DOMAIN nd -> Nat], Root \in DOMAIN nd,
         NEW i \in DOMAIN path, NEW j \in DOMAIN path, path[i].page = path[j].page
  PROVE  i = j
<1>1. path \in Seq([page : DOMAIN nd, ci : Nat])
  BY DEF Way
<1>2. i \in Int /\ j \in Int
  BY <1>1, Elements
<1>3. path[i].page \in DOMAIN nd
  <2>1. path[i] \in [page : DOMAIN nd, ci : Nat]
    BY <1>1, Elements
  <2> QED
    BY <2>1
<1>4. level[path[i].page] \in Nat /\ level[Root] \in Nat
  BY <1>3
<1>5. level[path[i].page] + i = level[Root] + 1 /\ level[path[j].page] + j = level[Root] + 1
  BY DEF Way
<1> QED
  BY <1>2, <1>4, <1>5

(* The first pages of the way stay as they are, and so does the way.       *)
Steps(nd) == Seq([page : DOMAIN nd, ci : Nat])

(* The way, or its beginning, under a change that leaves its pages alone   *)
LEMMA WaySame ==
  ASSUME NEW nd, NEW level, NEW path, Way(nd, level, path), Root \in DOMAIN nd,
         NEW nd2, NEW level2, DOMAIN nd \subseteq DOMAIN nd2, \A p \in DOMAIN nd : level2[p] = level[p],
         NEW path2 \in Steps(nd),
         \A i \in DOMAIN path2 : i \in DOMAIN path /\ path2[i] = path[i] /\ nd2[path[i].page] = nd[path[i].page]
  PROVE  Way(nd2, level2, path2) /\ Below(nd2, path2) = Below(nd, path2)
<1>1. /\ path \in Seq([page : DOMAIN nd, ci : Nat])
      /\ \A i \in DOMAIN path :
           /\ ~nd[path[i].page].leaf /\ path[i].ci + 1 \in DOMAIN nd[path[i].page].items
           /\ level[path[i].page] + i = level[Root] + 1
           /\ path[i].page = IF i = 1 THEN Root ELSE nd[path[i - 1].page].items[path[i - 1].ci + 1]
  BY DEF Way
<1>2. path2 \in Seq([page : DOMAIN nd2, ci : Nat])
  <2>1. [page : DOMAIN nd, ci : Nat] \subseteq [page : DOMAIN nd2, ci : Nat]
    OBVIOUS
  <2>2. path2 \in Seq([page : DOMAIN nd, ci : Nat])
    BY DEF Steps
  <2> QED
    BY <2>1, <2>2, WiderSequence
<1>3. \A i \in DOMAIN path : path[i].page \in DOMAIN nd
  <2>1. \A i \in DOMAIN path : path[i] \in [page : DOMAIN nd, ci : Nat]
    BY <1>1, Elements
  <2> QED
    BY <2>1
<1>4. \A i \in DOMAIN path2 : i # 1 => i - 1 \in DOMAIN path2
  <2>1. DOMAIN path2 = 1 .. Len(path2) /\ Len(path2) \in Nat
    BY Elements DEF Steps
  <2> QED
    BY <2>1
<1>5. ASSUME NEW i \in DOMAIN path2
      PROVE  /\ ~nd2[path2[i].page].leaf /\ path2[i].ci + 1 \in DOMAIN nd2[path2[i].page].items
             /\ level2[path2[i].page] + i = level2[Root] + 1
             /\ path2[i].page = IF i = 1 THEN Root ELSE nd2[path2[i - 1].page].items[path2[i - 1].ci + 1]
  <2>1. i \in DOMAIN path /\ path2[i] = path[i] /\ nd2[path[i].page] = nd[path[i].page]
    OBVIOUS
  <2>2. level2[path[i].page] = level[path[i].page] /\ level2[Root] = level[Root]
    BY <1>3, <2>1
  <2>3. i # 1 => nd2[path2[i - 1].page].items[path2[i - 1].ci + 1] = nd[path[i - 1].page].items[path[i - 1].ci + 1]
    BY <1>4
  <2> QED
    BY <1>1, <2>1, <2>2, <2>3
<1>6. Below(nd2, path2) = Below(nd, path2)
  <2>1. CASE path2 = <<>>
    BY <2>1 DEF Below
  <2>2. CASE path2 # <<>>
    <3>1. Len(path2) \in DOMAIN path2
      BY <2>2 DEF Steps
    <3> QED
      BY <2>2, <3>1 DEF Below
  <2> QED
    BY <2>1, <2>2
<1> QED
  BY <1>2, <1>5, <1>6 DEF Way

(* A call starts at the root.                                              *)
Starts(o, kind, k, v) == o = [Idle EXCEPT !.kind = kind, !.key = k, !.val = v, !.at = Root]

(* It is on its way from there.                                            *)
LEMMA CallStarts ==
  ASSUME NEW nd, NEW level, Root \in DOMAIN nd, NEW kind \in {"insert", "delete"}, NEW k \in Keys, NEW v,
         v \in Vals \cup {NoVal}, kind = "insert" => v \in Vals,
         NEW o, Starts(o, kind, k, v)
  PROVE  Calls(nd, level, o) /\ o.up = NoSplit /\ o.at = Root /\ o.key = k /\ o # Idle
<1>1. /\ o.kind = kind /\ o.key = k /\ o.val = v /\ o.at = Root /\ o.path = <<>> /\ o.up = NoSplit
      /\ o = [kind |-> kind, key |-> k, val |-> v, at |-> Root, path |-> <<>>, up |-> NoSplit]
  BY DEF Idle, Starts
<1>2. o \in CallType
  <2>1. k \in Nat /\ Root \in Nat /\ NoSplit \in [key : Nat, page : Nat] /\ <<>> \in Seq([page : Nat, ci : Nat])
    BY KeyTypes DEF Root, NoSplit, NoPage
  <2> QED
    BY <1>1, <2>1 DEF CallType
<1>3. o # Idle /\ o.kind # "none"
  BY <1>1 DEF Idle
<1>4. Way(nd, level, <<>>) /\ Below(nd, <<>>) = Root
  BY DEF Way, Below
<1> QED
  BY <1>1, <1>2, <1>3, <1>4 DEF Calls

-----------------------------------------------------------------------------
(* The route of a key *)
LEMMA MovedNot ==
  ASSUME NEW nd, NEW o, o.up = NoSplit
  PROVE  \A k, p : Moved(nd, o, k, p) = p
BY DEF Moved

(* A search finds a child in each inner node it comes to.                  *)
LEMMA ChildIn ==
  ASSUME NEW nd, Pages(nd), NEW p \in DOMAIN nd, ~nd[p].leaf, ~Lost(nd[p]), NEW k \in Keys
  PROVE  /\ ChildIndex(nd[p].keys, k) \in 0 .. Len(nd[p].keys)
         /\ ChildIndex(nd[p].keys, k) + 1 \in DOMAIN nd[p].items
         /\ Child(nd[p], k) \in DOMAIN nd
<1>1. nd[p] \in NodeType /\ Shaped(nd, nd[p])
  <2>1. nd \in Seq(NodeType)
    BY DEF Pages
  <2> QED
    BY <2>1, Elements DEF Pages
<1>2. /\ nd[p].keys \in Seq(Nat) /\ Len(nd[p].keys) \in Nat
      /\ Len(nd[p].items) \in Nat /\ DOMAIN nd[p].items = 1 .. Len(nd[p].items)
  BY <1>1, PageFields
<1>3. Len(nd[p].items) = Len(nd[p].keys) + 1 /\ \A i \in DOMAIN nd[p].items : nd[p].items[i] \in DOMAIN nd
  BY <1>1 DEF Shaped
<1>4. k \in Nat
  BY KeyTypes
<1>5. ChildIndex(nd[p].keys, k) \in 0 .. Len(nd[p].keys)
  BY <1>2, <1>4, ChildIndexFinds
<1>6. ChildIndex(nd[p].keys, k) + 1 \in DOMAIN nd[p].items
  <2> DEFINE i == ChildIndex(nd[p].keys, k)
  <2>1. i \in 0 .. Len(nd[p].keys)
    BY <1>5
  <2> HIDE DEF i
  <2>2. i + 1 \in 1 .. Len(nd[p].items)
    BY <1>2, <1>3, <2>1
  <2> QED
    BY <1>2, <2>2 DEF i
<1> QED
  BY <1>3, <1>5, <1>6 DEF Child

(* Each step of a route is a child that exists, down to a leaf.            *)
LEMMA RouteFacts ==
  ASSUME NEW nd, NEW level, Pages(nd), Levelled(nd, level),
         NEW o, NEW route, Routed(nd, o, level, route), NEW k \in Keys
  PROVE  /\ level[Root] \in Nat
         /\ \A n \in 0 .. level[Root] :
              route[k][n] \in DOMAIN nd /\ level[route[k][n]] = n /\ ~Lost(nd[route[k][n]])
         /\ route[k][level[Root]] = Moved(nd, o, k, Root)
         /\ \A n \in 1 .. level[Root] :
              /\ n \in 0 .. level[Root] /\ n - 1 \in 0 .. level[Root]
              /\ route[k][n] \in DOMAIN nd /\ ~nd[route[k][n]].leaf /\ ~Lost(nd[route[k][n]])
              /\ ChildIndex(nd[route[k][n]].keys, k) + 1 \in DOMAIN nd[route[k][n]].items
              /\ Child(nd[route[k][n]], k) = nd[route[k][n]].items[ChildIndex(nd[route[k][n]].keys, k) + 1]
              /\ route[k][n - 1] = Moved(nd, o, k, Child(nd[route[k][n]], k))
         /\ nd[route[k][0]].leaf
<1> DEFINE h == level[Root]
<1>1. h \in Nat
  BY DEF Pages, Levelled
<1>2. /\ route[k] \in [0 .. h -> DOMAIN nd]
      /\ \A n \in 0 .. h : level[route[k][n]] = n /\ ~Lost(nd[route[k][n]])
      /\ route[k][h] = Moved(nd, o, k, Root)
      /\ \A n \in 1 .. h : route[k][n - 1] = Moved(nd, o, k, Child(nd[route[k][n]], k))
  BY DEF Routed
<1> HIDE DEF h
<1>3. \A n \in 1 .. h : n \in 0 .. h /\ n - 1 \in 0 .. h /\ n # 0
  BY <1>1
<1>4. \A n \in 0 .. h : route[k][n] \in DOMAIN nd
  BY <1>2
<1>5. ASSUME NEW n \in 1 .. h
      PROVE  /\ ~nd[route[k][n]].leaf
             /\ ChildIndex(nd[route[k][n]].keys, k) + 1 \in DOMAIN nd[route[k][n]].items
  <2> DEFINE p == route[k][n]
  <2>1. p \in DOMAIN nd /\ level[p] = n /\ ~Lost(nd[p])
    BY <1>2, <1>3, <1>4
  <2> HIDE DEF p
  <2>2. ~nd[p].leaf
    BY <1>3, <2>1 DEF Levelled
  <2>3. ChildIndex(nd[p].keys, k) + 1 \in DOMAIN nd[p].items
    BY <2>1, <2>2, ChildIn
  <2> QED
    BY <2>2, <2>3 DEF p
<1>6. nd[route[k][0]].leaf
  <2>1. 0 \in 0 .. h
    BY <1>1
  <2> QED
    BY <1>2, <1>4, <2>1 DEF Levelled
<1> QED
  BY <1>1, <1>2, <1>3, <1>4, <1>5, <1>6 DEF h, Child

(* The child that a search takes is the place of the key among the keys.   *)
LEMMA ChildBetween ==
  ASSUME NEW nd, Pages(nd), Ordered(nd), NEW p \in DOMAIN nd, NEW k \in Keys
  PROVE  /\ nd[p].keys \in Seq(Nat) /\ Strict(nd[p].keys) /\ k \in Nat
         /\ Between(nd[p].keys, k, ChildIndex(nd[p].keys, k))
<1>1. nd[p] \in NodeType
  <2>1. nd \in Seq(NodeType)
    BY DEF Pages
  <2> QED
    BY <2>1, Elements
<1>2. nd[p].keys \in Seq(Nat) /\ k \in Nat /\ Strict(nd[p].keys)
  BY <1>1, PageFields, KeyTypes DEF Ordered
<1> QED
  BY <1>2, ChildIndexFinds

(* A key more in order *)
LEMMA InsertStrict ==
  ASSUME NEW s, NEW t, NEW i, NEW e, Inserted(s, t, i, e), Strict(s),
         s \in Seq(Nat), e \in Nat,
         \A j \in DOMAIN s : (j <= i => s[j] < e) /\ (j > i => e < s[j])
  PROVE  Strict(t)
<1>1. i \in Int /\ DOMAIN t = 1 .. Len(s) + 1 /\ Len(s) \in Nat /\ DOMAIN s = 1 .. Len(s)
  BY DEF Inserted
<1>0. \A j \in DOMAIN s : s[j] \in Nat
  BY Elements
<1>2. ASSUME NEW j \in DOMAIN t, NEW k \in DOMAIN t, j < k PROVE t[j] < t[k]
  <2>0. j \in Int /\ k \in Int
    BY <1>1
  <2>1. \/ j \in 1 .. i /\ j \in DOMAIN s /\ t[j] = s[j]
        \/ j = i + 1 /\ t[j] = e
        \/ j - 1 \in i + 1 .. Len(s) /\ j - 1 \in DOMAIN s /\ t[j] = s[j - 1]
    BY InsertedFrom
  <2>2. \/ k \in 1 .. i /\ k \in DOMAIN s /\ t[k] = s[k]
        \/ k = i + 1 /\ t[k] = e
        \/ k - 1 \in i + 1 .. Len(s) /\ k - 1 \in DOMAIN s /\ t[k] = s[k - 1]
    BY InsertedFrom
  <2>3. CASE j \in 1 .. i /\ j \in DOMAIN s /\ t[j] = s[j]
    <3>1. CASE k \in 1 .. i /\ k \in DOMAIN s /\ t[k] = s[k]
      BY <1>2, <2>3, <3>1 DEF Strict
    <3>2. CASE k = i + 1 /\ t[k] = e
      <4>1. j <= i
        BY <1>1, <2>0, <2>3
      <4> QED
        BY <2>3, <3>2, <4>1
    <3>3. CASE k - 1 \in i + 1 .. Len(s) /\ k - 1 \in DOMAIN s /\ t[k] = s[k - 1]
      <4>1. j < k - 1
        BY <1>1, <2>0, <2>3, <3>3
      <4> QED
        BY <2>3, <3>3, <4>1 DEF Strict
    <3> QED
      BY <2>2, <3>1, <3>2, <3>3
  <2>4. CASE j = i + 1 /\ t[j] = e
    <3>1. k - 1 \in DOMAIN s /\ t[k] = s[k - 1] /\ k - 1 > i
      BY <1>1, <1>2, <2>0, <2>2, <2>4
    <3> QED
      BY <2>4, <3>1
  <2>5. CASE j - 1 \in i + 1 .. Len(s) /\ j - 1 \in DOMAIN s /\ t[j] = s[j - 1]
    <3>1. k - 1 \in DOMAIN s /\ t[k] = s[k - 1] /\ j - 1 < k - 1
      BY <1>1, <1>2, <2>0, <2>2, <2>5
    <3> QED
      BY <2>5, <3>1 DEF Strict
  <2> QED
    BY <2>1, <2>3, <2>4, <2>5
<1> QED
  BY <1>2 DEF Strict

(* A key less *)
LEMMA RemoveStrict ==
  ASSUME NEW s, NEW t, NEW i, Removed(s, t, i), Strict(s)
  PROVE  Strict(t)
<1>1. i \in Int /\ DOMAIN t \subseteq Int
  BY DEF Removed
<1>2. ASSUME NEW j \in DOMAIN t, NEW k \in DOMAIN t, j < k PROVE t[j] < t[k]
  <2>1. \/ j < i /\ j \in DOMAIN s /\ t[j] = s[j]
        \/ j >= i /\ j + 1 \in DOMAIN s /\ t[j] = s[j + 1]
    BY RemovedFrom
  <2>2. \/ k < i /\ k \in DOMAIN s /\ t[k] = s[k]
        \/ k >= i /\ k + 1 \in DOMAIN s /\ t[k] = s[k + 1]
    BY RemovedFrom
  <2>3. j \in Int /\ k \in Int
    BY <1>1
  <2>4. j < k + 1 /\ j + 1 < k + 1
    BY <1>2, <2>3
  <2> QED
    BY <1>1, <1>2, <2>1, <2>2, <2>3, <2>4 DEF Strict
<1> QED
  BY <1>2 DEF Strict

(* A part of the keys *)
LEMMA PartedStrict ==
  ASSUME NEW s, NEW t, NEW u, NEW m, NEW g, Parted(s, t, u, m, g), Strict(s)
  PROVE  Strict(t) /\ Strict(u)
<1>1. /\ \A j \in DOMAIN t : j \in DOMAIN s /\ j <= m /\ j \in Int /\ t[j] = s[j]
      /\ \A j \in DOMAIN u : m + g + j \in DOMAIN s /\ j >= 1 /\ j \in Int /\ u[j] = s[m + g + j]
      /\ m \in Int /\ g \in Int
  BY PartedFrom
<1>2. Strict(t)
  BY <1>1 DEF Strict
<1>3. ASSUME NEW i \in DOMAIN u, NEW j \in DOMAIN u, i < j PROVE u[i] < u[j]
  <2>1. m + g + i < m + g + j
    BY <1>1, <1>3
  <2> QED
    BY <1>1, <2>1 DEF Strict
<1> QED
  BY <1>2, <1>3 DEF Strict

-----------------------------------------------------------------------------
(* Where the keys lead, under a change. A leaf changes, and all keys that  *)
(* it gets lead to it:                                                     *)
LEMMA LeadsLeaf ==
  ASSUME NEW nd, NEW level, NEW C, NEW L, Frame(nd, level, C, L),
         NEW o, o.up = NoSplit, NEW cs, NEW route, Leads(nd, o, cs, level, C, route),
         NEW nd2, NEW a, NEW x, Updated(nd, nd2, a, x), nd[a].leaf, x.leaf, NEW cs2,
         Strict(x.keys), \A i \in DOMAIN x.keys : route[x.keys[i]][0] = a,
         \A k \in Keys : route[k][0] # a => cs2[k] = cs[k],
         \A k \in Keys : route[k][0] = a =>
           /\ cs2[k] = NoVal => ~Has(x, k)
           /\ cs2[k] # NoVal => \E i \in DOMAIN x.keys : x.keys[i] = k /\ x.items[i] = cs2[k]
  PROVE  Leads(nd2, Idle, cs2, level, C, route)
<1>1. /\ Pages(nd) /\ Levelled(nd, level)
      /\ Ordered(nd) /\ Routed(nd, o, level, route) /\ Settled(nd, o, level, route)
      /\ Stores(nd, cs, route) /\ Rising(C, route)
  BY DEF Frame, Leads
<1>2. /\ a \in DOMAIN nd /\ DOMAIN nd2 = DOMAIN nd /\ nd2[a] = x
      /\ \A p \in DOMAIN nd : p # a => nd2[p] = nd[p]
  BY DEF Updated
<1>3. \A k, p : Moved(nd, o, k, p) = p /\ Moved(nd2, Idle, k, p) = p
  BY MovedNot, IdleIs
<1>4. level[a] = 0 /\ level[Root] \in Nat
  BY <1>1, <1>2 DEF Levelled, Pages
<1>5. Ordered(nd2)
  BY <1>1, <1>2 DEF Ordered
<1>6. Routed(nd2, Idle, level, route)
  <2>1. /\ route \in [Keys -> [0 .. level[Root] -> DOMAIN nd2]]
    BY <1>1, <1>2 DEF Routed
  <2>2. ASSUME NEW k \in Keys, NEW n \in 0 .. level[Root]
        PROVE  level[route[k][n]] = n /\ ~Lost(nd2[route[k][n]])
    <3>1. level[route[k][n]] = n /\ ~Lost(nd[route[k][n]]) /\ route[k][n] \in DOMAIN nd
      BY <1>1, RouteFacts
    <3>2. ~Lost(nd2[a])
      BY <1>2 DEF Lost
    <3> QED
      BY <1>2, <3>1, <3>2
  <2>3. \A k \in Keys : route[k][level[Root]] = Moved(nd2, Idle, k, Root)
    BY <1>1, <1>3 DEF Routed
  <2>4. ASSUME NEW k \in Keys, NEW n \in 1 .. level[Root]
        PROVE  route[k][n - 1] = Moved(nd2, Idle, k, Child(nd2[route[k][n]], k))
    <3>1. /\ route[k][n] \in DOMAIN nd /\ ~nd[route[k][n]].leaf
          /\ route[k][n - 1] = Moved(nd, o, k, Child(nd[route[k][n]], k))
      BY <1>1, RouteFacts
    <3>2. nd2[route[k][n]] = nd[route[k][n]]
      BY <1>2, <3>1
    <3> QED
      BY <1>3, <3>1, <3>2
  <2> QED
    BY <2>1, <2>2, <2>3, <2>4 DEF Routed
<1>7. Settled(nd2, Idle, level, route)
  <2>1. ASSUME NEW p \in DOMAIN nd2, NEW i \in DOMAIN nd2[p].keys
        PROVE  level[p] <= level[Root] /\ route[nd2[p].keys[i]][level[p]] = p
    <3>1. CASE p = a
      <4>1. 0 <= level[Root]
        BY <1>4
      <4> QED
        BY <1>2, <1>4, <3>1, <4>1
    <3>2. CASE p # a
      BY <1>1, <1>2, <3>2 DEF Settled
    <3> QED
      BY <3>1, <3>2
  <2> QED
    BY <2>1, IdleIs DEF Settled
<1>8. Stores(nd2, cs2, route)
  <2>1. ASSUME NEW k \in Keys
        PROVE  LET n == nd2[route[k][0]]
               IN  /\ cs2[k] = NoVal => ~Has(n, k)
                   /\ cs2[k] # NoVal => \E i \in DOMAIN n.keys : n.keys[i] = k /\ n.items[i] = cs2[k]
    <3>1. CASE route[k][0] = a
      BY <1>2, <3>1
    <3>2. CASE route[k][0] # a
      <4>1. 0 \in 0 .. level[Root]
        BY <1>4
      <4>2. route[k][0] \in DOMAIN nd
        BY <1>1, <4>1, RouteFacts
      <4>3. nd2[route[k][0]] = nd[route[k][0]] /\ cs2[k] = cs[k]
        BY <1>2, <3>2, <4>2
      <4> QED
        BY <1>1, <4>3 DEF Stores
    <3> QED
      BY <3>1, <3>2
  <2> QED
    BY <2>1 DEF Stores
<1> QED
  BY <1>1, <1>5, <1>6, <1>7, <1>8 DEF Leads

(* The last step of the way down was to child ci of a.                     *)
LastStep(path, a, ci) == path # <<>> /\ a = path[Len(path)].page /\ ci = path[Len(path)].ci

(* The sibling that has split off becomes a child: nobody is moved any     *)
(* more, and every key is led to the page it was led to before.            *)
LEMMA LeadsParent ==
  ASSUME NEW nd, NEW level, NEW C, NEW L, Frame(nd, level, C, L),
         NEW o, o # Idle, o.up # NoSplit, Calls(nd, level, o),
         NEW cs, NEW route, Leads(nd, o, cs, level, C, route),
         NEW nd2, NEW a, NEW x, NEW ci, LastStep(o.path, a, ci), Updated(nd, nd2, a, x), ~x.leaf,
         Inserted(nd[a].keys, x.keys, ci, o.up.key), Inserted(nd[a].items, x.items, ci + 1, o.up.page)
  PROVE  Leads(nd2, Idle, cs, level, C, route)
<1> DEFINE h == level[Root]
           v == level[a]
           b == Below(nd, o.path)
           q == o.up.page
           mk == o.up.key
<1>1. /\ Pages(nd) /\ Levelled(nd, level) /\ OneParent(nd)
      /\ Ordered(nd) /\ Routed(nd, o, level, route) /\ Settled(nd, o, level, route)
      /\ Stores(nd, cs, route) /\ Rising(C, route)
  BY DEF Frame, Leads
<1>2. /\ a \in DOMAIN nd /\ DOMAIN nd2 = DOMAIN nd /\ nd2[a] = x
      /\ \A p \in DOMAIN nd : p # a => nd2[p] = nd[p]
  BY DEF Updated
<1>3. /\ Way(nd, level, o.path) /\ mk \in Keys /\ q \in DOMAIN nd /\ Orphan(nd, q) /\ level[q] = level[b]
      /\ level \in [DOMAIN nd -> Nat] /\ Root \in DOMAIN nd
  BY <1>1 DEF Calls, Levelled, Pages
<1>4. b \in DOMAIN nd /\ b # Root
  BY <1>3, WayLeads DEF LastStep
<1>5. /\ ~nd[a].leaf /\ ci \in Nat /\ ci + 1 \in DOMAIN nd[a].items /\ b = nd[a].items[ci + 1]
      /\ v = level[b] + 1 /\ v \in 1 .. h
  <2>1. o.path \in Seq([page : DOMAIN nd, ci : Nat])
    BY <1>3 DEF Way
  <2>2. Len(o.path) \in DOMAIN o.path /\ Len(o.path) >= 1 /\ Len(o.path) \in Nat
    <3>1. o.path # <<>>
      BY DEF LastStep
    <3> QED
      BY <2>1, <3>1
  <2>3. ci \in Nat
    <3>1. o.path[Len(o.path)] \in [page : DOMAIN nd, ci : Nat]
      BY <2>1, <2>2, Elements
    <3> QED
      BY <3>1 DEF LastStep
  <2>4. /\ ~nd[a].leaf /\ ci + 1 \in DOMAIN nd[a].items /\ v + Len(o.path) = h + 1
    BY <1>3, <2>2 DEF Way, LastStep
  <2>5. b = nd[a].items[ci + 1]
    BY DEF Below, LastStep
  <2> HIDE DEF b, v, h
  <2>6. level[a] = level[b] + 1
    BY <1>1, <1>2, <2>4, <2>5 DEF Levelled
  <2>7. level[b] \in Nat /\ v \in Nat /\ h \in Nat
    BY <1>2, <1>3, <1>4 DEF v, h
  <2>8. v \in 1 .. h
    BY <2>2, <2>4, <2>6, <2>7 DEF v
  <2> QED
    BY <2>3, <2>4, <2>5, <2>6, <2>8 DEF v
<1> HIDE DEF h, v, b, q, mk
<1>6. \A k, p : /\ Moved(nd2, Idle, k, p) = p
                /\ Moved(nd, o, k, p) = IF p = b /\ mk <= k THEN q ELSE p
  <2>1. \A k, p : Moved(nd2, Idle, k, p) = p
    BY MovedNot, IdleIs
  <2> QED
    BY <2>1 DEF Moved, b, mk, q
<1>7. \A k \in Keys : \A n \in 1 .. h :
        /\ n \in 0 .. h /\ n - 1 \in 0 .. h
        /\ route[k][n] \in DOMAIN nd /\ ~nd[route[k][n]].leaf
        /\ ChildIndex(nd[route[k][n]].keys, k) + 1 \in DOMAIN nd[route[k][n]].items
        /\ Child(nd[route[k][n]], k) = nd[route[k][n]].items[ChildIndex(nd[route[k][n]].keys, k) + 1]
        /\ route[k][n - 1] = Moved(nd, o, k, Child(nd[route[k][n]], k))
        /\ Child(nd[route[k][n]], k) # q
  <2> SUFFICES ASSUME NEW k \in Keys, NEW n \in 1 .. h
               PROVE  /\ n \in 0 .. h /\ n - 1 \in 0 .. h
                      /\ route[k][n] \in DOMAIN nd /\ ~nd[route[k][n]].leaf
                      /\ ChildIndex(nd[route[k][n]].keys, k) + 1 \in DOMAIN nd[route[k][n]].items
                      /\ Child(nd[route[k][n]], k) = nd[route[k][n]].items[ChildIndex(nd[route[k][n]].keys, k) + 1]
                      /\ route[k][n - 1] = Moved(nd, o, k, Child(nd[route[k][n]], k))
                      /\ Child(nd[route[k][n]], k) # q
    OBVIOUS
  <2>1. /\ n \in 0 .. h /\ n - 1 \in 0 .. h
        /\ route[k][n] \in DOMAIN nd /\ ~nd[route[k][n]].leaf
        /\ ChildIndex(nd[route[k][n]].keys, k) + 1 \in DOMAIN nd[route[k][n]].items
        /\ Child(nd[route[k][n]], k) = nd[route[k][n]].items[ChildIndex(nd[route[k][n]].keys, k) + 1]
        /\ route[k][n - 1] = Moved(nd, o, k, Child(nd[route[k][n]], k))
    BY <1>1, RouteFacts DEF h
  <2> QED
    BY <1>3, <2>1 DEF Orphan
(* The child b is only found in a, at ci.                                  *)
<1>8. ASSUME NEW k \in Keys, NEW n \in 1 .. h, Child(nd[route[k][n]], k) = b
      PROVE  route[k][n] = a /\ ChildIndex(nd[a].keys, k) = ci /\ n = v
  <2> DEFINE p == route[k][n]
             j == ChildIndex(nd[p].keys, k)
  <2>1. /\ p \in DOMAIN nd /\ ~nd[p].leaf /\ j + 1 \in DOMAIN nd[p].items /\ nd[p].items[j + 1] = b
    BY <1>7, <1>8
  <2>2. level[p] = n /\ j \in Int
    <3>1. level[p] = n /\ ~Lost(nd[p])
      BY <1>1, <1>7, RouteFacts DEF h
    <3>2. j \in 0 .. Len(nd[p].keys)
      BY <1>1, <2>1, <3>1, ChildIn
    <3> QED
      BY <3>1, <3>2
  <2> HIDE DEF p, j
  <2>3. p = a /\ j + 1 = ci + 1
    BY <1>1, <1>2, <1>5, <2>1 DEF OneParent
  <2>4. j = ci
    BY <1>5, <2>2, <2>3
  <2> QED
    BY <2>2, <2>3, <2>4 DEF p, j, v
<1>9. v - 1 = level[b] /\ v - 1 = level[q] /\ v - 1 \in 0 .. h /\ v \in 0 .. h
  <2>1. level[b] \in Nat
    BY <1>3, <1>4
  <2> QED
    BY <1>3, <1>5, <1>7, <2>1
(* The separator was found at ci, and so was a smaller key.                *)
<1>10. route[mk][v] = a /\ Between(nd[a].keys, mk, ci)
  <2>1. route[mk][v - 1] = q
    BY <1>1, <1>9 DEF Settled, mk, q
  <2>2. Child(nd[route[mk][v]], mk) = b
    <3>1. /\ route[mk][v - 1] = Moved(nd, o, mk, Child(nd[route[mk][v]], mk))
          /\ Child(nd[route[mk][v]], mk) # q
      BY <1>3, <1>5, <1>7
    <3> DEFINE c == Child(nd[route[mk][v]], mk)
    <3> HIDE DEF c
    <3>2. Moved(nd, o, mk, c) = IF c = b /\ mk <= mk THEN q ELSE c
      BY <1>6
    <3>3. c = b
      BY <2>1, <3>1, <3>2 DEF c
    <3> QED
      BY <3>3 DEF c
  <2>3. route[mk][v] = a /\ ChildIndex(nd[a].keys, mk) = ci
    BY <1>3, <1>5, <1>8, <2>2
  <2> QED
    BY <1>1, <1>2, <1>3, <2>3, ChildBetween
<1>11. PICK m \in Keys : m < mk /\ Between(nd[a].keys, m, ci)
  <2>1. PICK m \in Keys : m < mk /\ route[m][v - 1] = b
    BY <1>1, <1>9 DEF Settled, mk, q, b
  <2>2. b # q
    <3>1. ~Orphan(nd, b)
      BY <1>2, <1>5 DEF Orphan
    <3> QED
      BY <1>3, <3>1
  <2>3. Child(nd[route[m][v]], m) = b
    <3>1. /\ route[m][v - 1] = Moved(nd, o, m, Child(nd[route[m][v]], m))
      BY <1>5, <1>7
    <3> DEFINE c == Child(nd[route[m][v]], m)
    <3> HIDE DEF c
    <3>2. Moved(nd, o, m, c) = IF c = b /\ mk <= m THEN q ELSE c
      BY <1>6
    <3>3. c = b
      BY <2>1, <2>2, <3>1, <3>2 DEF c
    <3> QED
      BY <3>3 DEF c
  <2>4. ChildIndex(nd[a].keys, m) = ci
    BY <1>5, <1>8, <2>3
  <2> QED
    BY <1>1, <1>2, <2>1, <2>4, ChildBetween
<1>12. /\ nd[a].keys \in Seq(Nat) /\ Strict(nd[a].keys) /\ mk \in Nat /\ x.keys \in Seq(Nat)
       /\ \A j \in DOMAIN nd[a].keys : nd[a].keys[j] \in Nat
  <2>1. nd[a].keys \in Seq(Nat) /\ Strict(nd[a].keys) /\ mk \in Nat
    BY <1>1, <1>2, <1>3, ChildBetween
  <2>2. x \in NodeType
    BY DEF Updated
  <2>3. x.keys \in Seq(Nat)
    BY <2>2, PageFields
  <2> QED
    BY <2>1, <2>3, Elements
<1>13. \A j \in DOMAIN nd[a].keys : (j <= ci => nd[a].keys[j] < mk) /\ (j > ci => mk < nd[a].keys[j])
  <2> SUFFICES ASSUME NEW j \in DOMAIN nd[a].keys
               PROVE (j <= ci => nd[a].keys[j] < mk) /\ (j > ci => mk < nd[a].keys[j])
    OBVIOUS
  <2>1. (j <= ci => nd[a].keys[j] <= m) /\ (j > ci => mk < nd[a].keys[j])
    BY <1>10, <1>11 DEF Between
  <2>2. m \in Nat /\ mk \in Nat /\ nd[a].keys[j] \in Nat
    BY <1>12, KeyTypes
  <2> QED
    BY <1>11, <2>1, <2>2
<1>14. Strict(x.keys)
  BY <1>12, <1>13, InsertStrict, SMTT(20) DEF mk
<1>15. ASSUME NEW k \in Keys
       PROVE  Child(x, k) = Moved(nd, o, k, Child(nd[a], k))
  <2> DEFINE i == ChildIndex(nd[a].keys, k)
             s == nd[a].keys
             t == x.keys
  <2>1. Between(s, k, i) /\ k \in Nat
    BY <1>1, <1>2, ChildBetween
  <2>2. /\ i \in Nat /\ i <= Len(s) /\ Len(s) \in Nat /\ DOMAIN s = 1 .. Len(s)
        /\ DOMAIN t = 1 .. Len(s) + 1 /\ Len(t) = Len(s) + 1 /\ ci \in Nat
        /\ \A j \in DOMAIN s : s[j] \in Nat
        /\ Inserted(s, t, ci, mk)
    <3>1. Inserted(s, t, ci, mk)
      BY DEF mk
    <3>2. Len(s) \in Nat
      BY <3>1 DEF Inserted
    <3> QED
      BY <1>5, <1>12, <2>1, <3>1, <3>2 DEF Between, Inserted
  <2>3. /\ i + 1 \in DOMAIN nd[a].items /\ Child(nd[a], k) = nd[a].items[i + 1]
    <3>1. ~Lost(nd[a])
      BY <1>5 DEF Lost
    <3> QED
      BY <1>1, <1>2, <1>5, <3>1, ChildIn DEF Child
  <2>4. \A j \in DOMAIN s : (j <= i => s[j] <= k) /\ (j > i => k < s[j])
    BY <2>1 DEF Between
  <2> HIDE DEF i, s, t
  <2>5. \A j \in DOMAIN t : \/ j <= ci /\ j \in DOMAIN s /\ t[j] = s[j]
                            \/ j = ci + 1 /\ t[j] = mk
                            \/ j - 1 > ci /\ j - 1 \in DOMAIN s /\ t[j] = s[j - 1]
    <3> SUFFICES ASSUME NEW j \in DOMAIN t
                 PROVE  \/ j <= ci /\ j \in DOMAIN s /\ t[j] = s[j]
                        \/ j = ci + 1 /\ t[j] = mk
                        \/ j - 1 > ci /\ j - 1 \in DOMAIN s /\ t[j] = s[j - 1]
      OBVIOUS
    <3>1. \/ j \in 1 .. ci /\ j \in DOMAIN s /\ t[j] = s[j]
          \/ j = ci + 1 /\ t[j] = mk
          \/ j - 1 \in ci + 1 .. Len(s) /\ j - 1 \in DOMAIN s /\ t[j] = s[j - 1]
      BY <2>2, InsertedFrom
    <3>2. j \in Int
      BY <2>2
    <3> QED
      BY <2>2, <3>1, <3>2
  <2>6. \A j \in DOMAIN nd[a].items :
          /\ j <= ci + 1 => x.items[j] = nd[a].items[j]
          /\ j > ci + 1 => x.items[j + 1] = nd[a].items[j]
    BY InsertedTo
  <2>7. x.items[ci + 2] = q
    <3>1. (ci + 1) + 1 = ci + 2
      BY <2>2
    <3> QED
      BY <3>1, InsertedTo DEF q
  <2>8. nd[a].items[i + 1] = b => i = ci
    <3>1. nd[a].items[i + 1] = b => i + 1 = ci + 1
      BY <1>1, <1>2, <1>5, <2>3 DEF OneParent
    <3> QED
      BY <2>2, <3>1
  <2>9. i < ci \/ (i = ci /\ k < mk) => Between(t, k, i)
    <3> SUFFICES ASSUME i < ci \/ (i = ci /\ k < mk) PROVE Between(t, k, i)
      OBVIOUS
    <3>1. i \in 0 .. Len(t)
      BY <2>2
    <3>2. ASSUME NEW j \in DOMAIN t PROVE (j <= i => t[j] <= k) /\ (j > i => k < t[j])
      <4>1. j \in Int
        BY <2>2
      <4>2. CASE j <= ci /\ j \in DOMAIN s /\ t[j] = s[j]
        BY <2>4, <4>2
      <4>3. CASE j = ci + 1 /\ t[j] = mk
        <5>1. ~(j <= i)
          BY <2>2, <4>3
        <5>2. k < mk
          <6>1. CASE i < ci
            <7>1. ci \in DOMAIN s
              BY <2>2, <6>1 DEF Inserted
            <7>2. k < s[ci] /\ s[ci] < mk
              BY <1>13, <2>2, <2>4, <6>1, <7>1 DEF s
            <7>3. k \in Int /\ mk \in Int /\ s[ci] \in Int
              <8>1. s[ci] \in Nat
                BY <2>2, <7>1
              <8>2. k \in Nat /\ mk \in Nat
                BY <1>12, <2>1
              <8> QED
                BY <8>1, <8>2
            <7> QED
              BY <7>2, <7>3
          <6> QED
            BY <6>1
        <5> QED
          BY <4>3, <5>1, <5>2
      <4>4. CASE j - 1 > ci /\ j - 1 \in DOMAIN s /\ t[j] = s[j - 1]
        <5>1. j - 1 > i /\ ~(j <= i)
          BY <2>2, <4>1, <4>4
        <5> QED
          BY <2>4, <4>4, <5>1
      <4> QED
        BY <2>5, <4>2, <4>3, <4>4
    <3> QED
      BY <3>1, <3>2 DEF Between
  <2>10. i > ci \/ (i = ci /\ mk <= k) => Between(t, k, i + 1)
    <3> SUFFICES ASSUME i > ci \/ (i = ci /\ mk <= k) PROVE Between(t, k, i + 1)
      OBVIOUS
    <3>1. i + 1 \in 0 .. Len(t)
      BY <2>2
    <3>2. ASSUME NEW j \in DOMAIN t PROVE (j <= i + 1 => t[j] <= k) /\ (j > i + 1 => k < t[j])
      <4>1. j \in Int
        BY <2>2
      <4>2. CASE j <= ci /\ j \in DOMAIN s /\ t[j] = s[j]
        <5>1. j <= i /\ ~(j > i + 1)
          BY <2>2, <4>1, <4>2
        <5> QED
          BY <2>4, <4>2, <5>1
      <4>3. CASE j = ci + 1 /\ t[j] = mk
        <5>1. ~(j > i + 1)
          BY <2>2, <4>3
        <5>2. mk <= k
          <6>1. CASE i > ci
            <7>1. ci + 1 \in DOMAIN s /\ ci + 1 > ci /\ ci + 1 <= i
              BY <2>2, <6>1
            <7>2. mk < s[ci + 1] /\ s[ci + 1] <= k
              BY <1>13, <2>4, <7>1 DEF s
            <7> QED
              BY <1>12, <2>1, <2>2, <7>1, <7>2
          <6> QED
            BY <6>1
        <5> QED
          BY <4>3, <5>1, <5>2
      <4>4. CASE j - 1 > ci /\ j - 1 \in DOMAIN s /\ t[j] = s[j - 1]
        <5>1. (j <= i + 1 => j - 1 <= i) /\ (j > i + 1 => j - 1 > i)
          BY <2>2, <4>1
        <5> QED
          BY <2>4, <4>4, <5>1
      <4> QED
        BY <2>5, <4>2, <4>3, <4>4
    <3> QED
      BY <3>1, <3>2 DEF Between
  <2>11. t \in Seq(Nat) /\ Strict(t)
    BY <1>12, <1>14 DEF t
  <2>12. i < ci \/ (i = ci /\ k < mk) => ChildIndex(t, k) = i
    BY <2>1, <2>9, <2>11, OnePlace
  <2>13. i > ci \/ (i = ci /\ mk <= k) => ChildIndex(t, k) = i + 1
    BY <2>1, <2>10, <2>11, OnePlace
  <2>14. Child(x, k) = x.items[ChildIndex(t, k) + 1]
    BY DEF Child, t
  <2>15. CASE i < ci
    <3>1. i + 1 <= ci + 1 /\ i # ci
      BY <2>2, <2>15
    <3>2. Child(x, k) = nd[a].items[i + 1]
      BY <2>3, <2>6, <2>12, <2>14, <2>15, <3>1
    <3> QED
      BY <1>6, <2>3, <2>8, <3>1, <3>2
  <2>16. CASE i = ci /\ k < mk
    <3>1. i + 1 <= ci + 1 /\ ~(mk <= k)
      BY <1>12, <2>1, <2>2, <2>16
    <3>2. Child(x, k) = nd[a].items[i + 1]
      BY <2>3, <2>6, <2>12, <2>14, <2>16, <3>1
    <3> QED
      BY <1>6, <2>3, <3>1, <3>2
  <2>17. CASE i = ci /\ mk <= k
    <3>1. (i + 1) + 1 = ci + 2
      BY <2>2, <2>17
    <3>2. Child(x, k) = q
      BY <2>7, <2>13, <2>14, <2>17, <3>1
    <3> QED
      BY <1>5, <1>6, <2>3, <2>17, <3>2
  <2>18. CASE i > ci
    <3>1. i + 1 > ci + 1 /\ i # ci
      BY <2>2, <2>18
    <3>2. Child(x, k) = nd[a].items[i + 1]
      BY <2>3, <2>6, <2>13, <2>14, <2>18, <3>1
    <3> QED
      BY <1>6, <2>3, <2>8, <3>1, <3>2
  <2>19. i < ci \/ (i = ci /\ k < mk) \/ (i = ci /\ mk <= k) \/ i > ci
    BY <1>12, <2>1, <2>2
  <2> QED
    BY <2>15, <2>16, <2>17, <2>18, <2>19
<1>16. Ordered(nd2)
  BY <1>1, <1>2, <1>14 DEF Ordered
<1>17. Routed(nd2, Idle, level, route)
  <2>1. /\ route \in [Keys -> [0 .. h -> DOMAIN nd2]]
    BY <1>1, <1>2 DEF Routed, h
  <2>2. ASSUME NEW k \in Keys, NEW n \in 0 .. h
        PROVE  level[route[k][n]] = n /\ ~Lost(nd2[route[k][n]])
    <3>1. level[route[k][n]] = n /\ ~Lost(nd[route[k][n]]) /\ route[k][n] \in DOMAIN nd
      BY <1>1, RouteFacts DEF h
    <3>2. ~Lost(nd2[a])
      <4>1. x.items # <<>>
        <5>1. DOMAIN x.items = 1 .. Len(nd[a].items) + 1 /\ Len(nd[a].items) \in Nat
          BY DEF Inserted
        <5>2. 1 \in DOMAIN x.items
          BY <5>1
        <5> QED
          BY <5>2
      <4> QED
        BY <1>2, <4>1 DEF Lost
    <3> QED
      BY <1>2, <3>1, <3>2
  <2>3. \A k \in Keys : route[k][h] = Moved(nd2, Idle, k, Root)
    BY <1>1, <1>4, <1>6 DEF Routed, h
  <2>4. ASSUME NEW k \in Keys, NEW n \in 1 .. h
        PROVE  route[k][n - 1] = Moved(nd2, Idle, k, Child(nd2[route[k][n]], k))
    <3>1. CASE route[k][n] = a
      BY <1>2, <1>6, <1>7, <1>15, <3>1
    <3>2. CASE route[k][n] # a
      <4>1. nd2[route[k][n]] = nd[route[k][n]]
        BY <1>2, <1>7, <3>2
      <4>2. Child(nd[route[k][n]], k) # b
        BY <1>8, <3>2
      <4> QED
        BY <1>6, <1>7, <4>1, <4>2
    <3> QED
      BY <3>1, <3>2
  <2> QED
    BY <2>1, <2>2, <2>3, <2>4 DEF Routed, h
<1>18. Settled(nd2, Idle, level, route)
  <2>1. ASSUME NEW p \in DOMAIN nd2, NEW i \in DOMAIN nd2[p].keys
        PROVE  level[p] <= level[Root] /\ route[nd2[p].keys[i]][level[p]] = p
    <3>1. CASE p = a
      <4>1. nd2[p].keys[i] = mk \/ \E j \in DOMAIN nd[a].keys : nd2[p].keys[i] = nd[a].keys[j]
        BY <1>2, <3>1, InsertedFrom DEF mk
      <4>2. v <= h
        BY <1>5
      <4> QED
        BY <1>1, <1>2, <1>10, <3>1, <4>1, <4>2 DEF Settled, v, h
    <3>2. CASE p # a
      BY <1>1, <1>2, <3>2 DEF Settled
    <3> QED
      BY <3>1, <3>2
  <2> QED
    BY <2>1, IdleIs DEF Settled
<1>19. Stores(nd2, cs, route)
  <2>1. \A k \in Keys : nd2[route[k][0]] = nd[route[k][0]]
    <3> SUFFICES ASSUME NEW k \in Keys PROVE nd2[route[k][0]] = nd[route[k][0]]
      OBVIOUS
    <3>1. 0 \in 0 .. h
      <4>1. h \in Nat
        BY <1>3 DEF h
      <4> QED
        BY <4>1
    <3>2. nd[route[k][0]].leaf /\ route[k][0] \in DOMAIN nd
      BY <1>1, <3>1, RouteFacts DEF h
    <3> QED
      BY <1>2, <1>5, <3>2
  <2> QED
    BY <1>1, <2>1 DEF Stores
<1> QED
  BY <1>1, <1>16, <1>17, <1>18, <1>19 DEF Leads

(* Node n is cut into x and y at its key number m + 1, which a leaf keeps  *)
(* (g = 0) and an inner node gives up (g = 1).                             *)
Cut(n, x, y, m, g, mk) ==
  /\ Parted(n.keys, x.keys, y.keys, m, g) /\ Parted(n.items, x.items, y.items, m + g, 0)
  /\ m >= 1 /\ m + 1 \in DOMAIN n.keys /\ mk = n.keys[m + 1]
  /\ x.leaf = n.leaf /\ y.leaf = n.leaf /\ (g = IF n.leaf THEN 0 ELSE 1)
  /\ ~Lost(x) /\ ~Lost(y)

(* The call o is on its way up from a: its new sibling is r, with key mk.  *)
Pending(nd, o, a, mk, r) ==
  o # Idle /\ o.up # NoSplit /\ o.up.key = mk /\ o.up.page = r /\ Below(nd, o.path) = a

(* From then on the keys from mk on lead to r instead of a.                *)
Rerouted(route, route2, h, D, a, mk, r) ==
  /\ route2 \in [Keys -> [0 .. h -> D]]
  /\ \A k \in Keys : \A n \in 0 .. h :
       route2[k][n] = IF route[k][n] = a /\ mk <= k THEN r ELSE route[k][n]

(* A new leaf comes behind a in the chain of the leaves.                   *)
Linked(C, C2, a, r, leaf) ==
  /\ leaf => \E i \in DOMAIN C : C[i] = a /\ Inserted(C, C2, i, r)
  /\ ~leaf => C2 = C

(* The key at which a node is cut parts its keys.                          *)
LEMMA CutKeys ==
  ASSUME NEW n \in NodeType, Strict(n.keys), NEW x, NEW y, NEW m, NEW g, NEW mk, Cut(n, x, y, m, g, mk)
  PROVE  /\ mk \in Keys /\ mk \in Nat
         /\ \A j \in DOMAIN n.keys : j <= m <=> n.keys[j] < mk
         /\ \A j \in DOMAIN n.keys : j > m <=> mk <= n.keys[j]
         /\ \A j \in DOMAIN x.keys : j \in DOMAIN n.keys /\ x.keys[j] = n.keys[j] /\ x.keys[j] < mk
         /\ \A j \in DOMAIN y.keys : m + g + j \in DOMAIN n.keys /\ y.keys[j] = n.keys[m + g + j] /\ mk <= y.keys[j]
<1>1. m \in Nat /\ g \in Nat /\ DOMAIN n.keys \subseteq Int
  <2>1. m \in Nat /\ g \in Nat /\ DOMAIN n.keys = 1 .. Len(n.keys)
    BY DEF Cut, Parted
  <2> QED
    BY <2>1
<1>2. /\ m + 1 \in DOMAIN n.keys /\ mk = n.keys[m + 1]
      /\ \A j \in DOMAIN n.keys : n.keys[j] \in Keys /\ n.keys[j] \in Nat
  BY PageFields DEF Cut
<1>3. ASSUME NEW j \in DOMAIN n.keys
      PROVE  (j <= m <=> n.keys[j] < mk) /\ (j > m <=> mk <= n.keys[j])
  <2>1. j \in Int /\ n.keys[j] \in Int /\ mk \in Int
    BY <1>1, <1>2
  <2>2. j < m + 1 => n.keys[j] < mk
    BY <1>2 DEF Strict
  <2>3. j > m + 1 => mk < n.keys[j]
    BY <1>1, <1>2, <2>1 DEF Strict
  <2>4. j = m + 1 => n.keys[j] = mk
    BY <1>2
  <2> QED
    BY <1>1, <2>1, <2>2, <2>3, <2>4
<1>4. Parted(n.keys, x.keys, y.keys, m, g)
  BY DEF Cut
<1>5. /\ \A j \in DOMAIN x.keys : j \in DOMAIN n.keys /\ j <= m /\ j \in Int /\ x.keys[j] = n.keys[j]
      /\ \A j \in DOMAIN y.keys : m + g + j \in DOMAIN n.keys /\ j >= 1 /\ j \in Int /\ y.keys[j] = n.keys[m + g + j]
  BY <1>4, PartedFrom
<1>6. \A j \in DOMAIN y.keys : m + g + j > m
  BY <1>1, <1>5
<1> QED
  BY <1>2, <1>3, <1>5, <1>6

(* A search takes the same child before and after the cut of an inner node *)
LEMMA CutChild ==
  ASSUME NEW n \in NodeType, Strict(n.keys), NEW x \in NodeType, NEW y \in NodeType,
         NEW m, NEW mk, Cut(n, x, y, m, 1, mk), NEW k \in Keys,
         ChildIndex(n.keys, k) + 1 \in DOMAIN n.items
  PROVE  Child(IF mk <= k THEN y ELSE x, k) = Child(n, k)
<1> DEFINE i == ChildIndex(n.keys, k)
           N == Len(n.keys)
<1>1. /\ n.keys \in Seq(Nat) /\ x.keys \in Seq(Nat) /\ y.keys \in Seq(Nat) /\ k \in Nat
      /\ N \in Nat /\ DOMAIN n.keys = 1 .. N
      /\ \A j \in DOMAIN n.keys : n.keys[j] \in Nat
  BY PageFields, KeyTypes
<1>2. Between(n.keys, k, i)
  BY <1>1, ChildIndexFinds
<1>3. /\ i \in 0 .. N
      /\ \A j \in DOMAIN n.keys : (j <= i => n.keys[j] <= k) /\ (j > i => k < n.keys[j])
  BY <1>2 DEF Between
<1>4. /\ Parted(n.keys, x.keys, y.keys, m, 1) /\ Parted(n.items, x.items, y.items, m + 1, 0)
      /\ m >= 1 /\ m + 1 \in DOMAIN n.keys /\ mk = n.keys[m + 1]
  BY DEF Cut
<1>5. mk \in Nat
  BY <1>1, <1>4
<1>6. Strict(x.keys) /\ Strict(y.keys)
  BY <1>4, PartedStrict
<1>7. /\ m \in Nat /\ m + 1 <= N
      /\ Len(x.keys) = m /\ DOMAIN x.keys = 1 .. m
      /\ Len(y.keys) = N - (m + 1) /\ DOMAIN y.keys = 1 .. N - (m + 1)
  BY <1>4 DEF Parted
<1>8. /\ \A j \in DOMAIN x.keys : j \in DOMAIN n.keys /\ j <= m /\ j \in Int /\ x.keys[j] = n.keys[j]
      /\ \A j \in DOMAIN y.keys : m + 1 + j \in DOMAIN n.keys /\ j >= 1 /\ j \in Int /\ y.keys[j] = n.keys[m + 1 + j]
  BY <1>4, PartedFrom
<1>9. /\ \A j \in DOMAIN n.items : j <= m + 1 => x.items[j] = n.items[j]
      /\ \A j \in DOMAIN n.items : j > m + 1 + 0 => y.items[j - (m + 1 + 0)] = n.items[j]
  BY <1>4, PartedFrom
<1>10. i + 1 \in DOMAIN n.items /\ Child(n, k) = n.items[i + 1]
  BY DEF Child
<1> HIDE DEF i, N
<1>11. CASE mk <= k
  <2>1. i >= m + 1
    <3>1. ~(m + 1 > i)
      <4>1. mk \in Int /\ k \in Int
        BY <1>1, <1>5
      <4>2. ~(k < mk)
        BY <1>11, <4>1
      <4> QED
        BY <1>3, <1>4, <4>2
    <3> QED
      BY <1>3, <1>7, <3>1
  <2> DEFINE e == i - (m + 1)
  <2>2. e \in 0 .. N - (m + 1) /\ e \in Int /\ i = m + 1 + e
    <3>1. i \in Int /\ i <= N /\ m \in Int /\ N \in Int
      BY <1>1, <1>3, <1>7
    <3> QED
      BY <2>1, <3>1
  <2> HIDE DEF e
  <2>3. ASSUME NEW j \in DOMAIN y.keys PROVE (j <= e => y.keys[j] <= k) /\ (j > e => k < y.keys[j])
    <3>1. m + 1 + j \in DOMAIN n.keys /\ j \in Int /\ y.keys[j] = n.keys[m + 1 + j]
      BY <1>8
    <3>2. (j <= e => m + 1 + j <= i) /\ (j > e => m + 1 + j > i)
      BY <1>7, <2>2, <3>1
    <3> QED
      BY <1>3, <3>1, <3>2
  <2>4. Between(y.keys, k, e)
    BY <1>7, <2>2, <2>3 DEF Between
  <2>5. ChildIndex(y.keys, k) = e
    BY <1>1, <1>6, <2>4, OnePlace
  <2>6. y.items[e + 1] = n.items[i + 1]
    <3>1. i + 1 > m + 1 + 0 /\ (i + 1) - (m + 1 + 0) = e + 1
      BY <1>7, <2>1, <2>2
    <3> QED
      BY <1>9, <1>10, <3>1
  <2> QED
    BY <1>10, <1>11, <2>5, <2>6 DEF Child
<1>12. CASE ~(mk <= k)
  <2>1. i <= m
    <3>1. ~(m + 1 <= i)
      BY <1>3, <1>4, <1>12
    <3> QED
      BY <1>3, <1>7, <3>1
  <2>2. \A j \in DOMAIN x.keys : (j <= i => x.keys[j] <= k) /\ (j > i => k < x.keys[j])
    BY <1>3, <1>8
  <2>3. i \in 0 .. Len(x.keys)
    BY <1>3, <1>7, <2>1
  <2>4. Between(x.keys, k, i)
    BY <2>2, <2>3 DEF Between
  <2>5. ChildIndex(x.keys, k) = i
    BY <1>1, <1>6, <2>4, OnePlace
  <2>6. x.items[i + 1] = n.items[i + 1]
    <3>1. i + 1 <= m + 1
      BY <1>3, <1>7, <2>1
    <3> QED
      BY <1>9, <1>10, <3>1
  <2> QED
    BY <1>10, <1>12, <2>5, <2>6 DEF Child
<1> QED
  BY <1>11, <1>12

(* The chain with a new leaf behind a is still visited in the order of the *)
(* keys.                                                                   *)
LEMMA RisingCut ==
  ASSUME NEW D0, NEW C \in Seq(D0), \A i, j \in DOMAIN C : C[i] = C[j] => i = j,
         NEW route, Rising(C, route), \A k \in Keys : route[k][0] \in D0,
         NEW a, NEW r, r \notin D0, NEW h \in Nat, NEW mk \in Nat, NEW D, NEW route2, Rerouted(route, route2, h, D, a, mk, r),
         NEW i0 \in DOMAIN C, C[i0] = a, NEW C2, Inserted(C, C2, i0, r)
  PROVE  Rising(C2, route2)
<1>1. \A i \in DOMAIN C : C[i] \in D0
  BY Elements
<1>2. i0 \in Int /\ DOMAIN C2 \subseteq Int
  BY DEF Inserted
<1>3. \A k \in Keys : route2[k][0] = IF route[k][0] = a /\ mk <= k THEN r ELSE route[k][0]
  <2>1. 0 \in 0 .. h
    OBVIOUS
  <2> QED
    BY <2>1 DEF Rerouted
<1> DEFINE f(i) == IF i <= i0 THEN i ELSE i - 1
<1>4. ASSUME NEW k \in Keys, NEW i \in DOMAIN C2, C2[i] = route2[k][0]
      PROVE  /\ f(i) \in DOMAIN C /\ C[f(i)] = route[k][0]
             /\ i <= i0 => C2[i] # r
             /\ i = i0 + 1 => mk <= k
  <2>0. i \in Int
    BY <1>2
  <2>1. \/ i \in 1 .. i0 /\ i \in DOMAIN C /\ C2[i] = C[i]
        \/ i = i0 + 1 /\ C2[i] = r
        \/ i - 1 \in i0 + 1 .. Len(C) /\ i - 1 \in DOMAIN C /\ C2[i] = C[i - 1]
    BY InsertedFrom
  <2>2. CASE i \in 1 .. i0 /\ i \in DOMAIN C /\ C2[i] = C[i]
    <3>1. i <= i0 /\ i # i0 + 1 /\ C2[i] # r
      BY <1>1, <1>2, <2>0, <2>2
    <3> QED
      BY <1>3, <1>4, <2>2, <3>1
  <2>3. CASE i = i0 + 1 /\ C2[i] = r
    <3>1. ~(i <= i0) /\ i - 1 = i0
      BY <1>2, <2>3
    <3>2. route[k][0] = a /\ mk <= k
      BY <1>3, <1>4, <2>3
    <3> QED
      BY <3>1, <3>2
  <2>4. CASE i - 1 \in i0 + 1 .. Len(C) /\ i - 1 \in DOMAIN C /\ C2[i] = C[i - 1]
    <3>1. ~(i <= i0) /\ i # i0 + 1
      BY <1>2, <2>0, <2>4
    <3>2. C2[i] # r
      BY <1>1, <2>4
    <3> QED
      BY <1>3, <1>4, <2>4, <3>1, <3>2
  <2> QED
    BY <2>1, <2>2, <2>3, <2>4
<1>5. ASSUME NEW k \in Keys, NEW m \in Keys, NEW i \in DOMAIN C2, NEW j \in DOMAIN C2,
             k < m, C2[i] = route2[k][0], C2[j] = route2[m][0]
      PROVE  i <= j
  <2>0. i \in Int /\ j \in Int
    BY <1>2
  <2>1. f(i) \in DOMAIN C /\ C[f(i)] = route[k][0] /\ (i = i0 + 1 => mk <= k)
    BY <1>4, <1>5
  <2>2. f(j) \in DOMAIN C /\ C[f(j)] = route[m][0] /\ (j <= i0 => C2[j] # r)
    BY <1>4, <1>5
  <2>3. f(i) <= f(j)
    <3> HIDE DEF f
    <3> QED
      BY <1>5, <2>1, <2>2 DEF Rising
  <2>4. ~(i = i0 + 1 /\ j = i0)
    <3> SUFFICES ASSUME i = i0 + 1, j = i0 PROVE FALSE
      OBVIOUS
    <3>1. mk <= m
      <4>1. k \in Int /\ m \in Int /\ mk <= k
        BY <2>1, KeyTypes
      <4> QED
        BY <1>5, <4>1
    <3>2. j <= i0 /\ f(j) = i0
      BY <1>2
    <3>3. route[m][0] = a
      BY <2>2, <3>2
    <3>4. C2[j] = r
      BY <1>3, <1>5, <3>1, <3>3
    <3> QED
      BY <2>2, <3>2, <3>4
  <2> QED
    BY <1>2, <2>0, <2>3, <2>4
<1> QED
  BY <1>5 DEF Rising

(* After a split every key leads where it led, or to the new sibling.      *)
LEMMA LeadsCut ==
  ASSUME NEW nd, NEW level, NEW C, NEW L, Frame(nd, level, C, L),
         NEW cs, NEW route, Leads(nd, Idle, cs, level, C, route),
         NEW nd2, NEW a, NEW x, NEW r, NEW y, Grown(nd, nd2, a, x, r, y),
         NEW m, NEW g, NEW mk, Cut(nd[a], x, y, m, g, mk),
         NEW o, Pending(nd2, o, a, mk, r),
         NEW level2, LevelAdded(level, level2, DOMAIN nd, r, level[a]),
         NEW C2, Linked(C, C2, a, r, nd[a].leaf),
         NEW route2, Rerouted(route, route2, level[Root], DOMAIN nd2, a, mk, r)
  PROVE  Leads(nd2, o, cs, level2, C2, route2)
<1> DEFINE h == level[Root]
           n1 == nd[a]
<1>1. /\ Pages(nd) /\ Levelled(nd, level) /\ Chained(nd, C)
      /\ Ordered(nd) /\ Routed(nd, Idle, level, route) /\ Settled(nd, Idle, level, route)
      /\ Stores(nd, cs, route) /\ Rising(C, route)
  BY DEF Frame, Leads
<1>2. /\ a \in DOMAIN nd /\ r \notin DOMAIN nd /\ r # Root
      /\ DOMAIN nd2 = DOMAIN nd \cup {r} /\ nd2[a] = x /\ nd2[r] = y
      /\ \A p \in DOMAIN nd : p # a => nd2[p] = nd[p]
      /\ x \in NodeType /\ y \in NodeType
  BY DEF Grown
<1>3. /\ Root \in DOMAIN nd /\ level \in [DOMAIN nd -> Nat] /\ h \in Nat
      /\ level2 \in [DOMAIN nd2 -> Nat] /\ level2[r] = level[a] /\ \A p \in DOMAIN nd : level2[p] = level[p]
  <2>1. Root \in DOMAIN nd /\ level \in [DOMAIN nd -> Nat] /\ h \in Nat
    BY <1>1 DEF Pages, Levelled
  <2> QED
    BY <1>2, <2>1 DEF LevelAdded
<1>4. n1 \in NodeType /\ Strict(n1.keys)
  <2>1. nd \in Seq(NodeType)
    BY <1>1 DEF Pages
  <2>2. n1 \in NodeType
    BY <1>2, <2>1, Elements
  <2> QED
    BY <1>1, <1>2, <2>2 DEF Ordered
<1>5. /\ mk \in Keys /\ mk \in Nat
      /\ \A j \in DOMAIN n1.keys : j <= m <=> n1.keys[j] < mk
      /\ \A j \in DOMAIN n1.keys : j > m <=> mk <= n1.keys[j]
      /\ \A j \in DOMAIN x.keys : j \in DOMAIN n1.keys /\ x.keys[j] = n1.keys[j] /\ x.keys[j] < mk
      /\ \A j \in DOMAIN y.keys : m + g + j \in DOMAIN n1.keys /\ y.keys[j] = n1.keys[m + g + j] /\ mk <= y.keys[j]
  BY <1>4, CutKeys
<1>6. /\ m \in Nat /\ g \in Nat /\ m >= 1 /\ m + 1 \in DOMAIN n1.keys /\ mk = n1.keys[m + 1]
      /\ x.leaf = n1.leaf /\ y.leaf = n1.leaf /\ (g = IF n1.leaf THEN 0 ELSE 1)
      /\ ~Lost(x) /\ ~Lost(y)
  BY DEF Cut, Parted
<1>7. \A k \in Keys : k \in Nat
  BY KeyTypes
<1>8. /\ route2 \in [Keys -> [0 .. h -> DOMAIN nd2]]
      /\ \A k \in Keys : \A n \in 0 .. h :
           route2[k][n] = IF route[k][n] = a /\ mk <= k THEN r ELSE route[k][n]
  BY DEF Rerouted
<1>9. \A k, p : /\ Moved(nd, Idle, k, p) = p
                /\ Moved(nd2, o, k, p) = IF p = a /\ mk <= k THEN r ELSE p
  <2>1. \A k, p : Moved(nd, Idle, k, p) = p
    BY MovedNot, IdleIs
  <2> QED
    BY <2>1 DEF Moved, Pending
(* Every key of the node led to it.                                        *)
<1>10. level[a] <= h /\ \A j \in DOMAIN n1.keys : route[n1.keys[j]][level[a]] = a /\ n1.keys[j] \in Keys
  <2>1. \A j \in DOMAIN n1.keys : level[a] <= h /\ route[n1.keys[j]][level[a]] = a
    BY <1>1, <1>2 DEF Settled
  <2>2. \A j \in DOMAIN n1.keys : n1.keys[j] \in Keys
    BY <1>4, PageFields
  <2> QED
    BY <1>6, <2>1, <2>2
<1>11. level[a] \in 0 .. h
  BY <1>2, <1>3, <1>10
<1>19. \A e \in Keys : e < mk <=> ~(mk <= e)
  <2>1. mk \in Int
    BY <1>5
  <2> QED
    BY <1>7, <2>1
<1> HIDE DEF h, n1
<1>20. 0 \in 0 .. h
  <2>1. h \in Nat
    BY <1>3 DEF h
  <2> QED
    BY <2>1
<1>12. Ordered(nd2)
  <2>1. Strict(x.keys) /\ Strict(y.keys)
    <3>1. Parted(n1.keys, x.keys, y.keys, m, g)
      BY DEF Cut, n1
    <3> QED
      BY <1>4, <3>1, PartedStrict
  <2> QED
    BY <1>1, <1>2, <2>1 DEF Ordered
<1>13. \A k \in Keys : \A n \in 0 .. h :
         route[k][n] \in DOMAIN nd /\ level[route[k][n]] = n /\ ~Lost(nd[route[k][n]])
  BY <1>1, RouteFacts DEF h
<1>14. Routed(nd2, o, level2, route2)
  <2>1. ASSUME NEW k \in Keys, NEW n \in 0 .. h
        PROVE  level2[route2[k][n]] = n /\ ~Lost(nd2[route2[k][n]])
    <3>1. route[k][n] \in DOMAIN nd /\ level[route[k][n]] = n /\ ~Lost(nd[route[k][n]])
      BY <1>13
    <3>2. CASE route[k][n] = a /\ mk <= k
      BY <1>2, <1>3, <1>6, <1>8, <3>1, <3>2
    <3>3. CASE ~(route[k][n] = a /\ mk <= k)
      <4>1. route2[k][n] = route[k][n]
        BY <1>8, <3>3
      <4> QED
        BY <1>2, <1>3, <1>6, <3>1, <4>1
    <3> QED
      BY <3>2, <3>3
  <2>2. ASSUME NEW k \in Keys PROVE route2[k][h] = Moved(nd2, o, k, Root)
    <3>1. route[k][h] = Root /\ h \in 0 .. h
      BY <1>1, <1>3, <1>9 DEF Routed, h
    <3> QED
      BY <1>8, <1>9, <3>1
  <2>3. ASSUME NEW k \in Keys, NEW n \in 1 .. h
        PROVE  route2[k][n - 1] = Moved(nd2, o, k, Child(nd2[route2[k][n]], k))
    <3> DEFINE p == route[k][n]
    <3>1. /\ n \in 0 .. h /\ n - 1 \in 0 .. h /\ p \in DOMAIN nd /\ ~nd[p].leaf
          /\ ChildIndex(nd[p].keys, k) + 1 \in DOMAIN nd[p].items
          /\ route[k][n - 1] = Child(nd[p], k)
      BY <1>1, <1>9, RouteFacts DEF h
    <3>2. Child(nd2[route2[k][n]], k) = Child(nd[p], k)
      <4>1. CASE p = a
        <5>1. g = 1
          BY <1>6, <3>1, <4>1 DEF n1
        <5>2. Cut(n1, x, y, m, 1, mk) /\ ChildIndex(n1.keys, k) + 1 \in DOMAIN n1.items
          BY <3>1, <4>1, <5>1 DEF n1
        <5>3. Child(IF mk <= k THEN y ELSE x, k) = Child(n1, k)
          BY <1>2, <1>4, <5>2, CutChild
        <5>4. route2[k][n] = IF mk <= k THEN r ELSE a
          BY <1>8, <3>1, <4>1
        <5>5. nd2[route2[k][n]] = IF mk <= k THEN y ELSE x
          BY <1>2, <5>4
        <5> QED
          BY <4>1, <5>3, <5>5 DEF n1
      <4>2. CASE p # a
        <5>1. route2[k][n] = p
          BY <1>8, <3>1, <4>2
        <5> QED
          BY <1>2, <3>1, <4>2, <5>1
      <4> QED
        BY <4>1, <4>2
    <3> HIDE DEF p
    <3>3. Moved(nd2, o, k, Child(nd[p], k)) = IF Child(nd[p], k) = a /\ mk <= k THEN r ELSE Child(nd[p], k)
      BY <1>9
    <3>4. route2[k][n - 1] = IF route[k][n - 1] = a /\ mk <= k THEN r ELSE route[k][n - 1]
      BY <1>8, <3>1
    <3> QED
      BY <3>1, <3>2, <3>3, <3>4
  <2>4. level2[Root] = h
    BY <1>3 DEF h
  <2> QED
    BY <1>8, <2>1, <2>2, <2>3, <2>4 DEF Routed
<1>15. Settled(nd2, o, level2, route2)
  <2>0. level2[Root] = h
    BY <1>3 DEF h
  <2>1. ASSUME NEW p \in DOMAIN nd2, NEW i \in DOMAIN nd2[p].keys
        PROVE  level2[p] <= h /\ route2[nd2[p].keys[i]][level2[p]] = p
    <3>1. CASE p = r
      <4>1. /\ nd2[p].keys[i] \in Keys /\ route[nd2[p].keys[i]][level[a]] = a /\ mk <= nd2[p].keys[i]
        BY <1>2, <1>5, <1>10, <2>1, <3>1
      <4> QED
        BY <1>3, <1>8, <1>10, <1>11, <3>1, <4>1
    <3>2. CASE p = a
      <4>1. /\ nd2[p].keys[i] \in Keys /\ route[nd2[p].keys[i]][level[a]] = a /\ nd2[p].keys[i] < mk
        BY <1>2, <1>5, <1>10, <2>1, <3>2
      <4>2. ~(mk <= nd2[p].keys[i])
        BY <1>19, <4>1
      <4>3. level2[p] = level[a] /\ level2[p] <= h
        BY <1>2, <1>3, <1>10, <3>2
      <4> QED
        BY <1>8, <1>11, <3>2, <4>1, <4>2, <4>3
    <3>3. CASE p # r /\ p # a
      <4>1. p \in DOMAIN nd /\ nd2[p] = nd[p]
        BY <1>2, <3>3
      <4>2. level[p] <= h /\ route[nd[p].keys[i]][level[p]] = p
        BY <1>1, <2>1, <4>1 DEF Settled, h
      <4>3. nd[p].keys[i] \in Keys
        <5>1. nd \in Seq(NodeType)
          BY <1>1 DEF Pages
        <5>2. nd[p] \in NodeType
          BY <4>1, <5>1, Elements
        <5> QED
          BY <2>1, <4>1, <5>2, PageFields
      <4>4. level[p] \in 0 .. h /\ level2[p] = level[p]
        BY <1>3, <4>1, <4>2
      <4> QED
        BY <1>8, <3>3, <4>1, <4>2, <4>3, <4>4
    <3> QED
      BY <3>1, <3>2, <3>3
  <2>2. route2[mk][level2[r]] = r
    <3>1. route[mk][level[a]] = a
      BY <1>6, <1>10
    <3>2. mk <= mk
      BY <1>5
    <3> QED
      BY <1>3, <1>5, <1>8, <1>11, <3>1, <3>2
  <2>3. \E w \in Keys : w < mk /\ route2[w][level2[r]] = a
    <3>1. m \in DOMAIN n1.keys /\ m <= m
      <4>1. DOMAIN n1.keys = 1 .. Len(n1.keys) /\ Len(n1.keys) \in Nat
        BY <1>4, PageFields
      <4> QED
        BY <1>6, <4>1
    <3>2. n1.keys[m] \in Keys /\ n1.keys[m] < mk /\ route[n1.keys[m]][level[a]] = a
      BY <1>5, <1>10, <3>1
    <3>3. ~(mk <= n1.keys[m])
      BY <1>19, <3>2
    <3>4. route2[n1.keys[m]][level2[r]] = a
      BY <1>3, <1>8, <1>11, <3>2, <3>3
    <3> QED
      BY <3>2, <3>4
  <2>4. o.up # NoSplit /\ o.up.key = mk /\ o.up.page = r /\ Below(nd2, o.path) = a
    BY DEF Pending
  <2> QED
    BY <2>0, <2>1, <2>2, <2>3, <2>4 DEF Settled
<1>16. Stores(nd2, cs, route2)
  <2>1. ASSUME NEW k \in Keys
        PROVE  LET n == nd2[route2[k][0]]
               IN  /\ cs[k] = NoVal => ~Has(n, k)
                   /\ cs[k] # NoVal => \E i \in DOMAIN n.keys : n.keys[i] = k /\ n.items[i] = cs[k]
    <3>1. 0 \in 0 .. h
      BY <1>20
    <3>2. /\ cs[k] = NoVal => ~Has(nd[route[k][0]], k)
          /\ cs[k] # NoVal => \E i \in DOMAIN nd[route[k][0]].keys :
                                nd[route[k][0]].keys[i] = k /\ nd[route[k][0]].items[i] = cs[k]
      BY <1>1 DEF Stores
    <3>3. route[k][0] \in DOMAIN nd /\ nd[route[k][0]].leaf
      BY <1>1, <1>13, <3>1, RouteFacts
    <3>4. CASE route[k][0] # a
      <4>1. route2[k][0] = route[k][0]
        BY <1>8, <3>1, <3>4
      <4> QED
        BY <1>2, <3>2, <3>3, <3>4, <4>1
    <3>5. CASE route[k][0] = a
      <4>0. g = 0 /\ n1.leaf
        BY <1>6, <3>3, <3>5 DEF n1
      <4>1. /\ cs[k] = NoVal => ~Has(n1, k)
            /\ cs[k] # NoVal => \E i \in DOMAIN n1.keys : n1.keys[i] = k /\ n1.items[i] = cs[k]
        BY <3>2, <3>5 DEF n1
      <4>2. Parted(n1.keys, x.keys, y.keys, m, 0) /\ Parted(n1.items, x.items, y.items, m, 0)
        <5>1. m + 0 = m
          BY <1>6
        <5> QED
          BY <4>0, <5>1 DEF Cut, n1
      <4>3. DOMAIN n1.items = DOMAIN n1.keys /\ m + 0 = m
        <5>1. Shaped(nd, n1)
          BY <1>1, <1>2 DEF Pages, n1
        <5>2. Len(n1.items) = Len(n1.keys)
          BY <4>0, <5>1 DEF Shaped
        <5>3. DOMAIN n1.items = 1 .. Len(n1.items) /\ DOMAIN n1.keys = 1 .. Len(n1.keys)
          BY <1>4, PageFields
        <5> QED
          BY <1>6, <5>2, <5>3
      <4>4. CASE mk <= k
        <5>1. nd2[route2[k][0]] = y
          BY <1>2, <1>8, <3>1, <3>5, <4>4
        <5>2. Has(y, k) => Has(n1, k)
          BY <1>5 DEF Has
        <5>3. ASSUME NEW i \in DOMAIN n1.keys, n1.keys[i] = k, n1.items[i] = cs[k]
              PROVE  \E j \in DOMAIN y.keys : y.keys[j] = k /\ y.items[j] = cs[k]
          <6>1. i > m
            BY <1>5, <4>4, <5>3
          <6>2. i - (m + 0) \in DOMAIN y.keys /\ y.keys[i - (m + 0)] = n1.keys[i]
            BY <4>2, <4>3, <6>1, PartedFrom
          <6>3. y.items[i - (m + 0)] = n1.items[i]
            BY <4>2, <4>3, <6>1, PartedFrom
          <6> QED
            BY <5>3, <6>2, <6>3
        <5> QED
          BY <4>1, <5>1, <5>2, <5>3
      <4>5. CASE ~(mk <= k)
        <5>1. nd2[route2[k][0]] = x
          BY <1>2, <1>8, <3>1, <3>5, <4>5
        <5>2. Has(x, k) => Has(n1, k)
          BY <1>5 DEF Has
        <5>3. ASSUME NEW i \in DOMAIN n1.keys, n1.keys[i] = k, n1.items[i] = cs[k]
              PROVE  \E j \in DOMAIN x.keys : x.keys[j] = k /\ x.items[j] = cs[k]
          <6>1. i <= m
            <7>1. k < mk
              BY <1>5, <1>7, <4>5
            <7> QED
              BY <1>5, <5>3, <7>1
          <6>2. i \in DOMAIN x.keys /\ x.keys[i] = n1.keys[i]
            BY <4>2, <6>1, PartedFrom
          <6>3. x.items[i] = n1.items[i]
            BY <4>2, <4>3, <6>1, PartedFrom
          <6> QED
            BY <5>3, <6>2, <6>3
        <5> QED
          BY <4>1, <5>1, <5>2, <5>3
      <4> QED
        BY <4>4, <4>5
    <3> QED
      BY <3>4, <3>5
  <2> QED
    BY <2>1 DEF Stores
<1>17. Rising(C2, route2)
  <2>1. CASE n1.leaf
    <3>1. PICK i0 \in DOMAIN C : C[i0] = a /\ Inserted(C, C2, i0, r)
      BY <2>1 DEF Linked, n1
    <3>2. C \in Seq(DOMAIN nd) /\ \A i, j \in DOMAIN C : C[i] = C[j] => i = j
      BY <1>1 DEF Chained
    <3>3. \A k \in Keys : route[k][0] \in DOMAIN nd
      <4> QED
        BY <1>13, <1>20
    <3>4. Rerouted(route, route2, h, DOMAIN nd2, a, mk, r) /\ h \in Nat
      BY <1>3 DEF h
    <3> QED
      BY <1>1, <1>2, <1>5, <3>1, <3>2, <3>3, <3>4, RisingCut
  <2>2. CASE ~n1.leaf
    <3>1. C2 = C
      BY <2>2 DEF Linked, n1
    <3>2. \A k \in Keys : route2[k][0] = route[k][0]
      <4> SUFFICES ASSUME NEW k \in Keys PROVE route2[k][0] = route[k][0]
        OBVIOUS
      <4>1. nd[route[k][0]].leaf /\ 0 \in 0 .. h
        BY <1>1, <1>20, RouteFacts
      <4>2. route[k][0] # a
        BY <2>2, <4>1 DEF n1
      <4> QED
        BY <1>8, <4>1, <4>2
    <3> QED
      BY <1>1, <3>1, <3>2 DEF Rising
  <2> QED
    BY <2>1, <2>2
<1> QED
  BY <1>12, <1>14, <1>15, <1>16, <1>17 DEF Leads

(* The root moves to r: every route has a step more, and leads to r where  *)
(* it led to the root.                                                     *)
Climbing(route, route2, h, D, r) ==
  /\ route2 \in [Keys -> [0 .. h + 1 -> D]]
  /\ \A k \in Keys : route2[k][h + 1] = Root
  /\ \A k \in Keys : \A n \in 0 .. h : route2[k][n] = IF route[k][n] = Root THEN r ELSE route[k][n]

(* A root with one key: what is smaller leads to the left.                 *)
LEMMA OneKey ==
  ASSUME NEW keys \in Seq(Nat), Len(keys) = 1, NEW k \in Nat
  PROVE  Strict(keys) /\ ChildIndex(keys, k) = IF keys[1] <= k THEN 1 ELSE 0
<1>1. DOMAIN keys = {1} /\ keys[1] \in Nat
  <2>1. DOMAIN keys = 1 .. 1 /\ \A i \in DOMAIN keys : keys[i] \in Nat
    BY Elements
  <2>2. 1 .. 1 = {1}
    OBVIOUS
  <2> QED
    BY <2>1, <2>2
<1>2. Strict(keys)
  BY <1>1 DEF Strict
<1>3. Between(keys, k, IF keys[1] <= k THEN 1 ELSE 0)
  BY <1>1 DEF Between
<1> QED
  BY <1>2, <1>3, OnePlace

(* After the split of the root every key leads where it led.               *)
LEMMA LeadsRoot ==
  ASSUME NEW nd, NEW level, NEW C, NEW L, Frame(nd, level, C, L),
         NEW o, o # Idle, o.up # NoSplit, Calls(nd, level, o), o.path = <<>>,
         NEW cs, NEW route, Leads(nd, o, cs, level, C, route),
         NEW nd2, NEW x, NEW r, Grown(nd, nd2, Root, x, r, nd[Root]),
         ~x.leaf, Len(x.keys) = 1, x.keys[1] = o.up.key, DOMAIN x.items = {1, 2}, x.items[1] = r, x.items[2] = o.up.page,
         NEW level2, Raised(level, level2, DOMAIN nd, r),
         NEW D, Renamed(C, D, r),
         NEW route2, Climbing(route, route2, level[Root], DOMAIN nd2, r)
  PROVE  Leads(nd2, Idle, cs, level2, D, route2)
<1> DEFINE h == level[Root]
           q == o.up.page
           mk == o.up.key
           Ren(p) == IF p = Root THEN r ELSE p
<1>1. /\ Pages(nd) /\ Levelled(nd, level) /\ OneParent(nd) /\ Chained(nd, C)
      /\ Ordered(nd) /\ Routed(nd, o, level, route) /\ Settled(nd, o, level, route)
      /\ Stores(nd, cs, route) /\ Rising(C, route)
  BY DEF Frame, Leads
<1>2. /\ r \notin DOMAIN nd /\ r # Root /\ Root \in DOMAIN nd
      /\ DOMAIN nd2 = DOMAIN nd \cup {r} /\ nd2[Root] = x /\ nd2[r] = nd[Root]
      /\ \A p \in DOMAIN nd : p # Root => nd2[p] = nd[p]
      /\ x \in NodeType
  BY DEF Grown
<1>3. /\ level \in [DOMAIN nd -> Nat] /\ h \in Nat
      /\ level2 \in [DOMAIN nd2 -> Nat] /\ level2[r] = h /\ level2[Root] = h + 1
      /\ \A p \in DOMAIN nd : p # Root => level2[p] = level[p]
  <2>1. level \in [DOMAIN nd -> Nat] /\ h \in Nat
    BY <1>1, <1>2 DEF Levelled
  <2> QED
    BY <1>2, <2>1 DEF Raised
<1>4. /\ mk \in Keys /\ q \in DOMAIN nd /\ q # Root /\ Orphan(nd, q) /\ Orphan(nd, Root)
      /\ ~Lost(nd[Root]) /\ ~Lost(x) /\ Below(nd, o.path) = Root
  <2>1. Below(nd, o.path) = Root
    BY DEF Below
  <2>2. x.items # <<>>
    OBVIOUS
  <2> QED
    BY <1>1, <2>1, <2>2 DEF Calls, OneParent, Lost
<1>5. /\ route2 \in [Keys -> [0 .. h + 1 -> DOMAIN nd2]]
      /\ \A k \in Keys : route2[k][h + 1] = Root
      /\ \A k \in Keys : \A n \in 0 .. h : route2[k][n] = Ren(route[k][n])
  BY DEF Climbing
<1>6. \A k, p : /\ Moved(nd2, Idle, k, p) = p
                /\ Moved(nd, o, k, p) = IF p = Root /\ mk <= k THEN q ELSE p
  <2>1. \A k, p : Moved(nd2, Idle, k, p) = p
    BY MovedNot, IdleIs
  <2> QED
    BY <1>4, <2>1 DEF Moved
<1>7. x.keys \in Seq(Nat) /\ x.keys[1] = mk /\ mk \in Nat
  BY <1>2, <1>4, PageFields, KeyTypes
<1>8. x.items[1] = r /\ x.items[2] = q /\ Len(x.keys) = 1
  OBVIOUS
<1> HIDE DEF h, q, mk
<1>9. 0 \in 0 .. h /\ h + 1 \in 0 .. h + 1 /\ \A n \in 0 .. h : n \in 0 .. h + 1 /\ n # h + 1 /\ n \in Int
  <2>1. h \in Nat
    BY <1>3
  <2> QED
    BY <2>1
<1>10. \A k \in Keys : \A n \in 0 .. h :
         /\ route[k][n] \in DOMAIN nd /\ level[route[k][n]] = n /\ ~Lost(nd[route[k][n]])
         /\ route2[k][n] = Ren(route[k][n]) /\ nd2[route2[k][n]] = nd[route[k][n]]
  <2> SUFFICES ASSUME NEW k \in Keys, NEW n \in 0 .. h
               PROVE  /\ route[k][n] \in DOMAIN nd /\ level[route[k][n]] = n /\ ~Lost(nd[route[k][n]])
                      /\ route2[k][n] = Ren(route[k][n]) /\ nd2[route2[k][n]] = nd[route[k][n]]
    OBVIOUS
  <2>1. route[k][n] \in DOMAIN nd /\ level[route[k][n]] = n /\ ~Lost(nd[route[k][n]])
    BY <1>1, RouteFacts DEF h
  <2> QED
    BY <1>2, <1>5, <2>1
<1>11. Ordered(nd2)
  <2>1. Strict(x.keys)
    BY <1>7, <1>8, OneKey
  <2> QED
    BY <1>1, <1>2, <2>1 DEF Ordered
<1>12. Routed(nd2, Idle, level2, route2)
  <2>1. ASSUME NEW k \in Keys, NEW n \in 0 .. h + 1
        PROVE  level2[route2[k][n]] = n /\ ~Lost(nd2[route2[k][n]])
    <3>1. CASE n = h + 1
      BY <1>2, <1>3, <1>4, <1>5, <3>1
    <3>2. CASE n # h + 1
      <4>1. n \in 0 .. h
        <5>1. h \in Nat
          BY <1>3
        <5> QED
          BY <3>2, <5>1
      <4>2. route[k][n] \in DOMAIN nd /\ level[route[k][n]] = n /\ ~Lost(nd2[route2[k][n]])
            /\ route2[k][n] = Ren(route[k][n])
        BY <1>10, <4>1
      <4>3. level2[Ren(route[k][n])] = level[route[k][n]]
        BY <1>3, <4>2 DEF h
      <4> QED
        BY <4>2, <4>3
    <3> QED
      BY <3>1, <3>2
  <2>2. \A k \in Keys : route2[k][h + 1] = Moved(nd2, Idle, k, Root)
    BY <1>5, <1>6
  <2>3. ASSUME NEW k \in Keys, NEW n \in 1 .. h + 1
        PROVE  route2[k][n - 1] = Moved(nd2, Idle, k, Child(nd2[route2[k][n]], k))
    <3>0. h \in Nat
      BY <1>3
    <3>1. CASE n = h + 1
      <4>1. n - 1 = h /\ h \in 0 .. h
        BY <3>0, <3>1
      <4>2. route2[k][h] = Ren(IF mk <= k THEN q ELSE Root)
        <5>1. route[k][h] = Moved(nd, o, k, Root)
          BY <1>1, RouteFacts DEF h
        <5> QED
          BY <1>5, <1>6, <4>1, <5>1
      <4>3. Child(x, k) = IF mk <= k THEN q ELSE r
        <5>1. k \in Nat
          BY KeyTypes
        <5>2. ChildIndex(x.keys, k) = IF mk <= k THEN 1 ELSE 0
          BY <1>7, <1>8, <5>1, OneKey
        <5>3. 0 + 1 = 1 /\ 1 + 1 = 2
          OBVIOUS
        <5> QED
          BY <1>8, <5>2, <5>3 DEF Child
      <4>4. nd2[route2[k][n]] = x
        BY <1>2, <1>5, <3>1
      <4> QED
        BY <1>4, <1>6, <4>1, <4>2, <4>3, <4>4
    <3>2. CASE n # h + 1
      <4>1. n \in 1 .. h
        BY <3>0, <3>2
      <4>2. /\ n \in 0 .. h /\ n - 1 \in 0 .. h
            /\ route[k][n] \in DOMAIN nd /\ ~nd[route[k][n]].leaf
            /\ ChildIndex(nd[route[k][n]].keys, k) + 1 \in DOMAIN nd[route[k][n]].items
            /\ Child(nd[route[k][n]], k) = nd[route[k][n]].items[ChildIndex(nd[route[k][n]].keys, k) + 1]
            /\ route[k][n - 1] = Moved(nd, o, k, Child(nd[route[k][n]], k))
        BY <1>1, <4>1, RouteFacts DEF h
      <4>3. Child(nd[route[k][n]], k) # Root
        BY <1>4, <4>2 DEF Orphan
      <4>4. route[k][n - 1] = Child(nd[route[k][n]], k)
        BY <1>6, <4>2, <4>3
      <4>5. route2[k][n - 1] = Child(nd[route[k][n]], k)
        BY <1>5, <4>2, <4>3, <4>4
      <4> QED
        BY <1>6, <1>10, <4>2, <4>5
    <3> QED
      BY <3>1, <3>2
  <2>4. level2[Root] = h + 1
    BY <1>3
  <2> QED
    BY <1>5, <2>1, <2>2, <2>3, <2>4 DEF Routed
<1>13. Settled(nd2, Idle, level2, route2)
  <2>1. ASSUME NEW p \in DOMAIN nd2, NEW i \in DOMAIN nd2[p].keys
        PROVE  level2[p] <= level2[Root] /\ route2[nd2[p].keys[i]][level2[p]] = p
    <3>0. h \in Nat
      BY <1>3
    <3>1. CASE p = Root
      <4>1. i = 1
        <5>1. DOMAIN x.keys = 1 .. 1
          BY <1>7, <1>8
        <5> QED
          BY <1>2, <2>1, <3>1, <5>1
      <4>2. nd2[p].keys[i] = mk
        BY <1>2, <1>7, <3>1, <4>1
      <4>3. level2[p] <= level2[Root]
        BY <1>3, <3>0, <3>1
      <4> QED
        BY <1>3, <1>4, <1>5, <3>1, <4>2, <4>3
    <3>2. CASE p # Root
      <4> DEFINE s == IF p = r THEN Root ELSE p
      <4>1. s \in DOMAIN nd /\ nd2[p] = nd[s] /\ level2[p] = level[s] /\ Ren(s) = p
        BY <1>2, <1>3, <3>2 DEF h
      <4> HIDE DEF s
      <4>2. level[s] <= h /\ route[nd[s].keys[i]][level[s]] = s
        BY <1>1, <2>1, <4>1 DEF Settled, h
      <4>3. nd[s].keys[i] \in Keys
        <5>1. nd \in Seq(NodeType)
          BY <1>1 DEF Pages
        <5>2. nd[s] \in NodeType
          BY <4>1, <5>1, Elements
        <5> QED
          BY <2>1, <4>1, <5>2, PageFields
      <4>4. level[s] \in Nat /\ level[s] \in 0 .. h
        <5>1. level[s] \in Nat
          BY <1>3, <4>1
        <5> QED
          BY <3>0, <4>2, <5>1
      <4>5. route2[nd[s].keys[i]][level[s]] = Ren(s)
        BY <1>5, <4>2, <4>3, <4>4
      <4>6. level2[p] <= level2[Root]
        <5>1. level2[p] <= h /\ level2[p] \in Nat
          BY <4>1, <4>2, <4>4
        <5> QED
          BY <1>3, <3>0, <5>1
      <4> QED
        BY <4>1, <4>5, <4>6
    <3> QED
      BY <3>1, <3>2
  <2> QED
    BY <2>1, IdleIs DEF Settled
<1>14. Stores(nd2, cs, route2)
  <2>1. \A k \in Keys : nd2[route2[k][0]] = nd[route[k][0]]
    BY <1>9, <1>10
  <2> QED
    BY <1>1, <2>1 DEF Stores
<1>15. Rising(D, route2)
  <2>1. DOMAIN D = DOMAIN C /\ \A i \in DOMAIN C : D[i] = Ren(C[i])
    BY DEF Renamed
  <2>2. \A i \in DOMAIN C : C[i] \in DOMAIN nd
    BY <1>1, Elements DEF Chained
  <2>3. \A k \in Keys : \A i \in DOMAIN D : D[i] = route2[k][0] => C[i] = route[k][0]
    BY <1>2, <1>9, <1>10, <2>1, <2>2
  <2> QED
    BY <1>1, <2>1, <2>3 DEF Rising
<1> QED
  BY <1>11, <1>12, <1>13, <1>14, <1>15 DEF Leads

(* A call that gives up on its way down, or finds nothing to do, leaves    *)
(* every key where it was, and so does a lost page.                        *)
LEMMA LeadsIdle ==
  ASSUME NEW nd, NEW level, NEW o, o.up = NoSplit, NEW cs, NEW C, NEW route, Leads(nd, o, cs, level, C, route)
  PROVE  Leads(nd, Idle, cs, level, C, route)
<1>1. \A k, p : Moved(nd, o, k, p) = Moved(nd, Idle, k, p)
  BY MovedNot, IdleIs
<1>2. Routed(nd, Idle, level, route)
  BY <1>1 DEF Leads, Routed
<1>3. Settled(nd, Idle, level, route)
  BY IdleIs DEF Leads, Settled
<1> QED
  BY <1>2, <1>3 DEF Leads

(* A page that a failure loses changes no route.                           *)
LEMMA LeadsLost ==
  ASSUME NEW nd, NEW level, NEW C, NEW L, Frame(nd, level, C, L),
         NEW cs, NEW route, Leads(nd, Idle, cs, level, C, route),
         NEW nd2, NEW r, Grown(nd, nd2, Root, nd[Root], r, ZeroedPage),
         NEW level2, LevelAdded(level, level2, DOMAIN nd, r, 1)
  PROVE  Leads(nd2, Idle, cs, level2, C, route)
<1>1. /\ Pages(nd) /\ Levelled(nd, level)
      /\ Ordered(nd) /\ Routed(nd, Idle, level, route) /\ Settled(nd, Idle, level, route)
      /\ Stores(nd, cs, route) /\ Rising(C, route)
  BY DEF Frame, Leads
<1>2. /\ r \notin DOMAIN nd /\ DOMAIN nd2 = DOMAIN nd \cup {r} /\ nd2[r] = ZeroedPage /\ Root \in DOMAIN nd
      /\ \A p \in DOMAIN nd : nd2[p] = nd[p]
  BY DEF Grown
<1>3. \A p \in DOMAIN nd : level2[p] = level[p]
  BY DEF LevelAdded
<1>4. ZeroedPage.keys = <<>>
  BY DEF ZeroedPage, Page
<1>5. \A k, p : Moved(nd, Idle, k, p) = p /\ Moved(nd2, Idle, k, p) = p
  BY MovedNot, IdleIs
<1>6. level2[Root] = level[Root] /\ level[Root] \in Nat
  BY <1>1, <1>2, <1>3 DEF Levelled
<1>7. \A k \in Keys : \A n \in 0 .. level[Root] :
        route[k][n] \in DOMAIN nd /\ level[route[k][n]] = n /\ ~Lost(nd[route[k][n]])
  BY <1>1, RouteFacts
<1>8. Ordered(nd2)
  <2>1. Strict(ZeroedPage.keys)
    BY <1>4 DEF Strict
  <2> QED
    BY <1>1, <1>2, <2>1 DEF Ordered
<1>9. Routed(nd2, Idle, level2, route)
  <2>1. route \in [Keys -> [0 .. level[Root] -> DOMAIN nd2]]
    BY <1>1, <1>2 DEF Routed
  <2>2. \A k \in Keys : \A n \in 0 .. level[Root] : level2[route[k][n]] = n /\ ~Lost(nd2[route[k][n]])
    BY <1>2, <1>3, <1>7
  <2>3. \A k \in Keys : route[k][level[Root]] = Moved(nd2, Idle, k, Root)
    BY <1>1, <1>5 DEF Routed
  <2>4. \A k \in Keys : \A n \in 1 .. level[Root] :
          route[k][n - 1] = Moved(nd2, Idle, k, Child(nd2[route[k][n]], k))
    <3> SUFFICES ASSUME NEW k \in Keys, NEW n \in 1 .. level[Root]
                 PROVE  route[k][n - 1] = Moved(nd2, Idle, k, Child(nd2[route[k][n]], k))
      OBVIOUS
    <3>1. n \in 0 .. level[Root]
      BY <1>6
    <3> QED
      BY <1>1, <1>2, <1>5, <1>7, <3>1 DEF Routed
  <2> QED
    BY <1>6, <2>1, <2>2, <2>3, <2>4 DEF Routed
<1>10. Settled(nd2, Idle, level2, route)
  <2>1. ASSUME NEW p \in DOMAIN nd2, NEW i \in DOMAIN nd2[p].keys
        PROVE  level2[p] <= level2[Root] /\ route[nd2[p].keys[i]][level2[p]] = p
    <3>1. p # r
      BY <1>2, <1>4, <2>1
    <3> QED
      BY <1>1, <1>2, <1>3, <1>6, <2>1, <3>1 DEF Settled
  <2> QED
    BY <2>1, IdleIs DEF Settled
<1>11. Stores(nd2, cs, route)
  <2>1. 0 \in 0 .. level[Root]
    BY <1>6
  <2>2. \A k \in Keys : nd2[route[k][0]] = nd[route[k][0]]
    BY <1>2, <1>7, <2>1
  <2> QED
    BY <1>1, <2>2 DEF Stores
<1> QED
  BY <1>1, <1>8, <1>9, <1>10, <1>11 DEF Leads

-----------------------------------------------------------------------------
(* What the invariant claims to exist does exist after each change.        *)
LEMMA ReroutedIs ==
  ASSUME NEW h \in Nat, NEW D0, NEW route, \A k \in Keys : \A n \in 0 .. h : route[k][n] \in D0,
         NEW D, D0 \subseteq D, NEW a, NEW mk, NEW r \in D
  PROVE  \E route2 : Rerouted(route, route2, h, D, a, mk, r)
<1> DEFINE g(k, n) == IF route[k][n] = a /\ mk <= k THEN r ELSE route[k][n]
           route2 == [k \in Keys |-> [n \in 0 .. h |-> g(k, n)]]
<1>1. \A k \in Keys : \A n \in 0 .. h : g(k, n) \in D
  OBVIOUS
<1> HIDE DEF g
<1>2. route2 \in [Keys -> [0 .. h -> D]]
  BY <1>1
<1>3. \A k \in Keys : \A n \in 0 .. h : route2[k][n] = g(k, n)
  OBVIOUS
<1> HIDE DEF route2
<1>4. Rerouted(route, route2, h, D, a, mk, r)
  BY <1>2, <1>3 DEF Rerouted, g
<1> QED
  BY <1>4

(* ... the longer routes after the split of the root,                      *)
LEMMA ClimbingIs ==
  ASSUME NEW h \in Nat, NEW D0, NEW route, \A k \in Keys : \A n \in 0 .. h : route[k][n] \in D0,
         NEW D, D0 \subseteq D, NEW r \in D, Root \in D
  PROVE  \E route2 : Climbing(route, route2, h, D, r)
<1> DEFINE g(k, n) == IF n = h + 1 THEN Root ELSE IF route[k][n] = Root THEN r ELSE route[k][n]
           route2 == [k \in Keys |-> [n \in 0 .. h + 1 |-> g(k, n)]]
<1>1. \A n \in 0 .. h + 1 : n # h + 1 => n \in 0 .. h
  OBVIOUS
<1>2. \A n \in 0 .. h : n # h + 1 /\ n \in 0 .. h + 1
  OBVIOUS
<1>3. h + 1 \in 0 .. h + 1
  OBVIOUS
<1>4. \A k \in Keys : \A n \in 0 .. h + 1 : g(k, n) \in D
  BY <1>1
<1>5. \A k \in Keys : /\ g(k, h + 1) = Root
                      /\ \A n \in 0 .. h : g(k, n) = IF route[k][n] = Root THEN r ELSE route[k][n]
  BY <1>2
<1> HIDE DEF g
<1>6. route2 \in [Keys -> [0 .. h + 1 -> D]]
  BY <1>4
<1>7. \A k \in Keys : \A n \in 0 .. h + 1 : route2[k][n] = g(k, n)
  OBVIOUS
<1> HIDE DEF route2
<1>8. Climbing(route, route2, h, D, r)
  BY <1>2, <1>3, <1>5, <1>6, <1>7 DEF Climbing
<1> QED
  BY <1>8

(* ... the levels then,                                                    *)
LEMMA RaisedIs ==
  ASSUME NEW D, NEW level \in [D -> Nat], NEW r, r \notin D, Root \in D
  PROVE  \E level2 : Raised(level, level2, D, r)
<1> DEFINE g(p) == IF p = r THEN level[Root] ELSE IF p = Root THEN level[Root] + 1 ELSE level[p]
           level2 == [p \in D \cup {r} |-> g(p)]
<1>1. \A p \in D \cup {r} : g(p) \in Nat
  OBVIOUS
<1>2. g(r) = level[Root] /\ g(Root) = level[Root] + 1 /\ \A p \in D : p # Root => g(p) = level[p]
  OBVIOUS
<1> HIDE DEF g
<1>3. level2 \in [D \cup {r} -> Nat] /\ \A p \in D \cup {r} : level2[p] = g(p)
  BY <1>1
<1> HIDE DEF level2
<1>4. Raised(level, level2, D, r)
  BY <1>2, <1>3 DEF Raised
<1> QED
  BY <1>4

(* ... the chain then,                                                     *)
LEMMA RenamedIs ==
  ASSUME NEW D0, NEW C \in Seq(D0), NEW D, D0 \subseteq D, NEW r \in D
  PROVE  \E C2 \in Seq(D) : Renamed(C, C2, r)
<1> DEFINE g(i) == IF C[i] = Root THEN r ELSE C[i]
           C2 == [i \in 1 .. Len(C) |-> g(i)]
<1>1. Len(C) \in Nat /\ DOMAIN C = 1 .. Len(C) /\ \A i \in DOMAIN C : C[i] \in D0
  BY Elements
<1>2. \A i \in 1 .. Len(C) : g(i) \in D
  BY <1>1
<1> HIDE DEF g
<1>3. C2 \in Seq(D) /\ Len(C2) = Len(C) /\ DOMAIN C2 = 1 .. Len(C) /\ \A i \in 1 .. Len(C) : C2[i] = g(i)
  BY <1>1, <1>2
<1> HIDE DEF C2
<1>4. Renamed(C, C2, r)
  BY <1>1, <1>3 DEF Renamed, g
<1> QED
  BY <1>3, <1>4

(* ... and the spine then.                                                 *)
LEMMA LongerIs ==
  ASSUME NEW h \in Nat, NEW D0, NEW L \in [0 .. h -> D0], NEW D, D0 \subseteq D, NEW r \in D, Root \in D
  PROVE  \E M : Longer(L, M, h, r, D)
<1> DEFINE g(n) == IF n = h + 1 THEN Root ELSE IF n = h THEN r ELSE L[n]
           M == [n \in 0 .. h + 1 |-> g(n)]
<1>1. /\ \A n \in 0 .. h + 1 : n # h + 1 => n \in 0 .. h
      /\ \A n \in 0 .. h : n # h + 1 /\ n \in 0 .. h + 1
      /\ h + 1 \in 0 .. h + 1 /\ h \in 0 .. h + 1 /\ h # h + 1
  OBVIOUS
<1>2. \A n \in 0 .. h + 1 : g(n) \in D
  BY <1>1
<1>3. g(h + 1) = Root /\ g(h) = r /\ \A n \in 0 .. h : n # h => g(n) = L[n]
  BY <1>1
<1> HIDE DEF g
<1>4. M \in [0 .. h + 1 -> D] /\ \A n \in 0 .. h + 1 : M[n] = g(n)
  BY <1>2
<1> HIDE DEF M
<1>5. Longer(L, M, h, r, D)
  BY <1>1, <1>3, <1>4 DEF Longer
<1> QED
  BY <1>5

(* Changing a page and then adding another one                             *)
LEMMA GrownAfter ==
  ASSUME NEW nd, NEW nd1, NEW nd2, NEW a, NEW z, NEW x, NEW r, NEW y,
         Updated(nd, nd1, a, z), Grown(nd, nd2, a, x, r, y)
  PROVE  Grown(nd1, nd2, a, x, r, y)
<1>1. /\ DOMAIN nd1 = DOMAIN nd /\ Len(nd1) = Len(nd) /\ \A p \in DOMAIN nd : p # a => nd1[p] = nd[p]
  BY DEF Updated
<1>2. /\ a \in DOMAIN nd /\ x \in NodeType /\ y \in NodeType
      /\ r \in Nat /\ r = Len(nd) + 1 /\ r \notin DOMAIN nd /\ r > Root
      /\ nd2 \in Seq(NodeType) /\ Len(nd2) = Len(nd) + 1 /\ DOMAIN nd2 = DOMAIN nd \cup {r}
      /\ nd2[a] = x /\ nd2[r] = y /\ \A p \in DOMAIN nd : p # a => nd2[p] = nd[p]
  BY DEF Grown
<1>3. Len(nd1) + 1 = Len(nd) + 1
  BY <1>1
<1> QED
  BY <1>1, <1>2, <1>3 DEF Grown

(* Inner nodes that change leave the keys of the leaves where they are.    *)
LEMMA InhabitedSame ==
  ASSUME NEW nd, NEW nd2, NEW cs, Inhabited(nd, cs),
         \A p \in DOMAIN nd : nd[p].leaf => \E s \in DOMAIN nd2 : nd2[s] = nd[p]
  PROVE  Inhabited(nd2, cs)
<1> SUFFICES ASSUME NEW k \in Keys, cs[k] # NoVal
             PROVE  \E p \in DOMAIN nd2 : nd2[p].leaf /\ Has(nd2[p], k)
  BY DEF Inhabited
<1>1. PICK p \in DOMAIN nd : nd[p].leaf /\ Has(nd[p], k)
  BY DEF Inhabited
<1>2. PICK s \in DOMAIN nd2 : nd2[s] = nd[p]
  BY <1>1
<1> QED
  BY <1>1, <1>2

-----------------------------------------------------------------------------
(* The steps. Leaf n becomes x: v is stored under k, or nothing is.        *)
LeafChanged(n, x, k, v) ==
  /\ x.leaf /\ x.next = n.next /\ x.items \in Seq(Vals) /\ Len(x.items) = Len(x.keys)
  /\ \A i \in DOMAIN x.keys : x.keys[i] = k \/ Has(n, x.keys[i])
  /\ \A i \in DOMAIN n.keys : n.keys[i] # k =>
       \E j \in DOMAIN x.keys : x.keys[j] = n.keys[i] /\ x.items[j] = n.items[i]
  /\ v # NoVal => \E i \in DOMAIN x.keys : x.keys[i] = k /\ x.items[i] = v
  /\ Strict(n.keys) => Strict(x.keys) /\ (v = NoVal => ~Has(x, k))

(* The call does so to the leaf it has come to.                            *)
LeafWritten(nd, nd2, o, x, cs, cs2) ==
  /\ o # Idle /\ o.up = NoSplit /\ nd[o.at].leaf
  /\ Updated(nd, nd2, o.at, x)
  /\ \A k \in Keys : k # o.key => cs2[k] = cs[k]
  /\ LeafChanged(nd[o.at], x, o.key, cs2[o.key])

(* The tree stays one, and every key leads where it led.                   *)
LEMMA LeafStep ==
  ASSUME NEW nd, NEW level, NEW C, NEW L, NEW o, NEW cs, Tree(nd, o, cs, level, C, L),
         NEW nd2, NEW x, NEW cs2, LeafWritten(nd, nd2, o, x, cs, cs2)
  PROVE  /\ Frame(nd2, level, C, L) /\ Inhabited(nd2, cs2)
         /\ Way(nd2, level, o.path) /\ Below(nd2, o.path) = o.at
         /\ \A route : Leads(nd, o, cs, level, C, route) => Leads(nd2, Idle, cs2, level, C, route)
<1> DEFINE a == o.at
<1>0. /\ o # Idle /\ o.up = NoSplit /\ nd[a].leaf /\ Updated(nd, nd2, a, x)
      /\ \A k \in Keys : k # o.key => cs2[k] = cs[k]
      /\ LeafChanged(nd[a], x, o.key, cs2[o.key])
  BY DEF LeafWritten
<1>1. /\ Frame(nd, level, C, L) /\ Calls(nd, level, o) /\ Inhabited(nd, cs)
      /\ Pages(nd) /\ Levelled(nd, level)
  BY DEF Tree, Frame
<1>2. /\ a \in DOMAIN nd /\ DOMAIN nd2 = DOMAIN nd /\ nd2[a] = x /\ x \in NodeType
      /\ \A p \in DOMAIN nd : p # a => nd2[p] = nd[p]
  BY <1>0 DEF Updated
<1>3. o.key \in Keys /\ Way(nd, level, o.path) /\ a = Below(nd, o.path)
  BY <1>0, <1>1 DEF Calls
<1>4. /\ x.leaf /\ x.next = nd[a].next /\ x.items \in Seq(Vals) /\ Len(x.items) = Len(x.keys)
      /\ \A i \in DOMAIN x.keys : x.keys[i] = o.key \/ Has(nd[a], x.keys[i])
      /\ \A i \in DOMAIN nd[a].keys : nd[a].keys[i] # o.key =>
           \E j \in DOMAIN x.keys : x.keys[j] = nd[a].keys[i] /\ x.items[j] = nd[a].items[i]
      /\ cs2[o.key] # NoVal => \E i \in DOMAIN x.keys : x.keys[i] = o.key /\ x.items[i] = cs2[o.key]
      /\ Strict(nd[a].keys) => Strict(x.keys) /\ (cs2[o.key] = NoVal => ~Has(x, o.key))
  BY <1>0 DEF LeafChanged
<1>5. nd[a].leaf /\ Updated(nd, nd2, a, x) /\ level[a] = 0 /\ level[Root] \in Nat
  BY <1>0, <1>1, <1>2 DEF Levelled, Pages
<1> HIDE DEF a
<1>6. Frame(nd2, level, C, L)
  <2>1. Shaped(nd, x)
    BY <1>4 DEF Shaped
  <2> QED
    BY <1>1, <1>4, <1>5, <2>1, FrameLeaf
<1>7. Inhabited(nd2, cs2)
  <2> SUFFICES ASSUME NEW k \in Keys, cs2[k] # NoVal
               PROVE  \E p \in DOMAIN nd2 : nd2[p].leaf /\ Has(nd2[p], k)
    BY DEF Inhabited
  <2>1. CASE k = o.key
    BY <1>2, <1>4, <2>1 DEF Has
  <2>2. CASE k # o.key
    <3>1. PICK p \in DOMAIN nd : nd[p].leaf /\ Has(nd[p], k)
      BY <1>0, <1>1, <2>2 DEF Inhabited
    <3>2. Has(nd[a], k) => Has(x, k)
      BY <1>4, <2>2 DEF Has
    <3> QED
      BY <1>2, <1>4, <3>1, <3>2
  <2> QED
    BY <2>1, <2>2
<1>8. Way(nd2, level, o.path) /\ Below(nd2, o.path) = a
  <2>1. o.path \in Seq([page : DOMAIN nd, ci : Nat]) /\ Root \in DOMAIN nd /\ DOMAIN nd \subseteq DOMAIN nd2
    BY <1>1, <1>2, <1>3 DEF Way, Pages
  <2>2. \A i \in DOMAIN o.path : nd2[o.path[i].page] = nd[o.path[i].page]
    <3> SUFFICES ASSUME NEW i \in DOMAIN o.path PROVE nd2[o.path[i].page] = nd[o.path[i].page]
      OBVIOUS
    <3>1. o.path[i] \in [page : DOMAIN nd, ci : Nat]
      BY <2>1, Elements
    <3>2. o.path[i].page \in DOMAIN nd /\ ~nd[o.path[i].page].leaf
      BY <1>3, <3>1 DEF Way
    <3> QED
      BY <1>2, <1>5, <3>2
  <2>3. /\ \A p \in DOMAIN nd : level[p] = level[p]
        /\ \A i \in DOMAIN o.path : i \in DOMAIN o.path /\ o.path[i] = o.path[i] /\ nd2[o.path[i].page] = nd[o.path[i].page]
    BY <2>2
  <2> DEFINE path == o.path
  <2> HIDE DEF path
  <2>4. Way(nd, level, path) /\ path \in Steps(nd)
        /\ \A i \in DOMAIN path : i \in DOMAIN path /\ path[i] = path[i] /\ nd2[path[i].page] = nd[path[i].page]
    BY <1>3, <2>1, <2>3 DEF path, Steps
  <2>5. Way(nd2, level, path)
    BY <2>1, <2>3, <2>4, WaySame
  <2>6. Below(nd2, path) = Below(nd, path)
    BY <2>1, <2>3, <2>4, WaySame
  <2> QED
    BY <1>3, <2>5, <2>6 DEF path
<1>9. ASSUME NEW route, Leads(nd, o, cs, level, C, route)
      PROVE  Leads(nd2, Idle, cs2, level, C, route)
  <2>1. /\ Ordered(nd) /\ Routed(nd, o, level, route) /\ Settled(nd, o, level, route) /\ Stores(nd, cs, route)
    BY <1>9 DEF Leads
  <2>2. Strict(x.keys) /\ (cs2[o.key] = NoVal => ~Has(x, o.key))
    BY <1>2, <1>4, <2>1 DEF Ordered
  <2>3. route[o.key][0] = a
    BY <1>0, <1>5, <2>1 DEF Settled, a
  <2>4. \A i \in DOMAIN nd[a].keys : route[nd[a].keys[i]][0] = a
    BY <1>2, <1>5, <2>1 DEF Settled
  <2>5. \A i \in DOMAIN x.keys : route[x.keys[i]][0] = a
    BY <1>4, <2>3, <2>4 DEF Has
  <2>6. \A k \in Keys : route[k][0] # a => cs2[k] = cs[k]
    BY <1>0, <2>3
  <2>7. ASSUME NEW k \in Keys, route[k][0] = a
        PROVE  /\ cs2[k] = NoVal => ~Has(x, k)
               /\ cs2[k] # NoVal => \E i \in DOMAIN x.keys : x.keys[i] = k /\ x.items[i] = cs2[k]
    <3>1. CASE k = o.key
      BY <1>4, <2>2, <3>1
    <3>2. CASE k # o.key
      <4>1. /\ cs[k] = NoVal => ~Has(nd[a], k)
            /\ cs[k] # NoVal => \E i \in DOMAIN nd[a].keys : nd[a].keys[i] = k /\ nd[a].items[i] = cs[k]
        BY <2>1, <2>7 DEF Stores
      <4>2. Has(x, k) => Has(nd[a], k)
        BY <1>4, <3>2 DEF Has
      <4> QED
        BY <1>0, <1>4, <3>2, <4>1, <4>2
    <3> QED
      BY <3>1, <3>2
  <2> QED
    BY <1>0, <1>1, <1>4, <1>5, <1>9, <2>2, <2>5, <2>6, <2>7, LeadsLeaf
<1> QED
  BY <1>6, <1>7, <1>8, <1>9 DEF a

(* The three changes of a leaf                                             *)
LeafMore(n, keys, items, next, i, k, v) ==
  keys = InsertAt(n.keys, i + 1, k) /\ items = InsertAt(n.items, i + 1, v) /\ next = n.next

(* LeafInsert, and the first half of LeafSplit                             *)
LEMMA ChangeInsert ==
  ASSUME NEW n \in NodeType, n.leaf, n.items \in Seq(Vals), Len(n.items) = Len(n.keys),
         NEW k \in Keys, NEW v \in Vals, NEW s, s = LeafIndex(n.keys, k), ~s.found,
         NEW keys, NEW items, NEW next, LeafMore(n, keys, items, next, s.at, k, v)
  PROVE  LET x == Page(TRUE, keys, items, next)
         IN  /\ x \in NodeType /\ LeafChanged(n, x, k, v)
             /\ Inserted(n.keys, keys, s.at, k) /\ Inserted(n.items, items, s.at, v)
             /\ keys \in Seq(Keys) /\ items \in Seq(Vals)
<1> DEFINE x == Page(TRUE, keys, items, next)
           i == s.at
<1>1. /\ n.keys \in Seq(Keys) /\ n.keys \in Seq(Nat) /\ n.next \in Nat
      /\ DOMAIN n.keys = 1 .. Len(n.keys) /\ DOMAIN n.items = 1 .. Len(n.items)
  BY PageFields
<1>2. i \in 0 .. Len(n.keys) /\ i \in 0 .. Len(n.items) /\ k \in Nat
  BY <1>1, LeafIndexFinds, KeyTypes
<1>3. keys \in Seq(Keys) /\ Inserted(n.keys, keys, i, k)
  <2>1. keys = InsertAt(n.keys, i + 1, k)
    BY DEF LeafMore
  <2> QED
    BY <1>1, <1>2, <2>1, InsertAtIs
<1>4. items \in Seq(Vals) /\ Inserted(n.items, items, i, v)
  <2>1. items = InsertAt(n.items, i + 1, v)
    BY DEF LeafMore
  <2> QED
    BY <1>2, <2>1, InsertAtIs
<1>5. items \in Seq(Vals \cup Nat)
  BY <1>4, WiderSequence
<1>6. x \in NodeType /\ x.leaf /\ x.keys = keys /\ x.items = items /\ x.next = n.next
  <2>1. next = n.next /\ next \in Nat
    BY <1>1 DEF LeafMore
  <2> QED
    BY <1>3, <1>5, <2>1 DEF Page, NodeType
<1>7. Len(items) = Len(keys)
  <2>1. Len(items) = Len(n.items) + 1 /\ Len(keys) = Len(n.keys) + 1
    BY <1>3, <1>4 DEF Inserted
  <2> QED
    BY <2>1
<1>8. \A j \in DOMAIN keys : keys[j] = k \/ Has(n, keys[j])
  BY <1>3, InsertedFrom DEF Has
<1>9. ASSUME NEW j \in DOMAIN n.keys
      PROVE  \E m \in DOMAIN keys : keys[m] = n.keys[j] /\ items[m] = n.items[j]
  <2>1. j \in DOMAIN n.items /\ (j <= i \/ j > i)
    <3>1. j \in Int /\ i \in Int
      BY <1>1, <1>2
    <3> QED
      BY <1>1, <3>1
  <2>2. CASE j <= i
    BY <1>3, <1>4, <2>1, <2>2, InsertedTo
  <2>3. CASE j > i
    BY <1>3, <1>4, <2>1, <2>3, InsertedTo
  <2> QED
    BY <2>1, <2>2, <2>3
<1>10. i + 1 \in DOMAIN keys /\ keys[i + 1] = k /\ items[i + 1] = v
  BY <1>3, <1>4, InsertedTo
<1>11. Strict(n.keys) => Strict(keys)
  <2> SUFFICES ASSUME Strict(n.keys) PROVE Strict(keys)
    OBVIOUS
  <2>1. \A j \in DOMAIN n.keys : (j <= i => n.keys[j] < k) /\ (j > i => k < n.keys[j])
    BY <1>1, <1>2, LeafIndexFinds
  <2>2. n.keys \in Seq(Nat) /\ k \in Nat
    BY <1>1, <1>2
  <2> HIDE DEF i
  <2> QED
    BY <1>3, <2>1, <2>2, InsertStrict
<1>12. v # NoVal
  BY KeyTypes
<1> HIDE DEF x, i
<1>13. LeafChanged(n, x, k, v)
  BY <1>4, <1>6, <1>7, <1>8, <1>9, <1>10, <1>11, <1>12 DEF LeafChanged
<1> QED
  BY <1>3, <1>4, <1>6, <1>13 DEF x, i

(* LeafReplace                                                             *)
LEMMA ChangeReplace ==
  ASSUME NEW n \in NodeType, n.leaf, n.items \in Seq(Vals), Len(n.items) = Len(n.keys),
         NEW k \in Keys, NEW v \in Vals, NEW s, s = LeafIndex(n.keys, k), s.found,
         NEW x, x = [n EXCEPT !.items[s.at + 1] = v]
  PROVE  x \in NodeType /\ LeafChanged(n, x, k, v)
<1> DEFINE i == s.at + 1
<1>1. /\ n.keys \in Seq(Keys) /\ n.keys \in Seq(Nat)
      /\ DOMAIN n.keys = 1 .. Len(n.keys) /\ DOMAIN n.items = 1 .. Len(n.items)
      /\ \A j \in DOMAIN n.keys : n.keys[j] \in Nat
  BY PageFields
<1>2. i \in DOMAIN n.keys /\ n.keys[i] = k /\ k \in Nat
  BY <1>1, LeafIndexFinds, KeyTypes
<1> HIDE DEF i
<1>3. x = [n EXCEPT !.items[i] = v]
  BY DEF i
<1>4. i \in DOMAIN n.items
  BY <1>1, <1>2
<1> DEFINE items == [n.items EXCEPT ![i] = v]
<1>5. /\ items \in Seq(Vals) /\ Len(items) = Len(n.items) /\ DOMAIN items = DOMAIN n.items
      /\ items[i] = v /\ \A j \in DOMAIN n.items : j # i => items[j] = n.items[j]
  BY <1>4
<1>6. x \in NodeType /\ x.items = items /\ x.keys = n.keys /\ x.leaf = n.leaf /\ x.next = n.next
  <2>1. items \in Seq(Vals \cup Nat)
    BY <1>5, WiderSequence
  <2> HIDE DEF items
  <2>2. x = [n EXCEPT !.items = items]
    BY <1>3 DEF items
  <2> QED
    BY <2>1, <2>2 DEF NodeType
<1> HIDE DEF items
<1>7. v # NoVal
  BY KeyTypes
<1>8. \A j \in DOMAIN x.keys : x.keys[j] = k \/ Has(n, x.keys[j])
  BY <1>6 DEF Has
<1>9. \A j \in DOMAIN n.keys : n.keys[j] # k => \E m \in DOMAIN x.keys : x.keys[m] = n.keys[j] /\ x.items[m] = n.items[j]
  <2> SUFFICES ASSUME NEW j \in DOMAIN n.keys, n.keys[j] # k PROVE x.keys[j] = n.keys[j] /\ x.items[j] = n.items[j]
    BY <1>6
  <2>1. j # i /\ j \in DOMAIN n.items
    BY <1>1, <1>2
  <2> QED
    BY <1>5, <1>6, <2>1
<1>10. \E m \in DOMAIN x.keys : x.keys[m] = k /\ x.items[m] = v
  BY <1>2, <1>5, <1>6
<1>11. Len(x.items) = Len(x.keys) /\ x.items \in Seq(Vals) /\ x.leaf
  BY <1>5, <1>6
<1> QED
  BY <1>6, <1>7, <1>8, <1>9, <1>10, <1>11 DEF LeafChanged

(* LeafDelete                                                              *)
LEMMA ChangeDelete ==
  ASSUME NEW n \in NodeType, n.leaf, n.items \in Seq(Vals), Len(n.items) = Len(n.keys),
         NEW k \in Keys, NEW s, s = LeafIndex(n.keys, k), s.found,
         NEW x, x = [n EXCEPT !.keys = RemoveAt(@, s.at + 1), !.items = RemoveAt(@, s.at + 1)]
  PROVE  x \in NodeType /\ LeafChanged(n, x, k, NoVal)
<1> DEFINE i == s.at + 1
           keys == RemoveAt(n.keys, i)
           items == RemoveAt(n.items, i)
<1>1. /\ n.keys \in Seq(Keys) /\ n.keys \in Seq(Nat)
      /\ DOMAIN n.keys = 1 .. Len(n.keys) /\ DOMAIN n.items = 1 .. Len(n.items)
      /\ \A j \in DOMAIN n.keys : n.keys[j] \in Nat
  BY PageFields
<1>2. i \in DOMAIN n.keys /\ n.keys[i] = k /\ k \in Nat
  BY <1>1, LeafIndexFinds, KeyTypes
<1>3. x = [n EXCEPT !.keys = keys, !.items = items]
  OBVIOUS
<1> HIDE DEF i
<1>4. i \in 1 .. Len(n.keys) /\ i \in 1 .. Len(n.items)
  BY <1>1, <1>2
<1>5. keys \in Seq(Keys) /\ Removed(n.keys, keys, i)
  BY <1>1, <1>4, RemoveAtIs
<1>6. items \in Seq(Vals) /\ Removed(n.items, items, i)
  BY <1>4, RemoveAtIs
<1> HIDE DEF keys, items
<1>7. x \in NodeType /\ x.items = items /\ x.keys = keys /\ x.leaf = n.leaf /\ x.next = n.next
  <2>1. items \in Seq(Vals \cup Nat)
    BY <1>6, WiderSequence
  <2> QED
    BY <1>3, <1>5, <2>1 DEF NodeType
<1>8. Len(items) = Len(keys)
  <2>1. Len(items) = Len(n.items) - 1 /\ Len(keys) = Len(n.keys) - 1
    BY <1>5, <1>6 DEF Removed
  <2> QED
    BY <2>1
<1>9. \A j \in DOMAIN keys : keys[j] = k \/ Has(n, keys[j])
  BY <1>5, RemovedFrom DEF Has
<1>10. ASSUME NEW j \in DOMAIN n.keys, n.keys[j] # k
       PROVE  \E m \in DOMAIN keys : keys[m] = n.keys[j] /\ items[m] = n.items[j]
  <2>1. j # i /\ j \in DOMAIN n.items
    BY <1>1, <1>2, <1>10
  <2>2. \E m \in DOMAIN keys : keys[m] = n.keys[j] /\ m = IF j < i THEN j ELSE j - 1
    BY <1>5, <2>1, RemovedTo
  <2>3. \E m \in DOMAIN items : items[m] = n.items[j] /\ m = IF j < i THEN j ELSE j - 1
    BY <1>6, <2>1, RemovedTo
  <2> QED
    BY <2>2, <2>3
<1>11. Strict(n.keys) => Strict(keys) /\ \A j \in DOMAIN keys : keys[j] # k
  <2> SUFFICES ASSUME Strict(n.keys) PROVE Strict(keys) /\ \A j \in DOMAIN keys : keys[j] # k
    OBVIOUS
  <2>1. Strict(keys)
    BY <1>5, RemoveStrict
  <2>2. ASSUME NEW j \in DOMAIN keys PROVE keys[j] # k
    <3>0. j \in Int /\ i \in Int
      <4>1. DOMAIN keys = 1 .. Len(n.keys) - 1
        BY <1>5 DEF Removed
      <4> QED
        BY <1>4, <4>1
    <3>1. \/ j < i /\ j \in DOMAIN n.keys /\ keys[j] = n.keys[j]
          \/ j >= i /\ j + 1 \in DOMAIN n.keys /\ keys[j] = n.keys[j + 1]
      BY <1>5, RemovedFrom
    <3>2. CASE j < i /\ j \in DOMAIN n.keys /\ keys[j] = n.keys[j]
      <4>1. n.keys[j] < n.keys[i] /\ n.keys[j] \in Nat
        BY <1>1, <1>2, <3>2 DEF Strict
      <4> QED
        BY <1>2, <3>2, <4>1
    <3>3. CASE j >= i /\ j + 1 \in DOMAIN n.keys /\ keys[j] = n.keys[j + 1]
      <4>1. i < j + 1
        BY <3>0, <3>3
      <4>2. n.keys[i] < n.keys[j + 1] /\ n.keys[j + 1] \in Nat
        BY <1>1, <1>2, <3>3, <4>1 DEF Strict
      <4> QED
        BY <1>2, <3>3, <4>2
    <3> QED
      BY <3>1, <3>2, <3>3
  <2> QED
    BY <2>1, <2>2
<1>12. LeafChanged(n, x, k, NoVal)
  <2>1. \A j \in DOMAIN x.keys : x.keys[j] = k \/ Has(n, x.keys[j])
    BY <1>7, <1>9
  <2>2. \A j \in DOMAIN n.keys : n.keys[j] # k =>
          \E m \in DOMAIN x.keys : x.keys[m] = n.keys[j] /\ x.items[m] = n.items[j]
    BY <1>7, <1>10
  <2>3. Strict(n.keys) => Strict(x.keys) /\ ~Has(x, k)
    BY <1>7, <1>11 DEF Has
  <2>4. x.leaf /\ x.next = n.next /\ x.items \in Seq(Vals) /\ Len(x.items) = Len(x.keys)
    BY <1>6, <1>7, <1>8
  <2> QED
    BY <2>1, <2>2, <2>3, <2>4 DEF LeafChanged
<1> QED
  BY <1>7, <1>12

(* A call begins, and goes on to a child.                                  *)
LEMMA StepStart ==
  ASSUME NEW nd, NEW cs, NEW lost, Sound(nd, Idle, cs, lost),
         NEW kind \in {"insert", "delete"}, NEW k \in Keys, NEW v \in Vals \cup {NoVal}, kind = "insert" => v \in Vals,
         NEW o, Starts(o, kind, k, v)
  PROVE  Sound(nd, o, cs, lost)
<1>1. PICK level, C, L :
        Tree(nd, Idle, cs, level, C, L) /\ (~lost => \E route : Leads(nd, Idle, cs, level, C, route))
  BY DEF Sound
<1>2. Frame(nd, level, C, L) /\ Inhabited(nd, cs) /\ Root \in DOMAIN nd
  BY <1>1 DEF Tree, Frame, Pages
<1>3. Calls(nd, level, o) /\ o.up = NoSplit /\ o.at = Root /\ o.key = k /\ o # Idle
  BY <1>2, CallStarts
<1>4. ASSUME NEW route, Leads(nd, Idle, cs, level, C, route)
      PROVE  Leads(nd, o, cs, level, C, route)
  <2>1. /\ Ordered(nd) /\ Routed(nd, Idle, level, route) /\ Settled(nd, Idle, level, route)
        /\ Stores(nd, cs, route) /\ Rising(C, route)
    BY <1>4 DEF Leads
  <2>2. \A j, p : Moved(nd, Idle, j, p) = p /\ Moved(nd, o, j, p) = p
    BY <1>3, MovedNot, IdleIs
  <2>3. Routed(nd, o, level, route)
    BY <2>1, <2>2 DEF Routed
  <2>4. route[k][level[Root]] = Root
    BY <2>1, <2>2 DEF Routed
  <2>5. Settled(nd, o, level, route)
    BY <1>3, <2>1, <2>4 DEF Settled
  <2> QED
    BY <2>1, <2>3, <2>5 DEF Leads
<1>5. Tree(nd, o, cs, level, C, L)
  BY <1>2, <1>3 DEF Tree
<1> QED
  BY <1>1, <1>4, <1>5 DEF Sound

(* One step further down                                                   *)
Extended(path, path2, a, ci) == path2 = Append(path, [page |-> a, ci |-> ci])
Deeper(o, o2, ci, child) ==
  o2 = [o EXCEPT !.at = child, !.path = Append(@, [page |-> o.at, ci |-> ci])]

(* The way down is one step longer.                                        *)
LEMMA WayDeeper ==
  ASSUME NEW nd, NEW level, NEW C, NEW L, Frame(nd, level, C, L),
         NEW path, Way(nd, level, path), NEW a, a = Below(nd, path), ~nd[a].leaf,
         NEW ci \in Nat, ci + 1 \in DOMAIN nd[a].items,
         NEW path2, Extended(path, path2, a, ci)
  PROVE  Way(nd, level, path2) /\ Below(nd, path2) = nd[a].items[ci + 1]
<1> DEFINE n == Len(path)
           e == [page |-> a, ci |-> ci]
<1>1. /\ n \in Nat /\ DOMAIN path = 1 .. n /\ a \in DOMAIN nd
      /\ level[a] + n = level[Root] /\ level[a] \in Nat /\ level[Root] \in Nat
  <2>1. level \in [DOMAIN nd -> Nat] /\ Root \in DOMAIN nd
    BY DEF Frame, Levelled, Pages
  <2> QED
    BY <2>1, WayLeads
<1>2. /\ path \in Seq([page : DOMAIN nd, ci : Nat])
      /\ \A i \in DOMAIN path :
           /\ ~nd[path[i].page].leaf /\ path[i].ci + 1 \in DOMAIN nd[path[i].page].items
           /\ level[path[i].page] + i = level[Root] + 1
           /\ path[i].page = IF i = 1 THEN Root ELSE nd[path[i - 1].page].items[path[i - 1].ci + 1]
  BY DEF Way
<1>3. e \in [page : DOMAIN nd, ci : Nat] /\ e.page = a /\ e.ci = ci
  BY <1>1
<1>4. /\ path2 \in Seq([page : DOMAIN nd, ci : Nat]) /\ Len(path2) = n + 1
      /\ DOMAIN path2 = 1 .. n + 1
      /\ \A i \in DOMAIN path : path2[i] = path[i]
      /\ path2[n + 1] = e
  <2> HIDE DEF e
  <2>1. path2 = Append(path, e)
    BY DEF e, Extended
  <2> QED
    BY <1>2, <1>3, <2>1, AppendElements
<1> HIDE DEF e
<1>5. ASSUME NEW i \in DOMAIN path2
      PROVE  /\ ~nd[path2[i].page].leaf /\ path2[i].ci + 1 \in DOMAIN nd[path2[i].page].items
             /\ level[path2[i].page] + i = level[Root] + 1
             /\ path2[i].page = IF i = 1 THEN Root ELSE nd[path2[i - 1].page].items[path2[i - 1].ci + 1]
  <2>1. CASE i = n + 1
    <3>1. level[a] + i = level[Root] + 1
      BY <1>1, <2>1
    <3>2. a = IF i = 1 THEN Root ELSE nd[path2[i - 1].page].items[path2[i - 1].ci + 1]
      <4>1. i - 1 = n
        BY <1>1, <2>1
      <4>2. CASE n = 0
        <5>1. path = <<>>
          BY <1>2, <4>2, EmptySequence
        <5> QED
          BY <2>1, <4>2, <5>1 DEF Below
      <4>3. CASE n # 0
        <5>1. path # <<>> /\ n \in DOMAIN path /\ i # 1
          BY <1>1, <1>2, <2>1, <4>3, EmptySequence
        <5>2. path2[i - 1] = path[n]
          BY <1>4, <4>1, <5>1
        <5> QED
          BY <5>1, <5>2 DEF Below
      <4> QED
        BY <4>2, <4>3
    <3> QED
      BY <1>3, <1>4, <2>1, <3>1, <3>2
  <2>2. CASE i # n + 1
    <3>1. i \in DOMAIN path /\ (i # 1 => i - 1 \in DOMAIN path)
      BY <1>1, <1>4, <2>2
    <3> QED
      BY <1>2, <1>4, <3>1
  <2> QED
    BY <2>1, <2>2
<1>6. Below(nd, path2) = nd[a].items[ci + 1]
  <2>1. path2 # <<>>
    BY <1>1, <1>4, EmptySequence
  <2> QED
    BY <1>3, <1>4, <2>1 DEF Below
<1> QED
  BY <1>4, <1>5, <1>6 DEF Way

(* Descend: the search goes where the key belongs.                         *)
LEMMA StepDescend ==
  ASSUME NEW nd, NEW o, NEW cs, NEW lost, Sound(nd, o, cs, lost),
         o # Idle, o.up = NoSplit, ~nd[o.at].leaf,
         NEW o2, Deeper(o, o2, ChildIndex(nd[o.at].keys, o.key), Child(nd[o.at], o.key))
  PROVE  Sound(nd, o2, cs, lost)
<1> DEFINE a == o.at
           ci == ChildIndex(nd[a].keys, o.key)
           b == Child(nd[a], o.key)
<1>1. PICK level, C, L :
        Tree(nd, o, cs, level, C, L) /\ (~lost => \E route : Leads(nd, o, cs, level, C, route))
  BY DEF Sound
<1>2. Frame(nd, level, C, L) /\ Calls(nd, level, o) /\ Inhabited(nd, cs) /\ Pages(nd) /\ Levelled(nd, level)
  BY <1>1 DEF Tree, Frame
<1>3. /\ o \in CallType /\ o.key \in Keys /\ Way(nd, level, o.path) /\ (o.kind = "insert" => o.val \in Vals)
      /\ a = Below(nd, o.path) /\ o.kind # "none"
  BY <1>2 DEF Calls
<1>4. a \in DOMAIN nd /\ ~Lost(nd[a]) /\ ~nd[a].leaf /\ nd \in Seq(NodeType) /\ Len(nd) \in Nat
      /\ DOMAIN nd = 1 .. Len(nd)
  BY <1>2, <1>3, WayLeads, Elements DEF Pages
<1>5. ci \in Nat /\ ci + 1 \in DOMAIN nd[a].items /\ b \in DOMAIN nd /\ b = nd[a].items[ci + 1]
  <2>1. /\ ci \in 0 .. Len(nd[a].keys) /\ ci + 1 \in DOMAIN nd[a].items /\ b \in DOMAIN nd
    BY <1>2, <1>3, <1>4, ChildIn
  <2> QED
    BY <2>1 DEF Child
<1>6. Deeper(o, o2, ci, b)
  OBVIOUS
<1> HIDE DEF a, b, ci
<1> DEFINE path2 == Append(o.path, [page |-> a, ci |-> ci])
<1>7. /\ o2.kind = o.kind /\ o2.key = o.key /\ o2.val = o.val /\ o2.at = b /\ o2.path = path2 /\ o2.up = NoSplit
      /\ o2 = [kind |-> o.kind, key |-> o.key, val |-> o.val, at |-> b, path |-> path2, up |-> NoSplit]
  BY <1>3, <1>6 DEF Deeper, CallType, a
<1>14. Extended(o.path, path2, a, ci)
  BY DEF Extended
<1> HIDE DEF path2
<1>8. Way(nd, level, path2) /\ Below(nd, path2) = b
  <2> DEFINE path == o.path
  <2>1. Extended(path, path2, a, ci) /\ Way(nd, level, path) /\ a = Below(nd, path)
    BY <1>3, <1>14
  <2> HIDE DEF path
  <2> QED
    BY <1>2, <1>4, <1>5, <2>1, WayDeeper
<1>9. path2 \in Seq([page : Nat, ci : Nat])
  <2>1. path2 \in Seq([page : DOMAIN nd, ci : Nat])
    BY <1>8 DEF Way
  <2>2. [page : DOMAIN nd, ci : Nat] \subseteq [page : Nat, ci : Nat]
    BY <1>4
  <2> QED
    <3> DEFINE S == [page : DOMAIN nd, ci : Nat]
               T == [page : Nat, ci : Nat]
    <3>1. S \subseteq T /\ path2 \in Seq(S)
      BY <2>1, <2>2
    <3> HIDE DEF S, T
    <3>2. path2 \in Seq(T)
      BY <3>1, WiderSequence
    <3> QED
      BY <3>2 DEF T
<1>10. o2 \in CallType /\ o2 # Idle
  <2>1. NoSplit \in [key : Nat, page : Nat] /\ b \in Nat
    BY <1>4, <1>5 DEF NoSplit, NoPage
  <2>2. o.kind \in {"none", "insert", "delete"} /\ o.key \in Nat /\ o.val \in Vals \cup {NoVal}
    BY <1>3 DEF CallType
  <2>3. o2 # Idle
    BY <1>3, <1>7 DEF Idle
  <2> QED
    BY <1>7, <1>9, <2>1, <2>2, <2>3 DEF CallType
<1>11. Calls(nd, level, o2)
  BY <1>3, <1>7, <1>8, <1>10 DEF Calls
<1>12. ASSUME NEW route, Leads(nd, o, cs, level, C, route)
       PROVE  Leads(nd, o2, cs, level, C, route)
  <2>1. /\ Ordered(nd) /\ Routed(nd, o, level, route) /\ Settled(nd, o, level, route)
        /\ Stores(nd, cs, route) /\ Rising(C, route)
    BY <1>12 DEF Leads
  <2>2. \A j, p : Moved(nd, o, j, p) = p /\ Moved(nd, o2, j, p) = p
    BY <1>7, MovedNot
  <2>3. Routed(nd, o2, level, route)
    BY <2>1, <2>2 DEF Routed
  <2>4. route[o.key][level[a]] = a
    BY <2>1 DEF Settled, a
  <2>5. level[a] \in 1 .. level[Root] /\ level[a] = level[b] + 1 /\ level[b] \in Nat
    <3>1. level[a] + Len(o.path) = level[Root] /\ Len(o.path) \in Nat
      BY <1>2, <1>3, WayLeads
    <3>2. level[a] = level[b] + 1 /\ level[b] \in Nat /\ level[a] \in Nat /\ level[Root] \in Nat
      BY <1>2, <1>4, <1>5 DEF Levelled, Pages
    <3> QED
      BY <3>1, <3>2
  <2>6. route[o.key][level[a] - 1] = Child(nd[a], o.key)
    BY <1>3, <2>1, <2>2, <2>4, <2>5 DEF Routed
  <2>7. route[o2.key][level[o2.at]] = o2.at
    <3>1. level[a] - 1 = level[b]
      BY <2>5
    <3> QED
      BY <1>7, <2>6, <3>1 DEF b, a
  <2>8. Settled(nd, o2, level, route)
    BY <1>7, <2>1, <2>7 DEF Settled
  <2> QED
    BY <2>1, <2>3, <2>8 DEF Leads
<1>13. Tree(nd, o2, cs, level, C, L)
  BY <1>2, <1>11 DEF Tree
<1> QED
  BY <1>1, <1>12, <1>13 DEF Sound

(* A leaf takes, or gives up, a key.                                       *)
LEMMA StepLeaf ==
  ASSUME NEW nd, NEW o, NEW cs, NEW lost, Sound(nd, o, cs, lost),
         NEW nd2, NEW x, NEW cs2, LeafWritten(nd, nd2, o, x, cs, cs2)
  PROVE  Sound(nd2, Idle, cs2, lost)
<1>1. PICK level, C, L :
        Tree(nd, o, cs, level, C, L) /\ (~lost => \E route : Leads(nd, o, cs, level, C, route))
  BY DEF Sound
<1>2. /\ Frame(nd2, level, C, L) /\ Inhabited(nd2, cs2)
      /\ \A route : Leads(nd, o, cs, level, C, route) => Leads(nd2, Idle, cs2, level, C, route)
  <2>1. Tree(nd, o, cs, level, C, L)
    BY <1>1
  <2>2. Frame(nd2, level, C, L)
    BY <2>1, LeafStep
  <2>3. Inhabited(nd2, cs2)
    BY <2>1, LeafStep
  <2>4. \A route : Leads(nd, o, cs, level, C, route) => Leads(nd2, Idle, cs2, level, C, route)
    BY <2>1, LeafStep
  <2> QED
    BY <2>2, <2>3, <2>4
<1>3. Tree(nd2, Idle, cs2, level, C, L)
  BY <1>2, IdleCall DEF Tree
<1> QED
  BY <1>1, <1>2, <1>3 DEF Sound

(* The call ends without a change: on its way down nothing is lost.        *)
LEMMA StepEnd1 ==
  ASSUME NEW nd, NEW o, NEW cs, NEW lost, Sound(nd, o, cs, lost),
         NEW lost2, ~lost2 => ~lost /\ o.up = NoSplit
  PROVE  Sound(nd, Idle, cs, lost2)
<1>1. PICK level, C, L :
        Tree(nd, o, cs, level, C, L) /\ (~lost => \E route : Leads(nd, o, cs, level, C, route))
  BY DEF Sound
<1>2. Tree(nd, Idle, cs, level, C, L)
  BY <1>1, IdleCall DEF Tree
<1>3. ~lost2 => \E route : Leads(nd, Idle, cs, level, C, route)
  BY <1>1, LeadsIdle
<1> QED
  BY <1>2, <1>3 DEF Sound

(* ... or with a lost page                                                 *)
LEMMA StepLost ==
  ASSUME NEW nd, NEW cs, NEW lost, Sound(nd, Idle, cs, lost),
         NEW nd2, NEW r, Grown(nd, nd2, Root, nd[Root], r, ZeroedPage)
  PROVE  Sound(nd2, Idle, cs, lost)
<1>1. PICK level, C, L :
        Tree(nd, Idle, cs, level, C, L) /\ (~lost => \E route : Leads(nd, Idle, cs, level, C, route))
  BY DEF Sound
<1>2. Frame(nd, level, C, L) /\ Inhabited(nd, cs)
  BY <1>1 DEF Tree
<1>3. level \in [DOMAIN nd -> Nat] /\ r \notin DOMAIN nd /\ 1 \in Nat
  BY <1>2 DEF Frame, Levelled, Grown
<1>4. PICK level2 : LevelAdded(level, level2, DOMAIN nd, r, 1)
  BY <1>3, LevelMore
<1>5. Frame(nd2, level2, C, L)
  BY <1>2, <1>4, FrameLost
<1>6. \A route : Leads(nd, Idle, cs, level, C, route) => Leads(nd2, Idle, cs, level2, C, route)
  BY <1>2, <1>4, LeadsLost
<1>7. Inhabited(nd2, cs)
  <2>1. \A p \in DOMAIN nd : p \in DOMAIN nd2 /\ nd2[p] = nd[p]
    BY DEF Grown
  <2> QED
    BY <1>2, <2>1, InhabitedSame
<1>8. Tree(nd2, Idle, cs, level2, C, L)
  BY <1>5, <1>7, IdleCall DEF Tree
<1> QED
  BY <1>1, <1>6, <1>8 DEF Sound

(* The way back up: a is the parent of the page that has split.            *)
LEMMA ParentIs ==
  ASSUME NEW nd, NEW level, NEW C, NEW L, Frame(nd, level, C, L),
         NEW o, o # Idle, o.up # NoSplit, Calls(nd, level, o),
         NEW a, NEW ci, LastStep(o.path, a, ci)
  PROVE  /\ a \in DOMAIN nd /\ ~nd[a].leaf /\ ~Lost(nd[a])
         /\ ci \in 0 .. Len(nd[a].keys) /\ ci + 1 \in DOMAIN nd[a].items
         /\ Len(nd[a].items) = Len(nd[a].keys) + 1
         /\ Below(nd, o.path) = nd[a].items[ci + 1]
         /\ o.up.key \in Keys /\ o.up.page \in DOMAIN nd /\ o.up.page # Root
         /\ Orphan(nd, o.up.page) /\ ~Lost(nd[o.up.page])
         /\ level[a] = level[o.up.page] + 1
<1> DEFINE path == o.path
           n == Len(path)
<1>1. /\ Way(nd, level, path) /\ o.up.key \in Keys /\ o.up.page \in DOMAIN nd /\ o.up.page # Root
      /\ Orphan(nd, o.up.page) /\ ~Lost(nd[o.up.page]) /\ level[o.up.page] = level[Below(nd, path)]
  BY DEF Calls
<1>2. path # <<>> /\ a = path[n].page /\ ci = path[n].ci
  BY DEF LastStep
<1> HIDE DEF path
<1>3. /\ n \in Nat /\ DOMAIN path = 1 .. n /\ Below(nd, path) \in DOMAIN nd
  BY <1>1, WayLeads
<1>4. n \in DOMAIN path
  <2>1. path \in Seq([page : DOMAIN nd, ci : Nat])
    BY <1>1 DEF Way
  <2>2. n # 0
    BY <1>2, <2>1, EmptySequence
  <2> QED
    BY <1>3, <2>2
<1>5. path[n] \in [page : DOMAIN nd, ci : Nat]
  <2>1. path \in Seq([page : DOMAIN nd, ci : Nat])
    BY <1>1 DEF Way
  <2> QED
    BY <1>4, <2>1, Elements
<1>6. a \in DOMAIN nd /\ ci \in Nat
  BY <1>2, <1>5
<1>7. ~nd[a].leaf /\ ci + 1 \in DOMAIN nd[a].items
  BY <1>1, <1>2, <1>4 DEF Way
<1>8. Below(nd, path) = nd[a].items[ci + 1]
  BY <1>2 DEF Below
<1>9. Pages(nd) /\ Levelled(nd, level)
  BY DEF Frame
<1>10. nd[a] \in NodeType /\ Shaped(nd, nd[a])
  BY <1>6, <1>9, Elements DEF Pages
<1>11. ~Lost(nd[a])
  <2>1. nd[a].items # <<>>
    BY <1>7
  <2> QED
    BY <1>10, <2>1, NotLost
<1>12. Len(nd[a].items) = Len(nd[a].keys) + 1
  BY <1>7, <1>10, <1>11 DEF Shaped
<1>13. ci \in 0 .. Len(nd[a].keys)
  <2>1. ci + 1 \in 1 .. Len(nd[a].keys) + 1 /\ Len(nd[a].keys) \in Nat
    BY <1>7, <1>10, <1>12, PageFields
  <2> QED
    BY <1>6, <2>1
<1>14. level[a] = level[o.up.page] + 1
  BY <1>1, <1>6, <1>7, <1>8, <1>9 DEF Levelled
<1> QED
  BY <1>1, <1>6, <1>7, <1>8, <1>11, <1>12, <1>13, <1>14 DEF path

(* It takes the new sibling in.                                            *)
Takes(n, x, ci, key, page) ==
  ~x.leaf /\ Inserted(n.keys, x.keys, ci, key) /\ Inserted(n.items, x.items, ci + 1, page)

OneMore(n) == Len(n.items) = Len(n.keys) + 1

(* The tree stays one, and every key leads where it led.                   *)
LEMMA ParentTakes ==
  ASSUME NEW nd, NEW level, NEW C, NEW L, NEW cs,
         NEW o, o # Idle, o.up # NoSplit, Tree(nd, o, cs, level, C, L),
         NEW a, NEW ci, LastStep(o.path, a, ci),
         NEW nd2, NEW x, Updated(nd, nd2, a, x), Takes(nd[a], x, ci, o.up.key, o.up.page)
  PROVE  /\ Frame(nd2, level, C, L) /\ Inhabited(nd2, cs) /\ OneMore(x)
         /\ \A c : c # o.up.page /\ Orphan(nd, c) => Orphan(nd2, c)
         /\ \A route : Leads(nd, o, cs, level, C, route) => Leads(nd2, Idle, cs, level, C, route)
<1>1. Frame(nd, level, C, L) /\ Calls(nd, level, o) /\ Inhabited(nd, cs)
  BY DEF Tree
<1> DEFINE q == o.up.page
<1>2. /\ a \in DOMAIN nd /\ ~nd[a].leaf /\ ci \in 0 .. Len(nd[a].keys)
      /\ Len(nd[a].items) = Len(nd[a].keys) + 1
      /\ q \in DOMAIN nd /\ q # Root /\ Orphan(nd, q) /\ ~Lost(nd[q]) /\ level[a] = level[q] + 1
  BY <1>1, ParentIs
<1>3. ~x.leaf /\ Inserted(nd[a].keys, x.keys, ci, o.up.key) /\ Inserted(nd[a].items, x.items, ci + 1, q)
  BY DEF Takes
<1>4. \A route : Leads(nd, o, cs, level, C, route) => Leads(nd2, Idle, cs, level, C, route)
  BY <1>1, <1>3, LeadsParent
<1> HIDE DEF q
<1>5. Len(x.items) = Len(x.keys) + 1 /\ ci + 1 >= 1
  <2>1. Len(x.items) = Len(nd[a].items) + 1 /\ Len(x.keys) = Len(nd[a].keys) + 1 /\ Len(nd[a].keys) \in Nat
    BY <1>3 DEF Inserted
  <2> QED
    BY <1>2, <2>1
<1>6. Frame(nd2, level, C, L) /\ \A c : c # q /\ Orphan(nd, c) => Orphan(nd2, c)
  <2> DEFINE i == ci + 1
  <2>1. i >= 1 /\ Inserted(nd[a].items, x.items, i, q) /\ Len(x.items) = Len(x.keys) + 1 /\ ~x.leaf
    BY <1>3, <1>5
  <2> HIDE DEF i
  <2> QED
    BY <1>1, <1>2, <2>1, FrameParent
<1>8. Inhabited(nd2, cs)
  <2>1. \A p \in DOMAIN nd : nd[p].leaf => p \in DOMAIN nd2 /\ nd2[p] = nd[p]
    BY <1>2 DEF Updated
  <2> QED
    BY <1>1, <2>1, InhabitedSame
<1> QED
  BY <1>4, <1>5, <1>6, <1>8 DEF q, OneMore

(* ParentInsert: the call ends with every page in the tree.                *)
LEMMA StepParentInsert ==
  ASSUME NEW nd, NEW o, NEW cs, NEW lost, Sound(nd, o, cs, lost), o # Idle, o.up # NoSplit,
         NEW a, NEW ci, LastStep(o.path, a, ci),
         NEW nd2, NEW x, Updated(nd, nd2, a, x), Takes(nd[a], x, ci, o.up.key, o.up.page)
  PROVE  Sound(nd2, Idle, cs, lost)
<1>1. PICK level, C, L :
        Tree(nd, o, cs, level, C, L) /\ (~lost => \E route : Leads(nd, o, cs, level, C, route))
  BY DEF Sound
<1>0. Tree(nd, o, cs, level, C, L)
  BY <1>1
<1>2. Frame(nd2, level, C, L)
  BY <1>0, ParentTakes
<1>3. Inhabited(nd2, cs)
  BY <1>0, ParentTakes
<1>4. \A route : Leads(nd, o, cs, level, C, route) => Leads(nd2, Idle, cs, level, C, route)
  BY <1>0, ParentTakes
<1>5. Tree(nd2, Idle, cs, level, C, L)
  BY <1>2, <1>3, IdleCall DEF Tree
<1> QED
  BY <1>1, <1>4, <1>5 DEF Sound

(* A page has split, and the call goes up with its new sibling.            *)
Rises(o, o2, path, key, page) == o2 = [o EXCEPT !.path = path, !.up = [key |-> key, page |-> page]]

(* The call then goes up with a sibling that no node knows yet.            *)
LEMMA CallRises ==
  ASSUME NEW o \in CallType, o.kind # "none", o.key \in Keys, o.kind = "insert" => o.val \in Vals,
         NEW nd, nd \in Seq(NodeType), NEW level, NEW path, Way(nd, level, path), NEW key \in Keys,
         NEW r \in DOMAIN nd, r # Root, Orphan(nd, r), ~Lost(nd[r]), level[r] = level[Below(nd, path)],
         NEW o2, Rises(o, o2, path, key, r), NEW a, a = Below(nd, path)
  PROVE  Calls(nd, level, o2) /\ Pending(nd, o2, a, key, r)
<1> DEFINE up == [key |-> key, page |-> r]
<1>1. Len(nd) \in Nat /\ DOMAIN nd = 1 .. Len(nd) /\ r \in Nat /\ r # 0 /\ key \in Nat
  BY Elements, KeyTypes
<1>2. up \in [key : Nat, page : Nat] /\ up.key = key /\ up.page = r /\ up # NoSplit
  BY <1>1, IdleIs
<1>3. path \in Seq([page : Nat, ci : Nat])
  <2> DEFINE S == [page : DOMAIN nd, ci : Nat]
             T == [page : Nat, ci : Nat]
  <2>1. S \subseteq T /\ path \in Seq(S)
    BY <1>1 DEF Way
  <2> HIDE DEF S, T
  <2>2. path \in Seq(T)
    BY <2>1, WiderSequence
  <2> QED
    BY <2>2 DEF T
<1> HIDE DEF up
<1>4. o2 = [o EXCEPT !.path = path, !.up = up]
  BY DEF Rises, up
<1>5. /\ o2 = [kind |-> o.kind, key |-> o.key, val |-> o.val, at |-> o.at, path |-> path, up |-> up]
      /\ o2.kind = o.kind /\ o2.key = o.key /\ o2.val = o.val /\ o2.path = path /\ o2.up = up
  BY <1>4 DEF CallType
<1>6. o2 \in CallType
  <2>1. o.kind \in {"none", "insert", "delete"} /\ o.key \in Nat /\ o.val \in Vals \cup {NoVal} /\ o.at \in Nat
    BY DEF CallType
  <2> QED
    BY <1>2, <1>3, <1>5, <2>1 DEF CallType
<1>7. o2 # Idle
  BY <1>5, IdleIs
<1>8. Calls(nd, level, o2)
  BY <1>2, <1>5, <1>6, <1>7 DEF Calls
<1> QED
  BY <1>2, <1>5, <1>7, <1>8 DEF Pending

(* A full leaf z is cut in two; y comes behind x.                          *)
Halves(z, x, y, m, mk, r) ==
  /\ Cut(z, x, y, m, 0, mk) /\ z.leaf /\ x.items \in Seq(Vals) /\ y.items \in Seq(Vals)
  /\ x.next = r /\ y.next = z.next /\ Len(z.items) = Len(z.keys)

(* Each key is in one of the halves.                                       *)
LEMMA HalvesHave ==
  ASSUME NEW z, NEW x, NEW y, NEW m, NEW mk, NEW r, Halves(z, x, y, m, mk, r)
  PROVE  /\ x.leaf /\ y.leaf /\ Len(x.items) = Len(x.keys) /\ Len(y.items) = Len(y.keys)
         /\ \A k : Has(z, k) => Has(x, k) \/ Has(y, k)
<1>1. /\ Parted(z.keys, x.keys, y.keys, m, 0) /\ Parted(z.items, x.items, y.items, m + 0, 0)
      /\ x.leaf /\ y.leaf /\ m + 1 \in DOMAIN z.keys
  BY DEF Halves, Cut
<1>2. /\ m \in Nat /\ Len(x.keys) = m /\ Len(y.keys) = Len(z.keys) - m /\ Len(z.keys) \in Nat
      /\ DOMAIN z.keys = 1 .. Len(z.keys)
  BY <1>1 DEF Parted
<1>3. Len(x.items) = m + 0 /\ Len(y.items) = Len(z.items) - (m + 0) /\ Len(z.items) \in Nat
  BY <1>1 DEF Parted
<1>5. Len(x.items) = Len(x.keys) /\ Len(y.items) = Len(y.keys)
  <2>1. Len(z.items) = Len(z.keys)
    BY DEF Halves
  <2> QED
    BY <1>2, <1>3, <2>1
<1>4. ASSUME NEW k, Has(z, k) PROVE Has(x, k) \/ Has(y, k)
  <2>1. PICK j \in DOMAIN z.keys : z.keys[j] = k
    BY <1>4 DEF Has
  <2>2. j <= m \/ j > m + 0
    BY <1>2
  <2>3. \A i \in DOMAIN z.keys : i <= m => i \in DOMAIN x.keys /\ x.keys[i] = z.keys[i]
    BY <1>1, PartedFrom
  <2>4. \A i \in DOMAIN z.keys : i > m + 0 => i - (m + 0) \in DOMAIN y.keys /\ y.keys[i - (m + 0)] = z.keys[i]
    BY <1>1, PartedFrom
  <2> QED
    BY <2>1, <2>2, <2>3, <2>4 DEF Has
<1> QED
  BY <1>1, <1>4, <1>5

(* LeafSplit: the key comes in, and the leaf is cut.                       *)
LEMMA StepLeafSplit ==
  ASSUME NEW nd, NEW o, NEW cs, NEW lost, Sound(nd, o, cs, lost),
         NEW nd1, NEW z, NEW cs2, LeafWritten(nd, nd1, o, z, cs, cs2),
         NEW nd2, NEW x, NEW r, NEW y, Grown(nd, nd2, o.at, x, r, y),
         NEW m, NEW mk, Halves(z, x, y, m, mk, r),
         NEW o2, Rises(o, o2, o.path, mk, r)
  PROVE  Sound(nd2, o2, cs2, lost)
<1> DEFINE a == o.at
           path == o.path
<1>1. PICK level, C, L :
        Tree(nd, o, cs, level, C, L) /\ (~lost => \E route : Leads(nd, o, cs, level, C, route))
  BY DEF Sound
<1>0. Tree(nd, o, cs, level, C, L)
  BY <1>1
<1>2. Frame(nd1, level, C, L)
  BY <1>0, LeafStep
<1>3. Inhabited(nd1, cs2)
  BY <1>0, LeafStep
<1>4. Way(nd1, level, path) /\ a = Below(nd1, path)
  BY <1>0, LeafStep
<1>5. \A route : Leads(nd, o, cs, level, C, route) => Leads(nd1, Idle, cs2, level, C, route)
  BY <1>0, LeafStep
<1>6. Updated(nd, nd1, a, z) /\ o # Idle /\ o.up = NoSplit
  BY DEF LeafWritten
<1>7. Calls(nd, level, o)
  BY <1>0 DEF Tree
<1>8. o \in CallType /\ o.kind # "none" /\ o.key \in Keys /\ (o.kind = "insert" => o.val \in Vals)
  BY <1>6, <1>7 DEF Calls
<1>9. Rises(o, o2, path, mk, r) /\ Grown(nd, nd2, a, x, r, y)
  OBVIOUS
<1> HIDE DEF a, path
<1>10. Grown(nd1, nd2, a, x, r, y)
  BY <1>6, <1>9, GrownAfter
<1>11. nd1[a] = z /\ z \in NodeType
  BY <1>6 DEF Updated
<1>12. /\ a \in DOMAIN nd1 /\ x \in NodeType /\ y \in NodeType /\ r \notin DOMAIN nd1 /\ r \in DOMAIN nd2
       /\ DOMAIN nd2 = DOMAIN nd1 \cup {r} /\ nd2 \in Seq(NodeType) /\ r > Root /\ r \in Nat
       /\ nd2[a] = x /\ nd2[r] = y /\ \A p \in DOMAIN nd1 : p # a => nd2[p] = nd1[p]
  BY <1>10 DEF Grown
<1>13. /\ x.leaf /\ y.leaf /\ z.leaf /\ x.next = r /\ y.next = nd1[a].next /\ mk \in Keys
       /\ x.items \in Seq(Vals) /\ y.items \in Seq(Vals)
       /\ Len(x.items) = Len(x.keys) /\ Len(y.items) = Len(y.keys)
       /\ \A k : Has(z, k) => Has(x, k) \/ Has(y, k)
  <2>1. Cut(z, x, y, m, 0, mk) /\ z.leaf /\ x.next = r /\ y.next = z.next
        /\ x.items \in Seq(Vals) /\ y.items \in Seq(Vals)
    BY DEF Halves
  <2>2. mk \in Keys
    <3>1. m + 1 \in DOMAIN z.keys /\ mk = z.keys[m + 1]
      BY <2>1 DEF Cut
    <3> QED
      BY <1>11, <3>1, PageFields
  <2>3. x.leaf /\ y.leaf /\ Len(x.items) = Len(x.keys) /\ Len(y.items) = Len(y.keys)
    BY HalvesHave
  <2>4. \A k : Has(z, k) => Has(x, k) \/ Has(y, k)
    BY HalvesHave
  <2> QED
    BY <1>11, <2>1, <2>2, <2>3, <2>4
<1>14. Pages(nd1) /\ Levelled(nd1, level) /\ Chained(nd1, C) /\ level \in [DOMAIN nd1 -> Nat] /\ Root \in DOMAIN nd1
  BY <1>2 DEF Frame, Levelled, Pages
<1>15. level[a] = 0
  BY <1>11, <1>12, <1>13, <1>14 DEF Levelled
<1>16. PICK level2 : LevelAdded(level, level2, DOMAIN nd1, r, 0)
  <2>1. 0 \in Nat
    OBVIOUS
  <2> QED
    BY <1>12, <1>14, <2>1, LevelMore
<1>17. PICK i \in DOMAIN C : C[i] = a
  BY <1>11, <1>12, <1>13, <1>14 DEF Chained
<1>18. PICK D \in Seq(DOMAIN nd2) : Inserted(C, D, i, r)
  <2>1. C \in Seq(DOMAIN nd1) /\ DOMAIN nd1 \subseteq DOMAIN nd2
    BY <1>12, <1>14 DEF Chained
  <2>2. C \in Seq(DOMAIN nd2)
    BY <2>1, WiderSequence
  <2>3. i \in 0 .. Len(C)
    <3>1. Len(C) \in Nat /\ DOMAIN C = 1 .. Len(C)
      BY <2>1, Elements
    <3> QED
      BY <3>1
  <2> QED
    BY <1>12, <2>2, <2>3, InsertAtIs
<1>19. Shaped(nd1, x) /\ Shaped(nd1, y)
  BY <1>13 DEF Shaped
<1>20. Frame(nd2, level2, D, L) /\ \A c : Orphan(nd1, c) => Orphan(nd2, c)
  BY <1>2, <1>10, <1>11, <1>13, <1>16, <1>17, <1>18, <1>19, FrameSplitLeaf
<1>21. Orphan(nd2, r)
  BY <1>12, <1>14, <1>20, NewOrphan
<1>22. Inhabited(nd2, cs2)
  <2> SUFFICES ASSUME NEW k \in Keys, cs2[k] # NoVal
               PROVE  \E p \in DOMAIN nd2 : nd2[p].leaf /\ Has(nd2[p], k)
    BY DEF Inhabited
  <2>1. PICK p \in DOMAIN nd1 : nd1[p].leaf /\ Has(nd1[p], k)
    BY <1>3 DEF Inhabited
  <2>2. CASE p = a
    <3>1. Has(x, k) \/ Has(y, k)
      BY <1>11, <1>13, <2>1, <2>2
    <3> QED
      BY <1>12, <1>13, <3>1
  <2>3. CASE p # a
    BY <1>12, <2>1, <2>3
  <2> QED
    BY <2>2, <2>3
<1>23. /\ DOMAIN nd1 \subseteq DOMAIN nd2 /\ level2[r] = 0 /\ level2[a] = 0
       /\ \A p \in DOMAIN nd1 : level2[p] = level[p]
  BY <1>12, <1>15, <1>16 DEF LevelAdded
<1>24. /\ path \in Steps(nd1)
       /\ \A j \in DOMAIN path : j \in DOMAIN path /\ path[j] = path[j] /\ nd2[path[j].page] = nd1[path[j].page]
  <2>1. path \in Seq([page : DOMAIN nd1, ci : Nat])
    BY <1>4 DEF Way
  <2>2. ASSUME NEW j \in DOMAIN path PROVE nd2[path[j].page] = nd1[path[j].page]
    <3>1. path[j] \in [page : DOMAIN nd1, ci : Nat]
      BY <2>1, Elements
    <3>2. path[j].page \in DOMAIN nd1 /\ ~nd1[path[j].page].leaf
      BY <1>4, <3>1 DEF Way
    <3> QED
      BY <1>11, <1>12, <1>13, <3>2
  <2> QED
    BY <2>1, <2>2 DEF Steps
<1>25. Way(nd2, level2, path)
  BY <1>4, <1>14, <1>23, <1>24, WaySame
<1>26. a = Below(nd2, path)
  BY <1>4, <1>14, <1>23, <1>24, WaySame
<1>27. ~Lost(y)
  BY <1>13 DEF Lost
<1>28. Calls(nd2, level2, o2) /\ Pending(nd2, o2, a, mk, r)
  <2>1. level2[r] = level2[Below(nd2, path)] /\ r # Root /\ ~Lost(nd2[r])
    BY <1>12, <1>23, <1>26, <1>27 DEF Root
  <2> QED
    BY <1>8, <1>9, <1>12, <1>13, <1>21, <1>25, <1>26, <2>1, CallRises
<1>29. ASSUME NEW route, Leads(nd, o, cs, level, C, route)
       PROVE  \E route2 : Leads(nd2, o2, cs2, level2, D, route2)
  <2>1. Leads(nd1, Idle, cs2, level, C, route)
    BY <1>5, <1>29
  <2>2. level[Root] \in Nat
    BY <1>14
  <2>3. \A k \in Keys : \A n \in 0 .. level[Root] : route[k][n] \in DOMAIN nd1
    BY <2>1 DEF Leads, Routed
  <2>4. PICK route2 : Rerouted(route, route2, level[Root], DOMAIN nd2, a, mk, r)
    BY <1>12, <1>23, <2>2, <2>3, ReroutedIs
  <2>5. Linked(C, D, a, r, nd1[a].leaf)
    BY <1>11, <1>13, <1>17, <1>18 DEF Linked
  <2>6. Cut(nd1[a], x, y, m, 0, mk)
    BY <1>11 DEF Halves
  <2>7. LevelAdded(level, level2, DOMAIN nd1, r, level[a])
    BY <1>15, <1>16
  <2>8. Leads(nd2, o2, cs2, level2, D, route2)
    BY <1>2, <1>10, <1>28, <2>1, <2>4, <2>5, <2>6, <2>7, LeadsCut
  <2> QED
    BY <2>8
<1>30. Tree(nd2, o2, cs2, level2, D, L)
  BY <1>20, <1>22, <1>28 DEF Tree
<1> QED
  BY <1>1, <1>29, <1>30 DEF Sound

(* The way to the parent itself                                            *)
LEMMA WayBack ==
  ASSUME NEW nd, NEW level, NEW C, NEW L, Frame(nd, level, C, L),
         NEW path, Way(nd, level, path), NEW a, NEW ci, LastStep(path, a, ci),
         NEW path2, path2 = Front(path)
  PROVE  /\ path2 \in Steps(nd) /\ Below(nd, path2) = a
         /\ \A i \in DOMAIN path2 : i \in DOMAIN path /\ path2[i] = path[i]
                                    /\ path[i].page \in DOMAIN nd /\ path[i].page # a
<1> DEFINE n == Len(path)
<1>1. /\ path \in Seq([page : DOMAIN nd, ci : Nat])
      /\ \A i \in DOMAIN path :
           path[i].page = IF i = 1 THEN Root ELSE nd[path[i - 1].page].items[path[i - 1].ci + 1]
  BY DEF Way
<1>2. n \in Nat /\ DOMAIN path = 1 .. n /\ \A i \in DOMAIN path : path[i] \in [page : DOMAIN nd, ci : Nat]
  BY <1>1, Elements
<1>3. path # <<>> /\ a = path[n].page
  BY DEF LastStep
<1>4. n # 0 /\ n \in DOMAIN path /\ n - 1 \in Nat
  <2>1. n # 0
    BY <1>1, <1>3, EmptySequence
  <2> QED
    BY <1>2, <2>1
<1>5. /\ path2 \in Seq([page : DOMAIN nd, ci : Nat]) /\ Len(path2) = n - 1 /\ DOMAIN path2 = 1 .. n - 1
      /\ \A i \in 1 .. n - 1 : path2[i] = path[i]
  <2> DEFINE b == n - 1
  <2>0. path2 = SubSeq(path, 1, b)
    BY DEF Front
  <2>1. b \in Nat /\ 1 \in Nat \ {0} /\ b <= n /\ 1 <= b + 1 /\ b + 1 - 1 = b
    BY <1>4
  <2> HIDE DEF b
  <2>2. /\ SubSeq(path, 1, b) \in Seq([page : DOMAIN nd, ci : Nat]) /\ Len(SubSeq(path, 1, b)) = b + 1 - 1
        /\ DOMAIN SubSeq(path, 1, b) = 1 .. b + 1 - 1
        /\ \A j \in 1 .. b + 1 - 1 : SubSeq(path, 1, b)[j] = path[1 + j - 1]
    <3> DEFINE S == [page : DOMAIN nd, ci : Nat]
    <3>1. path \in Seq(S)
      BY <1>1
    <3> HIDE DEF S
    <3>2. /\ SubSeq(path, 1, b) \in Seq(S) /\ Len(SubSeq(path, 1, b)) = b + 1 - 1
          /\ DOMAIN SubSeq(path, 1, b) = 1 .. b + 1 - 1
          /\ \A j \in 1 .. b + 1 - 1 : SubSeq(path, 1, b)[j] = path[1 + j - 1]
      BY <2>1, <3>1, SubSeqElements
    <3> QED
      BY <3>2 DEF S
  <2>3. \A j \in 1 .. b : 1 + j - 1 = j
    BY <2>1
  <2> QED
    BY <2>0, <2>1, <2>2, <2>3 DEF b
<1>6. ASSUME NEW i \in DOMAIN path2
      PROVE  i \in DOMAIN path /\ path2[i] = path[i] /\ path[i].page \in DOMAIN nd /\ path[i].page # a
  <2>1. i \in DOMAIN path /\ i # n /\ i \in 1 .. n - 1
    BY <1>2, <1>4, <1>5
  <2>2. path[i].page \in DOMAIN nd
    BY <1>2, <2>1
  <2>3. level \in [DOMAIN nd -> Nat] /\ Root \in DOMAIN nd
    BY DEF Frame, Levelled, Pages
  <2>4. path[i].page # a
    BY <1>3, <1>4, <2>1, <2>3, WayDistinct
  <2> QED
    BY <1>5, <2>1, <2>2, <2>4
<1>7. Below(nd, path2) = a
  <2>1. CASE n = 1
    <3>1. path2 = <<>>
      BY <1>5, <2>1, EmptySequence
    <3> QED
      BY <1>1, <1>3, <1>4, <2>1, <3>1 DEF Below
  <2>2. CASE n # 1
    <3>1. n - 1 \in DOMAIN path2 /\ Len(path2) # 0 /\ n - 1 \in 1 .. n - 1
      BY <1>4, <1>5, <2>2
    <3>2. path2 # <<>> /\ path2[Len(path2)] = path[n - 1]
      BY <1>5, <3>1, EmptySequence
    <3> QED
      BY <1>1, <1>3, <1>4, <2>2, <3>2 DEF Below
  <2> QED
    BY <2>1, <2>2
<1> QED
  BY <1>5, <1>6, <1>7 DEF Steps

(* An inner node z that is too long by a child is cut in two.              *)
LEMMA StepParentSplit ==
  ASSUME NEW nd, NEW o, NEW cs, NEW lost, Sound(nd, o, cs, lost), o # Idle, o.up # NoSplit,
         NEW a, NEW ci, LastStep(o.path, a, ci),
         NEW nd1, NEW z, Updated(nd, nd1, a, z), Takes(nd[a], z, ci, o.up.key, o.up.page),
         NEW nd2, NEW x, NEW r, NEW y, Grown(nd, nd2, a, x, r, y),
         NEW m, NEW mk, Cut(z, x, y, m, 1, mk),
         NEW path2, path2 = Front(o.path), NEW o2, Rises(o, o2, path2, mk, r)
  PROVE  Sound(nd2, o2, cs, lost)
<1> DEFINE path == o.path
<1>1. PICK level, C, L :
        Tree(nd, o, cs, level, C, L) /\ (~lost => \E route : Leads(nd, o, cs, level, C, route))
  BY DEF Sound
<1>0. Tree(nd, o, cs, level, C, L)
  BY <1>1
<1>2. Frame(nd1, level, C, L)
  BY <1>0, ParentTakes
<1>3. Inhabited(nd1, cs)
  BY <1>0, ParentTakes
<1>5. \A route : Leads(nd, o, cs, level, C, route) => Leads(nd1, Idle, cs, level, C, route)
  BY <1>0, ParentTakes
<1>6. Frame(nd, level, C, L) /\ Calls(nd, level, o)
  BY <1>0 DEF Tree
<1>7. o \in CallType /\ o.kind # "none" /\ o.key \in Keys /\ (o.kind = "insert" => o.val \in Vals)
      /\ Way(nd, level, path)
  BY <1>6 DEF Calls
<1>4. Len(z.items) = Len(z.keys) + 1
  <2>1. OneMore(z)
    BY <1>0, ParentTakes
  <2> QED
    BY <2>1 DEF OneMore
<1>9. /\ path2 \in Steps(nd) /\ Below(nd, path2) = a
      /\ \A i \in DOMAIN path2 : i \in DOMAIN path /\ path2[i] = path[i]
                                 /\ path[i].page \in DOMAIN nd /\ path[i].page # a
  <2>1. LastStep(path, a, ci) /\ path2 = Front(path)
    OBVIOUS
  <2> HIDE DEF path
  <2> QED
    BY <1>6, <1>7, <2>1, WayBack
<1>10. Grown(nd1, nd2, a, x, r, y)
  BY GrownAfter
<1>11. nd1[a] = z /\ z \in NodeType /\ DOMAIN nd1 = DOMAIN nd
  BY DEF Updated
<1>12. /\ a \in DOMAIN nd1 /\ x \in NodeType /\ y \in NodeType /\ r \notin DOMAIN nd1 /\ r \in DOMAIN nd2
       /\ DOMAIN nd2 = DOMAIN nd1 \cup {r} /\ nd2 \in Seq(NodeType) /\ r # Root
       /\ nd2[a] = x /\ nd2[r] = y /\ \A p \in DOMAIN nd1 : p # a => nd2[p] = nd1[p]
  <2>1. r > Root /\ r \in Nat
    BY <1>10 DEF Grown
  <2>2. r # Root
    BY <2>1 DEF Root
  <2> QED
    BY <1>10, <2>2 DEF Grown
<1>13. /\ Parted(z.keys, x.keys, y.keys, m, 1) /\ Parted(z.items, x.items, y.items, m + 1, 0)
       /\ m + 1 \in DOMAIN z.keys /\ mk = z.keys[m + 1] /\ x.leaf = z.leaf /\ y.leaf = z.leaf
       /\ ~Lost(x) /\ ~Lost(y)
  BY DEF Cut
<1>14. ~z.leaf /\ ~x.leaf /\ ~y.leaf
  BY <1>13 DEF Takes
<1>15. mk \in Keys
  BY <1>11, <1>13, PageFields
<1>16. /\ Len(x.items) = Len(x.keys) + 1 /\ Len(y.items) = Len(y.keys) + 1
       /\ m + 1 >= 1 /\ m + 1 < Len(z.items)
  <2>2. /\ m \in Nat /\ m + 1 <= Len(z.keys) /\ Len(z.keys) \in Nat
        /\ Len(x.keys) = m /\ Len(y.keys) = Len(z.keys) - (m + 1)
    BY <1>13 DEF Parted
  <2>3. Len(x.items) = m + 1 /\ Len(y.items) = Len(z.items) - ((m + 1) + 0)
    BY <1>13 DEF Parted
  <2> QED
    BY <1>4, <2>2, <2>3
<1>17. Pages(nd1) /\ Levelled(nd1, level) /\ level \in [DOMAIN nd1 -> Nat] /\ Root \in DOMAIN nd1
  BY <1>2 DEF Frame, Levelled, Pages
<1>18. PICK level2 : LevelAdded(level, level2, DOMAIN nd1, r, level[a])
  <2>1. level[a] \in Nat
    BY <1>12, <1>17
  <2> QED
    BY <1>12, <1>17, <2>1, LevelMore
<1>19. Frame(nd2, level2, C, L) /\ \A c : Orphan(nd1, c) => Orphan(nd2, c)
  <2> DEFINE e == m + 1
  <2>1. Parted(nd1[a].items, x.items, y.items, e, 0) /\ e >= 1 /\ e < Len(nd1[a].items)
    BY <1>11, <1>13, <1>16
  <2> HIDE DEF e
  <2> QED
    BY <1>2, <1>10, <1>11, <1>14, <1>16, <1>18, <2>1, FrameCut
<1>20. Orphan(nd2, r)
  BY <1>12, <1>17, <1>19, NewOrphan
<1>21. Inhabited(nd2, cs)
  <2>1. \A p \in DOMAIN nd1 : nd1[p].leaf => p \in DOMAIN nd2 /\ nd2[p] = nd1[p]
    BY <1>11, <1>12, <1>14
  <2> QED
    BY <1>3, <2>1, InhabitedSame
<1>22. /\ DOMAIN nd \subseteq DOMAIN nd2 /\ level2[r] = level[a] /\ level2[a] = level[a]
       /\ \A p \in DOMAIN nd : level2[p] = level[p]
  BY <1>11, <1>12, <1>18 DEF LevelAdded
<1>23. \A i \in DOMAIN path2 : i \in DOMAIN path /\ path2[i] = path[i] /\ nd2[path[i].page] = nd[path[i].page]
  <2>1. \A p \in DOMAIN nd : p # a => nd2[p] = nd[p]
    BY DEF Grown
  <2> QED
    BY <1>9, <2>1
<1>24. Root \in DOMAIN nd
  BY <1>11, <1>17
<1> HIDE DEF path
<1>25. Way(nd2, level2, path2)
  BY <1>7, <1>9, <1>22, <1>23, <1>24, WaySame
<1>26. a = Below(nd2, path2)
  BY <1>7, <1>9, <1>22, <1>23, <1>24, WaySame
<1>28. Calls(nd2, level2, o2) /\ Pending(nd2, o2, a, mk, r)
  <2>1. level2[r] = level2[Below(nd2, path2)] /\ ~Lost(nd2[r])
    BY <1>12, <1>13, <1>22, <1>26
  <2> QED
    BY <1>7, <1>12, <1>15, <1>20, <1>25, <1>26, <2>1, CallRises
<1>29. ASSUME NEW route, Leads(nd, o, cs, level, C, route)
       PROVE  \E route2 : Leads(nd2, o2, cs, level2, C, route2)
  <2>1. Leads(nd1, Idle, cs, level, C, route)
    BY <1>5, <1>29
  <2>2. level[Root] \in Nat
    BY <1>17
  <2>3. \A k \in Keys : \A n \in 0 .. level[Root] : route[k][n] \in DOMAIN nd1
    BY <2>1 DEF Leads, Routed
  <2>4. PICK route2 : Rerouted(route, route2, level[Root], DOMAIN nd2, a, mk, r)
    <3>1. DOMAIN nd1 \subseteq DOMAIN nd2 /\ r \in DOMAIN nd2
      BY <1>12
    <3> QED
      BY <2>2, <2>3, <3>1, ReroutedIs
  <2>5. Linked(C, C, a, r, nd1[a].leaf)
    BY <1>11, <1>14 DEF Linked
  <2>6. Cut(nd1[a], x, y, m, 1, mk)
    BY <1>11
  <2>8. Leads(nd2, o2, cs, level2, C, route2)
    BY <1>2, <1>10, <1>18, <1>28, <2>1, <2>4, <2>5, <2>6, LeadsCut
  <2> QED
    BY <2>8
<1>30. Tree(nd2, o2, cs, level2, C, L)
  BY <1>19, <1>21, <1>28 DEF Tree
<1> QED
  BY <1>1, <1>29, <1>30 DEF Sound

(* The root has split: its page moves to r, and it gets the two halves.    *)
LEMMA StepRootSplit ==
  ASSUME NEW nd, NEW o, NEW cs, NEW lost, Sound(nd, o, cs, lost), o # Idle, o.up # NoSplit, o.path = <<>>,
         NEW nd2, NEW x, NEW r, Grown(nd, nd2, Root, x, r, nd[Root]),
         ~x.leaf, Len(x.keys) = 1, x.keys[1] = o.up.key,
         Len(x.items) = 2, DOMAIN x.items = {1, 2}, x.items[1] = r, x.items[2] = o.up.page
  PROVE  Sound(nd2, Idle, cs, lost)
<1> DEFINE q == o.up.page
<1>1. PICK level, C, L :
        Tree(nd, o, cs, level, C, L) /\ (~lost => \E route : Leads(nd, o, cs, level, C, route))
  BY DEF Sound
<1>2. Frame(nd, level, C, L) /\ Calls(nd, level, o) /\ Inhabited(nd, cs)
  BY <1>1 DEF Tree
<1>3. q \in DOMAIN nd /\ Orphan(nd, q) /\ q # Root /\ ~Lost(nd[q]) /\ level[q] = level[Root]
  BY <1>2 DEF Calls, Below
<1>4. /\ level \in [DOMAIN nd -> Nat] /\ Root \in DOMAIN nd /\ level[Root] \in Nat
      /\ C \in Seq(DOMAIN nd) /\ L \in [0 .. level[Root] -> DOMAIN nd]
  BY <1>2 DEF Frame, Levelled, Pages, Chained, Spine
<1>5. r \notin DOMAIN nd /\ DOMAIN nd \subseteq DOMAIN nd2 /\ r \in DOMAIN nd2 /\ Root \in DOMAIN nd2
      /\ nd2[r] = nd[Root] /\ \A p \in DOMAIN nd : p # Root => nd2[p] = nd[p]
  BY <1>4 DEF Grown
<1>6. PICK level2 : Raised(level, level2, DOMAIN nd, r)
  BY <1>4, <1>5, RaisedIs
<1>7. PICK D \in Seq(DOMAIN nd2) : Renamed(C, D, r)
  BY <1>4, <1>5, RenamedIs
<1>8. PICK M : Longer(L, M, level[Root], r, DOMAIN nd2)
  BY <1>4, <1>5, LongerIs
<1>9. Frame(nd2, level2, D, M)
  BY <1>2, <1>3, <1>6, <1>7, <1>8, FrameSplitRoot
<1>10. Inhabited(nd2, cs)
  <2>1. \A p \in DOMAIN nd : \E s \in DOMAIN nd2 : nd2[s] = nd[p]
    BY <1>5
  <2> QED
    BY <1>2, <2>1, InhabitedSame
<1>11. Tree(nd2, Idle, cs, level2, D, M)
  BY <1>9, <1>10, IdleCall DEF Tree
<1>12. ASSUME NEW route, Leads(nd, o, cs, level, C, route)
       PROVE  \E route2 : Leads(nd2, Idle, cs, level2, D, route2)
  <2>1. \A k \in Keys : \A n \in 0 .. level[Root] : route[k][n] \in DOMAIN nd
    BY <1>12 DEF Leads, Routed
  <2>2. PICK route2 : Climbing(route, route2, level[Root], DOMAIN nd2, r)
    BY <1>4, <1>5, <2>1, ClimbingIs
  <2>3. Leads(nd2, Idle, cs, level2, D, route2)
    BY <1>2, <1>6, <1>7, <1>12, <2>2, LeadsRoot
  <2> QED
    BY <2>3
<1> QED
  BY <1>1, <1>11, <1>12 DEF Sound

-----------------------------------------------------------------------------
(* Sequences of one element and of none                                    *)
LEMMA OneElement ==
  ASSUME NEW S, NEW e \in S
  PROVE  <<e>> \in Seq(S) /\ Len(<<e>>) = 1 /\ DOMAIN <<e>> = 1 .. 1 /\ <<e>>[1] = e
OBVIOUS

(* ... of none                                                             *)
LEMMA NoElement == DOMAIN <<>> = {} /\ \A S : <<>> \in Seq(S)
OBVIOUS

(* The first page, an empty leaf, is a tree.                               *)
FirstPage(n) == n = Page(TRUE, <<>>, <<>>, NoPage)

(* btree_create makes a tree.                                              *)
LEMMA SoundAtFirst ==
  ASSUME NEW n, FirstPage(n), NEW nd, nd = <<n>>,
         NEW cs, \A k \in Keys : cs[k] = NoVal
  PROVE  Sound(nd, Idle, cs, FALSE)
<1> DEFINE level == [p \in {1} |-> 0]
           C == <<1>>
           L == [i \in {0} |-> 1]
           route == [k \in Keys |-> [i \in {0} |-> 1]]
<1>1. n \in NodeType /\ n.leaf /\ n.keys = <<>> /\ n.items = <<>> /\ n.next = NoPage /\ NoPage = 0 /\ Root = 1
  BY NoElement DEF FirstPage, Page, NodeType, NoPage, Root
<1>2. nd \in Seq(NodeType) /\ DOMAIN nd = {1} /\ nd[1] = n /\ Len(nd) = 1
  <2>1. 1 .. 1 = {1}
    OBVIOUS
  <2> QED
    BY <1>1, <2>1, OneElement
<1>3. 0 .. 0 = {0} /\ 1 .. 0 = {} /\ 1 .. 1 = {1}
  OBVIOUS
<1>4. level \in [DOMAIN nd -> Nat] /\ level[1] = 0
  BY <1>2
<1>5. L \in [{0} -> DOMAIN nd] /\ L[0] = 1
  BY <1>2
<1>6. C \in Seq(DOMAIN nd) /\ C # <<>> /\ Len(C) = 1 /\ DOMAIN C = {1} /\ C[1] = 1
  BY <1>2, <1>3
<1>7. route \in [Keys -> [{0} -> DOMAIN nd]] /\ \A k \in Keys : route[k][0] = 1
  BY <1>2
<1> HIDE DEF level, L, C, route
<1>0. DOMAIN n.keys = {} /\ DOMAIN n.items = {} /\ nd[1].leaf /\ nd[1].next = 0
  BY <1>1, <1>2, NoElement
<1>8. Pages(nd)
  <2>1. Shaped(nd, n)
    <3>1. <<>> \in Seq(Vals)
      BY NoElement
    <3> QED
      BY <1>1, <3>1 DEF Shaped
  <2> QED
    BY <1>1, <1>2, <2>1 DEF Pages
<1>9. Levelled(nd, level)
  BY <1>0, <1>1, <1>2, <1>4 DEF Levelled
<1>10. OneParent(nd)
  BY <1>0, <1>1, <1>2 DEF OneParent, Orphan, Lost
<1>11. Chained(nd, C)
  BY <1>0, <1>1, <1>2, <1>6 DEF Chained
<1>12. Spine(nd, level, C, L)
  BY <1>1, <1>3, <1>4, <1>5, <1>6 DEF Spine
<1>13. Frame(nd, level, C, L)
  BY <1>8, <1>9, <1>10, <1>11, <1>12 DEF Frame
<1>14. Tree(nd, Idle, cs, level, C, L)
  BY <1>13, IdleCall DEF Tree, Inhabited
<1>15. Leads(nd, Idle, cs, level, C, route)
  <2>1. DOMAIN n.keys = {}
    BY <1>0
  <2>2. Ordered(nd)
    BY <1>2, <2>1 DEF Ordered, Strict
  <2>3. Routed(nd, Idle, level, route)
    <3>1. \A k, p : Moved(nd, Idle, k, p) = p
      BY IdleIs, MovedNot
    <3> QED
      BY <1>0, <1>1, <1>2, <1>3, <1>4, <1>7, <3>1 DEF Routed, Lost
  <2>4. Settled(nd, Idle, level, route)
    BY <1>2, <2>1, IdleIs DEF Settled
  <2>5. Stores(nd, cs, route)
    BY <1>2, <1>7, <2>1 DEF Stores, Has
  <2>6. Rising(C, route)
    BY <1>6 DEF Rising
  <2> QED
    BY <2>2, <2>3, <2>4, <2>5, <2>6 DEF Leads
<1> QED
  BY <1>14, <1>15 DEF Sound

(* The invariant holds at first.                                           *)
LEMMA TreeInvInit == Init => TreeInv
<1> SUFFICES ASSUME Init PROVE TreeInv
  OBVIOUS
<1>1. contents \in [Keys -> Vals \cup {NoVal}] /\ (\A k \in Keys : contents[k] = NoVal) /\ broken = FALSE
  BY DEF Init
<1>2. Sound(node, op, contents, broken)
  <2>1. node = <<Page(TRUE, <<>>, <<>>, NoPage)>> /\ op = Idle
    BY DEF Init
  <2>2. PICK n : FirstPage(n)
    BY DEF FirstPage
  <2>3. node = <<n>>
    BY <2>1, <2>2 DEF FirstPage
  <2>4. Sound(node, Idle, contents, FALSE)
    BY <1>1, <2>2, <2>3, SoundAtFirst
  <2> QED
    BY <1>1, <2>1, <2>4
<1> QED
  BY <1>1, <1>2 DEF TreeInv, Contents

-----------------------------------------------------------------------------
(* The actions. What a running call can rely on:                           *)
LEMMA SoundPages ==
  ASSUME NEW nd, NEW o, NEW cs, NEW lost, Sound(nd, o, cs, lost)
  PROVE  nd \in Seq(NodeType) /\ Root \in DOMAIN nd /\ Len(nd) \in Nat /\ DOMAIN nd = 1 .. Len(nd)
<1>1. PICK level, C, L : Tree(nd, o, cs, level, C, L)
  BY DEF Sound
<1>2. nd \in Seq(NodeType) /\ Root \in DOMAIN nd
  BY <1>1 DEF Tree, Frame, Pages
<1> QED
  BY <1>2, Elements

(* ... on its way down,                                                    *)
LEMMA SoundCall ==
  ASSUME NEW nd, NEW o, NEW cs, NEW lost, Sound(nd, o, cs, lost), o # Idle
  PROVE  /\ o.kind \in {"insert", "delete"} /\ o.key \in Keys /\ (o.kind = "insert" => o.val \in Vals)
         /\ o.up = NoSplit =>
              /\ o.at \in DOMAIN nd /\ nd[o.at] \in NodeType
              /\ nd[o.at].leaf => nd[o.at].items \in Seq(Vals) /\ Len(nd[o.at].items) = Len(nd[o.at].keys)
<1>1. PICK level, C, L : Tree(nd, o, cs, level, C, L)
  BY DEF Sound
<1>2. Frame(nd, level, C, L) /\ Calls(nd, level, o) /\ Pages(nd)
  BY <1>1 DEF Tree, Frame
<1>3. o.kind \in {"insert", "delete"}
  BY <1>2 DEF Calls, CallType
<1>4. o.key \in Keys /\ Way(nd, level, o.path) /\ (o.kind = "insert" => o.val \in Vals)
  BY <1>2 DEF Calls
<1>5. ASSUME o.up = NoSplit
      PROVE  /\ o.at \in DOMAIN nd /\ nd[o.at] \in NodeType
             /\ nd[o.at].leaf => nd[o.at].items \in Seq(Vals) /\ Len(nd[o.at].items) = Len(nd[o.at].keys)
  <2>1. o.at = Below(nd, o.path)
    BY <1>2, <1>5 DEF Calls
  <2>2. o.at \in DOMAIN nd
    BY <1>2, <1>4, <2>1, WayLeads
  <2>3. nd[o.at] \in NodeType /\ Shaped(nd, nd[o.at])
    BY <1>2, <2>2, Elements DEF Pages
  <2> QED
    BY <2>2, <2>3 DEF Shaped
<1> QED
  BY <1>3, <1>4, <1>5

(* ... and on its way up.                                                  *)
LEMMA SoundParent ==
  ASSUME NEW nd, NEW o, NEW cs, NEW lost, Sound(nd, o, cs, lost), o # Idle, o.up # NoSplit
  PROVE  /\ o.up.key \in Keys /\ o.up.page \in DOMAIN nd
         /\ \A a, ci : LastStep(o.path, a, ci) =>
              /\ a \in DOMAIN nd /\ nd[a] \in NodeType /\ ~nd[a].leaf
              /\ ci \in 0 .. Len(nd[a].keys) /\ ci + 1 \in 0 .. Len(nd[a].items)
<1>1. PICK level, C, L : Tree(nd, o, cs, level, C, L)
  BY DEF Sound
<1>2. Frame(nd, level, C, L) /\ Calls(nd, level, o) /\ Pages(nd)
  BY <1>1 DEF Tree, Frame
<1>3. o.up.key \in Keys /\ o.up.page \in DOMAIN nd
  BY <1>2 DEF Calls
<1>4. ASSUME NEW a, NEW ci, LastStep(o.path, a, ci)
      PROVE  /\ a \in DOMAIN nd /\ nd[a] \in NodeType /\ ~nd[a].leaf
             /\ ci \in 0 .. Len(nd[a].keys) /\ ci + 1 \in 0 .. Len(nd[a].items)
  <2>1. a \in DOMAIN nd /\ ~nd[a].leaf /\ ci \in 0 .. Len(nd[a].keys) /\ ci + 1 \in DOMAIN nd[a].items
    BY <1>2, <1>4, ParentIs
  <2>2. nd[a] \in NodeType
    BY <1>2, <2>1, Elements DEF Pages
  <2>3. ci + 1 \in 0 .. Len(nd[a].items)
    <3>1. ci + 1 \in 1 .. Len(nd[a].items) /\ Len(nd[a].items) \in Nat
      BY <2>1, <2>2, PageFields
    <3> QED
      BY <3>1
  <2> QED
    BY <2>1, <2>2, <2>3
<1> QED
  BY <1>3, <1>4

(* Insert and Delete keep the invariant.                                   *)
LEMMA InvStart ==
  ASSUME TreeInv, NEW kind \in {"insert", "delete"}, NEW k \in Keys, NEW v \in Vals \cup {NoVal},
         kind = "insert" => v \in Vals, Start(kind, k, v)
  PROVE  TreeInv'
<1>1. Starts(op', kind, k, v) /\ op = Idle /\ node' = node /\ contents' = contents /\ broken' = broken
  BY DEF Start, Starts
<1>2. Sound(node, Idle, contents, broken)
  BY <1>1 DEF TreeInv
<1>3. Sound(node, op', contents, broken)
  BY <1>1, <1>2, StepStart
<1> QED
  BY <1>1, <1>3 DEF TreeInv, Contents

(* Descend keeps it.                                                       *)
LEMMA InvDescend ==
  ASSUME TreeInv, Descend
  PROVE  TreeInv'
<1>1. op # Idle /\ op.up = NoSplit /\ ~node[op.at].leaf
  BY DEF Descend, GoingDown
<1>2. Deeper(op, op', ChildIndex(node[op.at].keys, op.key), Child(node[op.at], op.key))
  BY DEF Descend, Deeper, Child, Here
<1>3. node' = node /\ contents' = contents /\ broken' = broken
  BY DEF Descend
<1>4. Sound(node, op, contents, broken)
  BY DEF TreeInv
<1>5. Sound(node, op', contents, broken)
  BY <1>1, <1>2, <1>4, StepDescend
<1> QED
  BY <1>3, <1>5 DEF TreeInv, Contents

(* The history of what is stored under one key                             *)
LEMMA ContentsStored ==
  ASSUME Contents, NEW k \in Keys, NEW v \in Vals \cup {NoVal}
  PROVE  /\ [contents EXCEPT ![k] = v] \in [Keys -> Vals \cup {NoVal}]
         /\ [contents EXCEPT ![k] = v][k] = v
         /\ \A j \in Keys : j # k => [contents EXCEPT ![k] = v][j] = contents[j]
BY DEF Contents

(* LeafReplace keeps it.                                                   *)
LEMMA InvLeafReplace ==
  ASSUME TreeInv, LeafReplace
  PROVE  TreeInv'
<1> DEFINE n == node[op.at]
           s == LeafIndex(n.keys, op.key)
           x == [n EXCEPT !.items[s.at + 1] = op.val]
<1>1. op # Idle /\ op.up = NoSplit /\ n.leaf /\ op.kind = "insert" /\ s.found
  BY DEF LeafReplace, GoingDown, Place, Here
<1>2. /\ node' = [node EXCEPT ![op.at] = x] /\ op' = Idle /\ broken' = broken
      /\ contents' = [contents EXCEPT ![op.key] = op.val]
  BY DEF LeafReplace, Stored, Place, Here
<1>3. Sound(node, op, contents, broken) /\ Contents
  BY DEF TreeInv
<1>4. /\ op.key \in Keys /\ op.val \in Vals /\ op.at \in DOMAIN node /\ n \in NodeType
      /\ n.items \in Seq(Vals) /\ Len(n.items) = Len(n.keys)
  BY <1>1, <1>3, SoundCall
<1>5. node \in Seq(NodeType)
  BY <1>3, SoundPages
<1> HIDE DEF n, s, x
<1>6. x \in NodeType /\ LeafChanged(n, x, op.key, op.val)
  BY <1>1, <1>4, ChangeReplace DEF s, x
<1>7. Updated(node, node', op.at, x)
  BY <1>2, <1>4, <1>5, <1>6, UpdatedBy
<1>8. /\ contents' \in [Keys -> Vals \cup {NoVal}] /\ contents'[op.key] = op.val
      /\ \A j \in Keys : j # op.key => contents'[j] = contents[j]
  BY <1>2, <1>3, <1>4, ContentsStored
<1>9. LeafWritten(node, node', op, x, contents, contents')
  BY <1>1, <1>6, <1>7, <1>8 DEF LeafWritten, n
<1>10. Sound(node', Idle, contents', broken)
  BY <1>3, <1>9, StepLeaf
<1> QED
  BY <1>2, <1>3, <1>8, <1>10 DEF TreeInv, Contents

(* LeafDelete keeps it.                                                    *)
LEMMA InvLeafDelete ==
  ASSUME TreeInv, LeafDelete
  PROVE  TreeInv'
<1> DEFINE n == node[op.at]
           s == LeafIndex(n.keys, op.key)
           x == [n EXCEPT !.keys = RemoveAt(@, s.at + 1), !.items = RemoveAt(@, s.at + 1)]
<1>1. op # Idle /\ op.up = NoSplit /\ n.leaf /\ op' = Idle /\ broken' = broken
  BY DEF LeafDelete, GoingDown
<1>2. Sound(node, op, contents, broken) /\ Contents
  BY DEF TreeInv
<1>3. CASE ~s.found
  <2>1. node' = node /\ contents' = contents
    BY <1>3 DEF LeafDelete, Place, Here
  <2>2. Sound(node, Idle, contents, broken)
    BY <1>1, <1>2, StepEnd1
  <2> QED
    BY <1>1, <1>2, <2>1, <2>2 DEF TreeInv, Contents
<1>4. CASE s.found
  <2>1. node' = [node EXCEPT ![op.at] = x] /\ contents' = [contents EXCEPT ![op.key] = NoVal]
    BY <1>4 DEF LeafDelete, Place, Here
  <2>2. /\ op.key \in Keys /\ op.at \in DOMAIN node /\ n \in NodeType
        /\ n.items \in Seq(Vals) /\ Len(n.items) = Len(n.keys)
    BY <1>1, <1>2, SoundCall
  <2>3. node \in Seq(NodeType)
    BY <1>2, SoundPages
  <2> HIDE DEF n, s, x
  <2>4. x \in NodeType /\ LeafChanged(n, x, op.key, NoVal)
    BY <1>1, <1>4, <2>2, ChangeDelete DEF s, x
  <2>5. Updated(node, node', op.at, x)
    BY <2>1, <2>2, <2>3, <2>4, UpdatedBy
  <2>6. /\ contents' \in [Keys -> Vals \cup {NoVal}] /\ contents'[op.key] = NoVal
        /\ \A j \in Keys : j # op.key => contents'[j] = contents[j]
    BY <1>2, <2>1, <2>2, ContentsStored
  <2>7. LeafWritten(node, node', op, x, contents, contents')
    BY <1>1, <2>4, <2>5, <2>6 DEF LeafWritten, n
  <2>8. Sound(node', Idle, contents', broken)
    BY <1>2, <2>7, StepLeaf
  <2> QED
    BY <1>1, <1>2, <2>6, <2>8 DEF TreeInv, Contents
<1> QED
  BY <1>3, <1>4

(* The running call's leaf with the new key in it *)
FullLeaf == Page(TRUE, LeafKeys, LeafItems, Here.next)

(* It is a leaf in order, though it may be too long by one.                *)
LEMMA LeafTakes ==
  ASSUME TreeInv, op # Idle, op.up = NoSplit, Here.leaf, op.kind = "insert", ~Place.found,
         NEW nd1, nd1 = [node EXCEPT ![op.at] = FullLeaf],
         NEW cs2, cs2 = [contents EXCEPT ![op.key] = op.val]
  PROVE  /\ op.at \in DOMAIN node /\ node \in Seq(NodeType) /\ Sound(node, op, contents, broken)
         /\ LeafWritten(node, nd1, op, FullLeaf, contents, cs2) /\ cs2 \in [Keys -> Vals \cup {NoVal}]
         /\ FullLeaf \in NodeType /\ FullLeaf.leaf /\ FullLeaf.next = Here.next
         /\ FullLeaf.keys = LeafKeys /\ FullLeaf.items = LeafItems
         /\ LeafKeys \in Seq(Keys) /\ LeafItems \in Seq(Vals)
         /\ Len(LeafKeys) = Len(Here.keys) + 1 /\ Len(LeafItems) = Len(LeafKeys)
<1> DEFINE n == Here
           s == Place
           keys == LeafKeys
           items == LeafItems
           next == Here.next
<1>1. Sound(node, op, contents, broken) /\ Contents
  BY DEF TreeInv
<1>2. /\ op.key \in Keys /\ op.val \in Vals /\ op.at \in DOMAIN node /\ n \in NodeType
      /\ n.items \in Seq(Vals) /\ Len(n.items) = Len(n.keys)
  BY <1>1, SoundCall DEF Here
<1>3. node \in Seq(NodeType)
  BY <1>1, SoundPages
<1>4. s = LeafIndex(n.keys, op.key) /\ LeafMore(n, keys, items, next, s.at, op.key, op.val)
  BY DEF Place, LeafMore, LeafKeys, LeafItems
<1>5. FullLeaf = Page(TRUE, keys, items, next) /\ n.leaf /\ ~s.found
  BY DEF FullLeaf
<1>6. n = node[op.at]
  BY DEF Here
<1> HIDE DEF n, s, keys, items, next
<1>7. /\ FullLeaf \in NodeType /\ LeafChanged(n, FullLeaf, op.key, op.val)
      /\ Inserted(n.keys, keys, s.at, op.key) /\ Inserted(n.items, items, s.at, op.val)
      /\ keys \in Seq(Keys) /\ items \in Seq(Vals)
  BY <1>2, <1>4, <1>5, ChangeInsert
<1>8. FullLeaf.leaf /\ FullLeaf.next = next /\ FullLeaf.keys = keys /\ FullLeaf.items = items
  BY <1>5 DEF Page
<1>9. Len(keys) = Len(n.keys) + 1 /\ Len(items) = Len(n.items) + 1
  BY <1>7 DEF Inserted
<1>10. Updated(node, nd1, op.at, FullLeaf)
  BY <1>2, <1>3, <1>7, UpdatedBy
<1>11. /\ cs2 \in [Keys -> Vals \cup {NoVal}] /\ cs2[op.key] = op.val
       /\ \A j \in Keys : j # op.key => cs2[j] = contents[j]
  BY <1>1, <1>2, ContentsStored
<1>12. LeafWritten(node, nd1, op, FullLeaf, contents, cs2)
  BY <1>5, <1>6, <1>7, <1>10, <1>11 DEF LeafWritten
<1> QED
  BY <1>1, <1>2, <1>3, <1>7, <1>8, <1>9, <1>11, <1>12 DEF n, keys, items, next

(* LeafInsert keeps it.                                                    *)
LEMMA InvLeafInsert ==
  ASSUME TreeInv, LeafInsert
  PROVE  TreeInv'
<1>1. op # Idle /\ op.up = NoSplit /\ Here.leaf /\ op.kind = "insert" /\ ~Place.found
  BY DEF LeafInsert, GoingDown, Here
<1>2. /\ node' = [node EXCEPT ![op.at] = FullLeaf] /\ op' = Idle /\ broken' = broken
      /\ contents' = [contents EXCEPT ![op.key] = op.val]
  BY DEF LeafInsert, Stored, FullLeaf, Here
<1>3. /\ Sound(node, op, contents, broken) /\ LeafWritten(node, node', op, FullLeaf, contents, contents')
      /\ contents' \in [Keys -> Vals \cup {NoVal}]
  BY <1>1, <1>2, LeafTakes
<1>4. Sound(node', Idle, contents', broken)
  BY <1>3, StepLeaf
<1> QED
  BY <1>2, <1>3, <1>4 DEF TreeInv, Contents

(* A node that is too long by a key is cut as the code cuts it.            *)
Slices(z, x, y, m, g) ==
  /\ x.leaf = z.leaf /\ y.leaf = z.leaf /\ (g = IF z.leaf THEN 0 ELSE 1)
  /\ x.keys = SubSeq(z.keys, 1, m) /\ y.keys = SubSeq(z.keys, m + g + 1, Len(z.keys))
  /\ x.items = SubSeq(z.items, 1, m + g) /\ y.items = SubSeq(z.items, m + g + 1, Len(z.items))

(* That is a cut at key m + 1.                                             *)
LEMMA SlicesCut ==
  ASSUME NEW z, NEW x, NEW y, NEW m \in Nat, NEW g \in Nat, Slices(z, x, y, m, g), m >= 1,
         m + 1 <= Len(z.keys), m + g + 1 <= Len(z.items), Len(z.items) \in Nat, Len(z.keys) \in Nat,
         z.keys \in Seq(Keys), NEW S, z.items \in Seq(S)
  PROVE  /\ Cut(z, x, y, m, g, z.keys[m + 1])
         /\ x.keys \in Seq(Keys) /\ y.keys \in Seq(Keys) /\ x.items \in Seq(S) /\ y.items \in Seq(S)
<1> DEFINE e == m + g
           keys == z.keys
           items == z.items
<1>1. /\ x.leaf = z.leaf /\ y.leaf = z.leaf /\ (g = IF z.leaf THEN 0 ELSE 1)
      /\ x.keys = SubSeq(keys, 1, m) /\ y.keys = SubSeq(keys, m + g + 1, Len(keys))
      /\ x.items = SubSeq(items, 1, e) /\ y.items = SubSeq(items, e + 0 + 1, Len(items))
  <2>1. e + 0 + 1 = m + g + 1
    OBVIOUS
  <2> QED
    BY <2>1 DEF Slices
<1>2. keys \in Seq(Keys) /\ items \in Seq(S) /\ e \in Nat /\ 0 \in Nat /\ e + 0 <= Len(items) /\ m + g <= Len(keys)
  <2>1. g \in {0, 1}
    BY <1>1
  <2> QED
    BY <2>1
<1>3. DOMAIN keys = 1 .. Len(keys) /\ m + 1 \in DOMAIN keys
  <2>1. m + 1 \in 1 .. Len(keys)
    OBVIOUS
  <2> QED
    BY <1>2, <2>1, Elements
<1>0. e + 1 <= Len(items) /\ Len(items) \in Nat
  OBVIOUS
<1> HIDE DEF e, keys, items
<1>4. x.keys \in Seq(Keys) /\ y.keys \in Seq(Keys) /\ Parted(keys, x.keys, y.keys, m, g)
  <2>1. /\ x.keys = SubSeq(keys, 1, m) /\ y.keys = SubSeq(keys, m + g + 1, Len(keys))
        /\ keys \in Seq(Keys) /\ m + g <= Len(keys)
    BY <1>1, <1>2
  <2> QED
    BY <2>1, PartedBy
<1>5. x.items \in Seq(S) /\ y.items \in Seq(S) /\ Parted(items, x.items, y.items, e, 0)
  <2> DEFINE nil == 0
  <2>1. x.items = SubSeq(items, 1, e) /\ y.items = SubSeq(items, e + nil + 1, Len(items)) /\ nil \in Nat /\ e + nil <= Len(items)
    BY <1>1, <1>2
  <2> HIDE DEF nil
  <2>2. x.items \in Seq(S) /\ y.items \in Seq(S) /\ Parted(items, x.items, y.items, e, nil)
    BY <1>2, <2>1, PartedBy
  <2> QED
    BY <2>2 DEF nil
<1>6. x.items # <<>> /\ y.items # <<>>
  <2>1. Len(x.items) = e /\ Len(y.items) = Len(items) - (e + 0)
    BY <1>5 DEF Parted
  <2>2. e >= 1
    BY DEF e
  <2>3. Len(x.items) # 0 /\ Len(y.items) # 0
    BY <1>0, <1>2, <2>1, <2>2
  <2> QED
    BY <1>5, <2>3, EmptySequence
<1>7. Cut(z, x, y, m, g, keys[m + 1])
  BY <1>1, <1>3, <1>4, <1>5, <1>6 DEF Cut, e, keys, items, Lost
<1> QED
  BY <1>4, <1>5, <1>7 DEF keys

(* LeafSplit keeps it.                                                     *)
LEMMA InvLeafSplit ==
  ASSUME TreeInv, LeafSplit
  PROVE  TreeInv'
<1> DEFINE total == Order + 1
           m == total \div 2
           r == Len(node) + 1
           z == FullLeaf
           y == Page(TRUE, SubSeq(LeafKeys, m + 1, total), SubSeq(LeafItems, m + 1, total), RightNext)
           x == Page(TRUE, SubSeq(LeafKeys, 1, m), SubSeq(LeafItems, 1, m), r)
           nd1 == [node EXCEPT ![op.at] = z]
<1>1. op # Idle /\ op.up = NoSplit /\ Here.leaf /\ op.kind = "insert" /\ ~Place.found /\ Len(Here.keys) = Order
  BY DEF LeafSplit, GoingDown, Here
<1>2. /\ node' = Append([node EXCEPT ![op.at] = x], y) /\ broken' = broken
      /\ op' = [op EXCEPT !.up = [key |-> y.keys[1], page |-> r]]
      /\ contents' = [contents EXCEPT ![op.key] = op.val]
  BY DEF LeafSplit, Stored
<1>3. /\ op.at \in DOMAIN node /\ node \in Seq(NodeType) /\ Sound(node, op, contents, broken)
      /\ LeafWritten(node, nd1, op, z, contents, contents') /\ contents' \in [Keys -> Vals \cup {NoVal}]
      /\ z \in NodeType /\ z.leaf /\ z.next = Here.next
      /\ z.keys = LeafKeys /\ z.items = LeafItems
      /\ LeafKeys \in Seq(Keys) /\ LeafItems \in Seq(Vals)
      /\ Len(LeafKeys) = Len(Here.keys) + 1 /\ Len(LeafItems) = Len(LeafKeys)
  BY <1>1, <1>2, LeafTakes
<1>4. Order \in Nat /\ Order >= 2
  BY KeyTypes
<1>5. /\ m \in Nat /\ m >= 1 /\ m + 1 <= Len(z.keys) /\ m + 0 + 1 = m + 1 /\ m + 0 + 1 <= Len(z.items)
      /\ Len(z.keys) = total /\ Len(z.items) = total /\ total \in Nat /\ m + 0 = m /\ r \in Nat
  <2>1. Len(node) \in Nat
    BY <1>3, SoundPages
  <2> QED
    BY <1>1, <1>3, <1>4, <2>1
<1>6. RightNext = z.next /\ z.next \in Nat
  BY <1>3, PageFields DEF RightNext
<1>7. /\ x.leaf /\ y.leaf /\ x.next = r /\ y.next = z.next
      /\ x.keys = SubSeq(z.keys, 1, m) /\ y.keys = SubSeq(z.keys, m + 0 + 1, Len(z.keys))
      /\ x.items = SubSeq(z.items, 1, m + 0) /\ y.items = SubSeq(z.items, m + 0 + 1, Len(z.items))
      /\ x = Page(TRUE, x.keys, x.items, r) /\ y = Page(TRUE, y.keys, y.items, z.next)
  BY <1>3, <1>5, <1>6 DEF Page
<1> HIDE DEF total, m, z, x, y, nd1, r
<1>8. Slices(z, x, y, m, 0)
  BY <1>3, <1>7 DEF Slices
<1>9. /\ Cut(z, x, y, m, 0, z.keys[m + 1])
      /\ x.keys \in Seq(Keys) /\ y.keys \in Seq(Keys) /\ x.items \in Seq(Vals) /\ y.items \in Seq(Vals)
  <2> DEFINE nil == 0
  <2>1. /\ m \in Nat /\ m >= 1 /\ m + 1 <= Len(z.keys) /\ m + nil + 1 <= Len(z.items) /\ nil \in Nat
        /\ Slices(z, x, y, m, nil) /\ z.keys \in Seq(Keys) /\ z.items \in Seq(Vals)
        /\ Len(z.items) \in Nat /\ Len(z.keys) \in Nat
    BY <1>3, <1>5, <1>8
  <2> HIDE DEF nil
  <2>2. /\ Cut(z, x, y, m, nil, z.keys[m + 1])
        /\ x.keys \in Seq(Keys) /\ y.keys \in Seq(Keys) /\ x.items \in Seq(Vals) /\ y.items \in Seq(Vals)
    BY <2>1, SlicesCut
  <2> QED
    BY <2>2 DEF nil
<1>10. x \in NodeType /\ y \in NodeType
  <2>1. x.items \in Seq(Vals \cup Nat) /\ y.items \in Seq(Vals \cup Nat)
    BY <1>9, WiderSequence
  <2> QED
    BY <1>5, <1>6, <1>7, <1>9, <2>1 DEF Page, NodeType
<1>11. y.keys[1] = z.keys[m + 1]
  <2>1. Parted(z.keys, x.keys, y.keys, m, 0)
    BY <1>9 DEF Cut
  <2>2. 1 \in 1 .. Len(z.keys) - (m + 0) /\ m + 0 + 1 = m + 1
    BY <1>5
  <2> QED
    BY <2>1, <2>2 DEF Parted
<1>12. Grown(node, node', op.at, x, r, y)
  <2>1. Root \in DOMAIN node
    BY <1>3, SoundPages
  <2> QED
    BY <1>2, <1>3, <1>10, <2>1, GrownBy DEF r
<1> DEFINE mk == z.keys[m + 1]
<1>13. Rises(op, op', op.path, mk, r)
  <2>1. op' = [op EXCEPT !.up = [key |-> mk, page |-> r]]
    BY <1>2, <1>11
  <2>2. op \in CallType
    BY <1>3 DEF Sound, Tree, Calls
  <2> QED
    BY <2>1, <2>2 DEF Rises, CallType
<1>14. Halves(z, x, y, m, mk, r)
  BY <1>3, <1>5, <1>7, <1>9 DEF Halves
<1> HIDE DEF mk
<1>15. Sound(node', op', contents', broken)
  BY <1>3, <1>12, <1>13, <1>14, StepLeafSplit
<1> QED
  BY <1>2, <1>3, <1>15 DEF TreeInv, Contents

(* The parent with its new child in it                                     *)
FullParent == Page(FALSE, ParentKeys, ParentItems, Parent.next)

(* It is a node in order, though it may be too long by one.                *)
LEMMA ParentFull ==
  ASSUME Sound(node, op, contents, broken), op # Idle, op.up # NoSplit, op.path # <<>>
  PROVE  /\ LastStep(op.path, Up.page, Up.ci) /\ Up.page \in DOMAIN node
         /\ FullParent \in NodeType /\ ~FullParent.leaf /\ FullParent.next = Parent.next
         /\ Takes(node[Up.page], FullParent, Up.ci, op.up.key, op.up.page)
         /\ FullParent.keys = ParentKeys /\ FullParent.items = ParentItems
         /\ ParentKeys \in Seq(Keys) /\ ParentItems \in Seq(Vals \cup Nat)
         /\ Len(ParentKeys) = Len(Parent.keys) + 1
<1> DEFINE a == Up.page
           ci == Up.ci
           n == node[a]
<1>1. LastStep(op.path, a, ci)
  BY DEF LastStep, Up, Last
<1>2. /\ op.up.key \in Keys /\ op.up.page \in DOMAIN node
      /\ a \in DOMAIN node /\ n \in NodeType /\ ci \in 0 .. Len(n.keys) /\ ci + 1 \in 0 .. Len(n.items)
  <2> HIDE DEF a, ci
  <2>1. /\ op.up.key \in Keys /\ op.up.page \in DOMAIN node
        /\ \A b, c : LastStep(op.path, b, c) =>
              /\ b \in DOMAIN node /\ node[b] \in NodeType /\ ~node[b].leaf
              /\ c \in 0 .. Len(node[b].keys) /\ c + 1 \in 0 .. Len(node[b].items)
    BY SoundParent
  <2> QED
    BY <1>1, <2>1
<1>3. op.up.page \in Vals \cup Nat
  <2>1. DOMAIN node = 1 .. Len(node)
    BY SoundPages
  <2> QED
    BY <1>2, <2>1
<1>4. n.keys \in Seq(Keys) /\ n.items \in Seq(Vals \cup Nat) /\ n.next \in Nat
  BY <1>2, PageFields
<1>5. n = Parent /\ ParentKeys = InsertAt(n.keys, ci + 1, op.up.key)
      /\ ParentItems = InsertAt(n.items, ci + 2, op.up.page)
  BY DEF Parent, ParentKeys, ParentItems
<1> HIDE DEF a, ci, n
<1>6. ParentKeys \in Seq(Keys) /\ Inserted(n.keys, ParentKeys, ci, op.up.key)
  BY <1>2, <1>4, <1>5, InsertAtIs
<1>7. ParentItems \in Seq(Vals \cup Nat) /\ Inserted(n.items, ParentItems, ci + 1, op.up.page)
  <2> DEFINE e == ci + 1
             S == Vals \cup Nat
  <2>1. e \in 0 .. Len(n.items) /\ e + 1 = ci + 2 /\ n.items \in Seq(S) /\ op.up.page \in S
    BY <1>2, <1>3, <1>4
  <2>2. ParentItems = InsertAt(n.items, e + 1, op.up.page)
    BY <1>5, <2>1
  <2> HIDE DEF e, S
  <2>3. ParentItems \in Seq(S) /\ Inserted(n.items, ParentItems, e, op.up.page)
    BY <2>1, <2>2, InsertAtIs
  <2> QED
    BY <2>3 DEF e, S
<1>8. /\ FullParent \in NodeType /\ ~FullParent.leaf /\ FullParent.next = n.next
      /\ FullParent.keys = ParentKeys /\ FullParent.items = ParentItems
  BY <1>4, <1>5, <1>6, <1>7 DEF FullParent, Page, NodeType
<1>9. Takes(n, FullParent, ci, op.up.key, op.up.page)
  BY <1>6, <1>7, <1>8 DEF Takes
<1>10. Len(ParentKeys) = Len(n.keys) + 1
  BY <1>6 DEF Inserted
<1> QED
  BY <1>1, <1>2, <1>5, <1>6, <1>7, <1>8, <1>9, <1>10 DEF a, ci, n

(* A call on its way up is running.                                        *)
LEMMA UpCall ==
  ASSUME NEW o, NEW nd, NEW cs, NEW lost, Sound(nd, o, cs, lost), o.up # NoSplit
  PROVE  o # Idle
BY IdleIs

(* ParentInsert keeps it.                                                  *)
LEMMA InvParentInsert ==
  ASSUME TreeInv, ParentInsert
  PROVE  TreeInv'
<1>1. op.up # NoSplit /\ op.path # <<>> /\ op' = Idle /\ contents' = contents /\ broken' = broken
  BY DEF ParentInsert, GoingUp
<1>2. node' = [node EXCEPT ![Up.page] = FullParent]
  BY DEF ParentInsert, FullParent, Parent
<1>3. Sound(node, op, contents, broken) /\ op # Idle /\ node \in Seq(NodeType)
  BY <1>1, UpCall, SoundPages DEF TreeInv
<1> DEFINE a == Up.page
           ci == Up.ci
<1>4. /\ LastStep(op.path, a, ci) /\ a \in DOMAIN node
      /\ FullParent \in NodeType /\ Takes(node[a], FullParent, ci, op.up.key, op.up.page)
  BY <1>1, <1>3, ParentFull
<1>5. Updated(node, node', a, FullParent)
  BY <1>2, <1>3, <1>4, UpdatedBy
<1> HIDE DEF a, ci
<1>6. Sound(node', Idle, contents, broken)
  BY <1>1, <1>3, <1>4, <1>5, StepParentInsert
<1> QED
  BY <1>1, <1>6 DEF TreeInv, Contents

(* ParentSplit keeps it.                                                   *)
LEMMA InvParentSplit ==
  ASSUME TreeInv, ParentSplit
  PROVE  TreeInv'
<1> DEFINE total == Order + 1
           m == total \div 2
           r == Len(node) + 1
           z == FullParent
           a == Up.page
           ci == Up.ci
           S == Vals \cup Nat
           x == Page(FALSE, SubSeq(ParentKeys, 1, m), SubSeq(ParentItems, 1, m + 1), Parent.next)
           y == Page(FALSE, SubSeq(ParentKeys, m + 2, total), SubSeq(ParentItems, m + 2, total + 1), NoPage)
           nd1 == [node EXCEPT ![a] = z]
           mk == ParentKeys[m + 1]
           path2 == Front(op.path)
<1>1. op.up # NoSplit /\ op.path # <<>> /\ Len(Parent.keys) = Order
  BY DEF ParentSplit, GoingUp
<1>2. /\ node' = Append([node EXCEPT ![a] = x], y) /\ broken' = broken /\ contents' = contents
      /\ Rises(op, op', path2, mk, r)
  BY DEF ParentSplit, Rises
<1>3. Sound(node, op, contents, broken) /\ op # Idle
      /\ node \in Seq(NodeType) /\ Len(node) \in Nat /\ Root \in DOMAIN node
  BY <1>1, UpCall, SoundPages DEF TreeInv
<1>4. /\ LastStep(op.path, a, ci) /\ a \in DOMAIN node
      /\ z \in NodeType /\ ~z.leaf /\ z.next = Parent.next
      /\ Takes(node[a], z, ci, op.up.key, op.up.page)
      /\ z.keys = ParentKeys /\ z.items = ParentItems
      /\ ParentKeys \in Seq(Keys) /\ ParentItems \in Seq(S)
      /\ Len(ParentKeys) = Len(Parent.keys) + 1
  BY <1>1, <1>3, ParentFull
<1>5. Updated(node, nd1, a, z)
  BY <1>3, <1>4, UpdatedBy
<1>6. OneMore(z)
  <2>1. PICK level, C, L : Tree(node, op, contents, level, C, L)
    BY <1>3 DEF Sound
  <2> HIDE DEF a, ci, z, nd1
  <2> QED
    BY <1>1, <1>3, <1>4, <1>5, <2>1, ParentTakes
<1>7. Order \in Nat /\ Order >= 2
  BY KeyTypes
<1>8. /\ m \in Nat /\ m >= 1 /\ m + 1 <= Len(z.keys) /\ m + 1 + 1 = m + 2 /\ m + 1 + 1 <= Len(z.items)
      /\ Len(z.keys) = total /\ Len(z.items) = total + 1 /\ total \in Nat /\ r \in Nat
      /\ Len(z.keys) \in Nat /\ Len(z.items) \in Nat
  <2>1. Len(z.items) = Len(z.keys) + 1
    BY <1>6 DEF OneMore
  <2> QED
    BY <1>1, <1>3, <1>4, <1>7, <2>1
<1>9. z.next \in Nat /\ NoPage \in Nat
  BY <1>4, PageFields DEF NoPage
<1>10. /\ ~x.leaf /\ ~y.leaf
       /\ x.keys = SubSeq(z.keys, 1, m) /\ y.keys = SubSeq(z.keys, m + 1 + 1, Len(z.keys))
       /\ x.items = SubSeq(z.items, 1, m + 1) /\ y.items = SubSeq(z.items, m + 1 + 1, Len(z.items))
       /\ x = Page(FALSE, x.keys, x.items, z.next) /\ y = Page(FALSE, y.keys, y.items, NoPage)
  BY <1>4, <1>8 DEF Page
<1>11. mk = z.keys[m + 1]
  BY <1>4
<1>0. path2 = Front(op.path) /\ r = Len(node) + 1
  OBVIOUS
<1> HIDE DEF total, m, z, x, y, nd1, a, ci, mk, path2
<1>12. Slices(z, x, y, m, 1)
  <2>1. x.leaf = z.leaf /\ y.leaf = z.leaf
    BY <1>4, <1>10 DEF x, y, Page, z, FullParent
  <2> QED
    BY <1>4, <1>10, <2>1 DEF Slices
<1>13. /\ Cut(z, x, y, m, 1, mk)
       /\ x.keys \in Seq(Keys) /\ y.keys \in Seq(Keys) /\ x.items \in Seq(S) /\ y.items \in Seq(S)
  <2> DEFINE one == 1
  <2>1. /\ m \in Nat /\ m >= 1 /\ m + 1 <= Len(z.keys) /\ m + one + 1 <= Len(z.items) /\ one \in Nat
        /\ Slices(z, x, y, m, one) /\ z.keys \in Seq(Keys) /\ z.items \in Seq(S)
        /\ Len(z.items) \in Nat /\ Len(z.keys) \in Nat
    BY <1>4, <1>8, <1>12
  <2> HIDE DEF one, S
  <2>2. /\ Cut(z, x, y, m, one, z.keys[m + 1])
        /\ x.keys \in Seq(Keys) /\ y.keys \in Seq(Keys) /\ x.items \in Seq(S) /\ y.items \in Seq(S)
    BY <2>1, SlicesCut
  <2> QED
    BY <1>11, <2>2 DEF one
<1>14. x \in NodeType /\ y \in NodeType
  <2>1. \A keys \in Seq(Keys), items \in Seq(S), next \in Nat : Page(FALSE, keys, items, next) \in NodeType
    BY DEF Page, NodeType
  <2>2. x = Page(FALSE, x.keys, x.items, z.next) /\ y = Page(FALSE, y.keys, y.items, NoPage)
    BY <1>10
  <2> HIDE DEF S
  <2> QED
    BY <1>9, <1>13, <2>1, <2>2
<1>15. Grown(node, node', a, x, r, y)
  BY <1>2, <1>3, <1>4, <1>14, GrownBy
<1> HIDE DEF r
<1>16. Sound(node', op', contents, broken)
  BY <1>0, <1>1, <1>2, <1>3, <1>4, <1>5, <1>13, <1>15, StepParentSplit
<1> QED
  BY <1>2, <1>16 DEF TreeInv, Contents

(* RootSplit keeps it.                                                     *)
LEMMA InvRootSplit ==
  ASSUME TreeInv, RootSplit
  PROVE  TreeInv'
<1> DEFINE r == Len(node) + 1
           x == Page(FALSE, <<op.up.key>>, <<r, op.up.page>>, NoPage)
<1>1. op.up # NoSplit /\ op.path = <<>> /\ op' = Idle /\ contents' = contents /\ broken' = broken
  BY DEF RootSplit, GoingUp
<1>2. node' = Append([node EXCEPT ![Root] = x], node[Root])
  BY DEF RootSplit
<1>3. Sound(node, op, contents, broken) /\ op # Idle
      /\ node \in Seq(NodeType) /\ Len(node) \in Nat /\ Root \in DOMAIN node /\ DOMAIN node = 1 .. Len(node)
  BY <1>1, UpCall, SoundPages DEF TreeInv
<1>4. op.up.key \in Keys /\ op.up.page \in DOMAIN node
  BY <1>1, <1>3, SoundParent
<1>5. /\ <<op.up.key>> \in Seq(Keys) /\ Len(<<op.up.key>>) = 1 /\ <<op.up.key>>[1] = op.up.key
  BY <1>4, OneElement
<1>6. op.up.page \in Vals \cup Nat /\ r \in Vals \cup Nat
  BY <1>3, <1>4
<1> DEFINE items == <<r, op.up.page>>
<1>7. /\ items \in Seq(Vals \cup Nat) /\ Len(items) = 2 /\ DOMAIN items = {1, 2}
      /\ items[1] = r /\ items[2] = op.up.page
  <2>1. 1 .. 2 = {1, 2}
    OBVIOUS
  <2> HIDE DEF r
  <2>2. items \in Seq(Vals \cup Nat) /\ Len(items) = 2 /\ DOMAIN items = 1 .. 2
      /\ items[1] = r /\ items[2] = op.up.page
    BY <1>6
  <2> QED
    BY <2>1, <2>2
<1> HIDE DEF items
<1>8. /\ x \in NodeType /\ ~x.leaf /\ x.keys = <<op.up.key>> /\ x.items = items
  BY <1>5, <1>7 DEF Page, NodeType, NoPage, items
<1>9. node[Root] \in NodeType
  BY <1>3, Elements
<1> HIDE DEF x
<1>10. Grown(node, node', Root, x, r, node[Root])
  BY <1>2, <1>3, <1>8, <1>9, GrownBy
<1> HIDE DEF r
<1>11. Len(x.keys) = 1 /\ x.keys[1] = op.up.key /\ Len(x.items) = 2 /\ DOMAIN x.items = {1, 2}
       /\ x.items[1] = r /\ x.items[2] = op.up.page
  BY <1>5, <1>7, <1>8
<1>12. Sound(node', Idle, contents, broken)
  BY <1>1, <1>3, <1>8, <1>10, <1>11, StepRootSplit
<1> QED
  BY <1>1, <1>12 DEF TreeInv, Contents

(* Fail and OutOfPages keep it, wherever the call stands.                  *)
LEMMA InvAbandon ==
  ASSUME TreeInv, Abandon, node' = node \/ node' = Append(node, ZeroedPage)
  PROVE  TreeInv'
<1>1. /\ op' = Idle /\ broken' = (broken \/ GoingUp) /\ contents' = contents
      /\ Sound(node, op, contents, broken) /\ broken \in BOOLEAN
  BY DEF Abandon, TreeInv, Contents
<1>2. broken' \in BOOLEAN /\ (~broken' => ~broken /\ op.up = NoSplit)
  BY <1>1 DEF GoingUp
<1>3. Sound(node, Idle, contents, broken')
  BY <1>1, <1>2, StepEnd1
<1>4. Sound(node', Idle, contents, broken')
  <2>1. CASE node' = node
    BY <1>3, <2>1
  <2>2. CASE node' = Append(node, ZeroedPage)
    <3>1. node \in Seq(NodeType) /\ Root \in DOMAIN node
      BY <1>1, SoundPages
    <3>2. ZeroedPage \in NodeType
      <4>1. <<>> \in Seq(Keys) /\ <<>> \in Seq(Vals \cup Nat)
        BY NoElement
      <4> QED
        BY <4>1 DEF ZeroedPage, Page, NodeType, NoPage
    <3>3. node[Root] \in NodeType /\ node = [node EXCEPT ![Root] = node[Root]]
      BY <3>1, Elements
    <3> DEFINE r == Len(node) + 1
               y == ZeroedPage
               nd2 == Append([node EXCEPT ![Root] = node[Root]], y)
    <3>4. Grown(node, nd2, Root, node[Root], r, y)
      BY <3>1, <3>2, <3>3, GrownBy
    <3>5. Grown(node, node', Root, node[Root], r, ZeroedPage)
      BY <2>2, <3>3, <3>4
    <3> HIDE DEF r, y, nd2
    <3> QED
      BY <1>3, <3>5, StepLost
  <2> QED
    BY <2>1, <2>2
<1> QED
  BY <1>1, <1>2, <1>4 DEF TreeInv, Contents

(* Every step keeps the invariant.                                         *)
LEMMA TreeInvNext == TreeInv /\ [Next]_vars => TreeInv'
<1> SUFFICES ASSUME TreeInv, [Next]_vars PROVE TreeInv'
  OBVIOUS
<1>1. ASSUME NEW k \in Keys, NEW v \in Vals, Insert(k, v) PROVE TreeInv'
  BY <1>1, InvStart DEF Insert
<1>2. ASSUME NEW k \in Keys, Delete(k) PROVE TreeInv'
  BY <1>2, InvStart DEF Delete
<1>3. CASE Descend
  BY <1>3, InvDescend
<1>4. CASE LeafReplace
  BY <1>4, InvLeafReplace
<1>5. CASE LeafInsert
  BY <1>5, InvLeafInsert
<1>6. CASE LeafSplit
  BY <1>6, InvLeafSplit
<1>7. CASE LeafDelete
  BY <1>7, InvLeafDelete
<1>8. CASE ParentInsert
  BY <1>8, InvParentInsert
<1>9. CASE ParentSplit
  BY <1>9, InvParentSplit
<1>10. CASE RootSplit
  BY <1>10, InvRootSplit
<1>11. CASE Fail
  BY <1>11, InvAbandon DEF Fail
<1>12. CASE OutOfPages
  BY <1>12, InvAbandon DEF OutOfPages
<1>13. CASE UNCHANGED vars
  BY <1>13 DEF TreeInv, Contents, vars
<1> QED
  BY <1>1, <1>2, <1>3, <1>4, <1>5, <1>6, <1>7, <1>8, <1>9, <1>10, <1>11, <1>12, <1>13 DEF Next

(* The pages of btree.c are a tree in every state, and as long as no call has *)
(* left a sibling without a parent, every key leads to the leaf it belongs to. *)
THEOREM TreeInvariant == Spec => []TreeInv
<1>1. Init => TreeInv
  BY TreeInvInit
<1>2. TreeInv /\ [Next]_vars => TreeInv'
  BY TreeInvNext
<1> QED
  BY <1>1, <1>2, PTL DEF Spec

-----------------------------------------------------------------------------
(* Searches and scans. The way down f from level h to 0, and then on the   *)
(* spot                                                                    *)
Unrolled(f, h, N) == [n \in 0 .. N |-> IF n <= h THEN f[h - n] ELSE f[0]]

(* Its first page, its last one and its steps                              *)
LEMMA UnrolledIs ==
  ASSUME NEW h \in Nat, NEW N \in Nat, h < N, NEW f, NEW w, w = Unrolled(f, h, N)
  PROVE  /\ w = [n \in 0 .. N |-> w[n]] /\ w[0] = f[h] /\ w[N] = f[0]
         /\ \A n \in 1 .. N : \/ \E m \in 1 .. h : w[n - 1] = f[m] /\ w[n] = f[m - 1]
                              \/ w[n - 1] = f[0] /\ w[n] = f[0]
<1>1. w = [n \in 0 .. N |-> w[n]] /\ \A n \in 0 .. N : w[n] = IF n <= h THEN f[h - n] ELSE f[0]
  BY DEF Unrolled
<1>2. w[0] = f[h]
  <2>1. 0 \in 0 .. N /\ 0 <= h /\ h - 0 = h
    OBVIOUS
  <2> QED
    BY <1>1, <2>1
<1>3. w[N] = f[0]
  <2>1. N \in 0 .. N /\ ~(N <= h)
    OBVIOUS
  <2> QED
    BY <1>1, <2>1
<1>4. ASSUME NEW n \in 1 .. N
      PROVE  \/ \E m \in 1 .. h : w[n - 1] = f[m] /\ w[n] = f[m - 1]
             \/ w[n - 1] = f[0] /\ w[n] = f[0]
  <2>1. n \in 0 .. N /\ n - 1 \in 0 .. N
    OBVIOUS
  <2>2. CASE n <= h
    <3> DEFINE m == h - (n - 1)
    <3>1. m \in 1 .. h /\ m - 1 = h - n /\ n - 1 <= h
      BY <2>2
    <3> HIDE DEF m
    <3>2. w[n] = f[m - 1]
      BY <1>1, <2>1, <2>2, <3>1
    <3>3. w[n - 1] = f[m]
      BY <1>1, <2>1, <3>1 DEF m
    <3> QED
      BY <3>1, <3>2, <3>3
  <2>3. CASE ~(n <= h)
    <3>1. w[n] = f[0]
      BY <1>1, <2>1, <2>3
    <3>2. w[n - 1] = f[0]
      <4>1. CASE n - 1 <= h
        <5>1. h - (n - 1) = 0
          BY <2>3, <4>1
        <5> QED
          BY <1>1, <2>1, <4>1, <5>1
      <4>2. CASE ~(n - 1 <= h)
        BY <1>1, <2>1, <4>2
      <4> QED
        BY <4>1, <4>2
    <3> QED
      BY <3>1, <3>2
  <2> QED
    BY <2>2, <2>3
<1> QED
  BY <1>1, <1>2, <1>3, <1>4

(* What starts alike and goes on alike is alike.                           *)
LEMMA Alike ==
  ASSUME NEW N \in Nat, NEW f, NEW g, f[0] = g[0],
         \A n \in 1 .. N : f[n - 1] = g[n - 1] => f[n] = g[n]
  PROVE  f[N] = g[N]
<1> DEFINE S == {n \in 0 .. N : f[n] = g[n]}
<1>1. 0 \in S
  OBVIOUS
<1>2. \A n \in 1 .. N : n - 1 \in S => n \in S
  OBVIOUS
<1>3. \A n \in 0 .. N : n \in S
  <2> HIDE DEF S
  <2> QED
    BY <1>1, <1>2, Induction
<1>4. N \in 0 .. N
  OBVIOUS
<1> QED
  BY <1>3, <1>4

(* btree_scan_open comes to the first leaf of the chain.                   *)
LEMMA FirstLeafIs ==
  ASSUME NEW level, NEW C, NEW L, Frame(node, level, C, L)
  PROVE  FirstLeaf = C[1]
<1> DEFINE N == Len(node)
           h == level[Root]
           w == Unrolled(L, h, N)
           Is(f) == f = [n \in 0 .. N |-> IF n = 0 THEN Root ELSE ToFirst(f[n - 1])]
           down == CHOOSE f : Is(f)
<1>1. /\ N \in Nat /\ h \in Nat /\ h < N /\ DOMAIN node = 1 .. N
      /\ L \in [0 .. h -> DOMAIN node] /\ L[h] = Root /\ L[0] = C[1]
      /\ \A n \in 1 .. h : ~node[L[n]].leaf /\ L[n - 1] = node[L[n]].items[1]
  <2>1. node \in Seq(NodeType) /\ Root \in DOMAIN node /\ level \in [DOMAIN node -> Nat] /\ h < N
    BY DEF Frame, Pages, Levelled
  <2>2. N \in Nat /\ DOMAIN node = 1 .. N
    BY <2>1, Elements
  <2> QED
    BY <2>1, <2>2 DEF Frame, Spine
<1>2. node[L[0]].leaf
  <2>1. C \in Seq(DOMAIN node) /\ C # <<>>
    BY DEF Frame, Chained
  <2>2. 1 \in DOMAIN C /\ C[1] \in DOMAIN node
    BY <2>1
  <2>3. node[C[1]].leaf
    BY <2>2 DEF Frame, Chained
  <2> QED
    BY <1>1, <2>3
<1> HIDE DEF N, h, w
<1>3. /\ w = [n \in 0 .. N |-> w[n]] /\ w[0] = L[h] /\ w[N] = L[0]
      /\ \A n \in 1 .. N : \/ \E m \in 1 .. h : w[n - 1] = L[m] /\ w[n] = L[m - 1]
                           \/ w[n - 1] = L[0] /\ w[n] = L[0]
  <2>1. w = Unrolled(L, h, N) /\ h \in Nat /\ N \in Nat /\ h < N
    BY <1>1 DEF w
  <2> HIDE DEF w
  <2> QED
    BY <2>1, UnrolledIs, SMTT(20)
<1>4. w[0] = Root /\ \A n \in 1 .. N : w[n] = ToFirst(w[n - 1])
  <2>1. \A m \in 1 .. h : ToFirst(L[m]) = L[m - 1]
    BY <1>1 DEF ToFirst
  <2>2. ToFirst(L[0]) = L[0]
    BY <1>2 DEF ToFirst
  <2> QED
    BY <1>1, <1>3, <2>1, <2>2
<1>5. Is(w)
  <2>1. \A n \in 0 .. N : w[n] = IF n = 0 THEN Root ELSE ToFirst(w[n - 1])
    <3>1. \A n \in 0 .. N : n = 0 \/ n \in 1 .. N
      BY <1>1
    <3>2. \A n \in 1 .. N : n # 0
      BY <1>1
    <3> QED
      BY <1>4, <3>1, <3>2
  <2> QED
    BY <1>3, <2>1
<1>6. Is(down)
  <2> HIDE DEF Is
  <2> QED
    BY <1>5
<1>7. FirstLeaf = down[N]
  BY DEF FirstLeaf, N
<1> HIDE DEF down
<1>8. down[0] = Root /\ \A n \in 1 .. N : down[n] = ToFirst(down[n - 1])
  <2>1. 0 \in 0 .. N /\ \A n \in 1 .. N : n \in 0 .. N /\ n # 0
    BY <1>1
  <2> QED
    BY <1>6, <2>1
<1>9. down[N] = w[N]
  <2>1. N \in Nat /\ down[0] = w[0] /\ \A n \in 1 .. N : down[n - 1] = w[n - 1] => down[n] = w[n]
    BY <1>1, <1>4, <1>8
  <2> QED
    BY <2>1, Alike
<1> QED
  BY <1>1, <1>3, <1>7, <1>9

(* btree_search comes to the leaf that the route of the key leads to.      *)
LEMMA SearchIs ==
  ASSUME NEW level, NEW C, NEW L, Frame(node, level, C, L),
         NEW cs, NEW route, Leads(node, Idle, cs, level, C, route), NEW k \in Keys,
         NEW leaf, leaf = node[route[k][0]], NEW i, i = LeafIndex(leaf.keys, k)
  PROVE  Search(k) = IF i.found THEN leaf.items[i.at + 1] ELSE NoVal
<1> DEFINE N == Len(node)
           h == level[Root]
           r == route[k]
           w == Unrolled(r, h, N)
           Is(f) == f = [n \in 0 .. N |-> IF n = 0 THEN Root ELSE ToChild(f[n - 1], k)]
           down == CHOOSE f : Is(f)
<1>1. /\ N \in Nat /\ h \in Nat /\ h < N /\ Pages(node) /\ Levelled(node, level)
  <2>1. /\ node \in Seq(NodeType) /\ Root \in DOMAIN node /\ level \in [DOMAIN node -> Nat] /\ h < N
        /\ Pages(node) /\ Levelled(node, level)
    BY DEF Frame, Pages, Levelled
  <2>2. N \in Nat
    BY <2>1, Elements
  <2> QED
    BY <2>1, <2>2
<1>2. Routed(node, Idle, level, route)
  BY DEF Leads
<1>3. \A j, p : Moved(node, Idle, j, p) = p
  BY IdleIs, MovedNot
<1>4. /\ r[h] = Root /\ node[r[0]].leaf
      /\ \A n \in 1 .. h : ~node[r[n]].leaf /\ r[n - 1] = Child(node[r[n]], k)
  BY <1>1, <1>2, <1>3, RouteFacts
<1> HIDE DEF N, h, r, w
<1>5. /\ w = [n \in 0 .. N |-> w[n]] /\ w[0] = r[h] /\ w[N] = r[0]
      /\ \A n \in 1 .. N : \/ \E m \in 1 .. h : w[n - 1] = r[m] /\ w[n] = r[m - 1]
                           \/ w[n - 1] = r[0] /\ w[n] = r[0]
  BY <1>1, UnrolledIs DEF w
<1>6. w[0] = Root /\ \A n \in 1 .. N : w[n] = ToChild(w[n - 1], k)
  <2>1. \A m \in 1 .. h : ToChild(r[m], k) = r[m - 1]
    BY <1>4 DEF ToChild, Child
  <2>2. ToChild(r[0], k) = r[0]
    BY <1>4 DEF ToChild
  <2> QED
    BY <1>4, <1>5, <2>1, <2>2
<1>7. Is(w)
  <2>1. \A n \in 0 .. N : w[n] = IF n = 0 THEN Root ELSE ToChild(w[n - 1], k)
    <3>1. \A n \in 0 .. N : n = 0 \/ n \in 1 .. N
      BY <1>1
    <3>2. \A n \in 1 .. N : n # 0
      BY <1>1
    <3> QED
      BY <1>6, <3>1, <3>2
  <2> QED
    BY <1>5, <2>1
<1>8. Is(down)
  <2> HIDE DEF Is
  <2> QED
    BY <1>7
<1>9. Search(k) = LET x == node[down[N]]
                      j == LeafIndex(x.keys, k)
                  IN  IF j.found THEN x.items[j.at + 1] ELSE NoVal
  BY DEF Search, N
<1> HIDE DEF down
<1>10. down[0] = Root /\ \A n \in 1 .. N : down[n] = ToChild(down[n - 1], k)
  <2>1. 0 \in 0 .. N /\ \A n \in 1 .. N : n \in 0 .. N /\ n # 0
    BY <1>1
  <2> QED
    BY <1>8, <2>1
<1>11. down[N] = w[N]
  BY <1>1, <1>6, <1>10, Alike
<1> QED
  BY <1>5, <1>9, <1>11 DEF r

(* A leaf holds the key of each entry in one place.                        *)
LEMMA StrictOnce ==
  ASSUME NEW s \in Seq(Nat), Strict(s), NEW i \in DOMAIN s, NEW j \in DOMAIN s, s[i] = s[j]
  PROVE  i = j
<1>1. DOMAIN s = 1 .. Len(s) /\ Len(s) \in Nat /\ \A m \in DOMAIN s : s[m] \in Nat
  BY Elements
<1>2. i \in Int /\ j \in Int /\ s[i] \in Nat /\ s[j] \in Nat
  BY <1>1
<1>3. ~(i < j)
  BY <1>2 DEF Strict
<1>4. ~(j < i)
  BY <1>2 DEF Strict
<1> QED
  BY <1>2, <1>3, <1>4

(* There it finds what is stored under the key.                            *)
LEMMA SearchFinds ==
  ASSUME NEW level, NEW C, NEW L, Frame(node, level, C, L),
         NEW cs, NEW route, Leads(node, Idle, cs, level, C, route), NEW k \in Keys
  PROVE  Search(k) = cs[k]
<1> DEFINE leaf == node[route[k][0]]
           i == LeafIndex(leaf.keys, k)
<1>0. leaf = node[route[k][0]] /\ i = LeafIndex(leaf.keys, k)
  OBVIOUS
<1>1. Pages(node) /\ Levelled(node, level) /\ Routed(node, Idle, level, route) /\ Ordered(node) /\ Stores(node, cs, route)
  BY DEF Frame, Leads
<1>2. route[k][0] \in DOMAIN node
  <2>1. 0 \in 0 .. level[Root]
    <3>1. level[Root] \in Nat
      BY <1>1, RouteFacts
    <3> QED
      BY <3>1
  <2> QED
    BY <1>1, <2>1, RouteFacts
<1>3. leaf \in NodeType /\ Strict(leaf.keys)
  BY <1>1, <1>2, Elements DEF Pages, Ordered
<1>4. /\ cs[k] = NoVal => ~Has(leaf, k)
      /\ cs[k] # NoVal => \E j \in DOMAIN leaf.keys : leaf.keys[j] = k /\ leaf.items[j] = cs[k]
  BY <1>1 DEF Stores
<1> HIDE DEF leaf, i
<1>5. Search(k) = IF i.found THEN leaf.items[i.at + 1] ELSE NoVal
  BY <1>0, SearchIs
<1>6. leaf.keys \in Seq(Nat) /\ k \in Nat /\ \A j \in DOMAIN leaf.keys : leaf.keys[j] \in Nat
  BY <1>3, PageFields, KeyTypes
<1>7. CASE i.found
  <2>1. i.at + 1 \in DOMAIN leaf.keys /\ leaf.keys[i.at + 1] = k
    BY <1>0, <1>6, <1>7, LeafIndexFinds
  <2>2. PICK j \in DOMAIN leaf.keys : leaf.keys[j] = k /\ leaf.items[j] = cs[k]
    BY <1>4, <2>1 DEF Has
  <2>3. j = i.at + 1
    <3> DEFINE m == i.at + 1
    <3>1. m \in DOMAIN leaf.keys /\ leaf.keys[m] = leaf.keys[j]
      BY <2>1, <2>2
    <3> HIDE DEF m
    <3>2. j = m
      BY <1>3, <1>6, <2>2, <3>1, StrictOnce
    <3> QED
      BY <3>2 DEF m
  <2> QED
    BY <1>5, <1>7, <2>2, <2>3
<1>8. CASE ~i.found
  <2>1. i.at \in 0 .. Len(leaf.keys)
        /\ \A j \in DOMAIN leaf.keys : (j <= i.at => leaf.keys[j] < k) /\ (j > i.at => k < leaf.keys[j])
    BY <1>0, <1>3, <1>6, <1>8, LeafIndexFinds
  <2>2. DOMAIN leaf.keys = 1 .. Len(leaf.keys) /\ Len(leaf.keys) \in Nat
    BY <1>6, Elements
  <2>3. ASSUME NEW j \in DOMAIN leaf.keys, leaf.keys[j] = k PROVE FALSE
    <3>1. j <= i.at \/ j > i.at
      BY <2>1, <2>2
    <3>2. leaf.keys[j] < k \/ k < leaf.keys[j]
      BY <2>1, <3>1
    <3> QED
      BY <1>6, <2>3, <3>2
  <2>4. cs[k] = NoVal
    BY <1>4, <2>3
  <2> QED
    BY <1>5, <1>8, <2>4
<1> QED
  BY <1>7, <1>8

(* Entries, and sequences of them                                          *)
EntryType == [key : Keys, val : Vals]
Seen(s, e) == \E i \in DOMAIN s : s[i] = e
Climbs(s) == \A i, j \in DOMAIN s : i < j => s[i].key < s[j].key
InLeaf(p, e) == \E i \in DOMAIN node[p].keys : e = [key |-> node[p].keys[i], val |-> node[p].items[i]]

(* What is seen in one sequence after the other                            *)
LEMMA ConcatSeen ==
  ASSUME NEW S, NEW s \in Seq(S), NEW t \in Seq(S)
  PROVE  /\ s \o t \in Seq(S)
         /\ \A e : Seen(s \o t, e) <=> Seen(s, e) \/ Seen(t, e)
         /\ Climbs(s) /\ Climbs(t) /\ (\A x, y : Seen(s, x) /\ Seen(t, y) => x.key < y.key) => Climbs(s \o t)
<1> DEFINE u == s \o t
           n == Len(s)
           m == Len(t)
<1>1. /\ u \in Seq(S) /\ DOMAIN u = 1 .. n + m
      /\ \A j \in 1 .. n : u[j] = s[j]
      /\ \A j \in n + 1 .. n + m : u[j] = t[j - n]
  BY ConcatElements
<1>2. n \in Nat /\ m \in Nat /\ DOMAIN s = 1 .. n /\ DOMAIN t = 1 .. m
  BY Elements
<1> HIDE DEF u, n, m
<1>3. \A j \in DOMAIN u : \/ j \in DOMAIN s /\ j <= n /\ u[j] = s[j]
                          \/ j > n /\ j - n \in DOMAIN t /\ u[j] = t[j - n]
  <2> SUFFICES ASSUME NEW j \in DOMAIN u
               PROVE  \/ j \in DOMAIN s /\ j <= n /\ u[j] = s[j]
                      \/ j > n /\ j - n \in DOMAIN t /\ u[j] = t[j - n]
    OBVIOUS
  <2>1. (j \in 1 .. n /\ j <= n) \/ (j \in n + 1 .. n + m /\ j - n \in 1 .. m /\ j > n)
    BY <1>1, <1>2
  <2> QED
    BY <1>1, <1>2, <2>1
<1>4. \A j \in DOMAIN s : j \in DOMAIN u /\ u[j] = s[j]
  BY <1>1, <1>2
<1>5. ASSUME NEW j \in DOMAIN t PROVE n + j \in DOMAIN u /\ u[n + j] = t[j]
  <2>1. n + j \in n + 1 .. n + m /\ n + j \in 1 .. n + m /\ (n + j) - n = j
    BY <1>2
  <2> QED
    BY <1>1, <2>1
<1>6. \A e : Seen(u, e) <=> Seen(s, e) \/ Seen(t, e)
  BY <1>3, <1>4, <1>5 DEF Seen
<1>7. ASSUME Climbs(s), Climbs(t), \A x, y : Seen(s, x) /\ Seen(t, y) => x.key < y.key,
             NEW i \in DOMAIN u, NEW j \in DOMAIN u, i < j
      PROVE  u[i].key < u[j].key
  <2>1. i \in Int /\ j \in Int /\ n \in Int
    BY <1>1, <1>2
  <2>2. CASE i \in DOMAIN s /\ i <= n /\ u[i] = s[i]
    <3>1. CASE j \in DOMAIN s /\ u[j] = s[j]
      BY <1>7, <2>2, <3>1 DEF Climbs
    <3>2. CASE j - n \in DOMAIN t /\ u[j] = t[j - n]
      BY <1>7, <2>2, <3>2 DEF Seen
    <3> QED
      BY <1>3, <3>1, <3>2
  <2>3. CASE i > n /\ i - n \in DOMAIN t /\ u[i] = t[i - n]
    <3>1. ~(j <= n) /\ i - n < j - n
      BY <1>7, <2>1, <2>3
    <3>2. j - n \in DOMAIN t /\ u[j] = t[j - n]
      BY <1>3, <3>1
    <3> QED
      BY <1>7, <2>3, <3>1, <3>2 DEF Climbs
  <2> QED
    BY <1>3, <2>2, <2>3
<1> QED
  BY <1>1, <1>6, <1>7 DEF u, Climbs

(* A function on 1 .. n is a sequence.                                     *)
LEMMA FunctionIsSequence ==
  ASSUME NEW S, NEW n \in Nat, NEW s, s = [i \in 1 .. n |-> s[i]], \A i \in 1 .. n : s[i] \in S
  PROVE  s \in Seq(S)
OBVIOUS

(* The entries of a leaf                                                   *)
LEMMA EntriesIs ==
  ASSUME Pages(node), NEW p \in DOMAIN node, node[p].leaf
  PROVE  /\ Entries(p) \in Seq(EntryType) /\ DOMAIN Entries(p) = DOMAIN node[p].keys
         /\ \A e : Seen(Entries(p), e) <=> InLeaf(p, e)
         /\ Strict(node[p].keys) => Climbs(Entries(p))
<1> DEFINE n == node[p]
           s == Entries(p)
<1>1. n \in NodeType /\ Shaped(node, n)
  BY Elements DEF Pages
<1>2. /\ n.keys \in Seq(Keys) /\ DOMAIN n.keys = 1 .. Len(n.keys) /\ Len(n.keys) \in Nat
      /\ n.items \in Seq(Vals) /\ DOMAIN n.items = DOMAIN n.keys
      /\ \A i \in DOMAIN n.keys : n.keys[i] \in Keys /\ n.items[i] \in Vals
  <2>1. /\ n.keys \in Seq(Keys) /\ DOMAIN n.keys = 1 .. Len(n.keys) /\ Len(n.keys) \in Nat
        /\ \A i \in DOMAIN n.keys : n.keys[i] \in Keys
    BY <1>1, PageFields
  <2>2. n.items \in Seq(Vals) /\ Len(n.items) = Len(n.keys)
    BY <1>1 DEF Shaped
  <2>3. DOMAIN n.items = 1 .. Len(n.items) /\ \A i \in DOMAIN n.items : n.items[i] \in Vals
    BY <2>2, Elements
  <2> QED
    BY <2>1, <2>2, <2>3
<1>3. s = [i \in DOMAIN n.keys |-> [key |-> n.keys[i], val |-> n.items[i]]]
  BY DEF Entries
<1> HIDE DEF n, s
<1>4. DOMAIN s = DOMAIN n.keys
      /\ \A i \in DOMAIN n.keys : s[i] = [key |-> n.keys[i], val |-> n.items[i]]
  BY <1>3
<1>5. ASSUME NEW i \in DOMAIN n.keys PROVE s[i] \in EntryType /\ s[i].key = n.keys[i]
  <2>1. s[i] = [key |-> n.keys[i], val |-> n.items[i]] /\ n.keys[i] \in Keys /\ n.items[i] \in Vals
    BY <1>2, <1>4
  <2> QED
    BY <2>1 DEF EntryType
<1>6. s \in Seq(EntryType)
  <2>1. s = [i \in 1 .. Len(n.keys) |-> s[i]] /\ \A i \in 1 .. Len(n.keys) : s[i] \in EntryType
    BY <1>2, <1>3, <1>4, <1>5
  <2> QED
    BY <1>2, <2>1, FunctionIsSequence
<1>7. \A e : Seen(s, e) <=> InLeaf(p, e)
  BY <1>4 DEF Seen, InLeaf, n
<1>8. Strict(n.keys) => Climbs(s)
  BY <1>4, <1>5 DEF Strict, Climbs
<1> QED
  BY <1>4, <1>6, <1>7, <1>8 DEF n, s

(* A scan repeats ScanLeaf.                                                *)
LEMMA ScanLoop ==
  ASSUME NEW level, NEW C, NEW L, Frame(node, level, C, L)
  PROVE  \E f : /\ f[0] = [leaf |-> C[1], seen |-> <<>>]
                /\ \A n \in 1 .. Len(node) : f[n] = ScanLeaf(f[n - 1])
                /\ Scan = f[Len(node)].seen
<1> DEFINE N    == Len(node)
           base == [leaf |-> FirstLeaf, seen |-> <<>>]
           T    == {p \in DOMAIN node : node[p].leaf} \cup {NoPage}
           S    == [leaf : T, seen : Seq(EntryType)]
           step == [s \in S |-> ScanLeaf(s)]
           Is(f) == f = [n \in 0 .. N |-> IF n = 0 THEN base ELSE ScanLeaf(f[n - 1])]
           after == CHOOSE f : Is(f)
<1>0. /\ Pages(node) /\ C \in Seq(DOMAIN node) /\ C # <<>>
      /\ \A p \in DOMAIN node : node[p].leaf <=> \E i \in DOMAIN C : C[i] = p
      /\ \A i \in DOMAIN C : node[C[i]].next = IF i = Len(C) THEN NoPage ELSE C[i + 1]
  BY DEF Frame, Chained
<1>1. N \in Nat
  BY <1>0, Elements DEF Pages
<1>2. \A i \in DOMAIN C : C[i] \in T /\ C[i] \in DOMAIN node /\ node[C[i]].leaf
  <2>1. \A i \in DOMAIN C : C[i] \in DOMAIN node
    BY <1>0, Elements
  <2> QED
    BY <1>0, <2>1
<1>3. 1 \in DOMAIN C /\ DOMAIN C = 1 .. Len(C) /\ Len(C) \in Nat
  BY <1>0
<1>4. base \in S
  <2>1. FirstLeaf \in T
    BY <1>2, <1>3, FirstLeafIs
  <2>2. <<>> \in Seq(EntryType)
    BY NoElement
  <2> QED
    BY <2>1, <2>2
<1>5. ASSUME NEW s \in S PROVE ScanLeaf(s) \in S
  <2>1. s.leaf \in T /\ s.seen \in Seq(EntryType)
    OBVIOUS
  <2>2. CASE s.leaf = NoPage
    BY <1>5, <2>2 DEF ScanLeaf
  <2>3. CASE s.leaf # NoPage
    <3>1. s.leaf \in DOMAIN node /\ node[s.leaf].leaf
      BY <2>1, <2>3
    <3>2. PICK i \in DOMAIN C : C[i] = s.leaf
      BY <1>0, <3>1
    <3>3. node[s.leaf].next \in T
      <4>1. CASE i = Len(C)
        BY <1>0, <3>2, <4>1
      <4>2. CASE i # Len(C)
        <5>1. i + 1 \in DOMAIN C
          BY <1>3, <4>2
        <5> QED
          BY <1>0, <1>2, <3>2, <4>2, <5>1
      <4> QED
        BY <4>1, <4>2
    <3>4. Entries(s.leaf) \in Seq(EntryType)
      BY <1>0, <3>1, EntriesIs
    <3>5. s.seen \o Entries(s.leaf) \in Seq(EntryType)
      BY <2>1, <3>4, ConcatElements
    <3>6. ScanLeaf(s) = [leaf |-> node[s.leaf].next, seen |-> s.seen \o Entries(s.leaf)]
      BY <2>3 DEF ScanLeaf
    <3> HIDE DEF T, EntryType
    <3> QED
      BY <3>3, <3>5, <3>6
  <2> QED
    BY <2>2, <2>3
<1>6. step \in [S -> S]
  <2> HIDE DEF S
  <2> QED
    BY <1>5
<1> HIDE DEF S
<1>7. PICK f : Repeated(f, base, N, S, step)
  <2> HIDE DEF base, N, step
  <2> QED
    BY <1>1, <1>4, <1>6, Repetition
<1>8. Is(f)
  <2>1. f = [n \in 0 .. N |-> f[n]]
    BY <1>7 DEF Repeated
  <2>2. ASSUME NEW n \in 0 .. N
        PROVE  f[n] = IF n = 0 THEN base ELSE ScanLeaf(f[n - 1])
    <3>1. CASE n = 0
      BY <1>7, <3>1 DEF Repeated
    <3>2. CASE n # 0
      <4>1. n \in 1 .. N /\ n - 1 \in 0 .. N
        BY <1>1, <3>2
      <4>2. f[n] = step[f[n - 1]] /\ f[n - 1] \in S
        BY <1>7, <4>1 DEF Repeated
      <4> QED
        BY <3>2, <4>2
    <3> QED
      BY <3>1, <3>2
  <2> HIDE DEF base, N, step
  <2> QED
    BY <2>1, <2>2
<1>9. Is(after)
  <2> HIDE DEF Is
  <2> QED
    BY <1>8
<1>10. Scan = after[N].seen
  BY DEF Scan
<1> HIDE DEF after
<1>11. after[0] = base /\ \A n \in 1 .. N : after[n] = ScanLeaf(after[n - 1])
  <2>1. 0 \in 0 .. N /\ \A n \in 1 .. N : n \in 0 .. N /\ n # 0
    BY <1>1
  <2> HIDE DEF base, N
  <2> QED
    BY <1>9, <2>1
<1>12. base = [leaf |-> C[1], seen |-> <<>>]
  BY FirstLeafIs
<1> QED
  BY <1>10, <1>11, <1>12

(* What a scan has seen after n leaves of the chain C                      *)
InOrder(C) ==
  /\ \A m \in DOMAIN C : Strict(node[C[m]].keys)
  /\ \A a, b \in DOMAIN C : a < b =>
       \A x, y : InLeaf(C[a], x) /\ InLeaf(C[b], y) => x.key < y.key
SoFar(C, n, s) ==
  /\ s.seen \in Seq(EntryType)
  /\ n < Len(C) => s.leaf = C[n + 1]
  /\ ~(n < Len(C)) => s.leaf = NoPage
  /\ \A e : Seen(s.seen, e) <=> \E m \in DOMAIN C : m <= n /\ InLeaf(C[m], e)
  /\ InOrder(C) => Climbs(s.seen)

(* A turn of btree_scan_next takes the next leaf of the chain in.          *)
LEMMA ScanGoesOn ==
  ASSUME NEW level, NEW C, NEW L, Frame(node, level, C, L),
         NEW n \in Nat \ {0}, NEW s, SoFar(C, n - 1, s), NEW t, t = ScanLeaf(s)
  PROVE  SoFar(C, n, t)
<1>1. /\ Pages(node) /\ C \in Seq(DOMAIN node) /\ C # <<>>
      /\ \A p \in DOMAIN node : node[p].leaf <=> \E i \in DOMAIN C : C[i] = p
      /\ \A i \in DOMAIN C : node[C[i]].next = IF i = Len(C) THEN NoPage ELSE C[i + 1]
  BY DEF Frame, Chained
<1>2. DOMAIN C = 1 .. Len(C) /\ Len(C) \in Nat /\ \A i \in DOMAIN C : C[i] \in DOMAIN node
  BY <1>1, Elements
<1>3. \A i \in DOMAIN C : C[i] # NoPage /\ node[C[i]].leaf
  <2>1. DOMAIN node = 1 .. Len(node)
    BY <1>1, Elements DEF Pages
  <2>2. \A i \in DOMAIN C : C[i] # NoPage
    BY <1>2, <2>1 DEF NoPage
  <2> QED
    BY <1>1, <1>2, <2>2
<1>4. /\ s.seen \in Seq(EntryType)
      /\ n - 1 < Len(C) => s.leaf = C[(n - 1) + 1]
      /\ ~(n - 1 < Len(C)) => s.leaf = NoPage
      /\ \A e : Seen(s.seen, e) <=> \E m \in DOMAIN C : m <= n - 1 /\ InLeaf(C[m], e)
      /\ InOrder(C) => Climbs(s.seen)
  BY DEF SoFar
<1>5. CASE ~(n - 1 < Len(C))
  <2>1. s.leaf = NoPage /\ t = s
    BY <1>4, <1>5 DEF ScanLeaf
  <2>2. ~(n < Len(C)) /\ \A m \in DOMAIN C : m <= n - 1 /\ m <= n
    BY <1>2, <1>5
  <2> QED
    BY <1>4, <2>1, <2>2 DEF SoFar
<1>6. CASE n - 1 < Len(C)
  <2> DEFINE p == C[n]
             new == Entries(p)
  <2>1. n \in DOMAIN C /\ (n - 1) + 1 = n
    BY <1>2, <1>6
  <2>2. s.leaf = p /\ p \in DOMAIN node /\ p # NoPage /\ node[p].leaf
    BY <1>2, <1>3, <1>4, <1>6, <2>1
  <2>3. /\ new \in Seq(EntryType)
        /\ \A e : Seen(new, e) <=> InLeaf(p, e)
        /\ Strict(node[p].keys) => Climbs(new)
    BY <1>1, <2>2, EntriesIs
  <2>4. t.leaf = node[p].next /\ t.seen = s.seen \o new
    BY <2>2 DEF ScanLeaf
  <2> HIDE DEF new
  <2>5. /\ t.seen \in Seq(EntryType)
        /\ \A e : Seen(t.seen, e) <=> Seen(s.seen, e) \/ Seen(new, e)
        /\ Climbs(s.seen) /\ Climbs(new) /\ (\A x, y : Seen(s.seen, x) /\ Seen(new, y) => x.key < y.key) => Climbs(t.seen)
    <3> DEFINE old == s.seen
    <3>1. old \in Seq(EntryType) /\ new \in Seq(EntryType) /\ t.seen = old \o new
      BY <1>4, <2>3, <2>4
    <3> HIDE DEF old
    <3>2. /\ old \o new \in Seq(EntryType)
          /\ \A e : Seen(old \o new, e) <=> Seen(old, e) \/ Seen(new, e)
          /\ Climbs(old) /\ Climbs(new) /\ (\A x, y : Seen(old, x) /\ Seen(new, y) => x.key < y.key) => Climbs(old \o new)
      BY <3>1, ConcatSeen
    <3> QED
      BY <3>1, <3>2 DEF old
  <2>6. \A e : Seen(t.seen, e) <=> \E m \in DOMAIN C : m <= n /\ InLeaf(C[m], e)
    <3>1. \A m \in DOMAIN C : m <= n <=> m <= n - 1 \/ m = n
      BY <1>2
    <3> QED
      BY <1>4, <2>1, <2>3, <2>5, <3>1
  <2>7. InOrder(C) => Climbs(t.seen)
    <3> SUFFICES ASSUME InOrder(C) PROVE Climbs(t.seen)
      OBVIOUS
    <3>1. Climbs(s.seen) /\ Climbs(new)
      BY <1>4, <2>1, <2>3 DEF InOrder
    <3>2. ASSUME NEW x, NEW y, Seen(s.seen, x), Seen(new, y) PROVE x.key < y.key
      <4>1. PICK m \in DOMAIN C : m <= n - 1 /\ InLeaf(C[m], x)
        BY <1>4, <3>2
      <4>2. m < n /\ InLeaf(C[n], y)
        BY <1>2, <2>3, <3>2, <4>1
      <4> QED
        BY <2>1, <4>1, <4>2 DEF InOrder
    <3> QED
      BY <2>5, <3>1, <3>2
  <2>8. t.leaf = IF n = Len(C) THEN NoPage ELSE C[n + 1]
    BY <1>1, <2>1, <2>4
  <2>9. (n < Len(C) => n # Len(C)) /\ (~(n < Len(C)) => n = Len(C))
    <3>1. n \in 1 .. Len(C) /\ Len(C) \in Int /\ n \in Int
      BY <1>2, <2>1
    <3> DEFINE c == Len(C)
    <3>2. n \in 1 .. c /\ c \in Int /\ n \in Int
      BY <3>1
    <3> HIDE DEF c
    <3>3. (n < c => n # c) /\ (~(n < c) => n = c)
      BY <3>2
    <3> QED
      BY <3>3 DEF c
  <2> QED
    BY <2>5, <2>6, <2>7, <2>8, <2>9 DEF SoFar
<1> QED
  BY <1>5, <1>6

(* A scan sees every leaf of the chain.                                    *)
LEMMA ScanIs ==
  ASSUME NEW level, NEW C, NEW L, Frame(node, level, C, L)
  PROVE  /\ Scan \in Seq(EntryType)
         /\ \A e : Seen(Scan, e) <=> \E m \in DOMAIN C : InLeaf(C[m], e)
         /\ InOrder(C) => Climbs(Scan)
<1> DEFINE N == Len(node)
<1>1. PICK f : /\ f[0] = [leaf |-> C[1], seen |-> <<>>]
               /\ \A n \in 1 .. N : f[n] = ScanLeaf(f[n - 1])
               /\ Scan = f[N].seen
  BY ScanLoop
<1>2. Pages(node) /\ C \in Seq(DOMAIN node) /\ C # <<>> /\ Len(C) <= N
  BY DEF Frame, Chained
<1>3. N \in Nat /\ DOMAIN C = 1 .. Len(C) /\ Len(C) \in Nat /\ Len(C) # 0
  BY <1>2, Elements, EmptySequence DEF Pages
<1> HIDE DEF N
<1> DEFINE S == {n \in 0 .. N : SoFar(C, n, f[n])}
<1>4. 0 \in S
  <2>1. f[0].leaf = C[1] /\ f[0].seen = <<>>
    BY <1>1
  <2>2. <<>> \in Seq(EntryType) /\ DOMAIN <<>> = {}
    BY NoElement
  <2>3. 0 < Len(C) /\ 0 + 1 = 1 /\ \A m \in DOMAIN C : ~(m <= 0)
    BY <1>3
  <2>4. (\A e : ~Seen(<<>>, e)) /\ Climbs(<<>>)
    BY <2>2 DEF Seen, Climbs
  <2>5. SoFar(C, 0, f[0])
    BY <2>1, <2>2, <2>3, <2>4 DEF SoFar
  <2>6. 0 \in 0 .. N
    BY <1>3
  <2> QED
    BY <2>5, <2>6
<1>5. ASSUME NEW n \in 1 .. N, n - 1 \in S PROVE n \in S
  <2>1. SoFar(C, n - 1, f[n - 1]) /\ n \in Nat \ {0} /\ n \in 0 .. N
    BY <1>3, <1>5
  <2>2. f[n] = ScanLeaf(f[n - 1])
    BY <1>1
  <2>3. SoFar(C, n, f[n])
    BY <2>1, <2>2, ScanGoesOn
  <2> QED
    BY <2>1, <2>3
<1>6. \A n \in 0 .. N : n \in S
  <2> HIDE DEF S
  <2> QED
    BY <1>3, <1>4, <1>5, Induction
<1>7. SoFar(C, N, f[N])
  <2>1. N \in 0 .. N
    BY <1>3
  <2> QED
    BY <1>6, <2>1
<1>8. \A m \in DOMAIN C : m <= N
  BY <1>2, <1>3
<1> QED
  BY <1>1, <1>7, <1>8 DEF SoFar

(* The invariant gives each of the three properties.                       *)
LEMMA ReachesAll == TreeInv => ScanLosesNothing
<1> SUFFICES ASSUME TreeInv, op = Idle, NEW k \in StoredKeys
             PROVE  \E i \in DOMAIN Scan : Scan[i].key = k
  BY DEF ScanLosesNothing
<1>1. PICK level, C, L : Tree(node, op, contents, level, C, L)
  BY DEF TreeInv, Sound
<1>2. Frame(node, level, C, L) /\ Inhabited(node, contents)
  BY <1>1 DEF Tree
<1>3. PICK p \in DOMAIN node : node[p].leaf /\ Has(node[p], k)
  BY <1>2 DEF Inhabited, StoredKeys
<1>4. PICK m \in DOMAIN C : C[m] = p
  BY <1>2, <1>3 DEF Frame, Chained
<1>5. PICK i \in DOMAIN node[p].keys : node[p].keys[i] = k
  BY <1>3 DEF Has
<1> DEFINE e == [key |-> k, val |-> node[p].items[i]]
<1>6. InLeaf(C[m], e) /\ e.key = k
  BY <1>4, <1>5 DEF InLeaf
<1> HIDE DEF e
<1>7. Seen(Scan, e)
  BY <1>2, <1>6, ScanIs
<1> QED
  BY <1>6, <1>7 DEF Seen

(* Nothing that a scan reads is smaller than what it has read before.      *)
LEMMA ChainInOrder ==
  ASSUME NEW level, NEW C, NEW L, Frame(node, level, C, L),
         NEW cs, NEW route, Leads(node, Idle, cs, level, C, route)
  PROVE  /\ InOrder(C)
         /\ \A m \in DOMAIN C : \A i \in DOMAIN node[C[m]].keys :
              node[C[m]].keys[i] \in Keys /\ route[node[C[m]].keys[i]][0] = C[m]
<1>1. /\ Pages(node) /\ Levelled(node, level) /\ C \in Seq(DOMAIN node)
      /\ \A p \in DOMAIN node : node[p].leaf <=> \E i \in DOMAIN C : C[i] = p
      /\ \A i, j \in DOMAIN C : C[i] = C[j] => i = j
  BY DEF Frame, Chained
<1>2. Ordered(node) /\ Settled(node, Idle, level, route) /\ Rising(C, route)
  BY DEF Leads
<1>3. DOMAIN C = 1 .. Len(C) /\ Len(C) \in Nat /\ \A m \in DOMAIN C : C[m] \in DOMAIN node
  BY <1>1, Elements
<1>4. \A m \in DOMAIN C : level[C[m]] = 0
  BY <1>1, <1>3 DEF Levelled
<1>5. ASSUME NEW m \in DOMAIN C, NEW i \in DOMAIN node[C[m]].keys
      PROVE  node[C[m]].keys[i] \in Keys /\ route[node[C[m]].keys[i]][0] = C[m]
  <2>1. C[m] \in DOMAIN node /\ node[C[m]] \in NodeType
    BY <1>1, <1>3, Elements DEF Pages
  <2>2. node[C[m]].keys[i] \in Keys
    BY <1>5, <2>1, PageFields
  <2>3. route[node[C[m]].keys[i]][level[C[m]]] = C[m]
    BY <1>2, <2>1 DEF Settled
  <2> QED
    BY <1>4, <2>2, <2>3
<1>6. ASSUME NEW a \in DOMAIN C, NEW b \in DOMAIN C, a < b, NEW x, NEW y, InLeaf(C[a], x), InLeaf(C[b], y)
      PROVE  x.key < y.key
  <2>1. PICK i \in DOMAIN node[C[a]].keys : x = [key |-> node[C[a]].keys[i], val |-> node[C[a]].items[i]]
    BY <1>6 DEF InLeaf
  <2>2. PICK j \in DOMAIN node[C[b]].keys : y = [key |-> node[C[b]].keys[j], val |-> node[C[b]].items[j]]
    BY <1>6 DEF InLeaf
  <2>3. x.key \in Keys /\ route[x.key][0] = C[a]
    BY <1>5, <2>1
  <2>4. y.key \in Keys /\ route[y.key][0] = C[b]
    BY <1>5, <2>2
  <2>5. a \in Int /\ b \in Int /\ x.key \in Nat /\ y.key \in Nat
    BY <1>3, <2>3, <2>4, KeyTypes
  <2>6. x.key # y.key
    BY <1>1, <1>6, <2>3, <2>4, <2>5
  <2>7. ~(y.key < x.key)
    <3> SUFFICES ASSUME y.key < x.key PROVE FALSE
      OBVIOUS
    <3>1. b <= a
      BY <1>2, <2>3, <2>4 DEF Rising
    <3> QED
      BY <1>6, <2>5, <3>1
  <2> QED
    BY <2>5, <2>6, <2>7
<1>7. \A m \in DOMAIN C : Strict(node[C[m]].keys)
  BY <1>2, <1>3 DEF Ordered
<1> QED
  BY <1>5, <1>6, <1>7 DEF InOrder

(* Each key once, in order, and with its value                             *)
LEMMA ScansInOrder == TreeInv => ScanInOrder
<1> SUFFICES ASSUME TreeInv, Quiet
             PROVE  /\ \A i, j \in DOMAIN Scan : i < j => Scan[i].key < Scan[j].key
                    /\ ToSet(Scan) = {[key |-> k, val |-> contents[k]] : k \in StoredKeys}
  BY DEF ScanInOrder
<1>1. PICK level, C, L :
        /\ Tree(node, op, contents, level, C, L)
        /\ ~broken => \E route : Leads(node, op, contents, level, C, route)
  BY DEF TreeInv, Sound
<1>2. PICK route : Leads(node, Idle, contents, level, C, route)
  BY <1>1 DEF Quiet
<1>3. Frame(node, level, C, L)
  BY <1>1 DEF Tree
<1>4. InOrder(C)
  BY <1>2, <1>3, ChainInOrder
<1>5. \A m \in DOMAIN C : \A i \in DOMAIN node[C[m]].keys :
        node[C[m]].keys[i] \in Keys /\ route[node[C[m]].keys[i]][0] = C[m]
  BY <1>2, <1>3, ChainInOrder
<1>6. Climbs(Scan)
  BY <1>3, <1>4, ScanIs
<1>7. \A e : Seen(Scan, e) <=> \E m \in DOMAIN C : InLeaf(C[m], e)
  BY <1>3, ScanIs
<1>8. /\ Pages(node) /\ Ordered(node) /\ Stores(node, contents, route) /\ C \in Seq(DOMAIN node)
      /\ Routed(node, Idle, level, route) /\ Levelled(node, level)
      /\ \A p \in DOMAIN node : node[p].leaf <=> \E i \in DOMAIN C : C[i] = p
  BY <1>2, <1>3 DEF Frame, Chained, Leads
<1>9. ASSUME NEW m \in DOMAIN C, NEW e, InLeaf(C[m], e)
      PROVE  \E k \in StoredKeys : e = [key |-> k, val |-> contents[k]]
  <2> DEFINE n == node[C[m]]
  <2>1. PICK i \in DOMAIN n.keys : e = [key |-> n.keys[i], val |-> n.items[i]]
    BY <1>9 DEF InLeaf
  <2> DEFINE k == n.keys[i]
  <2>2. k \in Keys /\ route[k][0] = C[m] /\ Has(n, k)
    BY <1>5 DEF Has
  <2>3. contents[k] # NoVal /\ \E j \in DOMAIN n.keys : n.keys[j] = k /\ n.items[j] = contents[k]
    BY <1>8, <2>2 DEF Stores
  <2>4. PICK j \in DOMAIN n.keys : n.keys[j] = k /\ n.items[j] = contents[k]
    BY <2>3
  <2>5. C[m] \in DOMAIN node /\ n \in NodeType
    BY <1>8, Elements DEF Pages
  <2>6. n.keys \in Seq(Nat) /\ Strict(n.keys)
    BY <1>8, <2>5, PageFields DEF Ordered
  <2>7. j = i
    BY <2>4, <2>6, StrictOnce
  <2> QED
    BY <2>1, <2>2, <2>3, <2>4, <2>7 DEF StoredKeys
<1>10. ASSUME NEW k \in StoredKeys PROVE Seen(Scan, [key |-> k, val |-> contents[k]])
  <2> DEFINE p == route[k][0]
  <2>1. k \in Keys /\ contents[k] # NoVal
    BY DEF StoredKeys
  <2>2. PICK i \in DOMAIN node[p].keys : node[p].keys[i] = k /\ node[p].items[i] = contents[k]
    BY <1>8, <2>1 DEF Stores
  <2>3. node[p].leaf
    BY <1>8, <2>1, RouteFacts
  <2>4. p \in DOMAIN node
    <3>1. level[Root] \in Nat
      BY <1>8, <2>1, RouteFacts
    <3>2. 0 \in 0 .. level[Root]
      BY <3>1
    <3> QED
      BY <1>8, <2>1, <3>2, RouteFacts
  <2>5. PICK m \in DOMAIN C : C[m] = p
    BY <1>8, <2>3, <2>4
  <2>6. InLeaf(C[m], [key |-> k, val |-> contents[k]])
    BY <2>2, <2>5 DEF InLeaf
  <2> QED
    BY <1>7, <2>6
<1>11. \A e : e \in ToSet(Scan) <=> Seen(Scan, e)
  BY DEF ToSet, Seen
<1>12. ToSet(Scan) = {[key |-> k, val |-> contents[k]] : k \in StoredKeys}
  BY <1>7, <1>9, <1>10, <1>11
<1> QED
  BY <1>6, <1>12 DEF Climbs

(* Each key, and nothing for the others                                    *)
LEMMA FindsAll == TreeInv => SearchFindsAll
<1> SUFFICES ASSUME TreeInv, Quiet, NEW k \in Keys PROVE Search(k) = contents[k]
  BY DEF SearchFindsAll
<1>1. PICK level, C, L :
        /\ Tree(node, op, contents, level, C, L)
        /\ ~broken => \E route : Leads(node, op, contents, level, C, route)
  BY DEF TreeInv, Sound
<1>2. PICK route : Leads(node, Idle, contents, level, C, route)
  BY <1>1 DEF Quiet
<1> QED
  BY <1>1, <1>2, SearchFinds DEF Tree

-----------------------------------------------------------------------------
(* Whatever inserts and deletes have run, and wherever some of them have   *)
(* failed, no key that is stored is lost to a scan.                        *)
THEOREM ScanLosesNothingSafe == Spec => []ScanLosesNothing
BY TreeInvariant, ReachesAll, PTL

(* As long as no call has left a sibling without a parent, btree_search    *)
(* finds for every key the value stored last, and nothing for a key that   *)
(* is not stored.                                                          *)
THEOREM SearchFindsAllSafe == Spec => []SearchFindsAll
BY TreeInvariant, FindsAll, PTL

(* Then, too, btree_scan returns every stored key once, with its value, in *)
(* increasing order.                                                       *)
THEOREM ScanInOrderSafe == Spec => []ScanInOrder
BY TreeInvariant, ScansInOrder, PTL
=============================================================================
