---------------------------- MODULE EditorProofs ----------------------------
(***************************************************************************)
(* Proofs about the text box. First Editor: no command makes more of the   *)
(* text than the limit allows, or the cursor negative (EditorInv, the      *)
(* inductive invariant); hence an open popup belongs to the word that ends *)
(* at the cursor, or the mouse or the find bar has moved the cursor from   *)
(* the word (PopupSafe), and F3 visits the matches the find bar counts     *)
(* (FindSafe).                                                             *)
(* Then History: the two stacks together hold at most CAP snapshots, hence *)
(* undo and redo give none up, hence every step is a step along the line   *)
(* of Timeline.                                                            *)
(***************************************************************************)
EXTENDS Editor, History, WellFoundedInduction, FiniteSetTheorems, SequenceTheorems, TLAPS

-----------------------------------------------------------------------------
(* Sets of numbers. The least element of a set stands for the induction    *)
(* rule.                                                                   *)

(* Every nonempty set of natural numbers has a least element.              *)
LEMMA LeastNumber ==
  ASSUME NEW T \in SUBSET Nat, T # {}
  PROVE  \E m \in T : \A k \in T : m <= k
<1> DEFINE R == {ss \in Nat \X Nat : ss[1] < ss[2]}
<1>1. IsWellFoundedOn(R, Nat)
  <2>1. OpToRel(<, Nat) = R
    BY DEF OpToRel
  <2> QED
    BY <2>1, NatLessThanWellFounded
<1>2. \E x \in T : \A y \in T : ~ (<<y, x>> \in R)
  <2> HIDE DEF R
  <2> QED
    BY <1>1, WFMin
<1>3. PICK m \in T : \A k \in T : ~ (<<k, m>> \in R)
  BY <1>2
<1>4. ASSUME NEW k \in T PROVE m <= k
  <2>1. <<k, m>> \in Nat \X Nat /\ <<k, m>>[1] = k /\ <<k, m>>[2] = m
    OBVIOUS
  <2> QED
    BY <1>3, <2>1
<1> QED
  BY <1>4

(* A set with 0 and with the successor of each of its elements below N.    *)
LEMMA Induction ==
  ASSUME NEW S, NEW N \in Nat, 0 \in S, \A n \in 1 .. N : n - 1 \in S => n \in S
  PROVE  \A n \in 0 .. N : n \in S
<1> DEFINE T == (0 .. N) \ S
<1> SUFFICES ASSUME T # {} PROVE FALSE
  OBVIOUS
<1>1. T \in SUBSET Nat
  OBVIOUS
<1>2. PICK m \in T : \A k \in T : m <= k
  <2> HIDE DEF T
  <2> QED
    BY <1>1, LeastNumber
<1>3. m \in 0 .. N /\ m \notin S /\ m # 0
  OBVIOUS
<1>4. m \in 1 .. N /\ m - 1 \in 0 .. N /\ ~(m <= m - 1)
  BY <1>3
<1>5. m - 1 \in S
  BY <1>2, <1>4
<1> QED
  BY <1>3, <1>4, <1>5

(* The same from N down to 0.                                              *)
LEMMA DownInduction ==
  ASSUME NEW S, NEW N \in Nat, N \in S, \A n \in 1 .. N : n \in S => n - 1 \in S
  PROVE  \A n \in 0 .. N : n \in S
<1> DEFINE T == {n \in 0 .. N : N - n \in S}
<1>1. 0 \in T
  OBVIOUS
<1>2. ASSUME NEW n \in 1 .. N, n - 1 \in T PROVE n \in T
  <2>1. N - (n - 1) \in 1 .. N /\ N - (n - 1) \in S /\ N - (n - 1) - 1 = N - n
    BY <1>2
  <2> QED
    BY <2>1
<1>3. \A n \in 0 .. N : n \in T
  <2> HIDE DEF T
  <2> QED
    BY <1>1, <1>2, Induction
<1>4. ASSUME NEW n \in 0 .. N PROVE n \in S
  <2>1. N - n \in 0 .. N /\ N - (N - n) = n
    OBVIOUS
  <2> QED
    BY <1>3, <2>1
<1> QED
  BY <1>4

(* Min and Max of a set of numbers within bounds.                          *)
LEMMA MinOf ==
  ASSUME NEW a \in Int, NEW S \in SUBSET Int, S # {}, \A x \in S : a <= x
  PROVE  Min(S) \in S /\ \A x \in S : Min(S) <= x
<1> DEFINE T == {n \in Nat : n + a \in S}
<1>1. PICK x \in S : TRUE
  OBVIOUS
<1>2. x - a \in T
  OBVIOUS
<1>3. PICK m \in T : \A k \in T : m <= k
  <2>1. T \in SUBSET Nat /\ T # {}
    BY <1>2
  <2> HIDE DEF T
  <2> QED
    BY <2>1, LeastNumber
<1>4. ASSUME NEW y \in S PROVE m + a <= y
  <2>1. y - a \in T
    OBVIOUS
  <2> QED
    BY <1>3, <2>1
<1>5. m + a \in S
  OBVIOUS
<1> HIDE DEF T
<1> QED
  BY <1>4, <1>5 DEF Min

(* The greatest element of a set with an upper bound.                      *)
LEMMA MaxOf ==
  ASSUME NEW b \in Int, NEW S \in SUBSET Int, S # {}, \A x \in S : x <= b
  PROVE  Max(S) \in S /\ \A x \in S : x <= Max(S)
<1> DEFINE T == {n \in Nat : b - n \in S}
<1>1. PICK x \in S : TRUE
  OBVIOUS
<1>2. b - x \in T
  <2>1. b - x \in Nat /\ b - (b - x) = x
    OBVIOUS
  <2> QED
    BY <2>1
<1>3. PICK m \in T : \A k \in T : m <= k
  <2>1. T \in SUBSET Nat /\ T # {}
    BY <1>2
  <2> HIDE DEF T
  <2> QED
    BY <2>1, LeastNumber
<1>4. ASSUME NEW y \in S PROVE y <= b - m
  <2>1. b - y \in T
    <3>1. b - y \in Nat /\ b - (b - y) = y
      OBVIOUS
    <3> QED
      BY <3>1
  <2>2. m <= b - y /\ m \in Nat /\ y \in Int
    BY <1>3, <2>1
  <2> QED
    BY <2>2
<1>5. b - m \in S
  OBVIOUS
<1> HIDE DEF T
<1> QED
  BY <1>4, <1>5 DEF Max

-----------------------------------------------------------------------------
(* Texts. What a text holds does not matter here: only that it is finite.  *)
IsText(t) == t \in Seq({t[i] : i \in DOMAIN t})

(* A function on 1 .. n is a text.                                         *)
LEMMA MadeText ==
  ASSUME NEW n \in Nat, NEW f, f = [i \in 1 .. n |-> f[i]]
  PROVE  IsText(f) /\ Len(f) = n
<1>1. DOMAIN f = 1 .. n
  OBVIOUS
<1> DEFINE S == {f[i] : i \in DOMAIN f}
<1>2. f \in [1 .. n -> S]
  BY <1>1
<1> HIDE DEF S
<1>3. f \in Seq(S)
  BY <1>2
<1>4. Len(f) = n
  BY <1>1, <1>3
<1> QED
  BY <1>3, <1>4 DEF IsText, S

(* So is a sequence.                                                       *)
LEMMA SeqText ==
  ASSUME NEW S, NEW t \in Seq(S)
  PROVE  IsText(t)
<1>1. Len(t) \in Nat /\ t = [i \in 1 .. Len(t) |-> t[i]]
  OBVIOUS
<1> QED
  BY <1>1, MadeText

(* A text is a function on 1 to its length.                                *)
LEMMA TextFacts ==
  ASSUME NEW t, IsText(t)
  PROVE  Len(t) \in Nat /\ DOMAIN t = 1 .. Len(t) /\ t = [i \in 1 .. Len(t) |-> t[i]]
<1> DEFINE S == {t[i] : i \in DOMAIN t}
<1>1. t \in Seq(S)
  BY DEF IsText
<1> HIDE DEF S
<1> QED
  BY <1>1

(* Putting two texts together.                                             *)
LEMMA CatText ==
  ASSUME NEW s, NEW t, IsText(s), IsText(t)
  PROVE  /\ IsText(s \o t) /\ Len(s \o t) = Len(s) + Len(t)
         /\ \A i \in 1 .. Len(s) : (s \o t)[i] = s[i]
         /\ \A i \in 1 .. Len(t) : (s \o t)[Len(s) + i] = t[i]
<1> DEFINE S == {s[i] : i \in DOMAIN s} \cup {t[i] : i \in DOMAIN t}
<1>1. s \in Seq(S) /\ t \in Seq(S)
  <2>1. s \in [1 .. Len(s) -> S] /\ Len(s) \in Nat
    BY TextFacts
  <2>2. t \in [1 .. Len(t) -> S] /\ Len(t) \in Nat
    BY TextFacts
  <2> HIDE DEF S
  <2> QED
    BY <2>1, <2>2
<1> HIDE DEF S
<1>2. s \o t \in Seq(S) /\ Len(s \o t) = Len(s) + Len(t)
  BY <1>1
<1>3. \A i \in 1 .. Len(s) : (s \o t)[i] = s[i]
  BY <1>1
<1>4. \A i \in 1 .. Len(t) : (s \o t)[Len(s) + i] = t[i]
  BY <1>1
<1> QED
  BY <1>2, <1>3, <1>4, SeqText

(* Part of a text.                                                         *)
LEMMA SubText ==
  ASSUME NEW t, NEW a \in Int, NEW b \in Int
  PROVE  /\ IsText(SubSeq(t, a, b))
         /\ Len(SubSeq(t, a, b)) = IF a <= b THEN b - a + 1 ELSE 0
         /\ \A i \in 1 .. b - a + 1 : SubSeq(t, a, b)[i] = t[a + i - 1]
<1> DEFINE S == {t[i] : i \in a .. b}
<1>1. \A i \in a .. b : t[i] \in S
  OBVIOUS
<1> HIDE DEF S
<1>2. SubSeq(t, a, b) \in Seq(S)
  BY <1>1, SubSeqProperties
<1>3. Len(SubSeq(t, a, b)) = IF a <= b THEN b - a + 1 ELSE 0
  BY <1>1, SubSeqProperties
<1>4. \A i \in 1 .. b - a + 1 : SubSeq(t, a, b)[i] = t[a + i - 1]
  BY <1>1, SubSeqProperties
<1> QED
  BY <1>2, <1>3, <1>4, SeqText

(* Spaces, the indentation of a line.                                      *)
LEMMA SpacesText ==
  ASSUME NEW n \in Nat
  PROVE  IsText(Spaces(n)) /\ Len(Spaces(n)) = n
<1>1. Spaces(n) = [i \in 1 .. n |-> Spaces(n)[i]]
  BY DEF Spaces
<1> QED
  BY <1>1, MadeText

(* The same for a number of spaces that may be negative.                   *)
LEMMA SpacesAny ==
  ASSUME NEW n \in Int
  PROVE  IsText(Spaces(n)) /\ Len(Spaces(n)) \in Nat
<1>1. CASE n \in Nat
  BY <1>1, SpacesText
<1>2. CASE n \notin Nat
  <2>1. 1 .. n = 1 .. 0
    BY <1>2
  <2>2. Spaces(n) = Spaces(0)
    BY <2>1 DEF Spaces
  <2> QED
    BY <2>2, SpacesText
<1> QED
  BY <1>1, <1>2

-----------------------------------------------------------------------------
(* Lines and columns: every line there is has a start and an end, and every *)
(* offset and every column is somewhere on a line.                         *)
LEMMA LeastFacts ==
  ASSUME NEW m \in Int, NEW n \in Int
  PROVE  Least(m, n) \in Int /\ Least(m, n) <= m /\ Least(m, n) <= n /\ Least(m, n) \in {m, n}
BY DEF Least

(* SV_CLAMP between bounds in order gives a number between them.           *)
LEMMA ClampFacts ==
  ASSUME NEW n \in Int, NEW lo \in Int, NEW hi \in Int, lo <= hi
  PROVE  Clamp(n, lo, hi) \in lo .. hi /\ (n \in lo .. hi => Clamp(n, lo, hi) = n)
BY DEF Clamp

(* With bounds in any order it still gives no negative number.             *)
LEMMA ClampNat ==
  ASSUME NEW n \in Int, NEW lo \in Nat, NEW hi \in Nat
  PROVE  Clamp(n, lo, hi) \in Nat
BY DEF Clamp

(* Characters are counted by a natural number.                             *)
LEMMA CountNat ==
  ASSUME NEW s, IsText(s)
  PROVE  count_chars(s) \in Nat /\ (Len(s) = 0 => count_chars(s) = 0)
<1> DEFINE D == 1 .. Len(s)
           S == {i \in DOMAIN s : ~is_cont(s[i])}
<1>1. Len(s) \in Nat /\ DOMAIN s = D
  BY TextFacts
<1>2. IsFiniteSet(D)
  BY <1>1, FS_Interval
<1>3. S \in SUBSET D
  BY <1>1
<1>4. Len(s) = 0 => S = {}
  BY <1>1
<1>5. count_chars(s) = Cardinality(S)
  BY DEF count_chars
<1> HIDE DEF S, D
<1>6. IsFiniteSet(S)
  BY <1>2, <1>3, FS_Subset
<1>7. Cardinality(S) \in Nat
  BY <1>6, FS_CardinalityType
<1>8. S = {} => Cardinality(S) = 0
  BY FS_EmptySet
<1> QED
  BY <1>4, <1>5, <1>7, <1>8

(* The line ends up to an offset.                                          *)
Ends(t, p) == {q \in 1 .. Least(p, Len(t)) : t[q] = "\n"}

(* line_of counts the ends of lines before an offset.                      *)
LEMMA EndsFinite ==
  ASSUME NEW t, IsText(t), NEW p \in Int
  PROVE  /\ IsFiniteSet(Ends(t, p)) /\ line_of(t, p) = Cardinality(Ends(t, p))
         /\ line_of(t, p) \in Nat
<1>1. Len(t) \in Nat
  BY TextFacts
<1>2. Least(p, Len(t)) \in Int
  BY <1>1 DEF Least
<1>3. IsFiniteSet(1 .. Least(p, Len(t)))
  BY <1>2, FS_Interval
<1>4. Ends(t, p) \in SUBSET (1 .. Least(p, Len(t)))
  BY DEF Ends
<1>5. IsFiniteSet(Ends(t, p))
  BY <1>3, <1>4, FS_Subset
<1>6. line_of(t, p) = Cardinality(Ends(t, p))
  BY DEF line_of, Ends
<1> QED
  BY <1>5, <1>6, FS_CardinalityType

(* A greater offset is on no earlier line.                                 *)
LEMMA LineGrows ==
  ASSUME NEW t, IsText(t), NEW p \in Int, NEW q \in Int, p <= q
  PROVE  line_of(t, p) <= line_of(t, q)
<1>1. Len(t) \in Nat
  BY TextFacts
<1>2. Least(p, Len(t)) <= Least(q, Len(t)) /\ Least(p, Len(t)) \in Int /\ Least(q, Len(t)) \in Int
  BY <1>1 DEF Least
<1>3. Ends(t, p) \in SUBSET Ends(t, q)
  BY <1>2 DEF Ends
<1>4. Cardinality(Ends(t, p)) <= Cardinality(Ends(t, q))
  BY <1>3, EndsFinite, FS_Subset
<1> QED
  BY <1>4, EndsFinite

(* A text starts on line 0.                                                *)
LEMMA LineOfNone ==
  ASSUME NEW t, IsText(t)
  PROVE  line_of(t, 0) = 0
<1>1. Len(t) \in Nat
  BY TextFacts
<1>2. Least(0, Len(t)) = 0
  BY <1>1 DEF Least
<1>3. Ends(t, 0) = {}
  BY <1>2 DEF Ends
<1> QED
  BY <1>3, EndsFinite, FS_EmptySet

(* The line changes at the ends of lines only.                             *)
LEMMA LineSteps ==
  ASSUME NEW t, IsText(t), NEW p \in 1 .. Len(t)
  PROVE  line_of(t, p) = IF t[p] = "\n" THEN line_of(t, p - 1) + 1 ELSE line_of(t, p - 1)
<1>1. Len(t) \in Nat /\ p \in Int /\ p - 1 \in Int
  BY TextFacts
<1>2. Least(p, Len(t)) = p /\ Least(p - 1, Len(t)) = p - 1
  BY <1>1 DEF Least
<1>3. p \notin Ends(t, p - 1)
  BY <1>1, <1>2 DEF Ends
<1>4. 1 .. p = (1 .. p - 1) \cup {p}
  BY <1>1
<1>5. CASE t[p] = "\n"
  <2>1. Ends(t, p) = Ends(t, p - 1) \cup {p}
    BY <1>2, <1>4, <1>5 DEF Ends
  <2>2. Cardinality(Ends(t, p)) = Cardinality(Ends(t, p - 1)) + 1
    BY <1>1, <1>3, <2>1, EndsFinite, FS_AddElement
  <2> QED
    BY <1>1, <1>5, <2>2, EndsFinite
<1>6. CASE t[p] # "\n"
  <2>1. Ends(t, p) = Ends(t, p - 1)
    BY <1>2, <1>4, <1>6 DEF Ends
  <2> QED
    BY <1>1, <1>6, <2>1, EndsFinite
<1> QED
  BY <1>5, <1>6

(* Every offset is on one of the lines.                                    *)
LEMMA NumLines ==
  ASSUME NEW t, IsText(t)
  PROVE  /\ num_lines(t) \in Nat \ {0}
         /\ \A p \in Int : line_of(t, p) \in 0 .. num_lines(t) - 1
<1>1. Len(t) \in Nat
  BY TextFacts
<1>2. num_lines(t) = line_of(t, Len(t)) + 1 /\ line_of(t, Len(t)) \in Nat
  BY <1>1, EndsFinite DEF num_lines
<1>3. ASSUME NEW p \in Int PROVE line_of(t, p) \in Nat /\ line_of(t, p) <= line_of(t, Len(t))
  <2>1. CASE p <= Len(t)
    BY <1>1, <2>1, LineGrows, EndsFinite
  <2>2. CASE ~(p <= Len(t))
    <3>1. Least(p, Len(t)) = Len(t) /\ Least(Len(t), Len(t)) = Len(t)
      BY <1>1, <2>2 DEF Least
    <3>2. line_of(t, p) = line_of(t, Len(t))
      BY <3>1 DEF line_of
    <3> QED
      BY <1>2, <3>2
  <2> QED
    BY <2>1, <2>2
<1>4. num_lines(t) \in Nat \ {0} /\ num_lines(t) - 1 = line_of(t, Len(t))
  BY <1>2
<1>5. ASSUME NEW p \in Int PROVE line_of(t, p) \in 0 .. line_of(t, Len(t))
  <2>1. line_of(t, p) \in Nat /\ line_of(t, p) <= line_of(t, Len(t))
    BY <1>3
  <2> QED
    BY <1>2, <2>1
<1> QED
  BY <1>4, <1>5

(* Every line has a start, and it is on that line.                         *)
LEMMA LineStart ==
  ASSUME NEW t, IsText(t), NEW l \in 0 .. num_lines(t) - 1
  PROVE  line_start(t, l) \in 0 .. Len(t) /\ line_of(t, line_start(t, l)) = l
<1>1. Len(t) \in Nat /\ num_lines(t) \in Nat \ {0} /\ num_lines(t) = line_of(t, Len(t)) + 1
  BY TextFacts, NumLines DEF num_lines
<1>2. CASE l = 0
  BY <1>1, <1>2, LineOfNone DEF line_start
<1>3. CASE l # 0
  <2> DEFINE T == {p \in 0 .. Len(t) : l <= line_of(t, p)}
  <2>1. l \in Nat \ {0} /\ l <= line_of(t, Len(t))
    BY <1>1, <1>3, EndsFinite
  <2>2. Len(t) \in T /\ T \in SUBSET Nat
    BY <1>1, <2>1
  <2>3. PICK m \in T : \A k \in T : m <= k
    <3> HIDE DEF T
    <3> QED
      BY <2>2, LeastNumber
  <2>4. m \in 0 .. Len(t) /\ l <= line_of(t, m) /\ m # 0
    BY <1>3, <2>1, LineOfNone
  <2>5. m \in 1 .. Len(t) /\ m - 1 \in 0 .. Len(t) /\ m - 1 \in Int /\ m \in Int
    BY <1>1, <2>4
  <2>6. ~(l <= line_of(t, m - 1))
    <3>1. m - 1 \notin T
      <4> HIDE DEF T
      <4> QED
        BY <2>3, <2>5
    <3> QED
      BY <2>5, <3>1
  <2>7. line_of(t, m) = l /\ t[m] = "\n"
    <3>1. line_of(t, m) \in Nat /\ line_of(t, m - 1) \in Nat
      BY <2>5, EndsFinite
    <3>2. line_of(t, m) = IF t[m] = "\n" THEN line_of(t, m - 1) + 1 ELSE line_of(t, m - 1)
      BY <2>5, LineSteps
    <3> QED
      BY <2>1, <2>4, <2>6, <3>1, <3>2
  <2>8. line_start(t, l) = CHOOSE p \in 1 .. Len(t) : t[p] = "\n" /\ line_of(t, p) = l
    BY <1>3 DEF line_start
  <2>9. line_start(t, l) \in 1 .. Len(t) /\ line_of(t, line_start(t, l)) = l
    <3> HIDE DEF T
    <3> QED
      BY <2>5, <2>7, <2>8
  <2> QED
    BY <1>1, <2>9
<1> QED
  BY <1>2, <1>3

(* A line ends within the text, and not before its start.                  *)
LEMMA LineEnd ==
  ASSUME NEW t, IsText(t), NEW l \in 0 .. num_lines(t) - 1
  PROVE  /\ line_start(t, l) \in Nat /\ line_end(t, l) \in Nat
         /\ line_start(t, l) <= line_end(t, l) /\ line_end(t, l) <= Len(t)
<1>1. Len(t) \in Nat /\ num_lines(t) \in Nat \ {0} /\ l \in Nat
  BY TextFacts, NumLines
<1>2. line_start(t, l) \in 0 .. Len(t) /\ line_of(t, line_start(t, l)) = l
  BY LineStart
<1>3. CASE l + 1 < num_lines(t)
  <2>1. l + 1 \in 0 .. num_lines(t) - 1
    BY <1>1, <1>3
  <2>2. line_start(t, l + 1) \in 0 .. Len(t) /\ line_of(t, line_start(t, l + 1)) = l + 1
    BY <2>1, LineStart
  <2>3. line_start(t, l) < line_start(t, l + 1)
    <3>1. line_start(t, l + 1) <= line_start(t, l) => l + 1 <= l
      <4> DEFINE a == line_start(t, l + 1)
                 b == line_start(t, l)
      <4>1. a \in Int /\ b \in Int /\ line_of(t, a) = l + 1 /\ line_of(t, b) = l
        BY <1>1, <1>2, <2>2
      <4> HIDE DEF a, b
      <4>2. a <= b => line_of(t, a) <= line_of(t, b)
        BY <4>1, LineGrows
      <4>3. a <= b => l + 1 <= l
        BY <4>1, <4>2
      <4> QED
        BY <4>3 DEF a, b
    <3> QED
      BY <1>1, <1>2, <2>2, <3>1
  <2>4. line_end(t, l) = line_start(t, l + 1) - 1
    BY <1>3 DEF line_end
  <2> QED
    BY <1>1, <1>2, <2>2, <2>3, <2>4
<1>4. CASE ~(l + 1 < num_lines(t))
  BY <1>1, <1>2, <1>4 DEF line_end
<1> QED
  BY <1>3, <1>4

(* The bytes between two offsets.                                          *)
LEMMA BytesText ==
  ASSUME NEW t, NEW a \in Int, NEW b \in Int
  PROVE  IsText(Bytes(t, a, b)) /\ Len(Bytes(t, a, b)) = IF a <= b THEN b - a ELSE 0
<1>1. a + 1 \in Int
  OBVIOUS
<1>2. /\ IsText(SubSeq(t, a + 1, b))
      /\ Len(SubSeq(t, a + 1, b)) = IF a + 1 <= b THEN b - (a + 1) + 1 ELSE 0
  BY <1>1, SubText
<1> QED
  BY <1>2 DEF Bytes

(* The text of a line.                                                     *)
LEMMA LineText ==
  ASSUME NEW t, IsText(t), NEW l \in 0 .. num_lines(t) - 1
  PROVE  IsText(Line(t, l)) /\ Len(Line(t, l)) = line_end(t, l) - line_start(t, l)
BY LineEnd, BytesText DEF Line

(* A column is no negative number.                                         *)
LEMMA ColNat ==
  ASSUME NEW t, IsText(t), NEW p \in Int
  PROVE  col_of(t, p) \in Nat
<1>1. line_of(t, p) \in 0 .. num_lines(t) - 1
  BY NumLines
<1>2. line_start(t, line_of(t, p)) \in Nat
  BY <1>1, LineEnd
<1>3. IsText(Bytes(t, line_start(t, line_of(t, p)), p))
  BY <1>2, BytesText
<1> QED
  BY <1>3, CountNat DEF col_of

(* Min and Max of a set of numbers between two bounds.                     *)
LEMMA MaxWithin ==
  ASSUME NEW a \in Int, NEW e \in Int, NEW S \in SUBSET (a .. e), S # {}
  PROVE  Max(S) \in S /\ Min(S) \in S /\ \A x \in S : Min(S) <= x /\ x <= Max(S)
<1>1. S \in SUBSET Int /\ \A x \in S : a <= x /\ x <= e
  OBVIOUS
<1> QED
  BY <1>1, MaxOf, MinOf

(* Every column has an offset on the line.                                 *)
LEMMA ColOffset ==
  ASSUME NEW t, IsText(t), NEW l \in 0 .. num_lines(t) - 1, NEW col \in Nat
  PROVE  offset_at_col(t, l, col) \in line_start(t, l) .. line_end(t, l)
<1> DEFINE a == line_start(t, l)
           e == line_end(t, l)
           S == {p \in a .. e : count_chars(Bytes(t, a, p)) <= col}
<1>1. a \in Nat /\ e \in Nat /\ a <= e
  BY LineEnd
<1>2. IsText(Bytes(t, a, a)) /\ Len(Bytes(t, a, a)) = 0
  BY <1>1, BytesText
<1>3. count_chars(Bytes(t, a, a)) = 0
  BY <1>2, CountNat
<1>4. offset_at_col(t, l, col) = Max(S)
  BY DEF offset_at_col
<1> HIDE DEF a, e
<1>5. a \in S
  BY <1>1, <1>3
<1>6. S \in SUBSET (a .. e)
  OBVIOUS
<1> HIDE DEF S
<1>7. Max(S) \in S
  <2>1. a \in Int /\ e \in Int /\ S # {}
    BY <1>1, <1>5
  <2> QED
    BY <1>6, <2>1, MaxWithin
<1> QED
  BY <1>4, <1>6, <1>7 DEF a, e

(* The first character that is no space, or the end of the line.           *)
LEMMA FirstNonSpace ==
  ASSUME NEW t, IsText(t), NEW l \in 0 .. num_lines(t) - 1
  PROVE  first_non_space(t, l) \in line_start(t, l) .. line_end(t, l)
<1> DEFINE a == line_start(t, l)
           e == line_end(t, l)
           S == {p \in a .. e : p = e \/ char_at(t, p) # " "}
<1>1. a \in Nat /\ e \in Nat /\ a <= e
  BY LineEnd
<1>2. first_non_space(t, l) = Min(S)
  BY DEF first_non_space
<1> HIDE DEF a, e
<1>3. e \in S
  BY <1>1
<1>4. S \in SUBSET (a .. e)
  OBVIOUS
<1> HIDE DEF S
<1>5. Min(S) \in S
  <2>1. a \in Int /\ e \in Int /\ S # {}
    BY <1>1, <1>3
  <2> QED
    BY <1>4, <2>1, MaxWithin
<1> QED
  BY <1>2, <1>4, <1>5 DEF a, e

-----------------------------------------------------------------------------
(* One change of a buffer. A buffer has a finite text within the limit; its *)
(* cursor is no negative number. That the cursor is within the text is more *)
(* than holds: at the limit it is not.                                      *)
IsBuffer(b) ==
  /\ b \in [text : {b.text}, cursor : Nat, anchor : Int, pref : Nat]
  /\ IsText(b.text) /\ Len(b.text) <= MaxLen

(* What the fields of a buffer are.                                        *)
LEMMA BufferFacts ==
  ASSUME NEW b, IsBuffer(b)
  PROVE  /\ b.cursor \in Nat /\ b.anchor \in Int /\ b.pref \in Nat
         /\ IsText(b.text) /\ Len(b.text) \in Nat /\ Len(b.text) <= MaxLen /\ MaxLen \in Nat
BY TextAssumption, TextFacts DEF IsBuffer

(* A buffer put together from its fields,                                  *)
LEMMA MadeBuffer ==
  ASSUME NEW t, IsText(t), Len(t) <= MaxLen, NEW c \in Nat, NEW a \in Int, NEW p \in Nat
  PROVE  IsBuffer([text |-> t, cursor |-> c, anchor |-> a, pref |-> p])
BY DEF IsBuffer

(* and taken apart.                                                        *)
LEMMA BufferFields ==
  ASSUME NEW b, IsBuffer(b)
  PROVE  b = [text |-> b.text, cursor |-> b.cursor, anchor |-> b.anchor, pref |-> b.pref]
BY DEF IsBuffer

(* A buffer with another cursor or anchor.                                 *)
LEMMA WithCursor ==
  ASSUME NEW b, IsBuffer(b), NEW c \in Nat, NEW a \in Int
  PROVE  /\ IsBuffer([b EXCEPT !.cursor = c, !.anchor = a])
         /\ IsBuffer([b EXCEPT !.anchor = a, !.cursor = c])
         /\ IsBuffer([b EXCEPT !.anchor = a])
<1>1. b \in [text : {b.text}, cursor : Nat, anchor : Int, pref : Nat]
  BY DEF IsBuffer
<1>2. /\ [b EXCEPT !.cursor = c, !.anchor = a]
           \in [text : {b.text}, cursor : Nat, anchor : Int, pref : Nat]
      /\ [b EXCEPT !.anchor = a, !.cursor = c]
           \in [text : {b.text}, cursor : Nat, anchor : Int, pref : Nat]
      /\ [b EXCEPT !.anchor = a] \in [text : {b.text}, cursor : Nat, anchor : Int, pref : Nat]
  BY <1>1
<1>3. ASSUME NEW e, e \in [text : {b.text}, cursor : Nat, anchor : Int, pref : Nat]
      PROVE  IsBuffer(e)
  <2>1. e.text = b.text
    BY <1>3
  <2> QED
    BY <1>3, <2>1 DEF IsBuffer
<1> QED
  BY <1>2, <1>3

(* The anchor alone,                                                       *)
LEMMA WithAnchor ==
  ASSUME NEW b, IsBuffer(b), NEW a \in Int
  PROVE  IsBuffer([b EXCEPT !.anchor = a])
<1>1. b.cursor \in Nat
  BY BufferFacts
<1> QED
  BY <1>1, WithCursor

(* and both of them.                                                       *)
LEMMA WithBoth ==
  ASSUME NEW b, IsBuffer(b), NEW c \in Nat, NEW a \in Int
  PROVE  IsBuffer([b EXCEPT !.anchor = a, !.cursor = c])
BY WithCursor

(* At moves cursor and anchor and leaves the text.                         *)
LEMMA AtBuffer ==
  ASSUME NEW b, IsBuffer(b), NEW c \in Nat, NEW a \in Int
  PROVE  /\ IsBuffer(At(b, c, a)) /\ At(b, c, a).text = b.text
         /\ At(b, c, a).cursor = c /\ At(b, c, a).anchor = a
<1> DEFINE p == col_of(b.text, c)
<1>1. p \in Nat
  BY BufferFacts, ColNat
<1>2. At(b, c, a) = [text |-> b.text, cursor |-> c, anchor |-> a, pref |-> p]
  <2>1. At(b, c, a) = [b EXCEPT !.cursor = c, !.anchor = a, !.pref = p]
    BY DEF At
  <2> HIDE DEF p
  <2> QED
    BY <2>1, BufferFields
<1> HIDE DEF p
<1> QED
  BY <1>1, <1>2, BufferFacts, MadeBuffer

(* What is inserted is cut to the room there is.                           *)
LEMMA FittingText ==
  ASSUME NEW s, IsText(s), NEW room \in Nat
  PROVE  /\ IsText(Fitting(s, room)) /\ Len(Fitting(s, room)) \in 0 .. room
<1>1. Len(s) \in Nat
  BY TextFacts
<1>2. CASE Len(s) <= room
  BY <1>1, <1>2 DEF Fitting
<1>3. CASE ~(Len(s) <= room)
  <2> DEFINE S == {k \in 0 .. room : k = 0 \/ ~is_cont(char_at(s, k))}
  <2>1. S \in SUBSET (0 .. room) /\ 0 \in S
    OBVIOUS
  <2>2. Fitting(s, room) = SubSeq(s, 1, Max(S))
    BY <1>3 DEF Fitting
  <2> HIDE DEF S
  <2>3. S # {} /\ 0 \in Int /\ room \in Int
    BY <2>1
  <2>4. Max(S) \in S
    BY <2>1, <2>3, MaxWithin
  <2>5. Max(S) \in 0 .. room /\ Max(S) \in Int /\ 1 \in Int
    <3>1. Max(S) \in 0 .. room
      BY <2>1, <2>4
    <3> QED
      BY <3>1
  <2>6. /\ IsText(SubSeq(s, 1, Max(S)))
        /\ Len(SubSeq(s, 1, Max(S))) = IF 1 <= Max(S) THEN Max(S) - 1 + 1 ELSE 0
    BY <2>5, SubText
  <2> QED
    BY <2>2, <2>5, <2>6
<1> QED
  BY <1>2, <1>3

(* replace_range never makes more of the text than the limit allows.       *)
LEMMA ReplaceRange ==
  ASSUME NEW b, IsBuffer(b), NEW start \in Int, NEW end \in Int, NEW s, IsText(s)
  PROVE  IsBuffer(replace_range(b, start, end, s))
<1> DEFINE n == Len(b.text)
           p == Clamp(start, 0, n)
           q == Clamp(end, p, n)
           x == Fitting(s, MaxLen - (n - (q - p)))
           t == Bytes(b.text, 0, p) \o x \o Bytes(b.text, q, n)
           c == [b EXCEPT !.text = t]
<1>1. n \in Nat /\ n <= MaxLen /\ MaxLen \in Nat
  BY BufferFacts
<1>2. p \in 0 .. n
  <2> HIDE DEF n
  <2> QED
    BY <1>1, ClampFacts
<1>3. q \in p .. n
  <2> HIDE DEF n, p
  <2> QED
    BY <1>1, <1>2, ClampFacts
<1>4. replace_range(b, start, end, s) = At(c, p + Len(x), -1)
  BY DEF replace_range
<1> HIDE DEF n, p, q
<1>5. MaxLen - (n - (q - p)) \in Nat
  BY <1>1, <1>2, <1>3
<1>6. IsText(x) /\ Len(x) \in 0 .. MaxLen - (n - (q - p))
  BY <1>5, FittingText
<1> HIDE DEF x
<1>7. IsText(t) /\ Len(t) = p + Len(x) + (n - q)
  <2>1. p \in Int /\ q \in Int /\ n \in Int /\ 0 \in Int /\ 0 <= p /\ q <= n
    BY <1>1, <1>2, <1>3
  <2>2. IsText(Bytes(b.text, 0, p)) /\ Len(Bytes(b.text, 0, p)) = p
    BY <2>1, BytesText
  <2>3. IsText(Bytes(b.text, q, n)) /\ Len(Bytes(b.text, q, n)) = n - q
    BY <2>1, BytesText
  <2>4. IsText(Bytes(b.text, 0, p) \o x) /\ Len(Bytes(b.text, 0, p) \o x) = p + Len(x)
    BY <1>6, <2>2, CatText
  <2> QED
    BY <2>3, <2>4, CatText
<1>8. p + Len(x) \in Nat /\ Len(t) <= MaxLen
  <2> HIDE DEF t
  <2> QED
    BY <1>1, <1>2, <1>3, <1>6, <1>7
<1>9. c = [text |-> t, cursor |-> b.cursor, anchor |-> b.anchor, pref |-> b.pref]
  <2> HIDE DEF t
  <2> QED
    BY BufferFields
<1>10. IsBuffer(c)
  <2> HIDE DEF t
  <2> QED
    <3>1. b.cursor \in Nat /\ b.anchor \in Int /\ b.pref \in Nat
      BY BufferFacts
    <3>2. IsBuffer([text |-> t, cursor |-> b.cursor, anchor |-> b.anchor, pref |-> b.pref])
      BY <1>7, <1>8, <3>1, MadeBuffer
    <3> QED
      BY <1>9, <3>2
<1> HIDE DEF c
<1>11. -1 \in Int
  OBVIOUS
<1> QED
  BY <1>4, <1>8, <1>10, <1>11, AtBuffer

(* move_cursor leaves the text.                                            *)
LEMMA MoveCursor ==
  ASSUME NEW b, IsBuffer(b), NEW pos \in Int, NEW select, NEW keep
  PROVE  /\ IsBuffer(move_cursor(b, pos, select, keep))
         /\ move_cursor(b, pos, select, keep).text = b.text
<1> DEFINE p == Clamp(pos, 0, Len(b.text))
           a == IF ~select THEN -1 ELSE IF b.anchor < 0 THEN b.cursor ELSE b.anchor
           f == IF keep THEN b.pref ELSE col_of(b.text, p)
<1>1. p \in Nat
  BY BufferFacts, ClampNat
<1>2. move_cursor(b, pos, select, keep)
        = [text |-> b.text, cursor |-> p, anchor |-> a, pref |-> f]
  <2>1. move_cursor(b, pos, select, keep)
          = [b EXCEPT !.cursor = p,
                      !.anchor = IF ~select THEN -1 ELSE IF @ < 0 THEN b.cursor ELSE @,
                      !.pref   = IF keep THEN @ ELSE col_of(b.text, p)]
    BY DEF move_cursor
  <2> HIDE DEF p
  <2> QED
    BY <2>1, BufferFields
<1> HIDE DEF p
<1>3. a \in Int /\ f \in Nat
  <2>1. b.cursor \in Nat /\ b.anchor \in Int /\ b.pref \in Nat /\ IsText(b.text) /\ p \in Int
    BY <1>1, BufferFacts
  <2>2. col_of(b.text, p) \in Nat
    BY <2>1, ColNat
  <2> QED
    BY <2>1, <2>2
<1> HIDE DEF a, f
<1> QED
  BY <1>1, <1>2, <1>3, BufferFacts, MadeBuffer

(* A selection starts before it ends.                                      *)
LEMMA Selection ==
  ASSUME NEW b, IsBuffer(b)
  PROVE  sel_start(b) \in Nat /\ sel_end(b) \in Nat /\ sel_start(b) <= sel_end(b)
BY BufferFacts DEF sel_start, sel_end, has_sel, Least

(* delete_range is replace_range by nothing.                               *)
LEMMA DeleteRange ==
  ASSUME NEW b, IsBuffer(b), NEW p \in Int, NEW q \in Int
  PROVE  IsBuffer(delete_range(b, p, q))
<1>1. IsText(<<>>)
  <2>1. <<>> \in Seq({})
    OBVIOUS
  <2> QED
    BY <2>1, SeqText
<1> QED
  BY <1>1, ReplaceRange DEF delete_range

-----------------------------------------------------------------------------
(* Words: Back and Ahead stop where the characters they pass end.          *)
LEMMA BackWord ==
  ASSUME NEW t, NEW p \in Nat
  PROVE  /\ Back(t, p, WordChars) \in 0 .. p
         /\ \A i \in Back(t, p, WordChars) .. p - 1 : is_word_char(char_at(t, i))
<1> DEFINE S == {q \in 0 .. p : \A i \in q .. p - 1 : is_word_char(char_at(t, i))}
<1>1. p \in S /\ S \in SUBSET (0 .. p)
  OBVIOUS
<1>2. Back(t, p, WordChars) = Min(S)
  BY DEF Back, is_word_char
<1>3. Min(S) \in S
  <2> HIDE DEF S
  <2>1. 0 \in Int /\ p \in Int /\ S # {}
    BY <1>1
  <2> QED
    BY <1>1, <2>1, MaxWithin
<1>4. Min(S) \in 0 .. p /\ \A i \in Min(S) .. p - 1 : is_word_char(char_at(t, i))
  <2> DEFINE m == Min(S)
  <2>1. m \in S
    BY <1>3
  <2> HIDE DEF m
  <2> QED
    BY <2>1 DEF m
<1> QED
  BY <1>2, <1>4

(* and Back stops only there: before it is no word character.              *)
LEMMA BackStarts ==
  ASSUME NEW t, NEW p \in Nat
  PROVE  StartsWord(t, Back(t, p, WordChars))
<1> DEFINE S == {q \in 0 .. p : \A i \in q .. p - 1 : is_word_char(char_at(t, i))}
           m == Min(S)
<1>1. p \in S /\ S \in SUBSET (0 .. p)
  OBVIOUS
<1>2. Back(t, p, WordChars) = m
  BY DEF Back, is_word_char
<1>3. m \in S /\ \A x \in S : m <= x
  <2> HIDE DEF S
  <2>1. 0 \in Int /\ p \in Int /\ S # {}
    BY <1>1
  <2> QED
    BY <1>1, <2>1, MaxWithin
<1> HIDE DEF m
<1>4. CASE m = 0
  <2>1. char_at(t, m - 1) = None
    BY <1>4 DEF char_at
  <2> QED
    BY <1>2, <2>1 DEF StartsWord, is_word_char, WordChars, None, Lower, Upper, Lead, Cont
<1>5. CASE m # 0
  <2> SUFFICES ASSUME is_word_char(char_at(t, m - 1)) PROVE FALSE
    BY <1>2 DEF StartsWord
  <2>1. m \in 1 .. p /\ \A i \in m .. p - 1 : is_word_char(char_at(t, i))
    BY <1>3, <1>5
  <2>2. \A i \in m - 1 .. p - 1 : is_word_char(char_at(t, i))
    <3>1. \A i \in m - 1 .. p - 1 : i = m - 1 \/ i \in m .. p - 1
      BY <2>1
    <3> QED
      BY <2>1, <3>1
  <2>3. m - 1 \in 0 .. p
    BY <2>1
  <2>4. m - 1 \in S
    BY <2>2, <2>3
  <2>5. m <= m - 1
    BY <1>3, <2>4
  <2> QED
    BY <2>1, <2>5
<1> QED
  BY <1>4, <1>5

(* The same over the spaces before an offset.                              *)
LEMMA BackSpace ==
  ASSUME NEW t, NEW p \in Nat
  PROVE  Back(t, p, Blanks) \in 0 .. p
<1> DEFINE S == {q \in 0 .. p : \A i \in q .. p - 1 : char_at(t, i) \in Blanks}
<1>1. p \in S /\ S \in SUBSET (0 .. p)
  OBVIOUS
<1>2. Back(t, p, Blanks) = Min(S)
  BY DEF Back
<1> HIDE DEF S
<1>3. 0 \in Int /\ p \in Int /\ S # {}
  BY <1>1
<1>4. Min(S) \in S
  BY <1>1, <1>3, MaxWithin
<1> QED
  BY <1>1, <1>2, <1>4

(* Word characters and spaces from an offset on.                           *)
LEMMA AheadNat ==
  ASSUME NEW t, IsText(t), NEW p \in Nat
  PROVE  /\ Ahead(t, p, WordChars) \in Nat /\ p <= Ahead(t, p, WordChars)
         /\ Ahead(t, p, Blanks) \in Nat /\ p <= Ahead(t, p, Blanks)
<1> DEFINE e == p + Len(t)
<1>0. e \in Nat /\ p <= e /\ Len(t) \in Nat /\ Len(t) <= e
  BY TextFacts
<1>1. ASSUME NEW S \in SUBSET ({p} \cup (p .. Len(t))), p \in S
      PROVE  Max(S) \in Nat /\ p <= Max(S)
  <2>1. S \in SUBSET (p .. e) /\ p \in Int /\ e \in Int /\ S # {}
    BY <1>0, <1>1
  <2> HIDE DEF e
  <2>2. Max(S) \in S
    BY <2>1, MaxWithin
  <2>3. Max(S) \in p .. e
    BY <2>1, <2>2
  <2> QED
    BY <2>1, <2>3
<1>2. Ahead(t, p, WordChars) \in Nat /\ p <= Ahead(t, p, WordChars)
  <2> DEFINE S == {q \in {p} \cup (p .. Len(t)) :
                     \A i \in p .. q - 1 : char_at(t, i) \in WordChars}
  <2>1. p \in S /\ S \in SUBSET ({p} \cup (p .. Len(t)))
    OBVIOUS
  <2>2. Ahead(t, p, WordChars) = Max(S)
    BY DEF Ahead
  <2> HIDE DEF S
  <2> QED
    BY <1>1, <2>1, <2>2
<1>3. Ahead(t, p, Blanks) \in Nat /\ p <= Ahead(t, p, Blanks)
  <2> DEFINE S == {q \in {p} \cup (p .. Len(t)) :
                     \A i \in p .. q - 1 : char_at(t, i) \in Blanks}
  <2>1. p \in S /\ S \in SUBSET ({p} \cup (p .. Len(t)))
    OBVIOUS
  <2>2. Ahead(t, p, Blanks) = Max(S)
    BY DEF Ahead
  <2> HIDE DEF S
  <2> QED
    BY <1>1, <2>1, <2>2
<1> QED
  BY <1>2, <1>3

(* The characters before and after an offset (utf8_prev, utf8_next).       *)
LEMMA CharSteps ==
  ASSUME NEW t, IsText(t), NEW p \in Nat
  PROVE  utf8_prev(t, p) \in Nat /\ utf8_next(t, p) \in Nat
<1>0. Len(t) \in Nat
  BY TextFacts
<1>1. utf8_prev(t, p) \in Nat
  <2>1. CASE p <= 0
    BY <2>1 DEF utf8_prev
  <2>2. CASE ~(p <= 0)
    <3> DEFINE S == {q \in 0 .. p - 1 : q = 0 \/ ~is_cont(char_at(t, q))}
    <3>1. 0 \in S /\ S \in SUBSET (0 .. p - 1)
      BY <2>2
    <3>2. utf8_prev(t, p) = Max(S)
      BY <2>2 DEF utf8_prev
    <3> HIDE DEF S
    <3>3. S # {} /\ 0 \in Int /\ p - 1 \in Int
      BY <3>1
    <3>4. Max(S) \in S
      BY <3>1, <3>3, MaxWithin
    <3>5. Max(S) \in 0 .. p - 1
      BY <3>1, <3>4
    <3> QED
      BY <3>2, <3>5
  <2> QED
    BY <2>1, <2>2
<1>2. utf8_next(t, p) \in Nat
  <2>1. CASE p >= Len(t)
    BY <1>0, <2>1 DEF utf8_next
  <2>2. CASE ~(p >= Len(t))
    <3> DEFINE S == {q \in p + 1 .. Len(t) : q = Len(t) \/ ~is_cont(char_at(t, q))}
    <3>1. Len(t) \in S /\ S \in SUBSET (p + 1 .. Len(t))
      BY <1>0, <2>2
    <3>2. utf8_next(t, p) = Min(S)
      BY <2>2 DEF utf8_next
    <3> HIDE DEF S
    <3>3. S # {} /\ p + 1 \in Int /\ Len(t) \in Int
      BY <1>0, <3>1
    <3>4. Min(S) \in S
      BY <3>1, <3>3, MaxWithin
    <3>5. Min(S) \in p + 1 .. Len(t)
      BY <3>1, <3>4
    <3> QED
      BY <1>0, <3>2, <3>5
  <2> QED
    BY <2>1, <2>2
<1> QED
  BY <1>1, <1>2

(* The words before and after an offset.                                   *)
LEMMA WordSteps ==
  ASSUME NEW t, IsText(t), NEW p \in Nat
  PROVE  word_left(t, p) \in Nat /\ word_right(t, p) \in Nat
<1>1. word_left(t, p) \in Nat
  <2> DEFINE q == Back(t, p, Blanks)
  <2>1. q \in Nat
    BY BackSpace
  <2>2. word_left(t, p) = IF q = 0 THEN 0
                          ELSE IF is_word_char(char_at(t, q - 1)) THEN Back(t, q, WordChars)
                          ELSE utf8_prev(t, q)
    BY DEF word_left
  <2> HIDE DEF q
  <2>3. Back(t, q, WordChars) \in Nat
    <3>1. Back(t, q, WordChars) \in 0 .. q
      BY <2>1, BackWord
    <3> QED
      BY <3>1
  <2>4. utf8_prev(t, q) \in Nat
    BY <2>1, CharSteps
  <2> QED
    <3>1. word_left(t, p) \in {0, Back(t, q, WordChars), utf8_prev(t, q)}
      BY <2>2
    <3> HIDE DEF q
    <3> QED
      BY <2>3, <2>4, <3>1
<1>2. word_right(t, p) \in Nat
  <2> DEFINE q == IF is_word_char(char_at(t, p)) THEN Ahead(t, p, WordChars)
                  ELSE IF char_at(t, p) # " " THEN utf8_next(t, p) ELSE p
  <2>1. q \in Nat /\ Len(t) \in Nat
    BY AheadNat, CharSteps, TextFacts
  <2>2. word_right(t, p) = IF p >= Len(t) THEN Len(t) ELSE Ahead(t, q, Blanks)
    BY DEF word_right
  <2> HIDE DEF q
  <2> QED
    BY <2>1, <2>2, AheadNat
<1> QED
  BY <1>1, <1>2

(* Texts put together from a sequence of texts.                            *)
Flat(seqs, n, g) == g = [i \in 1 .. n |-> IF i = 1 THEN seqs[i] ELSE g[i - 1] \o seqs[i]]

(* Texts put together, as many as there are.                               *)
LEMMA FlattenText ==
  ASSUME NEW seqs, IsText(seqs), \A i \in 1 .. Len(seqs) : IsText(seqs[i])
  PROVE  IsText(FlattenSeq(seqs))
<1> DEFINE N == Len(seqs)
           Good == {n \in 0 .. N : \E g : Flat(seqs, n, g)}
           flatten == CHOOSE g : Flat(seqs, N, g)
<1>1. N \in Nat
  BY TextFacts
<1>2. 0 \in Good
  <2>1. Flat(seqs, 0, [i \in 1 .. 0 |-> seqs[i]])
    BY DEF Flat
  <2> QED
    BY <1>1, <2>1
<1>3. ASSUME NEW n \in 1 .. N, n - 1 \in Good PROVE n \in Good
  <2>1. PICK g : Flat(seqs, n - 1, g)
    BY <1>3
  <2> DEFINE h == [i \in 1 .. n |-> IF i = n THEN IF n = 1 THEN seqs[n] ELSE g[n - 1] \o seqs[n]
                                    ELSE g[i]]
  <2>2. ASSUME NEW i \in 1 .. n
        PROVE  h[i] = IF i = 1 THEN seqs[i] ELSE h[i - 1] \o seqs[i]
    <3>1. CASE i = n
      <4>1. CASE n = 1
        BY <3>1, <4>1
      <4>2. CASE n # 1
        <5>1. n - 1 \in 1 .. n /\ n - 1 # n /\ n \in 1 .. n
          BY <1>1, <4>2
        <5>2. h[n - 1] = g[n - 1]
          BY <5>1
        <5>3. h[n] = g[n - 1] \o seqs[n]
          BY <4>2, <5>1
        <5> QED
          BY <3>1, <4>2, <5>2, <5>3
      <4> QED
        BY <4>1, <4>2
    <3>2. CASE i # n
      <4>1. i \in 1 .. n - 1 /\ i \in Int /\ n \in Int
        BY <1>1, <3>2
      <4>2. g[i] = IF i = 1 THEN seqs[i] ELSE g[i - 1] \o seqs[i]
        BY <2>1, <4>1 DEF Flat
      <4>3. h[i] = g[i]
        BY <3>2
      <4>4. i # 1 => h[i - 1] = g[i - 1]
        <5>1. i # 1 => i - 1 \in 1 .. n /\ i - 1 # n
          BY <4>1
        <5> QED
          BY <5>1
      <4> HIDE DEF h
      <4> QED
        BY <4>2, <4>3, <4>4
    <3> QED
      BY <3>1, <3>2
  <2>3. Flat(seqs, n, h)
    <3>1. h = [i \in 1 .. n |-> h[i]]
      OBVIOUS
    <3> HIDE DEF h
    <3> QED
      BY <2>2, <3>1 DEF Flat
  <2>4. n \in 0 .. N
    BY <1>1
  <2> HIDE DEF h
  <2> QED
    BY <2>3, <2>4
<1>4. N \in Good
  <2> HIDE DEF Good
  <2>1. \A n \in 0 .. N : n \in Good
    <3> HIDE DEF N
    <3> QED
      BY <1>1, <1>2, <1>3, Induction
  <2> QED
    BY <1>1, <2>1
<1>5. Flat(seqs, N, flatten)
  BY <1>4
<1>6. FlattenSeq(seqs) = IF N = 0 THEN seqs ELSE flatten[N]
  BY DEF FlattenSeq, Flat
<1> HIDE DEF flatten
<1>7. \A i \in 1 .. N : flatten[i] = IF i = 1 THEN seqs[i] ELSE flatten[i - 1] \o seqs[i]
  BY <1>5 DEF Flat
<1>8. \A n \in 0 .. N : n \in {i \in 0 .. N : i = 0 \/ IsText(flatten[i])}
  <2> DEFINE S == {i \in 0 .. N : i = 0 \/ IsText(flatten[i])}
  <2>1. 0 \in S
    BY <1>1
  <2>2. ASSUME NEW n \in 1 .. N, n - 1 \in S PROVE n \in S
    <3>1. n \in 0 .. N /\ IsText(seqs[n])
      BY <1>1
    <3>2. CASE n = 1
      BY <1>7, <3>1, <3>2
    <3>3. CASE n # 1
      <4>1. IsText(flatten[n - 1]) /\ n - 1 \in 1 .. N
        BY <1>1, <2>2, <3>3
      <4>2. IsText(flatten[n - 1] \o seqs[n])
        BY <3>1, <4>1, CatText
      <4> QED
        BY <1>7, <3>1, <3>3, <4>2
    <3> QED
      BY <3>2, <3>3
  <2> HIDE DEF S
  <2>3. \A n \in 0 .. N : n \in S
    <3> HIDE DEF N
    <3> QED
      BY <1>1, <2>1, <2>2, Induction
  <2> QED
    BY <2>3 DEF S
<1>9. N # 0 => IsText(flatten[N])
  BY <1>1, <1>8
<1> QED
  BY <1>6, <1>9

-----------------------------------------------------------------------------
(* Every command makes a buffer of a buffer.                               *)
LEMMA CursorLine ==
  ASSUME NEW b, IsBuffer(b)
  PROVE  /\ cursor_line(b) \in 0 .. num_lines(b.text) - 1
         /\ num_lines(b.text) \in Nat \ {0}
         /\ IsText(b.text) /\ Len(b.text) \in Nat /\ b.cursor \in Nat
<1>1. IsText(b.text) /\ Len(b.text) \in Nat /\ b.cursor \in Nat /\ b.cursor \in Int
  BY BufferFacts
<1>2. line_of(b.text, b.cursor) \in 0 .. num_lines(b.text) - 1 /\ num_lines(b.text) \in Nat \ {0}
  BY <1>1, NumLines
<1> QED
  BY <1>1, <1>2 DEF cursor_line

(* Left and Right, by character and by word.                               *)
LEMMA LeftRight ==
  ASSUME NEW b, IsBuffer(b), NEW ctrl, NEW shift
  PROVE  IsBuffer(KeyLeft(b, ctrl, shift)) /\ IsBuffer(KeyRight(b, ctrl, shift))
<1>1. /\ sel_start(b) \in Int /\ sel_end(b) \in Int
      /\ word_left(b.text, b.cursor) \in Int /\ word_right(b.text, b.cursor) \in Int
      /\ utf8_prev(b.text, b.cursor) \in Int /\ utf8_next(b.text, b.cursor) \in Int
  <2>1. sel_start(b) \in Int /\ sel_end(b) \in Int
    BY Selection
  <2>2. IsText(b.text) /\ b.cursor \in Nat
    BY BufferFacts
  <2>3. word_left(b.text, b.cursor) \in Nat /\ word_right(b.text, b.cursor) \in Nat
    BY <2>2, WordSteps
  <2>4. utf8_prev(b.text, b.cursor) \in Nat /\ utf8_next(b.text, b.cursor) \in Nat
    BY <2>2, CharSteps
  <2> QED
    BY <2>1, <2>3, <2>4
<1>2. IsBuffer(KeyLeft(b, ctrl, shift))
  <2> DEFINE p == IF ctrl THEN word_left(b.text, b.cursor) ELSE utf8_prev(b.text, b.cursor)
  <2>1. p \in Int
    BY <1>1
  <2>2. KeyLeft(b, ctrl, shift) = IF has_sel(b) /\ ~shift
                                  THEN move_cursor(b, sel_start(b), FALSE, FALSE)
                                  ELSE move_cursor(b, p, shift, FALSE)
    BY DEF KeyLeft
  <2> HIDE DEF p
  <2> QED
    BY <1>1, <2>1, <2>2, MoveCursor
<1>3. IsBuffer(KeyRight(b, ctrl, shift))
  <2> DEFINE p == IF ctrl THEN word_right(b.text, b.cursor) ELSE utf8_next(b.text, b.cursor)
  <2>1. p \in Int
    BY <1>1
  <2>2. KeyRight(b, ctrl, shift) = IF has_sel(b) /\ ~shift
                                   THEN move_cursor(b, sel_end(b), FALSE, FALSE)
                                   ELSE move_cursor(b, p, shift, FALSE)
    BY DEF KeyRight
  <2> HIDE DEF p
  <2> QED
    BY <1>1, <2>1, <2>2, MoveCursor
<1> QED
  BY <1>2, <1>3

(* Offsets on a line are numbers.                                          *)
LEMMA ColumnInt ==
  ASSUME NEW b, IsBuffer(b), NEW l \in 0 .. num_lines(b.text) - 1, NEW col \in Nat
  PROVE  /\ offset_at_col(b.text, l, col) \in Int
         /\ line_start(b.text, l) \in Int /\ line_end(b.text, l) \in Int
         /\ first_non_space(b.text, l) \in Int
<1>1. IsText(b.text)
  BY BufferFacts
<1>2. line_start(b.text, l) \in Int /\ line_end(b.text, l) \in Int
  BY <1>1, LineEnd
<1>3. offset_at_col(b.text, l, col) \in line_start(b.text, l) .. line_end(b.text, l)
  BY <1>1, ColOffset
<1>4. first_non_space(b.text, l) \in line_start(b.text, l) .. line_end(b.text, l)
  BY <1>1, FirstNonSpace
<1> QED
  BY <1>2, <1>3, <1>4

(* Up and Down keep the column.                                            *)
LEMMA UpDown ==
  ASSUME NEW b, IsBuffer(b), NEW shift
  PROVE  IsBuffer(KeyUp(b, shift)) /\ IsBuffer(KeyDown(b, shift))
<1> DEFINE l == cursor_line(b)
           n == num_lines(b.text)
<1>1. l \in 0 .. n - 1 /\ n \in Nat /\ Len(b.text) \in Int /\ b.pref \in Nat
  BY CursorLine, BufferFacts
<1>2. IsBuffer(KeyUp(b, shift))
  <2>1. CASE l = 0
    <3>1. KeyUp(b, shift) = move_cursor(b, 0, shift, FALSE)
      BY <2>1 DEF KeyUp
    <3>2. 0 \in Int
      OBVIOUS
    <3> QED
      BY <3>1, <3>2, MoveCursor
  <2>2. CASE l # 0
    <3>1. l - 1 \in 0 .. n - 1
      BY <1>1, <2>2
    <3>2. offset_at_col(b.text, l - 1, b.pref) \in Int
      BY <1>1, <3>1, ColumnInt
    <3> QED
      BY <2>2, <3>2, MoveCursor DEF KeyUp
  <2> QED
    BY <2>1, <2>2
<1>3. IsBuffer(KeyDown(b, shift))
  <2>1. CASE l >= n - 1
    BY <1>1, <2>1, MoveCursor DEF KeyDown
  <2>2. CASE ~(l >= n - 1)
    <3>1. l + 1 \in 0 .. n - 1
      BY <1>1, <2>2
    <3>2. offset_at_col(b.text, l + 1, b.pref) \in Int
      BY <1>1, <3>1, ColumnInt
    <3> QED
      BY <2>2, <3>2, MoveCursor DEF KeyDown
  <2> QED
    BY <2>1, <2>2
<1> QED
  BY <1>2, <1>3

(* Page Up and Page Down.                                                  *)
LEMMA PageMove ==
  ASSUME NEW b, IsBuffer(b), NEW dir \in Int, NEW vis \in Int, NEW shift
  PROVE  IsBuffer(KeyPage(b, dir, vis, shift))
<1> DEFINE l == Clamp(cursor_line(b) + dir * vis, 0, num_lines(b.text) - 1)
<1>1. dir * vis \in Int
  OBVIOUS
<1>2. cursor_line(b) + dir * vis \in Int /\ num_lines(b.text) - 1 \in Nat
  BY <1>1, CursorLine
<1>3. l \in 0 .. num_lines(b.text) - 1
  BY <1>2, ClampFacts
<1>4. KeyPage(b, dir, vis, shift)
        = move_cursor(b, offset_at_col(b.text, l, b.pref), shift, TRUE)
  BY DEF KeyPage
<1> HIDE DEF l
<1>5. offset_at_col(b.text, l, b.pref) \in Int
  BY <1>3, BufferFacts, ColumnInt
<1> QED
  BY <1>4, <1>5, MoveCursor

(* Home and End.                                                           *)
LEMMA HomeEnd ==
  ASSUME NEW b, IsBuffer(b), NEW ctrl, NEW shift
  PROVE  IsBuffer(KeyHome(b, ctrl, shift)) /\ IsBuffer(KeyEnd(b, ctrl, shift))
<1> DEFINE t == b.text
           l == cursor_line(b)
<1>1. /\ line_start(t, l) \in Int /\ line_end(t, l) \in Int /\ first_non_space(t, l) \in Int
      /\ Len(t) \in Int
  <2>1. l \in 0 .. num_lines(t) - 1 /\ 0 \in Nat
    BY CursorLine
  <2> HIDE DEF l
  <2> QED
    BY <2>1, ColumnInt, BufferFacts
<1>2. IsBuffer(KeyHome(b, ctrl, shift))
  <2> DEFINE p == IF ctrl THEN 0
                  ELSE IF b.cursor = first_non_space(t, l) THEN line_start(t, l)
                  ELSE first_non_space(t, l)
  <2>1. p \in Int
    BY <1>1
  <2>2. KeyHome(b, ctrl, shift) = move_cursor(b, p, shift, FALSE)
    BY DEF KeyHome
  <2> HIDE DEF p
  <2> QED
    BY <2>1, <2>2, MoveCursor
<1>3. IsBuffer(KeyEnd(b, ctrl, shift))
  <2> DEFINE p == IF ctrl THEN Len(t) ELSE line_end(t, l)
  <2>1. p \in Int
    BY <1>1
  <2>2. KeyEnd(b, ctrl, shift) = move_cursor(b, p, shift, FALSE)
    BY DEF KeyEnd
  <2> HIDE DEF p
  <2> QED
    BY <2>1, <2>2, MoveCursor
<1> QED
  BY <1>2, <1>3

(* Ctrl+G goes to a line there is.                                         *)
LEMMA GotoLine ==
  ASSUME NEW b, IsBuffer(b), NEW n \in Int
  PROVE  IsBuffer(goto_line(b, n)) /\ goto_line(b, n).text = b.text
<1> DEFINE l == Clamp(n, 0, num_lines(b.text) - 1)
<1>1. num_lines(b.text) - 1 \in Int /\ 0 \in Int /\ 0 <= num_lines(b.text) - 1
  BY CursorLine
<1>2. l \in 0 .. num_lines(b.text) - 1
  BY <1>1 DEF Clamp
<1>3. goto_line(b, n) = move_cursor(b, first_non_space(b.text, l), FALSE, FALSE)
  BY DEF goto_line
<1> HIDE DEF l
<1>4. 0 \in Nat
  OBVIOUS
<1> DEFINE p == first_non_space(b.text, l)
<1>5. p \in Int
  BY <1>2, <1>4, ColumnInt
<1>6. goto_line(b, n) = move_cursor(b, p, FALSE, FALSE)
  BY <1>3
<1> HIDE DEF p
<1>7. ASSUME NEW select, NEW keep
      PROVE  /\ IsBuffer(move_cursor(b, p, select, keep))
             /\ move_cursor(b, p, select, keep).text = b.text
  BY <1>5, MoveCursor
<1> QED
  BY <1>6, <1>7

(* The start of the next line, or the end of the text.                     *)
LEMMA AfterLine ==
  ASSUME NEW b, IsBuffer(b), NEW l \in 0 .. num_lines(b.text) - 1
  PROVE  StartAfter(b.text, l) \in Nat
<1>1. IsText(b.text) /\ Len(b.text) \in Nat /\ num_lines(b.text) \in Nat
  BY CursorLine
<1>2. CASE l + 1 < num_lines(b.text)
  <2>1. l + 1 \in 0 .. num_lines(b.text) - 1
    BY <1>1, <1>2
  <2>2. line_start(b.text, l + 1) \in Nat
    BY <1>1, <2>1, LineEnd
  <2> QED
    BY <1>2, <2>2 DEF StartAfter
<1>3. CASE ~(l + 1 < num_lines(b.text))
  BY <1>1, <1>3 DEF StartAfter
<1> QED
  BY <1>2, <1>3

(* Lines are selected as a whole.                                          *)
LEMMA SelectLines ==
  ASSUME NEW b, IsBuffer(b), NEW l0 \in 0 .. num_lines(b.text) - 1,
         NEW l1 \in 0 .. num_lines(b.text) - 1
  PROVE  IsBuffer(select_lines(b, l0, l1))
<1>1. StartAfter(b.text, l1) \in Nat
  BY AfterLine
<1>2. 0 \in Nat
  OBVIOUS
<1>3. line_start(b.text, l0) \in Int
  BY <1>2, ColumnInt
<1> QED
  BY <1>1, <1>3, AtBuffer DEF select_lines

(* A double click selects a word.                                          *)
LEMMA SelectWord ==
  ASSUME NEW b, IsBuffer(b), NEW off \in Nat
  PROVE  IsBuffer(select_word_at(b, off))
<1> DEFINE t == b.text
           a == Back(t, off, WordChars)
           e == Ahead(t, off, WordChars)
           u == utf8_next(t, off)
<1>1. IsText(t)
  BY BufferFacts
<1>2. a \in 0 .. off
  BY BackWord
<1>3. e \in Nat /\ u \in Nat
  BY <1>1, AheadNat, CharSteps
<1>4. select_word_at(b, off) \in {At(b, e, a), At(b, off, a), At(b, u, off)}
  BY DEF select_word_at
<1> HIDE DEF a, e, u
<1>5. a \in Int /\ off \in Int
  BY <1>2
<1>6. IsBuffer(At(b, e, a)) /\ IsBuffer(At(b, off, a)) /\ IsBuffer(At(b, u, off))
  BY <1>3, <1>5, AtBuffer
<1> QED
  BY <1>4, <1>6

(* Commands on whole lines.                                                *)
LEMMA SelectedLines ==
  ASSUME NEW b, IsBuffer(b)
  PROVE  /\ first_line(b) \in 0 .. num_lines(b.text) - 1
         /\ last_line(b) \in 0 .. num_lines(b.text) - 1
         /\ first_line(b) <= last_line(b)
<1> DEFINE n == num_lines(b.text)
           l0 == line_of(b.text, sel_start(b))
           l == line_of(b.text, sel_end(b))
<1>1. IsText(b.text) /\ sel_start(b) \in Int /\ sel_end(b) \in Int /\ sel_start(b) <= sel_end(b)
  BY BufferFacts, Selection
<1>2. l0 \in 0 .. n - 1 /\ l \in 0 .. n - 1 /\ n \in Nat
  BY <1>1, NumLines
<1>3. l0 <= l
  BY <1>1, LineGrows
<1>4. first_line(b) = l0
  BY DEF first_line
<1>5. last_line(b) = IF l > l0 /\ sel_end(b) = line_start(b.text, l) THEN l - 1 ELSE l
  BY <1>4 DEF last_line
<1> HIDE DEF n, l0, l
<1>6. last_line(b) \in 0 .. n - 1 /\ l0 <= last_line(b)
  BY <1>2, <1>3, <1>5
<1> QED
  BY <1>2, <1>4, <1>6 DEF n

(* The lines of a command, each a text, put together.                      *)
LEMMA PiecesText ==
  ASSUME NEW l0 \in Int, NEW l1 \in Int, l0 <= l1, NEW g, \A n \in l0 .. l1 : IsText(g[n])
  PROVE  IsText(FlattenSeq([i \in 1 .. l1 - l0 + 1 |->
                              g[l0 + i - 1] \o IF l0 + i - 1 < l1 THEN <<"\n">> ELSE <<>>]))
<1> DEFINE k == l1 - l0 + 1
           h == [i \in 1 .. k |-> g[l0 + i - 1] \o IF l0 + i - 1 < l1 THEN <<"\n">> ELSE <<>>]
<1>1. k \in Nat
  OBVIOUS
<1>2. IsText(h) /\ Len(h) = k
  <2>1. h = [i \in 1 .. k |-> h[i]]
    OBVIOUS
  <2> HIDE DEF h, k
  <2> QED
    BY <1>1, <2>1, MadeText
<1>3. ASSUME NEW i \in 1 .. k PROVE IsText(h[i])
  <2>1. l0 + i - 1 \in l0 .. l1
    OBVIOUS
  <2>2. IsText(IF l0 + i - 1 < l1 THEN <<"\n">> ELSE <<>>)
    <3>1. <<"\n">> \in Seq({"\n"}) /\ <<>> \in Seq({"\n"})
      OBVIOUS
    <3> QED
      BY <3>1, SeqText
  <2>3. IsText(g[l0 + i - 1] \o IF l0 + i - 1 < l1 THEN <<"\n">> ELSE <<>>)
    BY <2>1, <2>2, CatText
  <2> QED
    BY <2>3
<1>4. IsText(FlattenSeq(h))
  <2> HIDE DEF h, k
  <2> QED
    BY <1>2, <1>3, FlattenText
<1> QED
  BY <1>4

(* replace_lines puts a block in the place of lines.                       *)
LEMMA ReplaceLines ==
  ASSUME NEW b, IsBuffer(b), NEW l0 \in 0 .. num_lines(b.text) - 1,
         NEW l1 \in 0 .. num_lines(b.text) - 1, NEW block, IsText(block), NEW delta \in Int
  PROVE  IsBuffer(replace_lines(b, l0, l1, block, delta))
<1> DEFINE a == line_start(b.text, l0)
           e == line_end(b.text, l1)
           r == replace_range(b, a, e, block)
           c == Clamp(b.cursor + delta, a, a + Len(block))
<1>1. a \in Nat /\ e \in Nat
  BY BufferFacts, LineEnd
<1>2. Len(block) \in Nat /\ b.cursor \in Nat
  BY TextFacts, BufferFacts
<1>3. replace_lines(b, l0, l1, block, delta)
        = IF l1 > l0 THEN At(r, a + Len(block), a) ELSE At(r, c, r.anchor)
  BY DEF replace_lines
<1> HIDE DEF a, e
<1>4. c \in Nat
  <2>1. b.cursor + delta \in Int /\ a + Len(block) \in Nat
    BY <1>1, <1>2
  <2> QED
    BY <1>1, <2>1, ClampNat
<1>5. IsBuffer(r)
  BY <1>1, ReplaceRange
<1> HIDE DEF r, c
<1>6. a + Len(block) \in Nat /\ a \in Int /\ r.anchor \in Int
  BY <1>1, <1>2, <1>5, BufferFacts
<1>7. IsBuffer(At(r, a + Len(block), a)) /\ IsBuffer(At(r, c, r.anchor))
  BY <1>4, <1>5, <1>6, AtBuffer
<1> QED
  BY <1>3, <1>7

(* As many spaces as a line can give up.                                   *)
LEMMA OutdentNat ==
  ASSUME NEW line, IsText(line)
  PROVE  Outdent(line) \in Nat
<1> DEFINE S == {k \in 0 .. INDENT : k <= Len(line) /\ \A i \in 1 .. k : line[i] = " "}
<1>1. INDENT \in Nat /\ Len(line) \in Nat
  BY TextAssumption, TextFacts
<1>2. 0 \in S /\ S \in SUBSET (0 .. INDENT)
  <2>1. 0 \in 0 .. INDENT /\ 0 <= Len(line)
    BY <1>1
  <2>2. \A i \in 1 .. 0 : line[i] = " "
    <3>1. 1 .. 0 = {}
      OBVIOUS
    <3> QED
      BY <3>1
  <2> QED
    BY <2>1, <2>2
<1>3. Outdent(line) = Max(S)
  BY DEF Outdent
<1> HIDE DEF S
<1>4. S # {} /\ 0 \in Int /\ INDENT \in Int
  BY <1>1, <1>2
<1>5. Max(S) \in S
  BY <1>2, <1>4, MaxWithin
<1>6. Max(S) \in 0 .. INDENT
  BY <1>2, <1>5
<1> QED
  BY <1>3, <1>6

(* Tab and Shift+Tab on a selection.                                       *)
LEMMA IndentLines ==
  ASSUME NEW b, IsBuffer(b), NEW outdent
  PROVE  IsBuffer(indent_lines(b, outdent))
<1> DEFINE t == b.text
           l0 == first_line(b)
           l1 == last_line(b)
           l == cursor_line(b)
           f(n) == LET x == Line(t, n)
                   IN IF outdent THEN SubSeq(x, Outdent(x) + 1, Len(x)) ELSE Indented(x)
           g == [n \in l0 .. l1 |-> f(n)]
           delta == IF l \notin l0 .. l1 THEN 0
                    ELSE IF outdent THEN -Least(Outdent(Line(t, l)), b.cursor - line_start(t, l))
                    ELSE IF Line(t, l) = <<>> THEN 0 ELSE INDENT
           block == FlattenSeq([i \in 1 .. l1 - l0 + 1 |->
                      g[l0 + i - 1] \o IF l0 + i - 1 < l1 THEN <<"\n">> ELSE <<>>])
<1>1. /\ l0 \in 0 .. num_lines(t) - 1 /\ l1 \in 0 .. num_lines(t) - 1 /\ l0 <= l1
      /\ l \in 0 .. num_lines(t) - 1 /\ num_lines(t) \in Nat /\ IsText(t) /\ b.cursor \in Nat
  BY SelectedLines, CursorLine
<1>2. INDENT \in Nat
  BY TextAssumption
<1>3. ASSUME NEW n \in l0 .. l1 PROVE IsText(f(n))
  <2> DEFINE x == Line(t, n)
  <2>1. n \in 0 .. num_lines(t) - 1
    BY <1>1
  <2>2. IsText(x)
    BY <1>1, <2>1, LineText
  <2>3. f(n) = IF outdent THEN SubSeq(x, Outdent(x) + 1, Len(x)) ELSE Indented(x)
    OBVIOUS
  <2> HIDE DEF x, f
  <2>4. Len(x) \in Int /\ Outdent(x) + 1 \in Int
    BY <2>2, TextFacts, OutdentNat
  <2>5. IsText(SubSeq(x, Outdent(x) + 1, Len(x)))
    BY <2>4, SubText
  <2>6. IsText(Spaces(INDENT) \o x)
    BY <1>2, <2>2, SpacesText, CatText
  <2>7. IsText(Indented(x))
    BY <2>2, <2>6 DEF Indented
  <2> QED
    BY <2>3, <2>5, <2>7
<1>4. delta \in Int
  <2>1. IsText(Line(t, l)) /\ line_start(t, l) \in Nat
    BY <1>1, LineText, LineEnd
  <2>2. Outdent(Line(t, l)) \in Nat
    BY <2>1, OutdentNat
  <2> DEFINE o == Least(Outdent(Line(t, l)), b.cursor - line_start(t, l))
  <2>3. o \in Int
    BY <1>1, <2>1, <2>2 DEF Least
  <2>4. delta \in {0, -o, INDENT}
    OBVIOUS
  <2> HIDE DEF o, delta
  <2> QED
    BY <1>2, <2>3, <2>4
<1>5. IsText(block)
  <2>1. \A n \in l0 .. l1 : IsText(g[n])
    <3> HIDE DEF l0, l1, f
    <3> QED
      BY <1>3
  <2>2. l0 \in Int /\ l1 \in Int
    BY <1>1
  <2> HIDE DEF g, l0, l1
  <2> QED
    BY <1>1, <2>1, <2>2, PiecesText
<1>6. Joined(l0, l1, f) = block
  <2>1. \A i \in 1 .. l1 - l0 + 1 : g[l0 + i - 1] = f(l0 + i - 1)
    <3>1. l0 \in Int /\ l1 \in Int
      BY <1>1
    <3> HIDE DEF l0, l1, f
    <3>2. \A i \in 1 .. l1 - l0 + 1 : l0 + i - 1 \in l0 .. l1
      BY <3>1
    <3> QED
      BY <3>2
  <2>2. Joined(l0, l1, f) = FlattenSeq([i \in 1 .. l1 - l0 + 1 |->
                f(l0 + i - 1) \o IF l0 + i - 1 < l1 THEN <<"\n">> ELSE <<>>])
    BY DEF Joined
  <2>3. [i \in 1 .. l1 - l0 + 1 |-> f(l0 + i - 1) \o IF l0 + i - 1 < l1 THEN <<"\n">> ELSE <<>>]
      = [i \in 1 .. l1 - l0 + 1 |-> g[l0 + i - 1] \o IF l0 + i - 1 < l1 THEN <<"\n">> ELSE <<>>]
    <3> HIDE DEF l0, l1, f, g
    <3> QED
      BY <2>1
  <2> HIDE DEF l0, l1, f, g
  <2> QED
    BY <2>2, <2>3
<1>7. indent_lines(b, outdent) = replace_lines(b, l0, l1, Joined(l0, l1, f), delta)
  BY DEF indent_lines
<1> HIDE DEF l0, l1, l, delta, block
<1> QED
  BY <1>1, <1>4, <1>5, <1>6, <1>7, ReplaceLines

(* Ctrl+/ comments lines out, or in again.                                 *)
LEMMA ToggleComment ==
  ASSUME NEW b, IsBuffer(b)
  PROVE  IsBuffer(toggle_comment(b))
<1> DEFINE t == b.text
           l0 == first_line(b)
           l1 == last_line(b)
           l == cursor_line(b)
           indent(n) == first_non_space(t, n) - line_start(t, n)
           blank(n) == first_non_space(t, n) = line_end(t, n)
           code == {n \in l0 .. l1 : ~blank(n)}
           after(n) == SubSeq(Line(t, n), indent(n) + 1, Len(Line(t, n)))
           all == \A n \in code : Len(after(n)) >= 2 /\ SubSeq(after(n), 1, 2) = Marks
           rm(n) == IF Len(after(n)) > 2 /\ after(n)[3] = " " THEN 3 ELSE 2
           min_indent == Min({indent(n) : n \in code})
           f(n) == IF blank(n) THEN Line(t, n)
                   ELSE IF all
                   THEN Spaces(indent(n)) \o SubSeq(after(n), rm(n) + 1, Len(after(n)))
                   ELSE Spaces(min_indent) \o Marks \o <<" ">>
                        \o SubSeq(Line(t, n), min_indent + 1, Len(Line(t, n)))
           delta == IF l \notin code THEN 0 ELSE IF all THEN -rm(l) ELSE 3
           g == [n \in l0 .. l1 |-> f(n)]
           block == FlattenSeq([i \in 1 .. l1 - l0 + 1 |->
                      g[l0 + i - 1] \o IF l0 + i - 1 < l1 THEN <<"\n">> ELSE <<>>])
<1>1. /\ l0 \in 0 .. num_lines(t) - 1 /\ l1 \in 0 .. num_lines(t) - 1 /\ l0 <= l1
      /\ num_lines(t) \in Nat /\ IsText(t)
  BY SelectedLines, CursorLine
<1>2. ASSUME NEW n \in l0 .. l1
      PROVE  indent(n) \in Nat /\ IsText(Line(t, n)) /\ Len(Line(t, n)) \in Int
  <2>1. n \in 0 .. num_lines(t) - 1
    BY <1>1
  <2>2. IsText(Line(t, n))
    BY <1>1, <2>1, LineText
  <2>3. first_non_space(t, n) \in line_start(t, n) .. line_end(t, n)
    BY <1>1, <2>1, FirstNonSpace
  <2>4. line_start(t, n) \in Nat /\ line_end(t, n) \in Nat
    BY <1>1, <2>1, LineEnd
  <2> QED
    BY <2>2, <2>3, <2>4, TextFacts
<1>3. toggle_comment(b) = IF code = {} THEN b ELSE replace_lines(b, l0, l1, Joined(l0, l1, f), delta)
  BY DEF toggle_comment
<1>4. SUFFICES ASSUME code # {} PROVE IsBuffer(replace_lines(b, l0, l1, Joined(l0, l1, f), delta))
  BY <1>3
<1>5. min_indent \in Nat
  <2> DEFINE S == {indent(n) : n \in code}
  <2>1. S \in SUBSET Nat /\ S # {}
    BY <1>2, <1>4
  <2> HIDE DEF S
  <2>2. S \in SUBSET Int /\ 0 \in Int /\ \A x \in S : 0 <= x
    BY <2>1
  <2>3. Min(S) \in S
    BY <2>1, <2>2, MinOf
  <2> QED
    BY <2>1, <2>3 DEF S
<1>6. ASSUME NEW n \in l0 .. l1 PROVE IsText(f(n))
  <2> DEFINE a == after(n)
             x == Line(t, n)
             r == rm(n)
  <2>1. IsText(x) /\ Len(x) \in Int /\ indent(n) \in Nat /\ r \in Int
    BY <1>2
  <2>2. f(n) = IF blank(n) THEN x
               ELSE IF all THEN Spaces(indent(n)) \o SubSeq(a, r + 1, Len(a))
               ELSE Spaces(min_indent) \o Marks \o <<" ">> \o SubSeq(x, min_indent + 1, Len(x))
    OBVIOUS
  <2>3. a = SubSeq(x, indent(n) + 1, Len(x))
    OBVIOUS
  <2> HIDE DEF a, x, r, f, min_indent, indent, all, blank
  <2>4. IsText(a) /\ Len(a) \in Int
    <3>1. indent(n) + 1 \in Int
      BY <2>1
    <3>2. IsText(a)
      BY <2>1, <2>3, <3>1, SubText
    <3> QED
      BY <3>2, TextFacts
  <2>5. IsText(Spaces(indent(n)) \o SubSeq(a, r + 1, Len(a)))
    <3>1. r + 1 \in Int
      BY <2>1
    <3>2. IsText(SubSeq(a, r + 1, Len(a)))
      BY <2>4, <3>1, SubText
    <3> QED
      BY <2>1, <3>2, SpacesText, CatText
  <2>6. IsText(Spaces(min_indent) \o Marks \o <<" ">> \o SubSeq(x, min_indent + 1, Len(x)))
    <3>1. min_indent + 1 \in Int
      BY <1>5
    <3>2. IsText(SubSeq(x, min_indent + 1, Len(x)))
      BY <2>1, <3>1, SubText
    <3>3. IsText(Marks) /\ IsText(<<" ">>)
      <4>1. Marks \in Seq({"-"}) /\ <<" ">> \in Seq({" "})
        BY DEF Marks
      <4> QED
        BY <4>1, SeqText
    <3>4. IsText(Spaces(min_indent))
      BY <1>5, SpacesText
    <3>5. IsText(Spaces(min_indent) \o Marks)
      BY <3>3, <3>4, CatText
    <3>6. IsText(Spaces(min_indent) \o Marks \o <<" ">>)
      BY <3>3, <3>5, CatText
    <3> QED
      BY <3>2, <3>6, CatText
  <2> QED
    BY <2>1, <2>2, <2>5, <2>6
<1>7. delta \in Int
  <2>1. rm(l) \in {2, 3}
    OBVIOUS
  <2> DEFINE k == rm(l)
  <2>2. delta \in {0, -k, 3}
    OBVIOUS
  <2> HIDE DEF k, delta
  <2>3. k \in Int
    BY <2>1 DEF k
  <2> QED
    BY <2>2, <2>3
<1> HIDE DEF f, delta, code
<1>8. IsText(block)
  <2>1. \A n \in l0 .. l1 : IsText(g[n])
    <3> HIDE DEF l0, l1
    <3> QED
      BY <1>6
  <2>2. l0 \in Int /\ l1 \in Int
    BY <1>1
  <2> HIDE DEF g, l0, l1
  <2> QED
    BY <1>1, <2>1, <2>2, PiecesText
<1>9. Joined(l0, l1, f) = block
  <2>1. \A i \in 1 .. l1 - l0 + 1 : g[l0 + i - 1] = f(l0 + i - 1)
    <3>1. l0 \in Int /\ l1 \in Int
      BY <1>1
    <3> HIDE DEF l0, l1
    <3>2. \A i \in 1 .. l1 - l0 + 1 : l0 + i - 1 \in l0 .. l1
      BY <3>1
    <3> QED
      BY <3>2
  <2>2. Joined(l0, l1, f) = FlattenSeq([i \in 1 .. l1 - l0 + 1 |->
                f(l0 + i - 1) \o IF l0 + i - 1 < l1 THEN <<"\n">> ELSE <<>>])
    BY DEF Joined
  <2>3. [i \in 1 .. l1 - l0 + 1 |-> f(l0 + i - 1) \o IF l0 + i - 1 < l1 THEN <<"\n">> ELSE <<>>]
      = [i \in 1 .. l1 - l0 + 1 |-> g[l0 + i - 1] \o IF l0 + i - 1 < l1 THEN <<"\n">> ELSE <<>>]
    <3> HIDE DEF l0, l1, g
    <3> QED
      BY <2>1
  <2> HIDE DEF l0, l1, g
  <2> QED
    BY <2>2, <2>3
<1> HIDE DEF l0, l1, block
<1> QED
  BY <1>1, <1>7, <1>8, <1>9, ReplaceLines

(* Ctrl+D doubles the line or the selection, whatever it finds behind the   *)
(* line starts.                                                            *)
LEMMA Duplicated ==
  ASSUME NEW b, IsBuffer(b), NEW new \in duplicate(b)
  PROVE  IsBuffer(new)
<1>1. /\ sel_start(b) \in Nat /\ sel_end(b) \in Nat /\ IsText(b.text) /\ b.cursor \in Nat
      /\ cursor_line(b) \in 0 .. num_lines(b.text) - 1 /\ num_lines(b.text) \in Nat
  BY Selection, CursorLine
<1>2. CASE has_sel(b)
  <2> DEFINE s == Bytes(b.text, sel_start(b), sel_end(b))
             r == replace_range(b, sel_end(b), sel_end(b), s)
  <2>1. new = [r EXCEPT !.anchor = sel_end(b)]
    BY <1>2 DEF duplicate
  <2>2. IsText(s)
    BY <1>1, BytesText
  <2> HIDE DEF s
  <2>3. IsBuffer(r)
    BY <1>1, <2>2, ReplaceRange
  <2> HIDE DEF r
  <2>4. sel_end(b) \in Int
    BY <1>1
  <2> QED
    BY <2>1, <2>3, <2>4, WithAnchor
<1>3. CASE ~has_sel(b)
  <2> DEFINE l == cursor_line(b)
             e == line_end(b.text, l)
             s == <<"\n">> \o Line(b.text, l)
             r == replace_range(b, e, e, s)
             c == col_of(b.text, b.cursor)
             next == IF l + 1 < num_lines(r.text) THEN {offset_at_col(r.text, l + 1, c)}
                     ELSE 0 .. Len(r.text)
  <2>1. IsText(b.text) /\ b.cursor \in Int
    BY <1>1
  <2>2. c \in Nat
    BY <2>1, ColNat
  <2>3. PICK p \in next : new = move_cursor(r, p, FALSE, FALSE)
    BY <1>3 DEF duplicate
  <2>4. e \in Int /\ IsText(Line(b.text, l))
    BY <1>1, LineEnd, LineText
  <2>5. IsText(s)
    <3>1. <<"\n">> \in Seq({"\n"})
      OBVIOUS
    <3>2. IsText(<<"\n">>)
      BY <3>1, SeqText
    <3> QED
      BY <2>4, <3>2, CatText
  <2>6. l \in Nat
    BY <1>1
  <2> HIDE DEF e, s, c, l
  <2>7. IsBuffer(r)
    BY <2>4, <2>5, ReplaceRange
  <2> HIDE DEF r
  <2>8. p \in Int
    <3>1. num_lines(r.text) \in Nat
      BY <2>7, CursorLine
    <3>2. CASE l + 1 < num_lines(r.text)
      <4>1. l + 1 \in 0 .. num_lines(r.text) - 1
        BY <2>6, <3>1, <3>2
      <4>2. offset_at_col(r.text, l + 1, c) \in Int
        BY <2>2, <2>7, <4>1, ColumnInt
      <4> QED
        BY <2>3, <3>2, <4>2
    <3>3. CASE ~(l + 1 < num_lines(r.text))
      BY <2>3, <3>3
    <3> QED
      BY <3>2, <3>3
  <2> HIDE DEF next
  <2>9. ASSUME NEW select, NEW keep
        PROVE  IsBuffer(move_cursor(r, p, select, keep))
    BY <2>7, <2>8, MoveCursor
  <2> QED
    BY <2>3, <2>9
<1> QED
  BY <1>2, <1>3

(* Alt+Up and Alt+Down swap lines with their neighbour.                    *)
LEMMA MoveLinesBuffer ==
  ASSUME NEW b, IsBuffer(b), NEW dir \in {-1, 1}
  PROVE  IsBuffer(move_lines(b, dir))
<1> DEFINE t == b.text
           l0 == first_line(b)
           l1 == last_line(b)
           nb == IF dir < 0 THEN l0 - 1 ELSE l1 + 1
           block == Bytes(t, line_start(t, l0), line_end(t, l1))
           other == Line(t, nb)
           out == IF dir < 0 THEN block \o <<"\n">> \o other ELSE other \o <<"\n">> \o block
           shift == dir * (Len(other) + 1)
           lo == Least(l0, nb)
           hi == IF nb > l1 THEN nb ELSE l1
           r == replace_range(b, line_start(t, lo), line_end(t, hi), out)
           c == Clamp(b.cursor + shift, 0, Len(r.text))
           a == IF b.anchor >= 0 /\ b.anchor + shift >= 0
                THEN Clamp(b.anchor + shift, 0, Len(r.text)) ELSE -1
<1>1. /\ l0 \in 0 .. num_lines(t) - 1 /\ l1 \in 0 .. num_lines(t) - 1 /\ l0 <= l1
      /\ num_lines(t) \in Nat /\ IsText(t) /\ b.cursor \in Nat /\ b.anchor \in Int
  BY SelectedLines, CursorLine, BufferFacts
<1>2. move_lines(b, dir) = IF nb \notin 0 .. num_lines(t) - 1 THEN b ELSE At(r, c, a)
  BY DEF move_lines
<1> HIDE DEF l0, l1
<1>3. SUFFICES ASSUME nb \in 0 .. num_lines(t) - 1 PROVE IsBuffer(At(r, c, a))
  BY <1>2
<1>4. lo \in 0 .. num_lines(t) - 1 /\ hi \in 0 .. num_lines(t) - 1
  BY <1>1, <1>3 DEF Least
<1> HIDE DEF lo, hi, nb
<1>5. /\ line_start(t, l0) \in Int /\ line_end(t, l1) \in Int
      /\ line_start(t, lo) \in Int /\ line_end(t, hi) \in Int
  BY <1>1, <1>4, LineEnd
<1>6. IsText(block) /\ IsText(other) /\ IsText(<<"\n">>)
  <2>1. IsText(block)
    BY <1>5, BytesText
  <2>2. IsText(other)
    BY <1>1, <1>3, LineText
  <2>3. <<"\n">> \in Seq({"\n"})
    OBVIOUS
  <2> QED
    BY <2>1, <2>2, <2>3, SeqText
<1>7. shift \in Int
  <2>1. Len(other) \in Nat
    BY <1>6, TextFacts
  <2>2. dir = -1 \/ dir = 1
    OBVIOUS
  <2> HIDE DEF other
  <2>3. shift = Len(other) + 1 \/ shift = -(Len(other) + 1)
    BY <2>1, <2>2
  <2> QED
    BY <2>1, <2>3
<1> HIDE DEF block, other, shift
<1>8. IsText(out)
  <2>1. IsText(block \o <<"\n">>) /\ IsText(other \o <<"\n">>)
    BY <1>6, CatText
  <2>2. IsText(block \o <<"\n">> \o other) /\ IsText(other \o <<"\n">> \o block)
    BY <1>6, <2>1, CatText
  <2> QED
    BY <2>2
<1> HIDE DEF out
<1>9. IsBuffer(r)
  BY <1>5, <1>8, ReplaceRange
<1> HIDE DEF r
<1>10. c \in Nat /\ a \in Int
  <2>1. Len(r.text) \in Nat /\ 0 \in Nat
    BY <1>9, BufferFacts
  <2>2. b.cursor + shift \in Int /\ b.anchor + shift \in Int
    BY <1>1, <1>7
  <2>3. c \in Nat /\ Clamp(b.anchor + shift, 0, Len(r.text)) \in Nat
    BY <2>1, <2>2, ClampNat
  <2> QED
    BY <2>3
<1> HIDE DEF c, a
<1> QED
  BY <1>9, <1>10, AtBuffer

(* Ctrl+Shift+K deletes lines.                                             *)
LEMMA DeleteLinesBuffer ==
  ASSUME NEW b, IsBuffer(b)
  PROVE  IsBuffer(delete_lines(b))
<1> DEFINE t == b.text
           l0 == first_line(b)
           l1 == last_line(b)
           last == l1 + 1 >= num_lines(t)
           a == IF last /\ l0 > 0 THEN line_start(t, l0) - 1 ELSE line_start(t, l0)
           e == StartAfter(t, l1)
           r == replace_range(b, a, e, <<>>)
           c == col_of(t, b.cursor)
           l == Least(l0, num_lines(r.text) - 1)
<1>1. /\ l0 \in 0 .. num_lines(t) - 1 /\ l1 \in 0 .. num_lines(t) - 1
      /\ num_lines(t) \in Nat /\ IsText(t) /\ b.cursor \in Nat
  BY SelectedLines, CursorLine
<1>2. delete_lines(b) = IF a >= e THEN b
                        ELSE move_cursor(r, offset_at_col(r.text, l, c), FALSE, FALSE)
  BY DEF delete_lines
<1>3. line_start(t, l0) \in Nat /\ e \in Nat /\ c \in Nat
  <2>1. line_start(t, l0) \in Nat
    BY <1>1, LineEnd
  <2>2. e \in Nat
    BY <1>1, AfterLine
  <2>3. c \in Nat
    BY <1>1, ColNat
  <2> QED
    BY <2>1, <2>2, <2>3
<1>4. a \in Int /\ IsText(<<>>)
  <2>1. <<>> \in Seq({})
    OBVIOUS
  <2>2. IsText(<<>>)
    BY <2>1, SeqText
  <2>3. a \in Int
    BY <1>3
  <2> QED
    BY <2>2, <2>3
<1> HIDE DEF a, e, c
<1>5. IsBuffer(r)
  BY <1>3, <1>4, ReplaceRange
<1> HIDE DEF r, l0
<1>6. l \in 0 .. num_lines(r.text) - 1
  BY <1>1, <1>5, CursorLine DEF Least
<1> HIDE DEF l
<1>7. offset_at_col(r.text, l, c) \in Int
  BY <1>3, <1>5, <1>6, ColumnInt
<1>8. IsBuffer(move_cursor(r, offset_at_col(r.text, l, c), FALSE, FALSE))
  BY <1>5, <1>7, MoveCursor
<1> QED
  BY <1>2, <1>8

(* Upper and lower case of the selection.                                  *)
LEMMA ChangeCaseBuffer ==
  ASSUME NEW b, IsBuffer(b), NEW up
  PROVE  IsBuffer(change_case(b, up))
<1> DEFINE t == b.text
           p == IF has_sel(b) THEN sel_start(b) ELSE Back(t, b.cursor, WordChars)
           q == IF has_sel(b) THEN sel_end(b) ELSE Ahead(t, b.cursor, WordChars)
           s == [i \in 1 .. q - p |-> Cased(t[p + i], up)]
           r == replace_range(b, p, q, s)
           a == IF has_sel(b) THEN b.anchor ELSE -1
<1>1. /\ sel_start(b) \in Nat /\ sel_end(b) \in Nat /\ b.cursor \in Nat /\ b.anchor \in Int
      /\ IsText(t)
  BY Selection, BufferFacts
<1>2. Back(t, b.cursor, WordChars) \in 0 .. b.cursor /\ Ahead(t, b.cursor, WordChars) \in Nat
  BY <1>1, BackWord, AheadNat
<1>3. p \in Nat /\ q \in Nat
  BY <1>1, <1>2
<1>4. change_case(b, up) = IF p >= q THEN b ELSE [r EXCEPT !.cursor = b.cursor, !.anchor = a]
  BY DEF change_case
<1>5. a \in Int
  BY <1>1
<1> HIDE DEF p, q, a
<1>6. SUFFICES ASSUME ~(p >= q) PROVE IsBuffer([r EXCEPT !.cursor = b.cursor, !.anchor = a])
  BY <1>4
<1>7. IsText(s)
  <2>1. q - p \in Nat
    BY <1>3, <1>6
  <2>2. s = [i \in 1 .. q - p |-> s[i]]
    OBVIOUS
  <2> HIDE DEF s
  <2> QED
    BY <2>1, <2>2, MadeText
<1> HIDE DEF s
<1>8. IsBuffer(r)
  BY <1>3, <1>7, ReplaceRange
<1> HIDE DEF r
<1> QED
  BY <1>1, <1>5, <1>8, WithCursor

(* Ctrl+L selects one line more.                                           *)
LEMMA SelectLineBuffer ==
  ASSUME NEW b, IsBuffer(b)
  PROVE  IsBuffer(select_line_extend(b))
<1> DEFINE n == num_lines(b.text)
           l == cursor_line(b)
           l0 == first_line(b)
           l1 == last_line(b)
           whole == sel_start(b) = line_start(b.text, l0) /\ sel_end(b) = StartAfter(b.text, l1)
           m == IF whole /\ l1 + 1 < n THEN l1 + 1 ELSE l1
<1>1. l \in 0 .. n - 1 /\ l0 \in 0 .. n - 1 /\ l1 \in 0 .. n - 1 /\ n \in Nat
  BY SelectedLines, CursorLine
<1>2. select_line_extend(b) = IF ~has_sel(b) THEN select_lines(b, l, l)
                              ELSE select_lines(b, l0, m)
  BY DEF select_line_extend
<1> HIDE DEF l, l0, l1, whole, n
<1>3. m \in 0 .. n - 1
  BY <1>1
<1> HIDE DEF m
<1> QED
  BY <1>1, <1>2, <1>3, SelectLines DEF n

(* Ctrl+Enter opens a line below or above.                                 *)
LEMMA OpenLineBuffer ==
  ASSUME NEW b, IsBuffer(b), NEW above
  PROVE  IsBuffer(open_line(b, above))
<1> DEFINE l == cursor_line(b)
           at == IF above THEN line_start(b.text, l) ELSE line_end(b.text, l)
           k == first_non_space(b.text, l) - line_start(b.text, l)
           ind == Spaces(k)
           s == IF above THEN ind \o <<"\n">> ELSE <<"\n">> \o ind
           r == replace_range(b, at, at, s)
           pos == at + Len(ind) + (IF above THEN 0 ELSE 1)
<1>1. l \in 0 .. num_lines(b.text) - 1 /\ IsText(b.text)
  BY CursorLine
<1>2. open_line(b, above) = move_cursor(r, pos, FALSE, FALSE)
  BY DEF open_line
<1> HIDE DEF l
<1>3. /\ line_start(b.text, l) \in Nat /\ line_end(b.text, l) \in Nat
      /\ first_non_space(b.text, l) \in line_start(b.text, l) .. line_end(b.text, l)
  BY <1>1, LineEnd, FirstNonSpace
<1>4. k \in Nat /\ at \in Int
  BY <1>3
<1> HIDE DEF k, at
<1>5. IsText(ind) /\ Len(ind) \in Int
  BY <1>4, SpacesText
<1> HIDE DEF ind
<1>6. IsText(s)
  <2>1. <<"\n">> \in Seq({"\n"})
    OBVIOUS
  <2>2. IsText(<<"\n">>)
    BY <2>1, SeqText
  <2>3. IsText(ind \o <<"\n">>) /\ IsText(<<"\n">> \o ind)
    BY <1>5, <2>2, CatText
  <2> QED
    BY <2>3
<1> HIDE DEF s
<1>7. IsBuffer(r) /\ pos \in Int
  BY <1>4, <1>5, <1>6, ReplaceRange
<1> HIDE DEF r, pos
<1> QED
  BY <1>2, <1>7, MoveCursor

(* Typing.                                                                 *)
LEMMA CleanText ==
  ASSUME NEW s, IsText(s)
  PROVE  IsText(clean(s))
<1> DEFINE h == [i \in DOMAIN s |-> CASE s[i] = "\r" -> <<>>
                                      [] s[i] = "\t" -> Spaces(INDENT)
                                      [] OTHER -> <<s[i]>>]
<1>1. Len(s) \in Nat /\ DOMAIN s = 1 .. Len(s) /\ INDENT \in Nat
  BY TextFacts, TextAssumption
<1>2. IsText(h) /\ Len(h) = Len(s)
  <2>1. h = [i \in 1 .. Len(s) |-> h[i]]
    BY <1>1
  <2> HIDE DEF h
  <2> QED
    BY <1>1, <2>1, MadeText
<1>3. ASSUME NEW i \in 1 .. Len(s) PROVE IsText(h[i])
  <2>1. IsText(<<>>) /\ IsText(Spaces(INDENT)) /\ IsText(<<s[i]>>)
    <3>1. <<>> \in Seq({s[i]}) /\ <<s[i]>> \in Seq({s[i]})
      OBVIOUS
    <3> QED
      BY <1>1, <3>1, SeqText, SpacesText
  <2>2. h[i] \in {<<>>, Spaces(INDENT), <<s[i]>>}
    BY <1>1
  <2> HIDE DEF h
  <2> QED
    BY <2>1, <2>2
<1>4. clean(s) = FlattenSeq(h)
  BY DEF clean
<1> HIDE DEF h
<1> QED
  BY <1>2, <1>3, <1>4, FlattenText

(* insert_text takes the place of the selection.                           *)
LEMMA InsertText ==
  ASSUME NEW b, IsBuffer(b), NEW s, IsText(s)
  PROVE  IsBuffer(insert_text(b, s))
<1>1. sel_start(b) \in Int /\ sel_end(b) \in Int
  BY Selection
<1>2. IsText(clean(s))
  BY CleanText
<1> QED
  BY <1>1, <1>2, ReplaceRange DEF insert_text

(* A typed character, with the bracket or quote it closes.                 *)
LEMMA HandleChar ==
  ASSUME NEW b, IsBuffer(b), NEW s, IsText(s), NEW auto
  PROVE  IsBuffer(handle_char(b, s, auto))
<1> DEFINE c == s[1]
           close == IF c = "(" THEN ")" ELSE c
           p == sel_start(b)
           q == sel_end(b)
           r == replace_range(b, p, q, <<c>> \o Bytes(b.text, p, q) \o <<close>>)
           u == replace_range(b, p, q, <<c, close>>)
<1>1. p \in Nat /\ q \in Nat /\ b.cursor \in Nat
  BY Selection, BufferFacts
<1>2. IsText(<<c>>) /\ IsText(<<close>>) /\ IsText(<<c, close>>)
  <2>1. <<c>> \in Seq({c, close}) /\ <<close>> \in Seq({c, close}) /\ <<c, close>> \in Seq({c, close})
    OBVIOUS
  <2> QED
    BY <2>1, SeqText
<1>3. /\ wrap_selection(b, c, close) = [r EXCEPT !.anchor = p + 1, !.cursor = q + 1]
      /\ insert_pair(b, c, close) = move_cursor(u, u.cursor - 1, FALSE, FALSE)
  BY DEF wrap_selection, insert_pair
<1>4. handle_char(b, s, auto) \in {insert_text(b, s), move_cursor(b, b.cursor + 1, FALSE, FALSE),
                                   wrap_selection(b, c, close), insert_pair(b, c, close)}
  BY DEF handle_char
<1> HIDE DEF c, close, p, q
<1>5. IsBuffer(r)
  <2>1. IsText(Bytes(b.text, p, q))
    BY <1>1, BytesText
  <2>2. IsText(<<c>> \o Bytes(b.text, p, q))
    BY <1>2, <2>1, CatText
  <2>3. IsText(<<c>> \o Bytes(b.text, p, q) \o <<close>>)
    BY <1>2, <2>2, CatText
  <2> QED
    BY <1>1, <2>3, ReplaceRange
<1>6. IsBuffer(u)
  BY <1>1, <1>2, ReplaceRange
<1> HIDE DEF r, u
<1>7. IsBuffer(wrap_selection(b, c, close))
  <2>1. p + 1 \in Int /\ q + 1 \in Nat
    BY <1>1
  <2>2. IsBuffer([r EXCEPT !.anchor = p + 1, !.cursor = q + 1])
    BY <1>5, <2>1, WithBoth
  <2>3. wrap_selection(b, c, close) = [r EXCEPT !.anchor = p + 1, !.cursor = q + 1]
    BY <1>3
  <2> QED
    BY <2>2, <2>3
<1>8. IsBuffer(insert_pair(b, c, close))
  <2>1. u.cursor - 1 \in Int
    BY <1>6, BufferFacts
  <2>2. IsBuffer(move_cursor(u, u.cursor - 1, FALSE, FALSE))
    BY <1>6, <2>1, MoveCursor
  <2> QED
    BY <1>3, <2>2
<1>9. IsBuffer(move_cursor(b, b.cursor + 1, FALSE, FALSE))
  <2>1. b.cursor + 1 \in Int
    BY <1>1
  <2> QED
    BY <2>1, MoveCursor
<1> QED
  BY <1>4, <1>7, <1>8, <1>9, InsertText

(* Enter, with the indentation of the line.                                *)
LEMMA HandleEnter ==
  ASSUME NEW b, IsBuffer(b)
  PROVE  IsBuffer(handle_enter(b))
<1> DEFINE t == b.text
           ls == line_start(t, cursor_line(b))
           indent == Least(Ahead(t, ls, Blanks), b.cursor) - ls
           p == Back(t, b.cursor, Blanks)
           after_open == p > ls /\ char_at(t, p - 1) = "("
           before_close == char_at(t, b.cursor) = ")"
           k == IF after_open THEN indent + INDENT ELSE indent
           head == <<"\n">> \o Spaces(k)
           tail == IF after_open /\ before_close THEN <<"\n">> \o Spaces(indent) ELSE <<>>
           r == replace_range(b, sel_start(b), sel_end(b), head \o tail)
<1>1. handle_enter(b) = move_cursor(r, sel_start(b) + Len(head), FALSE, FALSE)
  BY DEF handle_enter
<1>2. /\ IsText(t) /\ b.cursor \in Nat /\ cursor_line(b) \in 0 .. num_lines(t) - 1
      /\ sel_start(b) \in Nat /\ sel_end(b) \in Nat /\ INDENT \in Nat
  BY CursorLine, Selection, TextAssumption
<1>3. ls \in Nat
  BY <1>2, LineEnd
<1> HIDE DEF ls, after_open, before_close
<1>4. Ahead(t, ls, Blanks) \in Nat
  BY <1>2, <1>3, AheadNat
<1>5. indent \in Int
  BY <1>2, <1>3, <1>4 DEF Least
<1> HIDE DEF indent
<1>6. k \in Int
  BY <1>2, <1>5
<1> HIDE DEF k
<1>7. IsText(<<>>) /\ IsText(<<"\n">>)
  <2>1. <<>> \in Seq({"\n"}) /\ <<"\n">> \in Seq({"\n"})
    OBVIOUS
  <2> QED
    BY <2>1, SeqText
<1>8. IsText(head) /\ Len(head) \in Nat
  <2>1. IsText(Spaces(k))
    BY <1>6, SpacesAny
  <2>2. IsText(head)
    BY <1>7, <2>1, CatText
  <2> HIDE DEF head
  <2> QED
    BY <2>2, TextFacts
<1>9. IsText(tail)
  <2>1. IsText(Spaces(indent))
    BY <1>5, SpacesAny
  <2>2. IsText(<<"\n">> \o Spaces(indent))
    BY <1>7, <2>1, CatText
  <2> QED
    BY <1>7, <2>2
<1> HIDE DEF head, tail
<1>10. IsBuffer(r)
  <2>1. IsText(head \o tail)
    BY <1>8, <1>9, CatText
  <2> QED
    BY <1>2, <2>1, ReplaceRange
<1> HIDE DEF r
<1>11. sel_start(b) + Len(head) \in Int
  BY <1>2, <1>8
<1> QED
  BY <1>1, <1>10, <1>11, MoveCursor

(* Backspace, which may take a pair or an indentation.                     *)
LEMMA HandleBackspace ==
  ASSUME NEW b, IsBuffer(b), NEW ctrl
  PROVE  IsBuffer(handle_backspace(b, ctrl))
<1> DEFINE t == b.text
           pos == b.cursor
           ls == line_start(t, cursor_line(b))
           col == pos - ls
           d == ((col - 1) \div INDENT) * INDENT
           next == char_at(t, pos)
           prev == char_at(t, pos - 1)
           other == IF (prev = "(" /\ next = ")") \/ (prev \in Quotes /\ next = prev)
                    THEN delete_range(b, pos - 1, pos + 1)
                    ELSE IF col > 0 /\ Back(t, pos, Blanks) <= ls
                    THEN delete_range(b, ls + d, pos)
                    ELSE delete_range(b, utf8_prev(t, pos), pos)
<1>1. /\ IsText(t) /\ pos \in Nat /\ cursor_line(b) \in 0 .. num_lines(t) - 1
      /\ sel_start(b) \in Int /\ sel_end(b) \in Int
  BY CursorLine, Selection
<1>2. ls \in Nat /\ INDENT \in 1 .. 8
  BY <1>1, LineEnd, TextAssumption
<1>3. handle_backspace(b, ctrl) = CASE has_sel(b) -> delete_range(b, sel_start(b), sel_end(b))
                                    [] ~has_sel(b) /\ pos = 0 -> b
                                    [] ~has_sel(b) /\ pos > 0 /\ ctrl
                                         -> delete_range(b, word_left(t, pos), pos)
                                    [] OTHER -> other
  BY DEF handle_backspace
<1> HIDE DEF ls
<1>4. d \in Int
  <2>1. col - 1 \in Int /\ INDENT \in Int /\ INDENT > 0
    BY <1>1, <1>2
  <2> HIDE DEF col
  <2>2. (col - 1) \div INDENT \in Int
    BY <2>1
  <2> QED
    BY <2>1, <2>2
<1> HIDE DEF d, col, prev, next
<1>5. IsBuffer(delete_range(b, sel_start(b), sel_end(b)))
  BY <1>1, DeleteRange
<1>6. IsBuffer(delete_range(b, word_left(t, pos), pos))
  <2>1. word_left(t, pos) \in Int /\ pos \in Int
    BY <1>1, WordSteps
  <2> QED
    BY <2>1, DeleteRange
<1>7. IsBuffer(other)
  <2>1. utf8_prev(t, pos) \in Int /\ pos \in Int
    BY <1>1, CharSteps
  <2>2. pos - 1 \in Int /\ pos + 1 \in Int /\ ls + d \in Int
    BY <1>1, <1>2, <1>4
  <2>3. /\ IsBuffer(delete_range(b, pos - 1, pos + 1)) /\ IsBuffer(delete_range(b, ls + d, pos))
        /\ IsBuffer(delete_range(b, utf8_prev(t, pos), pos))
    BY <2>1, <2>2, DeleteRange
  <2> QED
    BY <2>3
<1> HIDE DEF other
<1>8. CASE has_sel(b)
  BY <1>3, <1>5, <1>8
<1>9. CASE ~has_sel(b)
  BY <1>3, <1>6, <1>7, <1>9
<1> QED
  BY <1>8, <1>9

(* Delete, by character and by word.                                       *)
LEMMA HandleDelete ==
  ASSUME NEW b, IsBuffer(b), NEW ctrl
  PROVE  IsBuffer(handle_delete(b, ctrl))
<1> DEFINE e == IF ctrl THEN word_right(b.text, b.cursor) ELSE utf8_next(b.text, b.cursor)
<1>1. /\ IsText(b.text) /\ b.cursor \in Nat
      /\ sel_start(b) \in Int /\ sel_end(b) \in Int
  BY CursorLine, Selection
<1>2. e \in Int
  BY <1>1, WordSteps, CharSteps
<1>3. handle_delete(b, ctrl) = IF has_sel(b) THEN delete_range(b, sel_start(b), sel_end(b))
                               ELSE delete_range(b, b.cursor, e)
  BY DEF handle_delete
<1> HIDE DEF e
<1>4. b.cursor \in Int
  BY <1>1
<1>5. /\ IsBuffer(delete_range(b, sel_start(b), sel_end(b)))
      /\ IsBuffer(delete_range(b, b.cursor, e))
  BY <1>1, <1>2, <1>4, DeleteRange
<1> QED
  BY <1>3, <1>5

(* Tab without a selection of lines.                                       *)
LEMMA TabKey ==
  ASSUME NEW b, IsBuffer(b), NEW shift
  PROVE  IsBuffer(KeyTab(b, shift))
<1> DEFINE k == INDENT - (col_of(b.text, b.cursor) % INDENT)
<1>1. col_of(b.text, b.cursor) \in Nat
  <2>1. IsText(b.text) /\ b.cursor \in Int
    BY BufferFacts
  <2> QED
    BY <2>1, ColNat
<1>2. k \in Int
  <2>1. INDENT \in Int /\ INDENT > 0
    BY TextAssumption
  <2>2. col_of(b.text, b.cursor) % INDENT \in Int
    BY <1>1, <2>1
  <2> QED
    BY <2>1, <2>2
<1>3. KeyTab(b, shift) \in {indent_lines(b, TRUE), indent_lines(b, FALSE),
                            insert_text(b, Spaces(k))}
  BY DEF KeyTab
<1> HIDE DEF k
<1>4. IsBuffer(insert_text(b, Spaces(k)))
  <2>1. IsText(Spaces(k))
    BY <1>2, SpacesAny
  <2> QED
    BY <2>1, InsertText
<1>5. IsBuffer(indent_lines(b, TRUE)) /\ IsBuffer(indent_lines(b, FALSE))
  BY IndentLines
<1> QED
  BY <1>3, <1>4, <1>5

(* Cut takes the selection, or the line.                                   *)
LEMMA CutBuffer ==
  ASSUME NEW b, IsBuffer(b)
  PROVE  IsBuffer(cut(b))
<1> DEFINE l == cursor_line(b)
           a == line_start(b.text, l)
           e == StartAfter(b.text, l)
<1>1. /\ IsText(b.text) /\ l \in 0 .. num_lines(b.text) - 1
      /\ sel_start(b) \in Int /\ sel_end(b) \in Int
  BY CursorLine, Selection
<1>2. a \in Nat
  BY <1>1, LineEnd
<1>3. e \in Nat
  BY <1>1, AfterLine
<1>4. cut(b) = IF has_sel(b) THEN delete_range(b, sel_start(b), sel_end(b))
               ELSE delete_range(b, a, e)
  BY DEF cut
<1> HIDE DEF a, e
<1>5. IsBuffer(delete_range(b, sel_start(b), sel_end(b))) /\ IsBuffer(delete_range(b, a, e))
  <2>1. a \in Int /\ e \in Int
    BY <1>2, <1>3
  <2> QED
    BY <1>1, <2>1, DeleteRange
<1> QED
  BY <1>4, <1>5

(* textbox_replace_text, for the completion and for the formatter.         *)
LEMMA ReplaceText ==
  ASSUME NEW b, IsBuffer(b), NEW start \in Int, NEW end \in Int, NEW s, IsText(s), NEW select
  PROVE  IsBuffer(textbox_replace_text(b, start, end, s, select))
<1> DEFINE r == replace_range(b, start, end, s)
           k == Clamp(start, 0, Len(b.text))
           a == IF select THEN k ELSE r.anchor
<1>1. IsBuffer(r)
  BY ReplaceRange
<1>2. textbox_replace_text(b, start, end, s, select)
        = [r EXCEPT !.anchor = IF select THEN k ELSE @]
  BY DEF textbox_replace_text
<1>3. k \in Nat
  BY BufferFacts, ClampNat
<1> HIDE DEF r, k
<1>4. a \in Int
  BY <1>1, <1>3, BufferFacts
<1>5. [r EXCEPT !.anchor = IF select THEN k ELSE @] = [r EXCEPT !.anchor = a]
  OBVIOUS
<1> HIDE DEF a
<1> QED
  BY <1>1, <1>2, <1>4, <1>5, WithAnchor

-----------------------------------------------------------------------------
(* Find and replace.                                                       *)
LEMMA SearchFacts ==
  ASSUME NEW s \in Searches
  PROVE  IsText(s.query) /\ Len(s.query) \in Nat
<1>1. s.query \in Seq(STRING)
  BY EditorAssumption
<1> QED
  BY <1>1, SeqText

(* A match lies within the text.                                           *)
LEMMA MatchFits ==
  ASSUME NEW t, NEW i, NEW s, search_match_at(t, i, s)
  PROVE  Len(s.query) > 0 /\ i >= 0 /\ i + Len(s.query) <= Len(t)
BY DEF search_match_at

(* Selecting a match.                                                      *)
LEMMA SelectMatch ==
  ASSUME NEW b, IsBuffer(b), NEW at \in Nat, NEW s \in Searches
  PROVE  IsBuffer(select_match(b, at, s)) /\ select_match(b, at, s).text = b.text
<1>1. at + Len(s.query) \in Nat /\ at \in Int
  BY SearchFacts
<1> DEFINE q == at + Len(s.query)
<1>2. select_match(b, at, s) = At(b, q, at)
  BY DEF select_match
<1>3. q \in Nat /\ at \in Int
  BY <1>1
<1> HIDE DEF q
<1>4. IsBuffer(At(b, q, at)) /\ At(b, q, at).text = b.text
  BY <1>3, AtBuffer
<1> QED
  BY <1>2, <1>4

(* F3 and Shift+F3 select a match, or leave the buffer as it is.           *)
LEMMA FindNext ==
  ASSUME NEW b, IsBuffer(b), NEW s \in Searches, NEW backwards, NEW from
  PROVE  /\ IsBuffer(textbox_find_next(b, s, backwards, from))
         /\ textbox_find_next(b, s, backwards, from).text = b.text
<1> DEFINE n == Len(b.text) + 1
           pos(k) == IF backwards THEN (sel_start(b) - 1 - k + n) % n
                     ELSE (FindStart(b, from) + k) % n
           hits == {k \in 0 .. n - 1 : search_match_at(b.text, pos(k), s)}
<1>1. n \in Nat \ {0}
  BY BufferFacts
<1>2. textbox_find_next(b, s, backwards, from)
        = IF hits = {} THEN b ELSE select_match(b, pos(Min(hits)), s)
  BY DEF textbox_find_next
<1>3. SUFFICES ASSUME hits # {} PROVE pos(Min(hits)) \in Nat
  <2> DEFINE p == pos(Min(hits))
             m == select_match(b, p, s)
  <2>1. CASE hits = {}
    <3>1. textbox_find_next(b, s, backwards, from) = b
      BY <1>2, <2>1
    <3> QED
      BY <3>1
  <2>2. ASSUME p \in Nat, hits # {}
        PROVE  /\ IsBuffer(textbox_find_next(b, s, backwards, from))
               /\ textbox_find_next(b, s, backwards, from).text = b.text
    <3> HIDE DEF p
    <3>1. IsBuffer(m) /\ m.text = b.text
      BY <2>2, SelectMatch
    <3>2. textbox_find_next(b, s, backwards, from) = m
      BY <1>2, <2>2 DEF p
    <3> HIDE DEF m
    <3> QED
      BY <3>1, <3>2
  <2> QED
    BY <2>1, <2>2
<1> HIDE DEF n
<1>4. Min(hits) \in Int
  <2>1. hits \in SUBSET (0 .. n - 1) /\ 0 \in Int /\ n - 1 \in Int
    BY <1>1
  <2> HIDE DEF hits
  <2>2. Min(hits) \in hits
    BY <1>3, <2>1, MaxWithin
  <2>3. Min(hits) \in 0 .. n - 1
    BY <2>1, <2>2
  <2> QED
    BY <1>1, <2>3
<1> DEFINE m == Min(hits)
<1>5. sel_start(b) \in Int /\ sel_end(b) \in Int
  BY Selection
<1>6. FindStart(b, from) \in Int
  BY <1>5 DEF FindStart
<1> HIDE DEF hits, m
<1>7. m \in Int
  BY <1>4 DEF m
<1>8. \A x \in Int : x % n \in Nat
  BY <1>1
<1>9. sel_start(b) - 1 - m + n \in Int /\ FindStart(b, from) + m \in Int
  BY <1>1, <1>5, <1>6, <1>7
<1>10. pos(m) \in Nat
  BY <1>8, <1>9
<1> QED
  BY <1>10 DEF m

(* A function that chains its pieces from the end, as the loops over the   *)
(* matches do.                                                             *)
Pieces(N, piece, next) == \A i \in 0 .. N - 1 : IsText(piece[i]) /\ next[i] \in i + 1 .. N
Chain(N, piece, next, f) ==
  /\ f = [i \in 0 .. N |-> f[i]] /\ f[N] = <<>>
  /\ \A i \in 0 .. N - 1 : f[i] = piece[i] \o f[next[i]]
  /\ \A i \in 0 .. N : IsText(f[i])

(* There is such a function: pieces are found from the end to the start.   *)
LEMMA Chained ==
  ASSUME NEW N \in Nat, NEW piece, NEW next, Pieces(N, piece, next)
  PROVE  \E f : Chain(N, piece, next, f)
<1>0. \A i \in 0 .. N - 1 : IsText(piece[i]) /\ next[i] \in i + 1 .. N
  BY DEF Pieces
<1> DEFINE Good(n, f) == /\ f = [i \in n .. N |-> f[i]] /\ f[N] = <<>>
                         /\ \A i \in n .. N - 1 : f[i] = piece[i] \o f[next[i]]
                         /\ \A i \in n .. N : IsText(f[i])
           S == {n \in 0 .. N : \E f : Good(n, f)}
<1>1. N \in S
  <2> DEFINE f == [i \in N .. N |-> <<>>]
  <2>1. IsText(<<>>)
    <3>1. <<>> \in Seq({})
      OBVIOUS
    <3> QED
      BY <3>1, SeqText
  <2>2. f[N] = <<>> /\ N .. N - 1 = {} /\ \A i \in N .. N : f[i] = <<>>
    OBVIOUS
  <2>3. Good(N, f)
    BY <2>1, <2>2
  <2> HIDE DEF Good, f
  <2> QED
    BY <2>3
<1>2. ASSUME NEW n \in 1 .. N, n \in S PROVE n - 1 \in S
  <2>1. PICK f : Good(n, f)
    BY <1>2
  <2> DEFINE k == n - 1
             x == piece[k] \o f[next[k]]
             g == [i \in k .. N |-> IF i = k THEN x ELSE f[i]]
  <2>2. k \in 0 .. N - 1 /\ k \in 0 .. N /\ next[k] \in n .. N /\ k \in Int /\ n = k + 1
    BY <1>0
  <2> HIDE DEF k
  <2>3. IsText(x)
    <3>1. IsText(f[next[k]]) /\ IsText(piece[k])
      BY <1>0, <2>1, <2>2
    <3> QED
      BY <3>1, CatText
  <2>4. g[k] = x /\ \A i \in n .. N : g[i] = f[i]
    <3>1. k \in k .. N /\ \A i \in n .. N : i \in k .. N /\ i # k
      BY <2>2
    <3> HIDE DEF x
    <3> QED
      BY <3>1
  <2>5. g = [i \in k .. N |-> g[i]]
    OBVIOUS
  <2> HIDE DEF g, x
  <2>6. \A i \in k .. N : i = k \/ i \in n .. N
    BY <2>2
  <2>7. g[N] = <<>>
    <3>1. N \in n .. N
      BY <2>2
    <3> QED
      BY <2>1, <2>4, <3>1
  <2>8. \A i \in k .. N : IsText(g[i])
    BY <2>1, <2>3, <2>4, <2>6
  <2>9. ASSUME NEW i \in k .. N - 1 PROVE g[i] = piece[i] \o g[next[i]]
    <3>1. CASE i = k
      <4>1. g[next[k]] = f[next[k]]
        BY <2>2, <2>4
      <4> QED
        BY <2>4, <3>1, <4>1 DEF x
    <3>2. CASE i # k
      <4>1. i \in n .. N - 1 /\ i \in 0 .. N - 1 /\ i \in n .. N
        BY <2>2, <3>2
      <4>2. next[i] \in n .. N
        BY <1>0, <2>2, <4>1
      <4> QED
        BY <2>1, <2>4, <4>1, <4>2
    <3> QED
      BY <3>1, <3>2
  <2>10. Good(k, g)
    BY <2>5, <2>7, <2>8, <2>9
  <2> HIDE DEF Good
  <2>11. k \in S
    BY <2>2, <2>10
  <2> QED
    BY <2>11 DEF k
<1>3. 0 \in S
  <2> HIDE DEF S
  <2>1. \A n \in 0 .. N : n \in S
    BY <1>1, <1>2, DownInduction
  <2> QED
    BY <2>1
<1> QED
  BY <1>3 DEF Chain

(* The text that replaces all matches, from each offset on.                *)
Replacing(t, s, repl, f) ==
  f = [i \in 0 .. Len(t) |->
         IF i = Len(t) THEN <<>>
         ELSE IF search_match_at(t, i, s) THEN repl \o f[i + Len(s.query)]
         ELSE <<t[i + 1]>> \o f[i + 1]]

(* The text that textbox_replace_all builds.                               *)
LEMMA ReplacedText ==
  ASSUME NEW t, IsText(t), NEW s \in Searches, NEW repl, IsText(repl)
  PROVE  LET f == CHOOSE f : Replacing(t, s, repl, f)
         IN \A i \in 0 .. Len(t) : IsText(f[i])
<1> DEFINE N == Len(t)
           piece == [i \in 0 .. N - 1 |-> IF search_match_at(t, i, s) THEN repl ELSE <<t[i + 1]>>]
           next == [i \in 0 .. N - 1 |-> IF search_match_at(t, i, s) THEN i + Len(s.query) ELSE i + 1]
           f == CHOOSE f : Replacing(t, s, repl, f)
<1>1. N \in Nat /\ Len(s.query) \in Nat
  BY TextFacts, SearchFacts
<1>2. ASSUME NEW i \in 0 .. N - 1
      PROVE  IsText(piece[i]) /\ next[i] \in i + 1 .. N
  <2>1. IsText(<<t[i + 1]>>)
    <3>1. <<t[i + 1]>> \in Seq({t[i + 1]})
      OBVIOUS
    <3> QED
      BY <3>1, SeqText
  <2>2. search_match_at(t, i, s) => i + Len(s.query) \in i + 1 .. N
    <3>1. search_match_at(t, i, s) => Len(s.query) > 0 /\ i + Len(s.query) <= N
      BY MatchFits
    <3> HIDE DEF N
    <3> QED
      BY <1>1, <3>1
  <2>3. i + 1 \in i + 1 .. N
    BY <1>1
  <2> QED
    BY <2>1, <2>2, <2>3
<1>3. \A i \in 0 .. N - 1 :
        /\ search_match_at(t, i, s) => piece[i] = repl /\ next[i] = i + Len(s.query)
        /\ ~search_match_at(t, i, s) => piece[i] = <<t[i + 1]>> /\ next[i] = i + 1
  OBVIOUS
<1> HIDE DEF piece, next
<1>4. PICK g : /\ g = [i \in 0 .. N |-> g[i]] /\ g[N] = <<>>
               /\ \A i \in 0 .. N - 1 : g[i] = piece[i] \o g[next[i]]
  <2> HIDE DEF N
  <2>1. Pieces(N, piece, next)
    BY <1>2 DEF Pieces
  <2>2. PICK g : Chain(N, piece, next, g)
    BY <1>1, <2>1, Chained
  <2> QED
    BY <2>2 DEF Chain
<1>5. Replacing(t, s, repl, g)
  <2>1. ASSUME NEW i \in 0 .. N
        PROVE  g[i] = IF i = N THEN <<>>
                      ELSE IF search_match_at(t, i, s) THEN repl \o g[i + Len(s.query)]
                      ELSE <<t[i + 1]>> \o g[i + 1]
    <3>1. i # N => i \in 0 .. N - 1
      BY <1>1
    <3> QED
      BY <1>3, <1>4, <3>1
  <2> QED
    BY <1>4, <2>1 DEF Replacing
<1>6. Replacing(t, s, repl, f)
  BY <1>5
<1> HIDE DEF f
<1>7. /\ f[N] = <<>>
      /\ \A i \in 0 .. N - 1 : f[i] = piece[i] \o f[next[i]]
  <2>1. N \in 0 .. N /\ \A i \in 0 .. N - 1 : i \in 0 .. N /\ i # N
    BY <1>1
  <2>2. \A i \in 0 .. N : f[i] = IF i = N THEN <<>>
                      ELSE IF search_match_at(t, i, s) THEN repl \o f[i + Len(s.query)]
                      ELSE <<t[i + 1]>> \o f[i + 1]
    BY <1>6 DEF Replacing
  <2> HIDE DEF N
  <2> QED
    BY <1>3, <2>1, <2>2
<1> DEFINE S == {n \in 0 .. N : \A i \in n .. N : IsText(f[i])}
<1>8. N \in S
  <2>1. IsText(<<>>)
    <3>1. <<>> \in Seq({})
      OBVIOUS
    <3> QED
      BY <3>1, SeqText
  <2>2. N \in 0 .. N /\ \A i \in N .. N : i = N
    BY <1>1
  <2> QED
    BY <1>7, <2>1, <2>2
<1>9. ASSUME NEW n \in 1 .. N, n \in S PROVE n - 1 \in S
  <2>1. n - 1 \in 0 .. N - 1 /\ n - 1 \in 0 .. N
    BY <1>1
  <2>2. next[n - 1] \in n .. N
    BY <1>1, <1>2, <2>1
  <2>3. IsText(piece[n - 1]) /\ IsText(f[next[n - 1]])
    BY <1>2, <1>9, <2>1, <2>2
  <2>4. IsText(f[n - 1])
    <3>1. f[n - 1] = piece[n - 1] \o f[next[n - 1]]
      BY <1>7, <2>1
    <3> QED
      BY <2>3, <3>1, CatText
  <2>5. \A i \in n - 1 .. N : i = n - 1 \/ i \in n .. N
    BY <1>1
  <2> QED
    BY <1>9, <2>1, <2>4, <2>5
<1>10. \A n \in 0 .. N : n \in S
  <2> HIDE DEF S, N
  <2> QED
    BY <1>1, <1>8, <1>9, DownInduction
<1>11. \A i \in 0 .. N : IsText(f[i])
  <2>1. \A i \in 0 .. N : i \in i .. N
    BY <1>1
  <2> HIDE DEF N
  <2> QED
    BY <1>10, <2>1
<1> QED
  BY <1>11 DEF f

(* Replacing all of the matches.                                           *)
LEMMA ReplaceAllBuffer ==
  ASSUME NEW b, IsBuffer(b), NEW s \in Searches, NEW repl, IsText(repl)
  PROVE  /\ IsBuffer(textbox_replace_all(b, s, repl))
         /\ Counted(b.text, s) = <<>> => textbox_replace_all(b, s, repl) = b
<1> DEFINE t == b.text
           f == CHOOSE f : Replacing(t, s, repl, f)
           c == Counted(t, s)
           inside == \E j \in DOMAIN c : c[j] < b.cursor /\ b.cursor < c[j] + Len(s.query)
           r == replace_range(b, 0, Len(t), f[0])
           pos == IF inside \/ b.cursor >= Len(t) THEN Len(f[0]) ELSE Len(f[0]) - Len(f[b.cursor])
<1>1. textbox_replace_all(b, s, repl)
        = IF Counted(t, s) = <<>> THEN b ELSE move_cursor(r, pos, FALSE, FALSE)
  BY DEF textbox_replace_all, Replacing
<1>2. IsText(t) /\ Len(t) \in Nat /\ b.cursor \in Nat
  BY BufferFacts
<1>3. \A i \in 0 .. Len(t) : IsText(f[i])
  BY <1>2, ReplacedText
<1> HIDE DEF f, inside
<1>4. IsText(f[0])
  <2>1. 0 \in 0 .. Len(t)
    BY <1>2
  <2> QED
    BY <1>3, <2>1
<1>5. IsBuffer(r)
  BY <1>2, <1>4, ReplaceRange
<1>6. pos \in Int
  <2>1. Len(f[0]) \in Nat
    BY <1>4, TextFacts
  <2>2. ~(b.cursor >= Len(t)) => Len(f[b.cursor]) \in Nat
    <3>1. ~(b.cursor >= Len(t)) => b.cursor \in 0 .. Len(t)
      BY <1>2
    <3> QED
      BY <1>3, <3>1, TextFacts
  <2> QED
    BY <2>1, <2>2
<1> HIDE DEF r, pos
<1> QED
  BY <1>1, <1>5, <1>6, MoveCursor

(* Replacing the selected match.                                           *)
LEMMA ReplaceCurrent ==
  ASSUME NEW b, IsBuffer(b), NEW s \in Searches, NEW repl, IsText(repl)
  PROVE  /\ IsBuffer(textbox_replace_current(b, s, repl))
         /\ ~match_selected(b, s) => textbox_replace_current(b, s, repl).text = b.text
<1> DEFINE r == replace_range(b, sel_start(b), sel_end(b), repl)
<1>1. IsBuffer(r)
  BY Selection, ReplaceRange
<1>2. textbox_replace_current(b, s, repl)
        = IF match_selected(b, s) THEN textbox_find_next(r, s, FALSE, FALSE)
          ELSE textbox_find_next(b, s, FALSE, TRUE)
  BY DEF textbox_replace_current
<1> DEFINE x == textbox_find_next(r, s, FALSE, FALSE)
           y == textbox_find_next(b, s, FALSE, TRUE)
<1> HIDE DEF r
<1>0. ASSUME NEW c, IsBuffer(c), NEW backwards, NEW from
      PROVE  /\ IsBuffer(textbox_find_next(c, s, backwards, from))
             /\ textbox_find_next(c, s, backwards, from).text = c.text
  BY <1>0, FindNext
<1>3. IsBuffer(x) /\ IsBuffer(y) /\ y.text = b.text
  BY <1>1, <1>0
<1> HIDE DEF x, y
<1>4. textbox_replace_current(b, s, repl) = IF match_selected(b, s) THEN x ELSE y
  BY <1>2 DEF x, y
<1> QED
  BY <1>3, <1>4

-----------------------------------------------------------------------------
(* The inductive invariant: a buffer and a position, or none, of the popup. *)
EditorInv == IsBuffer(buf) /\ popup \in Nat \cup {Closed}

(* What a step makes of them: the popup is closed, or at the word that ends *)
(* at the cursor; only mouse and find bar may leave both text and popup.   *)
Follows == \/ popup' \in {Closed, WordStart(buf')}
           \/ Outside /\ popup' = popup /\ buf'.text = buf.text

(* From the start of the word to the cursor there are word characters only.*)
LEMMA WordAtCursor ==
  ASSUME NEW b, IsBuffer(b)
  PROVE  WordStart(b) \in Nat /\ CompletesWord(b, WordStart(b))
<1>1. b.cursor \in Nat
  BY BufferFacts
<1>2. /\ Back(b.text, b.cursor, WordChars) \in 0 .. b.cursor
      /\ \A i \in Back(b.text, b.cursor, WordChars) .. b.cursor - 1 :
           is_word_char(char_at(b.text, i))
  BY <1>1, BackWord
<1>3. WordStart(b) = Back(b.text, b.cursor, WordChars)
  BY DEF WordStart
<1>4. WordStart(b) \in 0 .. b.cursor
  BY <1>2, <1>3
<1>5. WordStart(b) \in Nat /\ WordStart(b) <= b.cursor
  BY <1>1, <1>4
<1>6. \A p \in WordStart(b) .. b.cursor - 1 : is_word_char(char_at(b.text, p))
  BY <1>2, <1>3
<1>7. StartsWord(b.text, WordStart(b))
  BY <1>1, <1>3, BackStarts
<1> QED
  BY <1>5, <1>6, <1>7 DEF CompletesWord

(* What is typed, pasted or put in is text.                                *)
LEMMA InputText ==
  /\ \A s \in Typed : IsText(s)
  /\ \A s \in Pastes : IsText(s)
  /\ \A s \in Repl : IsText(s)
<1>1. /\ \A s \in Typed : s \in Seq(STRING)
      /\ \A s \in Pastes : s \in Seq(STRING)
      /\ \A s \in Repl : s \in Seq(STRING)
  BY EditorAssumption
<1> QED
  BY <1>1, SeqText

(* The ways in which events end.                                           *)
LEMMA KeyStep ==
  ASSUME NEW new, IsBuffer(new), Key(new) \/ LongKey(new)
  PROVE  IsBuffer(buf') /\ Follows
BY DEF Key, LongKey, Becomes, Within, Follows

(* The key handler, once more with the popup.                              *)
LEMMA FilterStep ==
  ASSUME NEW new, IsBuffer(new), NEW ctrl, Filters(new, ctrl)
  PROVE  IsBuffer(buf') /\ Follows
BY DEF Filters, Becomes, Within, Follows, popup_update

(* What moves the cursor from outside.                                     *)
LEMMA MoveStep ==
  ASSUME Outside, NEW new, IsBuffer(new), new.text = buf.text, Moves(new)
  PROVE  IsBuffer(buf') /\ Follows
BY DEF Moves, Becomes, Within, Follows

(* Every action gives a buffer, and a popup at the word or none.           *)
LEMMA EditorStep ==
  ASSUME EditorInv, Next
  PROVE  IsBuffer(buf') /\ Follows
<1>0. IsBuffer(buf) /\ popup \in Int
  BY DEF EditorInv, Closed
<1>1. CASE TypeChar
  <2>1. PICK s \in Typed, opt_auto_close \in BOOLEAN :
          LET new == handle_char(buf, s, opt_auto_close)
          IN /\ Becomes(new)
             /\ IF s[1] \in {Lower, Upper, "."}
                THEN popup_update(new, s[1] = ".", FALSE)
                ELSE popup' = Closed
    BY <1>1 DEF TypeChar
  <2> DEFINE new == handle_char(buf, s, opt_auto_close)
  <2>2. IsBuffer(new)
    BY <1>0, InputText, HandleChar
  <2>3. buf' = new /\ (popup' = Closed \/ popup' = WordStart(new))
    BY <2>1 DEF Becomes, Within, popup_update
  <2> HIDE DEF new
  <2> QED
    BY <2>2, <2>3 DEF Follows
<1>2. CASE Backspace
  BY <1>0, <1>2, HandleBackspace, FilterStep DEF Backspace
<1>3. CASE Delete
  BY <1>0, <1>3, HandleDelete, FilterStep DEF Delete
<1>4. CASE Left
  BY <1>0, <1>4, LeftRight, FilterStep DEF Left
<1>5. CASE Right
  BY <1>0, <1>5, LeftRight, FilterStep DEF Right
<1>6. CASE Up
  BY <1>0, <1>6, UpDown, KeyStep DEF Up
<1>7. CASE Down
  BY <1>0, <1>7, UpDown, KeyStep DEF Down
<1>8. CASE Page
  <2>1. PICK shift \in BOOLEAN, dir \in {-1, 1}, vis \in 1 .. 2 : Key(KeyPage(buf, dir, vis, shift))
    BY <1>8 DEF Page
  <2>2. dir \in Int /\ vis \in Int
    OBVIOUS
  <2> QED
    BY <1>0, <2>1, <2>2, PageMove, KeyStep
<1>9. CASE Home
  BY <1>0, <1>9, HomeEnd, KeyStep DEF Home
<1>10. CASE End
  BY <1>0, <1>10, HomeEnd, KeyStep DEF End
<1>11. CASE Enter
  BY <1>0, <1>11, HandleEnter, KeyStep DEF Enter
<1>12. CASE Tab
  BY <1>0, <1>12, TabKey, KeyStep DEF Tab
<1>13. CASE Escape
  <2>1. IsBuffer([buf EXCEPT !.anchor = -1])
    BY <1>0, WithAnchor
  <2> QED
    BY <1>0, <1>13, <2>1 DEF Escape, Follows
<1>14. CASE OpenLine
  BY <1>0, <1>14, OpenLineBuffer, KeyStep DEF OpenLine
<1>15. CASE MoveLines
  BY <1>0, <1>15, MoveLinesBuffer, KeyStep DEF MoveLines
<1>16. CASE SelectAll
  <2>1. 0 \in Int /\ Len(buf.text) \in Nat
    BY <1>0, BufferFacts
  <2>2. IsBuffer([buf EXCEPT !.anchor = 0, !.cursor = Len(buf.text)])
    BY <1>0, <2>1, WithBoth
  <2> QED
    BY <1>16, <2>2, KeyStep DEF SelectAll
<1>17. CASE Cut
  BY <1>0, <1>17, CutBuffer, KeyStep DEF Cut
<1>18. CASE Paste
  BY <1>0, <1>18, InputText, InsertText, KeyStep DEF Paste
<1>19. CASE Duplicate
  <2>1. PICK new \in duplicate(buf) : Key(new)
    BY <1>19 DEF Duplicate
  <2>2. IsBuffer(new)
    BY <1>0, Duplicated
  <2> QED
    BY <2>1, <2>2, KeyStep
<1>20. CASE DeleteLines
  BY <1>0, <1>20, DeleteLinesBuffer, KeyStep DEF DeleteLines
<1>21. CASE ChangeCase
  BY <1>0, <1>21, ChangeCaseBuffer, KeyStep DEF ChangeCase
<1>22. CASE SelectLine
  BY <1>0, <1>22, SelectLineBuffer, KeyStep DEF SelectLine
<1>23. CASE Comment
  BY <1>0, <1>23, ToggleComment, KeyStep DEF Comment
<1>24. CASE popup_accept
  <2>1. PICK call \in BOOLEAN :
          LET fn == call /\ char_at(buf.text, buf.cursor) # "("
              word == <<Lower, Upper>> \o IF fn THEN <<"(", ")">> ELSE <<>>
              r == replace_range(buf, popup, buf.cursor, word)
          IN Within(IF fn THEN move_cursor(r, r.cursor - 1, FALSE, FALSE) ELSE r)
    BY <1>24 DEF popup_accept
  <2> DEFINE fn == call /\ char_at(buf.text, buf.cursor) # "("
             ends == IF fn THEN <<"(", ")">> ELSE <<>>
             word == <<Lower, Upper>> \o ends
             r == replace_range(buf, popup, buf.cursor, word)
             m == move_cursor(r, r.cursor - 1, FALSE, FALSE)
  <2>2. IsText(word)
    <3>1. /\ <<Lower, Upper>> \in Seq({Lower, Upper}) /\ <<"(", ")">> \in Seq({"(", ")"})
          /\ <<>> \in Seq({})
      OBVIOUS
    <3>2. IsText(<<Lower, Upper>>) /\ IsText(<<"(", ")">>) /\ IsText(<<>>)
      BY <3>1, SeqText
    <3>3. IsText(ends)
      BY <3>2
    <3> HIDE DEF ends
    <3> QED
      BY <3>2, <3>3, CatText
  <2>3. buf' = m \/ buf' = r
    BY <2>1 DEF Within
  <2> HIDE DEF word
  <2>4. buf.cursor \in Int
    BY <1>0, BufferFacts
  <2>5. IsBuffer(r)
    BY <1>0, <2>2, <2>4, ReplaceRange
  <2> HIDE DEF r
  <2>6. IsBuffer(m)
    <3>1. r.cursor - 1 \in Int
      BY <2>5, BufferFacts
    <3> QED
      BY <2>5, <3>1, MoveCursor
  <2>7. popup' = Closed
    BY <1>24 DEF popup_accept
  <2> HIDE DEF m
  <2> QED
    BY <2>3, <2>5, <2>6, <2>7 DEF Follows
<1>25. CASE CtrlSpace
  BY <1>0, <1>25 DEF CtrlSpace, popup_update, Follows
<1>26. CASE MouseDown
  <2>1. CASE UNCHANGED buf
    BY <1>0, <1>26, <2>1 DEF MouseDown, Follows
  <2>2. ASSUME NEW p \in Boundaries(buf.text),
               NEW new \in {At(buf, p, p), move_cursor(buf, p, TRUE, FALSE),
                            select_word_at(buf, p)},
               Becomes(new)
        PROVE  IsBuffer(buf')
    <3>1. p \in Nat /\ p \in Int
      BY <1>0, BufferFacts DEF Boundaries
    <3>2. ASSUME NEW select, NEW keep
          PROVE  IsBuffer(move_cursor(buf, p, select, keep))
      BY <1>0, <3>1, MoveCursor
    <3>3. IsBuffer(At(buf, p, p))
      BY <1>0, <3>1, AtBuffer
    <3>4. IsBuffer(select_word_at(buf, p))
      BY <1>0, <3>1, SelectWord
    <3>5. IsBuffer(new)
      BY <2>2, <3>2, <3>3, <3>4
    <3> QED
      BY <2>2, <3>5 DEF Becomes, Within
  <2>3. ASSUME NEW l \in 0 .. num_lines(buf.text) - 1, Becomes(select_lines(buf, l, l))
        PROVE  IsBuffer(buf')
    <3>1. IsBuffer(select_lines(buf, l, l))
      BY <1>0, SelectLines
    <3> QED
      BY <2>3, <3>1 DEF Becomes, Within
  <2> QED
    BY <1>26, <2>1, <2>2, <2>3 DEF MouseDown, Follows
<1>27. CASE MouseDrag
  <2>1. PICK p \in Boundaries(buf.text) :
          Moves(At(buf, p, IF buf.anchor < 0 THEN buf.cursor ELSE buf.anchor))
    BY <1>27 DEF MouseDrag
  <2> DEFINE a == IF buf.anchor < 0 THEN buf.cursor ELSE buf.anchor
  <2>2. p \in Nat /\ a \in Int
    BY <1>0, BufferFacts DEF Boundaries
  <2>3. Moves(At(buf, p, a))
    BY <2>1
  <2> HIDE DEF a
  <2>4. IsBuffer(At(buf, p, a)) /\ At(buf, p, a).text = buf.text
    BY <1>0, <2>2, AtBuffer
  <2>5. Outside
    BY <1>27 DEF Outside
  <2> QED
    BY <2>3, <2>4, <2>5, MoveStep
<1>28. CASE bar_find
  <2>1. Outside
    BY <1>28 DEF Outside
  <2>2. PICK s \in Searches, backwards \in BOOLEAN :
          Moves(textbox_find_next(buf, s, backwards, FALSE))
    BY <1>28 DEF bar_find
  <2>3. ASSUME NEW back, NEW from
        PROVE  /\ IsBuffer(textbox_find_next(buf, s, back, from))
               /\ textbox_find_next(buf, s, back, from).text = buf.text
    BY <1>0, FindNext
  <2>4. /\ IsBuffer(textbox_find_next(buf, s, backwards, FALSE))
        /\ textbox_find_next(buf, s, backwards, FALSE).text = buf.text
    BY <2>3
  <2> DEFINE new == textbox_find_next(buf, s, backwards, FALSE)
  <2>5. Moves(new) /\ IsBuffer(new) /\ new.text = buf.text
    BY <2>2, <2>4
  <2> HIDE DEF new
  <2> QED
    BY <2>1, <2>5, MoveStep
<1>29. CASE bar_apply_search
  <2>1. Outside
    BY <1>29 DEF Outside
  <2>2. PICK s \in Searches : Moves(textbox_find_next(buf, s, FALSE, TRUE))
    BY <1>29 DEF bar_apply_search
  <2>3. ASSUME NEW back, NEW from
        PROVE  /\ IsBuffer(textbox_find_next(buf, s, back, from))
               /\ textbox_find_next(buf, s, back, from).text = buf.text
    BY <1>0, FindNext
  <2>4. /\ IsBuffer(textbox_find_next(buf, s, FALSE, TRUE))
        /\ textbox_find_next(buf, s, FALSE, TRUE).text = buf.text
    BY <2>3
  <2> DEFINE new == textbox_find_next(buf, s, FALSE, TRUE)
  <2>5. Moves(new) /\ IsBuffer(new) /\ new.text = buf.text
    BY <2>2, <2>4
  <2> HIDE DEF new
  <2> QED
    BY <2>1, <2>5, MoveStep
<1>30. CASE bar_replace_one
  <2>1. PICK s \in Searches, r \in Repl :
          LET new == textbox_replace_current(buf, s, r)
          IN IF match_selected(buf, s) THEN Key(new) ELSE Moves(new)
    BY <1>30 DEF bar_replace_one
  <2> DEFINE new == textbox_replace_current(buf, s, r)
  <2>2. IsBuffer(new) /\ (~match_selected(buf, s) => new.text = buf.text)
    BY <1>0, InputText, ReplaceCurrent
  <2>3. Key(new) \/ (Moves(new) /\ ~match_selected(buf, s))
    BY <2>1
  <2>4. Outside
    BY <1>30 DEF Outside
  <2> HIDE DEF new
  <2> QED
    BY <2>2, <2>3, <2>4, KeyStep, MoveStep
<1>31. CASE bar_replace_all
  <2>1. PICK s \in Searches, r \in Repl :
          LET new == textbox_replace_all(buf, s, r)
          IN IF Counted(buf.text, s) # <<>> THEN Key(new) ELSE Moves(new)
    BY <1>31 DEF bar_replace_all
  <2> DEFINE new == textbox_replace_all(buf, s, r)
  <2>2. IsBuffer(new) /\ (Counted(buf.text, s) = <<>> => new.text = buf.text)
    BY <1>0, InputText, ReplaceAllBuffer
  <2>3. Key(new) \/ (Moves(new) /\ Counted(buf.text, s) = <<>>)
    BY <2>1
  <2>4. Outside
    BY <1>31 DEF Outside
  <2> HIDE DEF new
  <2> QED
    BY <2>2, <2>3, <2>4, KeyStep, MoveStep
<1>32. CASE bar_goto
  <2>1. PICK n \in 0 .. num_lines(buf.text) : Moves(goto_line(buf, n))
    BY <1>32 DEF bar_goto
  <2>2. n \in Int
    BY <1>0, CursorLine
  <2>3. Outside
    BY <1>32 DEF Outside
  <2> DEFINE new == goto_line(buf, n)
  <2>4. IsBuffer(new) /\ new.text = buf.text
    BY <1>0, <2>2, GotoLine
  <2>5. Moves(new)
    BY <2>1
  <2> HIDE DEF new
  <2> QED
    BY <2>3, <2>4, <2>5, MoveStep
<1>33. CASE LoadText
  <2>1. PICK s \in Pastes : Key(textbox_replace_text(buf, 0, Len(buf.text), s, FALSE))
    BY <1>33 DEF LoadText
  <2>2. 0 \in Int /\ Len(buf.text) \in Int /\ IsText(s)
    BY <1>0, BufferFacts, InputText
  <2> QED
    BY <1>0, <2>1, <2>2, ReplaceText, KeyStep
<1>34. CASE FormatSelection
  <2>1. PICK s \in Pastes : Key(textbox_replace_text(buf, sel_start(buf), sel_end(buf), s, TRUE))
    BY <1>34 DEF FormatSelection
  <2>2. sel_start(buf) \in Int /\ sel_end(buf) \in Int /\ IsText(s)
    BY <1>0, Selection, InputText
  <2> QED
    BY <1>0, <2>1, <2>2, ReplaceText, KeyStep
<1> QED
  BY <1>1, <1>2, <1>3, <1>4, <1>5, <1>6, <1>7, <1>8, <1>9, <1>10, <1>11, <1>12, <1>13, <1>14,
     <1>15, <1>16, <1>17, <1>18, <1>19, <1>20, <1>21, <1>22, <1>23, <1>24, <1>25, <1>26, <1>27,
     <1>28, <1>29, <1>30, <1>31, <1>32, <1>33, <1>34 DEF Next

(* The editor starts with a buffer and without a popup.                    *)
LEMMA EditorInit == Init => EditorInv
<1> SUFFICES ASSUME Init PROVE EditorInv
  OBVIOUS
<1>1. IsText(<<>>) /\ Len(<<>>) = 0
  <2>1. <<>> \in Seq({}) /\ Len(<<>>) = 0
    OBVIOUS
  <2> QED
    BY <2>1, SeqText
<1>2. 0 \in Nat /\ -1 \in Int /\ Len(<<>>) <= MaxLen
  BY <1>1, TextAssumption
<1>3. IsBuffer([text |-> <<>>, cursor |-> 0, anchor |-> -1, pref |-> 0])
  BY <1>1, <1>2, MadeBuffer
<1> QED
  BY <1>3 DEF Init, EditorInv

(* EditorInv is inductive.                                                 *)
LEMMA EditorKeeps == EditorInv /\ [Next]_vars => EditorInv'
<1> SUFFICES ASSUME EditorInv, [Next]_vars PROVE EditorInv'
  OBVIOUS
<1>1. CASE Next
  <2>1. IsBuffer(buf') /\ Follows
    BY <1>1, EditorStep
  <2>2. WordStart(buf') \in Nat
    BY <2>1, WordAtCursor
  <2> QED
    BY <2>1, <2>2 DEF EditorInv, Follows, Closed
<1>2. CASE UNCHANGED vars
  BY <1>2 DEF vars, EditorInv
<1> QED
  BY <1>1, <1>2

(* The text of the editor stays finite and within the limit of 64 KB, and  *)
(* its cursor never goes below the start, after any commands on any texts. *)
THEOREM EditorSafe == Spec => []EditorInv
BY EditorInit, EditorKeeps, PTL DEF Spec

(* Wherever the cursor is, an open popup is at the start of a word.        *)
PopupInv == popup # Closed => StartsWord(buf.text, popup)

(* There is no popup at first.                                             *)
LEMMA PopupInit == Init => PopupInv
BY DEF Init, PopupInv

(* A step leaves a popup at the word that ends at the cursor, or where it   *)
(* was, over the same text, or none.                                       *)
LEMMA PopupStep ==
  ASSUME EditorInv, PopupInv, [Next]_vars
  PROVE  PopupInv' /\ [FollowsWord]_vars
<1>1. CASE Next
  <2>1. IsBuffer(buf') /\ Follows
    BY <1>1, EditorStep
  <2>2. CASE popup' = Closed
    BY <2>2 DEF PopupInv, FollowsWord
  <2>3. CASE popup' = WordStart(buf')
    <3>1. CompletesWord(buf', popup')
      BY <2>1, <2>3, WordAtCursor
    <3> QED
      BY <3>1 DEF PopupInv, FollowsWord, CompletesWord
  <2>4. CASE popup' # Closed /\ Outside /\ popup' = popup /\ buf'.text = buf.text
    <3>1. StartsWord(buf'.text, popup')
      BY <2>4 DEF PopupInv
    <3> QED
      BY <2>4, <3>1 DEF PopupInv, FollowsWord
  <2> QED
    BY <2>1, <2>2, <2>3, <2>4 DEF Follows
<1>2. CASE UNCHANGED vars
  BY <1>2 DEF vars, PopupInv
<1> QED
  BY <1>1, <1>2

(* After every step an open popup is at the word that ends at the cursor,   *)
(* so that popup_accept replaces this word and nothing else; or the mouse  *)
(* or the find bar has left text and popup as they were, the popup at the  *)
(* start of a word. For any text, typing and commands.                     *)
THEOREM PopupSafe == Spec => PopupFollowsWord
<1>1. EditorInv /\ PopupInv /\ [Next]_vars => PopupInv' /\ [FollowsWord]_vars
  BY PopupStep
<1> QED
  BY <1>1, EditorSafe, PopupInit, PTL DEF Spec, PopupFollowsWord

-----------------------------------------------------------------------------
(* The find bar counts the matches that F3 visits. The matches from an     *)
(* offset on, none overlapping the one before, and none left out:          *)
Free(t, s, a, c) == \A x \in a .. c - 1 : ~search_match_at(t, x, s)
After(s, m, i, j) == IF j = 0 THEN i ELSE m[j] + Len(s.query)
Until(t, m, j) == IF j = Len(m) THEN Len(t) + 1 ELSE m[j + 1]
Matches(t, s, i, m) ==
  /\ IsText(m)
  /\ \A j \in 1 .. Len(m) : m[j] \in Nat /\ search_match_at(t, m[j], s)
  /\ \A j \in 0 .. Len(m) - 1 : After(s, m, i, j) <= m[j + 1]
  /\ \A j \in 0 .. Len(m) : Free(t, s, After(s, m, i, j), Until(t, m, j))

(* Behind the text there is no match.                                      *)
LEMMA NoMatches ==
  ASSUME NEW t, IsText(t), NEW s \in Searches
  PROVE  Matches(t, s, Len(t) + 1, <<>>)
<1>1. IsText(<<>>) /\ Len(<<>>) = 0
  <2>1. <<>> \in Seq({}) /\ Len(<<>>) = 0
    OBVIOUS
  <2> QED
    BY <2>1, SeqText
<1>2. Len(t) \in Nat
  BY TextFacts
<1>3. \A j \in 0 .. 0 : Free(t, s, After(s, <<>>, Len(t) + 1, j), Until(t, <<>>, j))
  <2>1. ASSUME NEW j \in 0 .. 0
        PROVE  After(s, <<>>, Len(t) + 1, j) = Len(t) + 1 /\ Until(t, <<>>, j) = Len(t) + 1
    BY <1>1 DEF After, Until
  <2>2. Free(t, s, Len(t) + 1, Len(t) + 1)
    BY <1>2 DEF Free
  <2> QED
    BY <2>1, <2>2
<1> DEFINE e == <<>>
<1>4. 1 .. Len(e) = {} /\ 0 .. Len(e) - 1 = {} /\ 0 .. Len(e) = 0 .. 0
  BY <1>1
<1> QED
  BY <1>1, <1>3, <1>4 DEF Matches

(* An offset without a match, and one with it, before them.                *)
LEMMA MatchesLater ==
  ASSUME NEW t, IsText(t), NEW s \in Searches, NEW i \in 0 .. Len(t), NEW m,
         Matches(t, s, i + 1, m), ~search_match_at(t, i, s)
  PROVE  Matches(t, s, i, m)
<1>1. Len(m) \in Nat /\ Len(t) \in Nat /\ i \in Nat
  BY TextFacts DEF Matches
<1>2. ASSUME NEW j \in 0 .. Len(m) - 1 PROVE After(s, m, i, j) <= m[j + 1]
  <2>1. After(s, m, i + 1, j) <= m[j + 1] /\ m[j + 1] \in Nat
    BY <1>1 DEF Matches
  <2> QED
    BY <1>1, <2>1 DEF After
<1>3. ASSUME NEW j \in 0 .. Len(m)
      PROVE  Free(t, s, After(s, m, i, j), Until(t, m, j))
  <2>1. Free(t, s, After(s, m, i + 1, j), Until(t, m, j))
    BY DEF Matches
  <2>2. CASE j = 0
    <3>1. Free(t, s, i + 1, Until(t, m, j)) /\ After(s, m, i, j) = i
      BY <2>1, <2>2 DEF After
    <3>2. \A x \in i .. Until(t, m, j) - 1 : x = i \/ x \in i + 1 .. Until(t, m, j) - 1
      BY <1>1
    <3> QED
      BY <3>1, <3>2 DEF Free
  <2>3. CASE j # 0
    BY <2>1, <2>3 DEF After
  <2> QED
    BY <2>2, <2>3
<1> QED
  BY <1>2, <1>3 DEF Matches

(* The match at an offset comes before the matches behind it.              *)
LEMMA MatchesHere ==
  ASSUME NEW t, IsText(t), NEW s \in Searches, NEW i \in 0 .. Len(t), NEW m,
         Matches(t, s, i + Len(s.query), m), search_match_at(t, i, s)
  PROVE  Matches(t, s, i, <<i>> \o m)
<1> DEFINE h == <<i>> \o m
           n == Len(s.query)
<1>1. Len(m) \in Nat /\ Len(t) \in Nat /\ i \in Nat /\ IsText(m) /\ n \in Nat
  BY TextFacts, SearchFacts DEF Matches
<1>2. IsText(<<i>>) /\ Len(<<i>>) = 1 /\ <<i>>[1] = i
  <2>1. <<i>> \in Seq({i})
    OBVIOUS
  <2> QED
    BY <2>1, SeqText
<1>3. IsText(h) /\ Len(h) = 1 + Len(m)
  BY <1>1, <1>2, CatText
<1>4. h[1] = i
  BY <1>1, <1>2, CatText
<1>5. \A j \in 1 .. Len(m) : h[j + 1] = m[j]
  <2>1. \A j \in 1 .. Len(m) : h[1 + j] = m[j]
    BY <1>1, <1>2, CatText
  <2>2. \A j \in 1 .. Len(m) : 1 + j = j + 1
    BY <1>1
  <2> HIDE DEF h
  <2> QED
    BY <2>1, <2>2
<1> HIDE DEF h
<1>6. ASSUME NEW j \in 1 .. Len(h) PROVE h[j] \in Nat /\ search_match_at(t, h[j], s)
  <2>1. CASE j = 1
    BY <1>1, <1>4, <2>1
  <2>2. CASE j # 1
    <3>1. j - 1 \in 1 .. Len(m) /\ j = (j - 1) + 1
      BY <1>1, <1>3, <2>2
    <3>2. h[j] = m[j - 1]
      BY <1>5, <3>1
    <3> QED
      BY <3>1, <3>2 DEF Matches
  <2> QED
    BY <2>1, <2>2
<1>7. After(s, h, i, 0) = i
  BY DEF After
<1>8. ASSUME NEW j \in 1 .. Len(h)
      PROVE  /\ After(s, h, i, j) = After(s, m, i + n, j - 1)
             /\ Until(t, h, j) = Until(t, m, j - 1)
             /\ j - 1 \in 0 .. Len(m)
  <2>1. j - 1 \in 0 .. Len(m) /\ j # 0 /\ j \in Nat
    BY <1>1, <1>3
  <2>2. After(s, h, i, j) = h[j] + n
    BY <2>1 DEF After
  <2>3. h[j] + n = After(s, m, i + n, j - 1)
    <3>1. CASE j = 1
      BY <1>4, <3>1 DEF After
    <3>2. CASE j # 1
      <4>1. j - 1 \in 1 .. Len(m) /\ j = (j - 1) + 1 /\ j - 1 # 0
        BY <2>1, <3>2
      <4>2. h[j] = m[j - 1]
        BY <1>5, <4>1
      <4> QED
        BY <4>1, <4>2 DEF After
    <3> QED
      BY <3>1, <3>2
  <2>4. Until(t, h, j) = Until(t, m, j - 1)
    <3>1. CASE j = Len(h)
      <4>1. j - 1 = Len(m)
        BY <1>1, <1>3, <3>1
      <4> QED
        BY <3>1, <4>1 DEF Until
    <3>2. CASE j # Len(h)
      <4>1. j - 1 # Len(m) /\ j \in 1 .. Len(m) /\ (j - 1) + 1 = j
        BY <1>1, <1>3, <2>1, <3>2
      <4>2. h[j + 1] = m[j]
        BY <1>5, <4>1
      <4> QED
        BY <3>2, <4>1, <4>2 DEF Until
    <3> QED
      BY <3>1, <3>2
  <2> QED
    BY <2>1, <2>2, <2>3, <2>4
<1>9. ASSUME NEW j \in 0 .. Len(h) - 1 PROVE After(s, h, i, j) <= h[j + 1]
  <2>1. CASE j = 0
    BY <1>1, <1>4, <1>7, <2>1
  <2>2. CASE j # 0
    <3>1. j \in 1 .. Len(h) /\ j - 1 \in 0 .. Len(m) - 1 /\ j \in 1 .. Len(m) /\ (j - 1) + 1 = j
      BY <1>1, <1>3, <2>2
    <3>2. After(s, m, i + n, j - 1) <= m[j]
      BY <3>1 DEF Matches
    <3> QED
      BY <1>5, <1>8, <3>1, <3>2
  <2> QED
    BY <2>1, <2>2
<1>10. ASSUME NEW j \in 0 .. Len(h) PROVE Free(t, s, After(s, h, i, j), Until(t, h, j))
  <2>1. CASE j = 0
    <3>1. Until(t, h, j) = i
      BY <1>1, <1>3, <1>4, <2>1 DEF Until
    <3>2. Free(t, s, i, i)
      BY <1>1 DEF Free
    <3> QED
      BY <1>7, <2>1, <3>1, <3>2
  <2>2. CASE j # 0
    <3>1. j \in 1 .. Len(h)
      BY <1>1, <1>3, <2>2
    <3>2. Free(t, s, After(s, m, i + n, j - 1), Until(t, m, j - 1))
      BY <1>8, <3>1 DEF Matches
    <3> QED
      BY <1>8, <3>1, <3>2
  <2> QED
    BY <2>1, <2>2
<1> QED
  BY <1>3, <1>6, <1>9, <1>10 DEF Matches, h

Counting(t, s, f) ==
  f = [i \in 0 .. Len(t) + 1 |->
         IF i > Len(t) THEN <<>>
         ELSE IF search_match_at(t, i, s) THEN <<i>> \o f[i + Step(s)]
         ELSE f[i + 1]]

(* Counted lists the matches from the top.                                 *)
LEMMA CountedMatches ==
  ASSUME NEW t, IsText(t), NEW s \in Searches
  PROVE  Matches(t, s, 0, Counted(t, s))
<1> DEFINE N == Len(t) + 1
           piece == [i \in 0 .. N - 1 |-> IF search_match_at(t, i, s) THEN <<i>> ELSE <<>>]
           next == [i \in 0 .. N - 1 |-> IF search_match_at(t, i, s) THEN i + Len(s.query) ELSE i + 1]
           f == CHOOSE f : Counting(t, s, f)
<1>1. Len(t) \in Nat /\ N \in Nat /\ Len(s.query) \in Nat
  BY TextFacts, SearchFacts
<1>2. ASSUME NEW i \in 0 .. N - 1
      PROVE  IsText(piece[i]) /\ next[i] \in i + 1 .. N
  <2>1. IsText(<<i>>) /\ IsText(<<>>)
    <3>1. <<i>> \in Seq({i}) /\ <<>> \in Seq({i})
      OBVIOUS
    <3> QED
      BY <3>1, SeqText
  <2>2. search_match_at(t, i, s) => i + Len(s.query) \in i + 1 .. N
    <3>1. search_match_at(t, i, s) => Len(s.query) > 0 /\ i + Len(s.query) <= Len(t)
      BY MatchFits
    <3> QED
      BY <1>1, <3>1
  <2>3. i + 1 \in i + 1 .. N
    BY <1>1
  <2> QED
    BY <2>1, <2>2, <2>3
<1>3. \A i \in 0 .. N - 1 :
        /\ search_match_at(t, i, s) => piece[i] = <<i>> /\ next[i] = i + Len(s.query)
        /\ ~search_match_at(t, i, s) => piece[i] = <<>> /\ next[i] = i + 1
  OBVIOUS
<1> HIDE DEF piece, next
<1>4. PICK g : /\ g = [i \in 0 .. N |-> g[i]] /\ g[N] = <<>>
               /\ \A i \in 0 .. N - 1 : g[i] = piece[i] \o g[next[i]]
               /\ \A i \in 0 .. N : IsText(g[i])
  <2> HIDE DEF N
  <2>1. Pieces(N, piece, next)
    BY <1>2 DEF Pieces
  <2>2. PICK g : Chain(N, piece, next, g)
    BY <1>1, <2>1, Chained
  <2> QED
    BY <2>2 DEF Chain
<1>5. Counting(t, s, g)
  <2>1. ASSUME NEW i \in 0 .. N
        PROVE  g[i] = IF i > Len(t) THEN <<>>
                      ELSE IF search_match_at(t, i, s) THEN <<i>> \o g[i + Step(s)]
                      ELSE g[i + 1]
    <3>1. CASE i > Len(t)
      <4>1. i = N
        BY <1>1, <3>1
      <4> QED
        BY <1>4, <3>1, <4>1
    <3>2. CASE ~(i > Len(t))
      <4>1. i \in 0 .. N - 1 /\ i + 1 \in 0 .. N
        BY <1>1, <3>2
      <4>2. CASE search_match_at(t, i, s)
        BY <1>3, <1>4, <3>2, <4>1, <4>2 DEF Step
      <4>3. CASE ~search_match_at(t, i, s)
        <5>1. g[i] = <<>> \o g[i + 1] /\ IsText(g[i + 1])
          BY <1>3, <1>4, <4>1, <4>3
        <5> DEFINE e == g[i + 1]
        <5>2. e \in Seq({e[k] : k \in DOMAIN e})
          BY <5>1 DEF IsText
        <5>3. <<>> \o e = e
          <6> HIDE DEF e
          <6> QED
            BY <5>2
        <5> QED
          BY <3>2, <4>3, <5>1, <5>3
      <4> QED
        BY <4>2, <4>3
    <3> QED
      BY <3>1, <3>2
  <2> QED
    BY <1>4, <2>1 DEF Counting
<1>6. Counting(t, s, f)
  BY <1>5
<1>7. Counted(t, s) = f[0]
  BY DEF Counted, Counting
<1> HIDE DEF f
<1>8. /\ f[N] = <<>>
      /\ \A i \in 0 .. N - 1 : f[i] = IF search_match_at(t, i, s) THEN <<i>> \o f[i + Len(s.query)]
                                      ELSE f[i + 1]
  <2>1. \A i \in 0 .. N : f[i] = IF i > Len(t) THEN <<>>
                      ELSE IF search_match_at(t, i, s) THEN <<i>> \o f[i + Len(s.query)]
                      ELSE f[i + 1]
    BY <1>6 DEF Counting, Step
  <2>2. N \in 0 .. N /\ N > Len(t) /\ \A i \in 0 .. N - 1 : i \in 0 .. N /\ ~(i > Len(t))
    BY <1>1
  <2> HIDE DEF N
  <2> QED
    BY <2>1, <2>2
<1> DEFINE S == {n \in 0 .. N : \A i \in n .. N : Matches(t, s, i, f[i])}
<1>9. N \in S
  <2>1. N \in 0 .. N /\ \A i \in N .. N : i = N
    BY <1>1
  <2> QED
    BY <1>8, <2>1, NoMatches
<1>10. ASSUME NEW n \in 1 .. N, n \in S PROVE n - 1 \in S
  <2> DEFINE k == n - 1
  <2>1. k \in 0 .. N - 1 /\ k \in 0 .. N /\ k \in 0 .. Len(t) /\ k + 1 = n /\ n \in n .. N
    BY <1>1
  <2> HIDE DEF k
  <2>2. f[k] = IF search_match_at(t, k, s) THEN <<k>> \o f[k + Len(s.query)] ELSE f[k + 1]
    <3> HIDE DEF N
    <3> QED
      BY <1>8, <2>1
  <2>3. ASSUME search_match_at(t, k, s) PROVE Matches(t, s, k, f[k])
    <3>1. Len(s.query) > 0 /\ k + Len(s.query) <= Len(t)
      BY <2>3, MatchFits
    <3>2. k + Len(s.query) \in n .. N
      BY <1>1, <2>1, <3>1
    <3>3. Matches(t, s, k + Len(s.query), f[k + Len(s.query)])
      BY <1>10, <3>2
    <3>4. Matches(t, s, k, <<k>> \o f[k + Len(s.query)])
      BY <2>1, <2>3, <3>3, MatchesHere
    <3>5. f[k] = <<k>> \o f[k + Len(s.query)]
      BY <2>2, <2>3
    <3> QED
      BY <3>4, <3>5
  <2>4. ASSUME ~search_match_at(t, k, s) PROVE Matches(t, s, k, f[k])
    <3>1. Matches(t, s, k + 1, f[k + 1])
      BY <1>10, <2>1
    <3>2. Matches(t, s, k, f[k + 1])
      BY <2>1, <2>4, <3>1, MatchesLater
    <3>3. f[k] = f[k + 1]
      BY <2>2, <2>4
    <3> QED
      BY <3>2, <3>3
  <2>5. \A i \in k .. N : i = k \/ i \in n .. N
    BY <1>1, <2>1
  <2>6. k \in S
    BY <1>10, <2>1, <2>3, <2>4, <2>5
  <2> QED
    BY <2>6 DEF k
<1>11. \A n \in 0 .. N : n \in S
  <2> HIDE DEF S, N
  <2> QED
    BY <1>1, <1>9, <1>10, DownInduction
<1>12. Matches(t, s, 0, f[0])
  <2>1. 0 \in 0 .. N /\ 0 \in S
    BY <1>1, <1>11
  <2> QED
    BY <2>1
<1> QED
  BY <1>7, <1>12

(* All fields of At.                                                       *)
LEMMA AtFields ==
  ASSUME NEW b, IsBuffer(b), NEW c \in Nat, NEW a \in Int
  PROVE  At(b, c, a) = [text |-> b.text, cursor |-> c, anchor |-> a, pref |-> col_of(b.text, c)]
<1> DEFINE p == col_of(b.text, c)
<1>1. At(b, c, a) = [b EXCEPT !.cursor = c, !.anchor = a, !.pref = p]
  BY DEF At
<1> HIDE DEF p
<1>2. At(b, c, a) = [text |-> b.text, cursor |-> c, anchor |-> a, pref |-> p]
  BY <1>1, BufferFields
<1> QED
  BY <1>2 DEF p

(* Only the last move counts.                                              *)
LEMMA AtAgain ==
  ASSUME NEW b, IsBuffer(b), NEW c \in Nat, NEW a \in Int, NEW d \in Nat, NEW e \in Int
  PROVE  At(At(b, c, a), d, e) = At(b, d, e)
<1> DEFINE x == At(b, c, a)
<1>1. IsBuffer(x) /\ x.text = b.text
  BY AtBuffer
<1> HIDE DEF x
<1>2. At(x, d, e) = At(b, d, e)
  BY <1>1, AtFields
<1> QED
  BY <1>2 DEF x

(* AtBuffer for any cursor and anchor.                                     *)
LEMMA AtMade ==
  ASSUME NEW b, IsBuffer(b)
  PROVE  \A c \in Nat, a \in Int :
           /\ IsBuffer(At(b, c, a)) /\ At(b, c, a).text = b.text
           /\ At(b, c, a).cursor = c /\ At(b, c, a).anchor = a
<1>1. ASSUME NEW c \in Nat, NEW a \in Int
      PROVE  At(b, c, a).cursor = c /\ At(b, c, a).anchor = a
  BY AtFields
<1>2. ASSUME NEW c \in Nat, NEW a \in Int
      PROVE  IsBuffer(At(b, c, a)) /\ At(b, c, a).text = b.text
  BY AtBuffer
<1> QED
  BY <1>1, <1>2

(* Around the end of the text.                                             *)
LEMMA Wrap ==
  ASSUME NEW N \in Nat \ {0}, NEW x \in 0 .. 2 * N - 1
  PROVE  x % N = IF x < N THEN x ELSE x - N
<1>1. ASSUME NEW y \in 0 .. N - 1 PROVE y % N = y /\ (y + N) % N = y
  OBVIOUS
<1>2. CASE x < N
  BY <1>1, <1>2
<1>3. CASE ~(x < N)
  <2>1. x - N \in 0 .. N - 1 /\ (x - N) + N = x
    BY <1>3
  <2> QED
    BY <1>1, <1>3, <2>1
<1> QED
  BY <1>2, <1>3

(* F3 goes on at the end of the selection, and around the end of the text. *)
LEMMA FindForward ==
  ASSUME NEW b, IsBuffer(b), NEW s \in Searches, sel_end(b) <= Len(b.text),
         NEW m \in Nat, search_match_at(b.text, m, s),
         \/ sel_end(b) <= m /\ Free(b.text, s, sel_end(b), m)
         \/ /\ m < sel_end(b) /\ Free(b.text, s, sel_end(b), Len(b.text) + 1)
            /\ Free(b.text, s, 0, m)
  PROVE  textbox_find_next(b, s, FALSE, FALSE) = select_match(b, m, s)
<1> DEFINE n == Len(b.text) + 1
           q == sel_end(b)
           t == b.text
           pos(k) == (q + k) % n
           hits == {k \in 0 .. n - 1 : search_match_at(t, pos(k), s)}
           at == IF q <= m THEN m - q ELSE m - q + n
<1>1. n \in Nat \ {0} /\ q \in 0 .. n - 1 /\ m \in 0 .. n - 1 /\ Len(t) \in Nat
  <2>1. Len(b.text) \in Nat /\ sel_end(b) \in Nat
    BY BufferFacts, Selection
  <2>2. m <= Len(b.text)
    BY <2>1, MatchFits, SearchFacts
  <2> QED
    BY <2>1, <2>2
<1>2. textbox_find_next(b, s, FALSE, FALSE)
        = IF hits = {} THEN b ELSE select_match(b, pos(Min(hits)), s)
  BY DEF textbox_find_next, FindStart
<1>3. at \in 0 .. n - 1
  <2> HIDE DEF n, q
  <2> QED
    BY <1>1
<1>4. \/ q <= m /\ Free(t, s, q, m)
      \/ m < q /\ Free(t, s, q, n) /\ Free(t, s, 0, m)
  OBVIOUS
<1>5. search_match_at(t, m, s)
  OBVIOUS
<1> HIDE DEF n, q, t
<1>6. \A k \in 0 .. n - 1 : pos(k) = IF q + k < n THEN q + k ELSE q + k - n
  <2>1. ASSUME NEW k \in 0 .. n - 1
        PROVE  (q + k) % n = IF q + k < n THEN q + k ELSE q + k - n
    <3>1. q + k \in 0 .. 2 * n - 1
      BY <1>1
    <3> DEFINE x == q + k
    <3> HIDE DEF x
    <3>2. x % n = IF x < n THEN x ELSE x - n
      BY <1>1, <3>1, Wrap DEF x
    <3> QED
      BY <1>1, <3>1, <3>2 DEF x
  <2> QED
    BY <2>1
<1> HIDE DEF pos
<1>7. pos(at) = m
  <2>1. q + at = IF q <= m THEN m ELSE m + n
    BY <1>1
  <2>2. pos(at) = IF q + at < n THEN q + at ELSE q + at - n
    BY <1>3, <1>6
  <2> HIDE DEF at
  <2> QED
    BY <1>1, <1>3, <2>1, <2>2
<1>8. at \in hits
  BY <1>3, <1>5, <1>7
<1>9. ASSUME NEW k \in 0 .. n - 1, k < at PROVE ~search_match_at(t, pos(k), s)
  <2>1. CASE q <= m
    <3>1. q + k < n /\ q + k \in q .. m - 1
      BY <1>1, <1>9, <2>1
    <3>2. Free(t, s, q, m) /\ pos(k) = q + k
      BY <1>1, <1>4, <1>6, <2>1, <3>1
    <3> QED
      BY <3>1, <3>2 DEF Free
  <2>2. CASE ~(q <= m)
    <3>1. Free(t, s, q, n) /\ Free(t, s, 0, m)
      BY <1>1, <1>4, <2>2
    <3>2. pos(k) \in q .. n - 1 \/ pos(k) \in 0 .. m - 1
      <4>1. pos(k) = IF q + k < n THEN q + k ELSE q + k - n
        BY <1>6
      <4> QED
        BY <1>1, <1>9, <2>2, <4>1
    <3> QED
      BY <3>1, <3>2 DEF Free
  <2> QED
    BY <2>1, <2>2
<1>10. Min(hits) = at
  <2>1. hits \in SUBSET (0 .. n - 1) /\ hits # {} /\ 0 \in Int /\ n - 1 \in Int
    BY <1>1, <1>8
  <2>2. ASSUME NEW x \in hits PROVE ~(x < at) /\ x \in Int
    BY <1>9
  <2> HIDE DEF hits, at
  <2>3. Min(hits) \in hits /\ \A x \in hits : Min(hits) <= x
    BY <2>1, MaxWithin
  <2>4. Min(hits) <= at /\ ~(Min(hits) < at) /\ Min(hits) \in Int /\ at \in Int
    BY <1>8, <2>2, <2>3
  <2> QED
    BY <2>4
<1>11. hits # {}
  BY <1>8
<1> HIDE DEF hits, at
<1> QED
  BY <1>2, <1>7, <1>10, <1>11

(* The matches of the find bar are visited from the top, and then again.   *)
Visited(b, s, n, f) ==
  f = [k \in 0 .. n + 1 |->
         IF k = 0 THEN At(b, 0, -1) ELSE textbox_find_next(f[k - 1], s, FALSE, FALSE)]

(* F3 goes from each of the matches counted to the next.                   *)
LEMMA VisitsCounted ==
  ASSUME NEW b, IsBuffer(b), NEW s \in Searches, textbox_search_count(b.text, s) > 0
  PROVE  LET n == textbox_search_count(b.text, s)
             f == CHOOSE f : Visited(b, s, n, f)
         IN /\ [k \in 1 .. n |-> sel_start(f[k])] = Counted(b.text, s)
            /\ f[n + 1] = f[1]
<1>0. \A c \in Nat, a \in Int :
        /\ IsBuffer(At(b, c, a)) /\ At(b, c, a).text = b.text
        /\ At(b, c, a).cursor = c /\ At(b, c, a).anchor = a
  BY AtMade
<1> DEFINE t == b.text
           C == Counted(t, s)
           n == Len(C)
           l == Len(s.query)
           h(k) == IF k = 0 THEN At(b, 0, -1) ELSE At(b, C[k] + l, C[k])
           f == CHOOSE f : Visited(b, s, n, f)
<1>1. IsText(t) /\ Len(t) \in Nat /\ l \in Nat
  BY BufferFacts, SearchFacts
<1>2. textbox_search_count(b.text, s) = n
  BY DEF textbox_search_count
<1>3. Matches(t, s, 0, C)
  BY <1>1, CountedMatches
<1> HIDE DEF C
<1>4. IsText(C) /\ n \in Nat /\ n > 0
  BY <1>2, <1>3, TextFacts DEF Matches
<1>5. ASSUME NEW k \in 1 .. n
      PROVE  C[k] \in Nat /\ search_match_at(t, C[k], s) /\ l > 0 /\ C[k] + l <= Len(t)
  <2>1. C[k] \in Nat /\ search_match_at(t, C[k], s)
    BY <1>3 DEF Matches
  <2> QED
    BY <2>1, MatchFits
<1>6. ASSUME NEW k \in 0 .. n
      PROVE  /\ IsBuffer(h(k)) /\ h(k).text = t
             /\ sel_end(h(k)) = After(s, C, 0, k) /\ sel_end(h(k)) <= Len(t)
             /\ k > 0 => sel_start(h(k)) = C[k]
             /\ \A c \in Nat, a \in Int : At(h(k), c, a) = At(b, c, a)
  <2>1. CASE k = 0
    <3> DEFINE e == At(b, 0, -1)
    <3>1. IsBuffer(e) /\ e.text = t /\ e.cursor = 0 /\ e.anchor = -1
      <4>1. 0 \in Nat /\ -1 \in Int
        OBVIOUS
      <4> QED
        BY <1>0, <4>1, Zenon
    <3>2. \A c \in Nat, a \in Int : At(e, c, a) = At(b, c, a)
      BY AtAgain
    <3> HIDE DEF e
    <3>3. sel_end(e) = 0
      BY <3>1 DEF sel_end, has_sel
    <3>4. h(k) = e /\ After(s, C, 0, k) = 0
      BY <2>1 DEF e, After
    <3> QED
      BY <1>1, <2>1, <3>1, <3>2, <3>3, <3>4
  <2>2. CASE k # 0
    <3> DEFINE m == C[k]
               e == At(b, m + l, m)
    <3>1. m \in Nat /\ l > 0 /\ m + l <= Len(t) /\ m + l \in Nat /\ k \in 1 .. n
      BY <1>1, <1>4, <1>5, <2>2
    <3>2. h(k) = e /\ After(s, C, 0, k) = m + l
      BY <2>2 DEF After
    <3> HIDE DEF m
    <3>3. IsBuffer(e) /\ e.text = t /\ e.cursor = m + l /\ e.anchor = m
      <4>1. m + l \in Nat /\ m \in Int
        BY <3>1
      <4> QED
        BY <1>0, <4>1, Zenon
    <3>4. \A c \in Nat, a \in Int : At(e, c, a) = At(b, c, a)
      BY <3>1, AtAgain
    <3> HIDE DEF e
    <3>5. sel_end(e) = m + l /\ sel_start(e) = m
      BY <1>1, <3>1, <3>3 DEF sel_end, sel_start, has_sel, Least
    <3> HIDE DEF h
    <3> QED
      BY <3>1, <3>2, <3>3, <3>4, <3>5 DEF m
  <2> HIDE DEF h
  <2> QED
    BY <2>1, <2>2
<1>7. ASSUME NEW k \in 1 .. n PROVE h(k) = At(b, C[k] + l, C[k])
  BY <1>4
<1> HIDE DEF h
<1>8. ASSUME NEW k \in 0 .. n, NEW j \in 1 .. n, j = IF k = n THEN 1 ELSE k + 1
      PROVE  textbox_find_next(h(k), s, FALSE, FALSE) = h(j)
  <2> DEFINE m == C[j]
             e == h(k)
             q == After(s, C, 0, k)
  <2>1. m \in Nat /\ search_match_at(t, m, s) /\ m + l \in Nat
    BY <1>1, <1>5
  <2>2. IsBuffer(e) /\ e.text = t /\ sel_end(e) = q /\ q <= Len(t)
    BY <1>6
  <2>3. Free(t, s, q, Until(t, C, k))
    BY <1>3 DEF Matches
  <2>4. \/ q <= m /\ Free(t, s, q, m)
        \/ m < q /\ Free(t, s, q, Len(t) + 1) /\ Free(t, s, 0, m)
    <3>1. CASE k # n
      <4>1. k \in 0 .. n - 1 /\ j = k + 1
        BY <1>4, <1>8, <3>1
      <4>2. q <= m
        BY <1>3, <4>1 DEF Matches
      <4>3. Until(t, C, k) = m
        BY <3>1, <4>1 DEF Until
      <4> QED
        BY <2>3, <4>2, <4>3
    <3>2. CASE k = n
      <4>1. Until(t, C, k) = Len(t) + 1 /\ q = C[n] + l /\ j = 1
        BY <1>4, <1>8, <3>2 DEF Until, After
      <4>2. Free(t, s, 0, m)
        <5>1. Free(t, s, After(s, C, 0, 0), Until(t, C, 0))
          BY <1>3, <1>4 DEF Matches
        <5>2. After(s, C, 0, 0) = 0 /\ Until(t, C, 0) = C[1]
          BY <1>4 DEF After, Until
        <5> QED
          BY <4>1, <5>1, <5>2
      <4>3. m < q
        <5>1. n \in 1 .. n
          BY <1>4
        <5>2. C[n] \in Nat /\ search_match_at(t, C[n], s) /\ l > 0
          BY <1>5, <5>1
        <5>3. C[n] \notin 0 .. m - 1
          BY <4>2, <5>2 DEF Free
        <5> HIDE DEF m
        <5> QED
          BY <1>1, <2>1, <4>1, <5>2, <5>3
      <4> QED
        BY <2>3, <4>1, <4>2, <4>3
    <3> QED
      BY <3>1, <3>2
  <2>5. At(e, m + l, m) = At(b, m + l, m)
    BY <1>6, <2>1
  <2>6. h(j) = At(b, m + l, m)
    BY <1>7
  <2> HIDE DEF e, q, m
  <2>7. textbox_find_next(e, s, FALSE, FALSE) = select_match(e, m, s)
    BY <2>1, <2>2, <2>4, FindForward
  <2>8. select_match(e, m, s) = At(e, m + l, m)
    BY DEF select_match
  <2> QED
    BY <2>5, <2>6, <2>7, <2>8 DEF e
<1> DEFINE g == [k \in 0 .. n + 1 |-> IF k = n + 1 THEN h(1) ELSE h(k)]
<1>9. g[0] = At(b, 0, -1)
  BY <1>4 DEF h
<1>10. ASSUME NEW k \in 1 .. n + 1 PROVE g[k] = textbox_find_next(g[k - 1], s, FALSE, FALSE)
  <2>1. k - 1 \in 0 .. n /\ g[k - 1] = h(k - 1)
    BY <1>4
  <2>2. CASE k = n + 1
    <3>1. 1 \in 1 .. n /\ k - 1 = n /\ g[k] = h(1)
      BY <1>4, <2>2
    <3>2. textbox_find_next(h(k - 1), s, FALSE, FALSE) = h(1)
      BY <1>8, <2>1, <3>1
    <3> QED
      BY <2>1, <3>1, <3>2
  <2>3. CASE k # n + 1
    <3>1. k \in 1 .. n /\ k - 1 # n /\ (k - 1) + 1 = k /\ g[k] = h(k)
      BY <1>4, <2>3
    <3>2. textbox_find_next(h(k - 1), s, FALSE, FALSE) = h(k)
      BY <1>8, <2>1, <3>1
    <3> QED
      BY <2>1, <3>1, <3>2
  <2> QED
    BY <2>2, <2>3
<1>11. Visited(b, s, n, g)
  <2>1. \A k \in 0 .. n + 1 : k = 0 \/ k \in 1 .. n + 1
    BY <1>4
  <2>2. g = [k \in 0 .. n + 1 |-> g[k]]
    OBVIOUS
  <2> HIDE DEF g
  <2>3. \A k \in 0 .. n + 1 :
          g[k] = IF k = 0 THEN At(b, 0, -1) ELSE textbox_find_next(g[k - 1], s, FALSE, FALSE)
    BY <1>9, <1>10, <2>1
  <2> QED
    BY <2>2, <2>3 DEF Visited
<1>12. Visited(b, s, n, f)
  <2> HIDE DEF g
  <2> QED
    BY <1>11
<1> HIDE DEF f
<1>13. /\ f[0] = At(b, 0, -1)
       /\ \A k \in 1 .. n + 1 : f[k] = textbox_find_next(f[k - 1], s, FALSE, FALSE)
  <2>1. 0 \in 0 .. n + 1 /\ \A k \in 1 .. n + 1 : k \in 0 .. n + 1 /\ k # 0
    BY <1>4
  <2>2. \A k \in 0 .. n + 1 :
          f[k] = IF k = 0 THEN At(b, 0, -1) ELSE textbox_find_next(f[k - 1], s, FALSE, FALSE)
    BY <1>12 DEF Visited
  <2> HIDE DEF n
  <2> QED
    BY <2>1, <2>2
<1> DEFINE S == {k \in 0 .. n + 1 : f[k] = g[k]}
<1>14. \A k \in 0 .. n + 1 : k \in S
  <2> HIDE DEF g
  <2>1. 0 \in S /\ n + 1 \in Nat
    BY <1>4, <1>9, <1>13
  <2>2. ASSUME NEW k \in 1 .. n + 1, k - 1 \in S PROVE k \in S
    <3>1. f[k - 1] = g[k - 1] /\ k \in 0 .. n + 1
      BY <1>4, <2>2
    <3>2. f[k] = textbox_find_next(f[k - 1], s, FALSE, FALSE)
      BY <1>13
    <3>3. g[k] = textbox_find_next(g[k - 1], s, FALSE, FALSE)
      BY <1>10
    <3>4. f[k] = g[k]
      BY <3>1, <3>2, <3>3
    <3> QED
      BY <3>1, <3>4
  <2> HIDE DEF S
  <2> QED
    BY <2>1, <2>2, Induction
<1>15. \A k \in 0 .. n + 1 : f[k] = g[k]
  BY <1>14
<1>16. f[n + 1] = h(1) /\ \A k \in 1 .. n : f[k] = h(k)
  BY <1>4, <1>15
<1>17. f[n + 1] = f[1]
  BY <1>4, <1>16
<1>18. [k \in 1 .. n |-> sel_start(f[k])] = C
  <2>1. \A k \in 1 .. n : sel_start(f[k]) = C[k]
    BY <1>4, <1>6, <1>16
  <2>2. C = [k \in 1 .. n |-> C[k]]
    BY <1>4, TextFacts
  <2> QED
    BY <2>1, <2>2
<1> QED
  BY <1>2, <1>17, <1>18 DEF C, f

(* This holds of every buffer, hence in every state.                       *)
LEMMA VisitsHold == EditorInv => FindVisitsCounted
<1> SUFFICES ASSUME EditorInv, NEW s \in Searches, textbox_search_count(buf.text, s) > 0
             PROVE  LET n == textbox_search_count(buf.text, s)
                        f[k \in 0 .. n + 1] ==
                          IF k = 0 THEN At(buf, 0, -1)
                          ELSE textbox_find_next(f[k - 1], s, FALSE, FALSE)
                    IN /\ [k \in 1 .. n |-> sel_start(f[k])] = Counted(buf.text, s)
                       /\ f[n + 1] = f[1]
  BY DEF FindVisitsCounted
<1>1. IsBuffer(buf)
  BY DEF EditorInv
<1> QED
  BY <1>1, VisitsCounted DEF Visited

(* From the top, F3 visits the matches that the find bar counts, one after *)
(* the other, and then starts again (textbox_find_next,                    *)
(* textbox_search_count): whatever the text and the search are.            *)
THEOREM FindSafe == Spec => []FindVisitsCounted
<1>1. Spec => []EditorInv
  BY EditorSafe
<1> QED
  BY <1>1, VisitsHold, PTL

-----------------------------------------------------------------------------
(* Undo and redo: the stacks of History.                                   *)

StackInv == TypeOK /\ StacksFit

(* The facts about a snapshot: it is a record, and restoring it, with its  *)
(* cursor and anchor within its text, gives the snapshot itself.           *)
LEMMA RestoreIsExact == ASSUME NEW s \in Boxes PROVE restore_snapshot(s) = s
<1>1. PICK t \in Texts : s \in BoxesOf(t)
  BY DEF Boxes
<1>2. Length[t] \in Nat
  BY HistoryAssumption
<1>3. PICK c \in 0 .. Length[t], a \in -1 .. Length[t] :
        s = [text |-> t, cursor |-> c, anchor |-> a]
  BY <1>1 DEF BoxesOf
<1>. QED
  BY <1>2, <1>3 DEF restore_snapshot

(* A push keeps a stack of snapshots within its limit, and adds one to it  *)
(* while there is room.                                                    *)
LEMMA PushFacts ==
  ASSUME NEW stack \in Seq(Boxes), NEW s \in Boxes, Len(stack) <= CAP
  PROVE  /\ stack_push(stack, s) \in Seq(Boxes)
         /\ Len(stack_push(stack, s)) <= CAP
         /\ Len(stack) < CAP => stack_push(stack, s) = Append(stack, s)
<1>1. CASE Len(stack) = CAP
  <2>1. Len(stack) > 0 /\ stack # <<>>
    BY <1>1, HistoryAssumption
  <2>2. Tail(stack) \in Seq(Boxes) /\ Len(Tail(stack)) = Len(stack) - 1
    BY <2>1
  <2>. QED
    BY <1>1, <2>2 DEF stack_push
<1>2. CASE Len(stack) # CAP
  BY <1>2, HistoryAssumption DEF stack_push
<1>. QED
  BY <1>1, <1>2

(* Taking the newest snapshot off a stack.                                 *)
LEMMA PopFacts ==
  ASSUME NEW stack \in Seq(Boxes), stack # <<>>
  PROVE  /\ Popped(stack) \in Seq(Boxes)
         /\ Len(Popped(stack)) = Len(stack) - 1
         /\ \A i \in 1 .. Len(stack) - 1 : Popped(stack)[i] = stack[i]
         /\ Len(stack) \in Nat \ {0} /\ stack[Len(stack)] \in Boxes
<1>1. Len(stack) \in Nat \ {0}
  OBVIOUS
<1>2. \A i \in 1 .. Len(stack) : stack[i] \in Boxes
  OBVIOUS
<1>. DEFINE k == Len(stack) - 1
<1>3. k \in Int /\ \A i \in 1 .. k : stack[i] \in Boxes
  BY <1>1, <1>2
<1>4. /\ SubSeq(stack, 1, k) \in Seq(Boxes)
      /\ Len(SubSeq(stack, 1, k)) = IF 1 <= k THEN k - 1 + 1 ELSE 0
      /\ \A i \in 1 .. k - 1 + 1 : SubSeq(stack, 1, k)[i] = stack[1 + i - 1]
  BY <1>3, SubSeqProperties
<1>5. /\ Popped(stack) \in Seq(Boxes) /\ Len(Popped(stack)) = k
      /\ \A i \in 1 .. k : Popped(stack)[i] = stack[i]
  <2>1. Popped(stack) = SubSeq(stack, 1, k)
    BY DEF Popped
  <2>2. \A i \in 1 .. k : SubSeq(stack, 1, k)[i] = stack[i]
    BY <1>3, <1>4
  <2>3. k >= 0
    BY <1>1
  <2>. HIDE DEF k
  <2>4. Len(SubSeq(stack, 1, k)) = k
    BY <1>3, <1>4, <2>3
  <2>. QED
    BY <1>4, <2>1, <2>2, <2>4
<1>. QED
  BY <1>1, <1>2, <1>5

(* The stacks hold snapshots and fit, initially and after every step.      *)
LEMMA InitStacks == HistoryInit => StackInv
  BY HistoryAssumption DEF HistoryInit, StackInv, TypeOK, StacksFit, Kinds

(* StackInv is inductive.                                                  *)
LEMMA StackStep == StackInv /\ [HistoryNext]_historyVars => StackInv'
<1>. SUFFICES ASSUME StackInv, [HistoryNext]_historyVars PROVE StackInv'
  OBVIOUS
<1>0. /\ box \in Boxes /\ undo \in Seq(Boxes) /\ redo \in Seq(Boxes)
      /\ last_edit_kind \in Kinds /\ CAP \in Nat \ {0}
      /\ Len(undo) \in Nat /\ Len(redo) \in Nat /\ Len(undo) + Len(redo) <= CAP
  BY HistoryAssumption DEF StackInv, TypeOK, StacksFit
<1>1. ASSUME NEW new \in Boxes, Move(new) PROVE StackInv'
  BY <1>0, <1>1 DEF Move, StackInv, TypeOK, StacksFit, Kinds
<1>2. ASSUME NEW new \in Boxes, NEW kind \in Kinds \ {EDIT_NONE},
             NEW late \in BOOLEAN, Edit(kind, late, new)
      PROVE  StackInv'
  <2>1. /\ stack_push(undo, box) \in Seq(Boxes)
        /\ Len(stack_push(undo, box)) <= CAP
    BY <1>0, PushFacts
  <2>2. undo' \in Seq(Boxes) /\ Len(undo') <= CAP /\ redo' = <<>>
    BY <1>0, <1>2, <2>1 DEF Edit, undo_push, clear_redo
  <2>3. box' \in Boxes /\ last_edit_kind' \in Kinds
    BY <1>2 DEF Edit, Kinds
  <2>. QED
    BY <1>0, <2>2, <2>3 DEF StackInv, TypeOK, StacksFit
<1>3. CASE do_undo
  <2>1. undo # <<>> /\ redo' = stack_push(redo, box) /\ undo' = Popped(undo)
        /\ box' = restore_snapshot(undo[Len(undo)])
        /\ last_edit_kind' = EDIT_NONE
    BY <1>3 DEF do_undo
  <2>2. /\ undo' \in Seq(Boxes) /\ Len(undo') = Len(undo) - 1
        /\ undo[Len(undo)] \in Boxes /\ Len(undo) > 0
    BY <1>0, <2>1, PopFacts
  <2>3. redo' = Append(redo, box)
    <3>1. Len(redo) < CAP
      BY <1>0, <2>2
    <3>. QED
      BY <1>0, <2>1, <3>1 DEF stack_push
  <2>4. box' \in Boxes
    BY <2>1, <2>2, RestoreIsExact
  <2>. QED
    BY <1>0, <2>1, <2>2, <2>3, <2>4 DEF StackInv, TypeOK, StacksFit, Kinds
<1>4. CASE do_redo
  <2>1. redo # <<>> /\ undo' = stack_push(undo, box) /\ redo' = Popped(redo)
        /\ box' = restore_snapshot(redo[Len(redo)])
        /\ last_edit_kind' = EDIT_NONE
    BY <1>4 DEF do_redo
  <2>2. /\ redo' \in Seq(Boxes) /\ Len(redo') = Len(redo) - 1
        /\ redo[Len(redo)] \in Boxes /\ Len(redo) > 0
    BY <1>0, <2>1, PopFacts
  <2>3. undo' = Append(undo, box)
    <3>1. Len(undo) < CAP
      BY <1>0, <2>2
    <3>. QED
      BY <1>0, <2>1, <3>1 DEF stack_push
  <2>4. box' \in Boxes
    BY <2>1, <2>2, RestoreIsExact
  <2>. QED
    BY <1>0, <2>1, <2>2, <2>3, <2>4 DEF StackInv, TypeOK, StacksFit, Kinds
<1>5. CASE UNCHANGED historyVars
  BY <1>0, <1>5 DEF historyVars, StackInv, TypeOK, StacksFit
<1>. QED
  BY <1>1, <1>2, <1>3, <1>4, <1>5 DEF HistoryNext

(* The editor's undo and redo stacks hold snapshots within their texts and *)
(* together never more than TEXTBOX_UNDO_CAP of them.                      *)
THEOREM StacksSafe == HistorySpec => [](TypeOK /\ StacksFit)
<1>. QED
  BY InitStacks, StackStep, PTL DEF HistorySpec, StackInv
-----------------------------------------------------------------------------
(* The line of states, spelled out: where it ends and what stands where.   *)
LineSpec == /\ Len(undo) \in Nat /\ Len(redo) \in Nat
            /\ Walked \in Seq(Boxes)
            /\ Len(Walked) = Len(undo) + 1 + Len(redo)
            /\ \A i \in 1 .. Len(undo) : Walked[i] = undo[i]
            /\ Walked[Len(undo) + 1] = box

(* The line of Timeline is a sequence of snapshots.                        *)
LEMMA LineFacts == StackInv => LineSpec
<1>. SUFFICES ASSUME StackInv PROVE LineSpec
  OBVIOUS
<1>0. /\ box \in Boxes /\ undo \in Seq(Boxes) /\ redo \in Seq(Boxes)
      /\ Len(undo) \in Nat /\ Len(redo) \in Nat
  BY DEF StackInv, TypeOK
<1>. DEFINE n == Len(undo) + 1 + Len(redo)
<1>1. \A i \in 1 .. n : Walked[i] \in Boxes
  BY <1>0 DEF Walked
<1>2. Walked \in [1 .. n -> Boxes]
  BY <1>1 DEF Walked
<1>3. Walked \in Seq(Boxes) /\ Len(Walked) = n
  <2>1. n \in Nat
    BY <1>0
  <2>. HIDE DEF n
  <2>. QED
    BY <1>2, <2>1
<1>. QED
  BY <1>0, <1>3 DEF Walked, LineSpec

(* Two sequences of one length that agree everywhere are equal.            *)
LEMMA SameSequence ==
  ASSUME NEW s \in Seq(Boxes), NEW t \in Seq(Boxes), Len(s) = Len(t),
         \A i \in 1 .. Len(s) : s[i] = t[i]
  PROVE  s = t
  OBVIOUS

(* The same after a step.                                                  *)
LEMMA NextLineFacts == StackInv' => LineSpec'
  BY LineFacts, PTL

(* Undo goes back along the line and leaves it as it is.                   *)
LEMMA UndoWalks == ASSUME StackInv, do_undo PROVE Walk!Undo
<1>. DEFINE n == Len(undo)
            m == Len(redo)
<1>0. /\ box \in Boxes /\ undo \in Seq(Boxes) /\ redo \in Seq(Boxes)
      /\ n \in Nat /\ m \in Nat /\ n + m <= CAP /\ CAP \in Nat
  BY HistoryAssumption DEF StackInv, TypeOK, StacksFit
<1>1. /\ undo # <<>> /\ redo' = stack_push(redo, box) /\ undo' = Popped(undo)
      /\ box' = restore_snapshot(undo[n]) /\ last_edit_kind' = EDIT_NONE
  BY DEF do_undo
<1>2. /\ n > 0 /\ undo[n] \in Boxes /\ Len(undo') = n - 1
      /\ \A i \in 1 .. n - 1 : undo'[i] = undo[i]
  BY <1>0, <1>1, PopFacts
<1>3. box' = undo[n]
  BY <1>1, <1>2, RestoreIsExact
<1>4. redo' = Append(redo, box)
  <2>1. Len(redo) < CAP
    BY <1>0, <1>2
  <2>. QED
    BY <1>0, <1>1, <2>1 DEF stack_push
<1>5. /\ Len(redo') = m + 1 /\ redo'[m + 1] = box
      /\ \A i \in 1 .. m : redo'[i] = redo[i]
  BY <1>0, <1>4, AppendProperties
<1>. HIDE DEF n, m
<1>6. Walked' = Walked
  <2>1. Walked = [i \in 1 .. n + 1 + m |-> IF i <= n THEN undo[i]
                  ELSE IF i = n + 1 THEN box ELSE redo[n + m + 2 - i]]
    BY DEF Walked, n, m
  <2>2. Walked' = [i \in 1 .. (n - 1) + 1 + (m + 1) |-> IF i <= n - 1 THEN undo'[i]
                   ELSE IF i = (n - 1) + 1 THEN box'
                   ELSE redo'[(n - 1) + (m + 1) + 2 - i]]
    BY <1>2, <1>5 DEF Walked
  <2>3. (n - 1) + 1 + (m + 1) = n + 1 + m
    BY <1>0
  <2>4. ASSUME NEW i \in 1 .. n + 1 + m PROVE Walked'[i] = Walked[i]
    <3>1. CASE i <= n - 1
      BY <1>0, <1>2, <2>1, <2>2, <2>3, <3>1
    <3>2. CASE i = n
      BY <1>0, <1>2, <1>3, <2>1, <2>2, <2>3, <3>2
    <3>3. CASE i = n + 1
      BY <1>0, <1>5, <2>1, <2>2, <2>3, <3>3
    <3>4. CASE i > n + 1
      <4>1. (n - 1) + (m + 1) + 2 - i = n + m + 2 - i
            /\ n + m + 2 - i \in 1 .. m
        BY <1>0, <3>4
      <4>. QED
        BY <1>0, <1>5, <2>1, <2>2, <2>3, <3>4, <4>1
    <3>. QED
      BY <1>0, <3>1, <3>2, <3>3, <3>4
  <2>. QED
    BY <2>1, <2>2, <2>3, <2>4
<1>7. Len(undo) + 1 > 1 /\ Len(undo') + 1 = Len(undo) + 1 - 1
  BY <1>0, <1>2 DEF n
<1>8. EDIT_NONE \notin BurstKinds
  BY DEF EDIT_NONE, BurstKinds, EDIT_TYPE, EDIT_DELETE
<1>. QED
  BY <1>1, <1>6, <1>7, <1>8 DEF Walk!Undo

(* Redo goes ahead along the line and leaves it as it is.                  *)
LEMMA RedoWalks == ASSUME StackInv, do_redo PROVE Walk!Redo
<1>. DEFINE n == Len(undo)
            m == Len(redo)
<1>0. /\ box \in Boxes /\ undo \in Seq(Boxes) /\ redo \in Seq(Boxes)
      /\ n \in Nat /\ m \in Nat /\ n + m <= CAP /\ CAP \in Nat
  BY HistoryAssumption DEF StackInv, TypeOK, StacksFit
<1>1. /\ redo # <<>> /\ undo' = stack_push(undo, box) /\ redo' = Popped(redo)
      /\ box' = restore_snapshot(redo[m]) /\ last_edit_kind' = EDIT_NONE
  BY DEF do_redo
<1>2. /\ m > 0 /\ redo[m] \in Boxes /\ Len(redo') = m - 1
      /\ \A i \in 1 .. m - 1 : redo'[i] = redo[i]
  BY <1>0, <1>1, PopFacts
<1>3. box' = redo[m]
  BY <1>1, <1>2, RestoreIsExact
<1>4. undo' = Append(undo, box)
  <2>1. Len(undo) < CAP
    BY <1>0, <1>2
  <2>. QED
    BY <1>0, <1>1, <2>1 DEF stack_push
<1>5. /\ Len(undo') = n + 1 /\ undo'[n + 1] = box
      /\ \A i \in 1 .. n : undo'[i] = undo[i]
  BY <1>0, <1>4, AppendProperties
<1>. HIDE DEF n, m
<1>6. Walked' = Walked
  <2>1. Walked = [i \in 1 .. n + 1 + m |-> IF i <= n THEN undo[i]
                  ELSE IF i = n + 1 THEN box ELSE redo[n + m + 2 - i]]
    BY DEF Walked, n, m
  <2>2. Walked' = [i \in 1 .. (n + 1) + 1 + (m - 1) |-> IF i <= n + 1 THEN undo'[i]
                   ELSE IF i = (n + 1) + 1 THEN box'
                   ELSE redo'[(n + 1) + (m - 1) + 2 - i]]
    BY <1>2, <1>5 DEF Walked
  <2>3. (n + 1) + 1 + (m - 1) = n + 1 + m
    BY <1>0
  <2>4. ASSUME NEW i \in 1 .. n + 1 + m PROVE Walked'[i] = Walked[i]
    <3>1. CASE i <= n
      BY <1>0, <1>5, <2>1, <2>2, <2>3, <3>1
    <3>2. CASE i = n + 1
      BY <1>0, <1>5, <2>1, <2>2, <2>3, <3>2
    <3>3. CASE i = n + 2
      <4>1. n + m + 2 - i = m
        BY <1>0, <3>3
      <4>. QED
        BY <1>0, <1>3, <2>1, <2>2, <2>3, <3>3, <4>1
    <3>4. CASE i > n + 2
      <4>1. (n + 1) + (m - 1) + 2 - i = n + m + 2 - i
            /\ n + m + 2 - i \in 1 .. m - 1
        BY <1>0, <3>4
      <4>. QED
        BY <1>0, <1>2, <2>1, <2>2, <2>3, <3>4, <4>1
    <3>. QED
      BY <1>0, <3>1, <3>2, <3>3, <3>4
  <2>. QED
    BY <2>1, <2>2, <2>3, <2>4
<1>7. Len(undo) + 1 < Len(Walked) /\ Len(undo') + 1 = Len(undo) + 1 + 1
  BY <1>0, <1>2, <1>5, LineFacts DEF n, m, LineSpec
<1>8. EDIT_NONE \notin BurstKinds
  BY DEF EDIT_NONE, BurstKinds, EDIT_TYPE, EDIT_DELETE
<1>. QED
  BY <1>1, <1>6, <1>7, <1>8 DEF Walk!Redo

(* An edit cuts off what could be redone and either adds a step to the     *)
(* line, or changes the step its burst has made.                           *)
LEMMA EditWalks ==
  ASSUME StackInv, StackInv', NEW new \in Boxes, NEW kind \in Kinds \ {EDIT_NONE},
         NEW late \in BOOLEAN, Edit(kind, late, new)
  PROVE  \E b \in BurstKinds \cup {EDIT_NONE} : Walk!Edit(b, new)
<1>. DEFINE n == Len(undo)
            burst == IF last_edit_kind \in BurstKinds THEN last_edit_kind
                     ELSE EDIT_NONE
            b == IF kind \in BurstKinds THEN kind ELSE EDIT_NONE
<1>0. /\ box \in Boxes /\ undo \in Seq(Boxes) /\ n \in Nat /\ n <= CAP
      /\ CAP \in Nat \ {0} /\ Len(redo) \in Nat
  BY HistoryAssumption DEF StackInv, TypeOK, StacksFit
<1>1. /\ Walked \in Seq(Boxes) /\ Len(Walked) = n + 1 + Len(redo)
      /\ Walked[n + 1] = box /\ \A i \in 1 .. n : Walked[i] = undo[i]
  BY LineFacts DEF LineSpec
<1>2. redo' = <<>> /\ box' = new
  BY DEF Edit, undo_push, clear_redo
<1>3. /\ Walked' \in Seq(Boxes) /\ Len(Walked') = Len(undo') + 1
      /\ Walked'[Len(undo') + 1] = new
      /\ \A i \in 1 .. Len(undo') : Walked'[i] = undo'[i]
      /\ Len(undo') \in Nat
  BY <1>2, NextLineFacts DEF LineSpec
<1>4. b \in BurstKinds \cup {EDIT_NONE} /\ burst' \in {b, EDIT_NONE}
  BY DEF Edit, BurstKinds, Kinds, EDIT_NONE, EDIT_TYPE, EDIT_DELETE, EDIT_OTHER
<1>5. CASE coalesce(kind, late)
  <2>1. kind = last_edit_kind /\ kind \in BurstKinds /\ undo # <<>> /\ undo' = undo
    BY <1>5 DEF coalesce, BurstKinds, Edit, undo_push
  <2>2. b = burst /\ b \in BurstKinds /\ n > 0
    BY <1>0, <2>1
  <2>3. Walked' = Append(SubSeq(Walked, 1, n), new)
    <3>1. /\ SubSeq(Walked, 1, n) \in Seq(Boxes) /\ Len(SubSeq(Walked, 1, n)) = n
          /\ \A i \in 1 .. n : SubSeq(Walked, 1, n)[i] = Walked[i]
      BY <1>0, <1>1
    <3>2. /\ Append(SubSeq(Walked, 1, n), new) \in Seq(Boxes)
          /\ Len(Append(SubSeq(Walked, 1, n), new)) = n + 1
          /\ Append(SubSeq(Walked, 1, n), new)[n + 1] = new
          /\ \A i \in 1 .. n :
               Append(SubSeq(Walked, 1, n), new)[i] = SubSeq(Walked, 1, n)[i]
      BY <3>1, AppendProperties
    <3>3. \A i \in 1 .. n + 1 :
            Walked'[i] = Append(SubSeq(Walked, 1, n), new)[i]
      BY <1>0, <1>1, <1>3, <2>1, <3>1, <3>2
    <3>. QED
      BY <1>3, <2>1, <3>2, <3>3, SameSequence
  <2>4. n + 1 > 1 /\ n + 1 - 1 = n /\ Len(undo') = n
    BY <1>0, <2>1, <2>2
  <2>5. Walk!Amend(new)
    BY <2>3, <2>4 DEF Walk!Amend
  <2>. QED
    BY <1>4, <2>2, <2>5 DEF Walk!Edit
<1>6. CASE ~coalesce(kind, late)
  <2>1. undo' = stack_push(undo, box)
    BY <1>6 DEF Edit, undo_push
  <2>2. CASE n < CAP
    <3>1. undo' = Append(undo, box)
      BY <1>0, <2>1, <2>2 DEF stack_push
    <3>2. /\ Len(undo') = n + 1 /\ undo'[n + 1] = box
          /\ \A i \in 1 .. n : undo'[i] = undo[i]
      BY <1>0, <3>1, AppendProperties
    <3>3. /\ SubSeq(Walked, 1, n + 1) \in Seq(Boxes)
          /\ Len(SubSeq(Walked, 1, n + 1)) = n + 1
          /\ \A i \in 1 .. n + 1 : SubSeq(Walked, 1, n + 1)[i] = Walked[i]
      BY <1>0, <1>1
    <3>4. /\ Append(SubSeq(Walked, 1, n + 1), new) \in Seq(Boxes)
          /\ Len(Append(SubSeq(Walked, 1, n + 1), new)) = n + 2
          /\ Append(SubSeq(Walked, 1, n + 1), new)[n + 2] = new
          /\ \A i \in 1 .. n + 1 : Append(SubSeq(Walked, 1, n + 1), new)[i]
                                     = SubSeq(Walked, 1, n + 1)[i]
      BY <1>0, <3>3, AppendProperties
    <3>5. ASSUME NEW i \in 1 .. n + 2
          PROVE  Walked'[i] = Append(SubSeq(Walked, 1, n + 1), new)[i]
      <4>1. CASE i \in 1 .. n
        <5>1. i \in 1 .. n + 1 /\ i \in 1 .. Len(undo')
          BY <1>0, <3>2, <4>1
        <5>2. Walked'[i] = undo'[i] /\ undo'[i] = undo[i]
          BY <1>3, <3>2, <4>1, <5>1
        <5>3. Walked[i] = undo[i]
          BY <1>1, <4>1
        <5>4. Append(SubSeq(Walked, 1, n + 1), new)[i] = Walked[i]
          BY <3>3, <3>4, <5>1
        <5>. QED
          BY <5>2, <5>3, <5>4
      <4>2. CASE i = n + 1
        BY <1>0, <1>1, <1>3, <3>2, <3>3, <3>4, <4>2
      <4>3. CASE i = n + 2
        BY <1>0, <1>3, <3>2, <3>4, <4>3
      <4>. QED
        BY <1>0, <4>1, <4>2, <4>3
    <3>6. Walked' = Append(SubSeq(Walked, 1, n + 1), new)
      BY <1>0, <1>3, <3>2, <3>4, <3>5, SameSequence
    <3>7. Walk!Extend(new)
      BY <1>0, <2>2, <3>2, <3>6 DEF Walk!Extend
    <3>. QED
      BY <1>4, <3>7 DEF Walk!Edit
  <2>3. CASE n = CAP
    <3>0. undo # <<>>
      BY <1>0, <2>3
    <3>1. undo' = Append(Tail(undo), box)
      BY <1>0, <2>1, <2>3 DEF stack_push
    <3>2. /\ Tail(undo) \in Seq(Boxes) /\ Len(Tail(undo)) = n - 1
          /\ \A i \in 1 .. n - 1 : Tail(undo)[i] = undo[i + 1]
      BY <1>0, <3>0, HeadTailProperties
    <3>3. /\ Len(undo') = n /\ undo'[n] = box
          /\ \A i \in 1 .. n - 1 : undo'[i] = undo[i + 1]
      BY <1>0, <3>1, <3>2, AppendProperties
    <3>4. /\ SubSeq(Walked, 2, n + 1) \in Seq(Boxes)
          /\ Len(SubSeq(Walked, 2, n + 1)) = n
          /\ \A i \in 1 .. n : SubSeq(Walked, 2, n + 1)[i] = Walked[i + 1]
      BY <1>0, <1>1
    <3>5. /\ Append(SubSeq(Walked, 2, n + 1), new) \in Seq(Boxes)
          /\ Len(Append(SubSeq(Walked, 2, n + 1), new)) = n + 1
          /\ Append(SubSeq(Walked, 2, n + 1), new)[n + 1] = new
          /\ \A i \in 1 .. n : Append(SubSeq(Walked, 2, n + 1), new)[i]
                                 = SubSeq(Walked, 2, n + 1)[i]
      BY <1>0, <3>4, AppendProperties
    <3>6. ASSUME NEW i \in 1 .. n + 1
          PROVE  Walked'[i] = Append(SubSeq(Walked, 2, n + 1), new)[i]
      <4>1. CASE i < n
        <5>1. i \in 1 .. n - 1 /\ i \in 1 .. n /\ i + 1 \in 1 .. n
          BY <1>0, <4>1
        <5>2. Walked'[i] = undo[i + 1]
          BY <1>3, <3>3, <5>1
        <5>. QED
          BY <1>1, <3>4, <3>5, <5>1, <5>2
      <4>2. CASE i = n
        BY <1>0, <1>1, <1>3, <2>3, <3>3, <3>4, <3>5, <4>2
      <4>3. CASE i = n + 1
        BY <1>0, <1>3, <3>3, <3>5, <4>3
      <4>. QED
        BY <1>0, <4>1, <4>2, <4>3
    <3>7. Walked' = Append(SubSeq(Walked, 2, n + 1), new)
      BY <1>0, <1>3, <3>3, <3>5, <3>6, SameSequence
    <3>8. Walk!Extend(new)
      BY <1>0, <2>3, <3>3, <3>7 DEF Walk!Extend
    <3>. QED
      BY <1>4, <3>8 DEF Walk!Edit
  <2>. QED
    BY <1>0, <2>2, <2>3
<1>. QED
  BY <1>5, <1>6

(* Moving the cursor changes the state shown, not its text.                *)
LEMMA MoveWalks ==
  ASSUME StackInv, StackInv', NEW new \in Boxes, Move(new)
  PROVE  Walk!Move(new)
<1>1. /\ new.text = box.text /\ box' = new /\ undo' = undo /\ redo' = redo
      /\ last_edit_kind' \in {last_edit_kind, EDIT_NONE}
  BY DEF Move
<1>2. /\ Len(undo) \in Nat /\ Len(redo) \in Nat /\ Walked[Len(undo) + 1] = box
  BY LineFacts DEF LineSpec
<1>3. Walked' = [Walked EXCEPT ![Len(undo) + 1] = new]
  <2>1. Walked' = [i \in 1 .. Len(undo) + 1 + Len(redo) |->
                   IF i <= Len(undo) THEN undo[i]
                   ELSE IF i = Len(undo) + 1 THEN new
                   ELSE redo[Len(undo) + Len(redo) + 2 - i]]
    BY <1>1 DEF Walked
  <2>2. Walked = [i \in 1 .. Len(undo) + 1 + Len(redo) |->
                  IF i <= Len(undo) THEN undo[i]
                  ELSE IF i = Len(undo) + 1 THEN box
                  ELSE redo[Len(undo) + Len(redo) + 2 - i]]
    BY DEF Walked
  <2>3. \A i \in 1 .. Len(undo) + 1 + Len(redo) :
          Walked'[i] = [Walked EXCEPT ![Len(undo) + 1] = new][i]
    BY <1>2, <2>1, <2>2
  <2>4. DOMAIN Walked = 1 .. Len(undo) + 1 + Len(redo)
    BY <2>2
  <2>. QED
    BY <2>1, <2>3, <2>4
<1>4. EDIT_NONE \notin BurstKinds
  BY DEF EDIT_NONE, BurstKinds, EDIT_TYPE, EDIT_DELETE
<1>. QED
  BY <1>1, <1>2, <1>3, <1>4 DEF Walk!Move

(* Every step of History is a step along the line.                         *)
LEMMA StepWalks ==
  StackInv /\ StackInv' /\ [HistoryNext]_historyVars => [Walk!TimelineNext]_(Walk!timelineVars)
<1>. SUFFICES ASSUME StackInv, StackInv', [HistoryNext]_historyVars
              PROVE  Walk!TimelineNext \/ UNCHANGED Walk!timelineVars
  OBVIOUS
<1>1. ASSUME NEW new \in Boxes, Move(new) PROVE Walk!TimelineNext
  BY <1>1, MoveWalks DEF Walk!TimelineNext
<1>2. ASSUME NEW new \in Boxes, NEW kind \in Kinds \ {EDIT_NONE},
             NEW late \in BOOLEAN, Edit(kind, late, new)
      PROVE  Walk!TimelineNext
  BY <1>2, EditWalks DEF Walk!TimelineNext
<1>3. CASE do_undo
  BY <1>3, UndoWalks DEF Walk!TimelineNext
<1>4. CASE do_redo
  BY <1>4, RedoWalks DEF Walk!TimelineNext
<1>5. CASE UNCHANGED historyVars
  BY <1>5 DEF historyVars, Walk!timelineVars, Walked
<1>. QED
  BY <1>1, <1>2, <1>3, <1>4, <1>5 DEF HistoryNext

(* History starts at the start of a line.                                  *)
LEMMA InitWalks == HistoryInit => Walk!TimelineInit
<1>. SUFFICES ASSUME HistoryInit PROVE Walk!TimelineInit
  OBVIOUS
<1>1. /\ box \in Boxes /\ undo = <<>> /\ redo = <<>>
      /\ last_edit_kind = EDIT_NONE
  BY DEF HistoryInit
<1>2. Walked = <<box>>
  BY <1>1 DEF Walked
<1>3. EDIT_NONE \notin BurstKinds
  BY DEF EDIT_NONE, BurstKinds, EDIT_TYPE, EDIT_DELETE
<1>. QED
  BY <1>1, <1>2, <1>3 DEF Walk!TimelineInit

(* The editor's undo implements the timeline: whatever is typed, undone and *)
(* redone, Ctrl+Z shows the state before the last step, Ctrl+Y takes it     *)
(* back exactly, and only a step beyond TEXTBOX_UNDO_CAP is given up.       *)
THEOREM HistoryImplementsTimeline == HistorySpec => ImplementsTimeline
<1>. QED
  BY InitStacks, StackStep, InitWalks, StepWalks, PTL
  DEF HistorySpec, ImplementsTimeline, Walk!TimelineSpec
=============================================================================
