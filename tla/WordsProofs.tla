----------------------------- MODULE WordsProofs -----------------------------
(***************************************************************************)
(* Proofs about Words, for words of any length, any characters and any     *)
(* environments.                                                           *)
(***************************************************************************)
EXTENDS Words, FiniteSetTheorems, SequenceTheorems, WellFoundedInduction, TLAPS

-----------------------------------------------------------------------------
(* Numbers                                                                 *)

LEMMA LeastOf ==
  ASSUME NEW S, S \subseteq Nat, S # {}
  PROVE  Min(S) \in S /\ \A y \in S : Min(S) =< y
<1>2. \E x \in S : \A y \in S : ~(<<y, x>> \in OpToRel(<, Nat))
  BY WFMin, NatLessThanWellFounded
<1>3. OpToRel(<, Nat) = {ss \in Nat \X Nat : ss[1] < ss[2]}
  BY Zenon DEF OpToRel
<1>4. PICK x \in S : \A y \in S : <<y, x>> \notin {ss \in Nat \X Nat : ss[1] < ss[2]}
  BY <1>2, <1>3
<1>5. \A y \in S : x =< y
  <2>1. ASSUME NEW y \in S, y < x PROVE FALSE
    <3> DEFINE pair == <<y, x>>
    <3>1. pair \in Nat \X Nat /\ pair[1] < pair[2]
      BY <2>1
    <3> QED
      BY <1>4, <3>1
  <2> QED
    BY <2>1
<1> QED
  BY <1>5 DEF Min

\* The least is the one there is no less than.
LEMMA LeastIs ==
  ASSUME NEW S, S \subseteq Nat, NEW x \in S, \A y \in S : x =< y
  PROVE  Min(S) = x
<1> DEFINE l == Min(S)
<1>1. l \in S /\ l =< x
  BY LeastOf
<1> HIDE DEF l
<1>2. l = x
  BY <1>1
<1> QED
  BY <1>2 DEF l

\* Induction on a set of numbers.
LEMMA Induct ==
  ASSUME NEW m \in Nat, NEW n \in Nat, NEW S, m \in S,
         \A i \in m + 1 .. n : i - 1 \in S => i \in S
  PROVE  m .. n \subseteq S
<1> DEFINE B == {i \in m .. n : i \notin S}
<1>1. SUFFICES ASSUME B # {} PROVE FALSE
  OBVIOUS
<1> DEFINE l == Min(B)
<1>2. B \subseteq Nat
  OBVIOUS
<1>3. l \in B /\ \A y \in B : l =< y
  BY <1>1, <1>2, LeastOf
<1> HIDE DEF l
<1>4. l \in m + 1 .. n /\ l - 1 \in m .. n
  BY <1>3
<1>5. l - 1 \notin B
  BY <1>3, <1>4
<1> QED
  BY <1>3, <1>4, <1>5

-----------------------------------------------------------------------------
(* Sequences                                                               *)

LEMMA LengthOf ==
  ASSUME NEW a \in Seq(Char), NEW b \in Seq(Char), NEW c \in Seq(Char),
         NEW s, s = a \o (b \o c)
  PROVE  s \in Seq(Char) /\ Len(s) = Len(a) + Len(b) + Len(c)
<1>1. b \o c \in Seq(Char) /\ Len(b \o c) = Len(b) + Len(c)
  BY ConcatProperties
<1>2. a \o (b \o c) \in Seq(Char) /\ Len(a \o (b \o c)) = Len(a) + Len(b \o c)
  BY <1>1, ConcatProperties, Zenon
<1> QED
  BY <1>1, <1>2

LEMMA PartAt ==
  ASSUME NEW a \in Seq(Char), NEW b \in Seq(Char), NEW c \in Seq(Char),
         NEW s, s = a \o (b \o c)
  PROVE  /\ s \in Seq(Char) /\ Len(s) = Len(a) + Len(b) + Len(c)
         /\ \A i \in 1 .. Len(a) : s[i] = a[i]
         /\ \A i \in 1 .. Len(b) : s[Len(a) + i] = b[i]
         /\ \A i \in 1 .. Len(c) : s[Len(a) + Len(b) + i] = c[i]
<1>1. /\ b \o c \in Seq(Char) /\ Len(b \o c) = Len(b) + Len(c)
      /\ \A i \in 1 .. Len(b) : (b \o c)[i] = b[i]
      /\ \A i \in 1 .. Len(c) : (b \o c)[Len(b) + i] = c[i]
  OBVIOUS
<1> DEFINE t == b \o c
<1>2. t \in Seq(Char) /\ Len(t) = Len(b) + Len(c)
  BY <1>1
<1>3. \A i \in 1 .. Len(b) : t[i] = b[i]
  BY <1>1
<1>4. \A i \in 1 .. Len(c) : t[Len(b) + i] = c[i]
  BY <1>1
<1> HIDE DEF t
<1>5. /\ a \o t \in Seq(Char) /\ Len(a \o t) = Len(a) + Len(t)
      /\ \A i \in 1 .. Len(a) : (a \o t)[i] = a[i]
      /\ \A i \in 1 .. Len(t) : (a \o t)[Len(a) + i] = t[i]
  <2>1. a \o t \in Seq(Char) /\ Len(a \o t) = Len(a) + Len(t)
    BY <1>2, ConcatProperties, Zenon
  <2>2. \A i \in 1 .. Len(a) : (a \o t)[i] = a[i]
    BY <1>2
  <2>3. \A i \in 1 .. Len(t) : (a \o t)[Len(a) + i] = t[i]
    BY <1>2
  <2> QED
    BY <2>1, <2>2, <2>3
<1> DEFINE u == a \o t
<1>6. u \in Seq(Char) /\ Len(u) = Len(a) + Len(b) + Len(c)
  BY <1>2, <1>5
<1>7. \A i \in 1 .. Len(a) : u[i] = a[i]
  BY <1>5
<1>8. \A i \in 1 .. Len(b) : u[Len(a) + i] = b[i]
  BY <1>2, <1>3, <1>5
<1>9. \A i \in 1 .. Len(c) : u[Len(a) + Len(b) + i] = c[i]
  <2> SUFFICES ASSUME NEW i \in 1 .. Len(c) PROVE u[Len(a) + Len(b) + i] = c[i]
    OBVIOUS
  <2>1. Len(b) + i \in 1 .. Len(t) /\ Len(a) + (Len(b) + i) = Len(a) + Len(b) + i
    BY <1>2
  <2> QED
    BY <1>4, <1>5, <2>1
<1>10. u = s
  BY DEF t
<1> QED
  BY <1>6, <1>7, <1>8, <1>9, <1>10

\* The parts of a sequence that is made of three.
LEMMA Part ==
  ASSUME NEW a \in Seq(Char), NEW b \in Seq(Char), NEW c \in Seq(Char)
  PROVE  /\ SubSeq(a \o (b \o c), 1, Len(a)) = a
         /\ SubSeq(a \o (b \o c), Len(a) + 1, Len(a) + Len(b)) = b
         /\ SubSeq(a \o (b \o c), Len(a) + Len(b) + 1, Len(a \o (b \o c))) = c
<1> DEFINE u == a \o (b \o c)
<1>5. u = a \o (b \o c)
  OBVIOUS
<1> HIDE DEF u
<1>6. u \in Seq(Char) /\ Len(u) = Len(a) + Len(b) + Len(c)
  BY <1>5, PartAt
<1>7. \A i \in 1 .. Len(a) : u[i] = a[i]
  BY <1>5, PartAt
<1>8. \A i \in 1 .. Len(b) : u[Len(a) + i] = b[i]
  BY <1>5, PartAt
<1>9. \A i \in 1 .. Len(c) : u[Len(a) + Len(b) + i] = c[i]
  BY <1>5, PartAt
<1>10. SubSeq(u, 1, Len(a)) = a
  <2>1. \A i \in 1 .. Len(a) : u[i] \in Char
    BY <1>6
  <2>2. /\ SubSeq(u, 1, Len(a)) \in Seq(Char)
        /\ Len(SubSeq(u, 1, Len(a))) = Len(a)
        /\ \A i \in 1 .. Len(a) : SubSeq(u, 1, Len(a))[i] = a[i]
    BY <1>7, <2>1, SubSeqProperties
  <2> QED
    BY <2>2, SeqEqual
<1>11. SubSeq(u, Len(a) + 1, Len(a) + Len(b)) = b
  <2> DEFINE v == SubSeq(u, Len(a) + 1, Len(a) + Len(b))
  <2>1. \A i \in Len(a) + 1 .. Len(a) + Len(b) : u[i] \in Char
    BY <1>6
  <2>2. /\ v \in Seq(Char)
        /\ Len(v) = Len(b)
        /\ \A i \in 1 .. Len(b) : v[i] = u[Len(a) + i]
    BY <2>1
  <2> HIDE DEF v
  <2>3. v = b
    BY <1>8, <2>2, SeqEqual
  <2> QED
    BY <2>3 DEF v
<1>12. SubSeq(u, Len(a) + Len(b) + 1, Len(u)) = c
  <2> DEFINE v == SubSeq(u, Len(a) + Len(b) + 1, Len(u))
  <2>1. \A i \in Len(a) + Len(b) + 1 .. Len(u) : u[i] \in Char
    BY <1>6
  <2>2. /\ v \in Seq(Char)
        /\ Len(v) = Len(c)
        /\ \A i \in 1 .. Len(c) : v[i] = u[Len(a) + Len(b) + i]
    BY <1>6, <2>1
  <2> HIDE DEF v
  <2>3. v = c
    BY <1>9, <2>2, SeqEqual
  <2> QED
    BY <2>3 DEF v
<1> QED
  BY <1>10, <1>11, <1>12 DEF u

LEMMA MiddlePart ==
  ASSUME NEW a \in Seq(Char), NEW b \in Seq(Char), NEW c \in Seq(Char),
         NEW s, s = a \o (b \o c)
  PROVE  SubSeq(s, Len(a) + 1, Len(a) + Len(b)) = b
BY Part

LEMMA LastPart ==
  ASSUME NEW a \in Seq(Char), NEW b \in Seq(Char), NEW c \in Seq(Char),
         NEW s, s = a \o (b \o c)
  PROVE  SubSeq(s, Len(a) + Len(b) + 1, Len(s)) = c
BY Part

\* What follows a prefix.
LEMMA Suffix ==
  ASSUME NEW a \in Seq(Char), NEW b \in Seq(Char)
  PROVE  SubSeq(a \o b, Len(a) + 1, Len(a \o b)) = b
<1>1. b \o <<>> = b /\ <<>> \in Seq(Char) /\ <<>> \o b = b
  BY ConcatEmptySeq
<1>2. SubSeq(a \o (<<>> \o b), Len(a) + Len(<<>>) + 1, Len(a \o (<<>> \o b))) = b
  BY <1>1, Part
<1>3. Len(a) + Len(<<>>) + 1 = Len(a) + 1
  OBVIOUS
<1> QED
  BY <1>1, <1>2, <1>3

-----------------------------------------------------------------------------
(* Pieces joined one behind the other                                      *)

\* F[i] is the first i of the n pieces.
Joins(F, P, n) ==
  /\ F \in [0 .. n -> Seq(Char)]
  /\ F[0] = <<>>
  /\ \A i \in 1 .. n : F[i] = F[i - 1] \o P[i]

LEMMA Joined ==
  ASSUME NEW n \in Nat, NEW P \in [1 .. n -> Seq(Char)]
  PROVE  \E F : Joins(F, P, n)
<1> DEFINE S == {k \in 0 .. n : \E F : Joins(F, P, k)}
<1>1. 0 \in S
  <2> DEFINE F == [i \in 0 .. 0 |-> <<>>]
  <2>1. Joins(F, P, 0)
    BY DEF Joins
  <2> QED
    BY <2>1
<1>2. ASSUME NEW k \in 0 + 1 .. n, k - 1 \in S PROVE k \in S
  <2>1. PICK F : Joins(F, P, k - 1)
    BY <1>2
  <2> DEFINE G == [i \in 0 .. k |-> IF i = k THEN F[k - 1] \o P[k] ELSE F[i]]
  <2>2. /\ k \in 1 .. n /\ k - 1 \in 0 .. k - 1 /\ P[k] \in Seq(Char)
        /\ F \in [0 .. k - 1 -> Seq(Char)] /\ F[k - 1] \in Seq(Char)
    BY <1>2, <2>1 DEF Joins
  <2>3. F[k - 1] \o P[k] \in Seq(Char)
    BY <2>2, ConcatProperties
  <2>4. G \in [0 .. k -> Seq(Char)]
    BY <2>2, <2>3
  <2>5. G[0] = <<>>
    BY <2>1, <2>2 DEF Joins
  <2>6. ASSUME NEW i \in 1 .. k PROVE G[i] = G[i - 1] \o P[i]
    <3>1. CASE i = k
      <4>1. i - 1 \in 0 .. k /\ i - 1 # k /\ i \in 0 .. k
        BY <2>2, <3>1
      <4> QED
        BY <3>1, <4>1
    <3>2. CASE i # k
      <4>1. i \in 1 .. k - 1 /\ i - 1 \in 0 .. k - 1 /\ i - 1 # k /\ i \in 0 .. k /\ i - 1 \in 0 .. k
        BY <2>2, <3>2
      <4>2. G[i] = F[i] /\ G[i - 1] = F[i - 1]
        BY <3>2, <4>1
      <4> QED
        BY <2>1, <4>1, <4>2 DEF Joins
    <3> QED
      BY <3>1, <3>2
  <2> HIDE DEF G
  <2>7. Joins(G, P, k)
    BY <2>4, <2>5, <2>6 DEF Joins
  <2> QED
    BY <1>2, <2>7
<1> HIDE DEF S
<1>3. 0 .. n \subseteq S
  BY <1>1, <1>2, Induct
<1>4. n \in S
  BY <1>3
<1> QED
  BY <1>4 DEF S

Flat(P) ==
  LET flatten[i \in 1 .. Len(P)] ==
        IF i = 1 THEN P[i] ELSE flatten[i - 1] \o P[i]
  IN flatten

\* FlattenSeq joins all of them.
LEMMA FlattenJoins ==
  ASSUME NEW n \in Nat \ {0}, NEW P \in [1 .. n -> Seq(Char)], NEW F, Joins(F, P, n)
  PROVE  FlattenSeq(P) = F[n]
<1>1. Len(P) = n /\ n # 0
  OBVIOUS
<1> DEFINE f == [i \in 1 .. n |-> F[i]]
<1>2. f = [i \in 1 .. Len(P) |-> IF i = 1 THEN P[i] ELSE f[i - 1] \o P[i]]
  <2>1. ASSUME NEW i \in 1 .. n PROVE f[i] = IF i = 1 THEN P[i] ELSE f[i - 1] \o P[i]
    <3>1. F[i] = F[i - 1] \o P[i] /\ F[0] = <<>> /\ P[i] \in Seq(Char)
      BY DEF Joins
    <3>2. CASE i = 1
      <4>0. i - 1 = 0
        BY <3>2
      <4>1. F[1] = <<>> \o P[1]
        BY <3>1, <3>2, <4>0
      <4>2. <<>> \o P[1] = P[1]
        BY <3>1, <3>2, ConcatEmptySeq
      <4> QED
        BY <3>2, <4>1, <4>2
    <3>3. CASE i # 1
      <4>1. i - 1 \in 1 .. n
        BY <3>3
      <4>2. f[i - 1] = F[i - 1] /\ f[i] = F[i]
        BY <4>1
      <4> QED
        BY <3>1, <3>3, <4>2
    <3> QED
      BY <3>2, <3>3
  <2> QED
    BY <1>1, <2>1
<1> HIDE DEF f
<1>3. Flat(P) = [i \in 1 .. Len(P) |-> IF i = 1 THEN P[i] ELSE Flat(P)[i - 1] \o P[i]]
  BY <1>2 DEF Flat
<1>4. f[1] = Flat(P)[1]
  <2>1. 1 \in 1 .. Len(P)
    BY <1>1
  <2>2. f[1] = P[1]
    BY <1>2, <2>1
  <2>3. Flat(P)[1] = P[1]
    BY <1>3, <2>1
  <2> QED
    BY <2>2, <2>3
<1>5. ASSUME NEW i \in 2 .. n
      PROVE  f[i] = f[i - 1] \o P[i] /\ Flat(P)[i] = Flat(P)[i - 1] \o P[i]
  <2>1. i \in 1 .. Len(P) /\ i # 1
    BY <1>1
  <2> QED
    BY <1>2, <1>3, <2>1
<1>6. \A i \in 1 .. n : f[i] = Flat(P)[i]
  <2> DEFINE S == {i \in Nat : f[i] = Flat(P)[i]}
  <2>1. 1 \in S /\ n \in Nat
    BY <1>4
  <2>2. ASSUME NEW i \in 1 + 1 .. n, i - 1 \in S PROVE i \in S
    <3>1. i \in 2 .. n /\ i \in Nat
      OBVIOUS
    <3> QED
      BY <1>5, <2>2, <3>1
  <2> HIDE DEF S
  <2>3. 1 .. n \subseteq S
    BY <2>1, <2>2, Induct
  <2> QED
    BY <2>3 DEF S
<1>7. FlattenSeq(P) = Flat(P)[n]
  BY <1>1 DEF FlattenSeq, Flat
<1> QED
  BY <1>1, <1>6, <1>7 DEF f

\* What the pieces m + 1 .. k are joined to.
Section(F, m, k) == SubSeq(F[k], Len(F[m]) + 1, Len(F[k]))

LEMMA Sections ==
  ASSUME NEW n \in Nat, NEW P \in [1 .. n -> Seq(Char)], NEW F, Joins(F, P, n),
         NEW m \in 0 .. n
  PROVE  /\ \A k \in m .. n : Section(F, m, k) \in Seq(Char) /\ F[k] = F[m] \o Section(F, m, k)
         /\ Section(F, m, m) = <<>>
         /\ \A k \in m + 1 .. n : Section(F, m, k) = Section(F, m, k - 1) \o P[k]
<1> DEFINE S == {k \in m .. n :
                  /\ Section(F, m, k) \in Seq(Char)
                  /\ F[k] = F[m] \o Section(F, m, k)}
<1>1. \A k \in m .. n : F[k] \in Seq(Char)
  BY DEF Joins
<1>2. F[m] \in Seq(Char) /\ <<>> \in Seq(Char) /\ F[m] \o <<>> = F[m]
  BY <1>1, ConcatEmptySeq
<1>3. Section(F, m, m) = <<>>
  <2>1. SubSeq(F[m] \o <<>>, Len(F[m]) + 1, Len(F[m] \o <<>>)) = <<>>
    BY <1>2, Suffix
  <2> QED
    BY <1>2, <2>1 DEF Section
<1>4. m \in S
  BY <1>2, <1>3
<1>5. ASSUME NEW k \in m + 1 .. n, k - 1 \in S
      PROVE  k \in S /\ Section(F, m, k) = Section(F, m, k - 1) \o P[k]
  <2> DEFINE X == Section(F, m, k - 1)
  <2>1. X \in Seq(Char) /\ F[k - 1] = F[m] \o X
    BY <1>5
  <2> HIDE DEF X
  <2>0. k \in 1 .. n /\ k \in m .. n
    OBVIOUS
  <2>2. P[k] \in Seq(Char) /\ F[k] = F[k - 1] \o P[k] /\ k \in m .. n
    BY <2>0 DEF Joins
  <2>3. X \o P[k] \in Seq(Char)
    BY <2>1, <2>2, ConcatProperties
  <2>4. F[k] = F[m] \o (X \o P[k])
    <3>1. F[k] = (F[m] \o X) \o P[k]
      BY <2>1, <2>2
    <3> DEFINE A == F[m]
               Y == P[k]
    <3>2. A \in Seq(Char) /\ Y \in Seq(Char)
      BY <1>2, <2>2
    <3> HIDE DEF A, Y
    <3>3. (A \o X) \o Y = A \o (X \o Y)
      BY <2>1, <3>2, ConcatAssociative
    <3> QED
      BY <3>1, <3>3 DEF A, Y
  <2>5. Section(F, m, k) = X \o P[k]
    BY <1>2, <2>3, <2>4, Suffix DEF Section
  <2> QED
    BY <2>2, <2>3, <2>4, <2>5 DEF X
<1> HIDE DEF S
<1>6. m .. n \subseteq S
  <2>1. \A k \in m + 1 .. n : k - 1 \in S => k \in S
    BY <1>5
  <2>2. m \in Nat
    OBVIOUS
  <2> QED
    BY <1>4, <2>1, <2>2, Induct
<1>7. ASSUME NEW k \in m + 1 .. n PROVE Section(F, m, k) = Section(F, m, k - 1) \o P[k]
  <2>1. k - 1 \in m .. n
    OBVIOUS
  <2> QED
    BY <1>5, <1>6, <2>1
<1>8. \A k \in m .. n : Section(F, m, k) \in Seq(Char) /\ F[k] = F[m] \o Section(F, m, k)
  BY <1>6 DEF S
<1> QED
  BY <1>3, <1>7, <1>8

LEMMA SectionSplit ==
  ASSUME NEW n \in Nat, NEW P \in [1 .. n -> Seq(Char)], NEW F, Joins(F, P, n),
         NEW l \in 0 .. n, NEW m \in l .. n, NEW k \in m .. n
  PROVE  Section(F, l, k) = Section(F, l, m) \o Section(F, m, k)
<1> DEFINE A == F[l]
           X == Section(F, l, m)
           Y == Section(F, m, k)
<1>1. m \in 0 .. n /\ k \in l .. n /\ A \in Seq(Char)
  BY DEF Joins
<1>2. X \in Seq(Char) /\ Y \in Seq(Char) /\ F[m] = A \o X /\ F[k] = F[m] \o Y
  BY <1>1, Sections
<1> HIDE DEF A, X, Y
<1>3. F[k] = A \o (X \o Y) /\ X \o Y \in Seq(Char)
  BY <1>1, <1>2, ConcatAssociative, ConcatProperties
<1>4. Section(F, l, k) = X \o Y
  BY <1>1, <1>3, Suffix DEF Section, A
<1> QED
  BY <1>4 DEF X, Y

Texts(n) == [1 .. n -> Seq(Char)]

Agree(P, Q, m, k) == \A i \in m + 1 .. k : P[i] = Q[i]

\* Equal pieces make equal sections.
LEMMA SectionSame ==
  ASSUME NEW n \in Nat, NEW P \in Texts(n), NEW F, Joins(F, P, n),
         NEW Q \in Texts(n), NEW G, Joins(G, Q, n),
         NEW m \in 0 .. n, NEW k \in m .. n, Agree(P, Q, m, k)
  PROVE  Section(F, m, k) = Section(G, m, k)
<1> DEFINE S == {i \in m .. k : Section(F, m, i) = Section(G, m, i)}
<1>1. m \in S
  <2>1. Section(F, m, m) = <<>>
    BY Sections DEF Texts
  <2>2. Section(G, m, m) = <<>>
    BY Sections DEF Texts
  <2> QED
    BY <2>1, <2>2
<1>2. ASSUME NEW i \in m + 1 .. k, i - 1 \in S PROVE i \in S
  <2>1. i \in m + 1 .. n /\ i \in m .. k /\ P[i] = Q[i]
    BY DEF Agree
  <2>2. Section(F, m, i) = Section(F, m, i - 1) \o P[i]
    BY <2>1, Sections DEF Texts
  <2>3. Section(G, m, i) = Section(G, m, i - 1) \o Q[i]
    BY <2>1, Sections DEF Texts
  <2> QED
    BY <1>2, <2>1, <2>2, <2>3
<1> HIDE DEF S
<1>3. k \in m .. k /\ k \in Nat /\ m \in Nat
  OBVIOUS
<1>4. m .. k \subseteq S
  BY <1>1, <1>2, <1>3, Induct
<1> QED
  BY <1>3, <1>4 DEF S

LEMMA SectionBehind ==
  ASSUME NEW n \in Nat, NEW P \in Texts(n), NEW F, Joins(F, P, n),
         NEW m \in 0 .. n, NEW k \in m .. n
  PROVE  F[k] = F[m] \o Section(F, m, k)
BY Sections DEF Texts

\* Empty pieces make an empty section.
LEMMA SectionEmpty ==
  ASSUME NEW n \in Nat, NEW P \in [1 .. n -> Seq(Char)], NEW F, Joins(F, P, n),
         NEW m \in 0 .. n, NEW k \in m .. n, \A i \in m + 1 .. k : P[i] = <<>>
  PROVE  F[k] = F[m]
<1> DEFINE S == {i \in m .. k : F[i] = F[m]}
<1>1. m \in S
  OBVIOUS
<1>2. ASSUME NEW i \in m + 1 .. k, i - 1 \in S PROVE i \in S
  <2>0. i \in 1 .. n
    OBVIOUS
  <2>1. F[m] \in Seq(Char) /\ F[i] = F[i - 1] \o P[i]
    BY <2>0 DEF Joins
  <2>2. F[i] = F[m] \o <<>>
    BY <1>2, <2>1
  <2> QED
    BY <2>0, <2>1, <2>2, ConcatEmptySeq
<1> HIDE DEF S
<1>3. k \in m .. k /\ k \in Nat /\ m \in Nat
  OBVIOUS
<1>4. m .. k \subseteq S
  BY <1>1, <1>2, <1>3, Induct
<1> QED
  BY <1>3, <1>4 DEF S

Free(s, C) == \A i \in 1 .. Len(s) : s[i] \notin C

LEMMA FreeJoined ==
  ASSUME NEW a \in Seq(Char), NEW b \in Seq(Char), NEW C, Free(a, C), Free(b, C)
  PROVE  Free(a \o b, C)
<1> SUFFICES ASSUME NEW i \in 1 .. Len(a \o b) PROVE (a \o b)[i] \notin C
  BY DEF Free
<1>1. CASE i =< Len(a)
  BY <1>1 DEF Free
<1>2. CASE i > Len(a)
  <2>1. (a \o b)[i] = b[i - Len(a)] /\ i - Len(a) \in 1 .. Len(b)
    BY <1>2
  <2> QED
    BY <2>1 DEF Free
<1> QED
  BY <1>1, <1>2

\* Pieces without any of the characters C make a section without any of them.
LEMMA SectionFree ==
  ASSUME NEW n \in Nat, NEW P \in [1 .. n -> Seq(Char)], NEW F, Joins(F, P, n),
         NEW m \in 0 .. n, NEW k \in m .. n, NEW C, \A i \in m + 1 .. k : Free(P[i], C)
  PROVE  Free(Section(F, m, k), C)
<1> DEFINE S == {i \in m .. k : Free(Section(F, m, i), C)}
<1>1. m \in S
  <2>1. Section(F, m, m) = <<>>
    BY Sections
  <2> QED
    BY <2>1 DEF Free
<1>2. ASSUME NEW i \in m + 1 .. k, i - 1 \in S PROVE i \in S
  <2>1. i \in m + 1 .. n /\ i \in m .. k /\ i - 1 \in m .. n /\ i \in 1 .. n
    OBVIOUS
  <2>2. Section(F, m, i) = Section(F, m, i - 1) \o P[i] /\ Section(F, m, i - 1) \in Seq(Char)
    BY <2>1, Sections
  <2>3. Free(Section(F, m, i - 1), C) /\ P[i] \in Seq(Char) /\ Free(P[i], C)
    BY <1>2, <2>1
  <2>4. Free(Section(F, m, i), C)
    BY <2>2, <2>3, FreeJoined
  <2> QED
    BY <2>1, <2>4
<1> HIDE DEF S
<1>3. k \in m .. k /\ k \in Nat /\ m \in Nat
  OBVIOUS
<1>4. m .. k \subseteq S
  BY <1>1, <1>2, <1>3, Induct
<1> QED
  BY <1>3, <1>4 DEF S

-----------------------------------------------------------------------------
(* The quotations and the names of a word                                  *)

LEMMA Distinct ==
  /\ Dollar \notin {SQuote, DQuote, Tilde, Blank}
  /\ SQuote \notin {DQuote, Tilde, Blank}
  /\ DQuote \notin {Tilde, Blank}
  /\ Tilde # Blank
<1> DEFINE s1 == {} \cup {Dollar}
           s2 == s1 \cup {SQuote}
           s3 == s2 \cup {DQuote}
           s4 == s3 \cup {Tilde}
           s5 == s4 \cup {Blank}
<1>1. s5 = {Dollar, SQuote, DQuote, Tilde, Blank}
  OBVIOUS
<1>2. IsFiniteSet({}) /\ Cardinality({}) = 0
  BY FS_EmptySet
<1>3. IsFiniteSet(s1) /\ Cardinality(s1) = 1
  BY <1>2, FS_AddElement
<1>4. IsFiniteSet(s2) /\ Cardinality(s2) = IF SQuote \in s1 THEN 1 ELSE 2
  BY <1>3, FS_AddElement
<1>5. IsFiniteSet(s3) /\ Cardinality(s3) = Cardinality(s2) + IF DQuote \in s2 THEN 0 ELSE 1
  <2>1. Cardinality(s2) \in Nat
    BY <1>4
  <2> QED
    BY <1>4, <2>1, FS_AddElement
<1>6. IsFiniteSet(s4) /\ Cardinality(s4) = Cardinality(s3) + IF Tilde \in s3 THEN 0 ELSE 1
  <2>1. Cardinality(s3) \in Nat
    BY <1>4, <1>5
  <2> QED
    BY <1>5, <2>1, FS_AddElement
<1>7. Cardinality(s5) = Cardinality(s4) + IF Blank \in s4 THEN 0 ELSE 1
  <2>1. Cardinality(s4) \in Nat
    BY <1>4, <1>5, <1>6
  <2> QED
    BY <1>6, <2>1, FS_AddElement
<1>8. Cardinality(s5) = 5
  BY <1>1, WordAssumption
<1>9. SQuote \notin s1 /\ DQuote \notin s2 /\ Tilde \notin s3 /\ Blank \notin s4
  <2> HIDE DEF s1, s2, s3, s4, s5
  <2> QED
    BY <1>4, <1>5, <1>6, <1>7, <1>8
<1> QED
  BY <1>9

Moded(M, s, n) ==
  M = [i \in 0 .. n |-> IF i = 0 THEN "plain" ELSE Mode(M[i - 1], s[i])]

LEMMA ModesExist ==
  ASSUME NEW s \in Seq(Char)
  PROVE  \E M : Moded(M, s, Len(s))
<1> DEFINE n == Len(s)
           S == {k \in 0 .. n : \E M : Moded(M, s, k)}
<1>0. n \in Nat
  OBVIOUS
<1> HIDE DEF n
<1>1. 0 \in S
  <2> DEFINE M == [i \in 0 .. 0 |-> "plain"]
  <2>1. M = [i \in 0 .. 0 |-> IF i = 0 THEN "plain" ELSE Mode(M[i - 1], s[i])]
    OBVIOUS
  <2>2. Moded(M, s, 0)
    BY <2>1 DEF Moded
  <2> QED
    BY <1>0, <2>2
<1>2. ASSUME NEW k \in 0 + 1 .. n, k - 1 \in S PROVE k \in S
  <2>1. PICK M : Moded(M, s, k - 1)
    BY <1>2
  <2> DEFINE N == [i \in 0 .. k |-> IF i = k THEN Mode(M[k - 1], s[k]) ELSE M[i]]
  <2>2. k \in 1 .. n /\ k \in 0 .. n
    BY <1>0
  <2>3. ASSUME NEW i \in 0 .. k
        PROVE  N[i] = IF i = 0 THEN "plain" ELSE Mode(N[i - 1], s[i])
    <3>1. CASE i = k
      <4>1. i - 1 \in 0 .. k /\ i - 1 # k /\ i # 0
        BY <2>2, <3>1
      <4>2. N[i - 1] = M[k - 1]
        BY <3>1, <4>1
      <4> QED
        BY <3>1, <4>1, <4>2
    <3>2. CASE i # k
      <4>1. i \in 0 .. k - 1
        BY <3>2
      <4>2. M[i] = IF i = 0 THEN "plain" ELSE Mode(M[i - 1], s[i])
        BY <2>1, <4>1 DEF Moded
      <4>3. N[i] = M[i]
        BY <3>2
      <4>4. CASE i # 0
        <5>1. i - 1 \in 0 .. k /\ i - 1 # k
          BY <4>1, <4>4
        <5>2. N[i - 1] = M[i - 1]
          BY <5>1
        <5> QED
          BY <4>2, <4>3, <4>4, <5>2
      <4> QED
        BY <4>2, <4>3, <4>4
    <3> QED
      BY <3>1, <3>2
  <2>4. N = [i \in 0 .. k |-> IF i = 0 THEN "plain" ELSE Mode(N[i - 1], s[i])]
    BY <2>3
  <2> HIDE DEF N
  <2>5. Moded(N, s, k)
    BY <2>4 DEF Moded
  <2> QED
    BY <2>2, <2>5
<1> HIDE DEF S
<1>3. 0 .. n \subseteq S
  BY <1>0, <1>1, <1>2, Induct
<1>4. n \in S
  BY <1>0, <1>3
<1> QED
  BY <1>4 DEF S, n

Quotation == {"plain", "single", "double"}

LEMMA ModesAre ==
  ASSUME NEW s \in Seq(Char)
  PROVE  /\ Modes(s)[0] = "plain"
         /\ \A i \in 1 .. Len(s) : Modes(s)[i] = Mode(Modes(s)[i - 1], s[i])
         /\ \A i \in 0 .. Len(s) : Modes(s)[i] \in Quotation
<1>1. PICK M : M = [i \in 0 .. Len(s) |-> IF i = 0 THEN "plain" ELSE Mode(M[i - 1], s[i])]
  BY ModesExist DEF Moded
<1>2. Modes(s) = [i \in 0 .. Len(s) |->
                    IF i = 0 THEN "plain" ELSE Mode(Modes(s)[i - 1], s[i])]
  BY <1>1 DEF Modes
<1> DEFINE m == Modes(s)
           n == Len(s)
<1>3. n \in Nat /\ m = [i \in 0 .. n |-> IF i = 0 THEN "plain" ELSE Mode(m[i - 1], s[i])]
  BY <1>2
<1> HIDE DEF m, n
<1>4. m[0] = "plain"
  BY <1>3
<1>5. \A i \in 1 .. n : m[i] = Mode(m[i - 1], s[i])
  BY <1>3
<1> DEFINE S == {i \in Nat : m[i] \in Quotation}
<1>6. 0 \in S
  BY <1>4 DEF Quotation
<1>7. ASSUME NEW i \in 0 + 1 .. n, i - 1 \in S PROVE i \in S
  <2>1. i \in 1 .. n /\ i \in Nat
    BY <1>3
  <2>2. m[i] = Mode(m[i - 1], s[i]) /\ m[i - 1] \in Quotation
    BY <1>5, <1>7, <2>1
  <2>3. m[i] \in Quotation
    BY <2>2 DEF Mode, Quotation
  <2> QED
    BY <2>1, <2>3
<1> HIDE DEF S
<1>8. 0 .. n \subseteq S
  BY <1>3, <1>6, <1>7, Induct
<1>9. \A i \in 0 .. n : m[i] \in Quotation
  BY <1>8 DEF S
<1> QED
  BY <1>4, <1>5, <1>9 DEF m, n

\* The quotation stays what it is over characters that change nothing.
LEMMA ModeStays ==
  ASSUME NEW s \in Seq(Char), NEW m \in 0 .. Len(s), NEW n \in m .. Len(s),
         \A i \in m + 1 .. n : Mode(Modes(s)[m], s[i]) = Modes(s)[m]
  PROVE  \A i \in m .. n : Modes(s)[i] = Modes(s)[m]
<1> DEFINE S == {i \in Nat : Modes(s)[i] = Modes(s)[m]}
<1>1. m \in S /\ m \in Nat /\ n \in Nat
  OBVIOUS
<1>2. ASSUME NEW i \in m + 1 .. n, i - 1 \in S PROVE i \in S
  <2>1. i \in 1 .. Len(s) /\ i \in Nat
    OBVIOUS
  <2>2. Modes(s)[i] = Mode(Modes(s)[i - 1], s[i])
    BY <2>1, ModesAre
  <2> QED
    BY <1>2, <2>1, <2>2
<1> HIDE DEF S
<1>3. m .. n \subseteq S
  BY <1>1, <1>2, Induct
<1> QED
  BY <1>3 DEF S

LEMMA BehindIs ==
  ASSUME NEW s \in Seq(Char), NEW i \in 1 .. Len(s)
  PROVE  /\ Behind(s, i) \in i + 1 .. Len(s) + 1
         /\ Behind(s, i) = Len(s) + 1 \/ s[Behind(s, i)] \in EndsName
         /\ \A n \in i + 1 .. Behind(s, i) - 1 : s[n] \notin EndsName
<1> DEFINE S == {n \in i + 1 .. Len(s) + 1 : n = Len(s) + 1 \/ s[n] \in EndsName}
           l == Min(S)
<1>1. S \subseteq Nat /\ Len(s) + 1 \in S
  OBVIOUS
<1>2. l \in S /\ \A y \in S : l =< y
  BY <1>1, LeastOf
<1>3. l = Behind(s, i)
  BY DEF Behind
<1> HIDE DEF l
<1>4. ASSUME NEW n \in i + 1 .. l - 1 PROVE s[n] \notin EndsName
  <2>1. n \in i + 1 .. Len(s) + 1 /\ ~(l =< n)
    BY <1>2
  <2>2. n \notin S
    BY <1>2, <2>1
  <2> QED
    BY <2>1, <2>2
<1> QED
  BY <1>2, <1>3, <1>4

LEMMA NameIs ==
  ASSUME NEW s \in Seq(Char), NEW i \in 1 .. Len(s), InName(s, i)
  PROVE  s[i] \notin EndsName /\ i # 1
<1>1. PICK n \in 1 .. i - 1 : i < Behind(s, n)
  BY DEF InName
<1>2. n \in 1 .. Len(s) /\ i \in n + 1 .. Behind(s, n) - 1
  <2>1. n \in 1 .. Len(s)
    OBVIOUS
  <2> QED
    BY <1>1, <2>1, BehindIs
<1>3. s[i] \notin EndsName
  BY <1>2, BehindIs
<1> QED
  BY <1>2, <1>3

LEMMA NameEndIs ==
  ASSUME word \in Seq(Char), NEW n \in 0 .. Len(word)
  PROVE  /\ NameEnd(n) \in n .. Len(word)
         /\ NameEnd(n) = Len(word) \/ word[NameEnd(n) + 1] \in EndsName
         /\ \A i \in n .. NameEnd(n) - 1 : word[i + 1] \notin EndsName
<1> DEFINE S == {i \in n .. Len(word) : i = Len(word) \/ word[i + 1] \in EndsName}
           l == Min(S)
<1>1. S \subseteq Nat /\ Len(word) \in S
  OBVIOUS
<1>2. l \in S /\ \A y \in S : l =< y
  BY <1>1, LeastOf
<1>3. l = NameEnd(n)
  BY DEF NameEnd
<1> HIDE DEF l
<1>4. ASSUME NEW i \in n .. l - 1 PROVE word[i + 1] \notin EndsName
  <2>1. i \in n .. Len(word) /\ ~(l =< i)
    BY <1>2
  <2>2. i \notin S
    BY <1>2, <2>1
  <2> QED
    BY <2>1, <2>2
<1> QED
  BY <1>2, <1>3, <1>4

-----------------------------------------------------------------------------
(* Types                                                                   *)

LEMMA GivenIs ==
  ASSUME given \in Word
  PROVE  /\ given \in Seq(Char) /\ Len(given) \in Nat \ {0}
         /\ DOMAIN given = 1 .. Len(given)
         /\ Modes(given)[Len(given)] = "plain"
<1>1. PICK n \in 0 .. MaxLen : given \in [1 .. n -> Char]
  BY WordAssumption DEF Word, BoundedSeq, SeqOf
<1>2. n \in Nat
  BY WordAssumption
<1>3. given \in Seq(Char) /\ DOMAIN given = 1 .. Len(given)
  BY <1>1, <1>2
<1>4. given # <<>> /\ Modes(given)[Len(given)] = "plain"
  BY DEF Word
<1>5. Len(given) # 0
  BY <1>3, <1>4
<1> QED
  BY <1>3, <1>4, <1>5

LEMMA ValueIs ==
  ASSUME env \in Environments, NEW n
  PROVE  GetEnv(n) \in Seq(Char)
<1>1. CASE n \in DOMAIN env
  <2>1. env[n] \in Range(env)
    BY <1>1 DEF Range
  <2> QED
    BY <1>1, <2>1, WordAssumption DEF GetEnv
<1>2. CASE n \notin DOMAIN env
  BY <1>2 DEF GetEnv
<1> QED
  BY <1>1, <1>2

LEMMA PartsAre ==
  ASSUME word \in Seq(Char), NEW n \in 0 .. Len(word)
  PROVE  /\ Before(n) \in Seq(Char) /\ Len(Before(n)) = n
         /\ From(n) \in Seq(Char) /\ Len(From(n)) = Len(word) - n
<1>1. \A i \in 1 .. n : word[i] \in Char
  OBVIOUS
<1>2. \A i \in n + 1 .. Len(word) : word[i] \in Char
  OBVIOUS
<1>3. SubSeq(word, 1, n) \in Seq(Char) /\ Len(SubSeq(word, 1, n)) = n
  BY <1>1
<1>4. /\ SubSeq(word, n + 1, Len(word)) \in Seq(Char)
      /\ Len(SubSeq(word, n + 1, Len(word))) = Len(word) - n
  BY <1>2
<1> QED
  BY <1>3, <1>4 DEF Before, From

LEMMA QuotesAre ==
  ASSUME word \in Seq(Char), j \in 0 .. Len(word)
  PROVE  /\ Opening \in j .. Len(word)
         /\ Opening = Len(word) \/ word[Opening + 1] \in Quotes
         /\ Closing \in Opening + 1 .. Len(word) + 1
<1> DEFINE S == {i \in j .. Len(word) : i = Len(word) \/ word[i + 1] \in Quotes}
<1>1. S \subseteq Nat /\ Len(word) \in S
  OBVIOUS
<1>2. Min(S) \in S
  BY <1>1, LeastOf
<1>3. /\ Opening \in j .. Len(word)
      /\ Opening = Len(word) \/ word[Opening + 1] \in Quotes
  BY <1>2 DEF Opening
<1> DEFINE o == Opening
<1> HIDE DEF o
<1> DEFINE T == {i \in o + 1 .. Len(word) + 1 : i >= Len(word) \/ word[i + 1] = word[o + 1]}
<1>4. o \in 0 .. Len(word)
  BY <1>3 DEF o
<1>5. T \subseteq Nat /\ Len(word) + 1 \in T
  BY <1>4
<1>6. Min(T) \in T
  BY <1>5, LeastOf
<1>7. Closing \in o + 1 .. Len(word) + 1
  BY <1>6 DEF Closing, o
<1> QED
  BY <1>3, <1>7 DEF o

\* TypeOK without the two modes.
Typed ==
  /\ given \in Word /\ env \in Environments
  /\ word \in Seq(Char) /\ expanded \in Seq(Char)
  /\ phase \in {"tilde", "env", "quotes", "done"}
  /\ j \in 0 .. Len(word)
  /\ phase = "tilde" => word = given /\ j = 0

LEMMA ModesTyped ==
  ASSUME squotemode \in BOOLEAN, dquotemode \in BOOLEAN, [Next]_vars
  PROVE  squotemode' \in BOOLEAN /\ dquotemode' \in BOOLEAN
<1>1. CASE TildeExpansion
  BY <1>1, Zenon DEF TildeExpansion
<1>2. CASE DoubleQuote
  BY <1>2, Zenon DEF DoubleQuote
<1>3. CASE SingleQuote
  BY <1>3, Zenon DEF SingleQuote
<1>4. CASE OtherCharacter
  BY <1>4, Zenon DEF OtherCharacter
<1>5. CASE Replace
  BY <1>5, Zenon DEF Replace
<1>6. CASE EnvExpanded
  BY <1>6, Zenon DEF EnvExpanded
<1>7. CASE RemoveQuotes
  BY <1>7, Zenon DEF RemoveQuotes
<1>8. CASE QuotesRemoved
  BY <1>8, Zenon DEF QuotesRemoved
<1>9. CASE UNCHANGED vars
  BY <1>9, Zenon DEF vars
<1>10. CASE Done
  BY <1>10, Zenon DEF Done, vars
<1> QED
  BY <1>1, <1>2, <1>3, <1>4, <1>5, <1>6, <1>7, <1>8, <1>9, <1>10, Zenon DEF Next, Pass

LEMMA Lengths ==
  ASSUME NEW a \in Seq(Char), NEW b \in Seq(Char), NEW c \in Seq(Char)
  PROVE  a \o b \o c \in Seq(Char) /\ Len(a \o b \o c) = Len(a) + Len(b) + Len(c)
<1> DEFINE s == a \o b
<1>1. s \in Seq(Char) /\ Len(s) = Len(a) + Len(b)
  BY ConcatProperties
<1> HIDE DEF s
<1>2. s \o c \in Seq(Char) /\ Len(s \o c) = Len(s) + Len(c)
  BY <1>1, ConcatProperties
<1> QED
  BY <1>1, <1>2 DEF s

LEMMA TypedStep ==
  ASSUME Typed, [Next]_vars
  PROVE  Typed'
<1>1. /\ word \in Seq(Char) /\ Len(word) \in Nat /\ j \in 0 .. Len(word)
      /\ given \in Word /\ env \in Environments
  BY DEF Typed
<1>2. CASE TildeExpansion
  <2>0. /\ phase' = "env" /\ UNCHANGED <<given, env, j, expanded>>
        /\ word' = IF word[1] = Tilde THEN GetEnv(HOME) \o From(1) ELSE word
    BY <1>2 DEF TildeExpansion
  <2>1. word' \in Seq(Char) /\ j = 0
    <3>0. word = given /\ j = 0 /\ Len(given) \in Nat \ {0}
      BY <1>2, GivenIs DEF Typed, TildeExpansion
    <3>1. CASE word[1] = Tilde
      <4>1. 1 \in 0 .. Len(word)
        BY <3>0
      <4>2. GetEnv(HOME) \in Seq(Char) /\ From(1) \in Seq(Char)
        BY <1>1, <4>1, ValueIs, PartsAre
      <4>3. GetEnv(HOME) \o From(1) \in Seq(Char)
        BY <4>2, ConcatProperties
      <4> QED
        BY <2>0, <3>0, <3>1, <4>3
    <3>2. CASE word[1] # Tilde
      BY <1>1, <2>0, <3>0, <3>2
    <3> QED
      BY <3>1, <3>2
  <2>2. j' \in 0 .. Len(word')
    BY <2>0, <2>1
  <2> QED
    BY <1>1, <2>0, <2>1, <2>2 DEF Typed
<1>3. CASE DoubleQuote \/ SingleQuote \/ OtherCharacter
  <2>1. /\ j < Len(word) /\ j' = j + 1 /\ UNCHANGED <<given, env, word, phase, expanded>>
    BY <1>3, Zenon DEF DoubleQuote, SingleQuote, OtherCharacter, InEnv, Forward
  <2>2. phase # "tilde"
    BY <1>3 DEF DoubleQuote, SingleQuote, OtherCharacter, InEnv
  <2> QED
    BY <1>1, <2>1, <2>2 DEF Typed
<1>4. CASE Replace
  <2>1. j < Len(word) /\ j + 1 \in 0 .. Len(word)
    BY <1>1, <1>4 DEF Replace, InEnv
  <2> DEFINE end == NameEnd(j + 1)
             value == GetEnv(SubSeq(word, j + 2, end))
  <2>2. end \in j + 1 .. Len(word)
    BY <1>1, <2>1, NameEndIs
  <2>3. value \in Seq(Char)
    BY <1>1, ValueIs
  <2>4. /\ word' = Before(j) \o value \o From(end)
        /\ j' = IF end = Len(word) THEN Len(word') ELSE j + Len(value)
        /\ UNCHANGED <<given, env, phase, expanded>> /\ phase = "env"
    BY <1>4 DEF Replace, BehindValue, InEnv
  <2> HIDE DEF end, value
  <2> DEFINE a == Before(j)
             c == From(end)
  <2>5. /\ a \in Seq(Char) /\ Len(a) = j
        /\ c \in Seq(Char) /\ Len(c) = Len(word) - end
    BY <1>1, <2>2, PartsAre
  <2>6. word' = a \o value \o c
    BY <2>4
  <2> HIDE DEF a, c
  <2>7. /\ word' \in Seq(Char)
        /\ Len(word') = j + Len(value) + (Len(word) - end)
    <3>1. a \o value \o c \in Seq(Char) /\ Len(a \o value \o c) = Len(a) + Len(value) + Len(c)
      BY <2>3, <2>5, Lengths
    <3> QED
      BY <2>5, <2>6, <3>1
  <2>8. Len(value) \in Nat
    BY <2>3
  <2>9. j' \in 0 .. Len(word')
    BY <1>1, <2>2, <2>4, <2>7, <2>8
  <2> QED
    BY <1>1, <2>4, <2>7, <2>9 DEF Typed
<1>5. CASE EnvExpanded \/ QuotesRemoved
  <2>1. /\ phase' \in {"quotes", "done"} /\ expanded' \in {expanded, word}
        /\ j' \in {0, j} /\ UNCHANGED <<given, env, word>>
    BY <1>5 DEF EnvExpanded, QuotesRemoved
  <2> QED
    BY <1>1, <2>1 DEF Typed
<1>6. CASE RemoveQuotes
  <2> DEFINE o == Opening
             c == Closing
  <2>1. o \in j .. Len(word) /\ c \in o + 1 .. Len(word) + 1
    BY <1>1, QuotesAre
  <2>2. /\ c < Len(word) /\ j' = c - 1
        /\ word' = Before(o) \o SubSeq(word, o + 2, c) \o From(c + 1)
        /\ UNCHANGED <<given, env, phase, expanded>> /\ phase = "quotes"
    BY <1>6 DEF RemoveQuotes, NextSearch
  <2> HIDE DEF o, c
  <2> DEFINE a == Before(o)
             m == SubSeq(word, o + 2, c)
             e == From(c + 1)
  <2>3. /\ a \in Seq(Char) /\ Len(a) = o
        /\ e \in Seq(Char) /\ Len(e) = Len(word) - (c + 1)
    BY <1>1, <2>1, <2>2, PartsAre
  <2>4. \A i \in o + 2 .. c : word[i] \in Char
    BY <1>1, <2>1, <2>2
  <2>5. m \in Seq(Char) /\ Len(m) = c - o - 1
    BY <1>1, <2>1, <2>2, <2>4
  <2>6. word' = a \o m \o e
    BY <2>2
  <2> HIDE DEF a, m, e
  <2>7. word' \in Seq(Char) /\ Len(word') = o + (c - o - 1) + (Len(word) - (c + 1))
    <3>1. a \o m \o e \in Seq(Char) /\ Len(a \o m \o e) = Len(a) + Len(m) + Len(e)
      BY <2>3, <2>5, Lengths
    <3> QED
      BY <2>3, <2>5, <2>6, <3>1
  <2>8. j' \in 0 .. Len(word')
    <3>1. o \in Nat /\ c \in Nat /\ o < c
      BY <1>1, <2>1
    <3>2. Len(word') = Len(word) - 2
      BY <1>1, <2>7, <3>1
    <3>3. c - 1 \in 0 .. Len(word) - 2
      BY <1>1, <2>2, <3>1
    <3> QED
      BY <2>2, <3>2, <3>3
  <2> QED
    BY <1>1, <2>2, <2>7, <2>8 DEF Typed
<1>7. CASE UNCHANGED vars \/ Done
  <2>1. UNCHANGED <<given, env, word, phase, j, expanded>>
    BY <1>7, Zenon DEF Done, vars
  <2> QED
    BY <1>1, <2>1 DEF Typed
<1> QED
  BY <1>2, <1>3, <1>4, <1>5, <1>6, <1>7, Zenon DEF Next, Pass

LEMMA TypeInv == Spec => [](Typed /\ TypeOK)
<1> DEFINE I == Typed /\ squotemode \in BOOLEAN /\ dquotemode \in BOOLEAN
<1>1. Init => I
  <2> SUFFICES ASSUME Init PROVE I
    OBVIOUS
  <2>1. squotemode \in BOOLEAN /\ dquotemode \in BOOLEAN
    BY Zenon DEF Init
  <2>2. /\ given \in Word /\ env \in Environments /\ word = given
        /\ phase = "tilde" /\ j = 0 /\ expanded = <<>>
    BY Zenon DEF Init
  <2>3. Typed
    BY <2>2, GivenIs DEF Typed
  <2> QED
    BY <2>1, <2>3, Zenon
<1>2. I /\ [Next]_vars => I'
  <2> SUFFICES ASSUME I, [Next]_vars PROVE I'
    OBVIOUS
  <2>1. squotemode' \in BOOLEAN /\ dquotemode' \in BOOLEAN
    BY ModesTyped, Zenon
  <2>2. Typed'
    BY TypedStep, Zenon
  <2> QED
    BY <2>1, <2>2, Zenon
<1>3. I => Typed /\ TypeOK
  BY Zenon DEF Typed, TypeOK
<1> QED
  BY <1>1, <1>2, <1>3, PTL DEF Spec

\* The word stays a word of characters, and the offsets of both loops stay in it,
\* whatever the values of the variables are.
THEOREM WordsTyped == Spec => []TypeOK
BY TypeInv, PTL

-----------------------------------------------------------------------------
(* What stands for each character                                          *)

Pieces(quotes) == [i \in DOMAIN given |-> Piece(given, i, quotes)]

\* Expansion(quotes)[k] is what the first k characters become.
Expansion(quotes) == CHOOSE F : Joins(F, Pieces(quotes), Len(given))

LEMMA PieceIs ==
  ASSUME given \in Word, NEW i \in 1 .. Len(given), NEW quotes \in BOOLEAN
  PROVE  /\ i = 1 /\ given[i] = Tilde => Piece(given, i, quotes) = GetEnv(HOME)
         /\ Begins(given, i) =>
              Piece(given, i, quotes) = GetEnv(SubSeq(given, i + 1, Behind(given, i) - 1))
         /\ InName(given, i) => Piece(given, i, quotes) = <<>>
         /\ IsQuote(given, i) => Piece(given, i, quotes) = IF quotes THEN <<given[i]>> ELSE <<>>
         /\ \/ i = 1 /\ given[i] = Tilde
            \/ Begins(given, i) \/ InName(given, i) \/ IsQuote(given, i)
            \/ Piece(given, i, quotes) = <<given[i]>>
<1> DEFINE a == i = 1 /\ given[i] = Tilde
           b == Begins(given, i)
           c == InName(given, i)
           d == IsQuote(given, i)
<1>1. given \in Seq(Char)
  BY GivenIs
<1>2. a => ~b /\ ~c /\ ~d
  BY <1>1, NameIs, Distinct DEF Begins, IsQuote, Quotes
<1>3. b => ~c /\ ~d
  BY <1>1, NameIs, Distinct DEF Begins, IsQuote, Quotes, EndsName
<1>4. c => ~d
  BY <1>1, NameIs DEF IsQuote, Quotes, EndsName
<1>5. Piece(given, i, quotes) =
        CASE a -> GetEnv(HOME)
          [] b -> GetEnv(SubSeq(given, i + 1, Behind(given, i) - 1))
          [] c \/ (d /\ ~quotes) -> <<>>
          [] OTHER -> <<given[i]>>
  BY DEF Piece
<1> HIDE DEF a, b, c, d
<1>6. /\ a => Piece(given, i, quotes) = GetEnv(HOME)
      /\ b => Piece(given, i, quotes) = GetEnv(SubSeq(given, i + 1, Behind(given, i) - 1))
      /\ c => Piece(given, i, quotes) = <<>>
      /\ d => Piece(given, i, quotes) = IF quotes THEN <<given[i]>> ELSE <<>>
      /\ a \/ b \/ c \/ d \/ Piece(given, i, quotes) = <<given[i]>>
  <2>1. a => Piece(given, i, quotes) = GetEnv(HOME)
    BY <1>2, <1>5
  <2>2. b => Piece(given, i, quotes) = GetEnv(SubSeq(given, i + 1, Behind(given, i) - 1))
    BY <1>2, <1>3, <1>5
  <2>3. c => Piece(given, i, quotes) = <<>>
    BY <1>2, <1>3, <1>4, <1>5
  <2>4. CASE d /\ quotes
    BY <1>2, <1>3, <1>4, <1>5, <2>4
  <2>5. CASE d /\ ~quotes
    BY <1>2, <1>3, <1>4, <1>5, <2>5
  <2>6. CASE ~a /\ ~b /\ ~c /\ ~d
    BY <1>5, <2>6
  <2> QED
    BY <2>1, <2>2, <2>3, <2>4, <2>5, <2>6
<1> QED
  BY <1>6 DEF a, b, c, d

LEMMA PiecesAre ==
  ASSUME given \in Word, env \in Environments, NEW quotes \in BOOLEAN
  PROVE  /\ Pieces(quotes) \in [1 .. Len(given) -> Seq(Char)]
         /\ Joins(Expansion(quotes), Pieces(quotes), Len(given))
         /\ Reference(given, quotes) = Expansion(quotes)[Len(given)]
<1>1. /\ given \in Seq(Char) /\ Len(given) \in Nat \ {0} /\ Len(given) \in Nat
      /\ DOMAIN given = 1 .. Len(given)
  BY GivenIs
<1>2. ASSUME NEW i \in 1 .. Len(given) PROVE Piece(given, i, quotes) \in Seq(Char)
  <2>1. \A n : GetEnv(n) \in Seq(Char)
    BY ValueIs
  <2>2. <<>> \in Seq(Char) /\ <<given[i]>> \in Seq(Char)
    BY <1>1
  <2>3. CASE i = 1 /\ given[i] = Tilde
    BY <2>1, <2>3, PieceIs
  <2>4. CASE Begins(given, i)
    BY <2>1, <2>4, PieceIs
  <2>5. CASE InName(given, i)
    BY <2>2, <2>5, PieceIs
  <2>6. CASE IsQuote(given, i)
    BY <2>2, <2>6, PieceIs
  <2>7. CASE Piece(given, i, quotes) = <<given[i]>>
    BY <2>2, <2>7
  <2> QED
    BY <2>3, <2>4, <2>5, <2>6, <2>7, PieceIs
<1>3. Pieces(quotes) \in [1 .. Len(given) -> Seq(Char)]
  BY <1>1, <1>2 DEF Pieces
<1> DEFINE P == Pieces(quotes)
           n == Len(given)
           F == Expansion(quotes)
<1>4. P \in [1 .. n -> Seq(Char)] /\ n \in Nat \ {0} /\ n \in Nat
  BY <1>1, <1>3
<1>5. Reference(given, quotes) = FlattenSeq(P)
  BY DEF Reference, Pieces
<1>6. F = CHOOSE G : Joins(G, P, n)
  BY DEF Expansion
<1> HIDE DEF P, n, F
<1>7. \E G : Joins(G, P, n)
  BY <1>4, Joined
<1>8. Joins(F, P, n)
  BY <1>6, <1>7
<1>9. FlattenSeq(P) = F[n]
  BY <1>4, <1>8, FlattenJoins
<1> QED
  BY <1>4, <1>5, <1>8, <1>9 DEF P, n, F

\* The word that was typed and the environment stay, and all that is defined by them.
LEMMA ReferenceStays ==
  ASSUME UNCHANGED <<given, env>>
  PROVE  /\ \A quotes \in BOOLEAN : /\ UNCHANGED Pieces(quotes)
                                    /\ UNCHANGED Expansion(quotes)
                                    /\ UNCHANGED Reference(given, quotes)
         /\ Misleads' = Misleads /\ HomeReread' = HomeReread
         /\ UNCHANGED Modes(given)
<1>1. \A n : UNCHANGED GetEnv(n)
  BY DEF GetEnv
<1>2. \A s, i, quotes : UNCHANGED Piece(s, i, quotes)
  BY <1>1 DEF Piece
<1> QED
  BY <1>1, <1>2 DEF Pieces, Expansion, Reference, Misleads, HomeReread

-----------------------------------------------------------------------------
(* env_expansion                                                           *)

Rest(k) == SubSeq(given, k + 1, Len(given))

LEMMA RestIs ==
  ASSUME given \in Word, NEW k \in 0 .. Len(given)
  PROVE  /\ Rest(k) \in Seq(Char) /\ Len(Rest(k)) = Len(given) - k
         /\ \A i \in 1 .. Len(given) - k : Rest(k)[i] = given[k + i]
         /\ k < Len(given) => Rest(k) = <<given[k + 1]>> \o Rest(k + 1)
<1>1. given \in Seq(Char) /\ Len(given) \in Nat
  BY GivenIs
<1>2. \A i \in k + 1 .. Len(given) : given[i] \in Char
  BY <1>1
<1>3. /\ SubSeq(given, k + 1, Len(given)) \in Seq(Char)
      /\ Len(SubSeq(given, k + 1, Len(given))) = Len(given) - k
      /\ \A i \in 1 .. Len(given) - k : SubSeq(given, k + 1, Len(given))[i] = given[k + i]
  BY <1>1, <1>2
<1>4. ASSUME k < Len(given)
      PROVE  SubSeq(given, k + 1, Len(given))
               = <<given[k + 1]>> \o SubSeq(given, k + 1 + 1, Len(given))
  <2>1. k + 1 \in 1 .. Len(given) /\ Len(given) \in k + 1 .. Len(given)
    BY <1>1, <1>4
  <2> QED
    BY <1>1, <2>1, SubSeqRecursiveFirst
<1> QED
  BY <1>3, <1>4 DEF Rest

\* The loop has come to a character that was typed, which stands in no name.
AtCharacter(k) ==
  /\ k \in 0 .. Len(given)
  /\ k = 0 => given[1] # Tilde
  /\ ~InName(given, k + 1)
  /\ word = Expansion(TRUE)[k] \o Rest(k) /\ j = Len(Expansion(TRUE)[k])
  /\ squotemode <=> Modes(given)[k] = "single"
  /\ dquotemode <=> Modes(given)[k] = "double"

InText == \E k \in 0 .. Len(given) : AtCharacter(k)

\* The loop is in the value of HOME that stands for a tilde.
InHome ==
  /\ given[1] = Tilde
  /\ word = Expansion(TRUE)[1] \o Rest(1) /\ j \in Nat /\ j < Len(Expansion(TRUE)[1])
  /\ ~squotemode /\ ~dquotemode

\* The word as the loop finds it at a character that was typed.
LEMMA CharacterIs ==
  ASSUME given \in Word, env \in Environments, NEW k \in 0 .. Len(given),
         word = Expansion(TRUE)[k] \o Rest(k), j = Len(Expansion(TRUE)[k])
  PROVE  /\ word \in Seq(Char) /\ j \in Nat /\ Len(word) = j + (Len(given) - k)
         /\ \A i \in 1 .. Len(given) - k : word[j + i] = given[k + i]
         /\ Before(j) = Expansion(TRUE)[k]
<1> DEFINE A == Expansion(TRUE)[k]
           R == Rest(k)
<1>0. Len(given) \in Nat
  BY GivenIs
<1>1. A \in Seq(Char)
  BY PiecesAre DEF Joins
<1>2. /\ R \in Seq(Char) /\ Len(R) = Len(given) - k
      /\ \A i \in 1 .. Len(given) - k : R[i] = given[k + i]
  BY RestIs
<1>3. word = A \o R /\ j = Len(A)
  OBVIOUS
<1> HIDE DEF A, R
<1>4. <<>> \in Seq(Char) /\ R = R \o <<>>
  BY <1>2, ConcatEmptySeq
<1>5. word \in Seq(Char) /\ Len(word) = j + Len(R) /\ j \in Nat
  <2>1. A \o R \in Seq(Char) /\ Len(A \o R) = Len(A) + Len(R) /\ Len(A) \in Nat
    BY <1>1, <1>2
  <2> QED
    BY <1>3, <2>1
<1>6. SubSeq(A \o (R \o <<>>), 1, Len(A)) = A
  BY <1>1, <1>2, <1>4, Part
<1>7. Before(j) = A
  BY <1>3, <1>4, <1>6 DEF Before
<1>8. \A i \in 1 .. Len(R) : word[j + i] = R[i]
  <2>1. \A i \in 1 .. Len(R) : (A \o R)[Len(A) + i] = R[i]
    BY <1>1, <1>2
  <2> QED
    BY <1>3, <2>1
<1> QED
  BY <1>2, <1>5, <1>7, <1>8 DEF A

\* What is left of the word, and the parts of it, are what they were when typed.
LEMMA SameParts ==
  ASSUME given \in Word, word \in Seq(Char), j \in Nat, NEW k \in 0 .. Len(given),
         Len(word) = j + (Len(given) - k),
         \A i \in 1 .. Len(given) - k : word[j + i] = given[k + i],
         NEW p \in k .. Len(given), NEW q \in p .. Len(given)
  PROVE  SubSeq(word, j + (p - k) + 1, j + (q - k)) = SubSeq(given, p + 1, q)
<1> DEFINE s == SubSeq(word, j + (p - k) + 1, j + (q - k))
           t == SubSeq(given, p + 1, q)
<1>1. given \in Seq(Char) /\ Len(given) \in Nat
  BY GivenIs
<1>2. \A i \in p + 1 .. q : given[i] \in Char
  BY <1>1
<1>3. \A i \in j + (p - k) + 1 .. j + (q - k) : word[i] \in Char
  BY <1>1
<1>4. /\ t \in Seq(Char) /\ Len(t) = q - p
      /\ \A i \in 1 .. q - p : t[i] = given[p + i]
  BY <1>1, <1>2
<1>5. /\ s \in Seq(Char) /\ Len(s) = q - p
      /\ \A i \in 1 .. q - p : s[i] = word[j + (p - k) + i]
  BY <1>1, <1>3
<1> HIDE DEF s, t
<1>6. ASSUME NEW i \in 1 .. q - p PROVE s[i] = t[i]
  <2>1. (p - k) + i \in 1 .. Len(given) - k /\ k + ((p - k) + i) = p + i
    BY <1>1
  <2>2. word[j + ((p - k) + i)] = given[p + i]
    BY <2>1
  <2>3. j + ((p - k) + i) = j + (p - k) + i
    OBVIOUS
  <2> QED
    BY <1>4, <1>5, <2>2, <2>3
<1>7. s = t
  BY <1>4, <1>5, <1>6, SeqEqual
<1> QED
  BY <1>7 DEF s, t

LEMMA BehindUnique ==
  ASSUME NEW s \in Seq(Char), NEW i \in 1 .. Len(s), NEW b \in i + 1 .. Len(s) + 1,
         b = Len(s) + 1 \/ s[b] \in EndsName,
         \A n \in i + 1 .. b - 1 : s[n] \notin EndsName
  PROVE  b = Behind(s, i)
<1> DEFINE l == Behind(s, i)
<1>1. /\ l \in i + 1 .. Len(s) + 1
      /\ l = Len(s) + 1 \/ s[l] \in EndsName
      /\ \A n \in i + 1 .. l - 1 : s[n] \notin EndsName
  BY BehindIs
<1> HIDE DEF l
<1>2. ASSUME b < l PROVE FALSE
  <2>1. b \in i + 1 .. l - 1 /\ b # Len(s) + 1
    BY <1>1, <1>2
  <2> QED
    BY <1>1, <2>1
<1>3. ASSUME l < b PROVE FALSE
  <2>1. l \in i + 1 .. b - 1 /\ l # Len(s) + 1
    BY <1>1, <1>3
  <2> QED
    BY <1>1, <2>1
<1>4. b = l
  BY <1>1, <1>2, <1>3
<1> QED
  BY <1>4 DEF l

\* env_expansion sees the names that were typed.
LEMMA NamesAre ==
  ASSUME given \in Word, word \in Seq(Char), j \in Nat, NEW k \in 0 .. Len(given) - 1,
         Len(word) = j + (Len(given) - k),
         \A i \in 1 .. Len(given) - k : word[j + i] = given[k + i]
  PROVE  NameEnd(j + 1) = j + (Behind(given, k + 1) - 1 - k)
<1> DEFINE e == NameEnd(j + 1)
           b == e - j + k + 1
<1>1. given \in Seq(Char) /\ Len(given) \in Nat /\ k + 1 \in 1 .. Len(given)
  BY GivenIs
<1>2. j + 1 \in 0 .. Len(word)
  BY <1>1
<1>3. /\ e \in j + 1 .. Len(word)
      /\ e = Len(word) \/ word[e + 1] \in EndsName
      /\ \A i \in j + 1 .. e - 1 : word[i + 1] \notin EndsName
  BY <1>2, NameEndIs
<1> HIDE DEF e
<1>4. b \in k + 1 + 1 .. Len(given) + 1
  BY <1>1, <1>3
<1>5. b = Len(given) + 1 \/ given[b] \in EndsName
  <2>1. CASE e = Len(word)
    BY <1>1, <2>1
  <2>2. CASE e # Len(word)
    <3>1. e + 1 - j \in 1 .. Len(given) - k /\ j + (e + 1 - j) = e + 1 /\ k + (e + 1 - j) = b
      BY <1>1, <1>3, <2>2
    <3> DEFINE i == e + 1 - j
    <3> HIDE DEF i
    <3>2. i \in 1 .. Len(given) - k /\ j + i = e + 1 /\ k + i = b
      BY <3>1 DEF i
    <3>3. word[j + i] = given[k + i]
      BY <3>2
    <3>4. word[e + 1] = given[b]
      BY <3>2, <3>3
    <3> QED
      BY <1>3, <2>2, <3>4
  <2> QED
    BY <2>1, <2>2
<1>6. ASSUME NEW n \in k + 1 + 1 .. b - 1 PROVE given[n] \notin EndsName
  <2>1. /\ n - k \in 1 .. Len(given) - k /\ k + (n - k) = n
        /\ j + (n - k) - 1 \in j + 1 .. e - 1 /\ (j + (n - k) - 1) + 1 = j + (n - k)
    BY <1>1, <1>3, <1>4
  <2>2. word[j + (n - k)] = given[n]
    BY <2>1
  <2> QED
    BY <1>3, <2>1, <2>2
<1> HIDE DEF b
<1>7. b = Behind(given, k + 1)
  BY <1>1, <1>4, <1>5, <1>6, BehindUnique
<1>8. e = j + (b - 1 - k)
  BY <1>1, <1>3 DEF b
<1> QED
  BY <1>7, <1>8 DEF e

\* A character that begins no name stands for itself.
LEMMA OneCharacter ==
  ASSUME given \in Word, env \in Environments,
         NEW k \in 0 .. Len(given) - 1, AtCharacter(k), ~Begins(given, k + 1)
  PROVE  /\ word = Expansion(TRUE)[k + 1] \o Rest(k + 1)
         /\ Len(Expansion(TRUE)[k + 1]) = j + 1
         /\ ~InName(given, k + 1 + 1)
<1>1. given \in Seq(Char) /\ Len(given) \in Nat /\ k + 1 \in 1 .. Len(given) /\ k \in 0 .. Len(given)
  BY GivenIs
<1> DEFINE A == Expansion(TRUE)[k]
           c == given[k + 1]
           R == Rest(k + 1)
<1>2. /\ Pieces(TRUE) \in [1 .. Len(given) -> Seq(Char)]
      /\ Joins(Expansion(TRUE), Pieces(TRUE), Len(given))
  BY PiecesAre
<1>3. Pieces(TRUE)[k + 1] = <<c>>
  <2>1. ~InName(given, k + 1) /\ ~(k + 1 = 1 /\ given[k + 1] = Tilde)
    BY <1>1 DEF AtCharacter
  <2>2. Piece(given, k + 1, TRUE) = <<c>>
    BY <1>1, <2>1, PieceIs
  <2> QED
    BY <1>1, <2>2, GivenIs DEF Pieces
<1>4. Expansion(TRUE)[k + 1] = A \o <<c>> /\ A \in Seq(Char)
  <2>1. (k + 1) - 1 = k
    BY <1>1
  <2> QED
    BY <1>1, <1>2, <1>3, <2>1 DEF Joins
<1>5. Rest(k) = <<c>> \o R /\ R \in Seq(Char) /\ c \in Char
  <2>1. k < Len(given) /\ k + 1 \in 0 .. Len(given)
    BY <1>1
  <2>2. R \in Seq(Char)
    BY <2>1, RestIs
  <2>3. Rest(k) = <<c>> \o R
    BY <1>1, <2>1, RestIs
  <2>4. c \in Char
    BY <1>1
  <2> QED
    BY <2>2, <2>3, <2>4
<1>6. word = A \o Rest(k) /\ j = Len(A)
  BY DEF AtCharacter
<1>7. ~InName(given, k + 1 + 1)
  <2> SUFFICES ASSUME NEW n \in 1 .. k + 1, Begins(given, n), k + 1 + 1 < Behind(given, n)
               PROVE  FALSE
    BY <1>1 DEF InName
  <2>1. n # k + 1
    OBVIOUS
  <2>2. n \in 1 .. (k + 1) - 1 /\ n \in 1 .. Len(given)
    BY <1>1, <2>1
  <2>3. k + 1 < Behind(given, n)
    <3>1. Behind(given, n) \in n + 1 .. Len(given) + 1
      BY <1>1, <2>2, BehindIs
    <3> QED
      BY <1>1, <3>1
  <2>4. InName(given, k + 1)
    BY <2>2, <2>3 DEF InName
  <2> QED
    BY <2>4 DEF AtCharacter
<1> HIDE DEF A, c, R
<1>8. (A \o <<c>>) \o R = A \o (<<c>> \o R) /\ Len(A \o <<c>>) = Len(A) + 1
  <2>1. <<c>> \in Seq(Char) /\ Len(<<c>>) = 1
    BY <1>5
  <2>2. (A \o <<c>>) \o R = A \o (<<c>> \o R)
    BY <1>4, <1>5, <2>1, ConcatAssociative
  <2>3. Len(A \o <<c>>) = Len(A) + Len(<<c>>)
    BY <1>4, <2>1, ConcatProperties
  <2> QED
    BY <2>1, <2>2, <2>3
<1> QED
  BY <1>4, <1>5, <1>6, <1>7, <1>8 DEF A, c, R

LEMMA AtNext ==
  ASSUME UNCHANGED <<given, env>>, NEW m \in 0 .. Len(given),
         m = 0 => given[1] # Tilde, ~InName(given, m + 1),
         word' = Expansion(TRUE)[m] \o Rest(m), j' = Len(Expansion(TRUE)[m]),
         squotemode' <=> Modes(given)[m] = "single",
         dquotemode' <=> Modes(given)[m] = "double"
  PROVE  InText'
<1>1. Expansion(TRUE)' = Expansion(TRUE) /\ Modes(given)' = Modes(given)
  BY ReferenceStays, Zenon
<1>2. SubSeq(given', m + 1, Len(given')) = Rest(m)
  BY DEF Rest
<1>3. ~\E n \in 1 .. m + 1 - 1 : Begins(given', n) /\ m + 1 < Behind(given', n)
  BY DEF InName
<1>4. squotemode' <=> Modes(given)'[m] = "single"
  BY <1>1, Zenon
<1>5. dquotemode' <=> Modes(given)'[m] = "double"
  BY <1>1, Zenon
<1>6. /\ m \in 0 .. Len(given') /\ (m = 0 => given'[1] # Tilde)
      /\ word' = Expansion(TRUE)'[m] \o SubSeq(given', m + 1, Len(given'))
      /\ j' = Len(Expansion(TRUE)'[m])
  BY <1>1, <1>2
<1> QED
  BY <1>3, <1>4, <1>5, <1>6, Zenon DEF InText, AtCharacter, InName, Rest

\* The character under the offset.
LEMMA HereIs ==
  ASSUME given \in Word, env \in Environments, NEW k, AtCharacter(k), j < Len(word)
  PROVE  /\ k \in 0 .. Len(given) - 1 /\ k \in 0 .. Len(given)
         /\ k + 1 \in 1 .. Len(given) /\ k + 1 \in 0 .. Len(given) /\ k + 1 # 0
         /\ word[j + 1] = given[k + 1]
<1>1. /\ k \in 0 .. Len(given) /\ Len(given) \in Nat
      /\ word = Expansion(TRUE)[k] \o Rest(k) /\ j = Len(Expansion(TRUE)[k])
  BY GivenIs, Zenon DEF AtCharacter
<1>2. /\ j \in Nat /\ Len(word) = j + (Len(given) - k)
      /\ \A i \in 1 .. Len(given) - k : word[j + i] = given[k + i]
  BY <1>1, CharacterIs
<1> DEFINE n == Len(word)
           l == Len(given)
<1>0. j < n /\ n = j + (l - k) /\ j \in Nat /\ l \in Nat /\ k \in 0 .. l
  BY <1>1, <1>2
<1>3. /\ k < l /\ k \in 0 .. l - 1 /\ k + 1 \in 1 .. l /\ k + 1 \in 0 .. l /\ k + 1 # 0
      /\ 1 \in 1 .. l - k
  <2> HIDE DEF n, l
  <2>1. k < l /\ k \in Nat
    BY <1>0
  <2> QED
    BY <1>0, <2>1
<1>5. word[j + 1] = given[k + 1]
  BY <1>2, <1>3
<1> QED
  BY <1>0, <1>3, <1>5, Zenon

\* What the next quotation is.
LEMMA NextMode ==
  ASSUME given \in Word, NEW k \in 0 .. Len(given) - 1
  PROVE  /\ Modes(given)[k] \in Quotation
         /\ Modes(given)[k + 1] = Mode(Modes(given)[k], given[k + 1])
<1>1. given \in Seq(Char) /\ k + 1 \in 1 .. Len(given) /\ (k + 1) - 1 = k /\ k \in 0 .. Len(given)
  BY GivenIs
<1> QED
  BY <1>1, ModesAre

LEMMA DoubleQuoteAt ==
  ASSUME given \in Word, env \in Environments, ~Misleads,
         NEW k, AtCharacter(k), DoubleQuote
  PROVE  InText'
<1>1. /\ j < Len(word) /\ word[j + 1] = DQuote /\ (dquotemode' <=> ~dquotemode)
      /\ j' = j + 1 /\ UNCHANGED <<given, env, word, squotemode>>
  BY Zenon DEF DoubleQuote, InEnv, Here, Forward
<1>2. j < Len(word)
  BY <1>1
<1>3. /\ k \in 0 .. Len(given) - 1 /\ given[k + 1] = DQuote
      /\ k + 1 \in 1 .. Len(given) /\ k + 1 \in 0 .. Len(given) /\ k + 1 # 0
  BY <1>1, <1>2, HereIs
<1>4. ~Begins(given, k + 1)
  BY <1>3, Distinct DEF Begins
<1>5. /\ word = Expansion(TRUE)[k + 1] \o Rest(k + 1)
      /\ Len(Expansion(TRUE)[k + 1]) = j + 1
      /\ ~InName(given, k + 1 + 1)
  BY <1>3, <1>4, OneCharacter
<1>6. /\ Modes(given)[k] \in Quotation
      /\ Modes(given)[k + 1] = Mode(Modes(given)[k], DQuote)
      /\ Modes(given)[k + 1] # "single"
  <2>1. Modes(given)[k + 1] # "single"
    <3>1. k + 1 \in DOMAIN given
      BY <1>3, GivenIs
    <3> QED
      BY <1>3, <3>1 DEF Misleads
  <2> QED
    BY <1>3, <2>1, NextMode
<1>7. /\ Modes(given)[k] # "single"
      /\ Modes(given)[k + 1] = "double" <=> Modes(given)[k] # "double"
  BY <1>6, Distinct DEF Mode, Quotation
<1>8. /\ squotemode' <=> Modes(given)[k + 1] = "single"
      /\ dquotemode' <=> Modes(given)[k + 1] = "double"
  BY <1>1, <1>6, <1>7, Zenon DEF AtCharacter
<1>9. /\ UNCHANGED <<given, env>>
      /\ word' = Expansion(TRUE)[k + 1] \o Rest(k + 1)
      /\ j' = Len(Expansion(TRUE)[k + 1])
  BY <1>1, <1>5, Zenon
<1> QED
  BY <1>3, <1>5, <1>8, <1>9, AtNext, Zenon

LEMMA SingleQuoteAt ==
  ASSUME given \in Word, env \in Environments,
         NEW k, AtCharacter(k), SingleQuote
  PROVE  InText'
<1>1. /\ j < Len(word) /\ word[j + 1] = SQuote /\ ~dquotemode /\ (squotemode' <=> ~squotemode)
      /\ j' = j + 1 /\ UNCHANGED <<given, env, word, dquotemode>>
  BY Zenon DEF SingleQuote, SingleQuotes, InEnv, Here, Forward
<1>2. j < Len(word)
  BY <1>1
<1>3. /\ k \in 0 .. Len(given) - 1 /\ given[k + 1] = SQuote
      /\ k + 1 \in 1 .. Len(given) /\ k + 1 \in 0 .. Len(given) /\ k + 1 # 0
  BY <1>1, <1>2, HereIs
<1>4. ~Begins(given, k + 1)
  BY <1>3, Distinct DEF Begins
<1>5. /\ word = Expansion(TRUE)[k + 1] \o Rest(k + 1)
      /\ Len(Expansion(TRUE)[k + 1]) = j + 1
      /\ ~InName(given, k + 1 + 1)
  BY <1>3, <1>4, OneCharacter
<1>6. /\ Modes(given)[k] \in Quotation
      /\ Modes(given)[k + 1] = Mode(Modes(given)[k], SQuote)
  BY <1>3, NextMode
<1>7. Modes(given)[k] # "double"
  BY <1>1, Zenon DEF AtCharacter
<1>8. /\ Modes(given)[k + 1] # "double"
      /\ Modes(given)[k + 1] = "single" <=> Modes(given)[k] # "single"
  BY <1>6, <1>7, Distinct DEF Mode, Quotation
<1>9. /\ squotemode' <=> Modes(given)[k + 1] = "single"
      /\ dquotemode' <=> Modes(given)[k + 1] = "double"
  BY <1>1, <1>8, Zenon DEF AtCharacter
<1>10. /\ UNCHANGED <<given, env>>
       /\ word' = Expansion(TRUE)[k + 1] \o Rest(k + 1)
       /\ j' = Len(Expansion(TRUE)[k + 1])
  BY <1>1, <1>5, Zenon
<1> QED
  BY <1>3, <1>5, <1>9, <1>10, AtNext, Zenon

\* The pass takes a dollar for the beginning of a name where one begins.
LEMMA NamesBegin ==
  ASSUME given \in Word, env \in Environments, NEW k, AtCharacter(k), j < Len(word)
  PROVE  Names <=> Begins(given, k + 1)
<1>1. /\ k \in 0 .. Len(given) - 1 /\ k \in 0 .. Len(given) /\ word[j + 1] = given[k + 1]
      /\ Len(given) \in Nat
  BY HereIs, GivenIs
<1>2. word = Expansion(TRUE)[k] \o Rest(k) /\ j = Len(Expansion(TRUE)[k])
  BY Zenon DEF AtCharacter
<1>3. /\ word \in Seq(Char) /\ j \in Nat /\ Len(word) = j + (Len(given) - k)
      /\ \A i \in 1 .. Len(given) - k : word[j + i] = given[k + i]
  BY <1>1, <1>2, CharacterIs
<1>4. NameEnd(j + 1) = j + (Behind(given, k + 1) - 1 - k)
  BY <1>1, <1>3, NamesAre
<1>5. Behind(given, k + 1) \in Nat
  <2>1. given \in Seq(Char) /\ k + 1 \in 1 .. Len(given)
    BY <1>1, GivenIs
  <2>2. Behind(given, k + 1) \in k + 1 + 1 .. Len(given) + 1
    BY <2>1, BehindIs
  <2> QED
    BY <1>1, <2>2
<1>6. NameEnd(j + 1) > j + 1 <=> Behind(given, k + 1) > k + 1 + 1
  <2> DEFINE b == Behind(given, k + 1)
             e == NameEnd(j + 1)
  <2>1. e = j + (b - 1 - k) /\ b \in Nat /\ k \in Nat /\ j \in Nat
    BY <1>1, <1>3, <1>4, <1>5
  <2> HIDE DEF b, e
  <2>2. e > j + 1 <=> b > k + 1 + 1
    BY <2>1
  <2> QED
    BY <2>2 DEF b, e
<1>7. given[k + 1] = Dollar => Modes(given)[k + 1] = Modes(given)[k]
  <2>1. /\ Modes(given)[k] \in Quotation
        /\ Modes(given)[k + 1] = Mode(Modes(given)[k], given[k + 1])
    BY <1>1, NextMode
  <2> QED
    BY <2>1, Distinct DEF Mode, Quotation
<1>8. squotemode <=> Modes(given)[k] = "single"
  BY Zenon DEF AtCharacter
<1> QED
  BY <1>1, <1>6, <1>7, <1>8, Zenon DEF Names, Begins, Here

LEMMA OtherCharacterAt ==
  ASSUME given \in Word, env \in Environments,
         NEW k, AtCharacter(k), OtherCharacter
  PROVE  InText'
<1>1. /\ j < Len(word) /\ word[j + 1] # DQuote /\ ~(word[j + 1] = SQuote /\ ~dquotemode)
      /\ ~Names
      /\ j' = j + 1 /\ UNCHANGED <<given, env, word, squotemode, dquotemode>>
  BY Zenon DEF OtherCharacter, SingleQuotes, InEnv, Here, Forward
<1>2. j < Len(word)
  BY <1>1
<1>3. /\ k \in 0 .. Len(given) - 1 /\ given[k + 1] = word[j + 1]
      /\ k + 1 \in 1 .. Len(given) /\ k + 1 \in 0 .. Len(given) /\ k + 1 # 0
  BY <1>2, HereIs
<1>4. ~Begins(given, k + 1)
  BY <1>1, <1>2, NamesBegin, Zenon
<1>5. /\ word = Expansion(TRUE)[k + 1] \o Rest(k + 1)
      /\ Len(Expansion(TRUE)[k + 1]) = j + 1
      /\ ~InName(given, k + 1 + 1)
  BY <1>3, <1>4, OneCharacter
<1>6. /\ Modes(given)[k] \in Quotation
      /\ Modes(given)[k + 1] = Mode(Modes(given)[k], given[k + 1])
  BY <1>3, NextMode
<1>7. given[k + 1] # DQuote /\ (given[k + 1] = SQuote => Modes(given)[k] = "double")
  BY <1>1, <1>3, Zenon DEF AtCharacter
<1>8. Modes(given)[k + 1] = Modes(given)[k]
  BY <1>6, <1>7, Distinct DEF Mode, Quotation
<1>9. /\ squotemode' <=> Modes(given)[k + 1] = "single"
      /\ dquotemode' <=> Modes(given)[k + 1] = "double"
  BY <1>1, <1>8, Zenon DEF AtCharacter
<1>10. /\ UNCHANGED <<given, env>>
       /\ word' = Expansion(TRUE)[k + 1] \o Rest(k + 1)
       /\ j' = Len(Expansion(TRUE)[k + 1])
  BY <1>1, <1>5, Zenon
<1> QED
  BY <1>3, <1>5, <1>9, <1>10, AtNext, Zenon

\* The characters of a name stand for nothing, and end where the name does.
LEMMA NameOver ==
  ASSUME given \in Word, env \in Environments,
         NEW k \in 0 .. Len(given) - 1, ~InName(given, k + 1), Begins(given, k + 1)
  PROVE  /\ Expansion(TRUE)[Behind(given, k + 1) - 1] =
              Expansion(TRUE)[k] \o GetEnv(SubSeq(given, k + 2, Behind(given, k + 1) - 1))
         /\ Modes(given)[Behind(given, k + 1) - 1] = Modes(given)[k]
         /\ ~InName(given, Behind(given, k + 1))
<1> DEFINE b == Behind(given, k + 1)
           n == Len(given)
           F == Expansion(TRUE)
           P == Pieces(TRUE)
           M == Modes(given)
<1>1. given \in Seq(Char) /\ n \in Nat /\ k + 1 \in 1 .. n /\ DOMAIN given = 1 .. n
  BY GivenIs
<1>2. /\ b \in k + 1 + 1 .. n + 1
      /\ \A i \in k + 1 + 1 .. b - 1 : given[i] \notin EndsName
  BY <1>1, BehindIs
<1>3. P \in [1 .. n -> Seq(Char)] /\ Joins(F, P, n)
  BY PiecesAre
<1>4. F[k + 1] = F[k] \o GetEnv(SubSeq(given, k + 2, b - 1))
  <2>1. Piece(given, k + 1, TRUE) = GetEnv(SubSeq(given, k + 1 + 1, b - 1))
    BY <1>1, PieceIs
  <2>2. k + 1 + 1 = k + 2 /\ (k + 1) - 1 = k
    BY <1>1
  <2>3. P[k + 1] = GetEnv(SubSeq(given, k + 2, b - 1))
    BY <1>1, <2>1, <2>2 DEF Pieces
  <2>4. F[k + 1] = F[(k + 1) - 1] \o P[k + 1]
    BY <1>1, <1>3 DEF Joins
  <2> QED
    BY <2>2, <2>3, <2>4
<1>5. ASSUME NEW i \in k + 1 + 1 .. b - 1 PROVE P[i] = <<>>
  <2>1. i \in 1 .. n /\ k + 1 \in 1 .. i - 1 /\ i < b
    BY <1>1, <1>2
  <2>2. InName(given, i)
    BY <2>1 DEF InName
  <2>3. Piece(given, i, TRUE) = <<>>
    BY <2>1, <2>2, PieceIs
  <2> QED
    BY <1>1, <2>1, <2>3 DEF Pieces
<1>6. ASSUME NEW i \in k + 1 .. b - 1 PROVE Mode(M[k], given[i]) = M[k]
  <2>1. given[i] \notin {SQuote, DQuote}
    <3>1. CASE i = k + 1
      BY <3>1, Distinct DEF Begins
    <3>2. CASE i # k + 1
      <4>1. i \in k + 1 + 1 .. b - 1
        BY <1>1, <1>2, <3>2
      <4> QED
        BY <1>2, <4>1 DEF EndsName
    <3> QED
      BY <3>1, <3>2
  <2> QED
    BY <2>1 DEF Mode
<1>7. ASSUME InName(given, b) PROVE FALSE
  <2>1. PICK i \in 1 .. b - 1 : Begins(given, i) /\ b < Behind(given, i)
    BY <1>7 DEF InName
  <2>2. CASE i = k + 1
    BY <1>2, <2>1, <2>2
  <2>3. CASE i < k + 1
    <3>1. i \in 1 .. (k + 1) - 1 /\ i \in 1 .. n
      BY <1>1, <2>1, <2>3
    <3>2. Behind(given, i) \in i + 1 .. n + 1
      BY <1>1, <3>1, BehindIs
    <3>3. k + 1 < Behind(given, i)
      BY <1>1, <1>2, <2>1, <3>2
    <3> QED
      BY <2>1, <3>1, <3>3 DEF InName
  <2>4. CASE i > k + 1
    <3>1. i \in k + 1 + 1 .. b - 1
      BY <1>1, <1>2, <2>1, <2>4
    <3>2. given[i] # Dollar
      BY <1>2, <3>1 DEF EndsName
    <3> QED
      BY <2>1, <3>2 DEF Begins
  <2>5. i \in Int /\ k + 1 \in Int
    BY <1>1, <1>2, <2>1
  <2> QED
    BY <2>2, <2>3, <2>4, <2>5
<1> HIDE DEF b, n, F, P, M
<1>8. k + 1 \in 0 .. n /\ b - 1 \in k + 1 .. n /\ k \in 0 .. n /\ b - 1 \in k .. n
  BY <1>1, <1>2
<1>9. F[b - 1] = F[k + 1]
  BY <1>1, <1>3, <1>5, <1>8, SectionEmpty
<1>10. M[b - 1] = M[k]
  <2>1. \A i \in k .. b - 1 : M[i] = M[k]
    BY <1>1, <1>6, <1>8, ModeStays DEF M, n
  <2>2. b - 1 \in k .. b - 1
    BY <1>8
  <2> QED
    BY <2>1, <2>2
<1> QED
  BY <1>4, <1>7, <1>9, <1>10 DEF b, n, F, P, M

LEMMA ValueReplaces ==
  ASSUME given \in Word, env \in Environments, NEW k, AtCharacter(k), Replace
  PROVE  InText'
<1> DEFINE b == Behind(given, k + 1)
           n == Len(given)
           F == Expansion(TRUE)
           e == NameEnd(j + 1)
           value == GetEnv(SubSeq(word, j + 2, e))
<1>1. /\ j < Len(word) /\ Names
      /\ word' = Before(j) \o value \o From(e)
      /\ j' = IF e = Len(word) THEN Len(word') ELSE j + Len(value)
      /\ UNCHANGED <<given, env, squotemode, dquotemode>>
  BY Zenon DEF Replace, InEnv, BehindValue
<1>2. j < Len(word)
  BY <1>1
<1>3. /\ k \in 0 .. n - 1 /\ k \in 0 .. n /\ k + 1 \in 1 .. n /\ n \in Nat
      /\ given \in Seq(Char)
  BY <1>2, HereIs, GivenIs
<1>4. word = F[k] \o Rest(k) /\ j = Len(F[k])
  BY Zenon DEF AtCharacter
<1>5. /\ word \in Seq(Char) /\ j \in Nat /\ Len(word) = j + (n - k)
      /\ \A i \in 1 .. n - k : word[j + i] = given[k + i]
      /\ Before(j) = F[k]
  BY <1>3, <1>4, CharacterIs
<1>6. e = j + (b - 1 - k)
  BY <1>3, <1>5, NamesAre
<1>7. b \in k + 1 + 1 .. n + 1
  BY <1>3, BehindIs
<1>8. Begins(given, k + 1) /\ ~InName(given, k + 1)
  <2>1. Begins(given, k + 1)
    BY <1>1, <1>2, NamesBegin, Zenon
  <2> QED
    BY <2>1, Zenon DEF AtCharacter
<1>9. /\ F[b - 1] = F[k] \o GetEnv(SubSeq(given, k + 2, b - 1))
      /\ Modes(given)[b - 1] = Modes(given)[k]
      /\ ~InName(given, b)
  BY <1>3, <1>8, NameOver
<1>10. F[k] \in Seq(Char) /\ F[b - 1] \in Seq(Char)
  <2>1. F \in [0 .. n -> Seq(Char)]
    BY PiecesAre DEF Joins
  <2>2. b - 1 \in 0 .. n
    BY <1>3, <1>7
  <2> QED
    BY <1>3, <2>1, <2>2
<1> HIDE DEF b, n, F, e
<1>11. SubSeq(word, j + 2, e) = SubSeq(given, k + 2, b - 1)
  <2>1. k + 1 \in k .. n /\ b - 1 \in k + 1 .. n
    BY <1>3, <1>7
  <2>2. SubSeq(word, j + ((k + 1) - k) + 1, j + ((b - 1) - k)) = SubSeq(given, (k + 1) + 1, b - 1)
    BY <1>3, <1>5, <2>1, SameParts DEF n
  <2>3. /\ j + ((k + 1) - k) + 1 = j + 2 /\ j + ((b - 1) - k) = e /\ (k + 1) + 1 = k + 2
    BY <1>3, <1>5, <1>6, <1>7
  <2> QED
    BY <2>2, <2>3
<1>12. From(e) = Rest(b - 1)
  <2>1. b - 1 \in k .. n /\ n \in b - 1 .. n
    BY <1>3, <1>7
  <2>2. SubSeq(word, j + ((b - 1) - k) + 1, j + (n - k)) = SubSeq(given, (b - 1) + 1, n)
    BY <1>3, <1>5, <2>1, SameParts DEF n
  <2>3. j + ((b - 1) - k) + 1 = e + 1 /\ j + (n - k) = Len(word)
    BY <1>3, <1>5, <1>6, <1>7
  <2> QED
    BY <2>2, <2>3 DEF From, Rest, n
<1>13. /\ word' = F[b - 1] \o Rest(b - 1)
       /\ F[b - 1] = F[k] \o value
  BY <1>1, <1>5, <1>9, <1>11, <1>12
<1>14. value \in Seq(Char)
  BY ValueIs
<1> HIDE DEF value
<1>15. Len(F[b - 1]) = j + Len(value)
  <2> DEFINE A == F[k]
  <2>1. A \in Seq(Char) /\ F[b - 1] = A \o value /\ j = Len(A)
    BY <1>4, <1>10, <1>13
  <2> HIDE DEF A
  <2>2. Len(A \o value) = Len(A) + Len(value)
    BY <1>14, <2>1, ConcatProperties
  <2> QED
    BY <2>1, <2>2
<1>16. j' = Len(F[b - 1])
  <2>1. CASE e = Len(word)
    <3>1. b - 1 = n
      BY <1>3, <1>5, <1>6, <1>7, <2>1
    <3>2. Rest(b - 1) = <<>>
      <4>1. n \in 0 .. Len(given) /\ Len(given) - n = 0
        BY <1>3 DEF n
      <4>2. Rest(n) \in Seq(Char) /\ Len(Rest(n)) = Len(given) - n
        BY <4>1, RestIs
      <4>3. Rest(n) = <<>>
        BY <4>1, <4>2
      <4> QED
        BY <3>1, <4>3
    <3>3. word' = F[b - 1]
      BY <1>10, <1>13, <3>2, ConcatEmptySeq
    <3> QED
      BY <1>1, <2>1, <3>3
  <2>2. CASE e # Len(word)
    BY <1>1, <1>15, <2>2
  <2> QED
    BY <2>1, <2>2
<1>17. PICK m : m = b - 1
  OBVIOUS
<1>18. m \in 0 .. Len(given) /\ m # 0 /\ m + 1 = b
  BY <1>3, <1>7, <1>17 DEF n
<1>19. /\ squotemode' <=> Modes(given)[m] = "single"
       /\ dquotemode' <=> Modes(given)[m] = "double"
  BY <1>1, <1>9, <1>17, Zenon DEF AtCharacter
<1>20. ~InName(given, m + 1)
  BY <1>9, <1>18
<1>21. word' = Expansion(TRUE)[m] \o Rest(m) /\ j' = Len(Expansion(TRUE)[m])
  BY <1>13, <1>16, <1>17 DEF F
<1> QED
  BY <1>1, <1>18, <1>19, <1>20, <1>21, AtNext, Zenon

\* The first character, when it is a tilde.
LEMMA TildeIs ==
  ASSUME given \in Word, env \in Environments, given[1] = Tilde
  PROVE  /\ Expansion(TRUE)[1] = GetEnv(HOME) /\ Modes(given)[1] = "plain"
         /\ ~InName(given, 2) /\ 1 \in 0 .. Len(given)
<1>1. /\ given \in Seq(Char) /\ Len(given) \in Nat /\ 1 \in 1 .. Len(given)
      /\ DOMAIN given = 1 .. Len(given) /\ 1 \in 0 .. Len(given)
      /\ 0 \in 0 .. Len(given) - 1
  BY GivenIs
<1>2. Pieces(TRUE)[1] = GetEnv(HOME) /\ GetEnv(HOME) \in Seq(Char)
  <2>1. Piece(given, 1, TRUE) = GetEnv(HOME)
    BY <1>1, PieceIs
  <2> QED
    BY <1>1, <2>1, ValueIs DEF Pieces
<1>3. Expansion(TRUE)[1] = <<>> \o Pieces(TRUE)[1]
  <2>1. Joins(Expansion(TRUE), Pieces(TRUE), Len(given))
    BY PiecesAre
  <2>2. Expansion(TRUE)[1] = Expansion(TRUE)[1 - 1] \o Pieces(TRUE)[1]
    BY <1>1, <2>1 DEF Joins
  <2>3. Expansion(TRUE)[1 - 1] = <<>>
    <3>1. 1 - 1 = 0
      OBVIOUS
    <3> QED
      BY <2>1, <3>1 DEF Joins
  <2> QED
    BY <2>2, <2>3
<1>4. Expansion(TRUE)[1] = GetEnv(HOME)
  BY <1>2, <1>3, ConcatEmptySeq
<1>5. Modes(given)[1] = "plain"
  <2>1. Modes(given)[0] = "plain" /\ Modes(given)[0 + 1] = Mode(Modes(given)[0], given[0 + 1])
    BY <1>1, NextMode, ModesAre
  <2> QED
    BY <2>1, Distinct DEF Mode
<1>6. ~InName(given, 2)
  <2> SUFFICES ASSUME NEW n \in 1 .. 2 - 1, Begins(given, n) PROVE FALSE
    BY DEF InName
  <2>1. n = 1
    OBVIOUS
  <2> QED
    BY <2>1, Distinct DEF Begins
<1> QED
  BY <1>1, <1>4, <1>5, <1>6

LEMMA HomeNext ==
  ASSUME UNCHANGED <<given, env>>, given[1] = Tilde,
         word' = Expansion(TRUE)[1] \o Rest(1), j' \in Nat, j' < Len(Expansion(TRUE)[1]),
         ~squotemode', ~dquotemode'
  PROVE  InHome'
<1>1. Expansion(TRUE)' = Expansion(TRUE)
  BY ReferenceStays, Zenon
<1>2. Rest(1)' = Rest(1)
  BY DEF Rest
<1>3. /\ given'[1] = Tilde
      /\ word' = Expansion(TRUE)'[1] \o Rest(1)' /\ j' \in Nat /\ j' < Len(Expansion(TRUE)'[1])
  BY <1>1, <1>2
<1> QED
  BY <1>3, Zenon DEF InHome

\* tilde_expansion leaves the loop of env_expansion at the first character, or in
\* the value of HOME.
LEMMA TildeAt ==
  ASSUME given \in Word, env \in Environments, word = given, j = 0,
         ~squotemode, ~dquotemode, TildeExpansion
  PROVE  InHome' \/ InText'
<1>1. /\ word' = IF word[1] = Tilde THEN GetEnv(HOME) \o From(1) ELSE word
      /\ j' = 0 /\ UNCHANGED <<given, env, squotemode, dquotemode>>
  BY Zenon DEF TildeExpansion
<1>2. /\ given \in Seq(Char) /\ Len(given) \in Nat /\ 0 \in 0 .. Len(given)
  BY GivenIs
<1>3. ~squotemode' /\ ~dquotemode'
  BY <1>1, Zenon
<1>4. CASE given[1] = Tilde
  <2>1. word' = Expansion(TRUE)[1] \o Rest(1)
    BY <1>1, <1>4, TildeIs DEF From, Rest
  <2>2. Expansion(TRUE)[1] \in Seq(Char)
    BY <1>4, TildeIs, ValueIs
  <2>3. CASE Len(Expansion(TRUE)[1]) = 0
    <3>1. 1 # 0 /\ 1 \in 0 .. Len(given) /\ ~InName(given, 1 + 1)
      BY <1>4, TildeIs
    <3>2. j' = Len(Expansion(TRUE)[1])
      BY <1>1, <2>3
    <3>3. /\ squotemode' <=> Modes(given)[1] = "single"
          /\ dquotemode' <=> Modes(given)[1] = "double"
      <4>1. Modes(given)[1] # "single" /\ Modes(given)[1] # "double"
        BY <1>4, TildeIs
      <4> QED
        BY <1>3, <4>1, Zenon
    <3>4. InText'
      BY <1>1, <2>1, <3>1, <3>2, <3>3, AtNext, Zenon
    <3> QED
      BY <3>4
  <2>4. CASE Len(Expansion(TRUE)[1]) # 0
    <3> DEFINE l == Len(Expansion(TRUE)[1])
    <3>0. l \in Nat /\ l # 0 /\ j' = 0
      <4>0. \A x \in Seq(Char) : Len(x) \in Nat
        OBVIOUS
      <4>1. l \in Nat
        BY <2>2, <4>0, Zenon
      <4> QED
        BY <1>1, <2>4, <4>1, Zenon
    <3> HIDE DEF l
    <3>1. j' \in Nat /\ j' < l
      BY <3>0
    <3>2. InHome'
      BY <1>1, <1>3, <1>4, <2>1, <3>1, HomeNext, Zenon DEF l
    <3> QED
      BY <3>2
  <2> QED
    BY <2>3, <2>4
<1>5. CASE given[1] # Tilde
  <2>1. Expansion(TRUE)[0] = <<>> /\ Modes(given)[0] = "plain"
    BY <1>2, PiecesAre, ModesAre DEF Joins
  <2>2. Rest(0) = given
    BY <1>2, SubSeqFull DEF Rest
  <2>3. word' = Expansion(TRUE)[0] \o Rest(0)
    BY <1>1, <1>2, <1>5, <2>1, <2>2, ConcatEmptySeq
  <2>4. j' = Len(Expansion(TRUE)[0])
    BY <1>1, <2>1
  <2>5. ~InName(given, 0 + 1)
    BY DEF InName
  <2>6. /\ squotemode' <=> Modes(given)[0] = "single"
        /\ dquotemode' <=> Modes(given)[0] = "double"
    <3>1. Modes(given)[0] # "single" /\ Modes(given)[0] # "double"
      BY <2>1
    <3> QED
      BY <1>3, <3>1, Zenon
  <2>7. InText'
    BY <1>1, <1>2, <1>5, <2>3, <2>4, <2>5, <2>6, AtNext, Zenon
  <2> QED
    BY <2>7
<1> QED
  BY <1>4, <1>5

\* The value of HOME is passed over.
LEMMA HomeStep ==
  ASSUME given \in Word, env \in Environments, InHome, ~HomeReread,
         DoubleQuote \/ SingleQuote \/ OtherCharacter \/ Replace \/ EnvExpanded
  PROVE  (InHome' \/ InText') /\ ~EnvExpanded
<1> DEFINE H == Expansion(TRUE)[1]
<1>1. /\ given[1] = Tilde /\ word = H \o Rest(1) /\ j \in Nat /\ j < Len(H)
      /\ ~squotemode /\ ~dquotemode
  BY Zenon DEF InHome
<1>2. given[1] = Tilde
  BY <1>1
<1>3. H = GetEnv(HOME) /\ H \in Seq(Char) /\ 1 \in 0 .. Len(given) /\ 1 # 0
      /\ ~InName(given, 1 + 1) /\ Modes(given)[1] = "plain"
  <2>1. 1 + 1 = 2
    OBVIOUS
  <2>2. GetEnv(HOME) \in Seq(Char)
    BY ValueIs
  <2>3. /\ H = GetEnv(HOME) /\ Modes(given)[1] = "plain"
        /\ ~InName(given, 2) /\ 1 \in 0 .. Len(given)
    BY <1>2, TildeIs
  <2>4. 1 # 0
    OBVIOUS
  <2> QED
    BY <2>1, <2>2, <2>3, <2>4
<1>4. ToSet(H) \cap (Quotes \cup {Dollar}) = {}
  BY <1>2, <1>3 DEF HomeReread
<1>5. Rest(1) \in Seq(Char)
  BY <1>3, RestIs
<1>6. InText' \/ InHome' \/ ~(j' = j + 1 /\ UNCHANGED <<given, env, word, squotemode, dquotemode>>)
  <2> SUFFICES ASSUME j' = j + 1, UNCHANGED <<given, env, word, squotemode, dquotemode>>
               PROVE  InText' \/ InHome'
    OBVIOUS
  <2>1. word' = Expansion(TRUE)[1] \o Rest(1) /\ ~squotemode' /\ ~dquotemode'
    BY <1>1, Zenon
  <2>2. CASE j' = Len(H)
    <3>1. Modes(given)[1] # "single" /\ Modes(given)[1] # "double"
      BY <1>3
    <3>2. /\ squotemode' <=> Modes(given)[1] = "single"
          /\ dquotemode' <=> Modes(given)[1] = "double"
      BY <2>1, <3>1, Zenon
    <3>3. InText'
      BY <1>3, <2>1, <2>2, <3>2, AtNext, Zenon
    <3> QED
      BY <3>3
  <2>3. CASE j' # Len(H)
    <3> DEFINE l == Len(H)
    <3>0. j < l /\ j' # l /\ l \in Nat /\ j \in Nat
      <4>0. \A x \in Seq(Char) : Len(x) \in Nat
        OBVIOUS
      <4>1. l \in Nat
        BY <1>3, <4>0, Zenon
      <4> QED
        BY <1>1, <2>3, <4>1, Zenon
    <3> HIDE DEF l
    <3>1. j' \in Nat /\ j' < l
      BY <3>0
    <3>2. j' \in Nat /\ j' < Len(Expansion(TRUE)[1])
      BY <3>1 DEF l
    <3>3. InHome'
      BY <1>2, <2>1, <3>2, HomeNext, Zenon
    <3> QED
      BY <3>3
  <2> QED
    BY <2>2, <2>3
<1> DEFINE R == Rest(1)
<1>7. /\ R \in Seq(Char) /\ word = H \o R /\ j \in Nat /\ j < Len(H)
  BY <1>1, <1>5
<1> HIDE DEF H, R
<1>8. word[j + 1] = H[j + 1] /\ j < Len(word) /\ j + 1 \in DOMAIN H
  <2>1. j + 1 \in 1 .. Len(H) /\ Len(H) \in Nat /\ Len(R) \in Nat
    BY <1>3, <1>7
  <2>2. (H \o R)[j + 1] = H[j + 1] /\ Len(H \o R) = Len(H) + Len(R)
    BY <1>3, <1>7, <2>1
  <2> QED
    BY <1>3, <1>7, <2>1, <2>2
<1>9. word[j + 1] \notin {Dollar, SQuote, DQuote}
  BY <1>4, <1>8 DEF ToSet, Quotes
<1>10. ~DoubleQuote /\ ~SingleQuote /\ ~Replace
  BY <1>9 DEF DoubleQuote, SingleQuote, SingleQuotes, Replace, Names, Here
<1>11. ~EnvExpanded
  BY <1>8 DEF EnvExpanded
<1>12. OtherCharacter => j' = j + 1 /\ UNCHANGED <<given, env, word, squotemode, dquotemode>>
  BY Zenon DEF OtherCharacter, Forward
<1> QED
  BY <1>6, <1>10, <1>11, <1>12, Zenon

\* What the pass leaves is the reference.
LEMMA EnvDone ==
  ASSUME given \in Word, env \in Environments, InText, EnvExpanded
  PROVE  word = Expansion(TRUE)[Len(given)]
<1>1. PICK k \in 0 .. Len(given) : AtCharacter(k)
  BY DEF InText
<1>2. /\ word = Expansion(TRUE)[k] \o Rest(k) /\ j = Len(Expansion(TRUE)[k])
      /\ j = Len(word)
  BY <1>1, Zenon DEF AtCharacter, EnvExpanded
<1>3. j \in Nat /\ Len(word) = j + (Len(given) - k) /\ Len(given) \in Nat
  BY <1>2, CharacterIs, GivenIs
<1>4. k = Len(given)
  <2> DEFINE n == Len(word)
             l == Len(given)
  <2>1. j = n /\ n = j + (l - k) /\ j \in Nat /\ l \in Nat /\ k \in 0 .. l
    BY <1>2, <1>3
  <2> HIDE DEF n, l
  <2>2. k = l
    BY <2>1
  <2> QED
    BY <2>2 DEF l
<1>5. Rest(k) = <<>>
  <2>1. Rest(k) \in Seq(Char) /\ Len(Rest(k)) = Len(given) - k
    BY RestIs
  <2>2. Len(Rest(k)) = 0
    BY <1>3, <1>4, <2>1
  <2> QED
    BY <2>1, <2>2
<1>6. Expansion(TRUE)[k] \in Seq(Char)
  BY PiecesAre DEF Joins
<1> QED
  BY <1>2, <1>4, <1>5, <1>6, ConcatEmptySeq

-----------------------------------------------------------------------------
(* quote_removing                                                          *)

\* A character, then c, then u.
LEMMA Opened ==
  ASSUME NEW q \in Char, NEW c \in Seq(Char), NEW u \in Seq(Char), NEW t,
         t = <<q>> \o (c \o u)
  PROVE  /\ t \in Seq(Char) /\ Len(t) = 1 + Len(c) + Len(u) /\ t[1] = q
         /\ \A i \in 1 .. Len(c) : t[1 + i] = c[i]
         /\ \A i \in 1 .. Len(u) : t[1 + Len(c) + i] = u[i]
<1> DEFINE p == <<q>>
<1>1. p \in Seq(Char) /\ Len(p) = 1 /\ p[1] = q
  OBVIOUS
<1>2. t = p \o (c \o u)
  OBVIOUS
<1> HIDE DEF p
<1>3. t \in Seq(Char) /\ Len(t) = Len(p) + Len(c) + Len(u)
  BY <1>1, <1>2, LengthOf
<1>4. \A i \in 1 .. Len(p) : t[i] = p[i]
  BY <1>1, <1>2, PartAt
<1>5. \A i \in 1 .. Len(c) : t[Len(p) + i] = c[i]
  BY <1>1, <1>2, PartAt
<1>6. \A i \in 1 .. Len(u) : t[Len(p) + Len(c) + i] = u[i]
  BY <1>1, <1>2, PartAt
<1> QED
  BY <1>1, <1>3, <1>4, <1>5, <1>6

\* The next two quotes, when the first stands behind b and encloses c.
LEMMA NextQuotes ==
  ASSUME NEW a \in Seq(Char), NEW b \in Seq(Char), NEW c \in Seq(Char), NEW d \in Seq(Char),
         NEW q \in Quotes, Free(b, Quotes), Free(c, {q}),
         word = a \o (b \o (<<q>> \o (c \o (<<q>> \o d)))), j = Len(a)
  PROVE  /\ Opening = Len(a) + Len(b)
         /\ Closing = Len(a) + Len(b) + 1 + Len(c)
         /\ Closing < Len(word)
<1> DEFINE x == Len(a) + Len(b)
           y == x + 1 + Len(c)
<1>0. q \in Char
  BY WordAssumption DEF Quotes
<1>1. PICK u : u = <<q>> \o d
  OBVIOUS
<1>2. u \in Seq(Char) /\ Len(u) = 1 + Len(d) /\ u[1] = q
  BY <1>0, <1>1
<1>3. PICK t : t = <<q>> \o (c \o u)
  OBVIOUS
<1>4. /\ t \in Seq(Char) /\ Len(t) = 1 + Len(c) + Len(u) /\ t[1] = q
      /\ \A i \in 1 .. Len(c) : t[1 + i] = c[i]
      /\ \A i \in 1 .. Len(u) : t[1 + Len(c) + i] = u[i]
  <2>0. u \in Seq(Char)
    BY <1>2
  <2>1. t \in Seq(Char) /\ Len(t) = 1 + Len(c) + Len(u) /\ t[1] = q
    <3>1. t \in Seq(Char)
      BY <1>0, <1>3, <2>0, Opened
    <3>2. Len(t) = 1 + Len(c) + Len(u)
      BY <1>0, <1>3, <2>0, Opened
    <3>3. t[1] = q
      BY <1>0, <1>3, <2>0, Opened
    <3> QED
      BY <3>1, <3>2, <3>3
  <2>2. \A i \in 1 .. Len(c) : t[1 + i] = c[i]
    BY <1>0, <1>2, <1>3, Opened
  <2>3. \A i \in 1 .. Len(u) : t[1 + Len(c) + i] = u[i]
    BY <1>0, <1>2, <1>3, Opened
  <2> QED
    BY <2>1, <2>2, <2>3
<1>41. PICK w : w = a \o (b \o t)
  OBVIOUS
<1>42. /\ w \in Seq(Char) /\ Len(w) = x + Len(t)
       /\ \A i \in 1 .. Len(b) : w[Len(a) + i] = b[i]
       /\ \A i \in 1 .. Len(t) : w[x + i] = t[i]
  <2>1. w \in Seq(Char) /\ Len(w) = Len(a) + Len(b) + Len(t)
    BY <1>4, <1>41, LengthOf
  <2>2. \A i \in 1 .. Len(b) : w[Len(a) + i] = b[i]
    BY <1>4, <1>41, PartAt
  <2>3. \A i \in 1 .. Len(t) : w[Len(a) + Len(b) + i] = t[i]
    BY <1>4, <1>41, PartAt
  <2> QED
    BY <2>1, <2>2, <2>3
<1>43. word = w
  BY <1>1, <1>3, <1>41
<1>5. /\ Len(a) \in Nat /\ Len(b) \in Nat /\ Len(c) \in Nat /\ Len(d) \in Nat
      /\ x \in Nat /\ y \in Nat
  OBVIOUS
<1>6. Len(w) = y + 1 + Len(d)
  BY <1>2, <1>4, <1>42, <1>5
<1>7. w[x + 1] = q /\ w[y + 1] = q
  <2>1. /\ 1 \in 1 .. Len(t) /\ 1 + Len(c) + 1 \in 1 .. Len(t)
        /\ x + (1 + Len(c) + 1) = y + 1 /\ 1 \in 1 .. Len(u)
    BY <1>2, <1>4, <1>5
  <2>2. w[x + 1] = t[1]
    BY <1>42, <2>1
  <2>3. w[y + 1] = t[1 + Len(c) + 1]
    BY <1>42, <2>1
  <2>4. t[1 + Len(c) + 1] = u[1]
    BY <1>4, <2>1
  <2> QED
    BY <1>2, <1>4, <2>2, <2>3, <2>4
<1>8. ASSUME NEW i \in Len(a) .. x - 1 PROVE w[i + 1] \notin Quotes
  <2>1. i + 1 - Len(a) \in 1 .. Len(b) /\ Len(a) + (i + 1 - Len(a)) = i + 1
    BY <1>5
  <2>2. w[i + 1] = b[i + 1 - Len(a)]
    BY <1>42, <2>1
  <2> QED
    BY <2>1, <2>2 DEF Free
<1>9. ASSUME NEW i \in x + 1 .. y - 1 PROVE w[i + 1] # q
  <2>1. /\ i - x \in 1 .. Len(c) /\ 1 + (i - x) \in 1 .. Len(t)
        /\ x + (1 + (i - x)) = i + 1
    BY <1>2, <1>4, <1>5
  <2>2. w[i + 1] = t[1 + (i - x)]
    BY <1>42, <2>1
  <2>3. t[1 + (i - x)] = c[i - x]
    BY <1>4, <2>1
  <2> QED
    BY <2>1, <2>2, <2>3 DEF Free
<1> HIDE DEF x, y
<1> DEFINE n == Len(w)
<1>10. j = Len(a) /\ n \in Nat /\ x < n /\ y < n /\ x < y /\ j =< x /\ j \in Nat
  BY <1>5, <1>6 DEF x, y
<1> HIDE DEF n
<1>11. Opening = x
  <2> DEFINE S == {i \in j .. n : i = n \/ w[i + 1] \in Quotes}
  <2>1. S \subseteq Nat /\ x \in S
    <3>1. S \subseteq Nat
      BY <1>10
    <3>2. x \in j .. n
      BY <1>5, <1>10
    <3> QED
      BY <1>7, <3>1, <3>2
  <2>2. ASSUME NEW i \in S PROVE x =< i
    <3>1. CASE i < x
      <4>1. i \in Len(a) .. x - 1 /\ i # n
        BY <1>5, <1>10, <2>2, <3>1
      <4> QED
        BY <1>8, <2>2, <4>1
    <3> QED
      BY <1>5, <1>10, <3>1
  <2>3. Min(S) = x
    BY <2>1, <2>2, LeastIs
  <2> QED
    BY <1>43, <2>3 DEF Opening, n
<1>12. Closing = y
  <2> DEFINE S == {i \in x + 1 .. n + 1 : i >= n \/ w[i + 1] = w[x + 1]}
  <2>1. S \subseteq Nat /\ y \in S
    <3>0. x \in Nat
      BY <1>5
    <3>1. S \subseteq Nat
      BY <1>10, <3>0
    <3>2. y \in x + 1 .. n + 1
      BY <1>5, <1>10
    <3> QED
      BY <1>7, <3>1, <3>2
  <2>2. ASSUME NEW i \in S PROVE y =< i
    <3>1. CASE i < y
      <4>1. i \in x + 1 .. y - 1 /\ ~(i >= n)
        BY <1>5, <1>10, <2>2, <3>1
      <4> QED
        BY <1>7, <1>9, <2>2, <4>1
    <3> QED
      BY <1>5, <1>10, <3>1
  <2>3. Min(S) = y
    BY <2>1, <2>2, LeastIs
  <2> QED
    BY <1>11, <1>43, <2>3 DEF Closing, n
<1> QED
  BY <1>10, <1>11, <1>12, <1>43 DEF x, y, n

\* There is no next quote.
LEMMA NoQuotes ==
  ASSUME NEW a \in Seq(Char), NEW b \in Seq(Char), Free(b, Quotes),
         word = a \o b, j = Len(a)
  PROVE  Closing >= Len(word)
<1>1. /\ word \in Seq(Char) /\ Len(word) = Len(a) + Len(b) /\ Len(a) \in Nat /\ Len(b) \in Nat
      /\ \A i \in 1 .. Len(b) : word[Len(a) + i] = b[i]
  <2> DEFINE w == a \o b
  <2>1. /\ w \in Seq(Char) /\ Len(w) = Len(a) + Len(b) /\ Len(a) \in Nat /\ Len(b) \in Nat
        /\ \A i \in 1 .. Len(b) : w[Len(a) + i] = b[i]
    OBVIOUS
  <2> QED
    BY <2>1
<1> DEFINE n == Len(word)
<1>2. n \in Nat /\ n = j + Len(b) /\ j \in Nat
  BY <1>1
<1>3. ASSUME NEW i \in j .. n - 1 PROVE word[i + 1] \notin Quotes
  <2>1. i + 1 - j \in 1 .. Len(b) /\ j + (i + 1 - j) = i + 1
    BY <1>1, <1>2
  <2>2. word[i + 1] = b[i + 1 - j]
    BY <1>1, <2>1
  <2> QED
    BY <2>1, <2>2 DEF Free
<1>4. /\ Opening \in j .. n /\ (Opening = n \/ word[Opening + 1] \in Quotes)
      /\ Closing \in Opening + 1 .. n + 1
  BY <1>1, <1>2, QuotesAre
<1> DEFINE o == Opening
           c == Closing
<1>5. o \in j .. n /\ (o = n \/ word[o + 1] \in Quotes) /\ c \in o + 1 .. n + 1
  BY <1>4
<1> HIDE DEF n, o, c
<1>6. o = n
  <2>1. CASE o # n
    <3>1. o \in j .. n - 1
      BY <1>2, <1>5, <2>1
    <3> QED
      BY <1>3, <1>5, <2>1, <3>1
  <2> QED
    BY <2>1
<1>7. c >= n
  BY <1>2, <1>5, <1>6
<1> QED
  BY <1>7 DEF c, n

\* Three sequences behind one another, however they are put together.
LEMMA Regroup ==
  ASSUME NEW a \in Seq(Char), NEW b \in Seq(Char), NEW c \in Seq(Char)
  PROVE  (a \o b) \o c = a \o (b \o c)
BY ConcatAssociative

LEMMA Concatenated ==
  ASSUME NEW a \in Seq(Char), NEW b \in Seq(Char)
  PROVE  a \o b \in Seq(Char)
BY ConcatProperties, Zenon

LEMMA ConcatenatedLength ==
  ASSUME NEW a \in Seq(Char), NEW b \in Seq(Char)
  PROVE  Len(a \o b) = Len(a) + Len(b)
BY ConcatProperties, Zenon

\* A word with a quotation: what was done, what comes before it, it, and the rest.
HoldsQuotation(a, b, c, q, d) == word = a \o (b \o (<<q>> \o (c \o (<<q>> \o d))))

\* What is left when the two quotes are gone.
LEMMA Removal ==
  ASSUME NEW a \in Seq(Char), NEW b \in Seq(Char), NEW c \in Seq(Char), NEW d \in Seq(Char),
         NEW q \in Char,
         HoldsQuotation(a, b, c, q, d),
         Opening = Len(a) + Len(b), Closing = Len(a) + Len(b) + 1 + Len(c)
  PROVE  /\ Before(Opening) \o SubSeq(word, Opening + 2, Closing) \o From(Closing + 1)
              = (a \o (b \o c)) \o d
         /\ Closing - 1 = Len(a \o (b \o c))
<1>1. PICK p : p = <<q>>
  OBVIOUS
<1>2. p \in Seq(Char) /\ Len(p) = 1
  BY <1>1
<1>3. PICK u : u = p \o d
  OBVIOUS
<1>4. u \in Seq(Char)
  BY <1>2, <1>3, Concatenated
<1>5. PICK v : v = c \o u
  OBVIOUS
<1>6. v \in Seq(Char)
  BY <1>4, <1>5, Concatenated
<1>7. PICK t : t = p \o v
  OBVIOUS
<1>8. t \in Seq(Char)
  BY <1>2, <1>6, <1>7, Concatenated
<1>9. word = a \o (b \o t)
  BY <1>1, <1>3, <1>5, <1>7, Zenon DEF HoldsQuotation
<1>10. PICK r : r = a \o b
  OBVIOUS
<1>11. r \in Seq(Char) /\ Len(r) = Len(a) + Len(b)
  BY <1>10, Concatenated, ConcatenatedLength
<1>12. word = r \o (p \o v)
  <2>1. (a \o b) \o t = a \o (b \o t)
    BY <1>8, Regroup
  <2>2. word = r \o t
    BY <1>9, <1>10, <2>1, Zenon
  <2> QED
    BY <1>7, <2>2, Zenon
<1>13. PICK m : m = r \o p
  OBVIOUS
<1>14. m \in Seq(Char) /\ Len(m) = Len(r) + Len(p)
  <2>1. r \in Seq(Char) /\ p \in Seq(Char)
    BY <1>2, <1>11
  <2>2. r \o p \in Seq(Char)
    BY <2>1, Concatenated
  <2>3. Len(r \o p) = Len(r) + Len(p)
    BY <2>1, ConcatenatedLength
  <2> QED
    BY <1>13, <2>2, <2>3, Zenon
<1>15. word = m \o (c \o u)
  <2>1. (r \o p) \o v = r \o (p \o v)
    BY <1>2, <1>6, <1>11, Regroup
  <2> QED
    BY <1>5, <1>12, <1>13, <2>1, Zenon
<1>16. PICK e : e = m \o c
  OBVIOUS
<1>17. e \in Seq(Char) /\ Len(e) = Len(m) + Len(c)
  <2>1. m \in Seq(Char)
    BY <1>14
  <2>2. m \o c \in Seq(Char)
    BY <2>1, Concatenated
  <2>3. Len(m \o c) = Len(m) + Len(c)
    BY <2>1, ConcatenatedLength
  <2> QED
    BY <1>16, <2>2, <2>3, Zenon
<1>18. word = e \o (p \o d)
  <2>1. (m \o c) \o u = m \o (c \o u)
    BY <1>4, <1>14, Regroup
  <2> QED
    BY <1>3, <1>15, <1>16, <2>1, Zenon
<1>19. SubSeq(word, 1, Len(r)) = r
  <2>1. PICK w : w = word
    OBVIOUS
  <2>2. w = r \o (p \o v)
    BY <1>12, <2>1, Zenon
  <2>3. PICK x : x = p \o v
    OBVIOUS
  <2>4. x \in Seq(Char)
    BY <1>2, <1>6, <2>3, Concatenated
  <2>5. w = r \o x
    BY <2>2, <2>3, Zenon
  <2>6. SubSeq(w, 1, Len(r)) = r
    BY <1>11, <2>4, <2>5, Part
  <2> QED
    BY <2>1, <2>6, Zenon
<1>20. SubSeq(word, Len(m) + 1, Len(m) + Len(c)) = c
  <2>1. PICK w : w = word
    OBVIOUS
  <2>2. w = m \o (c \o u)
    BY <1>15, <2>1
  <2>3. SubSeq(w, Len(m) + 1, Len(m) + Len(c)) = c
    BY <1>4, <1>14, <2>2, MiddlePart
  <2> QED
    BY <2>1, <2>3
<1>21. SubSeq(word, Len(e) + Len(p) + 1, Len(word)) = d
  <2>1. PICK w : w = word
    OBVIOUS
  <2>2. w = e \o (p \o d)
    BY <1>18, <2>1
  <2>3. SubSeq(w, Len(e) + Len(p) + 1, Len(w)) = d
    <3>1. p \in Seq(Char) /\ e \in Seq(Char)
      BY <1>2, <1>17
    <3> QED
      BY <2>2, <3>1, LastPart
  <2> QED
    BY <2>1, <2>3
<1>22. Len(a) \in Nat /\ Len(b) \in Nat /\ Len(c) \in Nat
  OBVIOUS
<1>23. /\ Len(r) = Opening /\ Len(m) + 1 = Opening + 2 /\ Len(m) + Len(c) = Closing
       /\ Len(e) + Len(p) + 1 = Closing + 1 + 1
  BY <1>2, <1>11, <1>14, <1>17, <1>22
<1>24. /\ Before(Opening) = r /\ SubSeq(word, Opening + 2, Closing) = c
       /\ From(Closing + 1) = d
  BY <1>19, <1>20, <1>21, <1>23 DEF Before, From
<1>25. r \o c = a \o (b \o c)
  BY <1>10, Regroup
<1>26. Closing - 1 = Len(a \o (b \o c))
  <2>1. Len(r \o c) = Len(r) + Len(c)
    <3>1. r \in Seq(Char)
      BY <1>11
    <3> QED
      BY <3>1, ConcatenatedLength
  <2>2. Len(a \o (b \o c)) = Len(a) + Len(b) + Len(c)
    BY <1>11, <1>25, <2>1
  <2> QED
    BY <1>22, <2>2
<1> QED
  BY <1>24, <1>25, <1>26

\* No value has a quote.
Unquoted == \A n \in DOMAIN env : ToSet(env[n]) \cap Quotes = {}

LEMMA ValueFree ==
  ASSUME env \in Environments, Unquoted, NEW n
  PROVE  Free(GetEnv(n), Quotes)
<1>1. CASE n \in DOMAIN env
  <2>1. GetEnv(n) = env[n] /\ ToSet(env[n]) \cap Quotes = {} /\ env[n] \in Seq(Char)
    BY <1>1, ValueIs DEF GetEnv, Unquoted
  <2>2. DOMAIN env[n] = 1 .. Len(env[n])
    BY <2>1
  <2> QED
    BY <2>1, <2>2 DEF Free, ToSet
<1>2. CASE n \notin DOMAIN env
  BY <1>2 DEF GetEnv, Free
<1> QED
  BY <1>1, <1>2

\* What encloses nothing stays, and brings in no quote.
LEMMA PieceFree ==
  ASSUME given \in Word, env \in Environments, Unquoted,
         NEW i \in 1 .. Len(given), ~IsQuote(given, i),
         NEW C \in SUBSET Quotes, given[i] \notin C
  PROVE  Pieces(TRUE)[i] = Pieces(FALSE)[i] /\ Free(Pieces(TRUE)[i], C)
<1> DEFINE p == Piece(given, i, TRUE)
           r == Piece(given, i, FALSE)
<1>1. Pieces(TRUE)[i] = p /\ Pieces(FALSE)[i] = r
  BY GivenIs DEF Pieces
<1>2. \A n : Free(GetEnv(n), C)
  BY ValueFree DEF Free
<1>3. Free(<<>>, C) /\ Free(<<given[i]>>, C)
  BY DEF Free
<1>4. /\ i = 1 /\ given[i] = Tilde => p = GetEnv(HOME) /\ r = GetEnv(HOME)
      /\ Begins(given, i) =>
           /\ p = GetEnv(SubSeq(given, i + 1, Behind(given, i) - 1))
           /\ r = GetEnv(SubSeq(given, i + 1, Behind(given, i) - 1))
      /\ InName(given, i) => p = <<>> /\ r = <<>>
      /\ \/ i = 1 /\ given[i] = Tilde
         \/ Begins(given, i) \/ InName(given, i)
         \/ p = <<given[i]>>
      /\ \/ i = 1 /\ given[i] = Tilde
         \/ Begins(given, i) \/ InName(given, i)
         \/ r = <<given[i]>>
  BY PieceIs
<1> HIDE DEF p, r
<1>5. p = r /\ Free(p, C)
  <2>1. CASE i = 1 /\ given[i] = Tilde
    BY <1>2, <1>4, <2>1
  <2>2. CASE Begins(given, i)
    BY <1>2, <1>4, <2>2
  <2>3. CASE InName(given, i)
    BY <1>3, <1>4, <2>3
  <2>4. CASE p = <<given[i]>> /\ r = <<given[i]>>
    BY <1>3, <2>4
  <2> QED
    BY <1>4, <2>1, <2>2, <2>3, <2>4
<1> QED
  BY <1>1, <1>5

LEMMA QuotePiece ==
  ASSUME given \in Word, NEW i \in 1 .. Len(given), IsQuote(given, i)
  PROVE  Pieces(TRUE)[i] = <<given[i]>> /\ Pieces(FALSE)[i] = <<>>
<1>1. Piece(given, i, TRUE) = <<given[i]>> /\ Piece(given, i, FALSE) = <<>>
  BY PieceIs
<1> QED
  BY <1>1, GivenIs DEF Pieces

\* Characters behind which the same quotation is open, the same as before them.
LEMMA Enclosed ==
  ASSUME given \in Word, env \in Environments, Unquoted,
         NEW m \in 0 .. Len(given), NEW n \in m .. Len(given), NEW C \in SUBSET Quotes,
         \A i \in m + 1 .. n : given[i] \notin C /\ ~IsQuote(given, i)
  PROVE  /\ Section(Expansion(TRUE), m, n) = Section(Expansion(FALSE), m, n)
         /\ Free(Section(Expansion(TRUE), m, n), C)
         /\ Section(Expansion(TRUE), m, n) \in Seq(Char)
<1> DEFINE l == Len(given)
           P == Pieces(TRUE)
           Q == Pieces(FALSE)
           F == Expansion(TRUE)
           G == Expansion(FALSE)
<1>1. l \in Nat /\ P \in [1 .. l -> Seq(Char)] /\ Joins(F, P, l)
      /\ Q \in [1 .. l -> Seq(Char)] /\ Joins(G, Q, l)
  BY GivenIs, PiecesAre
<1>2. \A i \in m + 1 .. n : P[i] = Q[i] /\ Free(P[i], C)
  <2> SUFFICES ASSUME NEW i \in m + 1 .. n PROVE P[i] = Q[i] /\ Free(P[i], C)
    OBVIOUS
  <2>1. i \in 1 .. Len(given)
    BY <1>1
  <2> QED
    BY <2>1, PieceFree
<1>3. m \in 0 .. l /\ n \in m .. l
  OBVIOUS
<1> HIDE DEF l, P, Q, F, G
<1>4. Section(F, m, n) = Section(G, m, n)
  <2>1. \A i \in m + 1 .. n : P[i] = Q[i]
    BY <1>2
  <2>2. l \in Nat /\ Joins(F, P, l) /\ Joins(G, Q, l)
    BY <1>1
  <2>3. Agree(P, Q, m, n)
    BY <2>1 DEF Agree
  <2>4. P \in Texts(l) /\ Q \in Texts(l)
    BY <1>1 DEF Texts
  <2> QED
    BY <1>3, <2>2, <2>3, <2>4, SectionSame
<1>5. Free(Section(F, m, n), C)
  BY <1>1, <1>2, <1>3, SectionFree
<1>6. Section(F, m, n) \in Seq(Char)
  BY <1>1, <1>3, Sections
<1> QED
  BY <1>4, <1>5, <1>6 DEF F, G

\* A quotation is opened by a quote, stays open over all other characters, and is
\* closed by the same quote.
LEMMA ModeIs ==
  /\ \A c : c \notin Quotes => Mode("plain", c) = "plain"
  /\ \A q \in Quotes :
       /\ Mode("plain", q) # "plain" /\ Mode(Mode("plain", q), q) = "plain"
       /\ \A c : c # q => Mode(Mode("plain", q), c) = Mode("plain", q)
<1>1. ASSUME NEW c, c \notin Quotes PROVE Mode("plain", c) = "plain"
  BY <1>1 DEF Mode, Quotes
<1>2. /\ Mode("plain", SQuote) = "single" /\ Mode("single", SQuote) = "plain"
      /\ \A c : c # SQuote => Mode("single", c) = "single"
  BY Distinct DEF Mode
<1>3. /\ Mode("plain", DQuote) = "double" /\ Mode("double", DQuote) = "plain"
      /\ \A c : c # DQuote => Mode("double", c) = "double"
  BY Distinct DEF Mode
<1> QED
  BY <1>1, <1>2, <1>3 DEF Quotes

\* The next quotation that was typed: character a opens it and character b closes
\* it.
Encloses(k, a, b) ==
  /\ k < a /\ a < b
  /\ given[a] \in Quotes /\ given[b] = given[a]
  /\ IsQuote(given, a) /\ IsQuote(given, b)
  /\ \A i \in k + 1 .. a - 1 : given[i] \notin Quotes /\ ~IsQuote(given, i)
  /\ \A i \in a + 1 .. b - 1 : given[i] \notin {given[a]} /\ ~IsQuote(given, i)
  /\ Modes(given)[b] = "plain"

LEMMA NextQuotation ==
  ASSUME given \in Word, NEW k \in 0 .. Len(given), Modes(given)[k] = "plain",
         \E i \in k + 1 .. Len(given) : given[i] \in Quotes
  PROVE  \E a, b \in 1 .. Len(given) : Encloses(k, a, b)
<1> DEFINE s == given
           l == Len(given)
           M == Modes(given)
<1>1. s \in Seq(Char) /\ l \in Nat /\ M[l] = "plain" /\ M[k] = "plain" /\ k \in 0 .. l
  BY GivenIs
<1>2. PICK a \in k + 1 .. l : s[a] \in Quotes /\ \A i \in k + 1 .. a - 1 : s[i] \notin Quotes
  <2> DEFINE S == {i \in k + 1 .. l : s[i] \in Quotes}
  <2>1. S \subseteq Nat /\ S # {}
    BY <1>1
  <2>2. PICK a \in S : \A y \in S : a =< y
    BY <2>1, LeastOf
  <2>3. ASSUME NEW i \in k + 1 .. a - 1 PROVE s[i] \notin Quotes
    <3>1. i \in k + 1 .. l /\ ~(a =< i)
      BY <1>1, <2>2
    <3> QED
      BY <2>2, <3>1
  <2> QED
    BY <2>2, <2>3
<1>3. /\ a \in 1 .. l /\ a \in 0 .. l /\ a - 1 \in k .. l /\ a - 1 \in k .. a - 1 /\ l \in a .. l
      /\ k < a
  BY <1>1
<1> DEFINE q == s[a]
           o == Mode("plain", q)
<1>4. M[a - 1] = "plain"
  <2>1. \A i \in k + 1 .. a - 1 : Mode(M[k], s[i]) = M[k]
    BY <1>1, <1>2, ModeIs
  <2>2. \A i \in k .. a - 1 : M[i] = M[k]
    BY <1>1, <1>3, <2>1, ModeStays
  <2> QED
    BY <1>1, <1>3, <2>2
<1>5. M[a] = o
  BY <1>1, <1>3, <1>4, ModesAre
<1>6. /\ o # "plain" /\ Mode(o, q) = "plain"
      /\ \A c : c # q => Mode(o, c) = o
  BY <1>2, ModeIs
<1> HIDE DEF M, q, o
<1>7. \E i \in a + 1 .. l : s[i] = q
  <2> SUFFICES ASSUME \A i \in a + 1 .. l : s[i] # q PROVE FALSE
    OBVIOUS
  <2>1. \A i \in a + 1 .. l : Mode(M[a], s[i]) = M[a]
    BY <1>5, <1>6
  <2>2. \A i \in a .. l : M[i] = M[a]
    BY <1>1, <1>3, <2>1, ModeStays DEF M
  <2> QED
    BY <1>1, <1>3, <1>5, <1>6, <2>2
<1>8. PICK b \in a + 1 .. l : s[b] = q /\ \A i \in a + 1 .. b - 1 : s[i] # q
  <2> DEFINE S == {i \in a + 1 .. l : s[i] = q}
  <2>1. S \subseteq Nat /\ S # {}
    BY <1>3, <1>7
  <2> HIDE DEF S
  <2>2. PICK b \in S : \A y \in S : b =< y
    BY <2>1, LeastOf
  <2> USE DEF S
  <2>3. ASSUME NEW i \in a + 1 .. b - 1 PROVE s[i] # q
    <3>1. i \in a + 1 .. l /\ ~(b =< i)
      BY <1>3, <2>2
    <3> QED
      BY <2>2, <3>1
  <2> QED
    BY <2>2, <2>3
<1>9. /\ b \in 1 .. l /\ b - 1 \in a .. l /\ b - 1 \in a .. b - 1 /\ a < b
  BY <1>3
<1>10. \A i \in a .. b - 1 : M[i] = o
  <2>1. \A i \in a + 1 .. b - 1 : Mode(M[a], s[i]) = M[a]
    BY <1>5, <1>6, <1>8
  <2>2. \A i \in a .. b - 1 : M[i] = M[a]
    BY <1>1, <1>3, <1>9, <2>1, ModeStays DEF M
  <2> QED
    BY <1>5, <2>2
<1>11. M[b] = "plain"
  <2>1. M[b] = Mode(M[b - 1], s[b])
    BY <1>1, <1>9, ModesAre DEF M
  <2> QED
    BY <1>6, <1>8, <1>9, <1>10, <2>1
<1>12. IsQuote(s, a)
  BY <1>2, <1>4, <1>5, <1>6 DEF IsQuote, M
<1>13. IsQuote(s, b)
  <2>1. M[b] # M[b - 1]
    BY <1>6, <1>9, <1>10, <1>11
  <2>2. s[b] \in Quotes
    BY <1>2, <1>8 DEF q
  <2> QED
    BY <2>1, <2>2 DEF IsQuote, M
<1>14. \A i \in k + 1 .. a - 1 : s[i] \notin Quotes /\ ~IsQuote(s, i)
  BY <1>2 DEF IsQuote
<1>15. ASSUME NEW i \in a + 1 .. b - 1 PROVE s[i] \notin {s[a]} /\ ~IsQuote(s, i)
  <2>1. i \in a .. b - 1 /\ i - 1 \in a .. b - 1
    BY <1>3, <1>9
  <2>2. M[i] = M[i - 1]
    BY <1>10, <2>1
  <2> QED
    BY <1>8, <2>2 DEF IsQuote, M, q
<1>16. Encloses(k, a, b)
  BY <1>2, <1>3, <1>8, <1>9, <1>11, <1>12, <1>13, <1>14, <1>15 DEF Encloses, M, q
<1> QED
  BY <1>3, <1>9, <1>16

\* A quote that encloses something stands alone in the section it begins.
LEMMA QuoteSection ==
  ASSUME given \in Word, env \in Environments, NEW i \in 1 .. Len(given), IsQuote(given, i)
  PROVE  /\ Section(Expansion(TRUE), i - 1, Len(given))
               = <<given[i]>> \o Section(Expansion(TRUE), i, Len(given))
         /\ Expansion(FALSE)[i] = Expansion(FALSE)[i - 1]
<1> DEFINE l == Len(given)
           P == Pieces(TRUE)
           Q == Pieces(FALSE)
           F == Expansion(TRUE)
           G == Expansion(FALSE)
<1>1. /\ l \in Nat /\ P \in [1 .. l -> Seq(Char)] /\ Joins(F, P, l)
      /\ Q \in [1 .. l -> Seq(Char)] /\ Joins(G, Q, l)
  BY GivenIs, PiecesAre
<1>2. P[i] = <<given[i]>> /\ Q[i] = <<>>
  BY QuotePiece
<1>3. /\ i - 1 \in 0 .. l /\ i \in i - 1 .. l /\ l \in i .. l /\ i \in i - 1 + 1 .. l
      /\ i \in 1 .. l
  BY <1>1
<1>4. P[i] \in Seq(Char)
  BY <1>1, <1>3
<1> HIDE DEF l, P, Q, F, G
<1>5. Section(F, i - 1, i) = P[i]
  <2>1. Section(F, i - 1, i) = Section(F, i - 1, i - 1) \o P[i]
    BY <1>1, <1>3, Sections
  <2>2. Section(F, i - 1, i - 1) = <<>>
    BY <1>1, <1>3, Sections
  <2> QED
    BY <1>4, <2>1, <2>2, ConcatEmptySeq
<1>6. Section(F, i - 1, l) = Section(F, i - 1, i) \o Section(F, i, l)
  BY <1>1, <1>3, SectionSplit
<1>7. G[i] = G[i - 1]
  <2>1. G[i] = G[i - 1] \o Q[i] /\ G[i - 1] \in Seq(Char)
    BY <1>1, <1>3 DEF Joins
  <2> QED
    BY <1>2, <2>1, ConcatEmptySeq
<1>8. Section(F, i - 1, l) = <<given[i]>> \o Section(F, i, l)
  BY <1>2, <1>5, <1>6
<1> QED
  BY <1>7, <1>8 DEF l, F, G

\* The first k characters are done, in the two passes, and nothing that they
\* become is looked at again.
Removed(k) ==
  /\ k \in 0 .. Len(given) /\ Modes(given)[k] = "plain"
  /\ word = Expansion(FALSE)[k] \o Section(Expansion(TRUE), k, Len(given))
  /\ j = Len(Expansion(FALSE)[k])

InRemoval == \E k \in 0 .. Len(given) : Removed(k)

\* The word as the pass finds it before the next quotation, and as it leaves it.
LEMMA QuotationIs ==
  ASSUME given \in Word, env \in Environments, Unquoted,
         NEW k \in 0 .. Len(given), NEW a \in 1 .. Len(given), NEW b \in 1 .. Len(given),
         Encloses(k, a, b)
  PROVE  \E X, B, C, D \in Seq(Char) : \E q \in Quotes :
           /\ Free(B, Quotes) /\ Free(C, {q})
           /\ X = Expansion(FALSE)[k]
           /\ Section(Expansion(TRUE), k, Len(given))
                = B \o (<<q>> \o (C \o (<<q>> \o D)))
           /\ D = Section(Expansion(TRUE), b, Len(given))
           /\ Expansion(FALSE)[b] = X \o (B \o C)
<1> DEFINE l == Len(given)
           P == Pieces(TRUE)
           Q == Pieces(FALSE)
           F == Expansion(TRUE)
           G == Expansion(FALSE)
<1>1. l \in Nat /\ P \in [1 .. l -> Seq(Char)] /\ Joins(F, P, l)
  BY GivenIs, PiecesAre
<1>2. Q \in [1 .. l -> Seq(Char)] /\ Joins(G, Q, l)
  BY PiecesAre
<1>3. /\ k \in 0 .. l /\ a \in 1 .. l /\ b \in 1 .. l /\ k < a /\ a < b
      /\ given[a] \in Quotes /\ given[b] = given[a]
      /\ IsQuote(given, a) /\ IsQuote(given, b)
  BY DEF Encloses
<1>4. /\ a - 1 \in k .. l /\ a - 1 \in 0 .. l /\ a \in 0 .. l
      /\ b - 1 \in a .. l /\ b - 1 \in 0 .. l /\ b \in 0 .. l
      /\ l \in a .. l /\ l \in b .. l /\ l \in a - 1 .. l /\ l \in b - 1 .. l /\ l \in k .. l
  BY <1>1, <1>3
<1>5. /\ Section(F, k, a - 1) = Section(G, k, a - 1)
      /\ Free(Section(F, k, a - 1), Quotes) /\ Section(F, k, a - 1) \in Seq(Char)
  <2>1. \A i \in k + 1 .. a - 1 : given[i] \notin Quotes /\ ~IsQuote(given, i)
    BY DEF Encloses
  <2>2. Quotes \in SUBSET Quotes
    OBVIOUS
  <2> QED
    BY <1>3, <1>4, <2>1, <2>2, Enclosed
<1>6. /\ Section(F, a, b - 1) = Section(G, a, b - 1)
      /\ Free(Section(F, a, b - 1), {given[a]}) /\ Section(F, a, b - 1) \in Seq(Char)
  <2>1. \A i \in a + 1 .. b - 1 : given[i] \notin {given[a]} /\ ~IsQuote(given, i)
    BY DEF Encloses
  <2>2. {given[a]} \in SUBSET Quotes
    BY <1>3
  <2> QED
    BY <1>3, <1>4, <2>1, <2>2, Enclosed
<1>7. Section(F, a - 1, l) = <<given[a]>> \o Section(F, a, l) /\ G[a] = G[a - 1]
  BY <1>3, QuoteSection
<1>8. Section(F, b - 1, l) = <<given[a]>> \o Section(F, b, l) /\ G[b] = G[b - 1]
  <2>1. Section(F, b - 1, l) = <<given[b]>> \o Section(F, b, l) /\ G[b] = G[b - 1]
    BY <1>3, QuoteSection
  <2> QED
    BY <1>3, <2>1
<1> HIDE DEF l, P, Q, F, G
<1>9. Section(F, k, l) = Section(F, k, a - 1) \o Section(F, a - 1, l)
  BY <1>1, <1>3, <1>4, SectionSplit
<1>10. Section(F, a, l) = Section(F, a, b - 1) \o Section(F, b - 1, l)
  BY <1>1, <1>4, SectionSplit
<1>11. Section(F, b, l) \in Seq(Char)
  BY <1>1, <1>4, Sections
<1>12. G[k] \in Seq(Char)
  BY <1>2, <1>3 DEF Joins
<1>13. G[a - 1] = G[k] \o Section(G, k, a - 1)
  BY <1>1, <1>2, <1>3, <1>4, Sections
<1>14. G[b - 1] = G[a] \o Section(G, a, b - 1)
  BY <1>1, <1>2, <1>4, Sections
<1>15. PICK X, B, C, D \in Seq(Char) :
          X = G[k] /\ B = Section(F, k, a - 1) /\ C = Section(F, a, b - 1) /\ D = Section(F, b, l)
  BY <1>5, <1>6, <1>11, <1>12
<1>16. PICK q \in Quotes : q = given[a]
  BY <1>3
<1>17. Section(F, k, l) = B \o (<<q>> \o (C \o (<<q>> \o D)))
  BY <1>7, <1>8, <1>9, <1>10, <1>15, <1>16, Zenon
<1>18. G[b] = X \o (B \o C)
  <2>1. G[b] = (X \o B) \o C
    BY <1>5, <1>6, <1>7, <1>8, <1>13, <1>14, <1>15, Zenon
  <2> QED
    BY <2>1, Regroup
<1>19. Free(B, Quotes) /\ Free(C, {q})
  BY <1>5, <1>6, <1>15, <1>16, Zenon
<1> QED
  BY <1>15, <1>17, <1>18, <1>19, Zenon DEF l, F, G

\* A turn of the loop takes the next quotation.
LEMMA RemoveNext ==
  ASSUME given \in Word, env \in Environments, Unquoted,
         NEW k \in 0 .. Len(given), Removed(k),
         \E i \in k + 1 .. Len(given) : given[i] \in Quotes
  PROVE  /\ Closing < Len(word)
         /\ RemoveQuotes =>
              \E b \in 0 .. Len(given) :
                /\ Modes(given)[b] = "plain"
                /\ word' = Expansion(FALSE)[b] \o Section(Expansion(TRUE), b, Len(given))
                /\ j' = Len(Expansion(FALSE)[b])
<1>1. PICK a, b \in 1 .. Len(given) : Encloses(k, a, b)
  BY NextQuotation DEF Removed
<1>2. b \in 0 .. Len(given) /\ Modes(given)[b] = "plain"
  BY <1>1 DEF Encloses
<1>3. PICK X, B, C, D \in Seq(Char) : \E q \in Quotes :
           /\ Free(B, Quotes) /\ Free(C, {q})
           /\ X = Expansion(FALSE)[k]
           /\ Section(Expansion(TRUE), k, Len(given))
                = B \o (<<q>> \o (C \o (<<q>> \o D)))
           /\ D = Section(Expansion(TRUE), b, Len(given))
           /\ Expansion(FALSE)[b] = X \o (B \o C)
  BY <1>1, QuotationIs
<1>4. PICK q \in Quotes :
           /\ Free(B, Quotes) /\ Free(C, {q})
           /\ X = Expansion(FALSE)[k]
           /\ Section(Expansion(TRUE), k, Len(given))
                = B \o (<<q>> \o (C \o (<<q>> \o D)))
           /\ D = Section(Expansion(TRUE), b, Len(given))
           /\ Expansion(FALSE)[b] = X \o (B \o C)
  BY <1>3
<1>5. word = X \o (B \o (<<q>> \o (C \o (<<q>> \o D)))) /\ j = Len(X)
  BY <1>4, Zenon DEF Removed
<1>6. /\ Opening = Len(X) + Len(B)
      /\ Closing = Len(X) + Len(B) + 1 + Len(C)
      /\ Closing < Len(word)
  <2>1. Free(B, Quotes) /\ Free(C, {q})
    BY <1>4
  <2> QED
    BY <1>5, <2>1, NextQuotes, Zenon
<1>7. /\ Before(Opening) \o SubSeq(word, Opening + 2, Closing) \o From(Closing + 1)
            = (X \o (B \o C)) \o D
      /\ Closing - 1 = Len(X \o (B \o C))
  <2>1. q \in Char
    BY WordAssumption DEF Quotes
  <2> QED
    BY <1>5, <1>6, <2>1, Removal, Zenon DEF HoldsQuotation
<1>8. ASSUME RemoveQuotes
      PROVE  /\ word' = Expansion(FALSE)[b] \o Section(Expansion(TRUE), b, Len(given))
             /\ j' = Len(Expansion(FALSE)[b])
  <2>1. /\ word' = Before(Opening) \o SubSeq(word, Opening + 2, Closing) \o From(Closing + 1)
        /\ j' = Closing - 1
    BY <1>8, Zenon DEF RemoveQuotes, NextSearch
  <2>2. Expansion(FALSE)[b] = X \o (B \o C) /\ D = Section(Expansion(TRUE), b, Len(given))
    BY <1>4
  <2> QED
    BY <1>7, <2>1, <2>2, Zenon
<1> QED
  BY <1>2, <1>6, <1>8, Zenon

\* When no quotation is left, the word is what was meant.
LEMMA RemovalDone ==
  ASSUME given \in Word, env \in Environments, Unquoted,
         NEW k \in 0 .. Len(given), Removed(k),
         ~\E i \in k + 1 .. Len(given) : given[i] \in Quotes
  PROVE  Closing >= Len(word) /\ word = Expansion(FALSE)[Len(given)]
<1> DEFINE l == Len(given)
           Q == Pieces(FALSE)
           F == Expansion(TRUE)
           G == Expansion(FALSE)
<1>0. l \in Nat /\ k \in 0 .. l /\ l \in k .. l
  BY GivenIs
<1>1. Q \in [1 .. l -> Seq(Char)] /\ Joins(G, Q, l)
  BY PiecesAre
<1>2. word = G[k] \o Section(F, k, l) /\ j = Len(G[k])
  BY DEF Removed
<1>3. /\ Section(F, k, l) = Section(G, k, l)
      /\ Free(Section(F, k, l), Quotes) /\ Section(F, k, l) \in Seq(Char)
  <2>1. \A i \in k + 1 .. l : given[i] \notin Quotes /\ ~IsQuote(given, i)
    BY DEF IsQuote
  <2>2. Quotes \in SUBSET Quotes
    OBVIOUS
  <2> QED
    BY <1>0, <2>1, <2>2, Enclosed
<1> HIDE DEF l, Q, F, G
<1>4. G[k] \in Seq(Char)
  BY <1>0, <1>1 DEF Joins
<1>5. Closing >= Len(word)
  <2>1. PICK X, B \in Seq(Char) : X = G[k] /\ B = Section(F, k, l)
    BY <1>3, <1>4
  <2>2. word = X \o B /\ j = Len(X) /\ Free(B, Quotes)
    BY <1>2, <1>3, <2>1, Zenon
  <2> QED
    BY <2>2, NoQuotes
<1>6. G[l] = G[k] \o Section(G, k, l)
  <2>0. Q \in Texts(l) /\ Joins(G, Q, l)
    BY <1>1 DEF Texts
  <2> QED
    BY <1>0, <2>0, SectionBehind
<1> QED
  BY <1>2, <1>3, <1>5, <1>6, Zenon DEF l, G

LEMMA RemovedNext ==
  ASSUME UNCHANGED <<given, env>>, NEW m \in 0 .. Len(given), Modes(given)[m] = "plain",
         word' = Expansion(FALSE)[m] \o Section(Expansion(TRUE), m, Len(given)),
         j' = Len(Expansion(FALSE)[m])
  PROVE  InRemoval'
<1>1. /\ Expansion(TRUE)' = Expansion(TRUE) /\ Expansion(FALSE)' = Expansion(FALSE)
      /\ Modes(given)' = Modes(given)
  BY ReferenceStays, Zenon
<1>2. /\ m \in 0 .. Len(given') /\ Modes(given)'[m] = "plain"
      /\ word' = Expansion(FALSE)'[m]
                   \o SubSeq(Expansion(TRUE)'[Len(given')], Len(Expansion(TRUE)'[m]) + 1,
                             Len(Expansion(TRUE)'[Len(given')]))
      /\ j' = Len(Expansion(FALSE)'[m])
  BY <1>1 DEF Section
<1> QED
  BY <1>2, Zenon DEF InRemoval, Removed, Section

\* Before the first turn nothing is done.
LEMMA RemovalBegins ==
  ASSUME given \in Word, env \in Environments, UNCHANGED <<given, env>>,
         word' = Expansion(TRUE)[Len(given)], j' = 0
  PROVE  InRemoval'
<1> DEFINE l == Len(given)
           P == Pieces(TRUE)
           F == Expansion(TRUE)
           G == Expansion(FALSE)
<1>1. l \in Nat /\ 0 \in 0 .. l /\ l \in 0 .. l /\ given \in Seq(Char)
  BY GivenIs
<1>2. P \in [1 .. l -> Seq(Char)] /\ Joins(F, P, l)
  BY PiecesAre
<1>3. G[0] = <<>>
  BY PiecesAre DEF Joins
<1>4. Modes(given)[0] = "plain"
  BY <1>1, ModesAre
<1> HIDE DEF l, P, F, G
<1>5. F[0] = <<>>
  BY <1>2 DEF Joins
<1>6. Section(F, 0, l) \in Seq(Char) /\ F[l] = F[0] \o Section(F, 0, l)
  <2>1. \A i \in 0 .. l : Section(F, 0, i) \in Seq(Char) /\ F[i] = F[0] \o Section(F, 0, i)
    BY <1>1, <1>2, Sections
  <2> QED
    BY <1>1, <2>1
<1>7. word' = G[0] \o Section(F, 0, l) /\ j' = Len(G[0])
  <2>1. Len(<<>>) = 0
    OBVIOUS
  <2>2. word' = F[l]
    BY DEF F, l
  <2> QED
    BY <1>3, <1>5, <1>6, <2>1, <2>2, Zenon
<1> QED
  BY <1>1, <1>4, <1>7, RemovedNext, Zenon DEF l, F, G

-----------------------------------------------------------------------------
(* The invariant                                                           *)

\* The two cases in which the passes go wrong.
Sound == ~Misleads /\ ~HomeReread

Walk ==
  /\ Typed
  /\ phase = "tilde" => ~squotemode /\ ~dquotemode
  /\ Sound /\ phase = "env" => InText \/ InHome
  /\ Sound /\ phase \in {"quotes", "done"} => expanded = Expansion(TRUE)[Len(given)]
  /\ Sound /\ Unquoted /\ phase = "quotes" => InRemoval
  /\ Sound /\ Unquoted /\ phase = "done" => word = Expansion(FALSE)[Len(given)]

LEMMA WalkInit == Init => Walk
<1> SUFFICES ASSUME Init PROVE Walk
  OBVIOUS
<1>1. /\ given \in Word /\ env \in Environments /\ word = given
      /\ phase = "tilde" /\ j = 0 /\ expanded = <<>>
  BY Zenon DEF Init
<1>2. Typed
  BY <1>1, GivenIs DEF Typed
<1>3. ~squotemode /\ ~dquotemode
  BY Zenon DEF Init
<1>4. phase # "env" /\ phase \notin {"quotes", "done"} /\ phase # "quotes" /\ phase # "done"
  BY <1>1
<1> QED
  BY <1>2, <1>3, <1>4, Zenon DEF Walk

\* A turn of the loop of env_expansion.
LEMMA EnvTurn ==
  ASSUME given \in Word, env \in Environments, Sound, InText \/ InHome,
         DoubleQuote \/ SingleQuote \/ OtherCharacter \/ Replace
  PROVE  (InText \/ InHome)'
<1>1. ~Misleads /\ ~HomeReread
  BY Zenon DEF Sound
<1>2. CASE InHome
  <2>1. InHome' \/ InText'
    BY <1>1, <1>2, HomeStep, Zenon
  <2> QED
    BY <2>1, Zenon
<1>3. CASE InText
  <2>1. PICK k \in 0 .. Len(given) : AtCharacter(k)
    BY <1>3, Zenon DEF InText
  <2>2. CASE DoubleQuote
    BY <1>1, <2>1, <2>2, DoubleQuoteAt, Zenon
  <2>3. CASE SingleQuote
    BY <1>1, <2>1, <2>3, SingleQuoteAt, Zenon
  <2>4. CASE OtherCharacter
    BY <1>1, <2>1, <2>4, OtherCharacterAt, Zenon
  <2>5. CASE Replace
    BY <1>1, <2>1, <2>5, ValueReplaces, Zenon
  <2> QED
    BY <2>2, <2>3, <2>4, <2>5, Zenon
<1> QED
  BY <1>2, <1>3, Zenon

LEMMA WalkStep ==
  ASSUME Walk, [Next]_vars
  PROVE  Walk'
<1>1. Typed'
  BY TypedStep, Zenon DEF Walk
<1>2. given \in Word /\ env \in Environments /\ word \in Seq(Char) /\ j \in 0 .. Len(word)
  BY Zenon DEF Walk, Typed
<1>3. UNCHANGED <<given, env>>
  BY Zenon DEF Next, Pass, TildeExpansion, DoubleQuote, SingleQuote, OtherCharacter,
               Replace, EnvExpanded, RemoveQuotes, QuotesRemoved, Done, Forward, vars
<1>4. /\ Sound' <=> Sound
      /\ UNCHANGED Expansion(TRUE) /\ UNCHANGED Expansion(FALSE)
  <2>1. Misleads' = Misleads /\ HomeReread' = HomeReread
    BY <1>3, ReferenceStays, Zenon
  <2>2. UNCHANGED Expansion(TRUE) /\ UNCHANGED Expansion(FALSE)
    BY <1>3, ReferenceStays, Zenon
  <2> QED
    BY <2>1, <2>2, Zenon DEF Sound
<1>5. Unquoted' <=> Unquoted
  BY <1>3, Zenon DEF Unquoted
<1>6. CASE TildeExpansion
  <2>1. phase = "tilde" /\ phase' = "env"
    BY <1>6, Zenon DEF TildeExpansion
  <2>2. word = given /\ j = 0
    BY <2>1, Zenon DEF Walk, Typed
  <2>3. ~squotemode /\ ~dquotemode
    BY <2>1, Zenon DEF Walk
  <2>4. InHome' \/ InText'
    BY <1>2, <1>6, <2>2, <2>3, TildeAt, Zenon
  <2>5. phase' # "tilde" /\ phase' \notin {"quotes", "done"} /\ phase' # "quotes" /\ phase' # "done"
    BY <2>1
  <2> QED
    BY <1>1, <2>4, <2>5, Zenon DEF Walk
<1>7. CASE DoubleQuote \/ SingleQuote \/ OtherCharacter \/ Replace
  <2>1. phase = "env" /\ phase' = phase
    BY <1>7, Zenon DEF DoubleQuote, SingleQuote, OtherCharacter, Replace, InEnv, Forward
  <2>2. Sound => (InText \/ InHome)'
    BY <1>2, <1>7, <2>1, EnvTurn, Zenon DEF Walk
  <2>3. /\ phase' # "tilde" /\ phase' \notin {"quotes", "done"} /\ phase' # "quotes"
        /\ phase' # "done"
    BY <2>1
  <2> QED
    BY <1>1, <1>4, <2>2, <2>3, Zenon DEF Walk
<1>8. CASE EnvExpanded
  <2>1. phase = "env" /\ phase' = "quotes" /\ expanded' = word /\ word' = word /\ j' = 0
    BY <1>8, Zenon DEF EnvExpanded
  <2>2. Sound => word = Expansion(TRUE)[Len(given)]
    <3> SUFFICES ASSUME Sound PROVE word = Expansion(TRUE)[Len(given)]
      OBVIOUS
    <3>1. ~HomeReread
      BY Zenon DEF Sound
    <3>2. ~InHome
      BY <1>2, <1>8, <3>1, HomeStep, Zenon
    <3>3. InText
      BY <2>1, <3>2, Zenon DEF Walk
    <3> QED
      BY <1>2, <1>8, <3>3, EnvDone, Zenon
  <2>3. Sound => InRemoval'
    BY <1>2, <1>3, <2>1, <2>2, RemovalBegins, Zenon
  <2>4. Sound => expanded' = Expansion(TRUE)'[Len(given')]
    BY <1>3, <1>4, <2>1, <2>2
  <2>5. phase' # "tilde" /\ phase' # "env" /\ phase' # "done"
    BY <2>1
  <2> QED
    BY <1>1, <1>4, <2>3, <2>4, <2>5, Zenon DEF Walk
<1>9. CASE RemoveQuotes
  <2>1. phase = "quotes" /\ phase' = "quotes" /\ expanded' = expanded /\ Closing < Len(word)
    BY <1>9, Zenon DEF RemoveQuotes
  <2>2. Sound => expanded' = Expansion(TRUE)'[Len(given')]
    <3>1. phase \in {"quotes", "done"}
      BY <2>1
    <3>2. Sound => expanded = Expansion(TRUE)[Len(given)]
      BY <3>1, Zenon DEF Walk
    <3> QED
      BY <1>3, <1>4, <2>1, <3>2
  <2>3. ASSUME Sound, Unquoted PROVE InRemoval'
    <3>1. PICK k \in 0 .. Len(given) : Removed(k)
      BY <2>1, <2>3, Zenon DEF Walk, InRemoval
    <3>2. CASE \E i \in k + 1 .. Len(given) : given[i] \in Quotes
      <4>1. \E b \in 0 .. Len(given) :
                /\ Modes(given)[b] = "plain"
                /\ word' = Expansion(FALSE)[b] \o Section(Expansion(TRUE), b, Len(given))
                /\ j' = Len(Expansion(FALSE)[b])
        BY <1>2, <1>9, <2>3, <3>1, <3>2, RemoveNext, Zenon
      <4> QED
        BY <1>3, <4>1, RemovedNext, Zenon
    <3>3. CASE ~\E i \in k + 1 .. Len(given) : given[i] \in Quotes
      <4>1. Closing >= Len(word)
        BY <1>2, <2>3, <3>1, <3>3, RemovalDone, Zenon
      <4>2. Closing \in Nat /\ Len(word) \in Nat
        BY <1>2, QuotesAre
      <4> QED
        BY <2>1, <4>1, <4>2
    <3> QED
      BY <3>2, <3>3
  <2>4. phase' # "tilde" /\ phase' # "env" /\ phase' # "done"
    BY <2>1
  <2> QED
    BY <1>1, <1>4, <1>5, <2>2, <2>3, <2>4, Zenon DEF Walk
<1>10. CASE QuotesRemoved
  <2>1. /\ phase = "quotes" /\ phase' = "done" /\ expanded' = expanded /\ word' = word
        /\ Closing >= Len(word)
    BY <1>10, Zenon DEF QuotesRemoved
  <2>2. Sound => expanded' = Expansion(TRUE)'[Len(given')]
    <3>1. phase \in {"quotes", "done"}
      BY <2>1
    <3>2. Sound => expanded = Expansion(TRUE)[Len(given)]
      BY <3>1, Zenon DEF Walk
    <3> QED
      BY <1>3, <1>4, <2>1, <3>2
  <2>3. ASSUME Sound, Unquoted PROVE word' = Expansion(FALSE)'[Len(given')]
    <3>1. PICK k \in 0 .. Len(given) : Removed(k)
      BY <2>1, <2>3, Zenon DEF Walk, InRemoval
    <3>2. ~\E i \in k + 1 .. Len(given) : given[i] \in Quotes
      <4> SUFFICES ASSUME \E i \in k + 1 .. Len(given) : given[i] \in Quotes PROVE FALSE
        OBVIOUS
      <4>1. Closing < Len(word)
        BY <1>2, <2>3, <3>1, RemoveNext, Zenon
      <4>2. Closing \in Nat /\ Len(word) \in Nat
        BY <1>2, QuotesAre
      <4> QED
        BY <2>1, <4>1, <4>2
    <3>3. word = Expansion(FALSE)[Len(given)]
      BY <1>2, <2>3, <3>1, <3>2, RemovalDone, Zenon
    <3> QED
      BY <1>3, <1>4, <2>1, <3>3
  <2>4. phase' # "tilde" /\ phase' # "env" /\ phase' # "quotes"
    BY <2>1
  <2> QED
    BY <1>1, <1>4, <1>5, <2>2, <2>3, <2>4, Zenon DEF Walk
<1>11. CASE UNCHANGED vars \/ Done
  <2>1. UNCHANGED vars
    BY <1>11, Zenon DEF Done
  <2>2. UNCHANGED <<given, word, phase, j, squotemode, dquotemode, expanded>>
    BY <2>1, Zenon DEF vars
  <2>3. ASSUME InText PROVE InText'
    <3>1. PICK k \in 0 .. Len(given) : AtCharacter(k)
      BY <2>3, Zenon DEF InText
    <3> QED
      BY <1>3, <2>2, <3>1, AtNext, Zenon DEF AtCharacter
  <2>4. ASSUME InHome PROVE InHome'
    BY <1>3, <2>2, <2>4, HomeNext, Zenon DEF InHome
  <2>5. ASSUME InRemoval PROVE InRemoval'
    <3>1. PICK k \in 0 .. Len(given) : Removed(k)
      BY <2>5, Zenon DEF InRemoval
    <3> QED
      BY <1>3, <2>2, <3>1, RemovedNext, Zenon DEF Removed
  <2>6. phase' = "tilde" => ~squotemode' /\ ~dquotemode'
    BY <2>2, Zenon DEF Walk
  <2>7. Sound' /\ phase' = "env" => (InText \/ InHome)'
    BY <1>4, <2>2, <2>3, <2>4, Zenon DEF Walk
  <2>8. Sound' /\ phase' \in {"quotes", "done"} => expanded' = Expansion(TRUE)'[Len(given')]
    BY <1>3, <1>4, <2>2, Zenon DEF Walk
  <2>9. Sound' /\ Unquoted' /\ phase' = "quotes" => InRemoval'
    BY <1>4, <1>5, <2>2, <2>5, Zenon DEF Walk
  <2>10. Sound' /\ Unquoted' /\ phase' = "done" => word' = Expansion(FALSE)'[Len(given')]
    BY <1>3, <1>4, <1>5, <2>2, Zenon DEF Walk
  <2> QED
    BY <1>1, <2>6, <2>7, <2>8, <2>9, <2>10, Zenon DEF Walk
<1> QED
  BY <1>6, <1>7, <1>8, <1>9, <1>10, <1>11, Zenon DEF Next, Pass

LEMMA WalkInv == Spec => []Walk
<1>1. Walk /\ [Next]_vars => Walk'
  BY WalkStep
<1> QED
  BY WalkInit, <1>1, PTL DEF Spec

\* env_expansion leaves what the user has typed with every name that is meant as
\* one replaced, once, and nothing else changed: neither a value nor a name that
\* single quotes enclose is read.
THEOREM NamesExpandedOnce == Spec => []ExpandsOnce
<1>1. Walk => ExpandsOnce
  <2> SUFFICES ASSUME Walk, phase \in {"quotes", "done"}, ~Misleads, ~HomeReread
               PROVE  expanded = Reference(given, TRUE)
    BY Zenon DEF ExpandsOnce
  <2>1. given \in Word /\ env \in Environments
    BY Zenon DEF Walk, Typed
  <2>2. expanded = Expansion(TRUE)[Len(given)]
    BY Zenon DEF Walk, Sound
  <2>3. Reference(given, TRUE) = Expansion(TRUE)[Len(given)]
    BY <2>1, PiecesAre
  <2> QED
    BY <2>2, <2>3
<1> QED
  BY WalkInv, <1>1, PTL

\* All passes together leave what was meant: the quotes that enclose something are
\* gone, those that they enclose are not, and a command gets every other character
\* as it was typed.
THEOREM WordsMeant == Spec => []MeansWhatIsTyped
<1>1. Walk => MeansWhatIsTyped
  <2> SUFFICES ASSUME Walk, phase = "done", ~Misleads, ~HomeReread, Unquoted
               PROVE  word = Reference(given, FALSE)
    BY Zenon DEF MeansWhatIsTyped, Unquoted
  <2>1. given \in Word /\ env \in Environments
    BY Zenon DEF Walk, Typed
  <2>2. word = Expansion(FALSE)[Len(given)]
    BY Zenon DEF Walk, Sound
  <2>3. Reference(given, FALSE) = Expansion(FALSE)[Len(given)]
    BY <2>1, PiecesAre
  <2> QED
    BY <2>2, <2>3
<1> QED
  BY WalkInv, <1>1, PTL

=============================================================================
