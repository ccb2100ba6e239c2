----------------------------- MODULE LexerProofs -----------------------------
(***************************************************************************)
(* Proofs about Lexer, for lines of any length over any characters.        *)
(***************************************************************************)
EXTENDS Lexer, FiniteSetTheorems, SequenceTheorems, WellFoundedInduction, TLAPS

-----------------------------------------------------------------------------
(* Numbers                                                                 *)

LEMMA Least ==
  ASSUME NEW S, S \subseteq Nat, S # {}
  PROVE  \E x \in S : \A y \in S : x =< y
<1>1. \E x \in S : \A y \in S : ~(<<y, x>> \in OpToRel(<, Nat))
  BY WFMin, NatLessThanWellFounded
<1>2. OpToRel(<, Nat) = {ss \in Nat \X Nat : ss[1] < ss[2]}
  BY Zenon DEF OpToRel
<1>3. PICK x \in S : \A y \in S : <<y, x>> \notin {ss \in Nat \X Nat : ss[1] < ss[2]}
  BY <1>1, <1>2
<1>4. ASSUME NEW y \in S, y < x PROVE FALSE
  <2> DEFINE pair == <<y, x>>
  <2>1. pair \in Nat \X Nat /\ pair[1] < pair[2]
    BY <1>4
  <2> QED
    BY <1>3, <2>1
<1> QED
  BY <1>4

\* The place before.
LEMMA Before1 ==
  ASSUME NEW n \in Nat, NEW i \in 1 .. n, i # 1
  PROVE  i - 1 \in 1 .. n /\ i \in 2 .. n /\ i > 1 /\ i \in Nat
OBVIOUS

LEMMA After1 ==
  ASSUME NEW n \in Nat, NEW i \in 2 .. n
  PROVE  i - 1 \in 1 .. n /\ i \in 1 .. n /\ i # 1 /\ i > 1 /\ i \in Nat
OBVIOUS

LEMMA Plus1 ==
  ASSUME NEW n \in Nat
  PROVE  n + 1 \in Nat /\ n + 1 # 0 /\ 1 \in 1 .. n + 1
OBVIOUS

LEMMA One ==
  ASSUME NEW n \in Nat, n # 0
  PROVE  1 \in 1 .. n /\ ~(1 > 1)
OBVIOUS

\* Induction on a set of numbers.
LEMMA Induct ==
  ASSUME NEW m \in Nat, NEW n \in Nat, NEW S, m \in S,
         \A i \in m + 1 .. n : i - 1 \in S => i \in S
  PROVE  m .. n \subseteq S
<1> DEFINE B == {i \in m .. n : i \notin S}
<1>1. SUFFICES ASSUME B # {} PROVE FALSE
  OBVIOUS
<1>2. B \subseteq Nat
  OBVIOUS
<1>3. PICK l \in B : \A y \in B : l =< y
  BY <1>1, <1>2, Least
<1>4. l \in m + 1 .. n /\ l - 1 \in m .. n
  BY <1>3
<1>5. l - 1 \notin B
  BY <1>3, <1>4
<1> QED
  BY <1>3, <1>4, <1>5

LEMMA FromOne ==
  ASSUME NEW n \in Nat, NEW S, n > 0 => 1 \in S,
         \A i \in 2 .. n : i - 1 \in S => i \in S
  PROVE  \A i \in 1 .. n : i \in S
<1>1. CASE n > 0
  <2>1. 1 .. n \subseteq S
    <3>1. \A i \in 1 + 1 .. n : i - 1 \in S => i \in S
      OBVIOUS
    <3> QED
      BY <1>1, <3>1, Induct
  <2> QED
    BY <2>1
<1>2. CASE ~(n > 0)
  BY <1>2
<1> QED
  BY <1>1, <1>2

-----------------------------------------------------------------------------
(* Functions that are defined place by place                               *)

\* F is a at 1, and G[i] of what it is at i - 1 at each other i.
Runs(F, a, G, n) == F = [i \in 1 .. n |-> IF i = 1 THEN a ELSE G[i][F[i - 1]]]

LEMMA RunsExist ==
  ASSUME NEW V, NEW a \in V, NEW n \in Nat, NEW G \in [1 .. n -> [V -> V]]
  PROVE  \E F \in [1 .. n -> V] : Runs(F, a, G, n)
<1> DEFINE S == {k \in 0 .. n : \E F \in [1 .. k -> V] : Runs(F, a, G, k)}
<1>1. 0 \in S
  <2> DEFINE F == [i \in 1 .. 0 |-> a]
  <2>1. F \in [1 .. 0 -> V]
    OBVIOUS
  <2>2. F = [i \in 1 .. 0 |-> IF i = 1 THEN a ELSE G[i][F[i - 1]]]
    OBVIOUS
  <2> HIDE DEF F
  <2>3. Runs(F, a, G, 0)
    BY <2>2 DEF Runs
  <2>4. \E E \in [1 .. 0 -> V] : Runs(E, a, G, 0)
    BY <2>1, <2>3, Zenon
  <2>5. 0 \in 0 .. n
    OBVIOUS
  <2> QED
    BY <2>4, <2>5, Zenon
<1>2. ASSUME NEW k \in 0 + 1 .. n, k - 1 \in S PROVE k \in S
  <2>1. PICK F \in [1 .. k - 1 -> V] : Runs(F, a, G, k - 1)
    BY <1>2
  <2> DEFINE next == IF k = 1 THEN a ELSE G[k][F[k - 1]]
             H == [i \in 1 .. k |-> IF i = k THEN next ELSE F[i]]
  <2>2. k \in 1 .. n /\ k \in Nat
    OBVIOUS
  <2>3. next \in V
    <3>1. CASE k = 1
      BY <3>1
    <3>2. CASE k # 1
      <4>1. k - 1 \in 1 .. k - 1
        BY <2>2, <3>2
      <4>2. F[k - 1] \in V /\ G[k] \in [V -> V]
        BY <2>2, <4>1
      <4> QED
        BY <3>2, <4>2
    <3> QED
      BY <3>1, <3>2
  <2>4. H \in [1 .. k -> V]
    <3> SUFFICES ASSUME NEW i \in 1 .. k, i # k PROVE F[i] \in V
      BY <2>3
    <3>1. i \in 1 .. k - 1
      BY <2>2
    <3> QED
      BY <3>1
  <2>5. ASSUME NEW i \in 1 .. k
        PROVE  H[i] = IF i = 1 THEN a ELSE G[i][H[i - 1]]
    <3>1. CASE i = k
      <4>1. CASE k = 1
        BY <3>1, <4>1
      <4>2. CASE k # 1
        <5>1. k - 1 \in 1 .. k /\ k - 1 # k
          BY <2>2, <4>2
        <5>2. H[k - 1] = F[k - 1]
          BY <5>1
        <5> QED
          BY <3>1, <4>2, <5>2
      <4> QED
        BY <4>1, <4>2
    <3>2. CASE i # k
      <4>1. i \in 1 .. k - 1
        BY <2>2, <3>2
      <4>2. F[i] = IF i = 1 THEN a ELSE G[i][F[i - 1]]
        BY <2>1, <4>1 DEF Runs
      <4>3. CASE i # 1
        <5>1. i - 1 \in 1 .. k /\ i - 1 # k
          BY <2>2, <4>1, <4>3
        <5>2. H[i - 1] = F[i - 1]
          BY <5>1
        <5> QED
          BY <3>2, <4>2, <4>3, <5>2
      <4> QED
        BY <3>2, <4>2, <4>3
    <3> QED
      BY <3>1, <3>2
  <2>6. H = [i \in 1 .. k |-> IF i = 1 THEN a ELSE G[i][H[i - 1]]]
    BY <2>5
  <2> HIDE DEF H, next
  <2>7. Runs(H, a, G, k)
    BY <2>6 DEF Runs
  <2> QED
    BY <2>2, <2>4, <2>7
<1> HIDE DEF S
<1>3. 0 .. n \subseteq S
  BY <1>1, <1>2, Induct
<1>4. n \in S
  BY <1>3
<1> QED
  BY <1>4 DEF S

-----------------------------------------------------------------------------
(* The quotation and the role of each character                            *)

Opened(o, c) ==
  IF o = "" THEN IF c \in Quote THEN c ELSE ""
  ELSE IF c = o THEN "" ELSE o

LEMMA OpenIs ==
  ASSUME NEW s, Len(s) \in Nat
  PROVE  /\ Open(s)[1] = ""
         /\ \A i \in 2 .. Len(s) + 1 : Open(s)[i] = Opened(Open(s)[i - 1], s[i - 1])
         /\ \A i \in 1 .. Len(s) + 1 : Open(s)[i] \in Quote \cup {""}
<1> DEFINE V == Quote \cup {""}
           n == Len(s) + 1
           G == [i \in 1 .. n |-> [o \in V |-> Opened(o, s[i - 1])]]
<1>1. n \in Nat /\ "" \in V
  OBVIOUS
<1>2. G \in [1 .. n -> [V -> V]]
  BY DEF Opened
<1>3. PICK F \in [1 .. n -> V] : Runs(F, "", G, n)
  <2> HIDE DEF V, n, G
  <2> QED
    BY <1>1, <1>2, RunsExist
<1>4. F = [i \in 1 .. n |-> IF i = 1 THEN "" ELSE Opened(F[i - 1], s[i - 1])]
  <2>1. ASSUME NEW i \in 1 .. n
        PROVE  F[i] = IF i = 1 THEN "" ELSE Opened(F[i - 1], s[i - 1])
    <3>1. F[i] = IF i = 1 THEN "" ELSE G[i][F[i - 1]]
      <4> HIDE DEF n, V, G
      <4> QED
        BY <1>3 DEF Runs
    <3>2. CASE i # 1
      <4>1. i - 1 \in 1 .. n
        <5> HIDE DEF n
        <5> QED
          BY <1>1, <3>2, Before1, Zenon
      <4>2. F[i - 1] \in V
        <5> HIDE DEF n, V, G
        <5> QED
          BY <1>3, <4>1
      <4>3. G[i][F[i - 1]] = Opened(F[i - 1], s[i - 1])
        <5>1. G[i] = [o \in V |-> Opened(o, s[i - 1])]
          <6> HIDE DEF n, V
          <6> QED
            OBVIOUS
        <5> HIDE DEF n, V, G
        <5> QED
          BY <4>2, <5>1
      <4> QED
        BY <3>1, <3>2, <4>3, Zenon
    <3> QED
      BY <3>1, <3>2
  <2> QED
    BY <2>1
<1>5. Open(s) = [i \in 1 .. Len(s) + 1 |->
                   IF i = 1 THEN "" ELSE Opened(Open(s)[i - 1], s[i - 1])]
  <2>1. \E open : open = [i \in 1 .. Len(s) + 1 |->
                   IF i = 1 THEN ""
                   ELSE IF open[i - 1] = "" THEN IF s[i - 1] \in Quote THEN s[i - 1] ELSE ""
                   ELSE IF s[i - 1] = open[i - 1] THEN "" ELSE open[i - 1]]
    BY <1>4 DEF Opened
  <2> QED
    BY <2>1 DEF Open, Opened
<1> DEFINE O == Open(s)
<1>6. O = [i \in 1 .. n |-> IF i = 1 THEN "" ELSE Opened(O[i - 1], s[i - 1])]
  BY <1>5
<1>11. n # 0
  BY Plus1, Zenon
<1> HIDE DEF O, n
<1>7. O[1] = ""
  <2>1. 1 \in 1 .. n
    BY <1>1, <1>11, One, Zenon
  <2> QED
    BY <1>6, <2>1
<1>8. ASSUME NEW i \in 2 .. n PROVE O[i] = Opened(O[i - 1], s[i - 1])
  <2>1. i \in 1 .. n /\ i # 1
    BY <1>1, After1, Zenon
  <2> QED
    BY <1>6, <2>1
<1>9. \A i \in 1 .. n : O[i] \in V
  <2> DEFINE S == {i \in Nat : O[i] \in V}
  <2>1. n > 0 => 1 \in S
    BY <1>7
  <2>2. ASSUME NEW i \in 2 .. n, i - 1 \in S PROVE i \in S
    <3>1. O[i] = Opened(O[i - 1], s[i - 1]) /\ O[i - 1] \in V
      BY <1>8, <2>2
    <3>2. i \in Nat
      BY <1>1, After1, Zenon
    <3>3. O[i] \in V
      BY <3>1 DEF Opened
    <3> QED
      BY <3>2, <3>3
  <2> HIDE DEF S
  <2>3. \A i \in 1 .. n : i \in S
    BY <1>1, <2>1, <2>2, FromOne, Zenon
  <2> QED
    BY <2>3 DEF S
<1> QED
  BY <1>7, <1>8, <1>9 DEF O, n

\* The role of a character c, before which o is open, behind a character b with role r.
Role(o, r, b, c) ==
  IF o # "" THEN "word"
  ELSE IF r = "first" /\ <<b, c>> \in Operator THEN "second"
  ELSE IF <<c>> \in Operator THEN "first"
  ELSE IF c \in White THEN "white"
  ELSE "word"

LEMMA RolesAre ==
  ASSUME NEW s, Len(s) \in Nat
  PROVE  /\ Len(s) > 0 => Roles(s)[1] = Role(Open(s)[1], "", "", s[1])
         /\ \A i \in 2 .. Len(s) :
              Roles(s)[i] = Role(Open(s)[i], Roles(s)[i - 1], s[i - 1], s[i])
<1> DEFINE V == {"word", "second", "first", "white"}
           n == Len(s)
           a == Role(Open(s)[1], "", "", s[1])
           G == [i \in 1 .. n |-> [r \in V |-> Role(Open(s)[i], r, s[i - 1], s[i])]]
<1>0. ~(1 > 1)
  OBVIOUS
<1>1. n \in Nat /\ a \in V
  BY DEF Role
<1>2. G \in [1 .. n -> [V -> V]]
  BY DEF Role
<1>3. PICK F \in [1 .. n -> V] : Runs(F, a, G, n)
  <2> HIDE DEF V, n, G, a
  <2> QED
    BY <1>1, <1>2, RunsExist
<1>4. ASSUME NEW i \in 1 .. n
      PROVE  F[i] = IF i = 1 THEN a ELSE Role(Open(s)[i], F[i - 1], s[i - 1], s[i])
  <2>1. F[i] = IF i = 1 THEN a ELSE G[i][F[i - 1]]
    BY <1>3 DEF Runs
  <2>2. CASE i # 1
    <3>1. i - 1 \in 1 .. n
      BY <2>2
    <3>2. F[i - 1] \in V
      BY <3>1
    <3> QED
      BY <2>1, <2>2, <3>2
  <2> QED
    BY <2>1, <2>2
<1>5. Roles(s) = [i \in 1 .. Len(s) |->
         IF Open(s)[i] # "" THEN "word"
         ELSE IF i > 1 /\ Roles(s)[i - 1] = "first" /\ <<s[i - 1], s[i]>> \in Operator
         THEN "second"
         ELSE IF <<s[i]>> \in Operator THEN "first"
         ELSE IF s[i] \in White THEN "white"
         ELSE "word"]
  <2>1. F = [i \in 1 .. Len(s) |->
         IF Open(s)[i] # "" THEN "word"
         ELSE IF i > 1 /\ F[i - 1] = "first" /\ <<s[i - 1], s[i]>> \in Operator
         THEN "second"
         ELSE IF <<s[i]>> \in Operator THEN "first"
         ELSE IF s[i] \in White THEN "white"
         ELSE "word"]
    <3>1. ASSUME NEW i \in 1 .. n
          PROVE  F[i] = IF Open(s)[i] # "" THEN "word"
                        ELSE IF i > 1 /\ F[i - 1] = "first" /\ <<s[i - 1], s[i]>> \in Operator
                        THEN "second"
                        ELSE IF <<s[i]>> \in Operator THEN "first"
                        ELSE IF s[i] \in White THEN "white"
                        ELSE "word"
      <4>1. CASE i = 1
        <5>1. ~(i > 1) /\ F[i] = Role(Open(s)[i], "", "", s[i])
          <6>1. F[i] = Role(Open(s)[i], "", "", s[i])
            BY <1>4, <4>1, Zenon
          <6> QED
            BY <1>0, <4>1, <6>1, Zenon
        <5> QED
          BY <5>1, Zenon DEF Role
      <4>2. CASE i # 1
        <5>1. i > 1 /\ F[i] = Role(Open(s)[i], F[i - 1], s[i - 1], s[i])
          <6>1. i > 1
            <7> HIDE DEF n
            <7> QED
              BY <1>1, <4>2, Before1, Zenon
          <6> QED
            BY <1>4, <4>2, <6>1, Zenon
        <5> QED
          BY <5>1, Zenon DEF Role
      <4> QED
        BY <4>1, <4>2
    <3> QED
      BY <3>1
  <2> QED
    BY <2>1 DEF Roles
<1> DEFINE R == Roles(s)
<1>6. ASSUME NEW i \in 1 .. n
      PROVE  R[i] = IF Open(s)[i] # "" THEN "word"
                    ELSE IF i > 1 /\ R[i - 1] = "first" /\ <<s[i - 1], s[i]>> \in Operator
                    THEN "second"
                    ELSE IF <<s[i]>> \in Operator THEN "first"
                    ELSE IF s[i] \in White THEN "white"
                    ELSE "word"
  BY <1>5
<1> HIDE DEF R, n
<1>7. ASSUME n > 0 PROVE R[1] = a
  <2>1. 1 \in 1 .. n /\ ~(1 > 1)
    <3>1. n # 0
      BY <1>7
    <3> QED
      BY <1>1, <3>1, One, Zenon
  <2> QED
    BY <1>6, <2>1, Zenon DEF Role
<1>8. ASSUME NEW i \in 2 .. n PROVE R[i] = Role(Open(s)[i], R[i - 1], s[i - 1], s[i])
  <2>1. i \in 1 .. n /\ i > 1
    BY <1>1, After1, Zenon
  <2> QED
    BY <1>6, <2>1, Zenon DEF Role
<1> QED
  BY <1>7, <1>8, Zenon DEF R, n

\* t begins with s.
Grows(s, t) ==
  /\ Len(s) \in Nat /\ Len(t) \in Nat /\ Len(s) =< Len(t)
  /\ \A i \in 1 .. Len(s) : t[i] = s[i]

\* What is known of a character does not depend on those behind it.
LEMMA RolesGrow ==
  ASSUME NEW s, NEW t, Grows(s, t)
  PROVE  /\ \A i \in 1 .. Len(s) + 1 : Open(t)[i] = Open(s)[i]
         /\ \A i \in 1 .. Len(s) : Roles(t)[i] = Roles(s)[i]
<1> DEFINE n == Len(s)
           m == Len(t)
           O == Open(s)
           P == Open(t)
           R == Roles(s)
           Q == Roles(t)
<1>1. n \in Nat /\ m \in Nat /\ n =< m /\ \A i \in 1 .. n : t[i] = s[i]
  BY DEF Grows
<1>2. /\ O[1] = "" /\ P[1] = ""
      /\ \A i \in 2 .. n + 1 : O[i] = Opened(O[i - 1], s[i - 1])
      /\ \A i \in 2 .. m + 1 : P[i] = Opened(P[i - 1], t[i - 1])
  BY <1>1, OpenIs
<1>3. /\ n > 0 => R[1] = Role(O[1], "", "", s[1])
      /\ \A i \in 2 .. n : R[i] = Role(O[i], R[i - 1], s[i - 1], s[i])
  BY <1>1, RolesAre
<1>4. /\ m > 0 => Q[1] = Role(P[1], "", "", t[1])
      /\ \A i \in 2 .. m : Q[i] = Role(P[i], Q[i - 1], t[i - 1], t[i])
  BY <1>1, RolesAre
<1> HIDE DEF n, m, O, P, R, Q
<1>5. \A i \in 1 .. n + 1 : P[i] = O[i]
  <2> DEFINE S == {i \in Nat : P[i] = O[i]}
  <2>1. (n + 1 > 0 => 1 \in S) /\ n + 1 \in Nat
    <3>1. P[1] = O[1]
      BY <1>2, Zenon
    <3>2. 1 \in Nat /\ n + 1 \in Nat
      BY <1>1
    <3> QED
      BY <3>1, <3>2, Zenon
  <2>2. ASSUME NEW i \in 2 .. n + 1, i - 1 \in S PROVE i \in S
    <3>1. i \in 2 .. m + 1 /\ i - 1 \in 1 .. n /\ i \in Nat
      BY <1>1
    <3>2. P[i - 1] = O[i - 1]
      BY <2>2
    <3>3. P[i] = O[i]
      BY <1>1, <1>2, <3>1, <3>2, Zenon
    <3> QED
      BY <3>1, <3>3
  <2> HIDE DEF S
  <2>3. \A i \in 1 .. n + 1 : i \in S
    BY <2>1, <2>2, FromOne, Zenon
  <2> QED
    BY <2>3 DEF S
<1>6. \A i \in 1 .. n : Q[i] = R[i]
  <2> DEFINE S == {i \in Nat : Q[i] = R[i]}
  <2>1. ASSUME n > 0 PROVE 1 \in S
    <3>1. 1 \in 1 .. n /\ 1 \in 1 .. n + 1 /\ m > 0
      BY <1>1, <2>1
    <3>2. t[1] = s[1] /\ P[1] = O[1]
      BY <1>1, <1>5, <3>1
    <3>3. Q[1] = R[1]
      BY <1>3, <1>4, <2>1, <3>1, <3>2, Zenon
    <3> QED
      BY <3>3
  <2>2. ASSUME NEW i \in 2 .. n, i - 1 \in S PROVE i \in S
    <3>1. /\ i \in 2 .. m /\ i - 1 \in 1 .. n /\ i \in 1 .. n /\ i \in 1 .. n + 1
          /\ i \in Nat
      BY <1>1
    <3>2. Q[i - 1] = R[i - 1]
      BY <2>2
    <3>3. t[i] = s[i] /\ t[i - 1] = s[i - 1] /\ P[i] = O[i]
      BY <1>1, <1>5, <3>1, Zenon
    <3>4. Q[i] = R[i]
      BY <1>3, <1>4, <3>1, <3>2, <3>3, Zenon
    <3> QED
      BY <3>1, <3>4
  <2> HIDE DEF S
  <2>3. \A i \in 1 .. n : i \in S
    BY <1>1, <2>1, <2>2, FromOne, Zenon
  <2> QED
    BY <2>3 DEF S
<1> QED
  BY <1>5, <1>6 DEF n, O, P, R, Q

-----------------------------------------------------------------------------
(* Operators                                                               *)

Bar == {">", "<", "|", ";"}

\* Each operator has one character or two, and each character that begins one
\* is one.
LEMMA OperatorsAre ==
  /\ \A x : <<x>> \in Operator <=> x \in Bar
  /\ \A x : (\E o \in Operator : o[1] = x) <=> x \in Bar
  /\ \A o \in Operator : Len(o) \in {1, 2}
  /\ \A x, y : <<x, y>> \in Operator => y \in {"&", ">", "<"}
<1>1. ASSUME NEW o \in Operator PROVE Len(o) \in {1, 2} /\ o[1] \in Bar
  <2>1. \/ o = <<">">> \/ o = <<">", "&">> \/ o = <<">", ">">> \/ o = <<"<">>
        \/ o = <<"<", "&">> \/ o = <<"<", "<">> \/ o = <<"|">> \/ o = <<";">>
    BY Zenon DEF Operator
  <2>2. ASSUME NEW x, o = <<x>> PROVE Len(o) = 1 /\ o[1] = x
    BY <2>2
  <2>3. ASSUME NEW x, NEW y, o = <<x, y>> PROVE Len(o) = 2 /\ o[1] = x
    BY <2>3
  <2>4. Len(o) = 1 \/ Len(o) = 2
    BY <2>1, <2>2, <2>3, Zenon
  <2>5. o[1] = ">" \/ o[1] = "<" \/ o[1] = "|" \/ o[1] = ";"
    <3>1. CASE \/ o = <<">">> \/ o = <<">", "&">> \/ o = <<">", ">">>
      BY <2>2, <2>3, <3>1, Zenon
    <3>2. CASE o = <<"<">> \/ o = <<"<", "&">> \/ o = <<"<", "<">>
      BY <2>2, <2>3, <3>2, Zenon
    <3>3. CASE o = <<"|">> \/ o = <<";">>
      BY <2>2, <3>3, Zenon
    <3> QED
      BY <2>1, <3>1, <3>2, <3>3, Zenon
  <2> QED
    BY <2>4, <2>5, Zenon DEF Bar
<1>2. ASSUME NEW x, <<x>> \in Operator PROVE x \in Bar
  <2>1. <<x>>[1] = x
    OBVIOUS
  <2> QED
    BY <1>1, <1>2, <2>1
<1>3. ASSUME NEW x \in Bar PROVE <<x>> \in Operator /\ <<x>>[1] = x
  BY DEF Operator, Bar
<1>4. ASSUME NEW x, NEW y, <<x, y>> \in Operator PROVE y \in {"&", ">", "<"}
  <2>1. \/ <<x, y>> = <<">">> \/ <<x, y>> = <<">", "&">> \/ <<x, y>> = <<">", ">">>
        \/ <<x, y>> = <<"<">> \/ <<x, y>> = <<"<", "&">> \/ <<x, y>> = <<"<", "<">>
        \/ <<x, y>> = <<"|">> \/ <<x, y>> = <<";">>
    BY <1>4, Zenon DEF Operator
  <2>2. \A z : <<x, y>> # <<z>>
    <3>1. ASSUME NEW z, <<x, y>> = <<z>> PROVE FALSE
      <4>1. Len(<<x, y>>) = 2 /\ Len(<<z>>) = 1
        OBVIOUS
      <4> QED
        BY <3>1, <4>1
    <3> QED
      BY <3>1
  <2>3. \A u, v : <<x, y>> = <<u, v>> => y = v
    OBVIOUS
  <2>4. y = "&" \/ y = ">" \/ y = "<"
    BY <2>1, <2>2, <2>3, Zenon
  <2> QED
    BY <2>4, Zenon
<1> QED
  BY <1>1, <1>2, <1>3, <1>4

\* No character means two things.
LEMMA CharactersAre ==
  /\ \A c \in Character : c \in Bar \/ c \in Quote \/ c \in White \/ c \in Plain \cup Digit \cup {"&"}
  /\ \A c \in Quote : c \notin Bar /\ c \notin White
  /\ \A c \in White : c \notin Bar
  /\ \A c \in Plain \cup Digit \cup {"&"} : c \notin Bar /\ c \notin White /\ c \notin Quote
  /\ " " \in White /\ " " \notin Quote
BY CharacterAssumption DEF Character, Bar, Quote, White

-----------------------------------------------------------------------------
(* Tokens                                                                  *)

\* What a text is made of.
Letter == Character \cup {"\n"}

Text == Seq(Letter)

\* No quotation is open before the character k.
Unquoted(s, k) == Open(s)[k] = ""

\* What the other characters of the token are that begins at a.
Follow(s, a) == IF Roles(s)[a] = "first" THEN "second" ELSE "word"

Begins(s, a) ==
  \/ Roles(s)[a] = "first"
  \/ Roles(s)[a] = "word" /\ (a = 1 \/ Roles(s)[a - 1] # "word")

\* The characters a .. b belong to the token that begins at a.
Together(s, a, b) ==
  Begins(s, a) /\ a =< b /\ \A k \in a + 1 .. b : Roles(s)[k] = Follow(s, a)

\* The i-th token goes from p[i] to q[i].
Places(p, q) == p \in [Nat -> Nat] /\ q \in [Nat -> Nat]

\* The first c characters are in n tokens, but for the white ones.
Covered(s, c, n, p, q) ==
  /\ \A i \in 1 .. n : 1 =< p[i] /\ q[i] =< c /\ Together(s, p[i], q[i])
  /\ \A i, j \in 1 .. n : i < j => q[i] < p[j]
  /\ \A k \in 1 .. c : Roles(s)[k] = "white" \/ \E i \in 1 .. n : p[i] =< k /\ k =< q[i]

\* The type of the finished token i: that of a word at the end is w, and that of a
\* word before an operator which is not finished is not known yet.
Typed(s, c, w, ts, p, q, i) ==
  ts[i].type =
    IF Roles(s)[p[i]] = "first" THEN "OPERATOR"
    ELSE IF q[i] = c THEN w
    ELSE IF Roles(s)[q[i] + 1] # "first" THEN "WORD"
    ELSE IF i = Len(ts) THEN "UKNOWN"
    ELSE IF IsNumber(ts[i].str) /\ ts[i + 1].str \in NumberedOperator
    THEN "IO_NUMBER" ELSE "WORD"

\* The token i is finished before the character z.
Closed(s, c, z, w, ts, p, q, i) ==
  /\ q[i] < z
  /\ q[i] < c => Roles(s)[q[i] + 1] # Follow(s, p[i])
  /\ ts[i].str = SubSeq(s, p[i], q[i])
  /\ Typed(s, c, w, ts, p, q, i)

\* t is under construction, from a to b, the character c.
Growing(s, c, t, a, b) ==
  /\ b = c
  /\ t.str = SubSeq(s, a, c)
  /\ t.type = IF Roles(s)[a] = "first" THEN "OPERATOR" ELSE "UKNOWN"

Count(ts, t) == Len(ts) + IF t = NoToken THEN 0 ELSE 1

\* ts and t are what the first c characters of s make.
Cuts(s, c, z, w, ts, t, p, q) ==
  /\ Covered(s, c, Count(ts, t), p, q)
  /\ \A i \in 1 .. Len(ts) : Closed(s, c, z, w, ts, p, q, i)
  /\ t # NoToken => Growing(s, c, t, p[Count(ts, t)], q[Count(ts, t)])

\* A finished token at the end is an operator.
EndsInOperator(s, c, n, p, q) == \A i \in 1 .. n : q[i] = c => Roles(s)[p[i]] = "first"

LEMMA PlaceIs ==
  ASSUME NEW p, NEW q, Places(p, q), NEW i \in Nat
  PROVE  p[i] \in Nat /\ q[i] \in Nat
BY DEF Places

LEMMA InText ==
  ASSUME NEW s \in Text
  PROVE  Len(s) \in Nat /\ \A i \in 1 .. Len(s) : s[i] \in Letter
BY DEF Text

LEMMA Slice ==
  ASSUME NEW s \in Text, NEW a \in Nat, NEW b \in Nat, 1 =< a, a =< b, b =< Len(s)
  PROVE  /\ SubSeq(s, a, b) \in Text
         /\ Len(SubSeq(s, a, b)) = (b - a) + 1
         /\ \A i \in 1 .. (b - a) + 1 : SubSeq(s, a, b)[i] = s[a + i - 1]
<1>1. a \in Int /\ b \in Int
  OBVIOUS
<1>2. \A i \in a .. b : s[i] \in Letter
  BY InText
<1>3. PICK u : u = SubSeq(s, a, b)
  OBVIOUS
<1>4. /\ u \in Seq(Letter)
      /\ Len(u) = IF a =< b THEN b - a + 1 ELSE 0
      /\ \A i \in 1 .. b - a + 1 : u[i] = s[a + i - 1]
  BY <1>1, <1>2, <1>3, SubSeqProperties
<1>5. Len(u) = (b - a) + 1 /\ \A i \in 1 .. (b - a) + 1 : u[i] = s[a + i - 1]
  BY <1>4
<1> QED
  BY <1>3, <1>4, <1>5, Zenon DEF Text

LEMMA TwoTexts ==
  ASSUME NEW s \in Text, NEW t \in Text, Len(s) = Len(t), \A i \in 1 .. Len(s) : s[i] = t[i]
  PROVE  s = t
<1>1. s \in Seq(Letter) /\ t \in Seq(Letter)
  BY Zenon DEF Text
<1> QED
  BY <1>1, SeqEqual

LEMMA Appended ==
  ASSUME NEW s \in Text, NEW x \in Letter
  PROVE  /\ Append(s, x) \in Text /\ Len(Append(s, x)) = Len(s) + 1
         /\ Append(s, x)[Len(s) + 1] = x
         /\ \A i \in 1 .. Len(s) : Append(s, x)[i] = s[i]
<1>1. s \in Seq(Letter)
  BY Zenon DEF Text
<1>2. /\ Append(s, x) \in Seq(Letter) /\ Len(Append(s, x)) = Len(s) + 1
      /\ Append(s, x)[Len(s) + 1] = x
      /\ \A i \in 1 .. Len(s) : Append(s, x)[i] = s[i]
  BY <1>1, AppendProperties
<1> QED
  BY <1>2, Zenon DEF Text

LEMMA OneSlice ==
  ASSUME NEW s \in Text, NEW a \in 1 .. Len(s)
  PROVE  SubSeq(s, a, a) = <<s[a]>>
<1>1. a \in Nat /\ 1 =< a /\ a =< a /\ a =< Len(s)
  BY InText
<1>2. /\ SubSeq(s, a, a) \in Text /\ Len(SubSeq(s, a, a)) = 1
      /\ \A i \in 1 .. 1 : SubSeq(s, a, a)[i] = s[a + i - 1]
  BY <1>1, Slice
<1>3. PICK t : t = SubSeq(s, a, a)
  OBVIOUS
<1>4. t \in Seq(Letter) /\ Len(t) = 1 /\ t[1] = s[a]
  BY <1>1, <1>2, <1>3 DEF Text
<1>5. t = <<s[a]>>
  BY <1>4
<1> QED
  BY <1>3, <1>5

LEMMA AppendOne ==
  ASSUME NEW x, NEW y
  PROVE  Append(<<x>>, y) = <<x, y>>
<1>1. <<x>> \in Seq({x, y}) /\ <<x, y>> \in Seq({x, y}) /\ y \in {x, y}
  OBVIOUS
<1>2. PICK o, u, v : o = <<x>> /\ u = Append(<<x>>, y) /\ v = <<x, y>>
  OBVIOUS
<1>3. Len(o) = 1 /\ o[1] = x /\ Len(v) = 2 /\ v[1] = x /\ v[2] = y
  BY <1>2
<1>4. /\ u \in Seq({x, y}) /\ Len(u) = Len(o) + 1 /\ u[Len(o) + 1] = y
      /\ \A i \in 1 .. Len(o) : u[i] = o[i]
  <2>1. u = Append(o, y) /\ o \in Seq({x, y})
    BY <1>1, <1>2
  <2> QED
    BY <1>1, <2>1, AppendProperties
<1>5. Len(u) = Len(v) /\ \A i \in 1 .. Len(u) : u[i] = v[i]
  BY <1>3, <1>4
<1>6. u = v
  BY <1>1, <1>2, <1>4, <1>5, SeqEqual
<1> QED
  BY <1>2, <1>6

\* A character more.
LEMMA SliceGrows ==
  ASSUME NEW s \in Text, NEW a \in Nat, NEW c \in Nat, 1 =< a, a =< c, c < Len(s)
  PROVE  SubSeq(s, a, c + 1) = Append(SubSeq(s, a, c), s[c + 1])
<1>1. PICK t, u, x : t = SubSeq(s, a, c) /\ u = SubSeq(s, a, c + 1) /\ x = s[c + 1]
  OBVIOUS
<1>2. /\ c + 1 \in Nat /\ a =< c + 1 /\ c + 1 =< Len(s) /\ c =< Len(s)
      /\ x \in Letter
  BY <1>1, InText
<1>3. /\ t \in Text /\ Len(t) = (c - a) + 1
      /\ \A i \in 1 .. (c - a) + 1 : t[i] = s[a + i - 1]
  BY <1>1, <1>2, Slice
<1>4. /\ u \in Text /\ Len(u) = (c - a) + 2
      /\ \A i \in 1 .. (c - a) + 2 : u[i] = s[a + i - 1]
  <2>1. PICK d \in Nat : d = c + 1
    BY <1>2
  <2>2. /\ u \in Text /\ Len(u) = (d - a) + 1
        /\ \A i \in 1 .. (d - a) + 1 : u[i] = s[a + i - 1]
    BY <1>1, <1>2, <2>1, Slice
  <2> QED
    BY <2>1, <2>2
<1>5. PICK v : v = Append(t, x)
  OBVIOUS
<1>6. /\ v \in Text /\ Len(v) = Len(t) + 1 /\ v[Len(t) + 1] = x
      /\ \A i \in 1 .. Len(t) : v[i] = t[i]
  BY <1>2, <1>3, <1>5, Appended
<1>7. ASSUME NEW i \in 1 .. Len(u) PROVE u[i] = v[i]
  <2>1. CASE i = (c - a) + 2
    <3>1. u[i] = s[c + 1]
      BY <1>4, <2>1
    <3> QED
      BY <1>1, <1>3, <1>6, <2>1, <3>1
  <2>2. CASE i # (c - a) + 2
    <3>1. i \in 1 .. (c - a) + 1 /\ i \in 1 .. (c - a) + 2 /\ i \in 1 .. Len(t)
      BY <1>3, <1>4, <2>2
    <3> QED
      BY <1>3, <1>4, <1>6, <3>1
  <2> QED
    BY <2>1, <2>2
<1>8. u = v
  BY <1>3, <1>4, <1>6, <1>7, TwoTexts
<1> QED
  BY <1>1, <1>5, <1>8

\* A character's role, from that of the one before.
LEMMA NextRole ==
  ASSUME NEW s, Len(s) \in Nat, NEW c \in Nat, c < Len(s)
  PROVE  Roles(s)[c + 1] =
           Role(Open(s)[c + 1], IF c = 0 THEN "" ELSE Roles(s)[c], IF c = 0 THEN "" ELSE s[c],
                s[c + 1])
<1> DEFINE n == Len(s)
<1>1. n \in Nat /\ c < n
  OBVIOUS
<1>2. /\ n > 0 => Roles(s)[1] = Role(Open(s)[1], "", "", s[1])
      /\ \A i \in 2 .. n : Roles(s)[i] = Role(Open(s)[i], Roles(s)[i - 1], s[i - 1], s[i])
  BY RolesAre
<1> HIDE DEF n
<1>3. CASE c = 0
  <2>1. n > 0 /\ c + 1 = 1
    BY <1>1, <1>3
  <2> QED
    BY <1>2, <1>3, <2>1, Zenon
<1>4. CASE c # 0
  <2>1. c + 1 \in 2 .. n /\ (c + 1) - 1 = c
    BY <1>1, <1>4
  <2> QED
    BY <1>2, <1>4, <2>1, Zenon
<1> QED
  BY <1>3, <1>4

LEMMA RoleInside ==
  ASSUME NEW s, NEW a \in Nat, NEW b \in Nat, 1 =< a, Together(s, a, b),
         NEW k \in Nat, a =< k, k =< b
  PROVE  /\ Roles(s)[k] = "first" => k = a
         /\ Roles(s)[a] # "first" => Roles(s)[k] = "word"
         /\ Begins(s, k) => k = a
<1>1. Roles(s)[a] = "first" \/ Roles(s)[a] = "word"
  BY Zenon DEF Together, Begins
<1>2. \A l \in a + 1 .. b : Roles(s)[l] = Follow(s, a)
  BY Zenon DEF Together
<1>3. CASE k = a
  BY <1>1, <1>3, Zenon
<1>4. CASE k # a
  <2>1. k \in a + 1 .. b /\ k # 1 /\ (k - 1 = a \/ k - 1 \in a + 1 .. b)
    BY <1>4
  <2>2. Roles(s)[k] = Follow(s, a)
    BY <1>2, <2>1, Zenon
  <2>3. Roles(s)[k] # "first"
    BY <2>2 DEF Follow
  <2>4. CASE Roles(s)[a] = "first"
    <3>1. Roles(s)[k] = "second"
      BY <2>2, <2>4, Zenon DEF Follow
    <3>2. ~Begins(s, k)
      BY <3>1 DEF Begins
    <3> QED
      BY <2>3, <2>4, <3>2, Zenon
  <2>5. CASE Roles(s)[a] # "first"
    <3>1. Roles(s)[k] = "word" /\ Roles(s)[k - 1] = "word"
      BY <1>1, <1>2, <2>1, <2>2, <2>5, Zenon DEF Follow
    <3>2. ~Begins(s, k)
      BY <2>1, <2>3, <3>1, Zenon DEF Begins
    <3> QED
      BY <2>3, <3>1, <3>2, Zenon
  <2> QED
    BY <2>4, <2>5, Zenon
<1> QED
  BY <1>3, <1>4

\* An operator has no third character.
LEMMA OperatorLength ==
  ASSUME NEW s, Len(s) \in Nat, NEW a \in Nat, NEW b \in Nat, 1 =< a, b =< Len(s),
         Together(s, a, b), Roles(s)[a] = "first"
  PROVE  b = a \/ (b = a + 1 /\ Roles(s)[b] = "second")
<1>1. \A l \in a + 1 .. b : Roles(s)[l] = "second"
  BY Zenon DEF Together, Follow
<1>2. a =< b
  BY Zenon DEF Together
<1>3. ASSUME a + 2 =< b PROVE FALSE
  <2>1. Roles(s)[a + 1] = "second" /\ Roles(s)[a + 2] = "second"
    BY <1>1, <1>3
  <2>2. a + 1 \in Nat /\ a + 1 < Len(s) /\ (a + 1) + 1 = a + 2 /\ a + 1 # 0
    BY <1>3
  <2>3. Roles(s)[a + 2] = Role(Open(s)[a + 2], Roles(s)[a + 1], s[a + 1], s[a + 2])
    <3>1. PICK c : c = a + 1
      OBVIOUS
    <3>2. c \in Nat /\ c < Len(s) /\ c # 0 /\ c + 1 = a + 2
      BY <2>2, <3>1
    <3>3. Roles(s)[c + 1] = Role(Open(s)[c + 1], Roles(s)[c], s[c], s[c + 1])
      BY <3>2, NextRole, Zenon
    <3> QED
      BY <3>1, <3>2, <3>3, Zenon
  <2> QED
    BY <2>1, <2>3, Zenon DEF Role
<1>4. b = a \/ b = a + 1
  BY <1>2, <1>3
<1> QED
  BY <1>1, <1>4

\* Whether a character goes on with the operator before it.
LEMMA TryAppendIs ==
  ASSUME NEW s \in Text, NEW a \in Nat, NEW c \in Nat, 1 =< a, c < Len(s),
         Together(s, a, c), Roles(s)[a] = "first", Unquoted(s, c + 1)
  PROVE  Append(SubSeq(s, a, c), s[c + 1]) \in Operator <=> Roles(s)[c + 1] = "second"
<1>1. Len(s) \in Nat
  BY InText
<1>2. PICK x : x = s[c + 1]
  OBVIOUS
<1>3. PICK r : r = Roles(s)[c + 1]
  OBVIOUS
<1>9. PICK t : t = SubSeq(s, a, c)
  OBVIOUS
<1>4. a =< c /\ c # 0 /\ c \in 1 .. Len(s)
  <2>1. a =< c
    BY Zenon DEF Together
  <2> QED
    BY <1>1, <2>1
<1>5. r = Role("", Roles(s)[c], s[c], x)
  BY <1>1, <1>2, <1>3, <1>4, NextRole, Zenon DEF Unquoted
<1>6. c = a \/ (c = a + 1 /\ Roles(s)[c] = "second")
  BY <1>1, OperatorLength
<1>7. CASE c = a
  <2>1. t = <<s[c]>>
    BY <1>1, <1>4, <1>7, <1>9, OneSlice
  <2>2. Append(t, x) = <<s[c], x>>
    BY <2>1, AppendOne, Zenon
  <2>3. r = "second" <=> <<s[c], x>> \in Operator
    BY <1>5, <1>7, Zenon DEF Role
  <2> QED
    BY <1>2, <1>3, <1>9, <2>2, <2>3, Zenon
<1>8. CASE c = a + 1 /\ Roles(s)[c] = "second"
  <2>1. Len(Append(t, x)) = 3
    <3>1. Len(t) = 2 /\ t \in Text
      BY <1>1, <1>4, <1>8, <1>9, Slice
    <3>2. x \in Letter
      <4>1. c + 1 \in 1 .. Len(s)
        BY <1>1, <1>4
      <4> QED
        BY <1>2, <4>1, InText, Zenon
    <3>3. Len(Append(t, x)) = Len(t) + 1
      BY <3>1, <3>2, Appended, Zenon
    <3> QED
      BY <3>1, <3>3
  <2>2. Append(t, x) \notin Operator
    <3>1. PICK o : o = Append(t, x)
      OBVIOUS
    <3>2. Len(o) # 1 /\ Len(o) # 2
      BY <2>1, <3>1
    <3> QED
      BY <3>1, <3>2, OperatorsAre, Zenon
  <2>3. r # "second"
    BY <1>5, <1>8, Zenon DEF Role
  <2> QED
    BY <1>2, <1>3, <1>9, <2>2, <2>3, Zenon
<1> QED
  BY <1>6, <1>7, <1>8

-----------------------------------------------------------------------------
(* What each step makes of the tokens                                      *)

LEMMA NoTokenIs ==
  NoToken \in Token /\ NoToken.type = "UKNOWN" /\ NoToken.str = <<>>
<1>1. <<>> \in Seq(Letter)
  OBVIOUS
<1>2. NoToken.type = "UKNOWN" /\ NoToken.str = <<>>
  BY DEF NoToken
<1>3. NoToken = [type |-> "UKNOWN", str |-> <<>>]
  BY DEF NoToken
<1>4. Token = [type : {"UKNOWN", "WORD", "OPERATOR", "IO_NUMBER"}, str : Seq(Letter)]
  BY Zenon DEF Token, Letter
<1> QED
  BY <1>1, <1>2, <1>3, <1>4

LEMMA CountIs ==
  ASSUME NEW ts, Len(ts) \in Nat, NEW t
  PROVE  /\ t = NoToken => Count(ts, t) = Len(ts)
         /\ t # NoToken => Count(ts, t) = Len(ts) + 1
<1>1. Len(ts) + 0 = Len(ts)
  OBVIOUS
<1> QED
  BY <1>1, Zenon DEF Count

LEMMA DividedIs ==
  ASSUME tokens \in Seq(Token), token \in Token
  PROVE  /\ Divided \in Seq(Token)
         /\ Len(Divided) = Len(tokens) + 1
         /\ Divided[Len(tokens) + 1] = token
         /\ \A i \in 1 .. Len(tokens) :
              /\ Divided[i].str = tokens[i].str
              /\ Divided[i].type =
                   IF i = Len(tokens) /\ tokens[i].type = "UKNOWN"
                   THEN IF IsNumber(tokens[i].str) /\ token.str \in NumberedOperator
                        THEN "IO_NUMBER" ELSE "WORD"
                   ELSE tokens[i].type
<1> DEFINE n == Len(tokens)
           type == IF IsNumber(tokens[n].str) /\ token.str \in NumberedOperator
                   THEN "IO_NUMBER" ELSE "WORD"
           changes == n > 0 /\ tokens[n].type = "UKNOWN"
           typed == IF changes THEN [tokens EXCEPT ![n].type = type] ELSE tokens
<1>1. Divided = Append(typed, token)
  BY DEF Divided
<1>2. n \in Nat /\ type \in {"IO_NUMBER", "WORD"}
  OBVIOUS
<1>3. ASSUME NEW i \in 1 .. n PROVE tokens[i] \in Token
  OBVIOUS
<1> HIDE DEF type
<1>4. ASSUME changes
      PROVE  /\ typed \in Seq(Token) /\ Len(typed) = n
             /\ \A i \in 1 .. n : i # n => typed[i] = tokens[i]
             /\ typed[n].str = tokens[n].str /\ typed[n].type = type
  <2>1. n \in 1 .. n
    BY <1>2, <1>4
  <2>2. PICK v : v = [tokens[n] EXCEPT !.type = type]
    OBVIOUS
  <2>3. v \in Token /\ v.str = tokens[n].str /\ v.type = type
    <3>1. tokens[n] \in Token
      BY <1>3, <2>1
    <3> QED
      BY <1>2, <2>2, <3>1 DEF Token
  <2>4. typed = [tokens EXCEPT ![n] = v]
    BY <1>4, <2>2
  <2> HIDE DEF typed
  <2> QED
    BY <2>1, <2>3, <2>4
<1>5. ASSUME ~changes
      PROVE  typed = tokens
  BY <1>5
<1>6. ASSUME NEW i \in 1 .. n
      PROVE  /\ typed[i].str = tokens[i].str
             /\ typed[i].type = IF i = n /\ tokens[i].type = "UKNOWN" THEN type
                                ELSE tokens[i].type
  <2>1. n > 0
    BY <1>2
  <2>2. CASE changes
    <3>1. CASE i = n
      <4>1. typed[n].str = tokens[n].str /\ typed[n].type = type /\ tokens[n].type = "UKNOWN"
        BY <1>4, <2>2, Zenon
      <4> HIDE DEF typed, changes, n
      <4> QED
        BY <3>1, <4>1, Zenon
    <3>2. CASE i # n
      <4>1. typed[i] = tokens[i]
        BY <1>4, <2>2, <3>2, Zenon
      <4> HIDE DEF typed, changes, n
      <4> QED
        BY <3>2, <4>1, Zenon
    <3> QED
      BY <3>1, <3>2
  <2>3. CASE ~changes
    <3>1. ~(i = n /\ tokens[i].type = "UKNOWN")
      BY <2>1, <2>3, Zenon
    <3> QED
      BY <1>5, <2>3, <3>1, Zenon
  <2> QED
    BY <2>2, <2>3
<1>7. typed \in Seq(Token) /\ Len(typed) = n
  BY <1>4, <1>5, Zenon
<1> HIDE DEF typed, changes
<1>8. /\ Append(typed, token) \in Seq(Token) /\ Len(Append(typed, token)) = n + 1
      /\ Append(typed, token)[n + 1] = token
      /\ \A i \in 1 .. n : Append(typed, token)[i] = typed[i]
  BY <1>2, <1>7
<1> QED
  BY <1>1, <1>6, <1>8, Zenon DEF type

\* A finished operator goes with the other tokens.
LEMMA FinishOperator ==
  ASSUME NEW s \in Text, NEW c \in 0 .. Len(s), NEW w, NEW p, NEW q, Places(p, q),
         tokens \in Seq(Token), token \in Token, Cuts(s, c, c, w, tokens, token, p, q)
  PROVE  /\ Finished \in Seq(Token) /\ Current \in Token /\ Current.type = "UKNOWN"
         /\ Cuts(s, c, c + 1, w, Finished, Current, p, q)
         /\ EndsInOperator(s, c, Len(Finished), p, q)
<1> DEFINE n == Len(tokens)
<1>1. n \in Nat /\ c \in Nat /\ Len(s) \in Nat
  BY InText
<1>2. \A i \in 1 .. n : Closed(s, c, c, w, tokens, p, q, i)
  BY Zenon DEF Cuts
<1>3. \A i \in Nat : p[i] \in Nat /\ q[i] \in Nat
  BY PlaceIs
<1>4. \A i \in 1 .. n : q[i] < c /\ q[i] # c /\ q[i] \in Nat
  BY <1>1, <1>2, <1>3 DEF Closed
<1>5. CASE ~InOperator
  <2>1. Finished = tokens /\ Current = token
    BY <1>5, Zenon DEF Finished, Current
  <2>2. Current.type = "UKNOWN"
    <3>1. CASE token = NoToken
      BY <2>1, <3>1 DEF NoToken
    <3>2. CASE token # NoToken
      BY <1>5, <2>1, <3>2, Zenon DEF Cuts, Growing, InOperator
    <3> QED
      BY <3>1, <3>2
  <2>3. ASSUME NEW i \in 1 .. n PROVE Closed(s, c, c + 1, w, tokens, p, q, i)
    <3>1. q[i] < c + 1
      BY <1>1, <1>4
    <3> QED
      BY <1>2, <3>1, Zenon DEF Closed
  <2>4. Cuts(s, c, c + 1, w, tokens, token, p, q)
    BY <2>3, Zenon DEF Cuts
  <2>5. EndsInOperator(s, c, n, p, q)
    BY <1>4, Zenon DEF EndsInOperator
  <2> QED
    BY <2>1, <2>2, <2>4, <2>5, Zenon
<1>6. CASE InOperator
  <2>1. Finished = Divided /\ Current = NoToken
    BY <1>6, Zenon DEF Finished, Current
  <2>2. NoToken \in Token /\ NoToken.type = "UKNOWN"
    BY NoTokenIs
  <2>3. token # NoToken
    BY <1>6, <2>2, Zenon DEF InOperator
  <2>4. Count(tokens, token) = n + 1
    BY <2>3, CountIs
  <2>5. Growing(s, c, token, p[n + 1], q[n + 1])
    BY <2>3, <2>4, Zenon DEF Cuts
  <2>6. /\ Divided \in Seq(Token) /\ Len(Divided) = n + 1 /\ Divided[n + 1] = token
        /\ \A i \in 1 .. n :
              /\ Divided[i].str = tokens[i].str
              /\ Divided[i].type =
                   IF i = n /\ tokens[i].type = "UKNOWN"
                   THEN IF IsNumber(tokens[i].str) /\ token.str \in NumberedOperator
                        THEN "IO_NUMBER" ELSE "WORD"
                   ELSE tokens[i].type
    BY DividedIs, Zenon
  <2>7. Count(Divided, NoToken) = n + 1
    BY <1>1, <2>6, CountIs
  <2>8. Roles(s)[p[n + 1]] = "first" /\ q[n + 1] = c
    BY <1>6, <2>5, Zenon DEF Growing, InOperator
  <2> HIDE DEF n
  <2>9. ASSUME NEW i \in 1 .. n PROVE Closed(s, c, c + 1, w, Divided, p, q, i)
    <3>1. q[i] < c + 1
      BY <1>1, <1>4
    <3>2. Closed(s, c, c, w, tokens, p, q, i)
      BY <1>2
    <3>3. Divided[i].str = SubSeq(s, p[i], q[i])
      BY <2>6, <3>2, Zenon DEF Closed
    <3>4. q[i] < c => Roles(s)[q[i] + 1] # Follow(s, p[i])
      BY <3>2, Zenon DEF Closed
    <3>5. Typed(s, c, w, Divided, p, q, i)
      <4>1. Typed(s, c, w, tokens, p, q, i)
        BY <3>2, Zenon DEF Closed
      <4>2. q[i] # c
        BY <1>4
      <4>3. i # Len(Divided) /\ n = Len(tokens)
        BY <1>1, <2>6 DEF n
      <4>4. CASE i = n
        <5>1. Divided[i + 1].str = token.str
          BY <2>6, <4>4, Zenon
        <5>2. CASE tokens[i].type = "UKNOWN"
          <6>1. Divided[i].type = IF IsNumber(tokens[i].str) /\ token.str \in NumberedOperator
                                  THEN "IO_NUMBER" ELSE "WORD"
            BY <2>6, <4>4, <5>2, Zenon
          <6>2. Divided[i].str = tokens[i].str
            BY <2>6, Zenon
          <6>3. Roles(s)[p[i]] # "first" /\ Roles(s)[q[i] + 1] = "first"
            BY <4>1, <4>2, <5>2, Zenon DEF Typed
          <6> QED
            BY <4>2, <4>3, <5>1, <6>1, <6>2, <6>3, Zenon DEF Typed
        <5>3. CASE tokens[i].type # "UKNOWN"
          <6>1. Divided[i].type = tokens[i].type
            BY <2>6, <5>3, Zenon
          <6>2. Roles(s)[p[i]] = "first" \/ Roles(s)[q[i] + 1] # "first"
            BY <4>1, <4>2, <4>3, <4>4, <5>3, Zenon DEF Typed
          <6> QED
            BY <4>1, <4>2, <6>1, <6>2, Zenon DEF Typed
        <5> QED
          BY <5>2, <5>3
      <4>5. CASE i # n
        <5>1. i + 1 \in 1 .. n
          BY <1>1, <4>5
        <5>2. /\ Divided[i].type = tokens[i].type /\ Divided[i].str = tokens[i].str
              /\ Divided[i + 1].str = tokens[i + 1].str
          BY <2>6, <4>5, <5>1, Zenon
        <5> QED
          BY <4>1, <4>2, <4>3, <4>5, <5>2, Zenon DEF Typed
      <4> QED
        BY <4>4, <4>5
    <3> QED
      BY <3>1, <3>3, <3>4, <3>5, Zenon DEF Closed
  <2>10. Closed(s, c, c + 1, w, Divided, p, q, n + 1)
    <3>1. c < c + 1 /\ ~(c < c)
      BY <1>1
    <3>2. Divided[n + 1].str = SubSeq(s, p[n + 1], q[n + 1]) /\ Divided[n + 1].type = "OPERATOR"
      BY <1>6, <2>5, <2>6, <2>8, Zenon DEF Growing, InOperator
    <3> QED
      BY <2>8, <3>1, <3>2, Zenon DEF Closed, Typed
  <2>11. ASSUME NEW i \in 1 .. Len(Divided) PROVE Closed(s, c, c + 1, w, Divided, p, q, i)
    <3>1. i \in 1 .. n \/ i = n + 1
      BY <1>1, <2>6
    <3> QED
      BY <2>9, <2>10, <3>1, Zenon
  <2>12. Cuts(s, c, c + 1, w, Divided, NoToken, p, q)
    <3>1. Covered(s, c, Count(Divided, NoToken), p, q)
      BY <2>4, <2>7, Zenon DEF Cuts
    <3> QED
      BY <2>11, <3>1, Zenon DEF Cuts
  <2>13. EndsInOperator(s, c, Len(Divided), p, q)
    <3>1. ASSUME NEW i \in 1 .. Len(Divided), q[i] = c PROVE Roles(s)[p[i]] = "first"
      <4>1. i \in 1 .. n \/ i = n + 1
        BY <1>1, <2>6
      <4> QED
        BY <1>4, <2>8, <3>1, <4>1, Zenon
    <3> QED
      BY <3>1, Zenon DEF EndsInOperator
  <2> QED
    BY <2>1, <2>2, <2>6, <2>12, <2>13, Zenon
<1> QED
  BY <1>5, <1>6

\* An operator that begins where a token ends begins the next one.
LEMMA NextToken ==
  ASSUME NEW s, NEW c \in Nat, NEW n \in Nat, NEW p, NEW q, Places(p, q),
         Covered(s, c, n, p, q), NEW i \in 1 .. n, q[i] < c, Roles(s)[q[i] + 1] = "first"
  PROVE  i + 1 \in 1 .. n /\ p[i + 1] = q[i] + 1
<1>1. \A k \in Nat : p[k] \in Nat /\ q[k] \in Nat
  BY PlaceIs
<1>2. /\ \A k \in 1 .. n : 1 =< p[k] /\ q[k] =< c /\ Together(s, p[k], q[k])
      /\ \A k, l \in 1 .. n : k < l => q[k] < p[l]
      /\ \A k \in 1 .. c : Roles(s)[k] = "white" \/ \E l \in 1 .. n : p[l] =< k /\ k =< q[l]
  BY Zenon DEF Covered
<1>3. \A k \in 1 .. n : p[k] =< q[k]
  BY <1>2, Zenon DEF Together
<1>4. PICK k \in 1 .. c : k = q[i] + 1
  BY <1>1
<1>5. Roles(s)[k] # "white" /\ Roles(s)[k] = "first"
  BY <1>4
<1>6. PICK j \in 1 .. n : p[j] =< k /\ k =< q[j]
  BY <1>2, <1>5, Zenon
<1>7. k = p[j]
  <2>1. p[j] \in Nat /\ q[j] \in Nat /\ k \in Nat /\ 1 =< p[j] /\ Together(s, p[j], q[j])
    BY <1>1, <1>2
  <2> QED
    BY <1>5, <1>6, <2>1, RoleInside, Zenon
<1>8. ~(j =< i)
  <2>1. ASSUME j < i PROVE FALSE
    <3>1. q[j] < p[i] /\ p[i] =< q[i]
      BY <1>2, <1>3, <2>1, Zenon
    <3> QED
      BY <1>1, <1>4, <1>6, <3>1
  <2>2. ASSUME j = i PROVE FALSE
    BY <1>1, <1>4, <1>6, <2>2
  <2> QED
    BY <2>1, <2>2
<1>9. i + 1 \in 1 .. n
  BY <1>8
<1>10. ~(i + 1 < j)
  <2>1. ASSUME i + 1 < j PROVE FALSE
    <3>1. i < i + 1
      OBVIOUS
    <3>2. q[i] < p[i + 1] /\ p[i + 1] =< q[i + 1] /\ q[i + 1] < p[j]
      BY <1>2, <1>3, <1>9, <2>1, <3>1, Zenon
    <3>3. q[i] \in Nat /\ p[i + 1] \in Nat /\ q[i + 1] \in Nat /\ p[j] \in Nat
      BY <1>1, <1>9
    <3> QED
      BY <1>4, <1>7, <3>2, <3>3
  <2> QED
    BY <2>1
<1>11. j = i + 1
  BY <1>8, <1>10
<1> QED
  BY <1>4, <1>7, <1>9, <1>11

LEMMA OneMore ==
  ASSUME NEW ts \in Seq(Token), NEW t \in Token
  PROVE  /\ Append(ts, t) \in Seq(Token) /\ Len(Append(ts, t)) = Len(ts) + 1
         /\ Append(ts, t)[Len(ts) + 1] = t
         /\ \A i \in 1 .. Len(ts) : Append(ts, t)[i] = ts[i]
BY AppendProperties

\* The word that ends here goes with the other tokens.
LEMMA PushWord ==
  ASSUME NEW s \in Text, NEW c \in 0 .. Len(s), NEW w, NEW v \in {"UKNOWN", "WORD"},
         NEW p, NEW q, Places(p, q), NEW ts \in Seq(Token), NEW t \in Token, t.type = "UKNOWN",
         Cuts(s, c, c + 1, w, ts, t, p, q), EndsInOperator(s, c, Len(ts), p, q),
         NEW us, us = IF t = NoToken THEN ts ELSE Append(ts, [t EXCEPT !.type = v])
  PROVE  us \in Seq(Token) /\ Cuts(s, c, c + 1, v, us, NoToken, p, q)
<1> DEFINE n == Len(ts)
<1>1. n \in Nat /\ c \in Nat /\ Len(s) \in Nat
  BY InText
<1>2. \A i \in 1 .. n : Closed(s, c, c + 1, w, ts, p, q, i)
  BY Zenon DEF Cuts
<1>3. \A i \in Nat : p[i] \in Nat /\ q[i] \in Nat
  BY PlaceIs
<1>4. Covered(s, c, Count(ts, t), p, q)
  BY Zenon DEF Cuts
<1>5. CASE t = NoToken
  <2>1. us = ts
    BY <1>5
  <2>2. ASSUME NEW i \in 1 .. n PROVE Closed(s, c, c + 1, v, ts, p, q, i)
    <3>1. Closed(s, c, c + 1, w, ts, p, q, i)
      BY <1>2
    <3>2. Typed(s, c, v, ts, p, q, i)
      <4>1. Typed(s, c, w, ts, p, q, i)
        BY <3>1, Zenon DEF Closed
      <4>2. CASE q[i] = c
        <5>1. Roles(s)[p[i]] = "first"
          BY <4>2, Zenon DEF EndsInOperator
        <5> QED
          BY <4>1, <5>1, Zenon DEF Typed
      <4>3. CASE q[i] # c
        BY <4>1, <4>3, Zenon DEF Typed
      <4> QED
        BY <4>2, <4>3
    <3> QED
      BY <3>1, <3>2, Zenon DEF Closed
  <2>3. Cuts(s, c, c + 1, v, ts, NoToken, p, q)
    BY <1>4, <1>5, <2>2, Zenon DEF Cuts
  <2> QED
    BY <2>1, <2>3, Zenon
<1>6. CASE t # NoToken
  <2>1. PICK x : x = [t EXCEPT !.type = v]
    OBVIOUS
  <2>2. x \in Token /\ x.type = v /\ x.str = t.str
    BY <2>1 DEF Token
  <2>3. us = Append(ts, x)
    BY <1>6, <2>1
  <2>4. /\ us \in Seq(Token) /\ Len(us) = n + 1 /\ us[n + 1] = x
        /\ \A i \in 1 .. n : us[i] = ts[i]
    <3>1. /\ Append(ts, x) \in Seq(Token) /\ Len(Append(ts, x)) = n + 1
          /\ Append(ts, x)[n + 1] = x /\ \A i \in 1 .. n : Append(ts, x)[i] = ts[i]
      BY <2>2, OneMore
    <3> HIDE DEF n
    <3> QED
      BY <2>3, <3>1, Zenon
  <2>5. Count(ts, t) = n + 1
    BY <1>1, <1>6, CountIs
  <2>6. Count(us, NoToken) = n + 1
    <3>1. Len(us) \in Nat
      BY <1>1, <2>4
    <3>2. Len(us) + 0 = n + 1
      BY <1>1, <2>4
    <3> QED
      BY <3>2, Zenon DEF Count
  <2>7. Growing(s, c, t, p[n + 1], q[n + 1])
    BY <1>6, <2>5, Zenon DEF Cuts
  <2>8. q[n + 1] = c /\ t.str = SubSeq(s, p[n + 1], c) /\ Roles(s)[p[n + 1]] # "first"
    BY <2>7, Zenon DEF Growing
  <2> HIDE DEF n
  <2>9. Covered(s, c, n + 1, p, q)
    BY <1>4, <2>5
  <2>10. ASSUME NEW i \in 1 .. n PROVE q[i] < c /\ q[i] # c
    <3>1. i \in 1 .. n + 1 /\ n + 1 \in 1 .. n + 1 /\ i < n + 1
      BY <1>1
    <3>2. q[i] < p[n + 1] /\ p[n + 1] =< q[n + 1]
      BY <2>9, <3>1, Zenon DEF Covered, Together
    <3>3. q[i] \in Nat /\ p[n + 1] \in Nat
      BY <1>1, <1>3
    <3> QED
      BY <1>1, <2>8, <3>2, <3>3
  <2>11. ASSUME NEW i \in 1 .. n PROVE Closed(s, c, c + 1, v, us, p, q, i)
    <3>1. Closed(s, c, c + 1, w, ts, p, q, i)
      BY <1>2 DEF n
    <3>2. us[i] = ts[i] /\ q[i] # c /\ q[i] < c
      BY <2>4, <2>10
    <3>3. Typed(s, c, w, ts, p, q, i)
      BY <3>1, Zenon DEF Closed
    <3>4. i # Len(us)
      BY <1>1, <2>4
    <3>5. Typed(s, c, v, us, p, q, i)
      <4>1. CASE Roles(s)[q[i] + 1] # "first"
        BY <3>2, <3>3, <4>1, Zenon DEF Typed
      <4>2. CASE Roles(s)[q[i] + 1] = "first"
        <5>1. p[i + 1] = q[i] + 1
          <6>1. i \in 1 .. n + 1 /\ n + 1 \in Nat
            BY <1>1
          <6> QED
            BY <1>1, <2>9, <3>2, <4>2, <6>1, NextToken
        <5>2. i # n
          BY <2>8, <4>2, <5>1, Zenon
        <5>3. i + 1 \in 1 .. n /\ i # Len(ts)
          BY <1>1, <5>2 DEF n
        <5>4. us[i + 1] = ts[i + 1]
          BY <2>4, <5>3
        <5> QED
          BY <3>2, <3>3, <3>4, <5>3, <5>4, Zenon DEF Typed
      <4> QED
        BY <4>1, <4>2
    <3> QED
      BY <3>1, <3>2, <3>5, Zenon DEF Closed
  <2>12. Closed(s, c, c + 1, v, us, p, q, n + 1)
    <3>1. c < c + 1 /\ ~(c < c)
      BY <1>1
    <3> QED
      BY <2>2, <2>4, <2>8, <3>1, Zenon DEF Closed, Typed
  <2>13. ASSUME NEW i \in 1 .. Len(us) PROVE Closed(s, c, c + 1, v, us, p, q, i)
    <3>1. i \in 1 .. n \/ i = n + 1
      BY <1>1, <2>4
    <3> QED
      BY <2>11, <2>12, <3>1, Zenon
  <2>14. Cuts(s, c, c + 1, v, us, NoToken, p, q)
    BY <2>6, <2>9, <2>13, Zenon DEF Cuts
  <2> QED
    BY <2>4, <2>14
<1> QED
  BY <1>5, <1>6

\* White space goes behind the tokens.
LEMMA TakeWhite ==
  ASSUME NEW s \in Text, NEW c \in Nat, c < Len(s), NEW w, NEW p, NEW q, Places(p, q),
         NEW ts \in Seq(Token), Cuts(s, c, c + 1, "WORD", ts, NoToken, p, q),
         Roles(s)[c + 1] = "white"
  PROVE  Cuts(s, c + 1, c + 1, w, ts, NoToken, p, q)
<1> DEFINE n == Len(ts)
<1>1. n \in Nat /\ Len(s) \in Nat /\ c + 1 \in Nat
  BY InText
<1>2. \A i \in Nat : p[i] \in Nat /\ q[i] \in Nat
  BY PlaceIs
<1>3. Covered(s, c, n, p, q)
  <2>1. Count(ts, NoToken) = n
    BY <1>1, CountIs
  <2> QED
    BY <2>1, Zenon DEF Cuts
<1>4. /\ \A i \in 1 .. n : 1 =< p[i] /\ q[i] =< c /\ Together(s, p[i], q[i])
      /\ \A i, j \in 1 .. n : i < j => q[i] < p[j]
      /\ \A k \in 1 .. c : Roles(s)[k] = "white" \/ \E i \in 1 .. n : p[i] =< k /\ k =< q[i]
  BY <1>3, Zenon DEF Covered
<1>5. Covered(s, c + 1, n, p, q)
  <2>1. ASSUME NEW i \in 1 .. n PROVE q[i] =< c + 1
    <3>1. q[i] \in Nat /\ q[i] =< c
      BY <1>2, <1>4
    <3> QED
      BY <3>1
  <2>2. ASSUME NEW k \in 1 .. c + 1
        PROVE  Roles(s)[k] = "white" \/ \E i \in 1 .. n : p[i] =< k /\ k =< q[i]
    <3>1. k \in 1 .. c \/ k = c + 1
      OBVIOUS
    <3> QED
      BY <1>4, <3>1, Zenon
  <2> QED
    BY <1>4, <2>1, <2>2, Zenon DEF Covered
<1>6. ASSUME NEW i \in 1 .. n PROVE Closed(s, c + 1, c + 1, w, ts, p, q, i)
  <2>1. Closed(s, c, c + 1, "WORD", ts, p, q, i)
    BY Zenon DEF Cuts
  <2>2. q[i] \in Nat /\ q[i] =< c
    BY <1>2, <1>4
  <2>3. q[i] < c + 1 /\ q[i] # c + 1 /\ (q[i] < c \/ q[i] = c)
    BY <2>2
  <2>4. Roles(s)[q[i] + 1] # Follow(s, p[i])
    <3>1. CASE q[i] = c
      <4>1. Follow(s, p[i]) # "white"
        BY DEF Follow
      <4> QED
        BY <3>1, <4>1
    <3>2. CASE q[i] < c
      BY <2>1, <3>2, Zenon DEF Closed
    <3> QED
      BY <2>3, <3>1, <3>2
  <2>5. Typed(s, c + 1, w, ts, p, q, i)
    <3>1. Typed(s, c, "WORD", ts, p, q, i)
      BY <2>1, Zenon DEF Closed
    <3>2. CASE q[i] = c
      <4>1. Roles(s)[q[i] + 1] # "first"
        BY <3>2
      <4> QED
        BY <2>3, <3>1, <3>2, <4>1, Zenon DEF Typed
    <3>3. CASE q[i] # c
      BY <2>3, <3>1, <3>3, Zenon DEF Typed
    <3> QED
      BY <3>2, <3>3
  <2> QED
    BY <2>1, <2>3, <2>4, <2>5, Zenon DEF Closed
<1>7. Count(ts, NoToken) = n
  BY <1>1, CountIs
<1> QED
  BY <1>5, <1>6, <1>7, Zenon DEF Cuts

\* What the character behind the first c makes of a token t it begins, and of the
\* word before it, pushed with the type v.
Fits(s, c, v, t) ==
  /\ t # NoToken /\ t.str = <<s[c + 1]>>
  /\ t.type = IF Roles(s)[c + 1] = "first" THEN "OPERATOR" ELSE "UKNOWN"
  /\ Roles(s)[c + 1] = "first" => v = "UKNOWN"

Follows(s, c, n, p, q) == Roles(s)[c + 1] # "first" => EndsInOperator(s, c, n, p, q)

\* A character that belongs to no token before it begins one.
LEMMA BeginToken ==
  ASSUME NEW s \in Text, NEW c \in Nat, c < Len(s), NEW v, NEW w, NEW p, NEW q, Places(p, q),
         NEW ts \in Seq(Token), Cuts(s, c, c + 1, v, ts, NoToken, p, q), Begins(s, c + 1),
         Follows(s, c, Len(ts), p, q), NEW t, Fits(s, c, v, t),
         NEW a, a = [p EXCEPT ![Len(ts) + 1] = c + 1],
         NEW b, b = [q EXCEPT ![Len(ts) + 1] = c + 1]
  PROVE  Places(a, b) /\ Cuts(s, c + 1, c + 1, w, ts, t, a, b)
<1> Roles(s)[c + 1] = "first" => v = "UKNOWN"
  BY Zenon DEF Fits
<1> Roles(s)[c + 1] # "first" => EndsInOperator(s, c, Len(ts), p, q)
  BY Zenon DEF Follows
<1> t # NoToken /\ t.str = <<s[c + 1]>>
  BY Zenon DEF Fits
<1> t.type = IF Roles(s)[c + 1] = "first" THEN "OPERATOR" ELSE "UKNOWN"
  BY Zenon DEF Fits
<1> DEFINE n == Len(ts)
<1>1. n \in Nat /\ Len(s) \in Nat /\ c + 1 \in Nat /\ n + 1 \in Nat /\ c + 1 \in 1 .. Len(s)
  BY InText
<1>2. \A i \in Nat : p[i] \in Nat /\ q[i] \in Nat
  BY PlaceIs
<1>3. Covered(s, c, n, p, q)
  <2>1. Count(ts, NoToken) = n
    BY <1>1, CountIs
  <2> QED
    BY <2>1, Zenon DEF Cuts
<1>4. /\ \A i \in 1 .. n : 1 =< p[i] /\ q[i] =< c /\ Together(s, p[i], q[i])
      /\ \A i, j \in 1 .. n : i < j => q[i] < p[j]
      /\ \A k \in 1 .. c : Roles(s)[k] = "white" \/ \E i \in 1 .. n : p[i] =< k /\ k =< q[i]
  BY <1>3, Zenon DEF Covered
<1>5. Count(ts, t) = n + 1
  BY <1>1, CountIs
<1>6. Places(a, b) /\ a[n + 1] = c + 1 /\ b[n + 1] = c + 1
  BY <1>1 DEF Places
<1>7. ASSUME NEW i \in 1 .. n PROVE a[i] = p[i] /\ b[i] = q[i]
  <2>1. i \in Nat /\ i # n + 1
    BY <1>1
  <2>2. a[i] = p[i]
    BY <2>1 DEF Places
  <2>3. b[i] = q[i]
    BY <2>1 DEF Places
  <2> QED
    BY <2>2, <2>3
<1>8. SubSeq(s, c + 1, c + 1) = <<s[c + 1]>>
  BY <1>1, OneSlice
<1>9. ASSUME NEW i \in 1 .. n
      PROVE  /\ p[i] \in Nat /\ q[i] \in Nat /\ 1 =< p[i] /\ q[i] =< c /\ p[i] =< q[i]
             /\ q[i] < c + 1 /\ q[i] =< c + 1 /\ q[i] # c + 1 /\ (q[i] < c \/ q[i] = c)
             /\ Together(s, p[i], q[i])
  <2>1. p[i] \in Nat /\ q[i] \in Nat /\ 1 =< p[i] /\ q[i] =< c /\ Together(s, p[i], q[i])
    BY <1>2, <1>4
  <2>2. p[i] =< q[i]
    BY <2>1, Zenon DEF Together
  <2> QED
    BY <2>1, <2>2
<1>10. ASSUME NEW i \in 1 .. n + 1 PROVE i \in 1 .. n \/ i = n + 1
  BY <1>1
<1> HIDE DEF n
<1>11. Covered(s, c + 1, n + 1, a, b)
  <2>1. ASSUME NEW i \in 1 .. n + 1
        PROVE  1 =< a[i] /\ b[i] =< c + 1 /\ Together(s, a[i], b[i])
    <3>1. CASE i \in 1 .. n
      BY <1>7, <1>9, <3>1, Zenon
    <3>2. CASE i = n + 1
      <4>1. 1 =< c + 1 /\ c + 1 =< c + 1 /\ (c + 1) + 1 .. c + 1 = {}
        OBVIOUS
      <4>2. Together(s, c + 1, c + 1)
        BY <4>1, Zenon DEF Together
      <4> QED
        BY <1>6, <3>2, <4>1, <4>2, Zenon
    <3> QED
      BY <1>10, <3>1, <3>2
  <2>2. ASSUME NEW i \in 1 .. n + 1, NEW j \in 1 .. n + 1, i < j PROVE b[i] < a[j]
    <3>1. i \in 1 .. n
      BY <1>1, <2>2
    <3>2. CASE j \in 1 .. n
      BY <1>4, <1>7, <2>2, <3>1, <3>2, Zenon
    <3>3. CASE j = n + 1
      BY <1>6, <1>7, <1>9, <3>1, <3>3, Zenon
    <3> QED
      BY <1>10, <3>2, <3>3
  <2>3. ASSUME NEW k \in 1 .. c + 1, Roles(s)[k] # "white"
        PROVE  \E i \in 1 .. n + 1 : a[i] =< k /\ k =< b[i]
    <3>1. CASE k = c + 1
      <4>1. c + 1 =< c + 1 /\ n + 1 \in 1 .. n + 1
        BY <1>1
      <4> QED
        BY <1>6, <3>1, <4>1, Zenon
    <3>2. CASE k # c + 1
      <4>1. k \in 1 .. c
        BY <3>2
      <4>2. PICK i \in 1 .. n : p[i] =< k /\ k =< q[i]
        BY <1>4, <2>3, <4>1, Zenon
      <4>3. i \in 1 .. n + 1
        BY <1>1
      <4> QED
        BY <1>7, <4>2, <4>3, Zenon
    <3> QED
      BY <3>1, <3>2
  <2> QED
    BY <2>1, <2>2, <2>3, Zenon DEF Covered
<1>12. ASSUME NEW i \in 1 .. n PROVE Closed(s, c + 1, c + 1, w, ts, a, b, i)
  <2>1. Closed(s, c, c + 1, v, ts, p, q, i)
    BY Zenon DEF Cuts, n
  <2>2. a[i] = p[i] /\ b[i] = q[i]
    BY <1>7
  <2>3. q[i] < c + 1 /\ q[i] # c + 1
    BY <1>9
  <2>4. Roles(s)[c + 1] # "second"
    BY Zenon DEF Begins
  <2>5. CASE q[i] = c
    <3>1. i = n
      <4>1. ASSUME i # n PROVE FALSE
        <5>1. i + 1 \in 1 .. n /\ i < i + 1
          BY <1>1, <4>1
        <5>2. q[i] < p[i + 1]
          BY <1>4, <5>1, Zenon
        <5>3. p[i + 1] =< q[i + 1] /\ q[i + 1] =< c /\ p[i + 1] \in Nat /\ q[i + 1] \in Nat
          BY <1>9, <5>1, Zenon
        <5> QED
          BY <2>5, <5>2, <5>3
      <4> QED
        BY <4>1
    <3>2. Roles(s)[c + 1] # "first" => Roles(s)[p[i]] = "first"
      BY <2>5, Zenon DEF EndsInOperator, n
    <3>3. Roles(s)[q[i] + 1] # Follow(s, p[i])
      BY <2>4, <2>5, <3>2, Zenon DEF Follow
    <3>4. Typed(s, c + 1, w, ts, a, b, i)
      <4>1. Typed(s, c, v, ts, p, q, i)
        BY <2>1, Zenon DEF Closed
      <4>2. CASE Roles(s)[p[i]] = "first"
        BY <2>2, <4>1, <4>2, Zenon DEF Typed
      <4>3. CASE Roles(s)[p[i]] # "first"
        <5>1. Roles(s)[c + 1] = "first" /\ v = "UKNOWN"
          BY <3>2, <4>3, Zenon
        <5>2. ts[i].type = "UKNOWN"
          BY <2>5, <4>1, <4>3, <5>1, Zenon DEF Typed
        <5>3. b[i] + 1 = c + 1 /\ b[i] # c + 1
          BY <2>2, <2>3, <2>5
        <5> QED
          BY <2>2, <3>1, <4>3, <5>1, <5>2, <5>3, Zenon DEF Typed, n
      <4> QED
        BY <4>2, <4>3
    <3> QED
      BY <2>1, <2>2, <2>3, <3>3, <3>4, Zenon DEF Closed
  <2>6. CASE q[i] # c
    <3>1. q[i] < c
      BY <1>9, <2>6
    <3>2. Typed(s, c + 1, w, ts, a, b, i)
      BY <2>1, <2>2, <2>3, <2>6, Zenon DEF Closed, Typed
    <3> QED
      BY <2>1, <2>2, <2>3, <3>1, <3>2, Zenon DEF Closed
  <2> QED
    BY <2>5, <2>6
<1>13. Growing(s, c + 1, t, a[n + 1], b[n + 1])
  BY <1>6, <1>8, Zenon DEF Growing
<1> QED
  BY <1>5, <1>6, <1>11, <1>12, <1>13, Zenon DEF Cuts, n

\* A character that goes on with the token under construction.
LEMMA ExtendToken ==
  ASSUME NEW s \in Text, NEW c \in Nat, c < Len(s), NEW v, NEW w, NEW p, NEW q, Places(p, q),
         NEW ts \in Seq(Token), NEW t \in Token, t # NoToken,
         Cuts(s, c, c + 1, v, ts, t, p, q), Roles(s)[c + 1] = Follow(s, p[Len(ts) + 1]),
         NEW b, b = [q EXCEPT ![Len(ts) + 1] = c + 1],
         NEW u, u # NoToken, u.type = t.type, u.str = Append(t.str, s[c + 1])
  PROVE  Places(p, b) /\ Cuts(s, c + 1, c + 1, w, ts, u, p, b)
<1> DEFINE n == Len(ts)
<1>1. n \in Nat /\ Len(s) \in Nat /\ c + 1 \in Nat /\ n + 1 \in Nat /\ n + 1 \in 1 .. n + 1
  BY InText
<1>2. \A i \in Nat : p[i] \in Nat /\ q[i] \in Nat
  BY PlaceIs
<1>3. Count(ts, t) = n + 1 /\ Count(ts, u) = n + 1
  BY <1>1, CountIs
<1>4. Covered(s, c, n + 1, p, q)
  BY <1>3, Zenon DEF Cuts
<1>5. /\ \A i \in 1 .. n + 1 : 1 =< p[i] /\ q[i] =< c /\ Together(s, p[i], q[i])
      /\ \A i, j \in 1 .. n + 1 : i < j => q[i] < p[j]
      /\ \A k \in 1 .. c : Roles(s)[k] = "white" \/ \E i \in 1 .. n + 1 : p[i] =< k /\ k =< q[i]
  BY <1>4, Zenon DEF Covered
<1>6. Places(p, b) /\ b[n + 1] = c + 1
  BY <1>1 DEF Places
<1>7. ASSUME NEW i \in 1 .. n PROVE b[i] = q[i]
  BY <1>1 DEF Places
<1>8. Growing(s, c, t, p[n + 1], q[n + 1])
  BY <1>3, Zenon DEF Cuts
<1>9. q[n + 1] = c /\ t.str = SubSeq(s, p[n + 1], c)
  BY <1>8, Zenon DEF Growing
<1>10. /\ p[n + 1] \in Nat /\ 1 =< p[n + 1] /\ p[n + 1] =< c /\ Together(s, p[n + 1], c)
  BY <1>1, <1>2, <1>5, <1>9, Zenon DEF Together
<1>11. Growing(s, c + 1, u, p[n + 1], b[n + 1])
  <2>1. SubSeq(s, p[n + 1], c + 1) = Append(SubSeq(s, p[n + 1], c), s[c + 1])
    BY <1>10, SliceGrows, Zenon
  <2> QED
    BY <1>6, <1>8, <1>9, <2>1, Zenon DEF Growing
<1>12. ASSUME NEW i \in 1 .. n + 1 PROVE i \in 1 .. n \/ i = n + 1
  BY <1>1
<1> HIDE DEF n
<1>13. Roles(s)[c + 1] = Follow(s, p[n + 1])
  BY Zenon DEF n
<1>14. Together(s, p[n + 1], c + 1)
  <2>1. /\ Begins(s, p[n + 1]) /\ \A k \in p[n + 1] + 1 .. c : Roles(s)[k] = Follow(s, p[n + 1])
    BY <1>10, Zenon DEF Together
  <2>2. ASSUME NEW k \in p[n + 1] + 1 .. c + 1 PROVE k \in p[n + 1] + 1 .. c \/ k = c + 1
    BY <1>10
  <2>3. p[n + 1] =< c + 1
    BY <1>10
  <2> QED
    BY <1>13, <2>1, <2>2, <2>3, Zenon DEF Together
<1>15. ASSUME NEW i \in 1 .. n
       PROVE  /\ q[i] < c /\ q[i] # c /\ q[i] =< c + 1 /\ q[i] # c + 1 /\ q[i] < c + 1
              /\ i \in 1 .. n + 1
  <2>1. i \in 1 .. n + 1 /\ i < n + 1
    BY <1>1
  <2>2. q[i] < p[n + 1] /\ q[i] \in Nat
    BY <1>1, <1>2, <1>5, <2>1
  <2> QED
    BY <1>10, <2>1, <2>2
<1>16. Covered(s, c + 1, n + 1, p, b)
  <2>1. ASSUME NEW i \in 1 .. n + 1
        PROVE  1 =< p[i] /\ b[i] =< c + 1 /\ Together(s, p[i], b[i])
    <3>1. CASE i \in 1 .. n
      BY <1>5, <1>7, <1>15, <3>1, Zenon
    <3>2. CASE i = n + 1
      <4>1. c + 1 =< c + 1
        OBVIOUS
      <4> QED
        BY <1>6, <1>10, <1>14, <3>2, <4>1, Zenon
    <3> QED
      BY <1>12, <3>1, <3>2
  <2>2. ASSUME NEW i \in 1 .. n + 1, NEW j \in 1 .. n + 1, i < j PROVE b[i] < p[j]
    <3>1. i \in 1 .. n
      BY <1>1, <2>2
    <3> QED
      BY <1>5, <1>7, <2>2, <3>1, Zenon
  <2>3. ASSUME NEW k \in 1 .. c + 1, Roles(s)[k] # "white"
        PROVE  \E i \in 1 .. n + 1 : p[i] =< k /\ k =< b[i]
    <3>1. CASE k = c + 1
      <4>1. c + 1 =< c + 1 /\ p[n + 1] =< c + 1
        BY <1>10
      <4> QED
        BY <1>1, <1>6, <3>1, <4>1, Zenon
    <3>2. CASE k # c + 1
      <4>1. k \in 1 .. c
        BY <3>2
      <4>2. PICK i \in 1 .. n + 1 : p[i] =< k /\ k =< q[i]
        BY <1>5, <2>3, <4>1, Zenon
      <4>3. CASE i \in 1 .. n
        BY <1>7, <4>2, <4>3, Zenon
      <4>4. CASE i = n + 1
        <5>1. k =< c + 1
          OBVIOUS
        <5> QED
          BY <1>6, <4>2, <4>4, <5>1, Zenon
      <4> QED
        BY <1>12, <4>3, <4>4
    <3> QED
      BY <3>1, <3>2
  <2> QED
    BY <2>1, <2>2, <2>3, Zenon DEF Covered
<1>17. ASSUME NEW i \in 1 .. n PROVE Closed(s, c + 1, c + 1, w, ts, p, b, i)
  <2>1. Closed(s, c, c + 1, v, ts, p, q, i)
    BY Zenon DEF Cuts, n
  <2>2. Typed(s, c + 1, w, ts, p, b, i)
    BY <1>7, <1>15, <2>1, Zenon DEF Closed, Typed
  <2> QED
    BY <1>7, <1>15, <2>1, <2>2, Zenon DEF Closed
<1> QED
  BY <1>3, <1>6, <1>11, <1>16, <1>17, Zenon DEF Cuts, n

\* What is behind the first c characters does not matter.
LEMMA Growth ==
  ASSUME NEW s \in Text, NEW t \in Text, Grows(s, t), NEW c \in 0 .. Len(s), NEW z, NEW w,
         NEW p, NEW q, Places(p, q), NEW ts \in Seq(Token), NEW k,
         Cuts(s, c, z, w, ts, k, p, q)
  PROVE  Cuts(t, c, z, w, ts, k, p, q)
<1> DEFINE n == Len(ts)
           m == Count(ts, k)
<1>1. n \in Nat /\ Len(s) \in Nat /\ c \in Nat /\ Len(t) \in Nat /\ Len(s) =< Len(t)
  BY InText DEF Grows
<1>2. \A i \in Nat : p[i] \in Nat /\ q[i] \in Nat
  BY PlaceIs
<1>3. m = n \/ m = n + 1
  BY <1>1, CountIs
<1>4. k # NoToken => m = n + 1
  BY <1>1, CountIs
<1>5. Covered(s, c, m, p, q)
  BY Zenon DEF Cuts
<1> HIDE DEF m, n
<1>6. m \in Nat /\ (k # NoToken => m \in 1 .. m) /\ \A i \in 1 .. n : i \in 1 .. m
  BY <1>1, <1>3, <1>4
<1>7. /\ \A i \in 1 .. m : 1 =< p[i] /\ q[i] =< c /\ Together(s, p[i], q[i])
      /\ \A i, j \in 1 .. m : i < j => q[i] < p[j]
      /\ \A l \in 1 .. c : Roles(s)[l] = "white" \/ \E i \in 1 .. m : p[i] =< l /\ l =< q[i]
  BY <1>5, Zenon DEF Covered
<1>8. \A i \in 1 .. c : Roles(t)[i] = Roles(s)[i]
  <2>1. \A i \in 1 .. c : i \in 1 .. Len(s)
    BY <1>1
  <2> QED
    BY <2>1, RolesGrow, Zenon
<1>9. ASSUME NEW i \in 1 .. m
      PROVE  /\ p[i] \in 1 .. c /\ q[i] \in 1 .. c /\ p[i] =< q[i]
             /\ \A l \in p[i] + 1 .. q[i] : l \in 1 .. c
             /\ q[i] < c => q[i] + 1 \in 1 .. c
             /\ p[i] # 1 => p[i] - 1 \in 1 .. c
             /\ p[i] \in Nat /\ q[i] \in Nat
  <2>1. p[i] =< q[i]
    BY <1>7, Zenon DEF Together
  <2>2. p[i] \in Nat /\ q[i] \in Nat /\ 1 =< p[i] /\ q[i] =< c
    BY <1>2, <1>6, <1>7
  <2> QED
    BY <1>1, <2>1, <2>2
<1>10. ASSUME NEW i \in 1 .. m
       PROVE  Follow(t, p[i]) = Follow(s, p[i]) /\ Together(t, p[i], q[i])
  <2>1. Roles(t)[p[i]] = Roles(s)[p[i]]
    BY <1>8, <1>9, Zenon
  <2>2. Follow(t, p[i]) = Follow(s, p[i])
    BY <2>1, Zenon DEF Follow
  <2>3. Together(s, p[i], q[i])
    BY <1>7
  <2>4. Begins(t, p[i])
    <3>1. Begins(s, p[i])
      BY <2>3, Zenon DEF Together
    <3>2. p[i] # 1 => Roles(t)[p[i] - 1] = Roles(s)[p[i] - 1]
      BY <1>8, <1>9, Zenon
    <3> QED
      BY <2>1, <3>1, <3>2, Zenon DEF Begins
  <2> QED
    BY <1>8, <1>9, <2>2, <2>3, <2>4, Zenon DEF Together
<1>11. Covered(t, c, m, p, q)
  BY <1>7, <1>8, <1>10, Zenon DEF Covered
<1>12. ASSUME NEW i \in 1 .. m PROVE SubSeq(t, p[i], q[i]) = SubSeq(s, p[i], q[i])
  <2>1. PICK a \in Nat, b \in Nat : a = p[i] /\ b = q[i]
    BY <1>9
  <2>2. 1 =< a /\ a =< b /\ b =< Len(s) /\ b =< Len(t)
    BY <1>1, <1>9, <2>1
  <2>3. PICK x, y : x = SubSeq(s, a, b) /\ y = SubSeq(t, a, b)
    OBVIOUS
  <2>4. /\ x \in Text /\ Len(x) = (b - a) + 1
        /\ \A j \in 1 .. (b - a) + 1 : x[j] = s[a + j - 1]
    BY <2>2, <2>3, Slice
  <2>5. /\ y \in Text /\ Len(y) = (b - a) + 1
        /\ \A j \in 1 .. (b - a) + 1 : y[j] = t[a + j - 1]
    BY <2>2, <2>3, Slice
  <2>6. \A j \in 1 .. (b - a) + 1 : a + j - 1 \in 1 .. Len(s)
    BY <1>1, <2>2
  <2>7. \A j \in 1 .. Len(x) : x[j] = y[j]
    BY <2>4, <2>5, <2>6 DEF Grows
  <2>8. x = y
    BY <2>4, <2>5, <2>7, TwoTexts
  <2> QED
    BY <2>1, <2>3, <2>8
<1>13. ASSUME NEW i \in 1 .. n PROVE Closed(t, c, z, w, ts, p, q, i)
  <2>1. Closed(s, c, z, w, ts, p, q, i)
    BY Zenon DEF Cuts, n
  <2>2. i \in 1 .. m
    BY <1>6
  <2>3. Roles(t)[p[i]] = Roles(s)[p[i]]
    BY <1>8, <1>9, <2>2, Zenon
  <2>4. q[i] < c => Roles(t)[q[i] + 1] = Roles(s)[q[i] + 1]
    BY <1>8, <1>9, <2>2, Zenon
  <2>5. q[i] < c \/ q[i] = c
    BY <1>1, <1>9, <2>2
  <2>6. Typed(t, c, w, ts, p, q, i)
    <3>1. Typed(s, c, w, ts, p, q, i)
      BY <2>1, Zenon DEF Closed
    <3>2. CASE q[i] = c
      BY <2>3, <3>1, <3>2, Zenon DEF Typed
    <3>3. CASE q[i] < c
      BY <2>3, <2>4, <3>1, <3>3, Zenon DEF Typed
    <3> QED
      BY <2>5, <3>2, <3>3
  <2> QED
    BY <1>10, <1>12, <2>1, <2>2, <2>4, <2>6, Zenon DEF Closed
<1>14. ASSUME k # NoToken PROVE Growing(t, c, k, p[m], q[m])
  <2>1. Growing(s, c, k, p[m], q[m])
    BY <1>14, Zenon DEF Cuts, m
  <2>2. m \in 1 .. m
    BY <1>6, <1>14
  <2>3. Roles(t)[p[m]] = Roles(s)[p[m]] /\ SubSeq(t, p[m], q[m]) = SubSeq(s, p[m], q[m])
    BY <1>8, <1>9, <1>12, <2>2, Zenon
  <2> QED
    BY <2>1, <2>3, Zenon DEF Growing
<1> QED
  BY <1>11, <1>13, <1>14, Zenon DEF Cuts, m, n

-----------------------------------------------------------------------------
(* The reference                                                           *)

Beginnings(s) == {i \in DOMAIN s : Begins(s, i)}

LastOf(s, i) ==
  CHOOSE j \in i .. Len(s) :
    /\ \A k \in i + 1 .. j : Roles(s)[k] = Follow(s, i)
    /\ j = Len(s) \/ Roles(s)[j + 1] # Follow(s, i)

TextOf(s, i) == SubSeq(s, i, LastOf(s, i))

TypeOf(s, i) ==
  IF Roles(s)[i] = "first" THEN "OPERATOR"
  ELSE IF IsNumber(TextOf(s, i)) /\ LastOf(s, i) < Len(s) /\ Roles(s)[LastOf(s, i) + 1] = "first"
          /\ TextOf(s, LastOf(s, i) + 1) \in NumberedOperator
  THEN "IO_NUMBER" ELSE "WORD"

Nth(s, n) ==
  CHOOSE i \in Beginnings(s) : Cardinality({j \in Beginnings(s) : j =< i}) = n

LEMMA ReferenceIs ==
  ASSUME NEW s
  PROVE  Reference(s) = [n \in 1 .. Cardinality(Beginnings(s)) |->
                           [type |-> TypeOf(s, Nth(s, n)), str |-> TextOf(s, Nth(s, n))]]
BY Zenon DEF Reference, Beginnings, Begins, LastOf, Follow, TextOf, TypeOf, Nth

\* An ascending list of places counts them.
LEMMA Counted ==
  ASSUME NEW n \in Nat, NEW p, \A i \in 1 .. n : p[i] \in Nat,
         \A i, j \in 1 .. n : i < j => p[i] < p[j]
  PROVE  Cardinality({p[i] : i \in 1 .. n}) = n
<1> DEFINE S == {p[i] : i \in 1 .. n}
           f == [i \in 1 .. n |-> p[i]]
<1>1. f \in [1 .. n -> S]
  OBVIOUS
<1>2. ASSUME NEW i \in 1 .. n, NEW j \in 1 .. n, f[i] = f[j] PROVE i = j
  <2>1. p[i] = p[j] /\ p[i] \in Nat /\ p[j] \in Nat
    BY <1>2
  <2>2. ~(p[i] < p[j]) /\ ~(p[j] < p[i])
    BY <2>1
  <2>3. ~(i < j) /\ ~(j < i)
    BY <2>2
  <2> QED
    BY <2>3
<1>3. ASSUME NEW x \in S PROVE \E i \in 1 .. n : f[i] = x
  OBVIOUS
<1> HIDE DEF S, f
<1>4. f \in Injection(1 .. n, S)
  BY <1>1, <1>2 DEF Injection, IsInjective
<1>5. f \in Surjection(1 .. n, S)
  BY <1>1, <1>3 DEF Surjection
<1>6. ExistsBijection(1 .. n, S)
  BY <1>4, <1>5 DEF ExistsBijection, Bijection
<1>7. Cardinality(S) = n
  BY <1>6, FS_CountingElements
<1> QED
  BY <1>7 DEF S

\* The tokens begin where they should.
LEMMA BeginningsAre ==
  ASSUME NEW s \in Text, NEW n \in Nat, NEW p, NEW q, Places(p, q), Covered(s, Len(s), n, p, q)
  PROVE  /\ Beginnings(s) = {p[i] : i \in 1 .. n}
         /\ \A i \in 1 .. n : p[i] \in Nat /\ q[i] \in Nat /\ 1 =< p[i] /\ p[i] =< q[i]
                              /\ q[i] =< Len(s) /\ Together(s, p[i], q[i])
         /\ \A i, j \in 1 .. n : i < j => p[i] < p[j]
<1>1. Len(s) \in Nat /\ DOMAIN s = 1 .. Len(s)
  BY DEF Text
<1>2. \A i \in Nat : p[i] \in Nat /\ q[i] \in Nat
  BY PlaceIs
<1>3. /\ \A i \in 1 .. n : 1 =< p[i] /\ q[i] =< Len(s) /\ Together(s, p[i], q[i])
      /\ \A i, j \in 1 .. n : i < j => q[i] < p[j]
      /\ \A k \in 1 .. Len(s) :
           Roles(s)[k] = "white" \/ \E i \in 1 .. n : p[i] =< k /\ k =< q[i]
  BY Zenon DEF Covered
<1>4. ASSUME NEW i \in 1 .. n
      PROVE  /\ p[i] \in Nat /\ q[i] \in Nat /\ 1 =< p[i] /\ p[i] =< q[i]
             /\ q[i] =< Len(s) /\ Together(s, p[i], q[i])
  <2>1. p[i] \in Nat /\ q[i] \in Nat
    BY <1>2
  <2> QED
    BY <1>3, <2>1, Zenon DEF Together
<1>5. ASSUME NEW i \in 1 .. n, NEW j \in 1 .. n, i < j PROVE p[i] < p[j]
  <2>1. q[i] < p[j] /\ p[i] =< q[i]
    BY <1>3, <1>4, <1>5, Zenon
  <2>2. p[i] \in Nat /\ q[i] \in Nat /\ p[j] \in Nat
    BY <1>4
  <2> QED
    BY <2>1, <2>2
<1>6. ASSUME NEW i \in 1 .. n PROVE p[i] \in Beginnings(s)
  <2>1. p[i] \in DOMAIN s
    BY <1>1, <1>4
  <2> QED
    BY <1>4, <2>1, Zenon DEF Beginnings, Together
<1>7. ASSUME NEW b \in Beginnings(s) PROVE \E i \in 1 .. n : b = p[i]
  <2>1. b \in 1 .. Len(s) /\ Begins(s, b)
    BY <1>1, Zenon DEF Beginnings
  <2>2. Roles(s)[b] # "white"
    BY <2>1 DEF Begins
  <2>3. PICK i \in 1 .. n : p[i] =< b /\ b =< q[i]
    BY <1>3, <2>1, <2>2, Zenon
  <2>4. b \in Nat
    BY <2>1
  <2>5. b = p[i]
    BY <1>4, <2>1, <2>3, <2>4, RoleInside, Zenon
  <2> QED
    BY <2>5
<1>8. Beginnings(s) = {p[i] : i \in 1 .. n}
  BY <1>6, <1>7
<1> QED
  BY <1>4, <1>5, <1>8

\* The tokens begin at p[1], ..., p[n].
BeginAt(s, n, p) ==
  /\ Beginnings(s) = {p[i] : i \in 1 .. n}
  /\ \A i \in 1 .. n : p[i] \in Nat
  /\ \A i, j \in 1 .. n : i < j => p[i] < p[j]

LEMMA NthIs ==
  ASSUME NEW s, NEW n \in Nat, NEW p, BeginAt(s, n, p)
  PROVE  /\ Cardinality(Beginnings(s)) = n
         /\ \A i \in 1 .. n : Nth(s, i) = p[i]
<1> USE DEF BeginAt
<1>1. Cardinality(Beginnings(s)) = n
  BY Counted
<1>2. ASSUME NEW i \in 1 .. n PROVE Cardinality({j \in Beginnings(s) : j =< p[i]}) = i
  <2>1. {j \in Beginnings(s) : j =< p[i]} = {p[k] : k \in 1 .. i}
    <3>1. ASSUME NEW k \in 1 .. i PROVE p[k] \in Beginnings(s) /\ p[k] =< p[i]
      <4>1. k \in 1 .. n /\ (k < i \/ k = i)
        OBVIOUS
      <4>2. p[k] \in Nat /\ p[i] \in Nat
        BY <4>1
      <4> QED
        BY <4>1, <4>2
    <3>2. ASSUME NEW j \in Beginnings(s), j =< p[i] PROVE \E k \in 1 .. i : j = p[k]
      <4>1. PICK k \in 1 .. n : j = p[k]
        OBVIOUS
      <4>2. ~(i < k)
        <5>1. ASSUME i < k PROVE FALSE
          <6>1. p[i] < p[k] /\ p[i] \in Nat /\ p[k] \in Nat
            BY <5>1
          <6> QED
            BY <3>2, <4>1, <6>1
        <5> QED
          BY <5>1
      <4>3. k \in 1 .. i
        BY <4>2
      <4> QED
        BY <4>1, <4>3
    <3> QED
      BY <3>1, <3>2
  <2>2. /\ i \in Nat /\ \A k \in 1 .. i : p[k] \in Nat
        /\ \A k, l \in 1 .. i : k < l => p[k] < p[l]
    OBVIOUS
  <2>3. Cardinality({p[k] : k \in 1 .. i}) = i
    BY <2>2, Counted
  <2> QED
    BY <2>1, <2>3
<1>3. ASSUME NEW i \in 1 .. n PROVE Nth(s, i) = p[i]
  <2>1. p[i] \in Beginnings(s) /\ Cardinality({j \in Beginnings(s) : j =< p[i]}) = i
    BY <1>2
  <2>2. PICK b \in Beginnings(s) : b = Nth(s, i) /\ Cardinality({j \in Beginnings(s) : j =< b}) = i
    BY <2>1, Zenon DEF Nth
  <2>3. PICK k \in 1 .. n : b = p[k]
    OBVIOUS
  <2>4. Cardinality({j \in Beginnings(s) : j =< p[k]}) = k
    BY <1>2
  <2> QED
    BY <2>2, <2>3, <2>4
<1> QED
  BY <1>1, <1>3

LEMMA LastIs ==
  ASSUME NEW s \in Text, NEW a \in Nat, NEW b \in Nat, 1 =< a, b =< Len(s), Together(s, a, b),
         b < Len(s) => Roles(s)[b + 1] # Follow(s, a)
  PROVE  LastOf(s, a) = b
<1>1. Len(s) \in Nat
  BY InText
<1>2. a =< b /\ \A k \in a + 1 .. b : Roles(s)[k] = Follow(s, a)
  BY Zenon DEF Together
<1>3. b = Len(s) \/ Roles(s)[b + 1] # Follow(s, a)
  BY <1>1
<1>4. b \in a .. Len(s)
  BY <1>1, <1>2
<1>5. PICK j \in a .. Len(s) :
        /\ j = LastOf(s, a)
        /\ \A k \in a + 1 .. j : Roles(s)[k] = Follow(s, a)
        /\ j = Len(s) \/ Roles(s)[j + 1] # Follow(s, a)
  BY <1>2, <1>3, <1>4, Zenon DEF LastOf
<1>6. ASSUME j < b PROVE FALSE
  <2>1. j + 1 \in a + 1 .. b /\ j # Len(s)
    BY <1>1, <1>6
  <2> QED
    BY <1>2, <1>5, <2>1, Zenon
<1>7. ASSUME b < j PROVE FALSE
  <2>1. b + 1 \in a + 1 .. j /\ b # Len(s)
    BY <1>1, <1>2, <1>7
  <2> QED
    BY <1>3, <1>5, <2>1, Zenon
<1>8. j = b
  BY <1>1, <1>6, <1>7
<1> QED
  BY <1>5, <1>8

\* Tokens that the whole text makes are those of the reference.
LEMMA TokensAre ==
  ASSUME NEW s \in Text, NEW c, c = Len(s), NEW p, NEW q, Places(p, q), NEW ts \in Seq(Token),
         Cuts(s, c, c + 1, "WORD", ts, NoToken, p, q)
  PROVE  ts = Reference(s)
<1> DEFINE n == Len(ts)
<1>1. n \in Nat /\ c \in Nat
  BY InText
<1>2. Covered(s, c, n, p, q)
  <2>1. Count(ts, NoToken) = n
    BY <1>1, CountIs
  <2> QED
    BY <2>1, Zenon DEF Cuts
<1>3. ts = [i \in 1 .. n |-> ts[i]] /\ \A i \in 1 .. n : ts[i] \in Token
  OBVIOUS
<1>4. \A i \in 1 .. n : Closed(s, c, c + 1, "WORD", ts, p, q, i)
  BY Zenon DEF Cuts
<1>5. n = Len(ts)
  OBVIOUS
<1> HIDE DEF n
<1>6. /\ Beginnings(s) = {p[i] : i \in 1 .. n}
      /\ \A i \in 1 .. n : p[i] \in Nat /\ q[i] \in Nat /\ 1 =< p[i] /\ p[i] =< q[i]
                           /\ q[i] =< c /\ Together(s, p[i], q[i])
      /\ \A i, j \in 1 .. n : i < j => p[i] < p[j]
  <2>1. Covered(s, Len(s), n, p, q)
    BY <1>2
  <2> QED
    BY <1>1, <2>1, BeginningsAre
<1>7. /\ Cardinality(Beginnings(s)) = n
      /\ \A i \in 1 .. n : Nth(s, i) = p[i]
  <2>1. BeginAt(s, n, p)
    BY <1>6 DEF BeginAt
  <2> QED
    BY <1>1, <2>1, NthIs, Zenon
<1>8. ASSUME NEW i \in 1 .. n
      PROVE  LastOf(s, p[i]) = q[i] /\ TextOf(s, p[i]) = ts[i].str
  <2>1. q[i] < c => Roles(s)[q[i] + 1] # Follow(s, p[i])
    BY <1>4, Zenon DEF Closed
  <2>2. ts[i].str = SubSeq(s, p[i], q[i])
    BY <1>4, Zenon DEF Closed
  <2>3. LastOf(s, p[i]) = q[i]
    BY <1>6, <2>1, LastIs
  <2> QED
    BY <2>2, <2>3, Zenon DEF TextOf
<1>9. ASSUME NEW i \in 1 .. n PROVE TypeOf(s, p[i]) = ts[i].type
  <2>1. Typed(s, c, "WORD", ts, p, q, i)
    BY <1>4, Zenon DEF Closed
  <2>2. /\ LastOf(s, p[i]) = q[i] /\ TextOf(s, p[i]) = ts[i].str
        /\ (q[i] < c \/ q[i] = c) /\ (q[i] = c => ~(q[i] < c))
    <3>1. q[i] \in Nat /\ q[i] =< c
      BY <1>6
    <3> QED
      BY <1>1, <1>8, <3>1
  <2>3. CASE Roles(s)[p[i]] = "first"
    BY <2>1, <2>3, Zenon DEF Typed, TypeOf
  <2>4. CASE Roles(s)[p[i]] # "first" /\ q[i] = c
    <3>1. ~(LastOf(s, p[i]) < Len(s))
      BY <2>2, <2>4, Zenon
    <3> QED
      BY <2>1, <2>4, <3>1, Zenon DEF Typed, TypeOf
  <2>5. CASE Roles(s)[p[i]] # "first" /\ q[i] < c /\ Roles(s)[q[i] + 1] # "first"
    BY <2>1, <2>2, <2>5, Zenon DEF Typed, TypeOf
  <2>6. CASE Roles(s)[p[i]] # "first" /\ q[i] < c /\ Roles(s)[q[i] + 1] = "first"
    <3>1. i + 1 \in 1 .. n /\ p[i + 1] = q[i] + 1
      BY <1>1, <1>2, <2>6, NextToken
    <3>2. TextOf(s, q[i] + 1) = ts[i + 1].str
      BY <1>8, <3>1
    <3>3. i # Len(ts)
      BY <1>1, <1>5, <3>1
    <3>4. ts[i].type = IF IsNumber(ts[i].str) /\ ts[i + 1].str \in NumberedOperator
                       THEN "IO_NUMBER" ELSE "WORD"
      BY <2>1, <2>2, <2>6, <3>3, Zenon DEF Typed
    <3>5. LastOf(s, p[i]) < Len(s) /\ Roles(s)[LastOf(s, p[i]) + 1] = "first"
          /\ TextOf(s, LastOf(s, p[i]) + 1) = ts[i + 1].str
      BY <2>2, <2>6, <3>2
    <3> QED
      BY <2>2, <2>6, <3>4, <3>5, Zenon DEF TypeOf
  <2> QED
    BY <2>2, <2>3, <2>4, <2>5, <2>6, Zenon
<1>10. ASSUME NEW i \in 1 .. n
       PROVE  ts[i] = [type |-> TypeOf(s, Nth(s, i)), str |-> TextOf(s, Nth(s, i))]
  <2>1. ts[i] = [type |-> ts[i].type, str |-> ts[i].str]
    BY <1>3 DEF Token
  <2>2. Nth(s, i) = p[i]
    BY <1>7
  <2> QED
    BY <1>8, <1>9, <2>1, <2>2, Zenon
<1>11. Reference(s) = [i \in 1 .. n |->
                        [type |-> TypeOf(s, Nth(s, i)), str |-> TextOf(s, Nth(s, i))]]
  BY <1>7, ReferenceIs, Zenon
<1>12. [i \in 1 .. n |-> ts[i]] =
         [i \in 1 .. n |-> [type |-> TypeOf(s, Nth(s, i)), str |-> TextOf(s, Nth(s, i))]]
  BY <1>10
<1> QED
  BY <1>3, <1>11, <1>12, Zenon

-----------------------------------------------------------------------------
(* The next character                                                      *)

LEMMA Loosen ==
  ASSUME NEW s \in Text, NEW c \in Nat, NEW w, NEW p, NEW q, Places(p, q),
         NEW ts \in Seq(Token), NEW t, Cuts(s, c, c, w, ts, t, p, q)
  PROVE  Cuts(s, c, c + 1, w, ts, t, p, q)
<1>1. ASSUME NEW i \in 1 .. Len(ts) PROVE Closed(s, c, c + 1, w, ts, p, q, i)
  <2>1. Closed(s, c, c, w, ts, p, q, i)
    BY Zenon DEF Cuts
  <2>2. q[i] \in Nat
    <3>1. i \in Nat
      OBVIOUS
    <3> QED
      BY <3>1, PlaceIs
  <2>3. q[i] < c
    BY <2>1, Zenon DEF Closed
  <2>4. q[i] < c + 1
    BY <2>2, <2>3
  <2> QED
    BY <2>1, <2>4, Zenon DEF Closed
<1> QED
  BY <1>1, Zenon DEF Cuts

\* The token under construction.
LEMMA GrowingIs ==
  ASSUME NEW s \in Text, NEW c \in Nat, NEW z, NEW w, NEW p, NEW q, Places(p, q),
         NEW ts \in Seq(Token), NEW t, t # NoToken, Cuts(s, c, z, w, ts, t, p, q),
         NEW a, a = p[Len(ts) + 1]
  PROVE  /\ a \in Nat /\ 1 =< a /\ a =< c /\ Together(s, a, c) /\ t.str = SubSeq(s, a, c)
         /\ t.type = IF Roles(s)[a] = "first" THEN "OPERATOR" ELSE "UKNOWN"
<1> DEFINE n == Len(ts)
<1>1. n \in Nat /\ n + 1 \in 1 .. n + 1 /\ n + 1 \in Nat
  OBVIOUS
<1>2. Count(ts, t) = n + 1
  BY <1>1, CountIs
<1>3. Growing(s, c, t, p[n + 1], q[n + 1]) /\ Covered(s, c, n + 1, p, q)
  BY <1>2, Zenon DEF Cuts
<1>4. a = p[n + 1] /\ q[n + 1] = c
  BY <1>3, Zenon DEF Growing
<1>5. 1 =< a /\ Together(s, a, c) /\ a =< c
  BY <1>1, <1>3, <1>4, Zenon DEF Covered, Together
<1>6. a \in Nat
  BY <1>1, <1>4, PlaceIs
<1> QED
  BY <1>3, <1>4, <1>5, <1>6, Zenon DEF Growing

\* The second character of an operator is taken for it, and no other is.
LEMMA SecondIs ==
  ASSUME NEW s \in Text, NEW c \in Nat, c < Len(s), NEW w, NEW p, NEW q, Places(p, q),
         tokens \in Seq(Token), token \in Token, Cuts(s, c, c, w, tokens, token, p, q),
         Unquoted(s, c + 1), rest # <<>>, Next1 = s[c + 1]
  PROVE  InOperator /\ TryAppend <=> Roles(s)[c + 1] = "second"
<1>1. Len(s) \in Nat
  BY InText
<1>2. PICK a : a = p[Len(tokens) + 1]
  OBVIOUS
<1>3. token # NoToken =>
        /\ a \in Nat /\ 1 =< a /\ a =< c /\ Together(s, a, c) /\ token.str = SubSeq(s, a, c)
        /\ token.type = IF Roles(s)[a] = "first" THEN "OPERATOR" ELSE "UKNOWN"
  BY <1>2, GrowingIs
<1>4. InOperator => token # NoToken /\ Roles(s)[a] = "first"
  BY <1>3, NoTokenIs, Zenon DEF InOperator
<1>5. InOperator => (Append(token.str, s[c + 1]) \in Operator <=> Roles(s)[c + 1] = "second")
  <2> SUFFICES ASSUME InOperator
               PROVE  Append(token.str, s[c + 1]) \in Operator <=> Roles(s)[c + 1] = "second"
    OBVIOUS
  <2>1. /\ a \in Nat /\ 1 =< a /\ Together(s, a, c) /\ token.str = SubSeq(s, a, c)
        /\ Roles(s)[a] = "first"
    BY <1>3, <1>4, Zenon
  <2>2. Append(SubSeq(s, a, c), s[c + 1]) \in Operator <=> Roles(s)[c + 1] = "second"
    BY <2>1, TryAppendIs, Zenon
  <2> QED
    BY <2>1, <2>2, Zenon
<1>6. ASSUME Roles(s)[c + 1] = "second" PROVE InOperator
  <2>1. Roles(s)[c + 1] =
           Role(Open(s)[c + 1], IF c = 0 THEN "" ELSE Roles(s)[c], IF c = 0 THEN "" ELSE s[c],
                s[c + 1])
    BY <1>1, NextRole, Zenon
  <2>2. c # 0 /\ Roles(s)[c] = "first"
    BY <1>6, <2>1, Zenon DEF Role
  <2>3. PICK n \in Nat : n = Count(tokens, token)
    <3>1. Len(tokens) \in Nat
      OBVIOUS
    <3>2. Count(tokens, token) = Len(tokens) \/ Count(tokens, token) = Len(tokens) + 1
      BY <3>1, CountIs, Zenon
    <3> QED
      BY <3>1, <3>2
  <2>4. Covered(s, c, n, p, q)
    BY <2>3, Zenon DEF Cuts
  <2>5. c \in 1 .. c /\ Roles(s)[c] # "white"
    BY <2>2
  <2>6. PICK i \in 1 .. n : p[i] =< c /\ c =< q[i]
    BY <2>4, <2>5, Zenon DEF Covered
  <2>7. p[i] \in Nat /\ q[i] \in Nat /\ 1 =< p[i] /\ q[i] =< c /\ Together(s, p[i], q[i])
    <3>1. i \in Nat
      OBVIOUS
    <3>2. p[i] \in Nat /\ q[i] \in Nat
      BY <3>1, PlaceIs
    <3> QED
      BY <2>4, <3>2, Zenon DEF Covered
  <2>8. q[i] = c /\ ~(c < c)
    BY <2>6, <2>7
  <2>9. c = p[i]
    BY <2>2, <2>6, <2>7, RoleInside, Zenon
  <2>10. i \notin 1 .. Len(tokens)
    BY <2>8, Zenon DEF Cuts, Closed
  <2>11. token # NoToken /\ i = Len(tokens) + 1
    <3>1. Len(tokens) \in Nat
      OBVIOUS
    <3>2. CASE token = NoToken
      <4>1. n = Len(tokens)
        BY <2>3, <3>1, <3>2, CountIs
      <4> QED
        BY <2>10, <4>1
    <3>3. CASE token # NoToken
      <4>1. n = Len(tokens) + 1
        BY <2>3, <3>1, <3>3, CountIs
      <4> QED
        BY <2>10, <3>1, <3>3, <4>1
    <3> QED
      BY <3>2, <3>3
  <2> QED
    BY <1>2, <1>3, <2>2, <2>9, <2>11, Zenon DEF InOperator
<1> QED
  BY <1>5, <1>6, Zenon DEF TryAppend, AtEnd

\* What an unquoted character is that is not the second one of an operator.
LEMMA FreshRole ==
  ASSUME NEW s \in Text, NEW c \in Nat, c < Len(s), Unquoted(s, c + 1),
         Roles(s)[c + 1] # "second"
  PROVE  /\ s[c + 1] \in Bar => Roles(s)[c + 1] = "first"
         /\ s[c + 1] \notin Bar /\ s[c + 1] \in White => Roles(s)[c + 1] = "white"
         /\ s[c + 1] \notin Bar /\ s[c + 1] \notin White => Roles(s)[c + 1] = "word"
<1>1. Len(s) \in Nat
  BY InText
<1>2. Roles(s)[c + 1] =
         Role(Open(s)[c + 1], IF c = 0 THEN "" ELSE Roles(s)[c], IF c = 0 THEN "" ELSE s[c],
              s[c + 1])
  BY <1>1, NextRole, Zenon
<1>3. PICK x, r, b : x = s[c + 1] /\ Roles(s)[c + 1] = Role("", r, b, x)
  BY <1>2, Zenon DEF Unquoted
<1>4. <<x>> \in Operator <=> x \in Bar
  BY OperatorsAre, Zenon
<1> QED
  BY <1>3, <1>4, Zenon DEF Role

\* A character that belongs to a word, behind no word, begins one.
LEMMA WordBegins ==
  ASSUME NEW s \in Text, NEW c \in Nat, c < Len(s), NEW w, NEW p, NEW q, Places(p, q),
         NEW ts \in Seq(Token), Cuts(s, c, c + 1, w, ts, NoToken, p, q),
         EndsInOperator(s, c, Len(ts), p, q), Roles(s)[c + 1] = "word"
  PROVE  Begins(s, c + 1)
<1>1. PICK n \in Nat : n = Len(ts)
  OBVIOUS
<1>2. Covered(s, c, n, p, q)
  <2>1. Count(ts, NoToken) = n
    BY <1>1, CountIs
  <2> QED
    BY <2>1, Zenon DEF Cuts
<1>3. ASSUME c # 0, Roles(s)[c] = "word" PROVE FALSE
  <2>1. c \in 1 .. c /\ Roles(s)[c] # "white"
    BY <1>3
  <2>2. PICK i \in 1 .. n : p[i] =< c /\ c =< q[i]
    BY <1>2, <2>1, Zenon DEF Covered
  <2>3. p[i] \in Nat /\ q[i] \in Nat /\ 1 =< p[i] /\ q[i] =< c /\ Together(s, p[i], q[i])
    <3>1. i \in Nat
      OBVIOUS
    <3>2. p[i] \in Nat /\ q[i] \in Nat
      BY <3>1, PlaceIs
    <3> QED
      BY <1>2, <3>2, Zenon DEF Covered
  <2>4. q[i] = c
    BY <2>2, <2>3
  <2>5. Roles(s)[p[i]] = "first"
    BY <1>1, <2>4, Zenon DEF EndsInOperator
  <2>6. c = p[i] \/ c \in p[i] + 1 .. q[i]
    BY <2>2, <2>3
  <2>7. Roles(s)[c] = "first" \/ Roles(s)[c] = "second"
    BY <2>3, <2>5, <2>6, Zenon DEF Together, Follow
  <2> QED
    BY <1>3, <2>7
<1>4. c + 1 = 1 \/ (c # 0 /\ (c + 1) - 1 = c)
  OBVIOUS
<1> QED
  BY <1>3, <1>4, Zenon DEF Begins

\* No quotation is open where a token begins.
LEMMA BeginsUnquoted ==
  ASSUME NEW s \in Text, NEW a \in 1 .. Len(s), Begins(s, a)
  PROVE  Unquoted(s, a)
<1>1. Len(s) \in Nat /\ a \in Nat
  BY InText
<1>2. PICK c \in Nat : a = c + 1 /\ c < Len(s)
  <2>1. a - 1 \in Nat /\ a = (a - 1) + 1 /\ a - 1 < Len(s)
    BY <1>1
  <2> QED
    BY <2>1
<1>3. /\ Open(s)[1] = ""
      /\ \A i \in 2 .. Len(s) + 1 : Open(s)[i] = Opened(Open(s)[i - 1], s[i - 1])
  BY <1>1, OpenIs, Zenon
<1>4. CASE c = 0
  <2>1. a = 1
    BY <1>2, <1>4
  <2> QED
    BY <1>3, <2>1, Zenon DEF Unquoted
<1>5. CASE Roles(s)[a] = "first"
  <2>1. Roles(s)[a] =
           Role(Open(s)[a], IF c = 0 THEN "" ELSE Roles(s)[c], IF c = 0 THEN "" ELSE s[c], s[a])
    BY <1>1, <1>2, NextRole, Zenon
  <2> QED
    BY <1>5, <2>1, Zenon DEF Role, Unquoted
<1>6. CASE c # 0 /\ Roles(s)[a] # "first"
  <2>1. Roles(s)[a - 1] # "word"
    <3>1. a # 1
      BY <1>2, <1>6
    <3> QED
      BY <1>6, <3>1, Zenon DEF Begins
  <2>2. PICK b \in Nat : c = b + 1
    <3>1. c - 1 \in Nat /\ c = (c - 1) + 1
      BY <1>2, <1>6
    <3> QED
      BY <3>1
  <2>3. a - 1 = c /\ a \in 2 .. Len(s) + 1 /\ b < Len(s) /\ b + 1 = c
    BY <1>1, <1>2, <1>6, <2>2
  <2>4. Roles(s)[b + 1] =
           Role(Open(s)[b + 1], IF b = 0 THEN "" ELSE Roles(s)[b], IF b = 0 THEN "" ELSE s[b],
                s[b + 1])
    BY <1>1, <2>3, NextRole, Zenon
  <2>5. PICK r, y, x : x = s[c] /\ Roles(s)[c] = Role(Open(s)[c], r, y, x)
    BY <2>3, <2>4, Zenon
  <2>6. Roles(s)[c] # "word"
    BY <2>1, <2>3, Zenon
  <2>7. /\ Open(s)[c] = ""
        /\ <<y, x>> \in Operator \/ <<x>> \in Operator \/ x \in White
    BY <2>5, <2>6, Zenon DEF Role
  <2>8. x \notin Quote
    <3>1. x \in {"&", ">", "<"} => x \in Bar \cup {"&"}
      BY Zenon DEF Bar
    <3>2. x \in Bar \cup {"&"} \/ x \in White
      BY <2>7, <3>1, OperatorsAre, Zenon
    <3> QED
      BY <3>2, CharactersAre, Zenon
  <2>9. Open(s)[a] = Opened(Open(s)[c], x)
    BY <1>3, <2>3, <2>5, Zenon
  <2> QED
    BY <2>7, <2>8, <2>9, Zenon DEF Opened, Unquoted
<1> QED
  BY <1>4, <1>5, <1>6

\* A word is not a bar.
LEMMA WordIsNoBar ==
  ASSUME NEW s \in Text, NEW c \in 0 .. Len(s), NEW z, NEW w, NEW p, NEW q, Places(p, q),
         NEW ts \in Seq(Token), NEW t, t # NoToken, t.type = "UKNOWN",
         Cuts(s, c, z, w, ts, t, p, q)
  PROVE  t.str # <<"|">>
<1>1. Len(s) \in Nat /\ c \in Nat /\ c =< Len(s)
  BY InText
<1>2. PICK a : a = p[Len(ts) + 1]
  OBVIOUS
<1>3. /\ a \in Nat /\ 1 =< a /\ a =< c /\ Together(s, a, c) /\ t.str = SubSeq(s, a, c)
      /\ t.type = IF Roles(s)[a] = "first" THEN "OPERATOR" ELSE "UKNOWN"
  BY <1>1, <1>2, GrowingIs
<1>4. Roles(s)[a] = "word" /\ Begins(s, a)
  <2>1. Roles(s)[a] # "first"
    BY <1>3, Zenon
  <2> QED
    BY <1>3, <2>1, Zenon DEF Together, Begins
<1>5. a \in 1 .. Len(s) /\ a =< Len(s)
  BY <1>1, <1>3
<1>6. Unquoted(s, a)
  BY <1>4, <1>5, BeginsUnquoted
<1>7. PICK d \in Nat : a = d + 1 /\ d < Len(s)
  <2>1. a - 1 \in Nat /\ a = (a - 1) + 1 /\ a - 1 < Len(s)
    BY <1>1, <1>3, <1>5
  <2> QED
    BY <2>1
<1>8. s[a] \notin Bar
  <2>1. Roles(s)[d + 1] # "second" /\ Unquoted(s, d + 1) /\ Roles(s)[d + 1] # "first"
    BY <1>4, <1>6, <1>7
  <2> QED
    BY <1>7, <2>1, FreshRole, Zenon
<1>9. SubSeq(s, a, c)[1] = s[a]
  <2>1. \A i \in 1 .. (c - a) + 1 : SubSeq(s, a, c)[i] = s[a + i - 1]
    BY <1>1, <1>3, Slice, Zenon
  <2>2. 1 \in 1 .. (c - a) + 1 /\ a + 1 - 1 = a
    BY <1>1, <1>3
  <2>3. SubSeq(s, a, c)[1] = s[a + 1 - 1]
    BY <2>1, <2>2, Zenon
  <2> QED
    BY <2>2, <2>3, Zenon
<1>10. ASSUME t.str = <<"|">> PROVE FALSE
  <2>1. PICK x : x = t.str
    OBVIOUS
  <2>2. x[1] = s[a]
    BY <1>3, <1>9, <2>1, Zenon
  <2>3. x = <<"|">>
    BY <1>10, <2>1
  <2>4. x[1] = "|"
    BY <2>3
  <2>5. "|" \in Bar
    BY Zenon DEF Bar
  <2> QED
    BY <1>8, <2>2, <2>4, <2>5, Zenon
<1> QED
  BY <1>10

-----------------------------------------------------------------------------
(* Types                                                                   *)

LEMMA TokenIs ==
  /\ Token = [type : {"UKNOWN", "WORD", "OPERATOR", "IO_NUMBER"}, str : Text]
  /\ TypeOK <=> /\ rest \in Seq(Character) /\ tokens \in Seq(Token) /\ token \in Token
                /\ delim \in Quote \cup {""}
                /\ status \in {"scan", "quote", "pipe", "done", "failed"}
                /\ input \in Text
  /\ Character \subseteq Letter /\ "\n" \in Letter /\ Quote \subseteq Character
  /\ White \subseteq Character
<1>1. Character \subseteq Letter /\ "\n" \in Letter
  BY Zenon DEF Letter
<1>2. Quote \subseteq Character /\ White \subseteq Character
  BY Zenon DEF Character
<1> QED
  BY <1>1, <1>2, Zenon DEF Token, Text, Letter, TypeOK

LEMMA ExtendedIs ==
  ASSUME NEW t \in Token, NEW x \in Letter
  PROVE  /\ Extended(t, x) \in Token /\ Extended(t, x) # NoToken
         /\ Extended(t, x).type = t.type /\ Extended(t, x).str = Append(t.str, x)
<1>1. Token = [type : {"UKNOWN", "WORD", "OPERATOR", "IO_NUMBER"}, str : Text]
  BY TokenIs, Zenon
<1>2. t.str \in Text
  BY <1>1
<1>3. PICK u : u = Append(t.str, x)
  OBVIOUS
<1>4. u \in Text /\ Len(u) = Len(t.str) + 1
  BY <1>2, <1>3, Appended
<1>5. u # <<>>
  <2>1. Len(t.str) \in Nat
    BY <1>2, InText
  <2>2. Len(u) # 0
    BY <1>4, <2>1
  <2> QED
    BY <2>2
<1>6. Extended(t, x) = [t EXCEPT !.str = u]
  BY <1>3 DEF Extended
<1>7. PICK v : v = [t EXCEPT !.str = u]
  OBVIOUS
<1>8. v \in Token /\ v.type = t.type /\ v.str = u
  BY <1>1, <1>4, <1>7
<1>9. v # NoToken
  BY <1>5, <1>8, NoTokenIs, Zenon
<1> QED
  BY <1>3, <1>6, <1>7, <1>8, <1>9, Zenon

LEMMA PushedIs ==
  ASSUME NEW t \in Token, NEW v \in {"UKNOWN", "WORD"}
  PROVE  [t EXCEPT !.type = v] \in Token
BY DEF Token

-----------------------------------------------------------------------------
(* The tokens of what was read                                             *)

\* r is what is left of s behind its first c characters, with the quotation d open.
At(s, r, c, d) ==
  /\ Len(s) = c + Len(r)
  /\ \A i \in 1 .. Len(r) : r[i] = s[c + i]
  /\ Open(s)[c + 1] = d

Cut(s, c, z, ts, t) == \E p, q : Places(p, q) /\ Cuts(s, c, z, "WORD", ts, t, p, q)

Scans(s, r, d, ts, t) == \E c \in Nat : At(s, r, c, d) /\ Cut(s, c, c, ts, t)
Ends(s, r, d, ts, t) == \E c \in Nat : At(s, r, c, d) /\ Cut(s, c, c + 1, ts, t)

\* A quotation makes a word.
InWord(d, t) == d # "" => t # NoToken /\ t.type = "UKNOWN"

EndsInBar(ts) == ts # <<>> /\ ts[Len(ts)].str = <<"|">>

\* Reading a character.
LEMMA ReadOne ==
  ASSUME NEW s \in Text, NEW r \in Seq(Character), r # <<>>, NEW c \in Nat, NEW d, At(s, r, c, d)
  PROVE  /\ c < Len(s) /\ Head(r) = s[c + 1] /\ s[c + 1] \in Character
         /\ At(s, Tail(r), c + 1, Opened(d, s[c + 1])) /\ Tail(r) \in Seq(Character)
<1>1. Len(s) \in Nat
  BY InText
<1>2. Len(r) \in Nat /\ Len(r) > 0
  OBVIOUS
<1>3. /\ Len(s) = c + Len(r)
      /\ \A i \in 1 .. Len(r) : r[i] = s[c + i]
  BY Zenon DEF At
<1>4. c < Len(s)
  BY <1>2, <1>3
<1>5. Head(r) = s[c + 1] /\ s[c + 1] \in Character
  <2>1. r[1] = s[c + 1] /\ r[1] \in Character
    BY <1>2, <1>3
  <2> QED
    BY <2>1
<1>6. PICK u : u = Tail(r)
  OBVIOUS
<1>7. u \in Seq(Character) /\ Len(u) = Len(r) - 1 /\ \A i \in 1 .. Len(u) : u[i] = r[i + 1]
  BY <1>2, <1>6
<1>8. Len(s) = (c + 1) + Len(u) /\ \A i \in 1 .. Len(u) : u[i] = s[(c + 1) + i]
  <2>1. Len(s) = (c + 1) + Len(u)
    BY <1>2, <1>3, <1>7
  <2>2. ASSUME NEW i \in 1 .. Len(u) PROVE u[i] = s[(c + 1) + i]
    <3>1. i + 1 \in 1 .. Len(r) /\ c + (i + 1) = (c + 1) + i
      BY <1>2, <1>7
    <3> QED
      BY <1>3, <1>7, <3>1
  <2> QED
    BY <2>1, <2>2
<1>9. Open(s)[(c + 1) + 1] = Opened(d, s[c + 1])
  <2>1. (c + 1) + 1 \in 2 .. Len(s) + 1 /\ ((c + 1) + 1) - 1 = c + 1
    BY <1>1, <1>4
  <2>2. Open(s)[(c + 1) + 1] = Opened(Open(s)[c + 1], s[c + 1])
    BY <1>1, <2>1, OpenIs, Zenon
  <2> QED
    BY <2>2, Zenon DEF At
<1> QED
  BY <1>4, <1>5, <1>6, <1>7, <1>8, <1>9, Zenon DEF At

\* Where the scanner stands outside of a quotation.
Outside(c) == At(input, rest, c, "") /\ Cut(input, c, c, tokens, token)

LEMMA OutsideIs ==
  ASSUME TypeOK, rest # <<>>, NEW c \in Nat, Outside(c)
  PROVE  /\ c < Len(input) /\ c \in 0 .. Len(input) /\ Unquoted(input, c + 1)
         /\ Next1 = input[c + 1] /\ Next1 \in Character
         /\ At(input, Tail(rest), c + 1, Opened("", Next1)) /\ Tail(rest) \in Seq(Character)
         /\ InOperator /\ TryAppend <=> Roles(input)[c + 1] = "second"
<1>1. input \in Text /\ rest \in Seq(Character) /\ tokens \in Seq(Token) /\ token \in Token
  BY TokenIs, Zenon
<1>2. At(input, rest, c, "")
  BY Zenon DEF Outside
<1>3. /\ c < Len(input) /\ Next1 = input[c + 1] /\ Next1 \in Character
      /\ At(input, Tail(rest), c + 1, Opened("", Next1)) /\ Tail(rest) \in Seq(Character)
  BY <1>1, <1>2, ReadOne, Zenon DEF Next1
<1>4. Unquoted(input, c + 1)
  BY <1>2, Zenon DEF At, Unquoted
<1>5. c \in 0 .. Len(input)
  <2>1. c < Len(input)
    BY <1>3, Zenon
  <2>2. Len(input) \in Nat
    BY <1>1, InText, Zenon
  <2> QED
    BY <2>1, <2>2
<1>6. PICK p, q : Places(p, q) /\ Cuts(input, c, c, "WORD", tokens, token, p, q)
  BY Zenon DEF Outside, Cut
<1>7. InOperator /\ TryAppend <=> Roles(input)[c + 1] = "second"
  BY <1>1, <1>3, <1>4, <1>6, SecondIs, Zenon
<1> QED
  BY <1>3, <1>4, <1>5, <1>7, Zenon

LEMMA OperatorGoesOn ==
  ASSUME TypeOK, rest # <<>>, NEW c \in Nat, Outside(c), InOperator, TryAppend
  PROVE  Scans(input, Tail(rest), "", tokens, Extended(token, Next1))
<1>1. input \in Text /\ rest \in Seq(Character) /\ tokens \in Seq(Token) /\ token \in Token
  BY TokenIs, Zenon
<1>2. /\ c < Len(input) /\ c \in 0 .. Len(input) /\ Unquoted(input, c + 1)
      /\ Next1 = input[c + 1] /\ Next1 \in Character
      /\ At(input, Tail(rest), c + 1, Opened("", Next1)) /\ Tail(rest) \in Seq(Character)
      /\ Roles(input)[c + 1] = "second"
  BY OutsideIs, Zenon
<1>3. PICK p, q : Places(p, q) /\ Cuts(input, c, c, "WORD", tokens, token, p, q)
  BY Zenon DEF Outside, Cut
<1>4. token # NoToken
  BY NoTokenIs, Zenon DEF InOperator
<1>5. Cuts(input, c, c + 1, "WORD", tokens, token, p, q)
  BY <1>1, <1>3, Loosen, Zenon
<1>6. PICK a : a = p[Len(tokens) + 1]
  OBVIOUS
<1>7. Roles(input)[a] = "first"
  <2>1. token.type = IF Roles(input)[a] = "first" THEN "OPERATOR" ELSE "UKNOWN"
    <3>1. Cuts(input, c, c, "WORD", tokens, token, p, q) /\ Places(p, q)
      BY <1>3
    <3>2. input \in Text /\ tokens \in Seq(Token)
      BY <1>1
    <3> QED
      BY <1>4, <1>6, <3>1, <3>2, GrowingIs
  <2> QED
    BY <2>1, Zenon DEF InOperator
<1>8. Roles(input)[c + 1] = Follow(input, p[Len(tokens) + 1])
  BY <1>2, <1>6, <1>7, Zenon DEF Follow
<1>9. PICK u : u = Extended(token, Next1)
  OBVIOUS
<1>10. u # NoToken /\ u.type = token.type /\ u.str = Append(token.str, input[c + 1])
  <2>1. Next1 \in Letter
    BY <1>2, TokenIs, Zenon
  <2> QED
    BY <1>1, <1>2, <1>9, <2>1, ExtendedIs, Zenon
<1>11. PICK b : b = [q EXCEPT ![Len(tokens) + 1] = c + 1]
  OBVIOUS
<1>12. Places(p, b) /\ Cuts(input, c + 1, c + 1, "WORD", tokens, u, p, b)
  <2>1. c < Len(input)
    BY <1>2, Zenon
  <2>2. Places(p, q)
    BY <1>3
  <2>3. u # NoToken /\ u.type = token.type /\ u.str = Append(token.str, input[c + 1])
    BY <1>10
  <2> QED
    BY <1>1, <1>4, <1>5, <1>8, <1>11, <2>1, <2>2, <2>3, ExtendToken
<1>13. Opened("", Next1) = ""
  <2>1. Len(input) \in Nat
    BY <1>1, InText
  <2>2. Roles(input)[c + 1] =
           Role(Open(input)[c + 1], IF c = 0 THEN "" ELSE Roles(input)[c],
                IF c = 0 THEN "" ELSE input[c], input[c + 1])
    BY <1>2, <2>1, NextRole, Zenon
  <2>3. PICK o, r, y : Roles(input)[c + 1] = Role(o, r, y, Next1)
    BY <1>2, <2>2, Zenon
  <2>4. <<y, Next1>> \in Operator
    BY <1>2, <2>3, Zenon DEF Role
  <2>5. Next1 \in {"&", ">", "<"}
    BY <2>4, OperatorsAre, Zenon
  <2>6. Next1 \in Bar \cup {"&"}
    BY <2>5, Zenon DEF Bar
  <2>7. Next1 \notin Quote
    BY <2>6, CharactersAre, Zenon
  <2> QED
    BY <2>7, Zenon DEF Opened
<1>14. c + 1 \in Nat
  OBVIOUS
<1> QED
  BY <1>2, <1>9, <1>12, <1>13, <1>14, Zenon DEF Scans, Cut

-----------------------------------------------------------------------------
(* The turns of the cycle                                                  *)

WordAt(s, k) == Roles(s)[k] = "word"

\* A token under construction that is no operator.
Wordlike(t) == t # NoToken /\ t.type = "UKNOWN"

\* A word goes on with a character.
LEMMA WordGoesOn ==
  ASSUME NEW s \in Text, NEW c \in Nat, c < Len(s), NEW p, NEW q, Places(p, q),
         NEW ts \in Seq(Token), NEW t \in Token, Wordlike(t),
         Cuts(s, c, c + 1, "WORD", ts, t, p, q), WordAt(s, c + 1)
  PROVE  \E b : Places(p, b) /\ Cuts(s, c + 1, c + 1, "WORD", ts, Extended(t, s[c + 1]), p, b)
<1>1. PICK a : a = p[Len(ts) + 1]
  OBVIOUS
<1>2. t.type = IF Roles(s)[a] = "first" THEN "OPERATOR" ELSE "UKNOWN"
  <2>1. t # NoToken
    BY Zenon DEF Wordlike
  <2> QED
    BY <1>1, <2>1, GrowingIs
<1>3. Roles(s)[a] # "first"
  BY <1>2, Zenon DEF Wordlike
<1>4. Roles(s)[c + 1] = Follow(s, p[Len(ts) + 1])
  BY <1>1, <1>3, Zenon DEF Follow, WordAt
<1>5. PICK u : u = Extended(t, s[c + 1])
  OBVIOUS
<1>6. u # NoToken /\ u.type = t.type /\ u.str = Append(t.str, s[c + 1])
  <2>1. c + 1 \in 1 .. Len(s)
    BY InText
  <2>2. s[c + 1] \in Letter
    BY <2>1, InText
  <2> QED
    BY <1>5, <2>2, ExtendedIs, Zenon
<1>7. PICK b : b = [q EXCEPT ![Len(ts) + 1] = c + 1]
  OBVIOUS
<1>8. Places(p, b) /\ Cuts(s, c + 1, c + 1, "WORD", ts, u, p, b)
  <2>1. t # NoToken
    BY Zenon DEF Wordlike
  <2> QED
    BY <1>4, <1>6, <1>7, <2>1, ExtendToken
<1> QED
  BY <1>5, <1>8, Zenon

\* A word begins with a character.
LEMMA WordStarts ==
  ASSUME NEW s \in Text, NEW c \in Nat, c < Len(s), NEW p, NEW q, Places(p, q),
         NEW ts \in Seq(Token), Cuts(s, c, c + 1, "WORD", ts, NoToken, p, q),
         EndsInOperator(s, c, Len(ts), p, q), WordAt(s, c + 1)
  PROVE  \E a, b : Places(a, b) /\ Cuts(s, c + 1, c + 1, "WORD", ts, Extended(NoToken, s[c + 1]), a, b)
<1>1. Begins(s, c + 1)
  BY WordBegins, Zenon DEF WordAt
<1>2. PICK u : u = Extended(NoToken, s[c + 1])
  OBVIOUS
<1>3. u # NoToken /\ u.type = "UKNOWN" /\ u.str = <<s[c + 1]>>
  <2>1. c + 1 \in 1 .. Len(s)
    BY InText
  <2>2. s[c + 1] \in Letter
    BY <2>1, InText
  <2>3. u # NoToken /\ u.type = "UKNOWN" /\ u.str = Append(<<>>, s[c + 1])
    <3>1. NoToken \in Token /\ NoToken.type = "UKNOWN" /\ NoToken.str = <<>>
      BY NoTokenIs, Zenon
    <3>2. /\ u # NoToken /\ u.type = NoToken.type
          /\ u.str = Append(NoToken.str, s[c + 1])
      BY <1>2, <2>2, <3>1, ExtendedIs, Zenon
    <3> QED
      BY <3>1, <3>2, Zenon
  <2>4. Append(<<>>, s[c + 1]) = <<s[c + 1]>>
    OBVIOUS
  <2> QED
    BY <2>3, <2>4, Zenon
<1>4. Roles(s)[c + 1] # "first"
  BY Zenon DEF WordAt
<1>5. u.type = IF Roles(s)[c + 1] = "first" THEN "OPERATOR" ELSE "UKNOWN"
  BY <1>3, <1>4, Zenon
<1>9. Fits(s, c, "WORD", u) /\ Follows(s, c, Len(ts), p, q)
  BY <1>3, <1>4, <1>5, Zenon DEF Fits, Follows
<1>6. PICK a : a = [p EXCEPT ![Len(ts) + 1] = c + 1]
  OBVIOUS
<1>7. PICK b : b = [q EXCEPT ![Len(ts) + 1] = c + 1]
  OBVIOUS
<1>8. Places(a, b) /\ Cuts(s, c + 1, c + 1, "WORD", ts, u, a, b)
  BY <1>1, <1>6, <1>7, <1>9, BeginToken
<1> QED
  BY <1>2, <1>8, Zenon

\* What the cycle has in its hands once it has dealt with an operator that ends.
Dealt(c, p, q) ==
  /\ Places(p, q)
  /\ Cuts(input, c, c + 1, "WORD", Finished, Current, p, q)
  /\ EndsInOperator(input, c, Len(Finished), p, q)

LEMMA DealtWith ==
  ASSUME TypeOK, NEW c \in Nat, Outside(c)
  PROVE  /\ Finished \in Seq(Token) /\ Current \in Token /\ Current.type = "UKNOWN"
         /\ c \in 0 .. Len(input)
         /\ \E p, q : Dealt(c, p, q)
<1>1. input \in Text /\ rest \in Seq(Character) /\ tokens \in Seq(Token) /\ token \in Token
  BY TokenIs, Zenon
<1>2. c \in 0 .. Len(input)
  <2>1. Len(input) = c + Len(rest)
    BY Zenon DEF Outside, At
  <2>2. Len(rest) \in Nat
    BY <1>1
  <2> QED
    BY <2>1, <2>2
<1>3. PICK p, q : Places(p, q) /\ Cuts(input, c, c, "WORD", tokens, token, p, q)
  BY Zenon DEF Outside, Cut
<1>4. /\ Finished \in Seq(Token) /\ Current \in Token /\ Current.type = "UKNOWN"
      /\ Cuts(input, c, c + 1, "WORD", Finished, Current, p, q)
      /\ EndsInOperator(input, c, Len(Finished), p, q)
  BY <1>1, <1>2, <1>3, FinishOperator
<1> QED
  BY <1>2, <1>3, <1>4, Zenon DEF Dealt

\* The role of a character that does not go on with an operator.
LEMMA FreshIs ==
  ASSUME TypeOK, rest # <<>>, NEW c \in Nat, Outside(c), ~(InOperator /\ TryAppend)
  PROVE  /\ Next1 \in Bar => Roles(input)[c + 1] = "first"
         /\ Next1 \notin Bar /\ Next1 \in White => Roles(input)[c + 1] = "white"
         /\ Next1 \notin Bar /\ Next1 \notin White => Roles(input)[c + 1] = "word"
<1>1. input \in Text
  BY TokenIs, Zenon
<1>2. /\ c < Len(input) /\ Unquoted(input, c + 1) /\ Next1 = input[c + 1]
      /\ Roles(input)[c + 1] # "second"
  BY OutsideIs, Zenon
<1> QED
  BY <1>1, <1>2, FreshRole, Zenon

LEMMA QuietCharacters ==
  /\ \A x \in Bar : Opened("", x) = ""
  /\ \A x \in White : Opened("", x) = "" /\ x \notin Bar
<1>1. /\ \A x \in Quote : x \notin Bar /\ x \notin White
      /\ \A x \in White : x \notin Bar
  BY CharactersAre, Zenon
<1> QED
  BY <1>1, Zenon DEF Opened

\* An operator begins.
LEMMA OperatorBegins ==
  ASSUME TypeOK, rest # <<>>, NEW c \in Nat, Outside(c), ~(InOperator /\ TryAppend), Next1 \in Bar,
         NEW us, us = Pushed("UKNOWN"), NEW u, u = [type |-> "OPERATOR", str |-> <<Next1>>]
  PROVE  us \in Seq(Token) /\ u \in Token /\ Scans(input, Tail(rest), "", us, u)
<1>1. input \in Text
  BY TokenIs, Zenon
<1>2. /\ c < Len(input) /\ Next1 = input[c + 1] /\ Next1 \in Character
      /\ At(input, Tail(rest), c + 1, Opened("", Next1))
  BY OutsideIs, Zenon
<1>3. Roles(input)[c + 1] = "first"
  BY FreshIs, Zenon
<1>4. /\ Finished \in Seq(Token) /\ Current \in Token /\ Current.type = "UKNOWN"
      /\ c \in 0 .. Len(input)
  BY DealtWith, Zenon
<1>5. PICK p, q : Dealt(c, p, q)
  BY DealtWith, Zenon
<1>6. PICK v : v = "UKNOWN"
  OBVIOUS
<1>7. us \in Seq(Token) /\ Cuts(input, c, c + 1, v, us, NoToken, p, q)
  <2>1. us = IF Current = NoToken THEN Finished ELSE Append(Finished, [Current EXCEPT !.type = v])
    BY <1>6, Zenon DEF Pushed
  <2>2. /\ Places(p, q) /\ Cuts(input, c, c + 1, "WORD", Finished, Current, p, q)
        /\ EndsInOperator(input, c, Len(Finished), p, q)
    BY <1>5, Zenon DEF Dealt
  <2>3. v \in {"UKNOWN", "WORD"}
    BY <1>6, Zenon
  <2> QED
    BY <1>1, <1>4, <2>1, <2>2, <2>3, PushWord
<1>8. Begins(input, c + 1)
  BY <1>3, Zenon DEF Begins
<1>9. u # NoToken /\ u \in Token /\ u.type = "OPERATOR" /\ u.str = <<input[c + 1]>>
  <2>1. PICK z : z = <<Next1>>
    OBVIOUS
  <2>2. z \in Text
    <3>1. Next1 \in Letter
      BY <1>2, TokenIs, Zenon
    <3> QED
      BY <2>1, <3>1 DEF Text
  <2>3. u = [type |-> "OPERATOR", str |-> z]
    BY <2>1, Zenon
  <2>4. u \in [type : {"UKNOWN", "WORD", "OPERATOR", "IO_NUMBER"}, str : Text]
    BY <2>2, <2>3
  <2>5. u.type = "OPERATOR" /\ u.str = z
    BY <2>3
  <2>6. u # NoToken
    BY <2>5, NoTokenIs, Zenon
  <2>7. u \in Token
    BY <2>4, TokenIs, Zenon
  <2> QED
    BY <1>2, <2>1, <2>5, <2>6, <2>7, Zenon
<1>10. Fits(input, c, v, u) /\ Follows(input, c, Len(us), p, q)
  BY <1>3, <1>6, <1>9, Zenon DEF Fits, Follows
<1>11. PICK a : a = [p EXCEPT ![Len(us) + 1] = c + 1]
  OBVIOUS
<1>12. PICK b : b = [q EXCEPT ![Len(us) + 1] = c + 1]
  OBVIOUS
<1>13. Places(a, b) /\ Cuts(input, c + 1, c + 1, "WORD", us, u, a, b)
  <2>1. Places(p, q) /\ c < Len(input)
    BY <1>2, <1>5, Zenon DEF Dealt
  <2> QED
    BY <1>1, <1>7, <1>8, <1>10, <1>11, <1>12, <2>1, BeginToken
<1>14. Opened("", Next1) = ""
  BY QuietCharacters, Zenon
<1>15. c + 1 \in Nat
  OBVIOUS
<1> QED
  BY <1>2, <1>7, <1>9, <1>13, <1>14, <1>15, Zenon DEF Scans, Cut

\* A character of a word, or the quote that opens a quotation.
LEMMA WordTakes ==
  ASSUME TypeOK, rest # <<>>, NEW c \in Nat, Outside(c), ~(InOperator /\ TryAppend),
         Next1 \notin Bar, Next1 \notin White, NEW u, u = Extended(Current, Next1)
  PROVE  /\ Finished \in Seq(Token) /\ u \in Token /\ u # NoToken /\ u.type = "UKNOWN"
         /\ Scans(input, Tail(rest), Opened("", Next1), Finished, u)
<1>1. input \in Text
  BY TokenIs, Zenon
<1>2. /\ c < Len(input) /\ Next1 = input[c + 1] /\ Next1 \in Character
      /\ At(input, Tail(rest), c + 1, Opened("", Next1))
  BY OutsideIs, Zenon
<1>3. WordAt(input, c + 1)
  BY FreshIs, Zenon DEF WordAt
<1>4. Finished \in Seq(Token) /\ Current \in Token /\ Current.type = "UKNOWN"
  BY DealtWith, Zenon
<1>5. PICK p, q : Dealt(c, p, q)
  BY DealtWith, Zenon
<1>6. PICK t : t = Current
  OBVIOUS
<1>7. PICK ts : ts = Finished
  OBVIOUS
<1>8. /\ Places(p, q) /\ Cuts(input, c, c + 1, "WORD", ts, t, p, q)
      /\ EndsInOperator(input, c, Len(ts), p, q)
  BY <1>5, <1>6, <1>7, Zenon DEF Dealt
<1>9. \E a, b : Places(a, b) /\ Cuts(input, c + 1, c + 1, "WORD", ts, Extended(t, input[c + 1]), a, b)
  <2>1. ts \in Seq(Token) /\ t \in Token
    BY <1>4, <1>6, <1>7, Zenon
  <2>2. CASE t = NoToken
    <3>1. Cuts(input, c, c + 1, "WORD", ts, NoToken, p, q)
      BY <1>8, <2>2, Zenon
    <3>2. \E a, b : /\ Places(a, b)
                    /\ Cuts(input, c + 1, c + 1, "WORD", ts, Extended(NoToken, input[c + 1]), a, b)
      <4>1. c < Len(input)
        BY <1>2, Zenon
      <4> QED
        BY <1>1, <1>3, <1>8, <2>1, <3>1, <4>1, WordStarts
    <3> QED
      BY <2>2, <3>2, Zenon
  <2>3. CASE t # NoToken
    <3>1. Wordlike(t)
      BY <1>4, <1>6, <2>3, Zenon DEF Wordlike
    <3>2. c < Len(input)
      BY <1>2, Zenon
    <3> QED
      BY <1>1, <1>3, <1>8, <2>1, <3>1, <3>2, WordGoesOn
  <2> QED
    BY <2>2, <2>3, Zenon
<1>10. u \in Token /\ u # NoToken /\ u.type = "UKNOWN"
  <2>1. Next1 \in Letter
    BY <1>2, TokenIs, Zenon
  <2> QED
    BY <1>4, <2>1, ExtendedIs, Zenon
<1>11. u = Extended(t, input[c + 1])
  BY <1>2, <1>6, Zenon
<1>12. c + 1 \in Nat
  OBVIOUS
<1> QED
  BY <1>2, <1>4, <1>7, <1>9, <1>10, <1>11, <1>12, Zenon DEF Scans, Cut

\* White space.
LEMMA WhiteEnds ==
  ASSUME TypeOK, rest # <<>>, NEW c \in Nat, Outside(c), ~(InOperator /\ TryAppend),
         Next1 \in White, NEW us, us = Pushed("WORD")
  PROVE  us \in Seq(Token) /\ Scans(input, Tail(rest), "", us, NoToken)
<1>1. input \in Text
  BY TokenIs, Zenon
<1>2. c < Len(input) /\ At(input, Tail(rest), c + 1, Opened("", Next1))
  BY OutsideIs, Zenon
<1>3. Roles(input)[c + 1] = "white" /\ Opened("", Next1) = ""
  BY FreshIs, QuietCharacters, Zenon
<1>4. /\ Finished \in Seq(Token) /\ Current \in Token /\ Current.type = "UKNOWN"
      /\ c \in 0 .. Len(input)
  BY DealtWith, Zenon
<1>5. PICK p, q : Dealt(c, p, q)
  BY DealtWith, Zenon
<1>6. us \in Seq(Token) /\ Cuts(input, c, c + 1, "WORD", us, NoToken, p, q)
  <2>1. us = IF Current = NoToken THEN Finished
             ELSE Append(Finished, [Current EXCEPT !.type = "WORD"])
    BY Zenon DEF Pushed
  <2>2. /\ Places(p, q) /\ Cuts(input, c, c + 1, "WORD", Finished, Current, p, q)
        /\ EndsInOperator(input, c, Len(Finished), p, q)
    BY <1>5, Zenon DEF Dealt
  <2> QED
    BY <1>1, <1>4, <2>1, <2>2, PushWord
<1>7. Cuts(input, c + 1, c + 1, "WORD", us, NoToken, p, q)
  <2>1. Places(p, q) /\ c < Len(input)
    BY <1>2, <1>5, Zenon DEF Dealt
  <2>2. Roles(input)[c + 1] = "white"
    BY <1>3, Zenon
  <2> QED
    BY <1>1, <1>6, <2>1, <2>2, TakeWhite
<1>8. Places(p, q)
  BY <1>5, Zenon DEF Dealt
<1>9. c + 1 \in Nat
  OBVIOUS
<1> QED
  BY <1>2, <1>3, <1>6, <1>7, <1>8, <1>9, Zenon DEF Scans, Cut

\* The end of the line, outside of a quotation.
LEMMA LineEnds ==
  ASSUME TypeOK, NEW c \in Nat, Outside(c), NEW us, us = Pushed("WORD")
  PROVE  /\ us \in Seq(Token) /\ Ends(input, rest, "", us, NoToken)
         /\ EndsInBar(us) <=> Current = NoToken /\ Finished # <<>>
                              /\ Finished[Len(Finished)].str = <<"|">>
<1>1. input \in Text
  BY TokenIs, Zenon
<1>2. /\ Finished \in Seq(Token) /\ Current \in Token /\ Current.type = "UKNOWN"
      /\ c \in 0 .. Len(input)
  BY DealtWith, Zenon
<1>3. PICK p, q : Dealt(c, p, q)
  BY DealtWith, Zenon
<1>4. /\ Places(p, q) /\ Cuts(input, c, c + 1, "WORD", Finished, Current, p, q)
      /\ EndsInOperator(input, c, Len(Finished), p, q)
  BY <1>3, Zenon DEF Dealt
<1>5. us = IF Current = NoToken THEN Finished
           ELSE Append(Finished, [Current EXCEPT !.type = "WORD"])
  BY Zenon DEF Pushed
<1>6. us \in Seq(Token) /\ Cuts(input, c, c + 1, "WORD", us, NoToken, p, q)
  BY <1>1, <1>2, <1>4, <1>5, PushWord
<1>7. Ends(input, rest, "", us, NoToken)
  <2>1. At(input, rest, c, "")
    BY Zenon DEF Outside
  <2> QED
    BY <1>4, <1>6, <2>1, Zenon DEF Ends, Cut
<1>8. CASE Current = NoToken
  <2>1. us = Finished
    BY <1>5, <1>8, Zenon
  <2> QED
    BY <1>6, <1>7, <1>8, <2>1, Zenon DEF EndsInBar
<1>9. CASE Current # NoToken
  <2>1. Current.str # <<"|">>
    BY <1>1, <1>2, <1>4, <1>9, WordIsNoBar
  <2>2. PICK k : k = [Current EXCEPT !.type = "WORD"]
    OBVIOUS
  <2>3. k \in Token /\ k.str = Current.str
    <3>1. k \in Token
      BY <1>2, <2>2, PushedIs, Zenon
    <3>2. k.str = Current.str
      <4>1. Current \in [type : {"UKNOWN", "WORD", "OPERATOR", "IO_NUMBER"}, str : Text]
        BY <1>2, TokenIs, Zenon
      <4> QED
        BY <2>2, <4>1
    <3> QED
      BY <3>1, <3>2
  <2>4. us[Len(us)] = k
    <3>1. us = Append(Finished, k)
      BY <1>5, <1>9, <2>2, Zenon
    <3>2. Len(Append(Finished, k)) = Len(Finished) + 1 /\ Append(Finished, k)[Len(Finished) + 1] = k
      BY <1>2, <2>3, OneMore, Zenon
    <3> QED
      BY <3>1, <3>2, Zenon
  <2>5. ~EndsInBar(us)
    BY <2>1, <2>3, <2>4, Zenon DEF EndsInBar
  <2> QED
    BY <1>6, <1>7, <1>9, <2>5, Zenon
<1> QED
  BY <1>8, <1>9, Zenon

-----------------------------------------------------------------------------
(* The turns inside a quotation                                            *)

\* A character inside of a quotation is a part of a word.
LEMMA QuotedTakes ==
  ASSUME NEW s \in Text, NEW c \in Nat, c < Len(s), ~Unquoted(s, c + 1),
         NEW ts \in Seq(Token), NEW t \in Token, Wordlike(t), Cut(s, c, c, ts, t)
  PROVE  /\ Cut(s, c + 1, c + 1, ts, Extended(t, s[c + 1]))
         /\ Extended(t, s[c + 1]) \in Token /\ Wordlike(Extended(t, s[c + 1]))
<1>1. PICK p, q : Places(p, q) /\ Cuts(s, c, c, "WORD", ts, t, p, q)
  BY Zenon DEF Cut
<1>2. Cuts(s, c, c + 1, "WORD", ts, t, p, q)
  BY <1>1, Loosen, Zenon
<1>3. WordAt(s, c + 1)
  <2>1. Len(s) \in Nat
    BY InText, Zenon
  <2>2. Roles(s)[c + 1] =
           Role(Open(s)[c + 1], IF c = 0 THEN "" ELSE Roles(s)[c],
                IF c = 0 THEN "" ELSE s[c], s[c + 1])
    BY <2>1, NextRole, Zenon
  <2>3. PICK r, y : Roles(s)[c + 1] = Role(Open(s)[c + 1], r, y, s[c + 1])
    BY <2>2, Zenon
  <2> QED
    BY <2>3, Zenon DEF Role, Unquoted, WordAt
<1>4. \E b : Places(p, b) /\ Cuts(s, c + 1, c + 1, "WORD", ts, Extended(t, s[c + 1]), p, b)
  BY <1>1, <1>2, <1>3, WordGoesOn
<1>5. s[c + 1] \in Letter
  <2>1. c + 1 \in 1 .. Len(s)
    BY InText
  <2> QED
    BY <2>1, InText
<1>6. Extended(t, s[c + 1]) \in Token /\ Wordlike(Extended(t, s[c + 1]))
  BY <1>5, ExtendedIs, Zenon DEF Wordlike
<1> QED
  BY <1>4, <1>6, Zenon DEF Cut

\* More of the text.
LEMMA MoreText ==
  ASSUME NEW s \in Text, NEW t \in Text, Grows(s, t), NEW c \in 0 .. Len(s), NEW z,
         NEW ts \in Seq(Token), NEW k, Cut(s, c, z, ts, k)
  PROVE  Cut(t, c, z, ts, k) /\ Open(t)[c + 1] = Open(s)[c + 1]
<1>1. PICK p, q : Places(p, q) /\ Cuts(s, c, z, "WORD", ts, k, p, q)
  BY Zenon DEF Cut
<1>2. Cuts(t, c, z, "WORD", ts, k, p, q)
  BY <1>1, Growth
<1>3. Open(t)[c + 1] = Open(s)[c + 1]
  <2>1. c + 1 \in 1 .. Len(s) + 1
    BY InText
  <2> QED
    BY <2>1, RolesGrow, Zenon
<1> QED
  BY <1>1, <1>2, <1>3, Zenon DEF Cut

LEMMA OneLetterMore ==
  ASSUME NEW s \in Text, NEW x \in Letter, NEW t, t = Append(s, x)
  PROVE  /\ t \in Text /\ Grows(s, t) /\ Len(t) = Len(s) + 1 /\ t[Len(s) + 1] = x
         /\ Open(t)[Len(s) + 1] = Open(s)[Len(s) + 1]
         /\ Open(t)[(Len(s) + 1) + 1] = Opened(Open(s)[Len(s) + 1], x)
<1>1. /\ t \in Text /\ Len(t) = Len(s) + 1 /\ t[Len(s) + 1] = x
      /\ \A i \in 1 .. Len(s) : t[i] = s[i]
  BY Appended, Zenon
<1>2. Len(s) \in Nat
  BY InText, Zenon
<1>3. Grows(s, t)
  BY <1>1, <1>2 DEF Grows
<1>4. Open(t)[Len(s) + 1] = Open(s)[Len(s) + 1]
  <2>1. Len(s) + 1 \in 1 .. Len(s) + 1
    BY <1>2
  <2> QED
    BY <1>3, <2>1, RolesGrow, Zenon
<1>5. Open(t)[(Len(s) + 1) + 1] = Opened(Open(t)[Len(s) + 1], x)
  <2>1. /\ (Len(s) + 1) + 1 \in 2 .. Len(t) + 1
        /\ ((Len(s) + 1) + 1) - 1 = Len(s) + 1 /\ Len(t) \in Nat
    BY <1>1, <1>2
  <2>2. \A i \in 2 .. Len(t) + 1 : Open(t)[i] = Opened(Open(t)[i - 1], t[i - 1])
    BY <2>1, OpenIs, Zenon
  <2>3. Open(t)[(Len(s) + 1) + 1] =
           Opened(Open(t)[((Len(s) + 1) + 1) - 1], t[((Len(s) + 1) + 1) - 1])
    BY <2>1, <2>2, Zenon
  <2> QED
    BY <1>1, <2>1, <2>3, Zenon
<1> QED
  BY <1>1, <1>3, <1>4, <1>5, Zenon

\* The end of the line inside of a quotation: its newline is quoted.
LEMMA QuoteEnds ==
  ASSUME NEW s \in Text, NEW c \in Nat, NEW d \in Quote, At(s, <<>>, c, d),
         NEW ts \in Seq(Token), NEW t \in Token, Wordlike(t), Cut(s, c, c, ts, t)
  PROVE  /\ Append(s, "\n") \in Text /\ Extended(t, "\n") \in Token
         /\ Wordlike(Extended(t, "\n"))
         /\ Scans(Append(s, "\n"), <<>>, d, ts, Extended(t, "\n"))
<1>1. PICK x : x = "\n"
  OBVIOUS
<1>2. x \in Letter /\ Opened(d, x) = d /\ d # ""
  <2>1. x \in Letter
    BY <1>1, TokenIs, Zenon
  <2>2. x # d /\ d # ""
    BY <1>1, Zenon DEF Quote
  <2> QED
    BY <2>1, <2>2, Zenon DEF Opened
<1>3. c = Len(s) /\ Open(s)[c + 1] = d
  <2>1. Len(s) = c + Len(<<>>) /\ Open(s)[c + 1] = d
    BY Zenon DEF At
  <2>2. c = Len(s)
    <3>1. PICK n : n = Len(s)
      OBVIOUS
    <3>2. n = c + Len(<<>>)
      BY <2>1, <3>1, Zenon
    <3>3. Len(<<>>) = 0
      OBVIOUS
    <3>4. n = c
      BY <3>2, <3>3
    <3> QED
      BY <3>1, <3>4, Zenon
  <2> QED
    BY <2>1, <2>2, Zenon
<1>4. PICK u : u = Append(s, x)
  OBVIOUS
<1>5. /\ u \in Text /\ Grows(s, u) /\ Len(u) = c + 1 /\ u[c + 1] = x
      /\ Open(u)[c + 1] = d /\ Open(u)[(c + 1) + 1] = d
  BY <1>2, <1>3, <1>4, OneLetterMore, Zenon
<1>6. Cut(u, c, c, ts, t)
  <2>1. c \in 0 .. Len(s)
    BY <1>3
  <2> QED
    BY <1>5, <2>1, MoreText, Zenon
<1>7. /\ Cut(u, c + 1, c + 1, ts, Extended(t, x))
      /\ Extended(t, x) \in Token /\ Wordlike(Extended(t, x))
  <2>1. ~Unquoted(u, c + 1)
    BY <1>2, <1>5, Zenon DEF Unquoted
  <2>2. c < Len(u)
    <3>1. PICK n : n = Len(u)
      OBVIOUS
    <3>2. n = c + 1
      BY <1>5, <3>1, Zenon
    <3>3. c < n
      BY <3>2
    <3> QED
      BY <3>1, <3>3, Zenon
  <2>3. /\ Cut(u, c + 1, c + 1, ts, Extended(t, u[c + 1]))
        /\ Extended(t, u[c + 1]) \in Token /\ Wordlike(Extended(t, u[c + 1]))
    BY <1>5, <1>6, <2>1, <2>2, QuotedTakes, Zenon
  <2> QED
    BY <1>5, <2>3, Zenon
<1>8. At(u, <<>>, c + 1, d)
  <2>1. \A i \in 1 .. Len(<<>>) : <<>>[i] = u[(c + 1) + i]
    OBVIOUS
  <2>2. Len(u) = (c + 1) + Len(<<>>)
    <3>1. PICK n : n = Len(u)
      OBVIOUS
    <3>2. n = c + 1
      BY <1>5, <3>1, Zenon
    <3>3. n = (c + 1) + Len(<<>>)
      BY <3>2
    <3> QED
      BY <3>1, <3>3, Zenon
  <2> QED
    BY <1>5, <2>1, <2>2, Zenon DEF At
<1>9. c + 1 \in Nat
  OBVIOUS
<1> QED
  BY <1>1, <1>4, <1>5, <1>7, <1>8, <1>9, Zenon DEF Scans

-----------------------------------------------------------------------------
(* The prompts for more                                                    *)

\* The blank that stands for the newline behind a bar is white space.
LEMMA BlankIsWhite ==
  ASSUME NEW s \in Text, NEW c \in Nat, c < Len(s), Unquoted(s, c + 1), s[c + 1] = " "
  PROVE  Roles(s)[c + 1] = "white"
<1>1. Len(s) \in Nat
  BY InText, Zenon
<1>2. Roles(s)[c + 1] =
         Role(Open(s)[c + 1], IF c = 0 THEN "" ELSE Roles(s)[c], IF c = 0 THEN "" ELSE s[c],
              s[c + 1])
  BY <1>1, NextRole, Zenon
<1>3. PICK r, y : Roles(s)[c + 1] = Role(Open(s)[c + 1], r, y, " ")
  BY <1>2, Zenon
<1>4. " " \in White /\ " " \notin Bar
  BY CharactersAre, Zenon
<1>5. <<y, " ">> \notin Operator /\ <<" ">> \notin Operator
  <2>1. \A x, b : <<x, b>> \in Operator => b \in {"&", ">", "<"}
    BY OperatorsAre, Zenon
  <2>2. " " \notin {"&", ">", "<"}
    BY Zenon
  <2>3. <<" ">> \notin Operator
    BY <1>4, OperatorsAre, Zenon
  <2> QED
    BY <2>1, <2>2, <2>3, Zenon
<1> QED
  BY <1>3, <1>4, <1>5, Zenon DEF Role, Unquoted

\* The text behind a bar goes on with a blank.
NoQuote(d) == d = ""

LEMMA BarGoesOn ==
  ASSUME NEW s \in Text, NEW d, NoQuote(d), NEW ts \in Seq(Token), Ends(s, <<>>, d, ts, NoToken)
  PROVE  Append(s, " ") \in Text /\ Scans(Append(s, " "), <<>>, d, ts, NoToken)
<1>1. PICK x : x = " "
  OBVIOUS
<1>2. x \in Letter /\ Opened(d, x) = d
  <2>1. " " \in White
    BY CharactersAre, Zenon
  <2>2. x \in Letter
    BY <1>1, <2>1, TokenIs, Zenon
  <2> QED
    BY <1>1, <2>1, <2>2, QuietCharacters, Zenon DEF NoQuote
<1>3. PICK c \in Nat : At(s, <<>>, c, d) /\ Cut(s, c, c + 1, ts, NoToken)
  BY Zenon DEF Ends
<1>4. c = Len(s) /\ Open(s)[c + 1] = d
  <2>1. Len(s) = c + Len(<<>>) /\ Open(s)[c + 1] = d
    BY <1>3, Zenon DEF At
  <2>2. c = Len(s)
    <3>1. PICK n : n = Len(s)
      OBVIOUS
    <3>2. n = c + Len(<<>>)
      BY <2>1, <3>1, Zenon
    <3>3. Len(<<>>) = 0
      OBVIOUS
    <3>4. n = c
      BY <3>2, <3>3
    <3> QED
      BY <3>1, <3>4, Zenon
  <2> QED
    BY <2>1, <2>2, Zenon
<1>5. PICK u : u = Append(s, x)
  OBVIOUS
<1>6. /\ u \in Text /\ Grows(s, u) /\ Len(u) = c + 1 /\ u[c + 1] = x
      /\ Open(u)[c + 1] = d /\ Open(u)[(c + 1) + 1] = d
  BY <1>2, <1>4, <1>5, OneLetterMore, Zenon
<1>7. PICK n : n = Len(u)
  OBVIOUS
<1>8. c < n /\ n = (c + 1) + Len(<<>>) /\ c + 1 \in Nat
  <2>1. n = c + 1
    BY <1>6, <1>7, Zenon
  <2> QED
    BY <2>1
<1>9. Cut(u, c, c + 1, ts, NoToken)
  <2>1. c \in 0 .. Len(s)
    <3>1. c = Len(s)
      BY <1>4, Zenon
    <3> QED
      BY <3>1
  <2> QED
    BY <1>3, <1>6, <2>1, MoreText, Zenon
<1>10. Roles(u)[c + 1] = "white"
  <2>1. Unquoted(u, c + 1) /\ c < Len(u) /\ u[c + 1] = " "
    BY <1>1, <1>6, <1>7, <1>8, Zenon DEF Unquoted, NoQuote
  <2> QED
    BY <1>6, <2>1, BlankIsWhite, Zenon
<1>11. Cut(u, c + 1, c + 1, ts, NoToken)
  <2>1. PICK p, q : Places(p, q) /\ Cuts(u, c, c + 1, "WORD", ts, NoToken, p, q)
    BY <1>9, Zenon DEF Cut
  <2>2. c < Len(u) /\ u \in Text
    BY <1>6, <1>7, <1>8, Zenon
  <2>3. Cuts(u, c + 1, c + 1, "WORD", ts, NoToken, p, q)
    BY <1>10, <2>1, <2>2, TakeWhite
  <2> QED
    BY <2>1, <2>3, Zenon DEF Cut
<1>12. At(u, <<>>, c + 1, d)
  <2>1. \A i \in 1 .. Len(<<>>) : <<>>[i] = u[(c + 1) + i]
    OBVIOUS
  <2>2. Len(u) = (c + 1) + Len(<<>>)
    BY <1>7, <1>8, Zenon
  <2> QED
    BY <1>6, <2>1, <2>2, Zenon DEF At
<1> QED
  BY <1>1, <1>5, <1>6, <1>8, <1>11, <1>12, Zenon DEF Scans

\* A further line is put behind what was read.
LEMMA LineAdded ==
  ASSUME NEW s \in Text, NEW r \in Seq(Character), NEW d, NEW ts \in Seq(Token), NEW t,
         Scans(s, <<>>, d, ts, t)
  PROVE  s \o r \in Text /\ Scans(s \o r, r, d, ts, t)
<1>1. PICK c \in Nat : At(s, <<>>, c, d) /\ Cut(s, c, c, ts, t)
  BY Zenon DEF Scans
<1>2. /\ Len(s) = c + Len(<<>>) /\ Open(s)[c + 1] = d
  BY <1>1, Zenon DEF At
<1>3. c = Len(s)
  BY <1>2, InText
<1>4. PICK u : u = s \o r
  OBVIOUS
<1>5. r \in Text
  <2>1. Character \subseteq Letter
    BY TokenIs, Zenon
  <2> QED
    BY <2>1 DEF Text
<1>6. /\ u \in Text /\ Len(u) = Len(s) + Len(r)
      /\ \A i \in 1 .. Len(s) : u[i] = s[i]
      /\ \A i \in 1 .. Len(r) : u[Len(s) + i] = r[i]
  BY <1>4, <1>5 DEF Text
<1>7. Len(s) \in Nat /\ Len(r) \in Nat
  BY <1>5, InText, Zenon
<1>8. Grows(s, u)
  <2>1. Len(u) \in Nat /\ Len(s) =< Len(u)
    BY <1>6, <1>7
  <2> QED
    BY <1>6, <1>7, <2>1, Zenon DEF Grows
<1>9. c \in 0 .. Len(s)
  BY <1>3, <1>7
<1>10. Cut(u, c, c, ts, t) /\ Open(u)[c + 1] = Open(s)[c + 1]
  BY <1>1, <1>6, <1>8, <1>9, MoreText, Zenon
<1>11. At(u, r, c, d)
  BY <1>2, <1>3, <1>6, <1>10, Zenon DEF At
<1> QED
  BY <1>4, <1>6, <1>10, <1>11, Zenon DEF Scans

-----------------------------------------------------------------------------
(* The invariant                                                           *)

\* In front of each character, the tokens are those of what was read so far; the
\* last one may still grow, and the type of the last word may still be open.
LexInv ==
  /\ TypeOK
  /\ status \in {"scan", "quote"} =>
       Scans(input, rest, delim, tokens, token) /\ InWord(delim, token)
  /\ status = "quote" => rest = <<>> /\ delim # ""
  /\ status \in {"pipe", "done"} =>
       /\ rest = <<>> /\ delim = "" /\ token = NoToken
       /\ Ends(input, rest, delim, tokens, token)
       /\ status = "pipe" <=> EndsInBar(tokens)

LEMMA StillScanning ==
  ASSUME rest' \in Seq(Character), tokens' \in Seq(Token), token' \in Token,
         delim' \in Quote \cup {""}, status' = "scan", input' \in Text,
         Scans(input', rest', delim', tokens', token'), InWord(delim', token')
  PROVE  LexInv'
<1>1. TypeOK'
  BY Zenon DEF TypeOK, Text, Letter
<1> QED
  BY <1>1, Zenon DEF LexInv

LEMMA Typed1 ==
  ASSUME LexInv
  PROVE  /\ TypeOK /\ rest \in Seq(Character) /\ tokens \in Seq(Token) /\ token \in Token
         /\ delim \in Quote \cup {""} /\ input \in Text
BY TokenIs, Zenon DEF LexInv

LEMMA Standing ==
  ASSUME LexInv, Scanning
  PROVE  status = "scan" /\ delim = "" /\ \E c \in Nat : Outside(c)
BY Zenon DEF LexInv, Scanning, Scans, Outside

LEMMA AppendOperatorKeeps ==
  ASSUME LexInv, AppendOperator
  PROVE  LexInv'
<1>1. /\ Scanning /\ InOperator /\ TryAppend /\ rest # <<>>
      /\ token' = Extended(token, Next1) /\ rest' = Tail(rest)
      /\ tokens' = tokens /\ delim' = delim /\ status' = status /\ input' = input
  BY Zenon DEF AppendOperator, TryAppend, AtEnd, Advance
<1>2. /\ TypeOK /\ rest \in Seq(Character) /\ tokens \in Seq(Token) /\ token \in Token
      /\ input \in Text
  BY Typed1, Zenon
<1>3. PICK c \in Nat : Outside(c)
  BY <1>1, Standing, Zenon
<1>4. Scans(input, Tail(rest), "", tokens, Extended(token, Next1))
  BY <1>1, <1>2, <1>3, OperatorGoesOn, Zenon
<1>5. Next1 \in Character /\ Tail(rest) \in Seq(Character)
  BY <1>1, <1>2, <1>3, OutsideIs, Zenon
<1>6. Extended(token, Next1) \in Token
  BY <1>2, <1>5, TokenIs, ExtendedIs, Zenon
<1>7. status = "scan" /\ delim = ""
  BY <1>1, Standing, Zenon
<1>8. InWord("", token')
  BY Zenon DEF InWord
<1> QED
  BY <1>1, <1>2, <1>4, <1>5, <1>6, <1>7, <1>8, StillScanning, Zenon

LEMMA BeginOperatorKeeps ==
  ASSUME LexInv, BeginOperator
  PROVE  LexInv'
<1>1. /\ Scanning /\ ~(InOperator /\ TryAppend) /\ rest # <<>>
      /\ \E o \in Operator : o[1] = Next1
      /\ tokens' = Pushed("UKNOWN") /\ token' = [type |-> "OPERATOR", str |-> <<Next1>>]
      /\ rest' = Tail(rest)
      /\ delim' = delim /\ status' = status /\ input' = input
  BY Zenon DEF BeginOperator, Fresh, AtEnd, Advance
<1>2. TypeOK /\ input \in Text
  BY Typed1, Zenon
<1>3. PICK c \in Nat : Outside(c)
  BY <1>1, Standing, Zenon
<1>4. Next1 \in Bar
  BY <1>1, OperatorsAre, Zenon
<1>5. tokens' \in Seq(Token) /\ token' \in Token /\ Scans(input, Tail(rest), "", tokens', token')
  BY <1>1, <1>2, <1>3, <1>4, OperatorBegins, Zenon
<1>6. Tail(rest) \in Seq(Character)
  BY <1>1, <1>2, <1>3, OutsideIs, Zenon
<1>7. status = "scan" /\ delim = ""
  BY <1>1, Standing, Zenon
<1>8. InWord("", token')
  BY Zenon DEF InWord
<1> QED
  BY <1>1, <1>2, <1>5, <1>6, <1>7, <1>8, StillScanning, Zenon

LEMMA OpenQuoteKeeps ==
  ASSUME LexInv, OpenQuote
  PROVE  LexInv'
<1>1. /\ Scanning /\ ~(InOperator /\ TryAppend) /\ rest # <<>> /\ Next1 \in Quote
      /\ tokens' = Finished /\ token' = Extended(Current, Next1) /\ delim' = Next1
      /\ rest' = Tail(rest) /\ status' = status /\ input' = input
  BY Zenon DEF OpenQuote, Fresh, AtEnd, Advance
<1>2. TypeOK /\ input \in Text
  BY Typed1, Zenon
<1>3. PICK c \in Nat : Outside(c)
  BY <1>1, Standing, Zenon
<1>4. Next1 \notin Bar /\ Next1 \notin White /\ Opened("", Next1) = Next1
  <2>1. Next1 \notin Bar /\ Next1 \notin White
    BY <1>1, CharactersAre, Zenon
  <2> QED
    BY <1>1, <2>1, Zenon DEF Opened
<1>5. /\ Finished \in Seq(Token) /\ token' \in Token /\ token' # NoToken /\ token'.type = "UKNOWN"
      /\ Scans(input, Tail(rest), Opened("", Next1), Finished, token')
  BY <1>1, <1>2, <1>3, <1>4, WordTakes, Zenon
<1>6. Tail(rest) \in Seq(Character)
  BY <1>1, <1>2, <1>3, OutsideIs, Zenon
<1>7. status = "scan"
  BY <1>1, Standing, Zenon
<1>8. InWord(delim', token') /\ delim' \in Quote \cup {""}
  BY <1>1, <1>5, Zenon DEF InWord
<1> QED
  BY <1>1, <1>2, <1>4, <1>5, <1>6, <1>7, <1>8, StillScanning, Zenon

LEMMA SeparatorKeeps ==
  ASSUME LexInv, Separator
  PROVE  LexInv'
<1>1. /\ Scanning /\ ~(InOperator /\ TryAppend) /\ rest # <<>> /\ Next1 \in White
      /\ tokens' = Pushed("WORD") /\ token' = NoToken /\ rest' = Tail(rest)
      /\ delim' = delim /\ status' = status /\ input' = input
  BY Zenon DEF Separator, Fresh, AtEnd, Advance
<1>2. TypeOK /\ input \in Text
  BY Typed1, Zenon
<1>3. PICK c \in Nat : Outside(c)
  BY <1>1, Standing, Zenon
<1>4. tokens' \in Seq(Token) /\ Scans(input, Tail(rest), "", tokens', NoToken)
  BY <1>1, <1>2, <1>3, WhiteEnds, Zenon
<1>5. Tail(rest) \in Seq(Character)
  BY <1>1, <1>2, <1>3, OutsideIs, Zenon
<1>6. status = "scan" /\ delim = ""
  BY <1>1, Standing, Zenon
<1>7. InWord("", token') /\ NoToken \in Token
  BY NoTokenIs, Zenon DEF InWord
<1> QED
  BY <1>1, <1>2, <1>4, <1>5, <1>6, <1>7, StillScanning, Zenon

LEMMA WordCharacterKeeps ==
  ASSUME LexInv, WordCharacter
  PROVE  LexInv'
<1>1. /\ Scanning /\ ~(InOperator /\ TryAppend) /\ rest # <<>>
      /\ Next1 \in Plain \cup Digit \cup {"&"}
      /\ tokens' = Finished /\ token' = Extended(Current, Next1) /\ rest' = Tail(rest)
      /\ delim' = delim /\ status' = status /\ input' = input
  BY Zenon DEF WordCharacter, Fresh, AtEnd, Advance
<1>2. TypeOK /\ input \in Text
  BY Typed1, Zenon
<1>3. PICK c \in Nat : Outside(c)
  BY <1>1, Standing, Zenon
<1>4. Next1 \notin Bar /\ Next1 \notin White /\ Opened("", Next1) = ""
  <2>1. Next1 \notin Bar /\ Next1 \notin White /\ Next1 \notin Quote
    BY <1>1, CharactersAre, Zenon
  <2> QED
    BY <2>1, Zenon DEF Opened
<1>5. /\ Finished \in Seq(Token) /\ token' \in Token
      /\ Scans(input, Tail(rest), Opened("", Next1), Finished, token')
  BY <1>1, <1>2, <1>3, <1>4, WordTakes, Zenon
<1>6. Tail(rest) \in Seq(Character)
  BY <1>1, <1>2, <1>3, OutsideIs, Zenon
<1>7. status = "scan" /\ delim = ""
  BY <1>1, Standing, Zenon
<1>8. InWord("", token')
  BY Zenon DEF InWord
<1> QED
  BY <1>1, <1>2, <1>4, <1>5, <1>6, <1>7, <1>8, StillScanning, Zenon

LEMMA LineIsSeq ==
  ASSUME NEW S, NEW n \in Nat, NEW r \in [1 .. n -> S]
  PROVE  r \in Seq(S)
OBVIOUS

LEMMA EndKeeps ==
  ASSUME LexInv, End
  PROVE  LexInv'
<1>1. /\ Scanning /\ rest = <<>> /\ tokens' = Pushed("WORD") /\ token' = NoToken
      /\ status' = IF Current = NoToken /\ Finished # <<>>
                      /\ Finished[Len(Finished)].str = <<"|">>
                   THEN "pipe" ELSE "done"
      /\ rest' = rest /\ delim' = delim /\ input' = input
  BY Zenon DEF End, Fresh, AtEnd
<1>2. /\ TypeOK /\ rest \in Seq(Character) /\ input \in Text
  BY Typed1, Zenon
<1>3. PICK c \in Nat : Outside(c)
  BY <1>1, Standing, Zenon
<1>4. /\ tokens' \in Seq(Token) /\ Ends(input, rest, "", tokens', NoToken)
      /\ EndsInBar(tokens') <=> Current = NoToken /\ Finished # <<>>
                                /\ Finished[Len(Finished)].str = <<"|">>
  BY <1>1, <1>2, <1>3, LineEnds, Zenon
<1>5. delim = ""
  BY <1>1, Standing, Zenon
<1>6. status' = IF EndsInBar(tokens') THEN "pipe" ELSE "done"
  BY <1>1, <1>4, Zenon
<1>7. /\ status' \in {"pipe", "done"} /\ status' \notin {"scan", "quote"} /\ status' # "quote"
      /\ status' = "pipe" <=> EndsInBar(tokens')
  BY <1>6, Zenon
<1>8. TypeOK'
  <2>1. status' \in {"scan", "quote", "pipe", "done", "failed"}
    BY <1>7, Zenon
  <2>2. delim' \in Quote \cup {""} /\ NoToken \in Token
    BY <1>1, Typed1, NoTokenIs, Zenon
  <2> QED
    BY <1>1, <1>2, <1>4, <2>1, <2>2, Zenon DEF TypeOK, Text, Letter
<1> QED
  BY <1>1, <1>4, <1>5, <1>7, <1>8, Zenon DEF LexInv

LEMMA QuotedCharacterKeeps ==
  ASSUME LexInv, QuotedCharacter
  PROVE  LexInv'
<1>1. /\ status = "scan" /\ delim # "" /\ rest # <<>> /\ token' = Extended(token, Next1)
      /\ delim' = (IF Next1 = delim THEN "" ELSE delim) /\ rest' = Tail(rest)
      /\ tokens' = tokens /\ status' = status /\ input' = input
  BY Zenon DEF QuotedCharacter, Quoting, AtEnd, Advance
<1>2. /\ rest \in Seq(Character) /\ tokens \in Seq(Token) /\ token \in Token
      /\ delim \in Quote \cup {""} /\ input \in Text
  BY Typed1, Zenon
<1>3. Scans(input, rest, delim, tokens, token) /\ Wordlike(token)
  BY <1>1, Zenon DEF LexInv, InWord, Wordlike
<1>4. PICK c \in Nat : At(input, rest, c, delim) /\ Cut(input, c, c, tokens, token)
  BY <1>3, Zenon DEF Scans
<1>5. /\ c < Len(input) /\ Next1 = input[c + 1]
      /\ At(input, Tail(rest), c + 1, Opened(delim, input[c + 1])) /\ Tail(rest) \in Seq(Character)
  BY <1>1, <1>2, <1>4, ReadOne, Zenon DEF Next1
<1>6. ~Unquoted(input, c + 1)
  BY <1>1, <1>4, Zenon DEF At, Unquoted
<1>7. /\ Cut(input, c + 1, c + 1, tokens, Extended(token, input[c + 1]))
      /\ Extended(token, input[c + 1]) \in Token /\ Wordlike(Extended(token, input[c + 1]))
  BY <1>2, <1>3, <1>4, <1>5, <1>6, QuotedTakes, Zenon
<1>8. delim' = Opened(delim, input[c + 1]) /\ delim' \in Quote \cup {""}
  BY <1>1, <1>2, <1>5, Zenon DEF Opened
<1>9. c + 1 \in Nat
  OBVIOUS
<1>10. Scans(input', rest', delim', tokens', token')
  BY <1>1, <1>5, <1>7, <1>8, <1>9, Zenon DEF Scans
<1>11. InWord(delim', token') /\ token' \in Token
  BY <1>1, <1>5, <1>7, Zenon DEF InWord, Wordlike
<1> QED
  BY <1>1, <1>2, <1>5, <1>8, <1>10, <1>11, StillScanning, Zenon

LEMMA EndInQuoteKeeps ==
  ASSUME LexInv, EndInQuote
  PROVE  LexInv'
<1>1. /\ status = "scan" /\ delim # "" /\ rest = <<>> /\ token' = Extended(token, "\n")
      /\ status' = "quote" /\ input' = Append(input, "\n")
      /\ rest' = rest /\ tokens' = tokens /\ delim' = delim
  BY Zenon DEF EndInQuote, Quoting, AtEnd
<1>2. /\ rest \in Seq(Character) /\ tokens \in Seq(Token) /\ token \in Token
      /\ delim \in Quote \cup {""} /\ input \in Text
  BY Typed1, Zenon
<1>3. Scans(input, <<>>, delim, tokens, token) /\ Wordlike(token) /\ delim \in Quote
  BY <1>1, <1>2, Zenon DEF LexInv, InWord, Wordlike
<1>4. PICK c \in Nat : At(input, <<>>, c, delim) /\ Cut(input, c, c, tokens, token)
  BY <1>3, Zenon DEF Scans
<1>5. /\ input' \in Text /\ token' \in Token /\ Wordlike(token')
      /\ Scans(input', <<>>, delim, tokens, token')
  BY <1>1, <1>2, <1>3, <1>4, QuoteEnds, Zenon
<1>6. InWord(delim', token')
  BY <1>5, Zenon DEF InWord, Wordlike
<1>7. TypeOK'
  <2>1. status' \in {"scan", "quote", "pipe", "done", "failed"}
    BY <1>1, Zenon
  <2> QED
    BY <1>1, <1>2, <1>5, <2>1, Zenon DEF TypeOK, Text, Letter
<1>8. status' = "quote" /\ status' \notin {"pipe", "done"}
  BY <1>1, Zenon
<1> QED
  BY <1>1, <1>5, <1>6, <1>7, <1>8, Zenon DEF LexInv

LEMMA MoreKeeps ==
  ASSUME LexInv, More
  PROVE  LexInv'
<1>1. /\ status \in {"quote", "pipe"}
      /\ \E n \in 0 .. MaxChars - Len(input) : rest' \in [1 .. n -> Character]
      /\ input' = (IF status = "pipe" THEN Append(input, " ") ELSE input) \o rest'
      /\ status' = "scan" /\ tokens' = tokens /\ token' = token /\ delim' = delim
  BY Zenon DEF More
<1>2. /\ tokens \in Seq(Token) /\ token \in Token /\ delim \in Quote \cup {""} /\ input \in Text
  BY Typed1, Zenon
<1>3. rest' \in Seq(Character)
  <2>1. PICK n \in 0 .. MaxChars - Len(input) : rest' \in [1 .. n -> Character]
    BY <1>1
  <2>2. n \in Nat
    OBVIOUS
  <2> QED
    BY <2>1, <2>2, LineIsSeq, Zenon
<1>4. PICK s : s = IF status = "pipe" THEN Append(input, " ") ELSE input
  OBVIOUS
<1>5. s \in Text /\ Scans(s, <<>>, delim, tokens, token) /\ InWord(delim, token)
  <2>1. CASE status = "quote"
    <3>1. s = input
      BY <1>4, <2>1, Zenon
    <3> QED
      BY <1>2, <2>1, <3>1, Zenon DEF LexInv
  <2>2. CASE status = "pipe"
    <3>1. s = Append(input, " ")
      BY <1>4, <2>2, Zenon
    <3>2. NoQuote(delim) /\ token = NoToken /\ Ends(input, <<>>, delim, tokens, NoToken)
      BY <2>2, Zenon DEF LexInv, NoQuote
    <3>3. s \in Text /\ Scans(s, <<>>, delim, tokens, NoToken)
      BY <1>2, <3>1, <3>2, BarGoesOn, Zenon
    <3> QED
      BY <3>2, <3>3, Zenon DEF InWord, NoQuote
  <2> QED
    BY <1>1, <2>1, <2>2, Zenon
<1>6. input' = s \o rest'
  BY <1>1, <1>4, Zenon
<1>7. input' \in Text /\ Scans(input', rest', delim, tokens, token)
  BY <1>2, <1>3, <1>5, <1>6, LineAdded, Zenon
<1> QED
  BY <1>1, <1>2, <1>3, <1>5, <1>7, StillScanning, Zenon

LEMMA GiveUpKeeps ==
  ASSUME LexInv, GiveUp
  PROVE  LexInv'
<1>1. /\ status' = "failed" /\ token' = NoToken /\ delim' = "" /\ rest' = <<>>
      /\ tokens' = tokens /\ input' = input
  BY Zenon DEF GiveUp
<1>2. tokens \in Seq(Token) /\ input \in Text /\ NoToken \in Token
  BY Typed1, NoTokenIs, Zenon
<1>3. <<>> \in Seq(Character)
  OBVIOUS
<1>4. TypeOK'
  <2>1. status' \in {"scan", "quote", "pipe", "done", "failed"} /\ delim' \in Quote \cup {""}
    BY <1>1, Zenon
  <2> QED
    BY <1>1, <1>2, <1>3, <2>1, Zenon DEF TypeOK, Text, Letter
<1>5. status' \notin {"scan", "quote", "pipe", "done"} /\ status' # "quote"
  BY <1>1, Zenon
<1> QED
  BY <1>4, <1>5, Zenon DEF LexInv

LEMMA LexInvInit ==
  ASSUME Init
  PROVE  LexInv
<1>1. /\ rest \in UNION {[1 .. n -> Character] : n \in 1 .. MaxChars}
      /\ tokens = <<>> /\ token = NoToken /\ delim = "" /\ status = "scan" /\ input = rest
  BY Zenon DEF Init
<1>2. rest \in Seq(Character)
  <2>1. PICK n \in 1 .. MaxChars : rest \in [1 .. n -> Character]
    <3>1. rest \in UNION {[1 .. n -> Character] : n \in 1 .. MaxChars}
      BY <1>1, Zenon
    <3> QED
      BY <3>1
  <2>2. n \in Nat
    OBVIOUS
  <2> QED
    BY <2>1, <2>2, LineIsSeq, Zenon
<1>3. input \in Text
  <2>1. Character \subseteq Letter
    BY TokenIs, Zenon
  <2>2. rest \in Text
    BY <1>2, <2>1 DEF Text
  <2> QED
    BY <1>1, <2>2, Zenon
<1>4. At(input, rest, 0, delim)
  <2>1. /\ Len(rest) = 0 + Len(rest) /\ \A i \in 1 .. Len(rest) : rest[i] = rest[0 + i]
    BY <1>2
  <2>2. 0 + 1 = 1
    OBVIOUS
  <2>3. Len(input) \in Nat
    BY <1>3, InText, Zenon
  <2>4. Open(input)[1] = ""
    BY <2>3, OpenIs, Zenon
  <2> QED
    BY <1>1, <2>1, <2>2, <2>4, Zenon DEF At
<1>5. Cut(input, 0, 0, tokens, token)
  <2>1. PICK p : p = [i \in Nat |-> 0]
    OBVIOUS
  <2>2. Places(p, p)
    BY <2>1 DEF Places
  <2>3. PICK ts : ts = <<>>
    OBVIOUS
  <2>4. Len(ts) = 0
    BY <2>3
  <2>5. Count(ts, NoToken) = 0
    BY <2>4, CountIs
  <2>6. Covered(input, 0, Count(ts, NoToken), p, p)
    BY <2>5 DEF Covered
  <2>7. \A i \in 1 .. Len(ts) : Closed(input, 0, 0, "WORD", ts, p, p, i)
    BY <2>4
  <2>8. Cuts(input, 0, 0, "WORD", ts, NoToken, p, p)
    BY <2>6, <2>7, Zenon DEF Cuts
  <2> QED
    BY <1>1, <2>2, <2>3, <2>8, Zenon DEF Cut
<1>6. Scans(input, rest, delim, tokens, token)
  <2>1. 0 \in Nat
    OBVIOUS
  <2> QED
    BY <1>4, <1>5, <2>1, Zenon DEF Scans
<1>7. TypeOK
  <2>1. tokens \in Seq(Token)
    <3>1. PICK ts : ts = <<>>
      OBVIOUS
    <3>2. ts \in Seq(Token)
      BY <3>1
    <3> QED
      BY <1>1, <3>1, <3>2, Zenon
  <2>2. status \in {"scan", "quote", "pipe", "done", "failed"} /\ delim \in Quote \cup {""}
    BY <1>1, Zenon
  <2> QED
    BY <1>1, <1>2, <1>3, <2>1, <2>2, NoTokenIs, Zenon DEF TypeOK, Text, Letter
<1>8. status \notin {"pipe", "done"} /\ status # "quote" /\ InWord(delim, token)
  BY <1>1, Zenon DEF InWord
<1> QED
  BY <1>6, <1>7, <1>8, Zenon DEF LexInv

LEMMA LexInvNext ==
  ASSUME LexInv, [Next]_vars
  PROVE  LexInv'
<1>1. CASE AppendOperator
  BY <1>1, AppendOperatorKeeps, Zenon
<1>2. CASE BeginOperator
  BY <1>2, BeginOperatorKeeps, Zenon
<1>3. CASE OpenQuote
  BY <1>3, OpenQuoteKeeps, Zenon
<1>4. CASE Separator
  BY <1>4, SeparatorKeeps, Zenon
<1>5. CASE WordCharacter
  BY <1>5, WordCharacterKeeps, Zenon
<1>6. CASE End
  BY <1>6, EndKeeps, Zenon
<1>7. CASE QuotedCharacter
  BY <1>7, QuotedCharacterKeeps, Zenon
<1>8. CASE EndInQuote
  BY <1>8, EndInQuoteKeeps, Zenon
<1>9. CASE More
  BY <1>9, MoreKeeps, Zenon
<1>10. CASE GiveUp
  BY <1>10, GiveUpKeeps, Zenon
<1>11. CASE UNCHANGED vars
  <2>1. /\ rest' = rest /\ tokens' = tokens /\ token' = token /\ delim' = delim
        /\ status' = status /\ input' = input
    BY <1>11, Zenon DEF vars
  <2> QED
    BY <2>1, Zenon DEF LexInv, TypeOK
<1> QED
  BY <1>1, <1>2, <1>3, <1>4, <1>5, <1>6, <1>7, <1>8, <1>9, <1>10, <1>11, Zenon DEF Next

LEMMA LexInvAlways ==
  Spec => []LexInv
<1>1. Init => LexInv
  BY LexInvInit
<1>2. LexInv /\ [Next]_vars => LexInv'
  BY LexInvNext
<1> QED
  BY <1>1, <1>2, PTL DEF Spec

-----------------------------------------------------------------------------
(* The theorems                                                            *)

\* A finished line is cut where its characters' roles say.
LEMMA EndsAsReference ==
  ASSUME LexInv, status \in {"pipe", "done"}
  PROVE  tokens = Reference(input) /\ Open(input)[Len(input) + 1] = ""
<1>1. tokens \in Seq(Token) /\ input \in Text
  BY Typed1, Zenon
<1>2. rest = <<>> /\ delim = "" /\ token = NoToken /\ Ends(input, rest, delim, tokens, token)
  BY Zenon DEF LexInv
<1>3. PICK c \in Nat : At(input, <<>>, c, delim) /\ Cut(input, c, c + 1, tokens, NoToken)
  BY <1>2, Zenon DEF Ends
<1>4. c = Len(input)
  <2>1. PICK n : n = Len(input)
    OBVIOUS
  <2>2. n = c + Len(<<>>)
    BY <1>3, <2>1, Zenon DEF At
  <2>3. n = c
    BY <2>2
  <2> QED
    BY <2>1, <2>3, Zenon
<1>5. PICK p, q : Places(p, q) /\ Cuts(input, c, c + 1, "WORD", tokens, NoToken, p, q)
  BY <1>3, Zenon DEF Cut
<1>6. tokens = Reference(input)
  BY <1>1, <1>4, <1>5, TokensAre, Zenon
<1>7. Open(input)[c + 1] = ""
  BY <1>2, <1>3, Zenon DEF At
<1> QED
  BY <1>4, <1>6, <1>7, Zenon

LEMMA QuoteIsOpen ==
  ASSUME LexInv, status = "quote"
  PROVE  Open(input)[Len(input) + 1] # ""
<1>1. input \in Text
  BY Typed1, Zenon
<1>2. rest = <<>> /\ delim # "" /\ Scans(input, rest, delim, tokens, token)
  BY Zenon DEF LexInv
<1>3. PICK c \in Nat : At(input, <<>>, c, delim)
  BY <1>2, Zenon DEF Scans
<1>4. c = Len(input)
  <2>1. PICK n : n = Len(input)
    OBVIOUS
  <2>2. n = c + Len(<<>>)
    BY <1>3, <2>1, Zenon DEF At
  <2>3. n = c
    BY <2>2
  <2> QED
    BY <2>1, <2>3, Zenon
<1> QED
  BY <1>2, <1>3, <1>4, Zenon DEF At

LEMMA Prompting ==
  ASSUME LexInv
  PROVE  PromptsForMore
<1>1. ASSUME status \in {"quote", "pipe", "done"}
      PROVE  status = "quote" <=> Open(input)[Len(input) + 1] # ""
  <2>1. CASE status = "quote"
    BY <2>1, QuoteIsOpen, Zenon
  <2>2. CASE status \in {"pipe", "done"}
    BY <2>2, EndsAsReference, Zenon
  <2> QED
    BY <1>1, <2>1, <2>2, Zenon
<1>2. ASSUME status \in {"pipe", "done"}
      PROVE  status = "pipe" <=>
               Reference(input) # <<>> /\ Reference(input)[Len(Reference(input))].str = <<"|">>
  <2>1. tokens = Reference(input)
    BY <1>2, EndsAsReference, Zenon
  <2>2. status = "pipe" <=> EndsInBar(tokens)
    BY <1>2, Zenon DEF LexInv
  <2> QED
    BY <2>1, <2>2, Zenon DEF EndsInBar
<1> QED
  BY <1>1, <1>2, Zenon DEF PromptsForMore

\* The lexer's state has its types: lexer_creating.
THEOREM LexerTyped ==
  Spec => []TypeOK
<1>1. LexInv => TypeOK
  BY DEF LexInv
<1> QED
  BY <1>1, LexInvAlways, PTL

\* However long a command is and however it was broken into lines, lexer_creating
\* cuts it into the tokens that the text as a whole has.
THEOREM TokensAreReference ==
  Spec => []LexesAsReference
<1>1. LexInv => LexesAsReference
  <2> SUFFICES ASSUME LexInv, status = "done" PROVE tokens = Reference(input)
    BY Zenon DEF LexesAsReference
  <2> QED
    BY EndsAsReference, Zenon
<1> QED
  BY <1>1, LexInvAlways, PTL

\* lexing_handling_quotes_ifnull and lexing_handling_end ask for a further line when
\* a quotation or a pipe is unfinished, and for no other reason.
THEOREM PromptsWhenUnfinished ==
  Spec => []PromptsForMore
<1>1. LexInv => PromptsForMore
  BY Prompting
<1> QED
  BY <1>1, LexInvAlways, PTL

=============================================================================
