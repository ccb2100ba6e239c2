------------------------- MODULE EnvironmentProofs -------------------------
(***************************************************************************)
(* The array env under setenv, unsetenv and cd, for any names, values and  *)
(* directories: no name gets a second entry, and PWD and OLDPWD follow the *)
(* directory.                                                              *)
(***************************************************************************)
EXTENDS Environment, SequenceTheorems, WellFoundedInduction, TLAPS

HasEquals(e) == \E i \in DOMAIN e : e[i] = Equals
Plain(k) == \A i \in DOMAIN k : k[i] # Equals

\* The strings of the array.
Row == {e \in Seq(Byte) : HasEquals(e)}

Unique(table) ==
  \A i, j \in DOMAIN table : NameOf(table[i]) = NameOf(table[j]) => i = j

Has(table, e) == \E i \in DOMAIN table : table[i] = e

\* What is found under a name has that name.
Clear(table, k) == \A i \in Found(table, k) : NameOf(table[i]) = k

-----------------------------------------------------------------------------
(* Entries and their names                                                 *)

LEMMA MinInSet ==
  ASSUME NEW S \in SUBSET Nat, S # {}
  PROVE  Min(S) \in S /\ \A y \in S : Min(S) <= y
<1>1. \E x \in S : \A y \in S : ~(<<y, x>> \in OpToRel(<, Nat))
  BY WFMin, NatLessThanWellFounded
<1>2. PICK x \in S : \A y \in S : x <= y
  <2>1. OpToRel(<, Nat) = {ss \in Nat \X Nat : ss[1] < ss[2]}
    BY Zenon DEF OpToRel
  <2>2. PICK x \in S : \A y \in S : <<y, x>> \notin {ss \in Nat \X Nat : ss[1] < ss[2]}
    BY <1>1, <2>1
  <2>3. ASSUME NEW y \in S, y < x PROVE FALSE
    <3> DEFINE pair == <<y, x>>
    <3>1. pair \in Nat \X Nat /\ pair[1] < pair[2]
      BY <2>3
    <3> QED
      BY <2>2, <3>1
  <2>4. \A y \in S : x <= y
    BY <2>3
  <2> QED
    BY <2>4
<1> QED
  BY <1>2 DEF Min

\* A string has its name before the first '='.
LEMMA NameEnds ==
  ASSUME NEW e \in Row
  PROVE  LET n == Min({i \in DOMAIN e : e[i] = Equals})
         IN /\ n \in 1 .. Len(e) /\ e[n] = Equals
            /\ \A i \in 1 .. n - 1 : e[i] # Equals
            /\ NameOf(e) \in Seq(Byte) /\ Len(NameOf(e)) = n - 1
            /\ \A i \in 1 .. n - 1 : NameOf(e)[i] = e[i]
<1> DEFINE S == {i \in DOMAIN e : e[i] = Equals}
           n == Min(S)
<1>1. e \in Seq(Byte) /\ DOMAIN e = 1 .. Len(e) /\ Len(e) \in Nat
  BY DEF Row
<1>2. S # {} /\ S \in SUBSET Nat
  BY <1>1 DEF Row, HasEquals
<1>3. n \in S /\ \A y \in S : n <= y
  BY <1>2, MinInSet
<1> HIDE DEF n
<1>4. n \in 1 .. Len(e) /\ e[n] = Equals /\ \A i \in 1 .. n - 1 : e[i] # Equals
  BY <1>1, <1>3
<1>5. NameOf(e) = SubSeq(e, 1, n - 1)
  BY DEF NameOf, n
<1>6. /\ SubSeq(e, 1, n - 1) \in Seq(Byte) /\ Len(SubSeq(e, 1, n - 1)) = n - 1
      /\ \A i \in 1 .. n - 1 : SubSeq(e, 1, n - 1)[i] = e[i]
  <2>1. \A i \in 1 .. n - 1 : e[i] \in Byte
    BY <1>1, <1>4
  <2> QED
    BY <2>1, <1>4, SubSeqProperties
<1> QED
  BY <1>4, <1>5, <1>6 DEF n

\* An entry is found again under its name.
LEMMA NameOfEntry ==
  ASSUME NEW k \in Seq(Byte), NEW v \in Seq(Byte), Plain(k)
  PROVE  Entry(k, v) \in Row /\ NameOf(Entry(k, v)) = k
<1> DEFINE e == Entry(k, v)
           n == Min({i \in DOMAIN e : e[i] = Equals})
<1>1. /\ e \in Seq(Byte) /\ Len(e) = Len(k) + 1 + Len(v)
      /\ e[Len(k) + 1] = Equals /\ \A i \in 1 .. Len(k) : e[i] = k[i]
  BY DEF Entry, Equals, Byte
<1>2. e \in Row
  BY <1>1 DEF Row, HasEquals
<1> HIDE DEF e
<1>3. /\ n \in 1 .. Len(e) /\ e[n] = Equals
      /\ \A i \in 1 .. n - 1 : e[i] # Equals
      /\ NameOf(e) \in Seq(Byte) /\ Len(NameOf(e)) = n - 1
      /\ \A i \in 1 .. n - 1 : NameOf(e)[i] = e[i]
  BY <1>2, NameEnds
<1> HIDE DEF n
<1>4. n = Len(k) + 1
  BY <1>1, <1>3 DEF Plain
<1>5. NameOf(e) = k
  BY <1>1, <1>3, <1>4, SeqEqual
<1> QED
  BY <1>2, <1>5 DEF e

LEMMA ValueOfEntry ==
  ASSUME NEW k \in Seq(Byte), NEW v \in Seq(Byte), Plain(k)
  PROVE  ValueOf(Entry(k, v)) = v
<1> DEFINE e == Entry(k, v)
<1>1. e \in Row /\ NameOf(e) = k
  BY NameOfEntry
<1>2. ValueOf(e) = SubSeq(e, Len(k) + 2, Len(e))
  BY <1>1 DEF ValueOf
<1>3. /\ Len(e) = Len(k) + 1 + Len(v)
      /\ \A m \in 1 .. Len(v) : e[Len(k) + 1 + m] = v[m]
  BY DEF Entry, Equals, Byte
<1>4. \A m \in Len(k) + 2 .. Len(e) : e[m] \in Byte
  BY <1>1 DEF Row
<1> HIDE DEF e
<1>5. /\ SubSeq(e, Len(k) + 2, Len(e)) \in Seq(Byte)
      /\ Len(SubSeq(e, Len(k) + 2, Len(e))) = Len(v)
      /\ \A m \in 1 .. Len(v) : SubSeq(e, Len(k) + 2, Len(e))[m] = e[Len(k) + 1 + m]
  BY <1>3, <1>4, SubSeqProperties
<1>6. ValueOf(e) = v
  BY <1>2, <1>3, <1>5, SeqEqual
<1> QED
  BY <1>6 DEF e

\* ft_strcmp(entry, name) is '=' for the name of the entry.
LEMMA NameIsFound ==
  ASSUME NEW e \in Row
  PROVE  IsFound(e, NameOf(e))
<1> DEFINE k == NameOf(e)
           n == Min({i \in DOMAIN e : e[i] = Equals})
           First(i) == /\ At(e, i) # At(k, i) \/ i > Len(e)
                       /\ \A m \in 1 .. i - 1 : At(e, m) = At(k, m)
<1>1. /\ n \in 1 .. Len(e) /\ e[n] = Equals
      /\ k \in Seq(Byte) /\ Len(k) = n - 1
      /\ \A i \in 1 .. n - 1 : k[i] = e[i]
  BY NameEnds
<1> HIDE DEF k, n
<1>2. At(e, n) = Equals /\ At(k, n) = 0 /\ \A m \in 1 .. n - 1 : At(e, m) = At(k, m)
  BY <1>1 DEF At
<1>3. n \in 1 .. Len(e) + 1 /\ First(n)
  BY <1>1, <1>2 DEF Equals
<1>4. \A i \in 1 .. Len(e) + 1 : First(i) => i = n
  BY <1>1, <1>2 DEF Equals
<1>5. n = CHOOSE i \in 1 .. Len(e) + 1 : First(i)
  BY <1>3, <1>4
<1>6. Difference(e, k) = At(e, n) - At(k, n)
  BY <1>5 DEF Difference
<1> QED
  BY <1>2, <1>6 DEF IsFound, k, Equals

\* A name whose letters no byte can be 61 above is not taken for another.
Safe(k) == Plain(k) /\ \A i \in DOMAIN k : k[i] + Equals \notin Byte

LEMMA FoundIsNamed ==
  ASSUME NEW e \in Row, NEW k \in Seq(Byte), Safe(k), IsFound(e, k)
  PROVE  NameOf(e) = k
<1> DEFINE First(i) == /\ At(e, i) # At(k, i) \/ i > Len(e)
                       /\ \A m \in 1 .. i - 1 : At(e, m) = At(k, m)
           n == CHOOSE i \in 1 .. Len(e) + 1 : First(i)
           c == Min({i \in DOMAIN e : e[i] = Equals})
<1>1. /\ e \in Seq(Byte) /\ Len(e) \in Nat /\ Len(k) \in Nat
      /\ \A i \in 1 .. Len(e) : e[i] \in 1 .. 127
      /\ \A i \in 1 .. Len(k) : k[i] \in 1 .. 127 /\ k[i] # Equals /\ k[i] > 66
  <2>1. e \in Seq(Byte)
    BY DEF Row
  <2>2. \A i \in 1 .. Len(k) : k[i] # Equals /\ k[i] + Equals \notin Byte
    BY DEF Safe, Plain
  <2>3. \A s \in Seq(Byte) : Len(s) \in Nat /\ \A i \in 1 .. Len(s) : s[i] \in Byte
    OBVIOUS
  <2>4. \A b \in Byte : b \in 1 .. 127 /\ (b + Equals \notin Byte => b > 66)
    BY DEF Byte, Equals
  <2> QED
    BY <2>1, <2>2, <2>3, <2>4
<1>2. At(e, n) - At(k, n) = Equals
  BY DEF IsFound, Difference
<1>3. \E i \in 1 .. Len(e) + 1 : First(i)
  <2> DEFINE Differ == {i \in 1 .. Len(e) + 1 : At(e, i) # At(k, i) \/ i > Len(e)}
             d == Min(Differ)
  <2>1. Len(e) + 1 \in Differ
    BY <1>1
  <2>2. Differ # {} /\ Differ \in SUBSET Nat
    BY <1>1, <2>1
  <2>3. d \in Differ /\ \A y \in Differ : d <= y
    BY <2>2, MinInSet
  <2> HIDE DEF d
  <2>4. d \in 1 .. Len(e) + 1 /\ (At(e, d) # At(k, d) \/ d > Len(e))
    BY <2>3
  <2>5. ASSUME NEW m \in 1 .. d - 1 PROVE At(e, m) = At(k, m)
    BY <1>1, <2>3, <2>4
  <2> QED
    BY <2>4, <2>5
<1>4. n \in 1 .. Len(e) + 1 /\ First(n)
  BY <1>3
<1> HIDE DEF n
<1>5. n > Len(k)
  <2> SUFFICES ASSUME n <= Len(k) PROVE FALSE
    BY <1>1, <1>4
  <2>1. k[n] \in 1 .. 127 /\ k[n] > 66
    BY <1>1, <1>4
  <2>2. (IF n > Len(e) THEN 0 ELSE e[n]) - k[n] = 61
    BY <1>1, <1>2, <1>4 DEF At, Equals
  <2>3. n <= Len(e) => e[n] \in 1 .. 127
    BY <1>1, <1>4
  <2>4. \A x \in 1 .. 127, y \in 0 .. 127 : x > 66 => y - x # 61
    OBVIOUS
  <2>5. (IF n > Len(e) THEN 0 ELSE e[n]) \in 0 .. 127
    BY <1>1, <1>4, <2>3
  <2> QED
    BY <2>1, <2>2, <2>4, <2>5
<1>6. n <= Len(e) /\ e[n] = Equals
  BY <1>1, <1>2, <1>4, <1>5 DEF At, Equals
<1>7. n = Len(k) + 1
  <2> SUFFICES ASSUME n > Len(k) + 1 PROVE FALSE
    BY <1>1, <1>4, <1>5
  <2>1. Len(k) + 1 \in 1 .. n - 1 /\ Len(k) + 1 \in 1 .. Len(e)
    BY <1>1, <1>4, <1>6
  <2>2. At(e, Len(k) + 1) = At(k, Len(k) + 1)
    BY <1>4, <2>1
  <2>3. e[Len(k) + 1] = 0
    BY <1>1, <2>1, <2>2 DEF At
  <2>4. e[Len(k) + 1] \in 1 .. 127
    BY <1>1, <2>1
  <2> QED
    BY <2>3, <2>4
<1>8. \A i \in 1 .. Len(k) : e[i] = k[i] /\ e[i] # Equals
  <2> SUFFICES ASSUME NEW i \in 1 .. Len(k) PROVE e[i] = k[i]
    BY <1>1
  <2>1. At(e, i) = At(k, i)
    BY <1>1, <1>4, <1>7
  <2> QED
    BY <1>1, <1>6, <1>7, <2>1 DEF At
<1>9. /\ c \in 1 .. Len(e) /\ e[c] = Equals
      /\ \A i \in 1 .. c - 1 : e[i] # Equals
      /\ NameOf(e) \in Seq(Byte) /\ Len(NameOf(e)) = c - 1
      /\ \A i \in 1 .. c - 1 : NameOf(e)[i] = e[i]
  BY NameEnds
<1> HIDE DEF c
<1>10. c = Len(k) + 1
  BY <1>1, <1>6, <1>7, <1>8, <1>9
<1> QED
  BY <1>1, <1>8, <1>9, <1>10, SeqEqual

-----------------------------------------------------------------------------
(* set_env and unset_env                                                   *)

LEMMA FoundFirst ==
  ASSUME NEW table \in Seq(Row), NEW k, Found(table, k) # {}
  PROVE  Min(Found(table, k)) \in Found(table, k) /\ Found(table, k) \subseteq 1 .. Len(table)
<1>1. Found(table, k) \subseteq 1 .. Len(table)
  BY DEF Found
<1>2. Found(table, k) \in SUBSET Nat
  BY <1>1
<1> QED
  BY <1>1, <1>2, MinInSet

LEMMA EntryIsRow ==
  ASSUME NEW k \in Seq(Byte), NEW v \in Seq(Byte)
  PROVE  Entry(k, v) \in Row
<1>1. Entry(k, v) \in Seq(Byte) /\ Entry(k, v)[Len(k) + 1] = Equals
      /\ Len(k) + 1 \in 1 .. Len(Entry(k, v))
  BY DEF Entry, Equals, Byte
<1> QED
  BY <1>1 DEF Row, HasEquals

\* setenv writes one entry and leaves the others where they are.
LEMMA SetEnvRows ==
  ASSUME NEW table \in Seq(Row), NEW k \in Seq(Byte), NEW v \in Seq(Byte)
  PROVE  LET new == SetEnv(table, k, v)
         IN /\ new \in Seq(Row)
            /\ \A i \in DOMAIN new :
                 new[i] = Entry(k, v) \/ (i \in DOMAIN table /\ new[i] = table[i])
<1> DEFINE e == Entry(k, v)
           n == Min(Found(table, k))
<1>1. e \in Row
  BY EntryIsRow
<1> HIDE DEF e
<1>2. CASE Found(table, k) = {}
  <2>1. SetEnv(table, k, v) = Append(table, e)
    BY <1>2 DEF SetEnv, e
  <2> QED
    BY <1>1, <2>1 DEF e
<1>3. CASE Found(table, k) # {}
  <2>1. n \in 1 .. Len(table)
    BY <1>3, FoundFirst
  <2>2. SetEnv(table, k, v) = [table EXCEPT ![n] = e]
    BY <1>3 DEF SetEnv, e
  <2> HIDE DEF n
  <2> QED
    BY <1>1, <2>1, <2>2 DEF e
<1> QED
  BY <1>2, <1>3

LEMMA SetEnvUnique ==
  ASSUME NEW table \in Seq(Row), Unique(table),
         NEW k \in Seq(Byte), NEW v \in Seq(Byte), Plain(k), Clear(table, k)
  PROVE  SetEnv(table, k, v) \in Seq(Row) /\ Unique(SetEnv(table, k, v))
<1> DEFINE new == Entry(k, v)
<1>1. new \in Row /\ NameOf(new) = k
  BY NameOfEntry
<1> HIDE DEF new
<1>2. CASE Found(table, k) = {}
  <2>1. SetEnv(table, k, v) = Append(table, new)
    BY <1>2 DEF SetEnv, new
  <2>2. \A i \in 1 .. Len(table) : NameOf(table[i]) # k
    <3> SUFFICES ASSUME NEW i \in 1 .. Len(table), NameOf(table[i]) = k PROVE FALSE
      OBVIOUS
    <3>1. table[i] \in Row /\ IsFound(table[i], k)
      BY NameIsFound
    <3> QED
      BY <1>2, <3>1 DEF Found
  <2>3. Append(table, new) \in Seq(Row)
    BY <1>1
  <2>4. Unique(Append(table, new))
    BY <1>1, <2>2 DEF Unique
  <2> QED
    BY <2>1, <2>3, <2>4
<1>3. CASE Found(table, k) # {}
  <2> DEFINE n == Min(Found(table, k))
  <2>1. n \in Found(table, k) /\ n \in 1 .. Len(table)
    BY <1>3, FoundFirst
  <2>2. SetEnv(table, k, v) = [table EXCEPT ![n] = new]
    BY <1>3 DEF SetEnv, new
  <2>3. NameOf(table[n]) = k
    BY <2>1 DEF Clear
  <2> HIDE DEF n
  <2>4. [table EXCEPT ![n] = new] \in Seq(Row)
    BY <1>1, <2>1
  <2>5. Unique([table EXCEPT ![n] = new])
    BY <1>1, <2>1, <2>3 DEF Unique
  <2> QED
    BY <2>2, <2>4, <2>5
<1> QED
  BY <1>2, <1>3

\* The entries behind the one that is taken out move up.
LEMMA RowRemoved ==
  ASSUME NEW table \in Seq(Row), NEW n \in 1 .. Len(table)
  PROVE  LET rest == RemoveAt(table, n)
         IN /\ rest \in Seq(Row) /\ Len(rest) = Len(table) - 1
            /\ \A i \in 1 .. Len(rest) : rest[i] = table[IF i < n THEN i ELSE i + 1]
<1> DEFINE rest == RemoveAt(table, n)
           old(i) == IF i < n THEN i ELSE i + 1
           low == SubSeq(table, 1, n - 1)
           high == SubSeq(table, n + 1, Len(table))
<1>1. \A i \in 1 .. Len(table) : table[i] \in Row
  OBVIOUS
<1>2. /\ low \in Seq(Row) /\ Len(low) = n - 1
      /\ \A i \in 1 .. n - 1 : low[i] = table[i]
  BY <1>1, SubSeqProperties
<1>3. /\ high \in Seq(Row) /\ Len(high) = Len(table) - n
      /\ \A i \in 1 .. Len(table) - n : high[i] = table[n + i]
  BY <1>1, SubSeqProperties
<1> HIDE DEF low, high
<1>4. rest = low \o high
  BY DEF RemoveAt, low, high
<1> HIDE DEF rest
<1>5. rest \in Seq(Row) /\ Len(rest) = Len(table) - 1
  BY <1>2, <1>3, <1>4
<1>6. ASSUME NEW i \in 1 .. Len(rest) PROVE rest[i] = table[old(i)]
  <2>1. CASE i < n
    BY <1>2, <1>4, <2>1
  <2>2. CASE i >= n
    <3>1. rest[i] = high[i - (n - 1)]
      BY <1>2, <1>3, <1>4, <1>5, <2>2
    <3> QED
      BY <1>3, <1>5, <2>2, <3>1
  <2> QED
    BY <2>1, <2>2, <1>5
<1> QED
  BY <1>5, <1>6 DEF rest

LEMMA UnsetEnvUnique ==
  ASSUME NEW table \in Seq(Row), NEW k
  PROVE  /\ UnsetEnv(table, k) \in Seq(Row)
         /\ Unique(table) => Unique(UnsetEnv(table, k))
<1>1. CASE Found(table, k) = {}
  BY <1>1 DEF UnsetEnv
<1>2. CASE Found(table, k) # {}
  <2> DEFINE n == Min(Found(table, k))
             rest == RemoveAt(table, n)
             old(i) == IF i < n THEN i ELSE i + 1
  <2>1. n \in 1 .. Len(table)
    BY <1>2, FoundFirst
  <2>2. UnsetEnv(table, k) = rest
    BY <1>2 DEF UnsetEnv
  <2> HIDE DEF n
  <2>3. /\ rest \in Seq(Row) /\ Len(rest) = Len(table) - 1
        /\ \A i \in 1 .. Len(rest) : rest[i] = table[old(i)]
    BY <2>1, RowRemoved
  <2> HIDE DEF rest
  <2>4. Unique(table) => Unique(rest)
    BY <2>1, <2>3 DEF Unique
  <2> QED
    BY <2>2, <2>3, <2>4
<1> QED
  BY <1>1, <1>2

\* The entry written is there, and those of other names still are.
LEMMA SetEnvHas ==
  ASSUME NEW table \in Seq(Row), NEW k \in Seq(Byte), NEW v \in Seq(Byte)
  PROVE  /\ Has(SetEnv(table, k, v), Entry(k, v))
         /\ Clear(table, k) =>
              \A e : Has(table, e) /\ NameOf(e) # k => Has(SetEnv(table, k, v), e)
<1> DEFINE new == Entry(k, v)
           n == Min(Found(table, k))
<1>1. CASE Found(table, k) = {}
  <2>1. SetEnv(table, k, v) = Append(table, new)
    BY <1>1 DEF SetEnv
  <2> HIDE DEF new
  <2>2. /\ Len(table) + 1 \in DOMAIN Append(table, new)
        /\ Append(table, new)[Len(table) + 1] = new
        /\ \A i \in DOMAIN table : i \in DOMAIN Append(table, new) /\ Append(table, new)[i] = table[i]
    OBVIOUS
  <2> QED
    BY <2>1, <2>2 DEF Has, new
<1>2. CASE Found(table, k) # {}
  <2>1. n \in Found(table, k) /\ n \in DOMAIN table
    BY <1>2, FoundFirst
  <2>2. SetEnv(table, k, v) = [table EXCEPT ![n] = new]
    BY <1>2 DEF SetEnv
  <2>3. Clear(table, k) => NameOf(table[n]) = k
    BY <2>1 DEF Clear
  <2> HIDE DEF new, n
  <2> QED
    BY <2>1, <2>2, <2>3 DEF Has, new
<1> QED
  BY <1>1, <1>2

LEMMA UnsetEnvHas ==
  ASSUME NEW table \in Seq(Row), NEW k, Clear(table, k),
         NEW e, Has(table, e), NameOf(e) # k
  PROVE  Has(UnsetEnv(table, k), e)
<1>1. CASE Found(table, k) = {}
  BY <1>1 DEF UnsetEnv
<1>2. CASE Found(table, k) # {}
  <2> DEFINE n == Min(Found(table, k))
             rest == RemoveAt(table, n)
  <2>1. n \in 1 .. Len(table) /\ NameOf(table[n]) = k
    BY <1>2, FoundFirst DEF Clear
  <2>2. UnsetEnv(table, k) = rest
    BY <1>2 DEF UnsetEnv
  <2> HIDE DEF n
  <2>3. /\ rest \in Seq(Row) /\ Len(rest) = Len(table) - 1
        /\ \A i \in 1 .. Len(rest) : rest[i] = table[IF i < n THEN i ELSE i + 1]
    BY <2>1, RowRemoved
  <2> HIDE DEF rest
  <2>4. PICK j \in 1 .. Len(table) : table[j] = e
    BY DEF Has
  <2>5. j # n
    BY <2>1, <2>4
  <2> DEFINE i == IF j < n THEN j ELSE j - 1
  <2>6. i \in 1 .. Len(rest) /\ (IF i < n THEN i ELSE i + 1) = j
    BY <2>1, <2>3, <2>5
  <2> HIDE DEF i
  <2>7. rest[i] = e /\ i \in DOMAIN rest
    BY <2>3, <2>4, <2>6
  <2> QED
    BY <2>2, <2>7 DEF Has
<1> QED
  BY <1>1, <1>2

\* What get_env returns, where no name is taken for another.
LEMMA GetHas ==
  ASSUME NEW k \in Seq(Byte), NEW v \in Seq(Byte), Safe(k),
         env \in Seq(Row), Unique(env), Has(env, Entry(k, v))
  PROVE  IsSet(k) /\ GetEnv(k) = v
<1> DEFINE e == Entry(k, v)
           n == Min(Found(env, k))
<1>1. e \in Row /\ NameOf(e) = k
  BY NameOfEntry DEF Safe
<1>2. PICK i \in DOMAIN env : env[i] = e
  BY DEF Has
<1>3. i \in Found(env, k)
  BY <1>1, <1>2, NameIsFound DEF Found
<1>4. n \in Found(env, k) /\ n \in DOMAIN env
  BY <1>3, FoundFirst
<1> HIDE DEF n
<1>5. NameOf(env[n]) = k
  <2>1. env[n] \in Row /\ IsFound(env[n], k)
    BY <1>4 DEF Found
  <2> QED
    BY <2>1, FoundIsNamed
<1>6. n = i
  BY <1>1, <1>2, <1>4, <1>5 DEF Unique
<1>7. ValueOf(e) = v
  BY ValueOfEntry DEF Safe
<1> QED
  BY <1>2, <1>3, <1>6, <1>7 DEF IsSet, GetEnv, n

-----------------------------------------------------------------------------
(* The invariant                                                           *)

EnvInv ==
  /\ env \in Seq(Row)
  /\ cwd \in Dir
  /\ confused \in BOOLEAN
  /\ ~confused => Unique(env)

LEMMA Names ==
  /\ Name \subseteq Seq(Byte) /\ {PWD, OLDPWD, HOME} \subseteq Name
  /\ Value \subseteq Seq(Byte) /\ Dir \subseteq Value
  /\ \A k \in {PWD, OLDPWD, HOME} : Plain(k) /\ Safe(k)
  /\ PWD # OLDPWD
BY EnvironmentAssumption, DirectoryNames DEF Plain, Safe

LEMMA InitEnv == Init => EnvInv
<1> SUFFICES ASSUME Init PROVE EnvInv
  OBVIOUS
<1>1. env \in Environ /\ cwd \in Dir /\ confused \in BOOLEAN
  BY Zenon DEF Init
<1>2. env \in Seq(Seq(Byte))
  BY <1>1, EnvironmentAssumption
<1>3. ASSUME NEW i \in 1 .. Len(env) PROVE env[i] \in Row
  <2>1. i \in DOMAIN env
    BY <1>2
  <2>2. PICK k \in Name, v \in Value : env[i] = Entry(k, v)
    BY <1>1, <2>1, EnvironmentAssumption, Zenon
  <2> QED
    BY <2>2, EntryIsRow, Names
<1>4. env \in Seq(Row)
  <2>1. Len(env) \in Nat /\ env = [i \in 1 .. Len(env) |-> env[i]]
    BY <1>2
  <2>2. env \in [1 .. Len(env) -> Row]
    BY <1>3, <2>1
  <2> QED
    BY <2>1, <2>2
<1>5. Unique(env)
  BY <1>1, EnvironmentAssumption DEF Unique
<1> QED
  BY <1>1, <1>4, <1>5 DEF EnvInv

\* What cd writes into the array.
LEMMA TellUnique ==
  ASSUME EnvInv, NEW d \in Dir
  PROVE  /\ Tell(d) \in Seq(Row)
         /\ ~confused /\ ~Confuses(PWD) /\ ~Confuses(OLDPWD) => Unique(Tell(d))
<1> DEFINE left == IF d = cwd THEN env ELSE SetEnv(env, OLDPWD, cwd)
<1>1. /\ PWD \in Seq(Byte) /\ OLDPWD \in Seq(Byte) /\ Plain(PWD) /\ Plain(OLDPWD)
      /\ d \in Seq(Byte) /\ cwd \in Seq(Byte) /\ cwd \in Value
  BY Names DEF EnvInv
<1>2. env \in Seq(Row)
  BY DEF EnvInv
<1>3. /\ left \in Seq(Row)
      /\ \A i \in DOMAIN left :
           left[i] = Entry(OLDPWD, cwd) \/ (i \in DOMAIN env /\ left[i] = env[i])
  BY <1>1, <1>2, SetEnvRows
<1>4. Tell(d) = SetEnv(left, PWD, d)
  BY DEF Tell
<1>5. ASSUME ~confused, ~Confuses(PWD), ~Confuses(OLDPWD)
      PROVE  Unique(left) /\ Clear(left, PWD)
  <2>1. Unique(env)
    BY <1>5 DEF EnvInv
  <2>2. Clear(env, OLDPWD) /\ Clear(env, PWD)
    BY <1>5 DEF Confuses, Clear, Found
  <2>3. Unique(left)
    BY <1>1, <1>2, <2>1, <2>2, SetEnvUnique
  <2>4. \A i \in DOMAIN left : IsFound(left[i], PWD) => NameOf(left[i]) = PWD
    BY <1>1, <1>3, Names, FoundIsNamed
  <2> QED
    BY <2>3, <2>4 DEF Clear, Found
<1> HIDE DEF left
<1>6. SetEnv(left, PWD, d) \in Seq(Row)
  BY <1>1, <1>3, SetEnvRows
<1>7. Unique(left) /\ Clear(left, PWD) => Unique(SetEnv(left, PWD, d))
  BY <1>1, <1>3, SetEnvUnique
<1> QED
  BY <1>4, <1>5, <1>6, <1>7

\* Whatever cd is asked for, it goes to a directory or stays.
LEMMA NextCases ==
  ASSUME cwd \in Dir, [Next]_vars
  PROVE  \/ \E k \in Name, v \in Value : SetEnvComm(k, v)
         \/ \E k \in Name : UnsetEnvComm(k)
         \/ \E d \in Dir : ChangeTo(d)
         \/ UNCHANGED vars
<1>1. ASSUME NEW v, ChangeIfDir(v) PROVE \E d \in Dir : ChangeTo(d)
  <2>1. CASE v \in Dir
    BY <1>1, <2>1, Zenon DEF ChangeIfDir
  <2>2. CASE v \notin Dir
    BY <1>1, <2>2, Zenon DEF ChangeIfDir
  <2> QED
    BY <2>1, <2>2
<1>2. ChangeDirFails => \E d \in Dir : ChangeTo(d)
  BY Zenon DEF ChangeDirFails
<1>3. ChangeDirHome => \E d \in Dir : ChangeTo(d)
  BY <1>1, Zenon DEF ChangeDirHome
<1>4. ChangeDirBack => \E d \in Dir : ChangeTo(d)
  BY <1>1, Zenon DEF ChangeDirBack
<1> QED
  BY <1>2, <1>3, <1>4, Zenon DEF Next, ChangeDir

LEMMA NextEnv == EnvInv /\ [Next]_vars => EnvInv'
<1> SUFFICES ASSUME EnvInv, [Next]_vars PROVE EnvInv'
  OBVIOUS
<1>0. env \in Seq(Row) /\ cwd \in Dir
  BY DEF EnvInv
<1>1. ASSUME NEW k \in Name, NEW v \in Value, SetEnvComm(k, v) PROVE EnvInv'
  <2>1. k \in Seq(Byte) /\ v \in Seq(Byte)
    BY Names
  <2>2. env' = SetEnv(env, k, v) /\ cwd' = cwd
    BY <1>1 DEF SetEnvComm
  <2>3. confused' = (confused \/ Confuses(k) \/ Equals \in ToSet(k))
    BY <1>1 DEF SetEnvComm
  <2>4. ASSUME ~confused' PROVE Unique(env')
    <3>1. Unique(env) /\ Clear(env, k) /\ Plain(k)
      BY <2>3, <2>4 DEF EnvInv, Confuses, Clear, Found, Plain, ToSet
    <3> QED
      BY <1>0, <2>1, <2>2, <3>1, SetEnvUnique
  <2>5. env' \in Seq(Row)
    BY <1>0, <2>1, <2>2, SetEnvRows
  <2>6. confused' \in BOOLEAN
    BY <2>3, Zenon
  <2> QED
    BY <1>0, <2>2, <2>4, <2>5, <2>6 DEF EnvInv
<1>2. ASSUME NEW k \in Name, UnsetEnvComm(k) PROVE EnvInv'
  <2>1. env' = UnsetEnv(env, k) /\ cwd' = cwd
    BY <1>2 DEF UnsetEnvComm
  <2>2. confused' = (confused \/ Confuses(k))
    BY <1>2 DEF UnsetEnvComm
  <2>3. ASSUME ~confused' PROVE Unique(env')
    BY <1>0, <2>1, <2>2, <2>3, UnsetEnvUnique DEF EnvInv
  <2>4. env' \in Seq(Row)
    BY <1>0, <2>1, UnsetEnvUnique
  <2>5. confused' \in BOOLEAN
    BY <2>2, Zenon
  <2> QED
    BY <1>0, <2>1, <2>3, <2>4, <2>5 DEF EnvInv
<1>3. ASSUME NEW d \in Dir, ChangeTo(d) PROVE EnvInv'
  <2>1. env' = Tell(d) /\ cwd' = d
    BY <1>3 DEF ChangeTo
  <2>2. confused' = (confused \/ \E k \in {PWD, OLDPWD, HOME} : Confuses(k))
    BY <1>3 DEF ChangeTo
  <2>3. ~confused' => Unique(env')
    BY <2>1, <2>2, TellUnique
  <2>4. confused' \in BOOLEAN
    BY <2>2, Zenon
  <2> QED
    BY <2>1, <2>3, <2>4, TellUnique DEF EnvInv
<1>4. CASE UNCHANGED vars
  BY <1>4 DEF vars, EnvInv, Unique
<1> QED
  BY <1>0, <1>1, <1>2, <1>3, <1>4, NextCases

\* setenv, unsetenv and cd leave each name one entry at most, as long as none is taken
\* for another.
THEOREM NamesStayUnique == Spec => []NamesUnique
<1>1. EnvInv => NamesUnique
  BY DEF EnvInv, NamesUnique, Unique
<1> QED
  BY <1>1, InitEnv, NextEnv, PTL DEF Spec

-----------------------------------------------------------------------------
(* PWD and OLDPWD                                                          *)

\* What cd has written is still there.
DirInv ==
  /\ previous \in Dir
  /\ ~confused =>
       /\ PWD \in told => Has(env, Entry(PWD, cwd))
       /\ OLDPWD \in told => Has(env, Entry(OLDPWD, previous))

LEMMA InitDir == Init => DirInv
BY Zenon DEF Init, DirInv

\* setenv and unsetenv of another variable leave it there.
LEMMA KeptEntry ==
  ASSUME EnvInv, NEW k \in Seq(Byte), ~Confuses(k),
         NEW p \in {PWD, OLDPWD}, p # k, NEW d \in Dir, Has(env, Entry(p, d))
  PROVE  /\ \A v \in Seq(Byte) : Has(SetEnv(env, k, v), Entry(p, d))
         /\ Has(UnsetEnv(env, k), Entry(p, d))
<1>1. env \in Seq(Row) /\ Clear(env, k)
  BY DEF EnvInv, Confuses, Clear, Found
<1>2. NameOf(Entry(p, d)) = p
  BY Names, NameOfEntry
<1> QED
  BY <1>1, <1>2, SetEnvHas, UnsetEnvHas

LEMMA ToldEntries ==
  ASSUME EnvInv, NEW d \in Dir, ~Confuses(PWD), ~Confuses(OLDPWD)
  PROVE  /\ Has(Tell(d), Entry(PWD, d))
         /\ d # cwd => Has(Tell(d), Entry(OLDPWD, cwd))
         /\ \A o \in Dir : d = cwd /\ Has(env, Entry(OLDPWD, o)) => Has(Tell(d), Entry(OLDPWD, o))
<1> DEFINE left == IF d = cwd THEN env ELSE SetEnv(env, OLDPWD, cwd)
<1>1. /\ PWD \in Seq(Byte) /\ OLDPWD \in Seq(Byte) /\ PWD # OLDPWD /\ Safe(PWD)
      /\ Plain(OLDPWD)
      /\ d \in Seq(Byte) /\ cwd \in Seq(Byte) /\ \A o \in Dir : o \in Seq(Byte)
      /\ env \in Seq(Row)
  BY Names DEF EnvInv
<1>2. Tell(d) = SetEnv(left, PWD, d)
  BY DEF Tell
<1>3. left \in Seq(Row)
  BY <1>1, SetEnvRows
<1>4. d # cwd => Has(left, Entry(OLDPWD, cwd))
  BY <1>1, SetEnvHas
<1>5. d = cwd => left = env
  OBVIOUS
<1> HIDE DEF left
<1>6. Clear(left, PWD)
  <2> SUFFICES ASSUME NEW i \in DOMAIN left, IsFound(left[i], PWD) PROVE NameOf(left[i]) = PWD
    BY DEF Clear, Found
  <2>1. left[i] \in Row
    BY <1>3
  <2> QED
    BY <1>1, <2>1, FoundIsNamed
<1>7. \A o \in Seq(Byte) : NameOf(Entry(OLDPWD, o)) = OLDPWD
  BY <1>1, NameOfEntry
<1>8. /\ Has(SetEnv(left, PWD, d), Entry(PWD, d))
      /\ \A o \in Seq(Byte) :
           Has(left, Entry(OLDPWD, o)) => Has(SetEnv(left, PWD, d), Entry(OLDPWD, o))
  BY <1>1, <1>3, <1>6, <1>7, SetEnvHas
<1> QED
  BY <1>1, <1>2, <1>4, <1>5, <1>8

LEMMA NextDir == EnvInv /\ DirInv /\ [Next]_vars => DirInv'
<1> SUFFICES ASSUME EnvInv, DirInv, [Next]_vars PROVE DirInv'
  OBVIOUS
<1>0. cwd \in Dir /\ previous \in Dir
  BY DEF EnvInv, DirInv
<1>1. ASSUME NEW k \in Name, NEW v \in Value, SetEnvComm(k, v) PROVE DirInv'
  <2>1. k \in Seq(Byte) /\ v \in Seq(Byte)
    BY Names
  <2>2. /\ env' = SetEnv(env, k, v) /\ cwd' = cwd /\ previous' = previous
        /\ told' = told \ {k}
    BY <1>1 DEF SetEnvComm
  <2>3. ~confused' => ~confused /\ ~Confuses(k)
    BY <1>1, Zenon DEF SetEnvComm
  <2>4. ASSUME ~confused', PWD \in told' PROVE Has(env', Entry(PWD, cwd'))
    BY <1>0, <2>1, <2>2, <2>3, <2>4, KeptEntry DEF DirInv
  <2>5. ASSUME ~confused', OLDPWD \in told' PROVE Has(env', Entry(OLDPWD, previous'))
    BY <1>0, <2>1, <2>2, <2>3, <2>5, KeptEntry DEF DirInv
  <2> QED
    BY <1>0, <2>2, <2>4, <2>5 DEF DirInv
<1>2. ASSUME NEW k \in Name, UnsetEnvComm(k) PROVE DirInv'
  <2>1. k \in Seq(Byte)
    BY Names
  <2>2. /\ env' = UnsetEnv(env, k) /\ cwd' = cwd /\ previous' = previous
        /\ told' = told \ {k}
    BY <1>2 DEF UnsetEnvComm
  <2>3. ~confused' => ~confused /\ ~Confuses(k)
    BY <1>2, Zenon DEF UnsetEnvComm
  <2>4. ASSUME ~confused', PWD \in told' PROVE Has(env', Entry(PWD, cwd'))
    BY <1>0, <2>1, <2>2, <2>3, <2>4, KeptEntry DEF DirInv
  <2>5. ASSUME ~confused', OLDPWD \in told' PROVE Has(env', Entry(OLDPWD, previous'))
    BY <1>0, <2>1, <2>2, <2>3, <2>5, KeptEntry DEF DirInv
  <2> QED
    BY <1>0, <2>2, <2>4, <2>5 DEF DirInv
<1>3. ASSUME NEW d \in Dir, ChangeTo(d) PROVE DirInv'
  <2>1. /\ env' = Tell(d) /\ cwd' = d /\ previous' = IF d = cwd THEN previous ELSE cwd
        /\ told' = told \cup {PWD} \cup (IF d = cwd THEN {} ELSE {OLDPWD})
    BY <1>3 DEF ChangeTo
  <2>2. ~confused' => ~confused /\ ~Confuses(PWD) /\ ~Confuses(OLDPWD)
    BY <1>3, Zenon DEF ChangeTo
  <2>3. ASSUME ~confused' PROVE Has(env', Entry(PWD, cwd'))
    BY <2>1, <2>2, <2>3, ToldEntries
  <2>4. ASSUME ~confused', OLDPWD \in told' PROVE Has(env', Entry(OLDPWD, previous'))
    <3>1. CASE d = cwd
      <4>1. OLDPWD \in told
        BY <2>1, <2>4, <3>1, Names
      <4> QED
        BY <1>0, <2>1, <2>2, <2>4, <3>1, <4>1, ToldEntries DEF DirInv
    <3>2. CASE d # cwd
      BY <2>1, <2>2, <2>4, <3>2, ToldEntries
    <3> QED
      BY <3>1, <3>2
  <2> QED
    BY <1>0, <2>1, <2>3, <2>4 DEF DirInv
<1>4. CASE UNCHANGED vars
  BY <1>4 DEF vars, DirInv
<1> QED
  BY <1>0, <1>1, <1>2, <1>3, <1>4, NextCases

\* As long as nobody else sets them and no name is taken for another, get_env finds the
\* working directory under PWD and the one before under OLDPWD.
THEOREM DirectoriesAreKnown == Spec => []DirectoriesKnown
<1>1. EnvInv /\ DirInv => DirectoriesKnown
  <2> SUFFICES ASSUME EnvInv, DirInv, ~confused
               PROVE  /\ PWD \in told => IsSet(PWD) /\ GetEnv(PWD) = cwd
                      /\ OLDPWD \in told => IsSet(OLDPWD) /\ GetEnv(OLDPWD) = previous
    BY DEF DirectoriesKnown
  <2>1. env \in Seq(Row) /\ Unique(env) /\ cwd \in Dir /\ previous \in Dir
    BY DEF EnvInv, DirInv
  <2> QED
    BY <2>1, Names, GetHas DEF DirInv
<1> QED
  BY <1>1, InitEnv, NextEnv, InitDir, NextDir, PTL DEF Spec

-----------------------------------------------------------------------------
(* The refinement of Variables                                             *)

\* Listed, of any array.
ListOf(table) ==
  [k \in {NameOf(table[i]) : i \in DOMAIN table} |->
     ValueOf(table[Min({i \in DOMAIN table : NameOf(table[i]) = k})])]

\* Where names are unique, what is listed under a name is the value of its entry.
LEMMA ListedValue ==
  ASSUME NEW table \in Seq(Row), Unique(table), NEW i \in DOMAIN table
  PROVE  /\ NameOf(table[i]) \in DOMAIN ListOf(table)
         /\ ListOf(table)[NameOf(table[i])] = ValueOf(table[i])
<1> DEFINE k == NameOf(table[i])
           S == {j \in DOMAIN table : NameOf(table[j]) = k}
<1>1. S = {i}
  BY DEF Unique
<1>2. Min(S) = i
  <2>1. S # {} /\ S \in SUBSET Nat
    OBVIOUS
  <2>2. Min(S) \in S
    BY <2>1, MinInSet
  <2> QED
    BY <1>1, <2>2
<1>3. k \in DOMAIN ListOf(table)
  BY DEF ListOf
<1>4. ListOf(table)[k] = ValueOf(table[Min(S)])
  BY <1>3 DEF ListOf
<1> QED
  BY <1>2, <1>3, <1>4

\* A function with these names and values is what is listed.
LEMMA ListIs ==
  ASSUME NEW table \in Seq(Row), Unique(table), NEW f,
         f = [k \in DOMAIN f |-> f[k]],
         DOMAIN f = {NameOf(table[i]) : i \in DOMAIN table},
         \A i \in DOMAIN table : f[NameOf(table[i])] = ValueOf(table[i])
  PROVE  ListOf(table) = f
<1>1. ASSUME NEW k \in DOMAIN f PROVE ListOf(table)[k] = f[k]
  BY ListedValue
<1> QED
  BY <1>1 DEF ListOf

\* The entries of a name that cannot be taken for another.
LEMMA ListedFound ==
  ASSUME NEW table \in Seq(Row), Unique(table), NEW k, Clear(table, k)
  PROVE  /\ k \in DOMAIN ListOf(table) <=> Found(table, k) # {}
         /\ Found(table, k) # {} =>
              ListOf(table)[k] = ValueOf(table[Min(Found(table, k))])
<1>1. ASSUME k \in DOMAIN ListOf(table) PROVE Found(table, k) # {}
  <2>1. PICK i \in DOMAIN table : NameOf(table[i]) = k
    BY <1>1 DEF ListOf
  <2>2. table[i] \in Row
    OBVIOUS
  <2> QED
    BY <2>1, <2>2, NameIsFound DEF Found
<1>2. ASSUME Found(table, k) # {}
      PROVE  /\ k \in DOMAIN ListOf(table)
             /\ ListOf(table)[k] = ValueOf(table[Min(Found(table, k))])
  <2> DEFINE n == Min(Found(table, k))
  <2>1. n \in Found(table, k) /\ n \in DOMAIN table
    BY <1>2, FoundFirst
  <2> HIDE DEF n
  <2>2. NameOf(table[n]) = k
    BY <2>1 DEF Clear
  <2>3. /\ NameOf(table[n]) \in DOMAIN ListOf(table)
        /\ ListOf(table)[NameOf(table[n])] = ValueOf(table[n])
    BY <2>1, ListedValue
  <2> QED
    BY <2>2, <2>3 DEF n
<1> QED
  BY <1>1, <1>2

LEMMA SetList ==
  ASSUME NEW table \in Seq(Row), Unique(table),
         NEW k \in Seq(Byte), NEW v \in Seq(Byte), Plain(k), Clear(table, k)
  PROVE  ListOf(SetEnv(table, k, v)) = Promise!With(ListOf(table), k, v)
<1> DEFINE new == SetEnv(table, k, v)
           D == DOMAIN ListOf(table) \cup {k}
           f == [m \in D |-> IF m = k THEN v ELSE ListOf(table)[m]]
<1>1. new \in Seq(Row) /\ Unique(new)
  BY SetEnvUnique
<1>2. Entry(k, v) \in Row /\ NameOf(Entry(k, v)) = k /\ ValueOf(Entry(k, v)) = v
  BY NameOfEntry, ValueOfEntry
<1>3. \A i \in DOMAIN new :
        new[i] = Entry(k, v) \/ (i \in DOMAIN table /\ new[i] = table[i])
  BY SetEnvRows
<1>4. Has(new, Entry(k, v)) /\ \A e : Has(table, e) /\ NameOf(e) # k => Has(new, e)
  BY SetEnvHas
<1> HIDE DEF new
<1>5. D = {NameOf(new[i]) : i \in DOMAIN new}
  <2>1. ASSUME NEW i \in DOMAIN new PROVE NameOf(new[i]) \in D
    BY <1>2, <1>3, ListedValue
  <2>2. ASSUME NEW m \in D PROVE \E i \in DOMAIN new : NameOf(new[i]) = m
    <3>1. CASE m = k
      BY <1>2, <1>4, <3>1 DEF Has
    <3>2. CASE m # k
      <4>1. PICK j \in DOMAIN table : NameOf(table[j]) = m
        BY <3>2 DEF ListOf
      <4>2. Has(table, table[j])
        BY DEF Has
      <4>3. Has(new, table[j])
        BY <1>4, <3>2, <4>1, <4>2
      <4> QED
        BY <4>1, <4>3 DEF Has
    <3> QED
      BY <3>1, <3>2
  <2> QED
    BY <2>1, <2>2
<1>6. ASSUME NEW i \in DOMAIN new PROVE f[NameOf(new[i])] = ValueOf(new[i])
  <2>1. CASE NameOf(new[i]) = k
    <3>1. PICK j \in DOMAIN new : new[j] = Entry(k, v)
      BY <1>4 DEF Has
    <3>2. i = j
      BY <1>1, <1>2, <2>1, <3>1 DEF Unique
    <3> QED
      BY <1>2, <2>1, <3>1, <3>2
  <2>2. CASE NameOf(new[i]) # k
    <3>1. i \in DOMAIN table /\ new[i] = table[i]
      BY <1>2, <1>3, <2>2
    <3> QED
      BY <2>2, <3>1, ListedValue
  <2> QED
    BY <2>1, <2>2
<1>7. ListOf(new) = f
  <2>1. DOMAIN f = D /\ f = [m \in DOMAIN f |-> f[m]]
    OBVIOUS
  <2> HIDE DEF D, f
  <2> QED
    BY <1>1, <1>5, <1>6, <2>1, ListIs
<1> QED
  BY <1>7 DEF new, Promise!With

LEMMA UnsetList ==
  ASSUME NEW table \in Seq(Row), Unique(table), NEW k, Clear(table, k)
  PROVE  ListOf(UnsetEnv(table, k)) =
           [m \in DOMAIN ListOf(table) \ {k} |-> ListOf(table)[m]]
<1> DEFINE new == UnsetEnv(table, k)
           D == DOMAIN ListOf(table) \ {k}
           f == [m \in D |-> ListOf(table)[m]]
<1>1. new \in Seq(Row) /\ Unique(new)
  BY UnsetEnvUnique
<1>2. \A e : Has(table, e) /\ NameOf(e) # k => Has(new, e)
  BY UnsetEnvHas
<1>3. ASSUME NEW i \in DOMAIN new
      PROVE  NameOf(new[i]) # k /\ \E j \in DOMAIN table : new[i] = table[j]
  <2>1. CASE Found(table, k) = {}
    <3>1. new = table
      BY <2>1 DEF UnsetEnv
    <3>2. table[i] \in Row
      BY <3>1
    <3>3. NameOf(table[i]) # k
      BY <2>1, <3>1, <3>2, NameIsFound DEF Found
    <3> QED
      BY <3>1, <3>3
  <2>2. CASE Found(table, k) # {}
    <3> DEFINE n == Min(Found(table, k))
               old == IF i < n THEN i ELSE i + 1
    <3>1. n \in 1 .. Len(table) /\ NameOf(table[n]) = k
      BY <2>2, FoundFirst DEF Clear
    <3>2. new = RemoveAt(table, n)
      BY <2>2 DEF UnsetEnv
    <3> HIDE DEF n, new
    <3>3. /\ Len(new) = Len(table) - 1
          /\ \A l \in 1 .. Len(new) : new[l] = table[IF l < n THEN l ELSE l + 1]
      BY <3>1, <3>2, RowRemoved
    <3>4. i \in 1 .. Len(new)
      BY <1>1
    <3>5. new[i] = table[old] /\ old \in DOMAIN table /\ old # n
      BY <3>1, <3>3, <3>4
    <3> HIDE DEF old
    <3>6. NameOf(table[old]) # k
      BY <3>1, <3>5 DEF Unique
    <3> QED
      BY <3>5, <3>6
  <2> QED
    BY <2>1, <2>2
<1> HIDE DEF new
<1>4. D = {NameOf(new[i]) : i \in DOMAIN new}
  <2>1. ASSUME NEW i \in DOMAIN new PROVE NameOf(new[i]) \in D
    BY <1>3, ListedValue
  <2>2. ASSUME NEW m \in D PROVE \E i \in DOMAIN new : NameOf(new[i]) = m
    <3>1. PICK j \in DOMAIN table : NameOf(table[j]) = m
      BY DEF ListOf
    <3>2. Has(table, table[j])
      BY DEF Has
    <3>3. Has(new, table[j])
      BY <1>2, <3>1, <3>2
    <3> QED
      BY <3>1, <3>3 DEF Has
  <2> QED
    BY <2>1, <2>2
<1>5. ASSUME NEW i \in DOMAIN new PROVE f[NameOf(new[i])] = ValueOf(new[i])
  BY <1>3, ListedValue
<1>6. ListOf(new) = f
  <2>1. DOMAIN f = D /\ f = [m \in DOMAIN f |-> f[m]]
    OBVIOUS
  <2> HIDE DEF D, f
  <2> QED
    BY <1>1, <1>4, <1>5, <2>1, ListIs
<1> QED
  BY <1>6 DEF new

LEMMA SafeIsClear ==
  ASSUME NEW table \in Seq(Row), NEW k \in {PWD, OLDPWD, HOME}
  PROVE  Clear(table, k)
<1>1. k \in Seq(Byte) /\ Safe(k)
  BY Names
<1>2. ASSUME NEW i \in DOMAIN table, IsFound(table[i], k) PROVE NameOf(table[i]) = k
  <2>1. table[i] \in Row
    OBVIOUS
  <2> QED
    BY <1>1, <1>2, <2>1, FoundIsNamed
<1> QED
  BY <1>2 DEF Clear, Found

LEMMA TellList ==
  ASSUME EnvInv, ~confused, NEW d \in Dir
  PROVE  ListOf(Tell(d)) =
           Promise!With(IF d = cwd THEN ListOf(env) ELSE Promise!With(ListOf(env), OLDPWD, cwd),
                        PWD, d)
<1> DEFINE left == IF d = cwd THEN env ELSE SetEnv(env, OLDPWD, cwd)
<1>1. /\ PWD \in Seq(Byte) /\ OLDPWD \in Seq(Byte) /\ Plain(PWD) /\ Plain(OLDPWD)
      /\ d \in Seq(Byte) /\ cwd \in Seq(Byte)
      /\ env \in Seq(Row) /\ Unique(env)
  BY Names DEF EnvInv
<1>2. Clear(env, OLDPWD)
  BY <1>1, SafeIsClear
<1>3. left \in Seq(Row) /\ Unique(left)
  BY <1>1, <1>2, SetEnvUnique
<1>4. ListOf(left) = IF d = cwd THEN ListOf(env) ELSE Promise!With(ListOf(env), OLDPWD, cwd)
  BY <1>1, <1>2, SetList
<1>5. Tell(d) = SetEnv(left, PWD, d)
  BY DEF Tell
<1> HIDE DEF left
<1>6. Clear(left, PWD)
  BY <1>3, SafeIsClear
<1>7. ListOf(SetEnv(left, PWD, d)) = Promise!With(ListOf(left), PWD, d)
  BY <1>1, <1>3, <1>6, SetList
<1> QED
  BY <1>4, <1>5, <1>7

\* cd goes where it is sent, in the array as in the variables.
LEMMA ChangeIsGo ==
  ASSUME EnvInv, ~confused, NEW d \in Dir, ChangeTo(d)
  PROVE  Promise!Go(d)
<1>1. cwd' = d /\ env' = Tell(d)
  BY DEF ChangeTo
<1>2. Listed = ListOf(env) /\ Listed' = ListOf(env')
  BY DEF Listed, ListOf
<1>3. ListOf(env') = Promise!With(IF d = cwd THEN Listed ELSE Promise!With(Listed, OLDPWD, cwd), PWD, d)
  BY <1>1, <1>2, TellList
<1> QED
  BY <1>1, <1>2, <1>3 DEF Promise!Go

\* A variable is read in the array as among the variables.
LEMMA ReadIsListed ==
  ASSUME EnvInv, ~confused, NEW k \in {OLDPWD, HOME}
  PROVE  /\ IsSet(k) <=> k \in DOMAIN Listed
         /\ IsSet(k) => GetEnv(k) = Listed[k]
<1>1. env \in Seq(Row) /\ Unique(env)
  BY DEF EnvInv
<1>2. Clear(env, k)
  BY <1>1, SafeIsClear
<1>3. Listed = ListOf(env)
  BY DEF Listed, ListOf
<1> QED
  BY <1>1, <1>2, <1>3, ListedFound DEF IsSet, GetEnv

LEMMA ChangeIsGoTo ==
  ASSUME EnvInv, ~confused, NEW k \in {OLDPWD, HOME},
         IF IsSet(k) THEN ChangeIfDir(GetEnv(k)) ELSE ChangeTo(cwd)
  PROVE  Promise!GoTo(k)
<1>0. cwd \in Dir
  BY DEF EnvInv
<1>1. CASE IsSet(k) /\ GetEnv(k) \in Dir
  <2>1. ChangeTo(GetEnv(k))
    BY <1>1, Zenon DEF ChangeIfDir
  <2>2. Promise!Go(GetEnv(k))
    BY <1>1, <2>1, ChangeIsGo
  <2> QED
    BY <1>1, <2>2, ReadIsListed, Zenon DEF Promise!GoTo
<1>2. CASE IsSet(k) /\ GetEnv(k) \notin Dir
  <2>1. ChangeTo(cwd)
    BY <1>2, Zenon DEF ChangeIfDir
  <2>2. Promise!Go(cwd)
    BY <1>0, <2>1, ChangeIsGo
  <2> QED
    BY <1>2, <2>2, ReadIsListed, Zenon DEF Promise!GoTo
<1>3. CASE ~IsSet(k)
  <2>1. ChangeTo(cwd)
    BY <1>3, Zenon
  <2>2. Promise!Go(cwd)
    BY <1>0, <2>1, ChangeIsGo
  <2> QED
    BY <1>3, <2>2, ReadIsListed, Zenon DEF Promise!GoTo
<1> QED
  BY <1>1, <1>2, <1>3

\* What AsPromised says of a step.
StepAsPromised ==
  ~confused' =>
    /\ \A k \in Name, v \in Value : SetEnvComm(k, v) => Promise!Set(k, v)
    /\ \A k \in Name : UnsetEnvComm(k) => Promise!Unset(k)
    /\ \A d \in Dir : ChangeDir(d) => Promise!Go(d)
    /\ ChangeDirFails => Promise!Go(cwd)
    /\ ChangeDirHome => Promise!GoTo(HOME)
    /\ ChangeDirBack => Promise!GoTo(OLDPWD)

LEMMA NextAsPromised == EnvInv /\ [Next]_vars => [StepAsPromised]_vars
<1> SUFFICES ASSUME EnvInv, Next, ~confused' PROVE StepAsPromised
  BY Zenon DEF StepAsPromised
<1>0. env \in Seq(Row) /\ cwd \in Dir
  BY DEF EnvInv
<1>a. Listed = ListOf(env) /\ Listed' = ListOf(env')
  BY DEF Listed, ListOf
<1>b. ASSUME NEW d \in Dir, ChangeTo(d) PROVE ~confused
  BY <1>b, Zenon DEF ChangeTo
<1>1. ASSUME NEW k \in Name, NEW v \in Value, SetEnvComm(k, v) PROVE Promise!Set(k, v)
  <2>1. k \in Seq(Byte) /\ v \in Seq(Byte)
    BY Names
  <2>2. env' = SetEnv(env, k, v) /\ cwd' = cwd
    BY <1>1 DEF SetEnvComm
  <2>3. ~confused /\ ~Confuses(k) /\ ~(Equals \in ToSet(k))
    BY <1>1, Zenon DEF SetEnvComm
  <2>4. Unique(env) /\ Clear(env, k) /\ Plain(k)
    BY <2>3 DEF EnvInv, Confuses, Clear, Found, Plain, ToSet
  <2>5. ListOf(env') = Promise!With(ListOf(env), k, v)
    BY <1>0, <2>1, <2>2, <2>4, SetList
  <2> QED
    BY <1>a, <2>2, <2>5 DEF Promise!Set
<1>2. ASSUME NEW k \in Name, UnsetEnvComm(k) PROVE Promise!Unset(k)
  <2>1. env' = UnsetEnv(env, k) /\ cwd' = cwd
    BY <1>2 DEF UnsetEnvComm
  <2>2. ~confused /\ ~Confuses(k)
    BY <1>2, Zenon DEF UnsetEnvComm
  <2>3. Unique(env) /\ Clear(env, k)
    BY <2>2 DEF EnvInv, Confuses, Clear, Found
  <2>4. ListOf(env') = [m \in DOMAIN ListOf(env) \ {k} |-> ListOf(env)[m]]
    BY <1>0, <2>1, <2>3, UnsetList
  <2> QED
    BY <1>a, <2>1, <2>4 DEF Promise!Unset
<1>3. ASSUME NEW d \in Dir, ChangeTo(d) PROVE Promise!Go(d)
  BY <1>3, <1>b, ChangeIsGo
<1>4. ASSUME NEW k \in {OLDPWD, HOME},
             IF IsSet(k) THEN ChangeIfDir(GetEnv(k)) ELSE ChangeTo(cwd)
      PROVE  Promise!GoTo(k)
  <2>1. \E d \in Dir : ChangeTo(d)
    BY <1>0, <1>4, Zenon DEF ChangeIfDir
  <2> QED
    BY <1>4, <1>b, <2>1, ChangeIsGoTo
<1>5. \A d \in Dir : ChangeDir(d) => Promise!Go(d)
  BY <1>3, Zenon DEF ChangeDir
<1>6. ChangeDirFails => Promise!Go(cwd)
  BY <1>0, <1>3, Zenon DEF ChangeDirFails
<1>7. (ChangeDirHome => Promise!GoTo(HOME)) /\ (ChangeDirBack => Promise!GoTo(OLDPWD))
  BY <1>4, Zenon DEF ChangeDirHome, ChangeDirBack
<1> QED
  BY <1>1, <1>2, <1>5, <1>6, <1>7, Zenon DEF StepAsPromised

\* Every command does to the variables what Variables says it does, as long as no name
\* is taken for another.
THEOREM KeepsItsPromise == Spec => AsPromised
BY NextAsPromised, InitEnv, NextEnv, PTL DEF Spec, AsPromised, StepAsPromised

=============================================================================
