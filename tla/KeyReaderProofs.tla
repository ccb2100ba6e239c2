--------------------------- MODULE KeyReaderProofs ---------------------------
(***************************************************************************)
(* What the flag of the signal handler and the answer of the terminal       *)
(* promise, whatever bytes come in and whenever the signals do.            *)
(***************************************************************************)
EXTENDS KeyReader, SequenceTheorems, TLAPS

Types ==
  /\ size \in Nat /\ swallowed \in Nat
  /\ pc \in {"between", "read", "rest"} \cup Asking
  /\ from \in {"prep", "reading"}
  /\ g_sigwinch \in BOOLEAN /\ outdated \in BOOLEAN

\* The window the editor knows is the one there is: between two keys, unless the
\* flag is set; in the question of a prompt, likewise; in the question of le_reading,
\* where the flag no longer counts, unless the window has changed once more.
Known ==
  /\ pc \in {"read", "rest"} /\ ~g_sigwinch /\ ~outdated => ws = size
  /\ pc \in Asking /\ from = "prep" /\ ~g_sigwinch => ws = size
  /\ pc \in Asking /\ from = "reading" /\ ~outdated => ws = size

\* InterruptsPaid without the arithmetic on a condition.
Paid ==
  /\ swallowed <= size
  /\ g_sigwinch /\ ~(pc \in Asking /\ from = "reading") => swallowed < size

FlagInv == Types /\ Paid /\ Known

LEMMA InitFlag == Init => FlagInv
<1> SUFFICES ASSUME Init PROVE FlagInv
  OBVIOUS
<1>1. size = 0 /\ swallowed = 0 /\ ws = 0 /\ pc = "between" /\ from = "prep"
  BY DEF Init
<1>2. ~g_sigwinch /\ g_sigwinch \in BOOLEAN /\ outdated \in BOOLEAN
  BY Zenon DEF Init
<1> QED
  BY <1>1, <1>2 DEF FlagInv, Types, Paid, Known, Asking

\* A step that leaves the window, the flag and the question as they are.
LEMMA Untouched ==
  ASSUME FlagInv, UNCHANGED <<size, swallowed, g_sigwinch, ws, outdated, from>>,
         \/ pc' = pc
         \/ pc \in Asking /\ pc' \in Asking
         \/ pc \in {"read", "rest"} /\ pc' \in {"between", "read", "rest"}
         \/ pc \in Asking /\ from = "prep" /\ pc' = "read"
  PROVE  FlagInv'
<1>1. Types'
  BY Zenon DEF FlagInv, Types, Asking
<1>2. Paid'
  BY Zenon DEF FlagInv, Paid, Asking
<1>3. Known'
  BY Zenon DEF FlagInv, Known, Asking
<1> QED
  BY <1>1, <1>2, <1>3 DEF FlagInv

\* Acting on a letter ends the prompt or goes on with the next key.
LEMMA Acting ==
  ASSUME NEW l, ActOn(l)
  PROVE  pc' \in {"between", "read"}
BY DEF ActOn

\* The end of a question of le_reading clears the flag.
LEMMA Answering ==
  ASSUME FlagInv, UNCHANGED <<swallowed, ws, from>>, from = "reading", pc \in Asking,
         pc' \in {"between", "read"}, ~g_sigwinch', g_sigwinch' \in BOOLEAN,
         outdated' \in BOOLEAN,
         \/ UNCHANGED <<size, outdated>>
         \/ size' = size + 1 /\ outdated'
  PROVE  FlagInv'
BY DEF FlagInv, Types, Paid, Known, Asking

\* The flag is raised elsewhere than in le_reading: it counts from now on.
LEMMA Raising ==
  ASSUME FlagInv, size' = size + 1, UNCHANGED <<swallowed, ws, from>>,
         g_sigwinch', g_sigwinch' \in BOOLEAN, outdated' \in BOOLEAN,
         pc \in Asking /\ from = "reading" => outdated',
         \/ pc' = pc
         \/ pc \in Asking /\ pc' = "answer"
         \/ from = "prep" /\ pc' = "read"
  PROVE  FlagInv'
BY DEF FlagInv, Types, Paid, Known, Asking

\* A question is asked, and the size of the window with it.
LEMMA Questioning ==
  ASSUME FlagInv, pc' = "query", ws' = size', ~outdated', outdated' \in BOOLEAN,
         g_sigwinch' \in BOOLEAN,
         \/ /\ from' = "prep" /\ pc = "between"
            /\ UNCHANGED <<size, swallowed, g_sigwinch>>
         \/ /\ from' = "reading"
            /\ \/ size' = size + 1 /\ UNCHANGED swallowed
               \/ g_sigwinch /\ pc \notin Asking /\ swallowed' = swallowed + 1
                  /\ UNCHANGED size
  PROVE  FlagInv'
BY DEF FlagInv, Types, Paid, Known, Asking

LEMMA NextFlag == FlagInv /\ [Next]_vars => FlagInv'
<1> SUFFICES ASSUME FlagInv, [Next]_vars PROVE FlagInv'
  OBVIOUS
<1> USE DEF user, screen, typing
<1>0. g_sigwinch \in BOOLEAN /\ outdated \in BOOLEAN /\ from \in {"prep", "reading"}
  BY DEF FlagInv, Types
<1>1. CASE ReadFirst \/ ReadRest \/ ReadOver
  <2>1. pc \in {"read", "rest"} /\ pc' \in {"between", "read", "rest"}
    BY <1>1, Acting DEF ReadFirst, ReadRest, ReadOver
  <2>2. UNCHANGED <<size, swallowed, g_sigwinch, ws, outdated, from>>
    BY <1>1 DEF ReadFirst, ReadRest, ReadOver
  <2> QED
    BY <2>1, <2>2, Untouched
<1>2. CASE Skip
  BY <1>2, Untouched DEF Skip, Asking
<1>3. CASE Rest \/ Answered \/ \E k \in Key : Press(k)
  BY <1>3, Untouched DEF Rest, Answered, Press
<1>4. CASE Position
  <2>1. pc \in Asking /\ UNCHANGED <<swallowed, ws, from, size, outdated>>
    BY <1>4 DEF Position, Asking
  <2>2. GoOn(g_sigwinch)
    BY <1>4 DEF Position
  <2>3. CASE from = "prep"
    <3>1. pc' = "read" /\ UNCHANGED g_sigwinch
      BY <2>2, <2>3 DEF GoOn
    <3> QED
      BY <2>1, <2>3, <3>1, Untouched
  <2>4. CASE from = "reading"
    <3>1. pc' \in {"between", "read"} /\ ~g_sigwinch' /\ g_sigwinch' \in BOOLEAN
      BY <2>2, <2>4, Acting DEF GoOn
    <3> QED
      BY <1>0, <2>1, <2>4, <3>1, Answering
  <2> QED
    BY <1>0, <2>3, <2>4
<1>5. CASE Prompt
  <2>1. /\ pc' = "query" /\ ws' = size' /\ from' = "prep" /\ pc = "between"
        /\ UNCHANGED <<size, swallowed, g_sigwinch>>
    BY <1>5 DEF Prompt, Ask
  <2>2. ~outdated' /\ outdated' \in BOOLEAN
    BY <1>5, Zenon DEF Prompt, Ask
  <2> QED
    BY <1>0, <2>1, <2>2, Questioning
<1>6. CASE WindowChange
  <2>1. /\ pc' = "query" /\ ws' = size' /\ from' = "reading"
        /\ size' = size + 1 /\ UNCHANGED swallowed
    BY <1>6 DEF WindowChange, Resize, Ask
  <2>2. ~outdated' /\ outdated' \in BOOLEAN /\ g_sigwinch' \in BOOLEAN
    BY <1>6, Zenon DEF WindowChange, Ask
  <2> QED
    BY <2>1, <2>2, Questioning
<1>7. CASE CtrlCForResize
  <2>1. /\ pc' = "query" /\ ws' = size' /\ from' = "reading" /\ pc \notin Asking
        /\ swallowed' = swallowed + 1 /\ UNCHANGED <<size, g_sigwinch>>
    BY <1>7 DEF CtrlCForResize, Interrupt, ReadFails, Ask, Asking
  <2>2. ~outdated' /\ outdated' \in BOOLEAN /\ g_sigwinch
    BY <1>7, Zenon DEF CtrlCForResize, Ask
  <2> QED
    BY <1>0, <2>1, <2>2, Questioning
<1>8. CASE CtrlC
  <2>1. /\ pc \in {"read", "rest"} /\ pc' = "between"
        /\ UNCHANGED <<size, swallowed, g_sigwinch, ws, outdated, from>>
    BY <1>8 DEF CtrlC, Interrupt, ReadFails
  <2> QED
    BY <2>1, Untouched
<1>9. CASE WindowChangeUnseen
  <2>1. size' = size + 1 /\ UNCHANGED <<swallowed, ws, from, pc>>
    BY <1>9 DEF WindowChangeUnseen, Resize
  <2>2. /\ g_sigwinch' /\ g_sigwinch' \in BOOLEAN /\ outdated' \in BOOLEAN
        /\ pc \in Asking /\ from = "reading" => outdated'
    BY <1>9, Zenon DEF WindowChangeUnseen
  <2> QED
    BY <2>1, <2>2, Raising
<1>10. CASE CrossFirst
  <2>1. pc \in Asking /\ pc' = "answer" /\ pc' \in Asking /\ UNCHANGED <<swallowed, ws, from>>
    BY <1>10 DEF CrossFirst, Cross, Asking
  <2>2. CASE UNCHANGED <<size, g_sigwinch, outdated>>
    BY <2>1, <2>2, Untouched
  <2>3. CASE size' = size + 1 /\ g_sigwinch' = TRUE /\ outdated' = (outdated \/ from = "reading")
    BY <1>0, <2>1, <2>3, Raising
  <2> QED
    BY <1>10, <2>2, <2>3 DEF CrossFirst, Cross, Interrupt, Resize
<1>11. CASE CrossSecond
  <2>1. PICK flag \in BOOLEAN : Cross(flag) /\ GoOn(flag)
    BY <1>11 DEF CrossSecond
  <2>2. pc \in Asking /\ UNCHANGED <<swallowed, ws, from>>
    BY <2>1 DEF Cross
  <2>3. \/ flag = g_sigwinch /\ UNCHANGED <<size, outdated>>
        \/ flag = TRUE /\ size' = size + 1 /\ outdated' = (outdated \/ from = "reading")
    BY <2>1 DEF Cross, Interrupt, Resize
  <2>4. CASE from = "prep"
    <3>1. pc' = "read" /\ g_sigwinch' = flag
      BY <2>1, <2>4 DEF GoOn
    <3>2. CASE flag = g_sigwinch /\ UNCHANGED <<size, outdated>>
      BY <2>2, <2>4, <3>1, <3>2, Untouched
    <3>3. CASE flag = TRUE /\ size' = size + 1 /\ outdated' = (outdated \/ from = "reading")
      BY <1>0, <2>2, <2>4, <3>1, <3>3, Raising
    <3> QED
      BY <2>3, <3>2, <3>3
  <2>5. CASE from = "reading"
    <3>1. pc' \in {"between", "read"} /\ ~g_sigwinch' /\ g_sigwinch' \in BOOLEAN
      BY <2>1, <2>5, Acting DEF GoOn
    <3>2. /\ outdated' \in BOOLEAN
          /\ UNCHANGED <<size, outdated>> \/ (size' = size + 1 /\ outdated')
      BY <1>0, <2>3, <2>5
    <3> QED
      BY <2>2, <2>5, <3>1, <3>2, Answering
  <2> QED
    BY <1>0, <2>4, <2>5
<1>12. CASE UNCHANGED vars
  BY <1>12, Untouched DEF vars
<1> QED
  BY <1>1, <1>2, <1>3, <1>4, <1>5, <1>6, <1>7, <1>8, <1>9, <1>10, <1>11, <1>12
  DEF Next, Reader, User, Signal

\* Ctrl-C is taken for a change of the window at most once for each change there was:
\* g_sigwinch does not outlast the question that le_reading asks because of it.
THEOREM InterruptsArePaid == Spec => []InterruptsPaid
<1>1. FlagInv => InterruptsPaid
  BY DEF FlagInv, Types, Paid, InterruptsPaid
<1>. QED  BY <1>1, InitFlag, NextFlag, PTL DEF Spec

\* Between two keys the editor knows the size of the window, or the flag tells that it
\* does not, or the window has changed while le_reading was asking for the cursor.
THEOREM SizeIsKnown == Spec => []SizeKnown
<1>1. FlagInv => SizeKnown
  BY DEF FlagInv, Known, SizeKnown
<1>. QED  BY <1>1, InitFlag, NextFlag, PTL DEF Spec

-----------------------------------------------------------------------------
(* The answer of the terminal                                              *)

\* As long as neither a key nor a signal gets in the way of a question, there is
\* nothing in the terminal but its answer, once, and no byte before it is skipped.
AnswerInv ==
  /\ asked \in Nat /\ crossed \in BOOLEAN
  /\ pc = "query" /\ ~crossed =>
       /\ wire = <<>>
       /\ (asked = 1 /\ queue = <<>>) \/ (asked = 0 /\ queue = Reply)
  /\ pc = "skip" => crossed
  /\ pc = "answer" /\ ~crossed => wire = <<>> /\ asked = 0 /\ queue = Tail(Reply)
  /\ pc \in {"read", "rest"} /\ ~crossed => curpos

\* A step that does not touch the question, or in which something gets in its way.
LEMMA Unasked ==
  ASSUME AnswerInv, asked' \in Nat, crossed' \in BOOLEAN, pc' # "skip" \/ crossed',
         \/ crossed'
         \/ pc' = "between"
         \/ UNCHANGED <<pc, queue, wire, asked, crossed, curpos>>
         \/ /\ pc' \in {"read", "rest"}
            /\ pc \in {"read", "rest"}
            /\ UNCHANGED <<crossed, curpos>>
  PROVE  AnswerInv'
BY DEF AnswerInv

\* The question, asked while nothing else is under way.
LEMMA Asks ==
  ASSUME AnswerInv, UNCHANGED <<queue, wire>>, NEW c, Ask(c)
  PROVE  AnswerInv'
<1>1. pc' = "query" /\ asked' = asked + 1 /\ asked \in Nat
  BY DEF Ask, AnswerInv
<1>2. crossed' \in BOOLEAN
  BY Zenon DEF Ask, Pursued
<1>3. ~crossed' => queue = <<>> /\ wire = <<>> /\ ~(asked > 0)
  BY Zenon DEF Ask, Pursued
<1> QED
  BY <1>1, <1>2, <1>3 DEF AnswerInv

\* The room in temp is enough for the whole of it.
LEMMA WholeAnswer ==
  ASSUME queue = Tail(Reply)
  PROVE  Took(AnswerSize) = Tail(Reply)
<1>1. Reply \in Seq(Byte) /\ 1 < Len(Reply) /\ Len(Reply) <= 15
  BY KeyAssumption
<1>2. Tail(Reply) \in Seq(Byte) /\ Len(Tail(Reply)) = Len(Reply) - 1
  <2>1. Reply # <<>>
    <3>1. Len(Reply) # 0
      BY <1>1
    <3> QED
      BY <3>1, EmptySeq
  <2> QED
    BY <1>1, <2>1, HeadTailProperties
<1>3. Took(AnswerSize) = SubSeq(Tail(Reply), 1, Len(Tail(Reply)))
  BY <1>1, <1>2 DEF Took, AnswerSize
<1> QED
  BY <1>2, <1>3

LEMMA NextAnswer == AnswerInv /\ [Next]_vars => AnswerInv'
<1> SUFFICES ASSUME AnswerInv, [Next]_vars PROVE AnswerInv'
  OBVIOUS
<1>0. asked \in Nat /\ crossed \in BOOLEAN
  BY DEF AnswerInv
<1> USE DEF screen, typing
<1>1. CASE ReadFirst \/ ReadRest \/ ReadOver
  <2>1. pc \in {"read", "rest"} /\ pc' \in {"between", "read", "rest"}
    BY <1>1, Acting DEF ReadFirst, ReadRest, ReadOver
  <2>2. UNCHANGED <<asked, crossed, curpos>>
    BY <1>1 DEF ReadFirst, ReadRest, ReadOver
  <2> QED
    BY <1>0, <2>1, <2>2, Unasked
<1>2. CASE Skip
  <2>1. UNCHANGED <<wire, asked, crossed>> /\ queue' = Tail(queue) /\ queue # <<>>
    BY <1>2 DEF Skip
  <2>2. pc \in {"query", "skip"} /\ pc' = IF Head(queue) = Esc THEN "answer" ELSE "skip"
    BY <1>2 DEF Skip
  <2>3. CASE crossed
    BY <1>0, <2>1, <2>2, <2>3, Unasked
  <2>4. CASE ~crossed
    <3>1. queue = Reply /\ asked = 0 /\ wire = <<>>
      BY <2>1, <2>2, <2>4 DEF AnswerInv
    <3>2. Head(Reply) = Esc
      BY KeyAssumption
    <3> QED
      BY <1>0, <2>1, <2>2, <2>4, <3>1, <3>2 DEF AnswerInv
  <2> QED
    BY <2>3, <2>4
<1>3. CASE \E k \in Key : Press(k)
  <2>1. UNCHANGED <<pc, asked, curpos>> /\ crossed' = (crossed \/ pc \in Asking)
    BY <1>3 DEF Press
  <2>2. CASE pc \in Asking
    <3>1. crossed' = TRUE
      BY <2>1, <2>2, Zenon
    <3> QED
      BY <1>0, <2>1, <3>1, Unasked
  <2>3. CASE pc \notin Asking
    <3>1. crossed' = crossed
      BY <1>0, <2>1, <2>3
    <3> QED
      BY <1>0, <2>1, <2>3, <3>1 DEF AnswerInv, Asking
  <2> QED
    BY <2>2, <2>3
<1>4. CASE Rest
  <2>1. wire # <<>> /\ UNCHANGED <<pc, asked, crossed, curpos>>
    BY <1>4 DEF Rest
  <2> QED
    BY <1>0, <2>1 DEF AnswerInv
<1>5. CASE Answered
  <2>1. /\ asked > 0 /\ wire = <<>> /\ asked' = asked - 1 /\ queue' = queue \o Reply
        /\ UNCHANGED <<pc, wire, crossed, curpos>>
    BY <1>5 DEF Answered
  <2>2. queue = <<>> => queue' = Reply
    BY <2>1, KeyAssumption
  <2> QED
    BY <1>0, <2>1, <2>2 DEF AnswerInv
<1>6. CASE Position
  <2>1. /\ pc = "answer" /\ UNCHANGED <<asked, crossed>>
        /\ curpos' = (Took(AnswerSize) = Tail(Reply)) /\ GoOn(g_sigwinch)
    BY <1>6 DEF Position
  <2>2. pc' \in {"between", "read"}
    BY <2>1, Acting DEF GoOn
  <2>3. ~crossed => curpos'
    <3> SUFFICES ASSUME ~crossed PROVE curpos'
      OBVIOUS
    <3>1. Took(AnswerSize) = Tail(Reply)
      BY <2>1, WholeAnswer DEF AnswerInv
    <3> QED
      BY <2>1, <3>1, Zenon
  <2> QED
    BY <1>0, <2>1, <2>2, <2>3 DEF AnswerInv
<1>7. CASE Prompt
  BY <1>7, Asks DEF Prompt
<1>8. CASE WindowChange \/ CtrlCForResize
  BY <1>8, Asks DEF WindowChange, CtrlCForResize
<1>9. CASE CtrlC \/ WindowChangeUnseen
  BY <1>0, <1>9, Unasked DEF CtrlC, WindowChangeUnseen, AnswerInv
<1>10. CASE CrossFirst \/ CrossSecond
  BY <1>0, <1>10, Unasked DEF CrossFirst, CrossSecond, Cross
<1>11. CASE UNCHANGED vars
  BY <1>0, <1>11, Unasked DEF vars, AnswerInv
<1> QED
  BY <1>1, <1>2, <1>3, <1>4, <1>5, <1>6, <1>7, <1>8, <1>9, <1>10, <1>11
  DEF Next, Reader, User, Signal

\* Whatever is typed and whenever the window changes, where the editor believes the
\* cursor to be is what the terminal has answered to its last question, unless a key
\* or a signal has come before the answer did.
THEOREM CursorIsKnown == Spec => []CursorKnown
<1>1. Init => AnswerInv
  <2> SUFFICES ASSUME Init PROVE AnswerInv
    OBVIOUS
  <2>1. pc = "between" /\ asked = 0
    BY DEF Init
  <2>2. crossed \in BOOLEAN
    BY Zenon DEF Init
  <2> QED
    BY <2>1, <2>2 DEF AnswerInv
<1>2. AnswerInv => CursorKnown
  BY DEF AnswerInv, CursorKnown
<1>. QED  BY <1>1, <1>2, NextAnswer, PTL DEF Spec

-----------------------------------------------------------------------------
(* The keys on their way                                                   *)

\* The bytes b are those of the keys in sent, of which at tells where each one ends; d
\* is a and then those of the keys that have a meaning, of which nr tells how many
\* there are so far.
Flow(b, a, d, sent, at, nr) ==
  /\ sent \in Seq(Key)
  /\ at \in [0 .. Len(sent) -> Nat] /\ at[0] = 0 /\ at[Len(sent)] = Len(b)
  /\ nr \in [0 .. Len(sent) -> Nat] /\ nr[0] = Len(a) /\ nr[Len(sent)] = Len(d)
  /\ \A i \in 0 .. Len(sent) : \A j \in 0 .. i : at[j] <= at[i] /\ nr[j] <= nr[i]
  /\ \A i \in 1 .. Len(sent) :
       /\ at[i] = at[i - 1] + Len(sent[i])
       /\ \A j \in 1 .. Len(sent[i]) : b[at[i - 1] + j] = sent[i][j]
       /\ Effective(sent[i]) => nr[i] = nr[i - 1] + 1 /\ d[nr[i]] = sent[i]
       /\ ~Effective(sent[i]) => nr[i] = nr[i - 1]
  /\ \A i \in 1 .. Len(a) : d[i] = a[i]

LEMMA KeyType ==
  ASSUME NEW k \in Key
  PROVE  k \in Seq(Byte) /\ k # <<>> /\ Len(k) \in Nat /\ Len(k) > 0 /\ k[1] \in Byte
<1>1. k \in Seq(Byte) /\ k # <<>>
  BY KeyAssumption
<1>2. Len(k) \in Nat /\ Len(k) > 0
  BY <1>1, EmptySeq
<1>3. k[1] \in Byte
  <2>1. 1 \in 1 .. Len(k)
    BY <1>2
  <2> QED
    BY <1>1, <2>1, ElementOfSeq
<1> QED
  BY <1>1, <1>2, <1>3

LEMMA Within == \A x, p, m \in Nat : x + p <= m => \A j \in 1 .. p : x + j \in 1 .. m
OBVIOUS

LEMMA FlowNone ==
  ASSUME NEW a \in Seq(Seq(Byte))
  PROVE  Flow(<<>>, a, a, <<>>, [i \in 0 .. 0 |-> 0], [i \in 0 .. 0 |-> Len(a)])
<1>1. <<>> \in Seq(Key) /\ Len(<<>>) = 0 /\ Len(a) \in Nat /\ 0 .. 0 = {0} /\ 1 .. 0 = {}
  BY LenProperties
<1> DEFINE at == [i \in 0 .. 0 |-> 0]
           nr == [i \in 0 .. 0 |-> Len(a)]
<1>2. /\ at \in [0 .. 0 -> Nat] /\ nr \in [0 .. 0 -> Nat] /\ at[0] = 0 /\ nr[0] = Len(a)
  BY <1>1
<1> HIDE DEF at, nr
<1>3. \A i \in 0 .. 0 : \A j \in 0 .. i : at[j] <= at[i] /\ nr[j] <= nr[i]
  BY <1>1, <1>2
<1>4. Flow(<<>>, a, a, <<>>, at, nr)
  BY <1>1, <1>2, <1>3 DEF Flow
<1> QED
  BY <1>4 DEF at, nr

\* One more key.
LEMMA FlowAdd ==
  ASSUME NEW b \in Seq(Byte), NEW a \in Seq(Seq(Byte)), NEW d \in Seq(Seq(Byte)),
         NEW sent, NEW at, NEW nr, Flow(b, a, d, sent, at, nr), NEW k \in Key
  PROVE  \E at2, nr2 : Flow(b \o k, a, d \o (IF Effective(k) THEN <<k>> ELSE <<>>),
                            Append(sent, k), at2, nr2)
<1> DEFINE n == Len(sent)
           m == n + 1
           c == b \o k
           e == d \o (IF Effective(k) THEN <<k>> ELSE <<>>)
           more == Append(sent, k)
           at2 == [i \in 0 .. m |-> IF i = m THEN Len(c) ELSE at[i]]
           nr2 == [i \in 0 .. m |-> IF i = m THEN Len(e) ELSE nr[i]]
<1>1. /\ sent \in Seq(Key) /\ n \in Nat /\ Len(b) \in Nat /\ Len(a) \in Nat /\ Len(d) \in Nat
      /\ k \in Seq(Byte) /\ Len(k) \in Nat /\ Len(k) > 0
  BY KeyType, LenProperties DEF Flow
<1>2. /\ Len(c) = Len(b) + Len(k)
      /\ \A i \in 1 .. Len(b) : c[i] = b[i]
      /\ \A i \in 1 .. Len(k) : c[Len(b) + i] = k[i]
  <2>1. /\ Len(c) = Len(b) + Len(k)
        /\ \A i \in 1 .. Len(b) + Len(k) : c[i] = IF i <= Len(b) THEN b[i] ELSE k[i - Len(b)]
    BY <1>1, ConcatProperties
  <2> HIDE DEF c
  <2>2. \A i \in 1 .. Len(b) : i \in 1 .. Len(b) + Len(k) /\ i <= Len(b)
    BY <1>1
  <2>3. \A i \in 1 .. Len(k) : /\ Len(b) + i \in 1 .. Len(b) + Len(k)
                               /\ ~(Len(b) + i <= Len(b)) /\ (Len(b) + i) - Len(b) = i
    BY <1>1
  <2> QED
    BY <2>1, <2>2, <2>3
<1>3. /\ Effective(k) => Len(e) = Len(d) + 1 /\ e[Len(e)] = k
      /\ ~Effective(k) => Len(e) = Len(d)
      /\ Len(d) <= Len(e) /\ Len(e) \in Nat
      /\ \A i \in 1 .. Len(d) : e[i] = d[i]
  <2>1. CASE Effective(k)
    <3>1. e = d \o <<k>> /\ <<k>> \in Seq(Seq(Byte)) /\ Len(<<k>>) = 1
      BY <1>1, <2>1
    <3>2. /\ Len(d \o <<k>>) = Len(d) + 1
          /\ \A i \in 1 .. Len(d) + 1 :
               (d \o <<k>>)[i] = IF i <= Len(d) THEN d[i] ELSE <<k>>[i - Len(d)]
      BY <3>1, ConcatProperties
    <3> HIDE DEF e
    <3>3. /\ Len(d) + 1 \in 1 .. Len(d) + 1 /\ ~(Len(d) + 1 <= Len(d)) /\ (Len(d) + 1) - Len(d) = 1
          /\ <<k>>[1] = k /\ Len(d) <= Len(d) + 1 /\ Len(d) + 1 \in Nat
      BY <1>1
    <3>4. \A i \in 1 .. Len(d) : i \in 1 .. Len(d) + 1 /\ i <= Len(d)
      BY <1>1
    <3>5. Len(e) = Len(d) + 1 /\ e[Len(d) + 1] = k
      BY <3>1, <3>2, <3>3
    <3>6. \A i \in 1 .. Len(d) : e[i] = d[i]
      BY <3>1, <3>2, <3>4, Zenon
    <3> QED
      BY <2>1, <3>3, <3>5, <3>6, Zenon
  <2>2. CASE ~Effective(k)
    <3>1. e = d
      BY <2>2, ConcatEmptySeq
    <3> HIDE DEF e
    <3> QED
      BY <1>1, <2>2, <3>1
  <2> QED
    BY <2>1, <2>2
<1>4. more \in Seq(Key) /\ Len(more) = m /\ (\A i \in 1 .. n : more[i] = sent[i]) /\ more[m] = k
  BY <1>1, AppendProperties
<1> HIDE DEF c, e, more, n
<1>5. /\ m \in Nat /\ m - 1 = n /\ \A i \in 0 .. n : i \in 0 .. m /\ i # m
      /\ \A i \in 0 .. m : i \in 0 .. n \/ i = m
      /\ \A i \in 1 .. m : i \in 1 .. n \/ i = m
      /\ \A i \in 1 .. n : i \in 0 .. n /\ i - 1 \in 0 .. n
      /\ 0 \in 0 .. n /\ n \in 0 .. n /\ m \in 0 .. m
  BY <1>1
<1> HIDE DEF m
<1>6. /\ at \in [0 .. n -> Nat] /\ at[0] = 0 /\ at[n] = Len(b)
      /\ nr \in [0 .. n -> Nat] /\ nr[0] = Len(a) /\ nr[n] = Len(d)
      /\ \A i \in 0 .. n : \A j \in 0 .. i : at[j] <= at[i] /\ nr[j] <= nr[i]
      /\ \A i \in 1 .. n :
           /\ at[i] = at[i - 1] + Len(sent[i])
           /\ \A j \in 1 .. Len(sent[i]) : b[at[i - 1] + j] = sent[i][j]
           /\ Effective(sent[i]) => nr[i] = nr[i - 1] + 1 /\ d[nr[i]] = sent[i]
           /\ ~Effective(sent[i]) => nr[i] = nr[i - 1]
      /\ \A i \in 1 .. Len(a) : d[i] = a[i]
  BY Zenon DEF Flow, n
<1>7. /\ \A i \in 0 .. n : at2[i] = at[i] /\ nr2[i] = nr[i]
      /\ at2[m] = Len(c) /\ nr2[m] = Len(e)
  BY <1>5
<1>8. at2 \in [0 .. m -> Nat] /\ nr2 \in [0 .. m -> Nat]
  BY <1>1, <1>2, <1>3, <1>5, <1>6
<1> HIDE DEF at2, nr2
<1>9. \A i \in 0 .. n : at[i] \in Nat /\ nr[i] \in Nat /\ at[i] <= Len(b) /\ nr[i] <= Len(d)
  <2> TAKE i \in 0 .. n
  <2>1. i \in 0 .. n /\ n \in 0 .. n
    BY <1>5
  <2> QED
    BY <1>6, <2>1
<1>10. \A i \in 0 .. m : \A j \in 0 .. i : at2[j] <= at2[i] /\ nr2[j] <= nr2[i]
  <2> TAKE i \in 0 .. m
  <2> TAKE j \in 0 .. i
  <2>1. CASE i \in 0 .. n
    <3>1. j \in 0 .. n
      BY <1>1, <2>1
    <3> QED
      BY <1>6, <1>7, <2>1, <3>1
  <2>2. CASE i = m /\ j = m
    BY <1>1, <1>2, <1>3, <1>7, <2>2
  <2>3. CASE i = m /\ j # m
    <3>1. j \in 0 .. n
      BY <1>5, <2>3
    <3>2. at[j] <= Len(c) /\ nr[j] <= Len(e)
      BY <1>1, <1>2, <1>3, <1>9, <3>1
    <3> QED
      BY <1>7, <2>3, <3>1, <3>2
  <2> QED
    BY <1>5, <2>1, <2>2, <2>3
<1>11. ASSUME NEW i \in 1 .. m
       PROVE  /\ at2[i] = at2[i - 1] + Len(more[i])
              /\ \A j \in 1 .. Len(more[i]) : c[at2[i - 1] + j] = more[i][j]
              /\ Effective(more[i]) => nr2[i] = nr2[i - 1] + 1 /\ e[nr2[i]] = more[i]
              /\ ~Effective(more[i]) => nr2[i] = nr2[i - 1]
  <2>1. CASE i = m
    <3>1. at2[i - 1] = Len(b) /\ nr2[i - 1] = Len(d) /\ more[i] = k /\ at2[i] = Len(c)
          /\ nr2[i] = Len(e)
      BY <1>4, <1>5, <1>6, <1>7, <2>1
    <3> QED
      BY <1>2, <1>3, <3>1
  <2>2. CASE i \in 1 .. n
    <3>1. /\ at2[i] = at[i] /\ at2[i - 1] = at[i - 1] /\ nr2[i] = nr[i] /\ nr2[i - 1] = nr[i - 1]
          /\ more[i] = sent[i] /\ at[i] \in Nat /\ at[i - 1] \in Nat /\ nr[i] \in Nat
          /\ nr[i - 1] \in Nat /\ at[i] <= Len(b) /\ nr[i] <= Len(d)
      BY <1>4, <1>5, <1>7, <1>9, <2>2
    <3>2. Len(sent[i]) \in Nat
      BY <1>1, <2>2, ElementOfSeq, KeyType DEF n
    <3>3. ASSUME NEW j \in 1 .. Len(sent[i]) PROVE c[at[i - 1] + j] = sent[i][j]
      <4>1. at[i] = at[i - 1] + Len(sent[i])
        BY <1>6, <2>2
      <4>2. at[i - 1] + j \in 1 .. Len(b)
        BY <1>1, <3>1, <3>2, <4>1, Within, Zenon
      <4>3. b[at[i - 1] + j] = sent[i][j]
        BY <1>6, <2>2
      <4> QED
        BY <1>2, <4>2, <4>3
    <3>4. Effective(sent[i]) => nr[i] = nr[i - 1] + 1 /\ e[nr[i]] = sent[i]
      <4> SUFFICES ASSUME Effective(sent[i]) PROVE nr[i] = nr[i - 1] + 1 /\ e[nr[i]] = sent[i]
        OBVIOUS
      <4>1. nr[i] = nr[i - 1] + 1 /\ d[nr[i]] = sent[i]
        BY <1>6, <2>2
      <4>2. nr[i] \in 1 .. Len(d)
        BY <1>1, <3>1, <4>1
      <4> QED
        BY <1>3, <4>1, <4>2
    <3>5. at[i] = at[i - 1] + Len(sent[i]) /\ (~Effective(sent[i]) => nr[i] = nr[i - 1])
      BY <1>6, <2>2
    <3> QED
      BY <3>1, <3>3, <3>4, <3>5, Zenon
  <2> QED
    BY <1>5, <2>1, <2>2
<1>12. \A i \in 1 .. Len(a) : e[i] = a[i]
  <2> TAKE i \in 1 .. Len(a)
  <2>1. Len(a) <= Len(d)
    BY <1>5, <1>6, <1>9
  <2>2. i \in 1 .. Len(d)
    BY <1>1, <2>1
  <2> QED
    BY <1>3, <1>6, <2>2
<1>13. at2[0] = 0 /\ nr2[0] = Len(a)
  BY <1>5, <1>6, <1>7
<1>14. Flow(c, a, e, more, at2, nr2)
  BY <1>4, <1>7, <1>8, <1>10, <1>11, <1>12, <1>13, Zenon DEF Flow
<1> QED
  BY <1>14, Zenon DEF c, e, more

\* The first key is read.
LEMMA FlowDrop ==
  ASSUME NEW b \in Seq(Byte), NEW a \in Seq(Seq(Byte)), NEW d \in Seq(Seq(Byte)),
         NEW sent, NEW at, NEW nr, Flow(b, a, d, sent, at, nr), sent # <<>>,
         NEW c \in Seq(Byte), Len(c) = Len(b) - Len(sent[1]),
         \A i \in 1 .. Len(c) : c[i] = b[Len(sent[1]) + i]
  PROVE  \E at2, nr2 : Flow(c, IF Effective(sent[1]) THEN Append(a, sent[1]) ELSE a, d,
                            Tail(sent), at2, nr2)
<1> DEFINE n == Len(sent)
           k == sent[1]
           m == n - 1
           e == IF Effective(k) THEN Append(a, k) ELSE a
           fewer == Tail(sent)
           at2 == [i \in 0 .. m |-> at[i + 1] - at[1]]
           nr2 == [i \in 0 .. m |-> nr[i + 1]]
<1>1. /\ sent \in Seq(Key) /\ n \in Nat /\ n > 0 /\ m \in Nat /\ m + 1 = n
      /\ Len(a) \in Nat /\ Len(b) \in Nat /\ Len(c) \in Nat /\ Len(d) \in Nat
      /\ \A i \in 1 .. n : sent[i] \in Key
  BY EmptySeq, LenProperties, ElementOfSeq DEF Flow
<1>2. k \in Key /\ k \in Seq(Byte) /\ Len(k) \in Nat /\ Len(k) > 0
  BY <1>1, KeyType
<1>3. fewer \in Seq(Key) /\ Len(fewer) = m /\ \A i \in 1 .. m : fewer[i] = sent[i + 1]
  BY <1>1, HeadTailProperties
<1>4. /\ 1 \in 0 .. n /\ 0 \in 0 .. 1 /\ 0 \in 0 .. n /\ n \in 0 .. n /\ 1 \in 1 .. n
      /\ 0 \in 0 .. m /\ m \in 0 .. m /\ m + 1 = n /\ 0 + 1 = 1 /\ 1 - 1 = 0
      /\ \A i \in 0 .. m : i + 1 \in 1 .. n /\ i + 1 \in 0 .. n /\ 1 \in 0 .. i + 1
      /\ \A i \in 1 .. m : /\ i + 1 \in 1 .. n /\ i - 1 \in 0 .. m /\ i \in 0 .. m
                           /\ (i + 1) - 1 = i /\ (i - 1) + 1 = i /\ i \in 1 .. n
                           /\ i \in 0 .. n
      /\ \A i \in 0 .. m : \A j \in 0 .. i : j \in 0 .. m /\ j + 1 \in 0 .. i + 1
  BY <1>1
<1>5. /\ at \in [0 .. n -> Nat] /\ at[0] = 0 /\ at[n] = Len(b)
      /\ nr \in [0 .. n -> Nat] /\ nr[0] = Len(a) /\ nr[n] = Len(d)
      /\ \A i \in 0 .. n : \A j \in 0 .. i : at[j] <= at[i] /\ nr[j] <= nr[i]
      /\ \A i \in 1 .. n :
           /\ at[i] = at[i - 1] + Len(sent[i])
           /\ \A j \in 1 .. Len(sent[i]) : b[at[i - 1] + j] = sent[i][j]
           /\ Effective(sent[i]) => nr[i] = nr[i - 1] + 1 /\ d[nr[i]] = sent[i]
           /\ ~Effective(sent[i]) => nr[i] = nr[i - 1]
      /\ \A i \in 1 .. Len(a) : d[i] = a[i]
  BY Zenon DEF Flow
<1> HIDE DEF n, m, fewer, e
<1>6. \A i \in 0 .. n : at[i] \in Nat /\ nr[i] \in Nat
  BY <1>5
<1>7. at[1] = Len(k)
  <2>1. at[1] = at[1 - 1] + Len(sent[1])
    BY <1>4, <1>5
  <2> QED
    BY <1>2, <1>4, <1>5, <2>1
<1>8. /\ Len(e) = nr[1] /\ e \in Seq(Seq(Byte)) /\ Len(e) <= Len(d)
      /\ \A i \in 1 .. Len(e) : d[i] = e[i]
  <2>1. nr[1 - 1] = Len(a) /\ nr[1] <= Len(d) /\ nr[1] \in Nat
    BY <1>4, <1>5, <1>6
  <2>2. CASE Effective(k)
    <3>1. nr[1] = nr[1 - 1] + 1 /\ d[nr[1]] = k
      BY <1>4, <1>5, <2>2
    <3>2. e = Append(a, k)
      BY <2>2 DEF e
    <3>3. /\ e \in Seq(Seq(Byte)) /\ Len(e) = Len(a) + 1 /\ e[Len(a) + 1] = k
          /\ \A i \in 1 .. Len(a) : e[i] = a[i]
      BY <1>2, <3>2, AppendProperties
    <3>4. nr[1] = Len(a) + 1
      BY <2>1, <3>1
    <3>5. \A i \in 1 .. Len(e) : d[i] = e[i]
      <4> TAKE i \in 1 .. Len(e)
      <4>1. i \in 1 .. Len(a) \/ i = Len(a) + 1
        BY <1>1, <3>3
      <4> QED
        BY <1>5, <3>1, <3>3, <3>4, <4>1
    <3> QED
      BY <2>1, <3>3, <3>4, <3>5
  <2>3. CASE ~Effective(k)
    <3>1. nr[1] = nr[1 - 1] /\ e = a
      BY <1>4, <1>5, <2>3 DEF e
    <3> QED
      BY <1>5, <2>1, <3>1
  <2> QED
    BY <2>2, <2>3
<1>9. \A i \in 0 .. m : at2[i] = at[i + 1] - Len(k) /\ nr2[i] = nr[i + 1]
  BY <1>7
<1>10. at2 \in [0 .. m -> Nat] /\ nr2 \in [0 .. m -> Nat]
  <2>1. \A i \in 0 .. m : at[i + 1] - at[1] \in Nat /\ nr[i + 1] \in Nat
    <3> TAKE i \in 0 .. m
    <3>1. at[1] <= at[i + 1] /\ at[1] \in Nat /\ at[i + 1] \in Nat /\ nr[i + 1] \in Nat
      BY <1>4, <1>5, <1>6
    <3> QED
      BY <3>1
  <2> QED
    BY <2>1
<1> HIDE DEF at2, nr2
<1>11. at2[0] = 0 /\ at2[m] = Len(c) /\ nr2[0] = Len(e) /\ nr2[m] = Len(d)
  <2>1. at2[0] = at[1] - Len(k) /\ nr2[0] = nr[1] /\ at2[m] = at[n] - Len(k) /\ nr2[m] = nr[n]
    BY <1>4, <1>9
  <2> QED
    BY <1>1, <1>2, <1>5, <1>7, <1>8, <2>1
<1>12. \A i \in 0 .. m : \A j \in 0 .. i : at2[j] <= at2[i] /\ nr2[j] <= nr2[i]
  <2> TAKE i \in 0 .. m
  <2> TAKE j \in 0 .. i
  <2>1. j \in 0 .. m /\ j + 1 \in 0 .. i + 1 /\ i + 1 \in 0 .. n /\ j + 1 \in 0 .. n
    BY <1>4
  <2>2. /\ at[j + 1] <= at[i + 1] /\ nr[j + 1] <= nr[i + 1]
        /\ at[j + 1] \in Nat /\ at[i + 1] \in Nat
    BY <1>5, <1>6, <2>1
  <2>3. /\ at2[i] = at[i + 1] - Len(k) /\ at2[j] = at[j + 1] - Len(k)
        /\ nr2[i] = nr[i + 1] /\ nr2[j] = nr[j + 1]
    BY <1>9, <2>1
  <2> QED
    BY <1>2, <2>2, <2>3
<1>13. ASSUME NEW i \in 1 .. m
       PROVE  /\ at2[i] = at2[i - 1] + Len(fewer[i])
              /\ \A j \in 1 .. Len(fewer[i]) : c[at2[i - 1] + j] = fewer[i][j]
              /\ Effective(fewer[i]) => nr2[i] = nr2[i - 1] + 1 /\ d[nr2[i]] = fewer[i]
              /\ ~Effective(fewer[i]) => nr2[i] = nr2[i - 1]
  <2> DEFINE f == fewer[i]
  <2>1. /\ f = sent[i + 1] /\ i + 1 \in 1 .. n /\ f \in Key /\ Len(f) \in Nat
        /\ i - 1 \in 0 .. m /\ i \in 0 .. m /\ (i - 1) + 1 = i /\ (i + 1) - 1 = i
    BY <1>1, <1>3, <1>4, KeyType
  <2>2. /\ at2[i] = at[i + 1] - Len(k) /\ at2[i - 1] = at[i] - Len(k)
        /\ nr2[i] = nr[i + 1] /\ nr2[i - 1] = nr[i]
    BY <1>9, <2>1
  <2>3. /\ at[i + 1] = at[i] + Len(f)
        /\ \A j \in 1 .. Len(f) : b[at[i] + j] = f[j]
        /\ Effective(f) => nr[i + 1] = nr[i] + 1 /\ d[nr[i + 1]] = f
        /\ ~Effective(f) => nr[i + 1] = nr[i]
    BY <1>5, <2>1
  <2> HIDE DEF f
  <2>4. /\ at[i] \in Nat /\ at[i + 1] \in Nat /\ at[i] >= Len(k) /\ at[i + 1] <= Len(b)
    <3>1. i \in 0 .. n /\ i + 1 \in 0 .. n /\ 1 \in 0 .. i /\ i + 1 \in 0 .. n /\ n \in 0 .. n
          /\ i + 1 \in 0 .. n
      BY <1>1, <1>4
    <3> QED
      BY <1>5, <1>6, <1>7, <3>1
  <2>5. ASSUME NEW j \in 1 .. Len(f) PROVE c[at2[i - 1] + j] = f[j]
    <3>1. /\ (at[i] - Len(k)) + j \in 1 .. Len(b) - Len(k)
          /\ Len(k) + ((at[i] - Len(k)) + j) = at[i] + j
      <4>1. Len(k) \in Nat /\ Len(b) \in Nat /\ Len(f) \in Nat /\ at[i] \in Nat
        BY <1>1, <1>2, <2>1, <2>3, <2>4, Zenon
      <4>2. at[i] >= Len(k) /\ at[i] + Len(f) <= Len(b)
        BY <1>1, <1>2, <2>1, <2>3, <2>4, Zenon
      <4> DEFINE x == at[i] p == Len(k) q == Len(f) z == Len(b)
      <4>3. /\ x \in Nat /\ p \in Nat /\ q \in Nat /\ z \in Nat
            /\ x >= p /\ x + q <= z /\ j \in 1 .. q
        BY <4>1, <4>2
      <4> HIDE DEF x, p, q, z
      <4>4. (x - p) + j \in 1 .. z - p /\ p + ((x - p) + j) = x + j
        BY <4>3
      <4> QED
        BY <4>4 DEF x, p, q, z
    <3>2. Len(c) = Len(b) - Len(k)
      OBVIOUS
    <3>3. at2[i - 1] + j \in 1 .. Len(c) /\ Len(k) + (at2[i - 1] + j) = at[i] + j
      BY <2>2, <3>1, <3>2, Zenon
    <3>4. c[at2[i - 1] + j] = b[Len(k) + (at2[i - 1] + j)]
      BY <3>3
    <3> QED
      BY <2>3, <3>3, <3>4
  <2>6. at2[i] = at2[i - 1] + Len(f)
    <3>1. \A x, p, q \in Nat : (x + q) - p = (x - p) + q
      OBVIOUS
    <3>2. (at[i] + Len(f)) - Len(k) = (at[i] - Len(k)) + Len(f)
      BY <1>2, <2>1, <2>4, <3>1
    <3> QED
      BY <2>2, <2>3, <3>2, Zenon
  <2> QED
    BY <2>2, <2>3, <2>5, <2>6, Zenon DEF f
<1>14. Flow(c, e, d, fewer, at2, nr2)
  BY <1>3, <1>8, <1>10, <1>11, <1>12, <1>13, Zenon DEF Flow
<1> QED
  BY <1>14, Zenon DEF e, fewer

\* Bytes and keys run out together.
Ends(b, a, d, sent) ==
  /\ IsPrefix(a, d)
  /\ sent = <<>> => b = <<>> /\ a = d
  /\ sent # <<>> =>
       /\ sent[1] \in Key /\ sent[Len(sent)] \in Key /\ Len(sent) \in Nat \ {0}
       /\ Len(sent[1]) <= Len(b) /\ Len(sent[Len(sent)]) <= Len(b)
       /\ Len(sent) > 1 => Len(sent[1]) + Len(sent[Len(sent)]) <= Len(b)
       /\ Len(sent) = 1 => Len(b) = Len(sent[1])
       /\ \A j \in 1 .. Len(sent[1]) : b[j] = sent[1][j]
       /\ Len(sent) = 1 /\ ~Effective(sent[1]) => a = d

LEMMA FlowEnd ==
  ASSUME NEW b \in Seq(Byte), NEW a \in Seq(Seq(Byte)), NEW d \in Seq(Seq(Byte)),
         NEW sent, NEW at, NEW nr, Flow(b, a, d, sent, at, nr)
  PROVE  Ends(b, a, d, sent)
<1> DEFINE n == Len(sent)
<1>1. /\ sent \in Seq(Key) /\ n \in Nat /\ Len(a) \in Nat /\ Len(b) \in Nat /\ Len(d) \in Nat
  BY LenProperties DEF Flow
<1>2. /\ at \in [0 .. n -> Nat] /\ at[0] = 0 /\ at[n] = Len(b)
      /\ nr \in [0 .. n -> Nat] /\ nr[0] = Len(a) /\ nr[n] = Len(d)
      /\ \A i \in 0 .. n : \A j \in 0 .. i : at[j] <= at[i] /\ nr[j] <= nr[i]
      /\ \A i \in 1 .. n :
           /\ at[i] = at[i - 1] + Len(sent[i])
           /\ \A j \in 1 .. Len(sent[i]) : b[at[i - 1] + j] = sent[i][j]
           /\ ~Effective(sent[i]) => nr[i] = nr[i - 1]
      /\ \A i \in 1 .. Len(a) : d[i] = a[i]
  BY Zenon DEF Flow
<1> HIDE DEF n
<1>3. Len(a) <= Len(d)
  <2>1. n \in 0 .. n /\ 0 \in 0 .. n
    BY <1>1
  <2> QED
    BY <1>2, <2>1
<1>4. ASSUME Len(a) = Len(d) PROVE a = d
  <2>1. \A i \in 1 .. Len(a) : a[i] = d[i]
    BY <1>2, Zenon
  <2> QED
    BY <1>4, <2>1, SeqEqual
<1>5. IsPrefix(a, d)
  <2>1. SubSeq(a, 1, Len(a)) = a
    BY SubSeqFull
  <2>2. SubSeq(d, 1, Len(a)) \in Seq(Seq(Byte)) /\ Len(SubSeq(d, 1, Len(a))) = Len(a)
        /\ \A i \in 1 .. Len(a) : SubSeq(d, 1, Len(a))[i] = d[i]
    BY <1>1, <1>3, SubSeqProperties
  <2>3. SubSeq(d, 1, Len(a)) = a
    BY <1>2, <2>2, SeqEqual
  <2> QED
    BY <1>3, <2>1, <2>3 DEF IsPrefix
<1>6. ASSUME sent = <<>> PROVE b = <<>> /\ a = d
  <2>1. n = 0
    BY <1>6 DEF n
  <2>2. Len(b) = 0 /\ Len(a) = Len(d)
    BY <1>2, <2>1
  <2> QED
    BY <1>4, <2>2, EmptySeq
<1>7. ASSUME sent # <<>>
      PROVE  /\ sent[1] \in Key /\ sent[n] \in Key /\ n \in Nat \ {0}
             /\ Len(sent[1]) <= Len(b) /\ Len(sent[n]) <= Len(b)
             /\ n > 1 => Len(sent[1]) + Len(sent[n]) <= Len(b)
             /\ n = 1 => Len(b) = Len(sent[1])
             /\ \A j \in 1 .. Len(sent[1]) : b[j] = sent[1][j]
             /\ n = 1 /\ ~Effective(sent[1]) => a = d
  <2>1. n > 0
    BY <1>1, <1>7, EmptySeq DEF n
  <2>2. /\ 1 \in 1 .. n /\ n \in 1 .. n /\ 1 \in 0 .. n /\ n \in 0 .. n /\ 0 \in 0 .. n
        /\ n - 1 \in 0 .. n /\ 1 - 1 = 0 /\ 1 \in 0 .. n
        /\ n > 1 => 1 \in 0 .. n - 1
    BY <1>1, <2>1
  <2>3. /\ sent[1] \in Key /\ sent[n] \in Key /\ Len(sent[1]) \in Nat /\ Len(sent[n]) \in Nat
    BY <1>1, <2>2, ElementOfSeq, KeyType DEF n
  <2>4. at[1] = Len(sent[1]) /\ at[n] = at[n - 1] + Len(sent[n])
    <3>1. at[1] = at[1 - 1] + Len(sent[1])
      BY <1>2, <2>2
    <3> QED
      BY <1>2, <2>2, <2>3, <3>1
  <2>5. at[1] \in Nat /\ at[n - 1] \in Nat /\ at[1] <= at[n] /\ (n > 1 => at[1] <= at[n - 1])
    BY <1>2, <2>2
  <2>6. \A j \in 1 .. Len(sent[1]) : b[j] = sent[1][j]
    <3> TAKE j \in 1 .. Len(sent[1])
    <3>1. b[at[1 - 1] + j] = sent[1][j]
      BY <1>2, <2>2
    <3> QED
      BY <1>2, <2>2, <3>1
  <2>7. n = 1 /\ ~Effective(sent[1]) => a = d
    <3> SUFFICES ASSUME n = 1, ~Effective(sent[1]) PROVE a = d
      OBVIOUS
    <3>1. nr[1] = nr[1 - 1]
      BY <1>2, <2>2
    <3> QED
      BY <1>2, <1>4, <2>2, <3>1
  <2>8. /\ Len(sent[1]) <= at[n] /\ Len(sent[n]) <= at[n]
        /\ n > 1 => Len(sent[1]) + Len(sent[n]) <= at[n]
    <3>1. at[n] \in Nat
      BY <1>1, <1>2
    <3>2. /\ Len(sent[1]) <= at[n] /\ Len(sent[n]) <= at[n]
          /\ at[1] <= at[n - 1] => Len(sent[1]) + Len(sent[n]) <= at[n]
      <4> DEFINE x == at[1] y == at[n - 1] z == at[n] p == Len(sent[1]) q == Len(sent[n])
      <4>1. x \in Nat /\ y \in Nat /\ z \in Nat /\ p \in Nat /\ q \in Nat
            /\ x = p /\ z = y + q /\ x <= z
        BY <2>3, <2>4, <2>5, <3>1
      <4> HIDE DEF x, y, z, p, q
      <4>2. p <= z /\ q <= z /\ (x <= y => p + q <= z)
        BY <4>1
      <4> QED
        BY <4>2 DEF x, y, z, p, q
    <3> QED
      BY <2>5, <3>2, Zenon
  <2>9. n = 1 => at[n] = Len(sent[1])
    BY <2>4, Zenon
  <2>10. n \in Nat \ {0}
    BY <1>1, <2>1
  <2> QED
    BY <1>2, <2>3, <2>6, <2>7, <2>8, <2>9, <2>10, Zenon
<1> QED
  BY <1>5, <1>6, <1>7, Zenon DEF n, Ends

-----------------------------------------------------------------------------
(* What is taken for a key                                                 *)

LEMMA PrefixIs ==
  ASSUME NEW c \in Seq(Byte), NEW k \in Seq(Byte)
  PROVE  /\ IsPrefix(k, k)
         /\ IsPrefix(c, k) /\ c # <<>> =>
              /\ Len(c) \in Nat \ {0} /\ Len(c) <= Len(k) /\ c[1] = k[1]
              /\ Len(c) = Len(k) => c = k
<1>1. Len(c) \in Nat /\ Len(k) \in Nat
  BY LenProperties
<1>2. SubSeq(c, 1, Len(c)) = c /\ SubSeq(k, 1, Len(k)) = k
  BY SubSeqFull
<1>3. IsPrefix(k, k)
  BY <1>1 DEF IsPrefix
<1>4. ASSUME IsPrefix(c, k), c # <<>>
      PROVE  /\ Len(c) \in Nat \ {0} /\ Len(c) <= Len(k) /\ c[1] = k[1]
             /\ Len(c) = Len(k) => c = k
  <2>1. Len(c) <= Len(k) /\ c = SubSeq(k, 1, Len(c))
    BY <1>2, <1>4 DEF IsPrefix
  <2>2. Len(c) \in Nat \ {0}
    BY <1>1, <1>4, EmptySeq
  <2>3. c[1] = k[1]
    <3>1. \A i \in 1 .. Len(c) : k[i] \in Byte
      BY <1>1, <2>1, ElementOfSeq
    <3>2. \A i \in 1 .. Len(c) - 1 + 1 : SubSeq(k, 1, Len(c))[i] = k[1 + i - 1]
      BY <1>1, <3>1, SubSeqProperties
    <3>3. 1 \in 1 .. Len(c) - 1 + 1 /\ 1 + 1 - 1 = 1
      BY <2>2
    <3> QED
      BY <2>1, <3>2, <3>3
  <2>4. Len(c) = Len(k) => c = k
    BY <1>2, <2>1
  <2> QED
    BY <2>1, <2>2, <2>3, <2>4
<1> QED
  BY <1>3, <1>4

\* The first byte of a key tells how long it is, but for an escape sequence.
LEMMA KeyShape ==
  ASSUME NEW k \in Key
  PROVE  /\ Extra[k[1]] \in 0 .. 3 /\ Extra[Esc] = 0
         /\ k[1] = Esc => Len(k) = 1 \/ (k \in Command /\ Len(k) < READING_SIZE)
         /\ Extra[k[1]] > 0 => k[1] # Esc /\ Len(k) = Extra[k[1]] + 1
         /\ Extra[k[1]] = 0 /\ k[1] # Esc => Len(k) = 1
<1>1. k \in Seq(Byte) /\ Len(k) \in Nat /\ Len(k) > 0 /\ k[1] \in Byte
  BY KeyType
<1>2. /\ Extra \in [Byte -> 0 .. 3] /\ \A b \in Cont \cup Control : Extra[b] = 0
      /\ Esc \in Control
  BY KeyAssumption
<1>3. Extra[k[1]] \in 0 .. 3 /\ Extra[Esc] = 0
  BY <1>1, <1>2
<1>4. Extra[k[1]] > 0 => k[1] \in High
  BY <1>1 DEF High
<1>5. CASE k \in Command
  <2>1. /\ Len(k) < READING_SIZE
        /\ Len(k) = 1 => k[1] \notin High
        /\ Len(k) > 1 => k[1] = Esc \/ Extra[k[1]] = Len(k) - 1
    BY <1>5, KeyAssumption
  <2>2. CASE Len(k) = 1
    BY <1>3, <1>4, <2>1, <2>2
  <2>3. CASE Len(k) # 1
    <3>0. Len(k) > 1
      BY <1>1, <2>3
    <3>1. k[1] = Esc \/ Extra[k[1]] = Len(k) - 1
      BY <2>1, <3>0, Zenon
    <3>2. CASE k[1] = Esc
      BY <1>3, <1>5, <2>1, <3>2
    <3>3. CASE k[1] # Esc
      <4>1. Extra[k[1]] = Len(k) - 1
        BY <3>1, <3>3, Zenon
      <4>2. Extra[k[1]] # 0 /\ Len(k) = Extra[k[1]] + 1
        <5>1. \A n \in Nat : \A x : n # 1 /\ x = n - 1 => x # 0 /\ n = x + 1
          OBVIOUS
        <5> QED
          BY <1>1, <2>3, <4>1, <5>1, Zenon
      <4> QED
        BY <1>3, <3>3, <4>2, Zenon
    <3> QED
      BY <3>2, <3>3
  <2> QED
    BY <2>2, <2>3
<1>6. CASE k \notin Command
  <2>1. \/ Len(k) = 1 /\ k[1] \notin High
        \/ Extra[k[1]] = Len(k) - 1 /\ Len(k) > 1
    BY <1>6, KeyAssumption
  <2> QED
    BY <1>1, <1>3, <1>4, <2>1
<1> QED
  BY <1>5, <1>6

\* A key that is read as a whole is acted on as it is, and leaves nothing over.
LEMMA KeyTaken ==
  ASSUME NEW k \in Key
  PROVE  /\ Taken(k) = k /\ Kept(k) = <<>>
         /\ Acts(k) <=> Effective(k)
<1>1. k \in Seq(Byte) /\ k # <<>> /\ Len(k) \in Nat /\ Len(k) > 0 /\ k[1] \in Byte
  BY KeyType
<1>2. Esc \in Control \ {EOT, Newline}
  BY KeyAssumption
<1>3. CASE k \in Command
  <2>1. /\ Len(k) = 1 => k[1] \notin (Control \ {EOT}) \cup High
        /\ \A c \in Command : IsPrefix(c, k) => c = k
    BY <1>3, KeyAssumption
  <2>2. Matching(k) = {k}
    BY <1>1, <1>3, <2>1, PrefixIs DEF Matching
  <2>3. Taken(k) = k
    BY <2>2 DEF Taken
  <2>4. Kept(k) = <<>>
    <3>1. Kept(k) = SubSeq(k, Len(k) + 1, Len(k))
      BY <2>2, <2>3 DEF Kept
    <3> QED
      BY <1>1, <3>1, SubSeqEmpty
  <2>5. ~Ignored(k)
    BY <2>1 DEF Ignored
  <2> QED
    BY <1>1, <1>3, <2>2, <2>3, <2>4, <2>5 DEF Acts, Effective
<1>4. CASE k \notin Command
  <2>1. \/ Len(k) = 1 /\ k[1] \notin High
        \/ Extra[k[1]] = Len(k) - 1 /\ Len(k) > 1
    BY <1>4, KeyAssumption
  <2>2. Matching(k) = {}
    <3> SUFFICES ASSUME NEW c \in Command, IsPrefix(c, k) PROVE FALSE
      BY DEF Matching
    <3>1. /\ c \in Seq(Byte) /\ c # <<>>
          /\ Len(c) = 1 => c[1] \notin High
          /\ Len(c) > 1 => c[1] = Esc \/ Extra[c[1]] = Len(c) - 1
      BY KeyAssumption
    <3>2. /\ Len(c) \in Nat \ {0} /\ Len(c) <= Len(k) /\ c[1] = k[1]
          /\ Len(c) = Len(k) => c = k
      BY <1>1, <3>1, PrefixIs
    <3>3. Len(c) # Len(k)
      BY <1>4, <3>2
    <3>4. Extra[k[1]] > 0 => k[1] \in High
      BY <1>1 DEF High
    <3>5. Extra[Esc] = 0
      BY KeyShape
    <3>6. CASE Len(k) = 1
      <4>1. Len(c) = Len(k)
        BY <3>2, <3>6
      <4> QED
        BY <3>3, <4>1
    <3>7. CASE Len(k) # 1
      <4>0. Extra[k[1]] = Len(k) - 1 /\ Len(k) > 1
        BY <2>1, <3>7, Zenon
      <4>1. Extra[k[1]] = Len(k) - 1 /\ Extra[k[1]] > 0
        BY <1>1, <4>0
      <4>2. c[1] \in High /\ c[1] # Esc
        BY <3>2, <3>4, <3>5, <4>1
      <4>3. Len(c) # 1
        BY <3>1, <4>2
      <4>4. Extra[c[1]] = Len(c) - 1
        <5>0. \A n \in Nat \ {0} : n # 1 => n > 1
          OBVIOUS
        <5>1. Len(c) > 1
          BY <3>2, <4>3, <5>0, Zenon
        <5> QED
          BY <3>1, <4>2, <5>1, Zenon
      <4>5. Len(c) - 1 = Len(k) - 1
        BY <3>2, <4>1, <4>4
      <4> QED
        BY <1>1, <3>2, <3>3, <4>5
    <3> QED
      BY <3>6, <3>7
  <2>3. Taken(k) = k /\ Kept(k) = <<>>
    BY <2>2 DEF Taken, Kept
  <2>4. k[1] = Esc => Ignored(k)
    <3>1. k[1] = Esc => Len(k) = 1
      BY <1>4, KeyShape
    <3> QED
      BY <1>2, <3>1 DEF Ignored
  <2> QED
    BY <1>1, <1>4, <2>2, <2>3, <2>4, Zenon DEF Acts, Effective
<1> QED
  BY <1>3, <1>4

-----------------------------------------------------------------------------
(* The queue, the letter and the trash                                     *)

LEMMA PartType ==
  ASSUME NEW s \in Seq(Byte), NEW m \in Nat \ {0}, NEW n \in Nat, n <= Len(s)
  PROVE  SubSeq(s, m, n) \in Seq(Byte)
<1>1. Len(s) \in Nat
  BY LenProperties
<1>2. \A i \in m .. n : i \in 1 .. Len(s)
  BY <1>1
<1>3. \A i \in m .. n : s[i] \in Byte
  BY <1>2, ElementOfSeq
<1> QED
  BY <1>3, SubSeqProperties

\* A read takes the first bytes and leaves the others.
LEMMA TookLeft ==
  ASSUME queue \in Seq(Byte), NEW n \in Nat
  PROVE  /\ Took(n) \in Seq(Byte) /\ Left(n) \in Seq(Byte)
         /\ Len(Took(n)) = IF n < Len(queue) THEN n ELSE Len(queue)
         /\ Len(Left(n)) = IF n < Len(queue) THEN Len(queue) - n ELSE 0
         /\ \A i \in 1 .. Len(Took(n)) : Took(n)[i] = queue[i]
         /\ \A i \in 1 .. Len(Left(n)) : Left(n)[i] = queue[n + i]
<1> DEFINE q == Len(queue)
           m == IF n < q THEN n ELSE q
<1>1. q \in Nat /\ m \in Nat /\ m <= q
  BY LenProperties
<1> HIDE DEF q, m
<1>2. Took(n) = SubSeq(queue, 1, m) /\ Left(n) = SubSeq(queue, n + 1, q)
  BY DEF Took, Left, m, q
<1>3. Took(n) \in Seq(Byte) /\ Left(n) \in Seq(Byte)
  <2>1. n + 1 \in Nat \ {0} /\ 1 \in Nat \ {0} /\ q <= q
    BY <1>1
  <2> QED
    BY <1>1, <1>2, <2>1, PartType DEF q
<1>4. Len(Took(n)) = m /\ \A i \in 1 .. m : Took(n)[i] = queue[i]
  <2>1. \A i \in 1 .. m : queue[i] \in Byte
    <3>1. \A i \in 1 .. m : i \in 1 .. Len(queue)
      BY <1>1 DEF q
    <3> QED
      BY <3>1, ElementOfSeq
  <2>2. /\ Len(SubSeq(queue, 1, m)) = IF 1 <= m THEN m - 1 + 1 ELSE 0
        /\ \A i \in 1 .. m - 1 + 1 : SubSeq(queue, 1, m)[i] = queue[1 + i - 1]
    BY <1>1, <2>1, SubSeqProperties
  <2>3. (IF 1 <= m THEN m - 1 + 1 ELSE 0) = m /\ m - 1 + 1 = m /\ \A i \in 1 .. m : 1 + i - 1 = i
    BY <1>1
  <2> QED
    BY <1>2, <2>2, <2>3
<1>5. /\ Len(Left(n)) = IF n < q THEN q - n ELSE 0
      /\ \A i \in 1 .. Len(Left(n)) : Left(n)[i] = queue[n + i]
  <2>1. \A i \in n + 1 .. q : queue[i] \in Byte
    <3>1. \A i \in n + 1 .. q : i \in 1 .. Len(queue)
      BY <1>1 DEF q
    <3> QED
      BY <3>1, ElementOfSeq
  <2>2. /\ Len(SubSeq(queue, n + 1, q)) = IF n + 1 <= q THEN q - (n + 1) + 1 ELSE 0
        /\ \A i \in 1 .. q - (n + 1) + 1 : SubSeq(queue, n + 1, q)[i] = queue[n + 1 + i - 1]
    BY <1>1, <2>1, SubSeqProperties
  <2>3. (IF n + 1 <= q THEN q - (n + 1) + 1 ELSE 0) = IF n < q THEN q - n ELSE 0
    BY <1>1
  <2>4. \A i \in 1 .. (IF n < q THEN q - n ELSE 0) :
          i \in 1 .. q - (n + 1) + 1 /\ n + 1 + i - 1 = n + i
    BY <1>1
  <2> QED
    BY <1>2, <2>2, <2>3, <2>4
<1> QED
  BY <1>3, <1>4, <1>5 DEF m, q

LEMMA ActType ==
  ASSUME NEW l \in Seq(Byte), acted \in Seq(Seq(Byte)), ActOn(l)
  PROVE  /\ acted' \in Seq(Seq(Byte)) /\ trash' \in Seq(Byte)
         /\ letter' = <<>> /\ pc' \in {"between", "read"}
<1>1. Taken(l) \in Seq(Byte) /\ (Matching(l) # {} => Taken(l) # <<>>)
  BY KeyAssumption DEF Taken, Matching
<1>2. acted' \in Seq(Seq(Byte))
  BY <1>1, AppendProperties DEF ActOn
<1>3. Kept(l) \in Seq(Byte)
  <2>1. Len(Taken(l)) + 1 \in Nat \ {0} /\ Len(l) \in Nat /\ Len(l) <= Len(l)
    BY <1>1, LenProperties
  <2>2. SubSeq(l, Len(Taken(l)) + 1, Len(l)) \in Seq(Byte)
    BY <2>1, PartType
  <2> QED
    BY <2>2, EmptySeq DEF Kept
<1> QED
  BY <1>2, <1>3, Acting DEF ActOn

ReaderTypes ==
  /\ letter \in Seq(Byte) /\ trash \in Seq(Byte)
  /\ queue \in Seq(Byte) /\ wire \in Seq(Byte)
  /\ acted \in Seq(Seq(Byte)) /\ delivered \in Seq(Seq(Byte))
  /\ asked \in Nat /\ disturbed \in BOOLEAN
  /\ pc \in {"between", "read", "rest"} \cup Asking
  /\ from \in {"prep", "reading"}
  /\ pc = "read" => letter = <<>>
  /\ pc = "rest" => Len(letter) = 1
  /\ pc \in Asking /\ from = "prep" => letter = <<>>

LEMMA InitReader == Init => ReaderTypes
<1> SUFFICES ASSUME Init PROVE ReaderTypes
  OBVIOUS
<1>1. /\ pc = "between" /\ from = "prep" /\ queue = <<>> /\ wire = <<>> /\ letter = <<>>
      /\ trash = <<>> /\ asked = 0 /\ delivered = <<>> /\ acted = <<>>
  BY DEF Init
<1>2. disturbed \in BOOLEAN
  BY Zenon DEF Init
<1>3. <<>> \in Seq(Byte) /\ <<>> \in Seq(Seq(Byte))
  BY EmptySeq
<1> QED
  BY <1>1, <1>2, <1>3 DEF ReaderTypes, Asking

\* A key, in one piece or in two.
LEMMA PressType ==
  ASSUME ReaderTypes, NEW k \in Key, Press(k)
  PROVE  ReaderTypes'
<1>1. k \in Seq(Byte) /\ Len(k) \in Nat
  BY KeyType
<1>2. PICK n \in 1 .. Len(k) : queue' = queue \o SubSeq(k, 1, n) /\ wire' = SubSeq(k, n + 1, Len(k))
  BY DEF Press
<1>3. queue' \in Seq(Byte) /\ wire' \in Seq(Byte)
  <2>1. n \in Nat /\ n <= Len(k) /\ n + 1 \in Nat \ {0} /\ 1 \in Nat \ {0} /\ Len(k) <= Len(k)
    BY <1>1
  <2>2. SubSeq(k, 1, n) \in Seq(Byte) /\ SubSeq(k, n + 1, Len(k)) \in Seq(Byte)
    BY <1>1, <2>1, PartType
  <2> QED
    BY <1>2, <2>2, ConcatProperties DEF ReaderTypes
<1>4. delivered' \in Seq(Seq(Byte)) /\ acted' \in Seq(Seq(Byte))
  <2>1. <<>> \in Seq(Seq(Byte)) /\ <<k>> \in Seq(Seq(Byte))
    BY <1>1
  <2>2. \A s, t \in Seq(Seq(Byte)) : s \o t \in Seq(Seq(Byte))
    BY ConcatProperties
  <2> DEFINE old == IF disturbed /\ Calm THEN <<>> ELSE delivered
             new == IF Effective(k) THEN <<k>> ELSE <<>>
  <2>3. old \in Seq(Seq(Byte)) /\ new \in Seq(Seq(Byte))
    BY <2>1 DEF ReaderTypes
  <2>4. delivered' = old \o new /\ acted' = IF disturbed /\ Calm THEN <<>> ELSE acted
    BY Zenon DEF Press
  <2> HIDE DEF old, new
  <2> QED
    BY <2>1, <2>2, <2>3, <2>4 DEF ReaderTypes
<1>5. disturbed' \in BOOLEAN
  BY Zenon DEF Press
<1>6. UNCHANGED <<letter, trash, asked, pc, from>>
  BY DEF Press
<1> QED
  BY <1>3, <1>4, <1>5, <1>6 DEF ReaderTypes

\* The read of a key fails, and the shell asks for the cursor or gives up.
LEMMA FailsType ==
  ASSUME ReaderTypes, ReadFails, pc' = "between" \/ (pc' = "query" /\ from' = "reading"),
         UNCHANGED <<queue, wire, delivered, acted>>, asked' \in Nat,
         from' \in {"prep", "reading"}
  PROVE  ReaderTypes'
<1>1. letter' \in Seq(Byte) /\ trash' \in Seq(Byte)
  BY EmptySeq DEF ReadFails, ReaderTypes
<1>2. disturbed' \in BOOLEAN
  BY Zenon DEF ReadFails
<1> QED
  BY <1>1, <1>2 DEF ReaderTypes, Asking

\* The question is over.
LEMMA GoOnType ==
  ASSUME ReaderTypes, pc \in Asking, NEW flag, GoOn(flag), queue' \in Seq(Byte),
         UNCHANGED <<wire, delivered, asked, from>>, disturbed' \in BOOLEAN
  PROVE  ReaderTypes'
<1>1. CASE from = "prep"
  BY <1>1 DEF GoOn, ReaderTypes, Asking
<1>2. CASE from = "reading"
  <2>1. ActOn(letter)
    BY <1>2 DEF GoOn
  <2>2. /\ acted' \in Seq(Seq(Byte)) /\ trash' \in Seq(Byte)
        /\ letter' = <<>> /\ pc' \in {"between", "read"} /\ letter' \in Seq(Byte)
    BY <2>1, ActType, EmptySeq DEF ReaderTypes
  <2> QED
    BY <2>2 DEF ReaderTypes, Asking
<1> QED
  BY <1>1, <1>2 DEF GoOn

LEMMA NextReader == ReaderTypes /\ [Next]_vars => ReaderTypes'
<1> SUFFICES ASSUME ReaderTypes, [Next]_vars PROVE ReaderTypes'
  OBVIOUS
<1> USE DEF user, screen, typing
<1>1. CASE ReadFirst
  <2>1. queue # <<>> /\ queue' = Tail(queue) /\ UNCHANGED <<from, disturbed, wire, delivered, asked>>
    BY <1>1 DEF ReadFirst
  <2>2. queue' \in Seq(Byte) /\ Head(queue) \in Byte
    BY <2>1, HeadTailProperties DEF ReaderTypes
  <2>3. <<Head(queue)>> \in Seq(Byte) /\ Len(<<Head(queue)>>) = 1
    BY <2>2
  <2>4. CASE Wanted(Head(queue)) > 0
    <3>1. letter' = <<Head(queue)>> /\ pc' = "rest" /\ UNCHANGED <<trash, acted>>
      BY <1>1, <2>4 DEF ReadFirst
    <3> QED
      BY <2>1, <2>2, <2>3, <3>1 DEF ReaderTypes, Asking
  <2>5. CASE ~(Wanted(Head(queue)) > 0)
    <3>1. ActOn(<<Head(queue)>>)
      BY <1>1, <2>5 DEF ReadFirst
    <3>2. /\ acted' \in Seq(Seq(Byte)) /\ trash' \in Seq(Byte)
          /\ letter' = <<>> /\ pc' \in {"between", "read"} /\ letter' \in Seq(Byte)
      BY <2>3, <3>1, ActType, EmptySeq DEF ReaderTypes
    <3> QED
      BY <2>1, <2>2, <3>2 DEF ReaderTypes, Asking
  <2> QED
    BY <2>4, <2>5
<1>2. CASE ReadRest
  <2> DEFINE n == Wanted(letter[1])
  <2>1. /\ pc = "rest" /\ ActOn(letter \o Took(n)) /\ queue' = Left(n)
        /\ UNCHANGED <<from, disturbed, wire, delivered, asked>>
    BY <1>2 DEF ReadRest
  <2>2. n \in Nat
    <3>1. letter \in Seq(Byte) /\ Len(letter) = 1
      BY <2>1, Zenon DEF ReaderTypes
    <3>2. letter[1] \in Byte
      <4>1. 1 \in 1 .. 1
        OBVIOUS
      <4> QED
        BY <3>1, <4>1, ElementOfSeq
    <3> QED
      BY <3>2, KeyAssumption DEF Wanted
  <2> HIDE DEF n
  <2>3. letter \o Took(n) \in Seq(Byte) /\ queue' \in Seq(Byte)
    BY <2>1, <2>2, TookLeft, ConcatProperties DEF ReaderTypes
  <2>4. /\ acted' \in Seq(Seq(Byte)) /\ trash' \in Seq(Byte)
        /\ letter' = <<>> /\ pc' \in {"between", "read"} /\ letter' \in Seq(Byte)
    BY <2>1, <2>3, ActType, EmptySeq DEF ReaderTypes
  <2> QED
    BY <2>1, <2>3, <2>4 DEF ReaderTypes, Asking
<1>3. CASE ReadOver
  <2> DEFINE got == Took(READING_SIZE)
             rest == SubSeq(trash, Len(got) + 1, Len(trash))
  <2>1. /\ ActOn(got \o rest) /\ queue' = Left(READING_SIZE)
        /\ UNCHANGED <<from, disturbed, wire, delivered, asked>>
    BY <1>3 DEF ReadOver
  <2>2. got \in Seq(Byte) /\ queue' \in Seq(Byte)
    BY <2>1, KeyAssumption, TookLeft DEF ReaderTypes
  <2> HIDE DEF got
  <2>3. rest \in Seq(Byte)
    <3>1. trash \in Seq(Byte)
      BY DEF ReaderTypes
    <3>2. Len(got) + 1 \in Nat \ {0} /\ Len(trash) \in Nat /\ Len(trash) <= Len(trash)
      BY <2>2, <3>1, LenProperties
    <3> QED
      BY <3>1, <3>2, PartType
  <2> HIDE DEF rest
  <2>4. got \o rest \in Seq(Byte)
    BY <2>2, <2>3, ConcatProperties
  <2>5. /\ acted' \in Seq(Seq(Byte)) /\ trash' \in Seq(Byte)
        /\ letter' = <<>> /\ pc' \in {"between", "read"} /\ letter' \in Seq(Byte)
    BY <2>1, <2>4, ActType, EmptySeq DEF ReaderTypes
  <2> QED
    BY <2>1, <2>2, <2>5 DEF ReaderTypes, Asking
<1>4. CASE Skip
  <2>1. queue # <<>> /\ queue' = Tail(queue) /\ pc' \in Asking /\ pc \in Asking
        /\ UNCHANGED <<from, letter, trash, acted, disturbed, wire, delivered, asked>>
    BY <1>4 DEF Skip, Asking
  <2>2. queue' \in Seq(Byte)
    BY <2>1, HeadTailProperties DEF ReaderTypes
  <2> QED
    BY <2>1, <2>2 DEF ReaderTypes, Asking
<1>5. CASE Position
  <2>1. /\ pc \in Asking /\ GoOn(g_sigwinch) /\ queue' = Left(AnswerSize)
        /\ UNCHANGED <<from, disturbed, wire, delivered, asked>>
    BY <1>5 DEF Position, Asking
  <2>2. AnswerSize \in Nat
    BY DEF AnswerSize
  <2>3. queue' \in Seq(Byte) /\ disturbed' \in BOOLEAN
    BY <2>1, <2>2, TookLeft DEF ReaderTypes
  <2> QED
    BY <2>1, <2>3, GoOnType
<1>6. CASE Prompt
  <2>1. /\ pc' = "query" /\ from' = "prep" /\ asked' = asked + 1
        /\ letter' = <<>> /\ trash' = <<>> /\ delivered' = <<>> /\ acted' = <<>>
        /\ UNCHANGED <<queue, wire>>
    BY <1>6 DEF Prompt, Ask, NewEditor
  <2>2. disturbed' \in BOOLEAN
    BY <1>6, Zenon DEF Prompt, Pursued
  <2>3. <<>> \in Seq(Byte) /\ <<>> \in Seq(Seq(Byte))
    BY EmptySeq
  <2> QED
    BY <2>1, <2>2, <2>3 DEF ReaderTypes, Asking
<1>7. CASE \E k \in Key : Press(k)
  BY <1>7, PressType
<1>8. CASE Rest
  <2>1. /\ queue' = queue \o wire /\ wire' = <<>>
        /\ UNCHANGED <<pc, from, letter, trash, acted, disturbed, delivered, asked>>
    BY <1>8 DEF Rest
  <2>2. queue' \in Seq(Byte) /\ wire' \in Seq(Byte)
    BY <2>1, ConcatProperties, EmptySeq DEF ReaderTypes
  <2> QED
    BY <2>1, <2>2 DEF ReaderTypes
<1>9. CASE Answered
  <2>1. /\ asked > 0 /\ asked' = asked - 1 /\ queue' = queue \o Reply
        /\ UNCHANGED <<pc, from, letter, trash, acted, disturbed, delivered, wire>>
    BY <1>9 DEF Answered
  <2>2. queue' \in Seq(Byte)
    BY <2>1, KeyAssumption, ConcatProperties DEF ReaderTypes
  <2> QED
    BY <2>1, <2>2 DEF ReaderTypes
<1>10. CASE WindowChange \/ CtrlCForResize
  <2>1. /\ ReadFails /\ pc' = "query" /\ from' = "reading" /\ asked' = asked + 1
        /\ UNCHANGED <<queue, wire, delivered, acted>>
    BY <1>10 DEF WindowChange, CtrlCForResize, Ask
  <2> QED
    BY <2>1, FailsType DEF ReaderTypes
<1>11. CASE CtrlC
  <2>1. ReadFails /\ pc' = "between" /\ UNCHANGED <<queue, wire, delivered, acted, from, asked>>
    BY <1>11 DEF CtrlC
  <2> QED
    BY <2>1, FailsType DEF ReaderTypes
<1>12. CASE WindowChangeUnseen \/ UNCHANGED vars
  <2>1. UNCHANGED <<pc, from, queue, letter, trash, acted, disturbed, wire, delivered, asked>>
    BY <1>12 DEF WindowChangeUnseen, vars
  <2> QED
    BY <2>1 DEF ReaderTypes
<1>13. CASE CrossFirst
  <2>1. /\ pc \in Asking /\ pc' = "answer"
        /\ UNCHANGED <<from, queue, letter, trash, acted, disturbed, wire, delivered, asked>>
    BY <1>13 DEF CrossFirst, Cross
  <2> QED
    BY <2>1 DEF ReaderTypes, Asking
<1>14. CASE CrossSecond
  <2>1. PICK flag \in BOOLEAN : Cross(flag) /\ GoOn(flag)
    BY <1>14 DEF CrossSecond
  <2>2. pc \in Asking /\ UNCHANGED <<from, queue, wire, delivered, asked>> /\ disturbed' = TRUE
    BY <1>14, <2>1 DEF CrossSecond, Cross
  <2> QED
    BY <2>1, <2>2, GoOnType DEF ReaderTypes
<1> QED
  BY <1>1, <1>2, <1>3, <1>4, <1>5, <1>6, <1>7, <1>8, <1>9, <1>10, <1>11, <1>12, <1>13, <1>14
  DEF Next, Reader, User, Signal

-----------------------------------------------------------------------------
(* Bytes read, in the queue and on the wire                                *)

LEMMA Joined ==
  ASSUME NEW l \in Seq(Byte), NEW q \in Seq(Byte), NEW w \in Seq(Byte)
  PROVE  /\ l \o q \o w \in Seq(Byte)
         /\ Len(l) \in Nat /\ Len(q) \in Nat /\ Len(w) \in Nat
         /\ Len(l \o q \o w) = Len(l) + Len(q) + Len(w)
         /\ \A i \in 1 .. Len(l) : (l \o q \o w)[i] = l[i]
         /\ \A i \in 1 .. Len(q) : (l \o q \o w)[Len(l) + i] = q[i]
         /\ \A i \in 1 .. Len(w) : (l \o q \o w)[Len(l) + Len(q) + i] = w[i]
<1> DEFINE x == Len(l)
           y == Len(q)
           z == Len(w)
           h == l \o q
           b == h \o w
<1>1. x \in Nat /\ y \in Nat /\ z \in Nat
  BY LenProperties
<1>2. h \in Seq(Byte) /\ Len(h) = x + y
      /\ \A i \in 1 .. x + y : h[i] = IF i <= x THEN l[i] ELSE q[i - x]
  BY ConcatProperties
<1> HIDE DEF h
<1>3. b \in Seq(Byte) /\ Len(b) = x + y + z
      /\ \A i \in 1 .. x + y + z : b[i] = IF i <= x + y THEN h[i] ELSE w[i - (x + y)]
  <2>1. \A s, t \in Seq(Byte) :
          /\ s \o t \in Seq(Byte) /\ Len(s \o t) = Len(s) + Len(t)
          /\ \A i \in 1 .. Len(s) + Len(t) :
               (s \o t)[i] = IF i <= Len(s) THEN s[i] ELSE t[i - Len(s)]
    BY ConcatProperties
  <2>2. /\ b \in Seq(Byte) /\ Len(b) = Len(h) + z
        /\ \A i \in 1 .. Len(h) + z : b[i] = IF i <= Len(h) THEN h[i] ELSE w[i - Len(h)]
    BY <1>2, <2>1, Zenon
  <2> QED
    BY <1>2, <2>2, Zenon
<1> HIDE DEF b, x, y, z
<1>4. \A i \in 1 .. x : b[i] = l[i]
  <2> TAKE i \in 1 .. x
  <2>1. i \in 1 .. x + y + z /\ i \in 1 .. x + y /\ i <= x + y /\ i <= x
    BY <1>1
  <2> QED
    BY <1>2, <1>3, <2>1, Zenon
<1>5. \A i \in 1 .. y : b[x + i] = q[i]
  <2> TAKE i \in 1 .. y
  <2>1. /\ x + i \in 1 .. x + y + z /\ x + i \in 1 .. x + y /\ x + i <= x + y
        /\ ~(x + i <= x) /\ (x + i) - x = i
    BY <1>1
  <2> QED
    BY <1>2, <1>3, <2>1, Zenon
<1>6. \A i \in 1 .. z : b[x + y + i] = w[i]
  <2> TAKE i \in 1 .. z
  <2>1. /\ x + y + i \in 1 .. x + y + z /\ ~(x + y + i <= x + y)
        /\ (x + y + i) - (x + y) = i
    BY <1>1
  <2> QED
    BY <1>3, <2>1, Zenon
<1> QED
  BY <1>1, <1>3, <1>4, <1>5, <1>6 DEF b, h, x, y, z

\* What is on its way to the reader, from what it holds of a letter.
Bytes == letter \o queue \o wire

LEMMA BytesNow ==
  ASSUME ReaderTypes
  PROVE  /\ Bytes \in Seq(Byte)
         /\ Len(letter) \in Nat /\ Len(queue) \in Nat /\ Len(wire) \in Nat
         /\ Len(Bytes) = Len(letter) + Len(queue) + Len(wire)
         /\ \A i \in 1 .. Len(letter) : Bytes[i] = letter[i]
         /\ \A i \in 1 .. Len(queue) : Bytes[Len(letter) + i] = queue[i]
         /\ \A i \in 1 .. Len(wire) : Bytes[Len(letter) + Len(queue) + i] = wire[i]
<1>1. letter \in Seq(Byte) /\ queue \in Seq(Byte) /\ wire \in Seq(Byte)
  BY DEF ReaderTypes
<1> QED
  BY <1>1, Joined DEF Bytes

LEMMA BytesAfter ==
  ASSUME ReaderTypes', letter' = <<>>
  PROVE  /\ Bytes' \in Seq(Byte)
         /\ Len(queue') \in Nat /\ Len(wire') \in Nat
         /\ Len(Bytes') = Len(queue') + Len(wire')
         /\ \A i \in 1 .. Len(queue') : Bytes'[i] = queue'[i]
         /\ \A i \in 1 .. Len(wire') : Bytes'[Len(queue') + i] = wire'[i]
<1>1. letter' \in Seq(Byte) /\ queue' \in Seq(Byte) /\ wire' \in Seq(Byte)
  BY DEF ReaderTypes
<1>2. Len(letter') = 0
  BY EmptySeq
<1>3. /\ Bytes' \in Seq(Byte)
      /\ Len(queue') \in Nat /\ Len(wire') \in Nat
      /\ Len(Bytes') = Len(letter') + Len(queue') + Len(wire')
      /\ \A i \in 1 .. Len(queue') : Bytes'[Len(letter') + i] = queue'[i]
      /\ \A i \in 1 .. Len(wire') : Bytes'[Len(letter') + Len(queue') + i] = wire'[i]
  <2>1. Bytes' = letter' \o queue' \o wire'
    BY DEF Bytes
  <2> QED
    BY <1>1, <2>1, Joined
<1>4. \A x \in Nat : 0 + x = x
  OBVIOUS
<1>5. /\ \A i \in 1 .. Len(queue') : 0 + i = i
      /\ \A i \in 1 .. Len(wire') : 0 + Len(queue') + i = Len(queue') + i
  BY <1>3
<1> QED
  BY <1>2, <1>3, <1>4, <1>5, Zenon

\* What is left when the letter and the first n bytes of the queue are gone.
LEMMA Behind ==
  ASSUME ReaderTypes, ReaderTypes', letter' = <<>>, UNCHANGED wire,
         NEW n \in Nat, n <= Len(queue), Len(queue') = Len(queue) - n,
         \A i \in 1 .. Len(queue') : queue'[i] = queue[n + i]
  PROVE  /\ Len(Bytes') = Len(Bytes) - (Len(letter) + n)
         /\ \A i \in 1 .. Len(Bytes') : Bytes'[i] = Bytes[Len(letter) + n + i]
<1> DEFINE x == Len(letter)
           y == Len(queue)
           z == Len(wire)
           u == Len(queue')
           b == Bytes
           c == Bytes'
<1>1. /\ x \in Nat /\ y \in Nat /\ z \in Nat /\ Len(b) = x + y + z
      /\ \A i \in 1 .. y : b[x + i] = queue[i]
      /\ \A i \in 1 .. z : b[x + y + i] = wire[i]
  BY BytesNow
<1>2. /\ u \in Nat /\ Len(c) = u + z
      /\ \A i \in 1 .. u : c[i] = queue'[i]
      /\ \A i \in 1 .. z : c[u + i] = wire[i]
  BY BytesAfter
<1>3. n <= y /\ u = y - n /\ \A i \in 1 .. u : queue'[i] = queue[n + i]
  OBVIOUS
<1> HIDE DEF b, c, x, y, z, u
<1>4. x \in Nat /\ y \in Nat /\ z \in Nat /\ u \in Nat /\ n <= y /\ u = y - n
  BY <1>1, <1>2, <1>3, Zenon
<1>6. \A i \in 1 .. u + z : c[i] = b[x + n + i]
  <2> TAKE i \in 1 .. u + z
  <2>1. CASE i <= u
    <3>1. i \in 1 .. u /\ n + i \in 1 .. y /\ x + (n + i) = x + n + i
      BY <1>4, <2>1
    <3>2. c[i] = queue[n + i]
      BY <1>2, <1>3, <3>1, Zenon
    <3>3. b[x + (n + i)] = queue[n + i]
      BY <1>1, <3>1, Zenon
    <3> QED
      BY <3>1, <3>2, <3>3, Zenon
  <2>2. CASE ~(i <= u)
    <3>1. i - u \in 1 .. z /\ u + (i - u) = i /\ x + y + (i - u) = x + n + i
      BY <1>4, <2>2
    <3>2. c[u + (i - u)] = wire[i - u]
      BY <1>2, <3>1, Zenon
    <3>3. b[x + y + (i - u)] = wire[i - u]
      BY <1>1, <3>1, Zenon
    <3> QED
      BY <3>1, <3>2, <3>3, Zenon
  <2> QED
    BY <2>1, <2>2
<1>5. Len(c) = Len(b) - (x + n)
  <2>1. Len(b) = x + y + z /\ Len(c) = u + z
    BY <1>1, <1>2, Zenon
  <2> QED
    BY <1>4, <2>1
<1> QED
  BY <1>2, <1>5, <1>6, Zenon DEF b, c, x

\* The first bytes are the letter and what is read behind it.
LEMMA Before ==
  ASSUME ReaderTypes, NEW t \in Seq(Byte),
         NEW k \in Seq(Byte), Len(letter) + Len(t) = Len(k), Len(t) <= Len(queue),
         \A i \in 1 .. Len(t) : t[i] = queue[i],
         \A i \in 1 .. Len(k) : Bytes[i] = k[i]
  PROVE  letter \o t = k
<1> DEFINE l == letter
           x == Len(letter)
           y == Len(queue)
           u == Len(t)
           b == Bytes
<1>1. /\ x \in Nat /\ y \in Nat
      /\ \A i \in 1 .. x : b[i] = l[i]
      /\ \A i \in 1 .. y : b[x + i] = queue[i]
  BY BytesNow
<1>2. /\ l \o t \in Seq(Byte) /\ Len(l \o t) = x + u /\ u \in Nat
      /\ \A i \in 1 .. x + u : (l \o t)[i] = IF i <= x THEN l[i] ELSE t[i - x]
  <2>1. letter \in Seq(Byte)
    BY DEF ReaderTypes
  <2> QED
    BY <2>1, ConcatProperties, LenProperties
<1>3. x + u = Len(k) /\ u <= y /\ (\A i \in 1 .. u : t[i] = queue[i]) /\ \A i \in 1 .. Len(k) : b[i] = k[i]
  OBVIOUS
<1> HIDE DEF b, x, y, u, l
<1>4. \A i \in 1 .. x + u : (l \o t)[i] = k[i]
  <2> TAKE i \in 1 .. x + u
  <2>0. x \in Nat /\ y \in Nat /\ u \in Nat /\ u <= y
    BY <1>1, <1>2, <1>3, Zenon
  <2>1. b[i] = k[i]
    BY <1>3, Zenon
  <2>2. (l \o t)[i] = IF i <= x THEN l[i] ELSE t[i - x]
    BY <1>2, Zenon
  <2>3. CASE i <= x
    <3>1. i \in 1 .. x
      BY <2>0, <2>3
    <3> QED
      BY <1>1, <2>1, <2>2, <2>3, <3>1, Zenon
  <2>4. CASE ~(i <= x)
    <3>1. i - x \in 1 .. u /\ i - x \in 1 .. y /\ x + (i - x) = i
      BY <2>0, <2>4
    <3>2. b[x + (i - x)] = queue[i - x]
      BY <1>1, <3>1, Zenon
    <3>3. t[i - x] = queue[i - x]
      BY <1>3, <3>1, Zenon
    <3> QED
      BY <2>1, <2>2, <2>4, <3>1, <3>2, <3>3, Zenon
  <2> QED
    BY <2>3, <2>4
<1>5. Len(l \o t) = Len(k) /\ \A i \in 1 .. Len(l \o t) : (l \o t)[i] = k[i]
  BY <1>2, <1>3, <1>4, Zenon
<1>6. l \o t = k
  BY <1>2, <1>5, SeqEqual
<1> QED
  BY <1>6 DEF l

LEMMA Associative == \A f, g, h \in Seq(Byte) : (f \o g) \o h = f \o (g \o h)
BY ConcatAssociative, Z3

\* A key pressed while nothing is on the wire comes behind all that is pending.
LEMMA Pressed ==
  ASSUME ReaderTypes, NEW k \in Seq(Byte), NEW n \in 1 .. Len(k), wire = <<>>,
         UNCHANGED letter, queue' = queue \o SubSeq(k, 1, n),
         wire' = SubSeq(k, n + 1, Len(k))
  PROVE  Bytes' = Bytes \o k /\ Len(wire') = Len(k) - n
<1> DEFINE l == letter
           q == queue
           w == wire
<1>0. l \in Seq(Byte) /\ q \in Seq(Byte) /\ w = <<>>
  BY DEF ReaderTypes
<1> HIDE DEF l, q, w
<1> DEFINE s == SubSeq(k, 1, n)
           t == SubSeq(k, n + 1, Len(k))
<1>1. Len(k) \in Nat /\ n \in Nat /\ n <= Len(k) /\ n + 1 \in Nat \ {0} /\ 1 \in Nat \ {0}
  BY LenProperties
<1>2. s \in Seq(Byte) /\ t \in Seq(Byte)
  BY <1>1, PartType
<1>3. s \o t = k
  <2>1. 1 \in 1 .. Len(k) + 1 /\ n \in 1 - 1 .. Len(k) /\ Len(k) \in n .. Len(k)
    BY <1>1
  <2>2. s \o t = SubSeq(k, 1, Len(k))
    BY <2>1, ConcatAdjacentSubSeq
  <2> QED
    BY <2>2, SubSeqFull
<1>4. Len(t) = Len(k) - n
  <2>1. Len(s) = n
    <3>1. \A i \in 1 .. n : k[i] \in Byte
      <4>1. \A i \in 1 .. n : i \in 1 .. Len(k)
        BY <1>1
      <4> QED
        BY <4>1, ElementOfSeq
    <3>2. Len(s) = IF 1 <= n THEN n - 1 + 1 ELSE 0
      BY <1>1, <3>1, SubSeqProperties
    <3> QED
      BY <1>1, <3>2
  <2>2. Len(k) = Len(s) + Len(t) /\ Len(t) \in Nat
    BY <1>2, <1>3, ConcatProperties, LenProperties
  <2> QED
    BY <1>1, <2>1, <2>2
<1> HIDE DEF s, t
<1>5. l \o (q \o s) \o t = (l \o q \o w) \o k
  <2>1. l \o q \in Seq(Byte) /\ q \o s \in Seq(Byte)
    BY <1>0, <1>2, ConcatProperties
  <2>2. l \o (q \o s) = (l \o q) \o s
    BY <1>0, <1>2, Associative, Zenon
  <2>3. ((l \o q) \o s) \o t = (l \o q) \o (s \o t)
    <3> DEFINE p == l \o q
    <3>1. p \in Seq(Byte)
      BY <2>1
    <3> HIDE DEF p
    <3>2. (p \o s) \o t = p \o (s \o t)
      BY <1>2, <3>1, Associative, Zenon
    <3> QED
      BY <3>2 DEF p
  <2>4. (l \o q) \o w = l \o q
    BY <1>0, <2>1, ConcatEmptySeq, Zenon
  <2> QED
    BY <1>3, <2>2, <2>3, <2>4, Zenon
<1>6. Bytes' = l \o (q \o s) \o t /\ Bytes = l \o q \o w /\ wire' = t
  BY Zenon DEF Bytes, l, q, w, s, t
<1> QED
  BY <1>4, <1>5, <1>6, Zenon

\* Each key on its way has its first byte among those pending.
LEMMA FlowFirst ==
  ASSUME NEW b \in Seq(Byte), NEW a \in Seq(Seq(Byte)), NEW d \in Seq(Seq(Byte)),
         NEW sent, NEW at, NEW nr, Flow(b, a, d, sent, at, nr), NEW i \in 1 .. Len(sent)
  PROVE  \E j \in 1 .. Len(b) : sent[i][1] = b[j]
<1> DEFINE n == Len(sent)
<1>1. sent \in Seq(Key) /\ n \in Nat /\ Len(b) \in Nat
  BY LenProperties DEF Flow
<1>2. /\ at \in [0 .. n -> Nat] /\ at[n] = Len(b)
      /\ \A m \in 0 .. n : \A j \in 0 .. m : at[j] <= at[m]
      /\ at[i] = at[i - 1] + Len(sent[i])
      /\ \A j \in 1 .. Len(sent[i]) : b[at[i - 1] + j] = sent[i][j]
  BY Zenon DEF Flow
<1>3. sent[i] \in Key /\ Len(sent[i]) \in Nat /\ Len(sent[i]) > 0
  BY <1>1, ElementOfSeq, KeyType
<1> HIDE DEF n
<1>4. i \in 1 .. n
  BY DEF n
<1>5. i \in 0 .. n /\ i - 1 \in 0 .. n /\ n \in 0 .. n /\ i \in 0 .. n
  BY <1>1, <1>4
<1>6. at[i - 1] \in Nat /\ at[i] \in Nat /\ at[i] <= at[n]
  BY <1>2, <1>5
<1>7. \A x, y, z, p \in Nat : p > 0 /\ y = x + p /\ y <= z => x + 1 \in 1 .. z /\ 1 \in 1 .. p
  OBVIOUS
<1>8. at[i - 1] + 1 \in 1 .. Len(b) /\ 1 \in 1 .. Len(sent[i])
  <2>1. at[i] = at[i - 1] + Len(sent[i]) /\ at[i] <= Len(b)
    BY <1>2, <1>6, Zenon
  <2> QED
    BY <1>1, <1>3, <1>6, <1>7, <2>1, Zenon
<1> QED
  BY <1>2, <1>8

-----------------------------------------------------------------------------
(* The keys of a user who is not hasty                                     *)

\* Of a key in two pieces the first has one byte; only the last key can begin with
\* an escape.
Arrives(sent) ==
  /\ wire # <<>> => Len(wire) = Len(sent[Len(sent)]) - 1
  /\ \A i \in 1 .. Len(sent) : i < Len(sent) => sent[i][1] # Esc

\* While a key is awaited nothing is in the terminal but the keys not acted on.
Flowing ==
  /\ asked = 0 /\ trash = <<>>
  /\ pc = "rest" => Wanted(letter[1]) > 0
  /\ \E sent, at, nr : Flow(Bytes, acted, delivered, sent, at, nr) /\ Arrives(sent)

\* During a question there is nothing but its answer; all keys were acted on, but for
\* an Escape, which has no meaning.
Quiet ==
  /\ wire = <<>> /\ trash = <<>> /\ letter \in {<<>>, <<Esc>>}
  /\ acted = delivered
  /\ pc # "skip"
  /\ \/ asked = 1 /\ queue = <<>>
     \/ asked = 0 /\ queue = Reply
     \/ asked = 0 /\ queue = Tail(Reply) /\ pc = "answer"

Orderly ==
  /\ pc \in Asking /\ ~disturbed => Quiet
  /\ pc \in {"read", "rest"} /\ ~disturbed => Flowing

OrderInv == ReaderTypes /\ Orderly

\* Everything was acted on, and nothing is on its way.
LEMMA NoneFlowing ==
  ASSUME ReaderTypes', acted' = delivered', asked' = 0, trash' = <<>>, pc' = "read",
         letter' = <<>>, queue' = <<>>, wire' = <<>>
  PROVE  Flowing'
<1>1. Bytes' = <<>>
  <2>1. /\ Bytes' \in Seq(Byte) /\ Len(Bytes') = Len(queue') + Len(wire')
    BY BytesAfter
  <2>2. Len(queue') = 0 /\ Len(wire') = 0
    BY EmptySeq
  <2>3. Len(Bytes') = 0
    BY <2>1, <2>2
  <2> QED
    BY <2>1, <2>3, EmptySeq
<1>2. \E at, nr : Flow(<<>>, acted', acted', <<>>, at, nr)
  <2>1. acted' \in Seq(Seq(Byte))
    BY DEF ReaderTypes
  <2> QED
    BY <2>1, FlowNone
<1>3. \E at, nr : Flow(Bytes', acted', delivered', <<>>, at, nr)
  BY <1>1, <1>2, Zenon
<1>4. Arrives(<<>>)'
  <2>1. Len(<<>>) = 0 /\ 1 .. 0 = {}
    OBVIOUS
  <2> QED
    BY <2>1 DEF Arrives
<1>5. /\ asked' = 0 /\ trash' = <<>> /\ pc' # "rest"
  OBVIOUS
<1> QED
  BY <1>3, <1>4, <1>5, Zenon DEF Flowing

\* The first key that is pending.
LEMMA FirstKey ==
  ASSUME ReaderTypes, NEW sent, NEW at, NEW nr,
         Flow(Bytes, acted, delivered, sent, at, nr), Arrives(sent), sent # <<>>
  PROVE  /\ sent[1] \in Key /\ sent[1] \in Seq(Byte) /\ Len(sent) \in Nat \ {0}
         /\ Len(sent[1]) \in Nat \ {0} /\ Len(sent[1]) <= Len(Bytes)
         /\ Bytes[1] = sent[1][1]
         /\ \A j \in 1 .. Len(sent[1]) : Bytes[j] = sent[1][j]
         /\ Len(sent) = 1 => Len(Bytes) = Len(sent[1])
         /\ Len(sent[Len(sent)]) \in Nat \ {0}
         /\ Len(sent) > 1 => Len(sent[1]) + Len(sent[Len(sent)]) <= Len(Bytes)
         /\ sent[1][1] = Esc => Len(sent) = 1
<1>1. Bytes \in Seq(Byte) /\ acted \in Seq(Seq(Byte)) /\ delivered \in Seq(Seq(Byte))
  BY BytesNow DEF ReaderTypes
<1>2. /\ sent[1] \in Key /\ sent[Len(sent)] \in Key /\ Len(sent) \in Nat \ {0}
      /\ Len(sent[1]) <= Len(Bytes)
      /\ Len(sent) > 1 => Len(sent[1]) + Len(sent[Len(sent)]) <= Len(Bytes)
      /\ Len(sent) = 1 => Len(Bytes) = Len(sent[1])
      /\ \A j \in 1 .. Len(sent[1]) : Bytes[j] = sent[1][j]
  <2> DEFINE b == Bytes
  <2>1. b \in Seq(Byte) /\ Flow(b, acted, delivered, sent, at, nr)
    BY <1>1, Zenon
  <2> HIDE DEF b
  <2>2. Ends(b, acted, delivered, sent)
    BY <1>1, <2>1, FlowEnd
  <2> QED
    BY <2>2, Zenon DEF b, Ends
<1>3. /\ sent[1] \in Seq(Byte) /\ Len(sent[1]) \in Nat \ {0}
      /\ Len(sent[Len(sent)]) \in Nat \ {0}
  BY <1>2, KeyType
<1>4. Bytes[1] = sent[1][1]
  <2>1. 1 \in 1 .. Len(sent[1])
    BY <1>3
  <2> QED
    BY <1>2, <2>1
<1>5. sent[1][1] = Esc => Len(sent) = 1
  <2>1. \A n \in Nat \ {0} : 1 \in 1 .. n /\ (n # 1 => 1 < n)
    OBVIOUS
  <2>2. 1 \in 1 .. Len(sent) /\ (Len(sent) # 1 => 1 < Len(sent))
    BY <1>2, <2>1, Zenon
  <2> QED
    BY <2>2, Zenon DEF Arrives
<1> QED
  BY <1>2, <1>3, <1>4, <1>5, Zenon

\* The reader acts on the first key, when its last byte has been read.
LEMMA ActFlow ==
  ASSUME ReaderTypes, ReaderTypes', NEW sent, NEW at, NEW nr, asked = 0,
         Flow(Bytes, acted, delivered, sent, at, nr), Arrives(sent), sent # <<>>,
         Len(sent) = 1 => wire = <<>>,
         ActOn(sent[1]), UNCHANGED <<wire, delivered, asked>>,
         Len(Bytes') = Len(Bytes) - Len(sent[1]),
         \A i \in 1 .. Len(Bytes') : Bytes'[i] = Bytes[Len(sent[1]) + i]
  PROVE  pc' = "read" => Flowing'
<1> SUFFICES ASSUME pc' = "read" PROVE Flowing'
  OBVIOUS
<1> DEFINE k == sent[1]
           fewer == Tail(sent)
<1>1. k \in Key /\ Len(sent) \in Nat \ {0} /\ sent \in Seq(Key)
  BY FirstKey DEF Flow
<1>2. /\ acted' = IF Effective(k) THEN Append(acted, k) ELSE acted
      /\ trash' = <<>> /\ letter' = <<>>
  <2>1. /\ Taken(k) = k /\ Kept(k) = <<>>
        /\ Acts(k) <=> Effective(k)
    BY <1>1, KeyTaken
  <2>2. /\ acted' = IF Acts(k) THEN Append(acted, Taken(k)) ELSE acted
        /\ trash' = Kept(k) /\ letter' = <<>>
    BY DEF ActOn
  <2> QED
    BY <2>1, <2>2, Zenon
<1>3. /\ Bytes \in Seq(Byte) /\ acted \in Seq(Seq(Byte)) /\ delivered \in Seq(Seq(Byte))
      /\ Bytes' \in Seq(Byte)
  BY <1>2, BytesNow, BytesAfter DEF ReaderTypes
<1>4. \E at2, nr2 : Flow(Bytes', IF Effective(k) THEN Append(acted, k) ELSE acted,
                         delivered, fewer, at2, nr2)
  BY <1>3, FlowDrop
<1>5. \E at2, nr2 : Flow(Bytes', acted', delivered', fewer, at2, nr2)
  <2>1. delivered' = delivered
    OBVIOUS
  <2> QED
    BY <1>2, <1>4, <2>1, Zenon
<1>6. /\ fewer \in Seq(Key) /\ Len(fewer) = Len(sent) - 1
      /\ \A i \in 1 .. Len(fewer) : fewer[i] = sent[i + 1]
  BY <1>1, HeadTailProperties
<1>7. Arrives(fewer)'
  <2> DEFINE n == Len(sent)
             m == Len(fewer)
  <2>1. n \in Nat \ {0} /\ m = n - 1 /\ \A i \in 1 .. m : fewer[i] = sent[i + 1]
    BY <1>1, <1>6
  <2>2. /\ wire # <<>> => Len(wire) = Len(sent[n]) - 1
        /\ \A i \in 1 .. n : i < n => sent[i][1] # Esc
        /\ n = 1 => wire = <<>>
    BY Zenon DEF Arrives
  <2> HIDE DEF n, m, fewer
  <2>3. \A i \in 1 .. m : i < m => fewer[i][1] # Esc
    <3> TAKE i \in 1 .. m
    <3>1. i + 1 \in 1 .. n /\ (i < m => i + 1 < n)
      BY <2>1
    <3> QED
      BY <2>1, <2>2, <3>1, Zenon
  <2>4. wire # <<>> => Len(wire) = Len(fewer[m]) - 1
    <3>1. n # 1 => m \in 1 .. m /\ m + 1 = n
      BY <2>1
    <3>2. n # 1 => fewer[m] = sent[n]
      BY <2>1, <3>1, Zenon
    <3> QED
      BY <2>2, <3>2, Zenon
  <2>5. wire' = wire
    OBVIOUS
  <2> QED
    BY <2>3, <2>4, <2>5, Zenon DEF Arrives, m
<1>8. asked' = 0 /\ pc' # "rest"
  OBVIOUS
<1> QED
  BY <1>2, <1>5, <1>7, <1>8, Zenon DEF Flowing

\* A pause, or no bytes at all, leaves nothing on its way.
LEMMA NoBytes ==
  ASSUME ReaderTypes, letter = <<>>, queue = <<>>, wire = <<>>
  PROVE  Bytes = <<>>
<1>1. Bytes \in Seq(Byte) /\ Len(Bytes) = Len(letter) + Len(queue) + Len(wire)
  BY BytesNow
<1>2. Len(letter) = 0 /\ Len(queue) = 0 /\ Len(wire) = 0
  BY EmptySeq
<1>3. Len(Bytes) = 0
  BY <1>1, <1>2
<1> QED
  BY <1>1, <1>3, EmptySeq

\* A key that comes now is the last, and none before it begins with an escape.
LEMMA PressOrder ==
  ASSUME OrderInv, ReaderTypes', NEW k \in Key, Press(k)
  PROVE  Orderly'
<1> SUFFICES ASSUME ~disturbed' PROVE pc' \notin Asking /\ (pc' \in {"read", "rest"} => Flowing')
  BY Zenon DEF Orderly
<1>1. wire = <<>> /\ UNCHANGED <<pc, letter, trash, asked>>
  BY DEF Press
<1>2. PICK n \in 1 .. Len(k) :
        /\ queue' = queue \o SubSeq(k, 1, n) /\ wire' = SubSeq(k, n + 1, Len(k))
        /\ disturbed' = ((disturbed /\ ~(disturbed /\ Calm)) \/ Hasty \/ n \in 2 .. Len(k) - 1)
  BY Zenon DEF Press
<1>3. ~Hasty /\ n \notin 2 .. Len(k) - 1 /\ (disturbed => Calm)
  BY <1>2, Zenon
<1>4. pc \notin Asking /\ ~Has(queue, Esc) /\ (pc = "rest" => letter[1] # Esc)
  BY <1>3, Zenon DEF Hasty
<1>5. pc' \notin Asking
  BY <1>1, <1>4 DEF Asking
<1> SUFFICES ASSUME pc \in {"read", "rest"} PROVE Flowing'
  BY <1>1, <1>5
<1> DEFINE a == IF disturbed /\ Calm THEN <<>> ELSE acted
           d == IF disturbed /\ Calm THEN <<>> ELSE delivered
           new == IF Effective(k) THEN <<k>> ELSE <<>>
<1>6. acted' = a /\ delivered' = d \o new
  BY Zenon DEF Press
<1>7. /\ ReaderTypes /\ Bytes \in Seq(Byte)
      /\ acted \in Seq(Seq(Byte)) /\ delivered \in Seq(Seq(Byte)) /\ <<>> \in Seq(Seq(Byte))
  BY BytesNow, EmptySeq DEF OrderInv, ReaderTypes
<1>8. a \in Seq(Seq(Byte)) /\ d \in Seq(Seq(Byte))
  BY <1>7
<1>9. /\ asked = 0 /\ trash = <<>> /\ (pc = "rest" => Wanted(letter[1]) > 0)
      /\ \E sent, at, nr : /\ Flow(Bytes, a, d, sent, at, nr)
                           /\ \A i \in 1 .. Len(sent) : sent[i][1] # Esc
  <2>1. CASE disturbed
    <3>1. pc = "read" /\ queue = <<>> /\ trash = <<>> /\ asked = 0
      BY <1>3, <2>1 DEF Calm
    <3>2. Bytes = <<>>
      <4>1. letter = <<>>
        BY <1>7, <3>1 DEF ReaderTypes
      <4> QED
        BY <1>1, <1>7, <3>1, <4>1, NoBytes
    <3>3. \E at, nr : Flow(<<>>, <<>>, <<>>, <<>>, at, nr)
      BY <1>7, FlowNone
    <3>4. a = <<>> /\ d = <<>>
      BY <1>3, <2>1
    <3>5. \A i \in 1 .. Len(<<>>) : <<>>[i][1] # Esc
      BY 1 .. 0 = {}
    <3>6. \E sent, at, nr : /\ Flow(Bytes, a, d, sent, at, nr)
                            /\ \A i \in 1 .. Len(sent) : sent[i][1] # Esc
      BY <3>2, <3>3, <3>4, <3>5, Zenon
    <3> QED
      BY <3>1, <3>6
  <2>2. CASE ~disturbed
    <3>1. Flowing
      BY <2>2 DEF OrderInv, Orderly
    <3>2. PICK sent, at, nr : Flow(Bytes, acted, delivered, sent, at, nr)
      BY <3>1, Zenon DEF Flowing
    <3>3. \A j \in 1 .. Len(Bytes) : Bytes[j] # Esc
      <4> DEFINE b == Bytes
                 x == Len(letter)
                 y == Len(queue)
      <4>1. /\ x \in Nat /\ y \in Nat /\ Len(b) = x + y + Len(wire)
            /\ \A i \in 1 .. x : b[i] = letter[i]
            /\ \A i \in 1 .. y : b[x + i] = queue[i]
        BY <1>7, BytesNow
      <4>2. Len(wire) = 0
        BY <1>1, EmptySeq
      <4>3. \A i \in 1 .. y : queue[i] # Esc
        <5>1. DOMAIN queue = 1 .. y
          BY <1>7, LenProperties DEF ReaderTypes
        <5> QED
          BY <1>4, <5>1, Zenon DEF Has
      <4>4. \A i \in 1 .. x : letter[i] # Esc
        <5>1. CASE pc = "read"
          <6>1. x = 0
            BY <1>7, <5>1, EmptySeq DEF ReaderTypes
          <6> QED
            BY <6>1
        <5>2. CASE pc = "rest"
          <6>1. x = 1
            BY <1>7, <5>2 DEF ReaderTypes
          <6>2. \A i \in 1 .. 1 : i = 1
            OBVIOUS
          <6> QED
            BY <1>4, <5>2, <6>1, <6>2, Zenon
        <5> QED
          BY <5>1, <5>2
      <4> HIDE DEF b, x, y
      <4>5. \A j \in 1 .. Len(b) : b[j] # Esc
        <5> TAKE j \in 1 .. Len(b)
        <5>1. CASE j <= x
          <6>1. j \in 1 .. x
            BY <4>1, <4>2, <5>1
          <6> QED
            BY <4>1, <4>4, <6>1, Zenon
        <5>2. CASE ~(j <= x)
          <6>1. j - x \in 1 .. y /\ x + (j - x) = j
            BY <4>1, <4>2, <5>2
          <6> QED
            BY <4>1, <4>3, <6>1, Zenon
        <5> QED
          BY <5>1, <5>2
      <4> QED
        BY <4>5 DEF b
    <3>4. \A i \in 1 .. Len(sent) : sent[i][1] # Esc
      <4> TAKE i \in 1 .. Len(sent)
      <4>1. \E j \in 1 .. Len(Bytes) : sent[i][1] = Bytes[j]
        BY <1>7, <3>2, FlowFirst
      <4> QED
        BY <3>3, <4>1, Zenon
    <3>5. a = acted /\ d = delivered
      BY <2>2
    <3>6. \E s, t, r : /\ Flow(Bytes, a, d, s, t, r)
                       /\ \A i \in 1 .. Len(s) : s[i][1] # Esc
      BY <3>2, <3>4, <3>5, Zenon
    <3> QED
      BY <3>1, <3>6, Zenon DEF Flowing
  <2> QED
    BY <2>1, <2>2
<1> HIDE DEF a, d, new
<1>10. PICK sent, at, nr : /\ Flow(Bytes, a, d, sent, at, nr)
                           /\ \A i \in 1 .. Len(sent) : sent[i][1] # Esc
  BY <1>9, Zenon
<1>11. k \in Seq(Byte) /\ Len(k) \in Nat \ {0} /\ sent \in Seq(Key) /\ Len(sent) \in Nat
  BY <1>10, KeyType, LenProperties DEF Flow
<1>12. Bytes' = Bytes \o k /\ Len(wire') = Len(k) - n
  <2>1. letter' = letter
    BY <1>1
  <2> QED
    BY <1>1, <1>2, <1>7, <1>11, <2>1, Pressed
<1>13. \E at2, nr2 : Flow(Bytes \o k, a, d \o new, Append(sent, k), at2, nr2)
  BY <1>7, <1>8, <1>10, FlowAdd DEF new
<1>14. \E at2, nr2 : Flow(Bytes', acted', delivered', Append(sent, k), at2, nr2)
  BY <1>6, <1>12, <1>13, Zenon
<1>15. Arrives(Append(sent, k))'
  <2> DEFINE more == Append(sent, k)
             m == Len(sent)
  <2>1. /\ Len(more) = m + 1 /\ more[m + 1] = k
        /\ \A i \in 1 .. m : more[i] = sent[i]
    BY <1>11, AppendProperties
  <2>2. wire' # <<>> => Len(wire') = Len(k) - 1
    <3> SUFFICES ASSUME wire' # <<>> PROVE n = 1
      BY <1>12
    <3>1. wire' \in Seq(Byte)
      BY DEF ReaderTypes
    <3>2. Len(wire') \in Nat \ {0}
      BY <3>1, EmptySeq
    <3> QED
      BY <1>3, <1>11, <1>12, <3>2
  <2>3. m \in Nat /\ \A i \in 1 .. m : sent[i][1] # Esc
    BY <1>10, <1>11
  <2> HIDE DEF more, m
  <2>4. \A i \in 1 .. m + 1 : i < m + 1 => i \in 1 .. m
    BY <2>3
  <2>5. \A i \in 1 .. Len(more) : i < Len(more) => more[i][1] # Esc
    BY <2>1, <2>3, <2>4, Zenon
  <2>6. wire' # <<>> => Len(wire') = Len(more[Len(more)]) - 1
    BY <2>1, <2>2, Zenon
  <2> QED
    BY <2>5, <2>6, Zenon DEF Arrives, more
<1>16. /\ asked' = 0 /\ trash' = <<>> /\ (pc' = "rest" => Wanted(letter'[1]) > 0)
  BY <1>1, <1>9
<1> QED
  BY <1>14, <1>15, <1>16, Zenon DEF Flowing

LEMMA HeadAndTail ==
  ASSUME NEW q \in Seq(Byte), q # <<>>
  PROVE  /\ Head(q) \in Byte /\ Tail(q) \in Seq(Byte) /\ Head(q) = q[1]
         /\ Len(q) \in Nat \ {0} /\ Len(Tail(q)) = Len(q) - 1
         /\ \A i \in 1 .. Len(Tail(q)) : Tail(q)[i] = q[1 + i]
         /\ <<Head(q)>> \o Tail(q) = q
<1>1. /\ Head(q) \in Byte /\ Tail(q) \in Seq(Byte) /\ Len(Tail(q)) = Len(q) - 1
      /\ \A i \in 1 .. Len(Tail(q)) : Tail(q)[i] = q[i + 1]
  BY HeadTailProperties
<1>2. Head(q) = q[1] /\ Len(q) \in Nat \ {0}
  BY EmptySeq
<1>3. \A i \in 1 .. Len(Tail(q)) : Tail(q)[i] = q[1 + i]
  BY <1>1, <1>2
<1>4. <<Head(q)>> \o Tail(q) = q
  <2>1. 1 \in 1 .. Len(q) /\ Len(q) \in 1 .. Len(q)
    BY <1>2
  <2>2. SubSeq(q, 1, Len(q)) = <<q[1]>> \o SubSeq(q, 1 + 1, Len(q))
    BY <2>1, SubSeqRecursiveFirst
  <2>3. SubSeq(q, 1, Len(q)) = q /\ Tail(q) = SubSeq(q, 2, Len(q)) /\ 1 + 1 = 2
    BY SubSeqFull, TailIsSubSeq
  <2> QED
    BY <1>2, <2>2, <2>3, Zenon
<1> QED
  BY <1>1, <1>2, <1>3, <1>4

\* While there are bytes, there is a key they belong to.
LEMMA SomeKey ==
  ASSUME ReaderTypes, letter # <<>> \/ queue # <<>> \/ wire # <<>>, NEW sent, NEW at, NEW nr,
         Flow(Bytes, acted, delivered, sent, at, nr)
  PROVE  sent # <<>>
<1> SUFFICES ASSUME sent = <<>> PROVE FALSE
  OBVIOUS
<1>1. /\ Bytes \in Seq(Byte) /\ Len(Bytes) = Len(letter) + Len(queue) + Len(wire)
      /\ Len(letter) \in Nat /\ Len(queue) \in Nat /\ Len(wire) \in Nat
  BY BytesNow
<1>2. Ends(Bytes, acted, delivered, sent)
  BY <1>1, FlowEnd DEF ReaderTypes
<1>3. Bytes = <<>>
  BY <1>2, Zenon DEF Ends
<1>4. Len(letter) = 0 /\ Len(queue) = 0 /\ Len(wire) = 0
  <2>1. Len(Bytes) = 0
    BY <1>3, EmptySeq
  <2> QED
    BY <1>1, <2>1
<1>5. letter = <<>> /\ queue = <<>> /\ wire = <<>>
  BY <1>4, EmptySeq DEF ReaderTypes
<1> QED
  BY <1>5, Zenon

\* Bytes that have arrived are not the first piece of the last key but for itself.
LEMMA Pieces ==
  ASSUME ReaderTypes, queue # <<>>, NEW sent, NEW at, NEW nr,
         Flow(Bytes, acted, delivered, sent, at, nr), Arrives(sent), sent # <<>>,
         Len(letter) = 1 \/ (Len(letter) = 0 /\ Len(sent[1]) = 1)
  PROVE  /\ Len(sent) = 1 => wire = <<>> /\ Len(sent[1]) = Len(letter) + Len(queue)
         /\ Len(sent[1]) <= Len(letter) + Len(queue)
<1> DEFINE x == Len(letter)
           y == Len(queue)
           z == Len(wire)
           n == Len(sent)
           p == Len(sent[1])
           r == Len(sent[n])
           b == Len(Bytes)
<1>1. x \in Nat /\ y \in Nat \ {0} /\ z \in Nat /\ b = x + y + z
  BY BytesNow, EmptySeq DEF ReaderTypes
<1>2. /\ n \in Nat \ {0} /\ p \in Nat \ {0} /\ r \in Nat \ {0}
      /\ n = 1 => b = p
      /\ n > 1 => p + r <= b
      /\ n = 1 => r = p
  BY FirstKey
<1>3. wire # <<>> => z = r - 1
  BY Zenon DEF Arrives
<1>4. (wire = <<>> => z = 0) /\ (wire # <<>> => z # 0)
  BY EmptySeq DEF ReaderTypes
<1>5. x = 1 \/ (x = 0 /\ p = 1)
  OBVIOUS
<1> HIDE DEF x, y, z, n, p, r, b
<1>6. CASE n = 1
  <2>1. z = 0
    BY <1>1, <1>2, <1>3, <1>4, <1>5, <1>6
  <2> QED
    BY <1>1, <1>2, <1>4, <1>6, <2>1 DEF n, x, y, p
<1>7. CASE n # 1
  <2>1. p + r <= b /\ (z = 0 \/ z = r - 1)
    BY <1>2, <1>3, <1>4, <1>7
  <2>2. p <= x + y
    BY <1>1, <1>2, <2>1
  <2> QED
    BY <1>7, <2>2 DEF n, x, y, p
<1> QED
  BY <1>6, <1>7

LEMMA ReadFirstOrder ==
  ASSUME OrderInv, ReaderTypes', ReadFirst
  PROVE  Orderly'
<1>1. /\ pc = "read" /\ queue # <<>> /\ queue' = Tail(queue)
      /\ UNCHANGED <<wire, delivered, asked, disturbed>>
  BY DEF ReadFirst, typing
<1>2. /\ Wanted(Head(queue)) > 0 =>
           letter' = <<Head(queue)>> /\ pc' = "rest" /\ UNCHANGED <<trash, acted>>
      /\ ~(Wanted(Head(queue)) > 0) => ActOn(<<Head(queue)>>)
  BY Zenon DEF ReadFirst
<1>3. pc' \in {"between", "read", "rest"}
  BY <1>2, Acting
<1> SUFFICES ASSUME ~disturbed, pc' \in {"read", "rest"} PROVE Flowing'
  BY <1>1, <1>3 DEF Orderly, Asking
<1>4. ReaderTypes /\ Flowing
  BY <1>1 DEF OrderInv, Orderly
<1>5. /\ letter = <<>> /\ queue \in Seq(Byte) /\ wire \in Seq(Byte)
      /\ Len(letter) = 0 /\ asked = 0 /\ trash = <<>>
  BY <1>1, <1>4, EmptySeq DEF ReaderTypes, Flowing
<1>6. PICK sent, at, nr : Flow(Bytes, acted, delivered, sent, at, nr) /\ Arrives(sent)
  BY <1>4, Zenon DEF Flowing
<1> DEFINE h == Head(queue)
           k == sent[1]
<1>7. /\ h \in Byte /\ h = queue[1] /\ Len(queue) \in Nat \ {0}
      /\ Len(queue') = Len(queue) - 1
      /\ \A i \in 1 .. Len(queue') : queue'[i] = queue[1 + i]
      /\ <<h>> \o queue' = queue
  BY <1>1, <1>5, HeadAndTail
<1>8. sent # <<>>
  BY <1>1, <1>4, <1>6, SomeKey, Zenon
<1>9. /\ k \in Key /\ k \in Seq(Byte) /\ Len(k) \in Nat \ {0} /\ Bytes[1] = k[1]
  BY <1>4, <1>6, <1>8, FirstKey
<1>10. k[1] = h
  <2>1. \A i \in 1 .. Len(queue) : Bytes[Len(letter) + i] = queue[i]
    BY <1>4, BytesNow
  <2>2. 1 \in 1 .. Len(queue) /\ 0 + 1 = 1
    BY <1>7
  <2> QED
    BY <1>5, <1>7, <1>9, <2>1, <2>2, Zenon
<1>11. CASE Wanted(h) > 0
  <2>1. letter' = <<h>> /\ pc' = "rest" /\ UNCHANGED <<trash, acted>>
    BY <1>2, <1>11
  <2>2. Bytes' = Bytes
    <3>1. letter \o queue = queue
      BY <1>5, ConcatEmptySeq
    <3> QED
      BY <1>1, <1>7, <2>1, <3>1, Zenon DEF Bytes
  <2>3. Arrives(sent)'
    BY <1>1, <1>6, Zenon DEF Arrives
  <2>4. letter'[1] = h
    BY <2>1
  <2>5. \E s, t, r : Flow(Bytes', acted', delivered', s, t, r) /\ Arrives(s)'
    BY <1>1, <1>6, <2>1, <2>2, <2>3, Zenon
  <2>6. asked' = 0 /\ trash' = <<>> /\ Wanted(letter'[1]) > 0
    BY <1>1, <1>5, <1>11, <2>1, <2>4, Zenon
  <2> QED
    BY <2>5, <2>6, Zenon DEF Flowing
<1>12. CASE ~(Wanted(h) > 0)
  <2>1. ActOn(<<h>>) /\ letter' = <<>>
    BY <1>2, <1>12 DEF ActOn
  <2>2. Len(k) = 1
    <3>1. /\ Extra[k[1]] \in 0 .. 3
          /\ k[1] = Esc => Len(k) = 1 \/ Len(k) < READING_SIZE
          /\ Extra[k[1]] = 0 /\ k[1] # Esc => Len(k) = 1
      BY <1>9, KeyShape
    <3>2. READING_SIZE \in Nat \ {0}
      BY KeyAssumption
    <3>3. CASE h = Esc
      <4>1. ~(READING_SIZE - 1 > 0)
        BY <1>12, <3>3 DEF Wanted
      <4>2. READING_SIZE = 1
        BY <3>2, <4>1
      <4>3. ~(Len(k) < 1)
        BY <1>9
      <4> QED
        BY <1>10, <3>1, <3>3, <4>2, <4>3, Zenon
    <3>4. CASE h # Esc
      <4>1. ~(Extra[h] > 0)
        BY <1>12, <3>4, Zenon DEF Wanted
      <4>2. Extra[h] = 0
        BY <1>10, <3>1, <4>1
      <4> QED
        BY <1>10, <3>1, <3>4, <4>2, Zenon
    <3> QED
      BY <3>3, <3>4
  <2>3. k = <<h>>
    BY <1>7, <1>9, <1>10, <2>2
  <2>4. Len(k) <= Len(letter) + Len(queue) /\ (Len(sent) = 1 => wire = <<>>)
    BY <1>1, <1>4, <1>5, <1>6, <1>8, <2>2, Pieces, Zenon
  <2>5. /\ Len(Bytes') = Len(Bytes) - (Len(letter) + 1)
        /\ \A i \in 1 .. Len(Bytes') : Bytes'[i] = Bytes[Len(letter) + 1 + i]
    <3>1. 1 \in Nat /\ 1 <= Len(queue)
      BY <1>7
    <3> QED
      BY <1>1, <1>4, <1>7, <2>1, <3>1, Behind
  <2>6. /\ Len(Bytes') = Len(Bytes) - Len(k)
        /\ \A i \in 1 .. Len(Bytes') : Bytes'[i] = Bytes[Len(k) + i]
    <3>1. Len(letter) + 1 = Len(k)
      BY <1>5, <2>2
    <3> QED
      BY <2>5, <3>1, Zenon
  <2>7. pc' = "read"
    BY <2>1, Acting
  <2> HIDE DEF h
  <2> QED
    BY <1>1, <1>4, <1>5, <1>6, <1>8, <2>1, <2>3, <2>4, <2>6, <2>7, ActFlow, Zenon
<1> QED
  BY <1>11, <1>12

LEMMA ReadRestOrder ==
  ASSUME OrderInv, ReaderTypes', ReadRest
  PROVE  Orderly'
<1> DEFINE n == Wanted(letter[1])
           t == Took(n)
<1>1. /\ pc = "rest" /\ queue # <<>> /\ ActOn(letter \o t) /\ queue' = Left(n)
      /\ UNCHANGED <<wire, delivered, asked, disturbed>>
  BY DEF ReadRest, typing
<1>2. letter' = <<>> /\ pc' \in {"between", "read"}
  BY <1>1, Acting DEF ActOn
<1> SUFFICES ASSUME ~disturbed, pc' = "read" PROVE Flowing'
  BY <1>1, <1>2 DEF Orderly, Asking
<1>3. ReaderTypes /\ Flowing
  BY <1>1 DEF OrderInv, Orderly
<1>4. /\ Len(letter) = 1 /\ letter \in Seq(Byte) /\ queue \in Seq(Byte) /\ asked = 0
      /\ Wanted(letter[1]) > 0
  BY <1>1, <1>3, Zenon DEF ReaderTypes, Flowing
<1>5. PICK sent, at, nr : Flow(Bytes, acted, delivered, sent, at, nr) /\ Arrives(sent)
  BY <1>3, Zenon DEF Flowing
<1> DEFINE k == sent[1]
<1>6. sent # <<>>
  <2>1. letter # <<>> \/ queue # <<>> \/ wire # <<>>
    BY <1>1
  <2> QED
    BY <1>3, <1>5, <2>1, SomeKey, Zenon
<1>7. /\ k \in Key /\ k \in Seq(Byte) /\ Len(k) \in Nat \ {0} /\ Bytes[1] = k[1]
      /\ \A j \in 1 .. Len(k) : Bytes[j] = k[j]
      /\ k[1] = Esc => Len(sent) = 1
  BY <1>3, <1>5, <1>6, FirstKey
<1>8. k[1] = letter[1]
  <2>1. \A i \in 1 .. Len(letter) : Bytes[i] = letter[i]
    BY <1>3, BytesNow
  <2>2. 1 \in 1 .. 1
    OBVIOUS
  <2> QED
    BY <1>4, <1>7, <2>1, <2>2, Zenon
<1>9. /\ Len(sent) = 1 => wire = <<>> /\ Len(k) = Len(letter) + Len(queue)
      /\ Len(k) <= Len(letter) + Len(queue)
  BY <1>1, <1>3, <1>4, <1>5, <1>6, Pieces, Zenon
<1>10. Len(queue) \in Nat
  BY <1>4, LenProperties
<1>11. n \in Nat /\ n > 0 /\ (n < Len(queue) => Len(k) = 1 + n) /\ (~(n < Len(queue)) => Len(k) = 1 + Len(queue))
  <2>1. /\ Extra[k[1]] \in 0 .. 3
        /\ k[1] = Esc => Len(k) = 1 \/ Len(k) < READING_SIZE
        /\ Extra[k[1]] > 0 => Len(k) = Extra[k[1]] + 1
    BY <1>7, KeyShape
  <2>2. READING_SIZE \in Nat \ {0}
    BY KeyAssumption
  <2>3. Len(queue) > 0
    BY <1>1, <1>4, EmptySeq
  <2>4. CASE k[1] = Esc
    <3>1. n = READING_SIZE - 1
      BY <1>8, <2>4, Zenon DEF Wanted
    <3>2. Len(k) = 1 + Len(queue)
      BY <1>4, <1>7, <1>9, <2>4, Zenon
    <3>3. Len(k) < READING_SIZE
      BY <1>10, <2>1, <2>3, <2>4, <3>2
    <3> HIDE DEF n
    <3> QED
      BY <1>10, <2>2, <2>3, <3>1, <3>2, <3>3
  <2>5. CASE k[1] # Esc
    <3>1. n = Extra[k[1]] /\ n > 0
      BY <1>4, <1>8, <2>5, Zenon DEF Wanted
    <3>2. Len(k) = n + 1 /\ n \in 0 .. 3
      BY <2>1, <3>1, Zenon
    <3>3. Len(k) <= 1 + Len(queue)
      BY <1>4, <1>9, Zenon
    <3> HIDE DEF n, k
    <3> QED
      BY <1>10, <3>1, <3>2, <3>3
  <2> QED
    BY <2>4, <2>5
<1>12. /\ t \in Seq(Byte)
       /\ Len(t) = IF n < Len(queue) THEN n ELSE Len(queue)
       /\ Len(queue') = IF n < Len(queue) THEN Len(queue) - n ELSE 0
       /\ \A i \in 1 .. Len(t) : t[i] = queue[i]
       /\ \A i \in 1 .. Len(queue') : queue'[i] = queue[n + i]
  BY <1>1, <1>4, <1>11, TookLeft
<1>13. n \in Nat
  BY <1>11
<1> HIDE DEF n, t, k
<1>14. /\ Len(t) \in Nat /\ Len(t) <= Len(queue) /\ Len(k) = 1 + Len(t)
       /\ Len(queue') = Len(queue) - Len(t)
  BY <1>10, <1>11, <1>12, <1>13
<1>15. \A i \in 1 .. Len(queue') : queue'[i] = queue[Len(t) + i]
  <2>1. CASE n < Len(queue)
    <3>1. Len(t) = n
      BY <1>12, <2>1, Zenon
    <3> QED
      BY <1>12, <3>1, Zenon
  <2>2. CASE ~(n < Len(queue))
    <3>1. Len(queue') = 0
      BY <1>12, <2>2, Zenon
    <3> QED
      BY <3>1
  <2> QED
    BY <2>1, <2>2
<1>16. letter \o t = k
  <2>1. Len(letter) + Len(t) = Len(k)
    BY <1>4, <1>14
  <2> QED
    BY <1>3, <1>7, <1>12, <1>14, <2>1, Before
<1>17. /\ Len(Bytes') = Len(Bytes) - Len(k)
       /\ \A i \in 1 .. Len(Bytes') : Bytes'[i] = Bytes[Len(k) + i]
  <2>1. /\ Len(Bytes') = Len(Bytes) - (Len(letter) + Len(t))
        /\ \A i \in 1 .. Len(Bytes') : Bytes'[i] = Bytes[Len(letter) + Len(t) + i]
    <3>1. wire' = wire
      BY <1>1
    <3> QED
      BY <1>2, <1>3, <1>14, <1>15, <3>1, Behind, Zenon
  <2>2. Len(letter) + Len(t) = Len(k)
    BY <1>4, <1>14
  <2> QED
    BY <2>1, <2>2, Zenon
<1>18. UNCHANGED <<wire, delivered, asked>> /\ (Len(sent) = 1 => wire = <<>>) /\ ActOn(sent[1])
  BY <1>1, <1>9, <1>16 DEF k
<1> QED
  BY <1>3, <1>4, <1>5, <1>6, <1>17, <1>18, ActFlow, Zenon DEF k

\* An Escape alone is read, and nothing is done.
LEMMA EscapeAlone ==
  ASSUME NEW l \in {<<>>, <<Esc>>}
  PROVE  ~Acts(l) /\ Kept(l) = <<>>
<1>1. /\ Esc \in Control \ {EOT, Newline}
      /\ \A c \in Command :
           /\ c \in Seq(Byte) /\ c # <<>>
           /\ Len(c) = 1 => c[1] \notin Control \ {EOT}
  BY KeyAssumption
<1>2. l \in Seq(Byte) /\ Len(l) <= 1 /\ (l # <<>> => Len(l) = 1 /\ l[1] = Esc)
  <2>1. Esc \in Byte
    BY KeyAssumption
  <2>2. CASE l = <<>>
    BY <2>2
  <2>3. CASE l = <<Esc>>
    BY <2>1, <2>3
  <2> QED
    BY <2>2, <2>3
<1>3. Matching(l) = {}
  <2> SUFFICES ASSUME NEW c \in Command, IsPrefix(c, l) PROVE FALSE
    BY DEF Matching
  <2>1. Len(c) \in Nat \ {0} /\ Len(c) <= Len(l) /\ c[1] = l[1]
    BY <1>1, <1>2, PrefixIs
  <2>2. Len(l) \in Nat
    BY <1>2, LenProperties
  <2>3. Len(c) = 1 /\ l # <<>>
    <3>1. Len(<<>>) = 0
      OBVIOUS
    <3>2. l # <<>>
      BY <2>1, <3>1
    <3> QED
      BY <1>2, <2>1, <2>2, <3>2
  <2> QED
    BY <1>1, <1>2, <2>1, <2>3
<1>4. l # <<>> => Ignored(l)
  BY <1>1, <1>2 DEF Ignored
<1> QED
  BY <1>3, <1>4, Zenon DEF Acts, Kept

\* The answer is read to its end, and the reader goes on where it was.
LEMMA PositionOrder ==
  ASSUME OrderInv, ReaderTypes', Position
  PROVE  Orderly'
<1>1. /\ pc = "answer" /\ queue # <<>> /\ queue' = Left(AnswerSize) /\ GoOn(g_sigwinch)
      /\ UNCHANGED <<wire, delivered, asked, disturbed>>
  BY DEF Position, typing
<1>2. pc' \in {"between", "read"}
  BY <1>1, Acting DEF GoOn
<1> SUFFICES ASSUME ~disturbed, pc' = "read" PROVE Flowing'
  BY <1>1, <1>2 DEF Orderly, Asking
<1>3. ReaderTypes /\ Quiet
  BY <1>1 DEF OrderInv, Orderly, Asking
<1>4. /\ wire = <<>> /\ trash = <<>> /\ letter \in {<<>>, <<Esc>>} /\ acted = delivered
      /\ asked = 0 /\ queue \in {Reply, Tail(Reply)} /\ queue \in Seq(Byte)
  BY <1>1, <1>3 DEF Quiet, ReaderTypes
<1>5. queue' = <<>>
  <2>1. Reply \in Seq(Byte) /\ Reply # <<>> /\ Len(Reply) \in Nat /\ Len(Reply) <= 15
    BY KeyAssumption
  <2>2. Len(queue) \in Nat /\ Len(queue) <= 15
    BY <1>4, <2>1, HeadTailProperties
  <2>3. AnswerSize = 15 /\ AnswerSize \in Nat
    BY DEF AnswerSize
  <2>4. /\ Left(AnswerSize) \in Seq(Byte)
        /\ Len(Left(AnswerSize)) = IF AnswerSize < Len(queue) THEN Len(queue) - AnswerSize ELSE 0
    BY <1>4, <2>3, TookLeft
  <2>5. ~(AnswerSize < Len(queue))
    BY <2>2, <2>3
  <2>6. queue' \in Seq(Byte) /\ Len(queue') = 0
    BY <1>1, <2>4, <2>5, Zenon
  <2> QED
    BY <2>6, EmptySeq
<1>6. acted' = acted /\ trash' = <<>> /\ letter' = <<>>
  <2>1. CASE from = "prep"
    <3>1. letter = <<>>
      BY <1>1, <1>3, <2>1 DEF ReaderTypes, Asking
    <3> QED
      BY <1>1, <1>4, <2>1, <3>1 DEF GoOn
  <2>2. CASE from = "reading"
    <3>1. ActOn(letter)
      BY <1>1, <2>2 DEF GoOn
    <3> QED
      BY <1>4, <3>1, EscapeAlone DEF ActOn
  <2> QED
    BY <1>1, <2>1, <2>2 DEF GoOn
<1>7. acted' = delivered' /\ asked' = 0 /\ wire' = <<>>
  BY <1>1, <1>4, <1>6
<1> QED
  BY <1>5, <1>6, <1>7, NoneFlowing

\* A window change between two reads of a key finds all keys acted on, or an Escape
\* in the letter.
LEMMA AskOrder ==
  ASSUME OrderInv, ReadFails, Ask("reading"), UNCHANGED <<queue, wire, delivered, acted>>
  PROVE  Orderly'
<1>1. /\ pc \in {"read", "rest"} /\ queue = <<>> /\ pc' = "query" /\ asked' = asked + 1
      /\ letter' = (IF trash # <<>> THEN trash ELSE letter) /\ trash' = <<>>
      /\ disturbed' = (disturbed \/ wire # <<>>)
  BY Zenon DEF ReadFails, Blocked, Ask
<1> SUFFICES ASSUME ~disturbed' PROVE Quiet'
  BY <1>1 DEF Orderly
<1>2. ~disturbed /\ wire = <<>>
  BY <1>1, Zenon
<1>3. ReaderTypes /\ Flowing
  BY <1>1, <1>2 DEF OrderInv, Orderly
<1>4. asked = 0 /\ trash = <<>> /\ (pc = "rest" => Wanted(letter[1]) > 0)
  BY <1>3, Zenon DEF Flowing
<1>5. PICK sent, at, nr : Flow(Bytes, acted, delivered, sent, at, nr) /\ Arrives(sent)
  BY <1>3, Zenon DEF Flowing
<1>6. Bytes \in Seq(Byte) /\ acted \in Seq(Seq(Byte)) /\ delivered \in Seq(Seq(Byte))
  BY <1>3, BytesNow DEF ReaderTypes
<1>7. Ends(Bytes, acted, delivered, sent)
  BY <1>5, <1>6, FlowEnd
<1>8. letter \in {<<>>, <<Esc>>} /\ acted = delivered
  <2>1. CASE pc = "read"
    <3>1. letter = <<>>
      BY <1>3, <2>1 DEF ReaderTypes
    <3>2. Bytes = <<>>
      BY <1>1, <1>2, <1>3, <3>1, NoBytes
    <3>3. sent = <<>>
      <4> SUFFICES ASSUME sent # <<>> PROVE FALSE
        OBVIOUS
      <4>1. Len(sent[1]) \in Nat \ {0} /\ Len(sent[1]) <= Len(Bytes)
        BY <1>3, <1>5, FirstKey
      <4>2. Len(Bytes) = 0
        BY <3>2, EmptySeq
      <4> QED
        BY <4>1, <4>2
    <3> QED
      BY <1>7, <3>1, <3>3, Zenon DEF Ends
  <2>2. CASE pc = "rest"
    <3>1. letter \in Seq(Byte) /\ Len(letter) = 1
      BY <1>3, <2>2 DEF ReaderTypes
    <3>2. Len(Bytes) = 1 /\ Bytes[1] = letter[1]
      <4>1. /\ Len(Bytes) = Len(letter) + Len(queue) + Len(wire)
            /\ \A i \in 1 .. Len(letter) : Bytes[i] = letter[i]
        BY <1>3, BytesNow
      <4>2. Len(queue) = 0 /\ Len(wire) = 0 /\ 1 \in 1 .. Len(letter)
        BY <1>1, <1>2, <3>1, EmptySeq
      <4>3. \A i, j, m \in Nat : i = 1 /\ j = 0 /\ m = 0 => i + j + m = 1
        OBVIOUS
      <4>4. Len(letter) + Len(queue) + Len(wire) = 1
        <5>1. Len(letter) \in Nat /\ Len(queue) \in Nat /\ Len(wire) \in Nat
          BY <1>3, BytesNow
        <5> QED
          BY <3>1, <4>2, <4>3, <5>1, Zenon
      <4>5. Len(Bytes) = 1
        BY <4>1, <4>4, Zenon
      <4>6. Bytes[1] = letter[1]
        BY <4>1, <4>2, Zenon
      <4> QED
        BY <4>5, <4>6
    <3>3. sent # <<>>
      <4>1. letter # <<>>
        <5>1. Len(<<>>) = 0 /\ 0 # 1
          OBVIOUS
        <5> QED
          BY <3>1, <5>1, Zenon
      <4> QED
        BY <1>3, <1>5, <4>1, SomeKey, Zenon
    <3> DEFINE k == sent[1]
    <3>4. /\ k \in Key /\ k \in Seq(Byte) /\ Len(sent) \in Nat \ {0}
          /\ Len(k) \in Nat \ {0} /\ Len(k) <= Len(Bytes) /\ Bytes[1] = k[1]
          /\ Len(sent[Len(sent)]) \in Nat \ {0}
          /\ Len(sent) > 1 => Len(k) + Len(sent[Len(sent)]) <= Len(Bytes)
      BY <1>3, <1>5, <3>3, FirstKey
    <3> HIDE DEF k
    <3>5. Len(k) = 1 /\ Len(sent) = 1
      <4>1. \A p, n, r \in Nat \ {0} : p <= 1 /\ (n > 1 => p + r <= 1) => p = 1 /\ n = 1
        OBVIOUS
      <4> QED
        BY <3>2, <3>4, <4>1, Zenon
    <3>6. k[1] = letter[1]
      BY <3>2, <3>4
    <3>7. k[1] = Esc
      <4> SUFFICES ASSUME k[1] # Esc PROVE FALSE
        OBVIOUS
      <4>1. Extra[k[1]] > 0
        BY <1>4, <2>2, <3>6, Zenon DEF Wanted
      <4>2. Len(k) = Extra[k[1]] + 1 /\ Extra[k[1]] \in 0 .. 3
        BY <3>4, <4>1, KeyShape
      <4> QED
        BY <3>5, <4>1, <4>2
    <3>8. ~Effective(k)
      <4>1. Esc \in Control \ {EOT, Newline}
        BY KeyAssumption
      <4>2. k \notin Command
        BY <3>5, <3>7, <4>1, KeyAssumption
      <4>3. Ignored(k)
        BY <3>5, <3>7, <4>1 DEF Ignored
      <4> QED
        BY <4>2, <4>3 DEF Effective
    <3>9. acted = delivered
      BY <1>7, <3>3, <3>5, <3>8, Zenon DEF Ends, k
    <3>10. letter = <<Esc>>
      <4>1. Esc \in Byte /\ letter[1] = Esc
        BY <3>6, <3>7, KeyAssumption
      <4> QED
        BY <3>1, <4>1
    <3> QED
      BY <3>9, <3>10
  <2> QED
    BY <1>1, <2>1, <2>2
<1>9. /\ wire' = <<>> /\ trash' = <<>> /\ letter' = letter /\ acted' = delivered'
      /\ pc' # "skip" /\ asked' = 1 /\ queue' = <<>>
  BY <1>1, <1>2, <1>4, <1>8
<1> QED
  BY <1>8, <1>9, Zenon DEF Quiet

LEMMA NextOrder == OrderInv /\ [Next]_vars => OrderInv'
<1> SUFFICES ASSUME OrderInv, [Next]_vars PROVE OrderInv'
  OBVIOUS
<1> USE DEF user, screen, typing
<1>1. ReaderTypes'
  BY NextReader DEF OrderInv
<1> SUFFICES Orderly'
  BY <1>1 DEF OrderInv
<1>2. ReaderTypes /\ Orderly
  BY DEF OrderInv
<1>3. ASSUME ReadOver PROVE Orderly'
  <2>1. pc = "read" /\ trash # <<>> /\ UNCHANGED disturbed /\ pc' \in {"between", "read"}
    BY <1>3, Acting DEF ReadOver
  <2>2. disturbed
    BY <1>2, <2>1 DEF Orderly, Flowing
  <2> QED
    BY <2>1, <2>2 DEF Orderly
<1>4. ASSUME Skip PROVE Orderly'
  <2>1. /\ pc \in {"query", "skip"} /\ queue # <<>> /\ queue' = Tail(queue)
        /\ pc' = IF Head(queue) = Esc THEN "answer" ELSE "skip"
        /\ UNCHANGED <<letter, trash, acted, disturbed, wire, delivered, asked>>
    BY <1>4 DEF Skip
  <2> SUFFICES ASSUME ~disturbed PROVE Quiet'
    BY <2>1 DEF Orderly
  <2>2. Quiet
    BY <1>2, <2>1 DEF Orderly, Asking
  <2>3. queue = Reply /\ asked = 0
    BY <2>1, <2>2 DEF Quiet
  <2>4. Head(Reply) = Esc
    BY KeyAssumption
  <2>5. pc' = "answer" /\ queue' = Tail(Reply)
    BY <2>1, <2>3, <2>4, Zenon
  <2> QED
    BY <2>1, <2>2, <2>3, <2>5 DEF Quiet
<1>5. ASSUME Prompt PROVE Orderly'
  <2>1. /\ pc' = "query" /\ asked' = asked + 1 /\ letter' = <<>> /\ trash' = <<>>
        /\ delivered' = <<>> /\ acted' = <<>> /\ UNCHANGED <<queue, wire>>
        /\ disturbed' = Pursued
    BY <1>5, Zenon DEF Prompt, Ask, NewEditor
  <2> SUFFICES ASSUME ~disturbed' PROVE Quiet'
    BY <2>1 DEF Orderly
  <2>2. queue = <<>> /\ wire = <<>> /\ ~(asked > 0)
    BY <2>1, Zenon DEF Pursued
  <2>3. asked' = 1
    BY <1>2, <2>1, <2>2 DEF ReaderTypes
  <2> QED
    BY <2>1, <2>2, <2>3 DEF Quiet
<1>6. ASSUME Rest PROVE Orderly'
  <2>1. /\ wire # <<>> /\ queue' = queue \o wire /\ wire' = <<>>
        /\ UNCHANGED <<pc, letter, trash, acted, disturbed, delivered, asked>>
    BY <1>6 DEF Rest
  <2> SUFFICES ASSUME ~disturbed PROVE pc \notin Asking /\ (pc \in {"read", "rest"} => Flowing')
    BY <2>1 DEF Orderly, Asking
  <2>2. pc \notin Asking
    BY <1>2, <2>1 DEF Orderly, Quiet
  <2> SUFFICES ASSUME pc \in {"read", "rest"} PROVE Flowing'
    BY <2>2
  <2>3. Flowing
    BY <1>2 DEF Orderly
  <2>4. PICK sent, at, nr : Flow(Bytes, acted, delivered, sent, at, nr) /\ Arrives(sent)
    BY <2>3, Zenon DEF Flowing
  <2>5. Bytes' = Bytes
    <3> DEFINE p == queue \o wire
    <3>1. letter \in Seq(Byte) /\ queue \in Seq(Byte) /\ wire \in Seq(Byte)
      BY <1>2 DEF ReaderTypes
    <3>2. p \in Seq(Byte)
      BY <3>1, ConcatProperties
    <3>3. (letter \o queue) \o wire = letter \o p
      BY <3>1, Associative, Zenon
    <3> HIDE DEF p
    <3>4. letter \o p \in Seq(Byte)
      BY <3>1, <3>2, ConcatProperties
    <3>5. (letter \o p) \o <<>> = letter \o p
      BY <3>4, ConcatEmptySeq
    <3>6. Bytes' = (letter \o p) \o <<>>
      BY <2>1, Zenon DEF Bytes, p
    <3> QED
      BY <3>3, <3>5, <3>6, Zenon DEF Bytes
  <2>6. Arrives(sent)'
    BY <2>1, <2>4, Zenon DEF Arrives
  <2>7. \E s, t, r : Flow(Bytes', acted', delivered', s, t, r) /\ Arrives(s)'
    BY <2>1, <2>4, <2>5, <2>6, Zenon
  <2> QED
    BY <2>1, <2>3, <2>7, Zenon DEF Flowing
<1>7. ASSUME Answered PROVE Orderly'
  <2>1. /\ asked > 0 /\ asked' = asked - 1 /\ queue' = queue \o Reply
        /\ UNCHANGED <<pc, letter, trash, acted, disturbed, delivered, wire>>
    BY <1>7 DEF Answered
  <2> SUFFICES ASSUME ~disturbed, pc \in Asking \/ pc \in {"read", "rest"} PROVE pc \in Asking /\ Quiet'
    BY <2>1 DEF Orderly, Asking
  <2>2. pc \in Asking
    BY <1>2, <2>1 DEF Orderly, Flowing
  <2>3. Quiet
    BY <1>2, <2>2 DEF Orderly
  <2>4. asked = 1 /\ queue = <<>>
    BY <2>1, <2>3 DEF Quiet
  <2>5. queue' = Reply /\ asked' = 0
    BY <2>1, <2>4, KeyAssumption
  <2> QED
    BY <2>1, <2>2, <2>3, <2>5 DEF Quiet
<1>8. ASSUME WindowChange \/ CtrlCForResize PROVE Orderly'
  BY <1>8, AskOrder DEF WindowChange, CtrlCForResize
<1>9. ASSUME CtrlC PROVE Orderly'
  BY <1>9 DEF CtrlC, Orderly, Asking
<1>10. ASSUME WindowChangeUnseen \/ UNCHANGED vars PROVE Orderly'
  <2>1. UNCHANGED <<pc, queue, letter, trash, acted, disturbed, wire, delivered, asked>>
    BY <1>10 DEF WindowChangeUnseen, vars
  <2>2. Flowing => Flowing'
    BY <2>1, Zenon DEF Flowing, Bytes, Arrives
  <2>3. Quiet => Quiet'
    BY <2>1, Zenon DEF Quiet
  <2> QED
    BY <1>2, <2>1, <2>2, <2>3, Zenon DEF Orderly, Asking
<1>11. ASSUME CrossFirst PROVE Orderly'
  <2>1. /\ pc = "query" /\ pc' = "answer" /\ queue = <<>>
        /\ UNCHANGED <<queue, letter, trash, acted, disturbed, wire, delivered, asked>>
    BY <1>11 DEF CrossFirst, Cross, Blocked
  <2> SUFFICES ASSUME ~disturbed PROVE Quiet'
    BY <2>1 DEF Orderly
  <2>2. Quiet
    BY <1>2, <2>1 DEF Orderly, Asking
  <2> QED
    BY <2>1, <2>2 DEF Quiet
<1>12. ASSUME CrossSecond PROVE Orderly'
  BY <1>12 DEF CrossSecond, Orderly
<1>13. ASSUME ReadFirst PROVE Orderly'
  BY <1>1, <1>13, ReadFirstOrder
<1>14. ASSUME ReadRest PROVE Orderly'
  BY <1>1, <1>14, ReadRestOrder
<1>15. ASSUME Position PROVE Orderly'
  BY <1>1, <1>15, PositionOrder
<1>16. ASSUME \E k \in Key : Press(k) PROVE Orderly'
  BY <1>1, <1>16, PressOrder
<1> QED
  BY <1>3, <1>4, <1>5, <1>6, <1>7, <1>8, <1>9, <1>10, <1>11, <1>12, <1>13, <1>14, <1>15, <1>16
  DEF Next, Reader, User, Signal

\* Nothing is left behind when all was read.
LEMMA OrderHolds == OrderInv => KeysInOrder
<1> SUFFICES ASSUME OrderInv, pc # "between", ~disturbed
             PROVE  /\ IsPrefix(acted, delivered)
                    /\ pc = "read" /\ queue = <<>> => acted = delivered
  BY DEF KeysInOrder
<1>1. ReaderTypes /\ acted \in Seq(Seq(Byte)) /\ delivered \in Seq(Seq(Byte))
  BY DEF OrderInv, ReaderTypes
<1>2. CASE pc \in Asking
  <2>1. acted = delivered
    BY <1>2 DEF OrderInv, Orderly, Quiet
  <2>2. IsPrefix(acted, acted)
    <3>1. <<>> \in Seq(Byte)
      BY EmptySeq
    <3>2. PICK at, nr : Flow(<<>>, acted, acted, <<>>, at, nr)
      BY <1>1, FlowNone
    <3>3. Ends(<<>>, acted, acted, <<>>)
      BY <1>1, <3>1, <3>2, FlowEnd
    <3> QED
      BY <3>3, Zenon DEF Ends
  <2> QED
    BY <2>1, <2>2, Zenon
<1>3. CASE pc \in {"read", "rest"}
  <2>1. PICK sent, at, nr : Flow(Bytes, acted, delivered, sent, at, nr) /\ Arrives(sent)
    BY <1>3, Zenon DEF OrderInv, Orderly, Flowing
  <2>2. Bytes \in Seq(Byte)
    BY <1>1, BytesNow
  <2>3. Ends(Bytes, acted, delivered, sent)
    BY <1>1, <2>1, <2>2, FlowEnd
  <2>4. ASSUME pc = "read", queue = <<>> PROVE acted = delivered
    <3>1. letter = <<>>
      BY <1>1, <2>4 DEF ReaderTypes
    <3>2. CASE sent = <<>>
      BY <2>3, <3>2, Zenon DEF Ends
    <3>3. CASE sent # <<>>
      <4> DEFINE r == Len(sent[Len(sent)])
                 z == Len(wire)
                 b == Len(Bytes)
      <4>1. r \in Nat \ {0} /\ r <= b
        <5>1. r \in Nat \ {0}
          BY <1>1, <2>1, <3>3, FirstKey
        <5>2. r <= b
          BY <2>3, <3>3, Zenon DEF Ends
        <5> QED
          BY <5>1, <5>2, Zenon
      <4>2. z \in Nat /\ b = z
        <5>1. b = Len(letter) + Len(queue) + z /\ z \in Nat
          BY <1>1, BytesNow
        <5>2. Len(letter) = 0 /\ Len(queue) = 0
          BY <2>4, <3>1, EmptySeq
        <5> HIDE DEF b, z
        <5> QED
          BY <5>1, <5>2
      <4>3. wire # <<>> => z = r - 1
        BY <2>1, Zenon DEF Arrives
      <4>4. wire = <<>> => z = 0
        BY EmptySeq
      <4> HIDE DEF r, z, b
      <4> QED
        BY <4>1, <4>2, <4>3, <4>4
    <3> QED
      BY <3>2, <3>3
  <2> QED
    BY <2>3, <2>4, Zenon DEF Ends
<1> QED
  BY <1>1, <1>2, <1>3 DEF ReaderTypes

\* Of a user who waits for what was typed to be read behind an escape sequence, and for
\* the prompt, the reader acts on each key that has a meaning, once and in the order in
\* which they came, and on nothing else: for any commands none of which is the
\* beginning of another and any keys that send a command, a character or a control
\* character, however their bytes arrive, whatever number of window changes and interrupts
\* come between, and whenever the terminal answers.
THEOREM KeysAreInOrder == Spec => []KeysInOrder
<1>1. Init => OrderInv
  <2> SUFFICES ASSUME Init PROVE OrderInv
    OBVIOUS
  <2>1. pc = "between"
    BY DEF Init
  <2> QED
    BY <2>1, InitReader DEF OrderInv, Orderly, Asking
<1>. QED  BY <1>1, NextOrder, OrderHolds, PTL DEF Spec

=============================================================================
