--------------------------- MODULE PipelineProofs ---------------------------
(***************************************************************************)
(* Proofs about Pipeline, for pipelines of any length, any redirections,   *)
(* and tables and pipes of any size.                                       *)
(***************************************************************************)
EXTENDS Pipeline, FiniteSetTheorems, WellFoundedInduction, TLAPS

-----------------------------------------------------------------------------
(* Descriptor tables                                                       *)

Desc == (Ends \X PipeId) \cup {Closed, Tty, File}
Table == [FD -> Desc]

\* A set of numbers that is not empty has a least member.
LEMMA LeastNumber ==
  ASSUME NEW S, S \subseteq Nat, S # {}
  PROVE  \E x \in S : \A y \in S : x =< y
<1>1. \E x \in S : \A y \in S : ~(<<y, x>> \in OpToRel(<, Nat))
  BY WFMin, NatLessThanWellFounded
<1>2. OpToRel(<, Nat) = {ss \in Nat \X Nat : ss[1] < ss[2]}
  BY Zenon DEF OpToRel
<1>3. PICK x \in S : \A y \in S : <<y, x>> \notin {ss \in Nat \X Nat : ss[1] < ss[2]}
  BY <1>1, <1>2
<1>4. ASSUME NEW y \in S, y < x PROVE FALSE
  <2> DEFINE pair == <<y, x>>
  <2>1. pair \in Nat \X Nat /\ pair[1] < pair[2]
    BY <1>4
  <2> QED
    BY <1>3, <2>1
<1> QED
  BY <1>4

\* A set of descriptors that is not empty has a least member.
LEMMA MinIsMember ==
  ASSUME NEW S, S \subseteq FD, S # {}
  PROVE  Min(S) \in S
<1>1. S \subseteq Nat
  BY PipelineAssumption DEF FD
<1>2. \E x \in S : \A y \in S : x =< y
  BY <1>1, LeastNumber
<1> QED
  BY <1>2 DEF Min

\* The descriptors that a pipe is given.
LEMMA PipeGiven ==
  ASSUME NEW table \in Table, NEW id \in PipeId, Cardinality(Free(table)) >= 2
  PROVE  /\ PipeFds(table) \in [0 .. 1 -> FD]
         /\ PipeFds(table)[0] = Lowest(table)
         /\ PipeFds(table)[0] # PipeFds(table)[1]
         /\ table[PipeFds(table)[0]] = Closed /\ table[PipeFds(table)[1]] = Closed
         /\ Piped(table, id) = [table EXCEPT ![PipeFds(table)[0]] = End(id, "r"),
                                             ![PipeFds(table)[1]] = End(id, "w")]
         /\ Piped(table, id) \in Table
<1> DEFINE r == Lowest(table)
           w == Min(Free(table) \ {r})
           one == [table EXCEPT ![r] = End(id, "r")]
<1>1. Free(table) \subseteq FD
  BY DEF Free
<1>2. IsFiniteSet(Free(table))
  <2>1. IsFiniteSet(FD)
    BY FS_Interval, PipelineAssumption DEF FD
  <2> QED
    BY <1>1, <2>1, FS_Subset
<1>3. Free(table) # {}
  BY FS_EmptySet
<1>4. r \in Free(table)
  BY <1>1, <1>3, MinIsMember DEF Lowest
<1>5. Free(table) \ {r} # {}
  <2>1. Cardinality(Free(table) \ {r}) = Cardinality(Free(table)) - 1
    BY <1>2, <1>4, FS_RemoveElement
  <2>2. Cardinality(Free(table)) \in Nat
    BY <1>2, FS_CardinalityType
  <2>3. Cardinality(Free(table) \ {r}) # 0
    BY <2>1, <2>2
  <2> QED
    BY <2>3, FS_EmptySet, Zenon
<1>6. w \in Free(table) /\ w # r
  BY <1>1, <1>5, MinIsMember
<1>7. Opened(table, End(id, "r")) = one
  BY <1>3 DEF Opened
<1>8. End(id, "r") # Closed /\ End(id, "w") # Closed
  BY DEF End, Closed
<1>9. Free(one) = Free(table) \ {r}
  BY <1>4, <1>8 DEF Free, Table
<1>10. Piped(table, id) = [one EXCEPT ![w] = End(id, "w")]
  BY <1>5, <1>7, <1>9 DEF Piped, Opened, Lowest
<1>11. PipeFds(table) = [i \in 0 .. 1 |-> IF i = 0 THEN r ELSE w]
  BY DEF PipeFds
<1>12. table[r] = Closed /\ table[w] = Closed
  BY <1>4, <1>6 DEF Free
<1>13. End(id, "r") \in Desc /\ End(id, "w") \in Desc
  BY DEF End, Ends, Desc
<1>14. r = Lowest(table)
  OBVIOUS
<1> HIDE DEF r, w
<1>15. PipeFds(table)[0] = r /\ PipeFds(table)[1] = w
  BY <1>11
<1>16. one \in Table
  BY <1>13 DEF Table
<1>17. Piped(table, id) \in Table
  BY <1>10, <1>13, <1>16 DEF Table
<1> QED
  BY <1>1, <1>4, <1>6, <1>10, <1>11, <1>12, <1>14, <1>15, <1>17

-----------------------------------------------------------------------------
(* The shell's own descriptors                                             *)

\* While the shell has a pipe open, closing the two descriptors it has noted in
\* fdpipe gives it the table of the prompt; at all other times it has that table.
ShellTable ==
  /\ DOMAIN pc = Proc /\ DOMAIN fds = Proc /\ DOMAIN fdpipe = Proc
  /\ pc[Shell] \in {"pipe", "forkLeft", "forkRight", "giveUp", "close",
                    "waitLeft", "waitRight", "done"}
  /\ IF pc[Shell] \in {"forkLeft", "forkRight", "giveUp", "close"}
     THEN WithoutPipe(Shell) = AtPrompt
     ELSE fds[Shell] = AtPrompt

LEMMA ShellIsNoChild ==
  /\ Shell \in Proc
  /\ \A k \in 1 .. N : Member(k) \in Proc /\ Member(k) # Shell
  /\ \A k \in 2 .. N : Evaluator(k) \in Proc
  /\ \A k \in 2 .. N : LeftChild(k) \in Proc /\ LeftChild(k) # Shell
  /\ \A k \in 2 .. N : RightChild(k) \in Proc /\ RightChild(k) # Shell
  /\ \A k \in 2 .. N : Evaluator(k) = Shell <=> k = N
<1>1. N \in Nat /\ N >= 2
  BY PipelineAssumption
<1>2. "member" # "evaluator"
  OBVIOUS
<1> QED
  BY <1>1, <1>2 DEF Shell, Proc, Evaluator, Member, LeftChild, RightChild

LEMMA AtPromptType == AtPrompt \in Table
BY DEF AtPrompt, Table, Desc

\* A step of another process that leaves pc, fds and fdpipe of the shell alone.
LEMMA OtherStep ==
  ASSUME ShellTable,
         DOMAIN pc' = Proc, DOMAIN fds' = Proc, DOMAIN fdpipe' = Proc,
         pc'[Shell] = pc[Shell], fds'[Shell] = fds[Shell], fdpipe'[Shell] = fdpipe[Shell]
  PROVE  ShellTable'
BY DEF ShellTable, WithoutPipe

\* A call of parse_ast_pipe in a child.
LEMMA InnerEvaluation ==
  ASSUME ShellTable, NEW k \in 2 .. N, k # N, Evaluation(k)
  PROVE  ShellTable'
<1>1. /\ Evaluator(k) \in Proc /\ Evaluator(k) # Shell
      /\ LeftChild(k) \in Proc /\ LeftChild(k) # Shell
      /\ RightChild(k) \in Proc /\ RightChild(k) # Shell
      /\ Shell \in Proc
  BY ShellIsNoChild
<1>2. CASE MakePipe(k)
  BY <1>1, <1>2, OtherStep DEF MakePipe, Goto, ShellTable
<1>3. CASE ForkLeft(k) \/ ForkRight(k)
  BY <1>1, <1>3, OtherStep DEF ForkLeft, ForkRight, Fork, ShellTable
<1>4. CASE PipeFails(k) \/ GiveUp(k) \/ WaitRight(k)
  BY <1>1, <1>4, OtherStep DEF PipeFails, GiveUp, WaitRight, Leave, Goto, ShellTable
<1>5. CASE ForkFails(k) \/ CloseBoth(k) \/ WaitLeft(k)
  BY <1>1, <1>5, OtherStep DEF ForkFails, CloseBoth, WaitLeft, Goto, ShellTable
<1> QED
  BY <1>2, <1>3, <1>4, <1>5 DEF Evaluation

\* The shell's own call: the pipe it makes comes off again on every path.
LEMMA ShellEvaluation ==
  ASSUME ShellTable, Evaluation(N)
  PROVE  ShellTable'
<1>1. /\ Shell \in Proc /\ Evaluator(N) = Shell
      /\ LeftChild(N) \in Proc /\ LeftChild(N) # Shell
      /\ RightChild(N) \in Proc /\ RightChild(N) # Shell
  BY ShellIsNoChild, PipelineAssumption
<1>2. CASE MakePipe(N)
  <2>1. fds[Shell] = AtPrompt /\ N \in PipeId
    BY <1>1, <1>2, PipelineAssumption DEF MakePipe, At, ShellTable, PipeId
  <2> DEFINE r == PipeFds(AtPrompt)[0]
             w == PipeFds(AtPrompt)[1]
  <2>2. Close(Close(Piped(AtPrompt, N), r), w) = AtPrompt
    <3>1. Cardinality(Free(AtPrompt)) >= 2
      BY <1>1, <1>2, <2>1 DEF MakePipe
    <3>2. /\ r \in FD /\ w \in FD /\ r # w /\ AtPrompt[r] = Closed /\ AtPrompt[w] = Closed
          /\ Piped(AtPrompt, N) = [AtPrompt EXCEPT ![r] = End(N, "r"), ![w] = End(N, "w")]
      BY <2>1, <3>1, AtPromptType, PipeGiven
    <3> QED
      BY <3>2, AtPromptType DEF Close, Table
  <2>3. /\ pc' = [pc EXCEPT ![Shell] = "forkLeft"]
        /\ fds' = [fds EXCEPT ![Shell] = Piped(AtPrompt, N)]
        /\ fdpipe' = [fdpipe EXCEPT ![Shell] = PipeFds(AtPrompt)]
    BY <1>1, <1>2, <2>1 DEF MakePipe, Goto
  <2>4. fdpipe'[Shell][0] = r /\ fdpipe'[Shell][1] = w
    BY <1>1, <2>3 DEF ShellTable
  <2> HIDE DEF r, w
  <2> QED
    BY <1>1, <2>2, <2>3, <2>4 DEF ShellTable, WithoutPipe
<1>3. CASE ForkLeft(N) \/ ForkRight(N)
  BY <1>1, <1>3 DEF ForkLeft, ForkRight, Fork, At, ShellTable, WithoutPipe
<1>4. CASE PipeFails(N) \/ GiveUp(N) \/ WaitRight(N)
  BY <1>1, <1>4 DEF PipeFails, GiveUp, WaitRight, Leave, Goto, At, ShellTable
<1>5. CASE ForkFails(N) \/ WaitLeft(N)
  BY <1>1, <1>5 DEF ForkFails, WaitLeft, Goto, At, ShellTable, WithoutPipe
<1>6. CASE CloseBoth(N)
  BY <1>1, <1>6 DEF CloseBoth, Goto, At, ShellTable
<1> QED
  BY <1>2, <1>3, <1>4, <1>5, <1>6 DEF Evaluation

\* The children's own set-up, and the commands.
LEMMA ChildStep ==
  ASSUME ShellTable,
         \/ \E p \in Proc : Plumbing(p)
         \/ \E k \in 1 .. N : Command(k) \/ Quit(k)
  PROVE  ShellTable'
<1> USE ShellIsNoChild
<1>1. CASE \E p \in Proc : Plumbing(p)
  BY <1>1 DEF Plumbing, CloseOther, DupOwn, Goto, At, ShellTable, WithoutPipe
<1>2. ASSUME NEW k \in 1 .. N, Command(k) \/ Quit(k) PROVE ShellTable'
  <2>1. CASE Redirect(k)
    BY <2>1, OtherStep DEF Redirect, ShellTable
  <2>2. CASE HereOpen(k)
    BY <2>2, OtherStep DEF HereOpen, Goto, ShellTable
  <2>3. CASE HereWrite(k)
    BY <2>3, OtherStep DEF HereWrite, Goto, ShellTable
  <2>4. CASE Exec(k)
    BY <2>4, OtherStep DEF Exec, Goto, ShellTable
  <2>5. CASE Read(k) \/ Write(k)
    BY <2>5, OtherStep DEF Read, Write, ShellTable
  <2>6. CASE EndOfFile(k) \/ BrokenPipe(k) \/ HereBroken(k) \/ Quit(k)
    BY <2>6, OtherStep DEF EndOfFile, BrokenPipe, HereBroken, Quit, Stop, Exit, Goto, ShellTable
  <2> QED
    BY <1>2, <2>1, <2>2, <2>3, <2>4, <2>5, <2>6 DEF Command
<1> QED
  BY <1>1, <1>2

LEMMA ShellTableInvariant == Spec => []ShellTable
<1>1. Init => ShellTable
  BY ShellIsNoChild DEF Init, ShellTable
<1>2. ShellTable /\ [Next]_vars => ShellTable'
  <2>1. CASE UNCHANGED vars
    BY <2>1 DEF vars, ShellTable, WithoutPipe
  <2>2. CASE Next
    <3>1. CASE \E k \in 2 .. N : Evaluation(k)
      BY <3>1, InnerEvaluation, ShellEvaluation
    <3>2. CASE Done
      BY <2>1, <3>2 DEF Done, vars, ShellTable, WithoutPipe
    <3> QED
      BY <2>2, <3>1, <3>2, ChildStep DEF Next
  <2> QED
    BY <2>1, <2>2
<1> QED
  BY <1>1, <1>2, PTL DEF Spec

\* A line leaves the shell with the descriptors it had at the prompt, for any
\* pipeline and whatever pipe or fork fails: each path of parse_ast_pipe closes
\* both ends that it has made, by the numbers that pipe gave them.
THEOREM ShellKeepsDescriptors == Spec => []ShellClean
<1>1. ShellTable => ShellClean
  BY DEF ShellTable, ShellClean, At
<1> QED
  BY <1>1, ShellTableInvariant, PTL

-----------------------------------------------------------------------------
(* The ends of a pipe, and who holds them                                  *)

\* The pipe between p and its parent.
PipeOf(p) ==
  IF p[1] = "evaluator" THEN p[2] + 1 ELSE IF p[2] = 1 THEN 2 ELSE p[2]

\* The table of Evaluator(k) when it has no pipe open: what it writes goes to the
\* command on its right.
Base(k) == IF k = N THEN AtPrompt ELSE [AtPrompt EXCEPT ![1] = End(k + 1, "w")]

\* Its pipe is in two descriptors that are free without it.
GoodPipe(k, f) ==
  /\ f[0] \in FD /\ f[1] \in FD /\ f[0] # f[1]
  /\ Base(k)[f[0]] = Closed /\ Base(k)[f[1]] = Closed
WithPipe(k, f) == [Base(k) EXCEPT ![f[0]] = End(k, "r"), ![f[1]] = End(k, "w")]

OtherSide(p) == IF IsOut(p) THEN 0 ELSE 1

States == {"absent", "plumb", "dup", "pipe", "forkLeft", "forkRight", "giveUp", "close",
           "waitLeft", "waitRight", "redirect", "hereWrite", "program", "dead", "done"}
Own == {"redirect", "hereWrite", "program"}

PipelineTypes ==
  /\ pc \in [Proc -> States]
  /\ fds \in [Proc -> Table]
  /\ fdpipe \in [Proc -> [0 .. 1 -> FD]]
  /\ plan \in Plans
  /\ made \in [1 .. N -> Nat]
  /\ ended \in [1 .. N -> {"no", "eof", "end", "sigpipe", "quit"}]
  /\ failed \in BOOLEAN

\* What the states are for.
InPlace(p) ==
  /\ pc[p] = "done" => p = Shell
  /\ ~(p[1] = "evaluator") => pc[p] \in {"absent", "plumb", "dup", "dead"} \cup Own

\* The left child is forked first and waited for first; nobody ends before the
\* children it has forked, unless something has failed.
InOrder(k) ==
  /\ pc[Evaluator(k)] \notin Own
  /\ pc[Evaluator(k)] \in {"absent", "plumb", "dup", "pipe", "forkLeft"} =>
       pc[LeftChild(k)] = "absent"
  /\ pc[Evaluator(k)] \in {"absent", "plumb", "dup", "pipe", "forkLeft", "forkRight"} =>
       pc[RightChild(k)] = "absent"
  /\ pc[Evaluator(k)] \in {"forkRight", "close", "waitLeft", "waitRight"} =>
       pc[LeftChild(k)] # "absent"
  /\ pc[Evaluator(k)] \in {"close", "waitLeft", "waitRight"} =>
       pc[RightChild(k)] # "absent"
  /\ pc[Evaluator(k)] = "giveUp" => failed
  /\ ~failed /\ pc[Evaluator(k)] \in {"waitRight", "dead", "done"} =>
       pc[LeftChild(k)] = "dead"
  /\ ~failed /\ pc[Evaluator(k)] \in {"dead", "done"} => pc[RightChild(k)] = "dead"

EvaluatorTable(k) ==
  /\ pc[Evaluator(k)] \in {"pipe", "waitLeft", "waitRight"} =>
       fds[Evaluator(k)] = Base(k)
  /\ pc[Evaluator(k)] \in {"forkLeft", "forkRight", "giveUp", "close"} =>
       /\ GoodPipe(k, fdpipe[Evaluator(k)])
       /\ fds[Evaluator(k)] = WithPipe(k, fdpipe[Evaluator(k)])

\* A child begins with its parent's table and closes the end it does not use.
ChildTable(p) ==
  /\ pc[p] \in {"plumb", "dup"} => GoodPipe(PipeOf(p), fdpipe[p])
  /\ pc[p] = "plumb" => fds[p] = WithPipe(PipeOf(p), fdpipe[p])
  /\ pc[p] = "dup" =>
       fds[p] = Close(WithPipe(PipeOf(p), fdpipe[p]), fdpipe[p][OtherSide(p)])

\* A command keeps its ends of the pipes beside it, whatever is redirected, and it has
\* the write end of no other but for its here-document's while that is written.
CommandTable(k) ==
  pc[Member(k)] \in Own =>
    /\ ~failed /\ k < N => \E f \in FD : fds[Member(k)][f] = End(k + 1, "w")
    /\ ~failed /\ k > 1 => \E f \in FD : fds[Member(k)][f] = End(k, "r")
    /\ \A f \in FD : fds[Member(k)][f][1] = "w" =>
         \/ k < N /\ fds[Member(k)][f] = End(k + 1, "w")
         \/ /\ pc[Member(k)] = "hereWrite" /\ f = fdpipe[Member(k)][1]
            /\ fds[Member(k)][f] = End(N + k, "w")
    /\ pc[Member(k)] = "hereWrite" => HereEnd(k) \in {End(N + k, "w"), End(N + k, "r")}

EndedRight(k) ==
  /\ ended[k] = "eof" => k > 1 /\ (~failed => pc[Member(k - 1)] = "dead")
  /\ ended[k] = "sigpipe" => k < N /\ (~failed => pc[Member(k + 1)] = "dead")

PipelineInv ==
  /\ PipelineTypes
  /\ \A k \in 2 .. N : InOrder(k) /\ EvaluatorTable(k)
  /\ \A p \in Proc : InPlace(p)
  /\ \A p \in Proc \ {Shell} : ChildTable(p)
  /\ \A k \in 1 .. N : CommandTable(k) /\ EndedRight(k)

LEMMA ProcFacts ==
  /\ \A k \in 2 .. N : Evaluator(k) \in Proc /\ PipeOf(Evaluator(k)) = k + 1
                       /\ IsOut(Evaluator(k)) /\ Evaluator(k)[1] = "evaluator"
  /\ \A k \in 1 .. N : /\ Member(k) \in Proc /\ Member(k)[1] # "evaluator"
                       /\ PipeOf(Member(k)) = (IF k = 1 THEN 2 ELSE k)
                       /\ IsOut(Member(k)) <=> k = 1
  /\ \A p \in Proc : (\E k \in 2 .. N : p = Evaluator(k)) \/ (\E k \in 1 .. N : p = Member(k))
  /\ \A k, j : Evaluator(k) # Member(j)
  /\ \A k, j : Evaluator(k) = Evaluator(j) => k = j
  /\ \A k, j : Member(k) = Member(j) => k = j
<1>1. N \in Nat /\ N >= 2
  BY PipelineAssumption
<1>2. "member" # "evaluator"
  OBVIOUS
<1>3. \A k : Evaluator(k)[1] = "evaluator" /\ Evaluator(k)[2] = k
  BY DEF Evaluator
<1>4. \A k : Member(k)[1] = "member" /\ Member(k)[2] = k
  BY DEF Member
<1>5. \A k, j : Evaluator(k) # Member(j)
  BY <1>2, <1>3, <1>4
<1>6. \A k, j : Evaluator(k) = Evaluator(j) => k = j
  BY <1>3
<1>7. \A k, j : Member(k) = Member(j) => k = j
  BY <1>4
<1>8. \A k \in 2 .. N : Evaluator(k) \in Proc
  BY DEF Proc
<1>9. \A k \in 1 .. N : Member(k) \in Proc
  BY DEF Proc
<1>10. \A p \in Proc :
         (\E k \in 2 .. N : p = Evaluator(k)) \/ (\E k \in 1 .. N : p = Member(k))
  BY DEF Proc
<1>11. \A k \in 2 .. N : PipeOf(Evaluator(k)) = k + 1 /\ IsOut(Evaluator(k))
  BY <1>3 DEF PipeOf, IsOut
<1>12. \A k \in 1 .. N : /\ PipeOf(Member(k)) = (IF k = 1 THEN 2 ELSE k)
                         /\ IsOut(Member(k)) <=> k = 1
  BY <1>2, <1>4, <1>7 DEF PipeOf, IsOut
<1> QED
  BY <1>2, <1>3, <1>4, <1>5, <1>6, <1>7, <1>8, <1>9, <1>10, <1>11, <1>12, Zenon

\* The two children of a call, told apart from each other and from their parent.
LEMMA FamilyFacts ==
  ASSUME NEW k \in 2 .. N
  PROVE  /\ LeftChild(k) \in Proc \ {Shell} /\ RightChild(k) \in Proc \ {Shell}
         /\ LeftChild(k) # RightChild(k)
         /\ LeftChild(k) # Evaluator(k) /\ RightChild(k) # Evaluator(k)
         /\ PipeOf(LeftChild(k)) = k /\ PipeOf(RightChild(k)) = k
         /\ IsOut(LeftChild(k)) /\ ~IsOut(RightChild(k))
<1>1. N \in Nat /\ N >= 2
  BY PipelineAssumption
<1>2. CASE k = 2
  BY <1>1, <1>2, ProcFacts, ShellIsNoChild DEF LeftChild, RightChild
<1>3. CASE k # 2
  BY <1>1, <1>3, ProcFacts, ShellIsNoChild DEF LeftChild, RightChild
<1> QED
  BY <1>2, <1>3

\* Each child is of one call.
LEMMA ChildrenDiffer ==
  ASSUME NEW k \in 2 .. N, NEW j \in 2 .. N, k # j
  PROVE  /\ LeftChild(k) # LeftChild(j) /\ RightChild(k) # RightChild(j)
         /\ LeftChild(k) # RightChild(j) /\ Evaluator(k) # Evaluator(j)
         /\ RightChild(k) # Evaluator(j)
         /\ LeftChild(k) = Evaluator(j) <=> k = j + 1
<1>1. N \in Nat /\ N >= 2
  BY PipelineAssumption
<1> QED
  BY <1>1, ProcFacts DEF LeftChild, RightChild

\* p is the parent of a child, in terms of the child.
LEMMA ParentOf ==
  ASSUME NEW p \in Proc \ {Shell}
  PROVE  /\ PipeOf(p) \in 2 .. N
         /\ p = LeftChild(PipeOf(p)) \/ p = RightChild(PipeOf(p))
<1>1. N \in Nat /\ N >= 2
  BY PipelineAssumption
<1>2. CASE \E k \in 2 .. N : p = Evaluator(k)
  BY <1>1, <1>2, ProcFacts DEF LeftChild, Shell
<1>3. CASE \E k \in 1 .. N : p = Member(k)
  BY <1>1, <1>3, ProcFacts DEF LeftChild, RightChild
<1> QED
  BY <1>2, <1>3, ProcFacts

\* The tables of the calls of parse_ast_pipe.
LEMMA BaseFacts ==
  ASSUME NEW k \in 2 .. N
  PROVE  /\ Base(k) \in Table
         /\ Base(k)[0] = Tty /\ Base(k)[1] # Closed
         /\ k < N => Base(k)[1] = End(k + 1, "w")
         /\ \A f \in FD : Base(k)[f][1] = "w" => k < N /\ Base(k)[f] = End(k + 1, "w")
         /\ \A f \in FD : Base(k)[f][1] # "r"
<1>1. N \in Nat /\ N >= 2 /\ MaxFd \in Nat /\ MaxFd >= 5
  BY PipelineAssumption
<1>2. 0 \in FD /\ 1 \in FD
  BY <1>1 DEF FD
<1>3. AtPrompt \in Table /\ AtPrompt[0] = Tty /\ AtPrompt[1] = Tty
  BY <1>2 DEF AtPrompt, Table, Desc
<1>4. \A f \in FD : AtPrompt[f] \in {Tty, Closed}
  BY DEF AtPrompt
<1>5. Tty[1] \notin {"r", "w"} /\ Closed[1] \notin {"r", "w"} /\ Tty # Closed
  BY DEF Tty, Closed
<1>6. CASE k = N
  BY <1>2, <1>3, <1>4, <1>5, <1>6 DEF Base
<1>7. CASE k # N
  <2>1. k < N /\ k + 1 \in PipeId
    BY <1>1, <1>7 DEF PipeId
  <2>2. End(k + 1, "w") \in Desc /\ End(k + 1, "w")[1] = "w" /\ End(k + 1, "w") # Closed
    BY <2>1 DEF End, Desc, Ends, Closed
  <2>3. Base(k) = [AtPrompt EXCEPT ![1] = End(k + 1, "w")]
    BY <1>7 DEF Base
  <2> QED
    BY <1>2, <1>3, <1>4, <1>5, <2>1, <2>2, <2>3 DEF Table
<1> QED
  BY <1>6, <1>7

\* What each variable may hold.
LEMMA PipelineTyped ==
  ASSUME PipelineTypes, [Next]_vars
  PROVE  PipelineTypes'
<1> USE DEF PipelineTypes
<1>0. CASE UNCHANGED vars
  BY <1>0 DEF vars
<1>1. N \in Nat /\ N >= 2 /\ MaxFd \in Nat /\ MaxFd >= 5
  BY PipelineAssumption
<1>2. 0 \in FD /\ 1 \in FD /\ NoFds \in Table
  BY <1>1 DEF FD, NoFds, Table, Desc
<1>3. \A t \in Table, f \in FD : Close(t, f) \in Table
  BY DEF Close, Table, Desc
<1>4. \A t \in Table, f, g \in FD : Dup2(t, f, g) \in Table
  BY DEF Dup2, Table
<1>5. \A t \in Table, d \in Desc : Opened(t, d) \in Table
  <2> SUFFICES ASSUME NEW t \in Table, NEW d \in Desc PROVE Opened(t, d) \in Table
    OBVIOUS
  <2>1. CASE Free(t) = {}
    BY <2>1 DEF Opened
  <2>2. CASE Free(t) # {}
    BY <2>2 DEF Opened, Table
  <2> QED
    BY <2>1, <2>2
<1>6. \A p \in Proc : /\ fds[p] \in Table
                     /\ \A i \in 0 .. 1 : fdpipe[p][i] \in FD /\ Close(fds[p], fdpipe[p][i]) \in Table
  BY <1>3
<1>7. \A p \in Proc : WithoutPipe(p) \in Table
  BY <1>3, <1>6 DEF WithoutPipe
<1>8. ASSUME NEW k \in 2 .. N, Evaluation(k) PROVE PipelineTypes'
  <2>0. Evaluator(k) \in Proc /\ LeftChild(k) \in Proc /\ RightChild(k) \in Proc /\ k \in PipeId
    BY <1>1, ProcFacts, FamilyFacts DEF PipeId
  <2>1. CASE MakePipe(k)
    BY <2>0, <2>1, PipeGiven DEF MakePipe, Goto, States
  <2>2. CASE PipeFails(k) \/ GiveUp(k) \/ WaitRight(k)
    BY <1>2, <1>6, <1>7, <2>0, <2>2 DEF PipeFails, GiveUp, WaitRight, Leave, Goto, States
  <2>3. CASE ForkLeft(k) \/ ForkRight(k)
    BY <2>0, <2>3 DEF ForkLeft, ForkRight, Fork, States
  <2>4. CASE ForkFails(k) \/ CloseBoth(k) \/ WaitLeft(k)
    BY <1>7, <2>0, <2>4 DEF ForkFails, CloseBoth, WaitLeft, Goto, States
  <2> QED
    BY <1>8, <2>1, <2>2, <2>3, <2>4 DEF Evaluation
<1>9. ASSUME NEW p \in Proc, Plumbing(p) PROVE PipelineTypes'
  <2>1. CASE CloseOther(p)
    BY <1>9, <1>6, <2>1 DEF CloseOther, Goto, States
  <2>2. CASE DupOwn(p)
    <3> DEFINE b == IF IsOut(p) THEN 1 ELSE 0
    <3>1. Close(Dup2(fds[p], fdpipe[p][b], b), fdpipe[p][b]) \in Table
      BY <1>2, <1>3, <1>4, <1>6
    <3> QED
      BY <1>9, <2>2, <3>1 DEF DupOwn, Goto, States
  <2> QED
    BY <1>9, <2>1, <2>2 DEF Plumbing
<1>10. ASSUME NEW k \in 1 .. N, Command(k) \/ Quit(k) PROVE PipelineTypes'
  <2>0. Member(k) \in Proc /\ N + k \in PipeId
    BY <1>1, ProcFacts DEF PipeId
  <2>1. Redirects(k) => ThisRedirection(k) \in Redirection
    <3>1. plan[k] \in Seq(Redirection)
      BY PipelineAssumption
    <3> QED
      BY <3>1 DEF Redirects, ThisRedirection
  <2>2. CASE Redirect(k)
    <3> DEFINE r == ThisRedirection(k)
               t == fds[Member(k)]
    <3>1. r.target \in FD /\ r.fd \in FD
      BY <2>1, <2>2 DEF Redirect, Redirection, FD
    <3>2. File \in Desc
      BY DEF Desc
    <3>3. FileOpened(t, r) \in Table
      BY <1>5, <2>0, <3>2 DEF FileOpened
    <3>4. Saved(FileOpened(t, r), r.fd) \in Table
      BY <1>5, <3>1, <3>3 DEF Saved, Table
    <3>5. \A u \in Table : Replaced(u, r) \in Table
      BY <1>4, <3>1, <3>2 DEF Replaced, Table
    <3>6. Redirected(t, r) \in Table
      BY <3>4, <3>5 DEF Redirected
    <3> HIDE DEF r, t
    <3> QED
      BY <2>0, <2>2, <3>6 DEF Redirect, r, t
  <2>3. CASE HereOpen(k)
    <3> DEFINE fd == ThisRedirection(k).fd
               saved == Saved(fds[Member(k)], fd)
    <3>1. fd \in FD
      BY <2>1, <2>3 DEF HereOpen, Redirection, FD
    <3>2. saved \in Table
      <4>1. fds[Member(k)] \in Table /\ fds[Member(k)][fd] \in Desc
        BY <2>0, <3>1 DEF Table
      <4> QED
        BY <1>5, <4>1 DEF Saved
    <3> HIDE DEF fd, saved
    <3>3. Cardinality(Free(saved)) >= 2
      BY <2>3 DEF HereOpen, fd, saved
    <3>4. /\ Piped(saved, N + k) \in Table /\ Lowest(saved) \in FD
          /\ PipeFds(saved) \in [0 .. 1 -> FD]
      BY <2>0, <3>2, <3>3, PipeGiven
    <3>5. Close(Dup2(Piped(saved, N + k), Lowest(saved), fd), Lowest(saved)) \in Table
      BY <1>3, <1>4, <3>1, <3>4
    <3> QED
      BY <2>0, <2>3, <3>4, <3>5 DEF HereOpen, Goto, States, fd, saved
  <2>4. CASE HereWrite(k)
    BY <1>6, <2>0, <2>4 DEF HereWrite, Goto, States
  <2>5. CASE Exec(k) \/ Read(k) \/ Write(k)
    BY <2>0, <2>5 DEF Exec, Read, Write, Goto, States
  <2>6. CASE EndOfFile(k) \/ BrokenPipe(k) \/ HereBroken(k) \/ Quit(k)
    BY <1>2, <2>0, <2>6 DEF EndOfFile, BrokenPipe, HereBroken, Quit, Stop, Exit, Goto, States
  <2> QED
    BY <1>10, <2>2, <2>3, <2>4, <2>5, <2>6 DEF Command
<1> QED
  BY <1>0, <1>8, <1>9, <1>10 DEF Next, Done

LEMMA PipelineOrdered ==
  ASSUME PipelineTypes, \A k \in 2 .. N : InOrder(k), [Next]_vars, NEW j \in 2 .. N
  PROVE  InOrder(j)'
<1> DEFINE p == Evaluator(j)
           l == LeftChild(j)
           r == RightChild(j)
<1>0. CASE UNCHANGED vars
  BY <1>0 DEF vars, InOrder
<1>1. /\ DOMAIN pc = Proc /\ Shell \in Proc
      /\ p \in Proc /\ l \in Proc /\ r \in Proc /\ l # r /\ l # p /\ r # p
      /\ l # Shell /\ r # Shell
  BY ProcFacts, FamilyFacts, ShellIsNoChild DEF PipelineTypes
<1>2. InOrder(j)
  OBVIOUS
<1> USE DEF Own
\* A child that has been forked goes its way, up to its end.
<1>3. ASSUME NEW q \in Proc, NEW s, pc' = [pc EXCEPT ![q] = s], q # p, failed => failed',
             pc[q] \notin {"absent", "dead"}, s # "absent"
      PROVE  InOrder(j)'
  BY <1>1, <1>2, <1>3 DEF InOrder
<1>4. ASSUME NEW k \in 2 .. N, Evaluation(k) PROVE InOrder(j)'
  <2>0. Evaluator(k) \in Proc
    BY ProcFacts
  <2>1. CASE k # j
    <3>1. Evaluator(k) # p
      BY <2>1, ProcFacts
    <3>2. CASE ForkLeft(k) \/ ForkRight(k)
      <4>1. LeftChild(k) # l /\ LeftChild(k) # r /\ RightChild(k) # l /\ RightChild(k) # r
            /\ RightChild(k) # p /\ LeftChild(k) # RightChild(k)
            /\ LeftChild(k) \in Proc /\ RightChild(k) \in Proc
        BY <2>1, ChildrenDiffer, FamilyFacts
      <4>2. InOrder(k)
        OBVIOUS
      <4>3. ASSUME NEW c \in Proc, NEW s,
                   pc' = [pc EXCEPT ![Evaluator(k)] = s, ![c] = "plumb"],
                   failed' = failed, pc[c] = "absent", c # l, c # r,
                   pc[Evaluator(k)] \in {"forkLeft", "forkRight"}, s \in {"forkRight", "close"}
            PROVE  InOrder(j)'
        BY <1>1, <1>2, <2>0, <3>1, <4>3 DEF InOrder
      <4> QED
        BY <3>2, <4>1, <4>2, <4>3 DEF ForkLeft, ForkRight, Fork, At, InOrder
    <3>3. CASE MakePipe(k) \/ PipeFails(k) \/ GiveUp(k) \/ CloseBoth(k)
      BY <1>3, <2>0, <3>1, <3>3
      DEF MakePipe, PipeFails, GiveUp, CloseBoth, Leave, Goto, At
    <3>4. CASE ForkFails(k) \/ WaitLeft(k) \/ WaitRight(k)
      BY <1>3, <2>0, <3>1, <3>4 DEF ForkFails, WaitLeft, WaitRight, Leave, Goto, At
    <3> QED
      BY <1>4, <3>2, <3>3, <3>4 DEF Evaluation
  <2>2. CASE k = j
    <3>1. CASE MakePipe(j) \/ PipeFails(j) \/ GiveUp(j) \/ CloseBoth(j)
      BY <1>1, <1>2, <3>1 DEF MakePipe, PipeFails, GiveUp, CloseBoth, Leave, Goto, At, InOrder
    <3>2. CASE ForkLeft(j)
      BY <1>1, <1>2, <3>2 DEF ForkLeft, Fork, At, InOrder
    <3>3. CASE ForkRight(j)
      BY <1>1, <1>2, <3>3 DEF ForkRight, Fork, At, InOrder
    <3>4. CASE ForkFails(j) \/ WaitLeft(j) \/ WaitRight(j)
      <4>1. failed \in BOOLEAN
        BY DEF PipelineTypes
      <4> QED
        BY <1>1, <1>2, <3>4, <4>1 DEF ForkFails, WaitLeft, WaitRight, Leave, Goto, At, InOrder
    <3> QED
      BY <1>4, <2>2, <3>1, <3>2, <3>3, <3>4 DEF Evaluation
  <2> QED
    BY <2>1, <2>2
<1>5. ASSUME NEW q \in Proc, Plumbing(q) PROVE InOrder(j)'
  <2>1. CASE q # p
    BY <1>3, <1>5, <2>1 DEF Plumbing, CloseOther, DupOwn, Goto, At
  <2>2. CASE q = p
    <3>1. p[1] = "evaluator"
      BY ProcFacts
    <3> QED
      BY <1>1, <1>2, <1>5, <2>2, <3>1 DEF Plumbing, CloseOther, DupOwn, Goto, At, InOrder
  <2> QED
    BY <2>1, <2>2
<1>6. ASSUME NEW k \in 1 .. N, Command(k) \/ Quit(k) PROVE InOrder(j)'
  <2>1. Member(k) \in Proc /\ Member(k) # p
    BY ProcFacts
  <2>2. CASE Redirect(k) \/ Read(k) \/ Write(k)
    BY <1>2, <2>2 DEF Redirect, Read, Write, InOrder
  <2>3. CASE HereOpen(k)
    BY <1>3, <2>1, <2>3 DEF HereOpen, Goto, At
  <2>5. CASE HereWrite(k) \/ Exec(k)
    BY <1>3, <2>1, <2>5 DEF HereWrite, Exec, Goto, At
  <2>4. CASE EndOfFile(k) \/ BrokenPipe(k) \/ HereBroken(k) \/ Quit(k)
    BY <1>3, <2>1, <2>4 DEF EndOfFile, BrokenPipe, HereBroken, Quit, Stop, Exit, Goto, At
  <2> QED
    BY <1>6, <2>2, <2>3, <2>4, <2>5 DEF Command
<1> QED
  BY <1>0, <1>4, <1>5, <1>6 DEF Next, Done

\* What parse_ast_pipe_child leaves of the pipe.
LEMMA Plumbed ==
  ASSUME NEW k \in 2 .. N, NEW f \in [0 .. 1 -> FD], GoodPipe(k, f)
  PROVE  /\ Close(Dup2(Close(WithPipe(k, f), f[0]), f[1], 1), f[1])
              = [Base(k) EXCEPT ![1] = End(k, "w")]
         /\ Close(Dup2(Close(WithPipe(k, f), f[1]), f[0], 0), f[0])
              = [Base(k) EXCEPT ![0] = End(k, "r")]
<1>1. 0 \in FD /\ 1 \in FD
  BY PipelineAssumption DEF FD
<1>2. Base(k) \in Table /\ Base(k)[0] # Closed /\ Base(k)[1] # Closed
  BY BaseFacts DEF Tty, Closed
<1>3. /\ f[0] \notin {0, 1} /\ f[1] \notin {0, 1} /\ f[0] # f[1]
      /\ f[0] \in FD /\ f[1] \in FD
      /\ Base(k)[f[0]] = Closed /\ Base(k)[f[1]] = Closed
  BY <1>2 DEF GoodPipe
<1>4. End(k, "r") # Closed /\ End(k, "w") # Closed
  BY DEF End, Closed
<1> DEFINE t == Base(k)
           r == f[0]
           w == f[1]
           x == End(k, "r")
           y == End(k, "w")
<1>5. /\ t \in [FD -> Desc] /\ r \in FD /\ w \in FD /\ 0 \in FD /\ 1 \in FD
      /\ r # w /\ r # 0 /\ w # 1 /\ t[r] = Closed /\ t[w] = Closed
      /\ x # Closed /\ y # Closed
      /\ WithPipe(k, f) = [t EXCEPT ![r] = x, ![w] = y]
  BY <1>1, <1>2, <1>3, <1>4 DEF WithPipe, Table
<1> HIDE DEF t, r, w, x, y
<1>6. /\ Close(WithPipe(k, f), r) = [t EXCEPT ![w] = y]
      /\ Close(WithPipe(k, f), w) = [t EXCEPT ![r] = x]
  BY <1>5 DEF Close
<1>7. /\ Dup2([t EXCEPT ![w] = y], w, 1) = [t EXCEPT ![w] = y, ![1] = y]
      /\ Dup2([t EXCEPT ![r] = x], r, 0) = [t EXCEPT ![r] = x, ![0] = x]
  BY <1>5 DEF Dup2
<1>8. /\ Close([t EXCEPT ![w] = y, ![1] = y], w) = [t EXCEPT ![1] = y]
      /\ Close([t EXCEPT ![r] = x, ![0] = x], r) = [t EXCEPT ![0] = x]
  BY <1>5 DEF Close
<1> QED
  BY <1>6, <1>7, <1>8 DEF t, r, w, x, y

LEMMA EvaluatorsHold ==
  ASSUME PipelineTypes, PipelineTypes', ShellTable,
         \A k \in 2 .. N : InOrder(k) /\ EvaluatorTable(k),
         \A p \in Proc \ {Shell} : ChildTable(p),
         [Next]_vars, NEW j \in 2 .. N
  PROVE  EvaluatorTable(j)'
<1> DEFINE p == Evaluator(j)
<1>0. CASE UNCHANGED vars
  BY <1>0 DEF vars, EvaluatorTable
<1>1. p \in Proc /\ pc \in [Proc -> States] /\ fds \in [Proc -> Table]
      /\ fdpipe \in [Proc -> [0 .. 1 -> FD]] /\ Shell \in Proc
  BY ProcFacts, ShellIsNoChild DEF PipelineTypes
<1>2. EvaluatorTable(j) /\ InOrder(j)
  OBVIOUS
\* A step of somebody else.
<1>3. ASSUME pc'[p] = pc[p], fds'[p] = fds[p], fdpipe'[p] = fdpipe[p]
      PROVE  EvaluatorTable(j)'
  BY <1>2, <1>3 DEF EvaluatorTable
<1>4. ASSUME NEW k \in 2 .. N, Evaluation(k) PROVE EvaluatorTable(j)'
  <2>0. /\ Evaluator(k) \in Proc /\ LeftChild(k) \in Proc /\ RightChild(k) \in Proc
        /\ LeftChild(k) # Evaluator(k) /\ RightChild(k) # Evaluator(k)
    BY ProcFacts, FamilyFacts
  <2>1. CASE k # j
    <3>1. Evaluator(k) # p /\ RightChild(k) # p
      BY <2>1, ChildrenDiffer
    <3>2. CASE MakePipe(k) \/ PipeFails(k) \/ GiveUp(k) \/ CloseBoth(k)
      BY <1>1, <1>3, <2>0, <3>1, <3>2
      DEF MakePipe, PipeFails, GiveUp, CloseBoth, Leave, Goto
    <3>3. CASE ForkFails(k) \/ WaitLeft(k) \/ WaitRight(k)
      BY <1>1, <1>3, <2>0, <3>1, <3>3 DEF ForkFails, WaitLeft, WaitRight, Leave, Goto
    <3>4. CASE ForkRight(k)
      BY <1>1, <1>3, <2>0, <3>1, <3>4 DEF ForkRight, Fork
    <3>5. CASE ForkLeft(k) /\ LeftChild(k) # p
      BY <1>1, <1>3, <2>0, <3>1, <3>5 DEF ForkLeft, Fork
    <3>6. CASE ForkLeft(k) /\ LeftChild(k) = p
      BY <1>1, <2>0, <3>1, <3>6 DEF ForkLeft, Fork, EvaluatorTable
    <3> QED
      BY <1>4, <3>2, <3>3, <3>4, <3>5, <3>6 DEF Evaluation
  <2>2. CASE k = j
    <3>1. CASE MakePipe(j)
      <4>1. fds[p] = Base(j) /\ j \in PipeId
        BY <1>2, <3>1, PipelineAssumption DEF MakePipe, At, EvaluatorTable, PipeId
      <4> DEFINE f == PipeFds(Base(j))
      <4>2. /\ f \in [0 .. 1 -> FD] /\ GoodPipe(j, f)
            /\ Piped(Base(j), j) = WithPipe(j, f)
        <5>1. Base(j) \in Table /\ Cardinality(Free(Base(j))) >= 2
          BY <3>1, <4>1, BaseFacts DEF MakePipe
        <5> QED
          BY <4>1, <5>1, PipeGiven DEF GoodPipe, WithPipe
      <4> HIDE DEF f
      <4>3. /\ pc'[p] = "forkLeft" /\ fdpipe'[p] = f /\ fds'[p] = WithPipe(j, f)
        BY <1>1, <3>1, <4>1, <4>2 DEF MakePipe, Goto, f
      <4> QED
        BY <4>2, <4>3 DEF EvaluatorTable
    <3>2. CASE PipeFails(j)
      BY <1>1, <3>2 DEF PipeFails, Leave, Goto, EvaluatorTable
    <3>3. CASE GiveUp(j)
      BY <1>1, <3>3 DEF GiveUp, Leave, Goto, EvaluatorTable
    <3>4. CASE CloseBoth(j)
      <4> DEFINE f == fdpipe[p]
      <4>1. f \in [0 .. 1 -> FD] /\ GoodPipe(j, f) /\ fds[p] = WithPipe(j, f)
        BY <1>1, <1>2, <3>4 DEF CloseBoth, At, EvaluatorTable
      <4>2. Base(j) \in Table
        BY BaseFacts
      <4> HIDE DEF f
      <4>3. Close(Close(WithPipe(j, f), f[0]), f[1]) = Base(j)
        BY <4>1, <4>2 DEF Close, WithPipe, GoodPipe, Table
      <4>4. WithoutPipe(p) = Base(j)
        BY <4>1, <4>3 DEF WithoutPipe, f
      <4> QED
        BY <1>1, <3>4, <4>4 DEF CloseBoth, Goto, EvaluatorTable
    <3>5. CASE ForkLeft(j) \/ ForkRight(j)
      BY <1>1, <1>2, <2>0, <3>5 DEF ForkLeft, ForkRight, Fork, At, EvaluatorTable
    <3>6. CASE ForkFails(j) \/ WaitLeft(j) \/ WaitRight(j)
      BY <1>1, <1>2, <3>6 DEF ForkFails, WaitLeft, WaitRight, Leave, Goto, At, EvaluatorTable
    <3> QED
      BY <1>4, <2>2, <3>1, <3>2, <3>3, <3>4, <3>5, <3>6 DEF Evaluation
  <2> QED
    BY <2>1, <2>2
<1>5. ASSUME NEW q \in Proc, Plumbing(q) PROVE EvaluatorTable(j)'
  <2>1. CASE q # p
    BY <1>1, <1>3, <1>5, <2>1 DEF Plumbing, CloseOther, DupOwn, Goto
  <2>2. CASE q = p /\ CloseOther(p)
    BY <1>1, <2>2 DEF CloseOther, Goto, EvaluatorTable
  <2>3. CASE q = p /\ DupOwn(p)
    <3>1. p # Shell /\ j < N /\ j + 1 \in 2 .. N
      BY <2>3, ShellIsNoChild, PipelineAssumption DEF DupOwn, At, ShellTable
    <3>2. PipeOf(p) = j + 1 /\ IsOut(p) /\ p[1] = "evaluator"
      BY ProcFacts
    <3> DEFINE f == fdpipe[p]
    <3>3. /\ f \in [0 .. 1 -> FD] /\ GoodPipe(j + 1, f)
          /\ fds[p] = Close(WithPipe(j + 1, f), f[0])
      BY <1>1, <2>3, <3>1, <3>2 DEF DupOwn, At, ChildTable, OtherSide
    <3>4. Close(Dup2(fds[p], f[1], 1), f[1]) = [Base(j + 1) EXCEPT ![1] = End(j + 1, "w")]
      BY <3>1, <3>3, Plumbed
    <3>5. [Base(j + 1) EXCEPT ![1] = End(j + 1, "w")] = Base(j)
      <4>1. Base(j) = [AtPrompt EXCEPT ![1] = End(j + 1, "w")]
        BY <3>1, PipelineAssumption DEF Base
      <4>2. AtPrompt \in Table
        BY AtPromptType DEF Table, Desc
      <4>3. Base(j + 1) = AtPrompt \/ Base(j + 1) = [AtPrompt EXCEPT ![1] = End(j + 1 + 1, "w")]
        BY DEF Base
      <4> QED
        BY <4>1, <4>2, <4>3 DEF Table
    <3>6. pc'[p] = "pipe" /\ fds'[p] = Base(j)
      BY <1>1, <2>3, <3>2, <3>4, <3>5 DEF DupOwn, Goto
    <3> QED
      BY <3>6 DEF EvaluatorTable
  <2> QED
    BY <1>5, <2>1, <2>2, <2>3 DEF Plumbing
<1>6. ASSUME NEW k \in 1 .. N, Command(k) \/ Quit(k) PROVE EvaluatorTable(j)'
  <2>1. Member(k) \in Proc /\ Member(k) # p
    BY ProcFacts
  <2>2. CASE Redirect(k) \/ Read(k) \/ Write(k)
    BY <1>1, <1>3, <2>1, <2>2 DEF Redirect, Read, Write
  <2>3. CASE HereOpen(k)
    BY <1>1, <1>3, <2>1, <2>3 DEF HereOpen, Goto
  <2>4. CASE HereWrite(k) \/ Exec(k)
    BY <1>1, <1>3, <2>1, <2>4 DEF HereWrite, Exec, Goto
  <2>5. CASE EndOfFile(k) \/ BrokenPipe(k) \/ HereBroken(k) \/ Quit(k)
    BY <1>1, <1>3, <2>1, <2>5 DEF EndOfFile, BrokenPipe, HereBroken, Quit, Stop, Exit, Goto
  <2> QED
    BY <1>6, <2>2, <2>3, <2>4, <2>5 DEF Command
<1> QED
  BY <1>0, <1>4, <1>5, <1>6 DEF Next, Done

LEMMA ChildrenHold ==
  ASSUME PipelineTypes, PipelineTypes', ShellTable,
         \A k \in 2 .. N : InOrder(k) /\ EvaluatorTable(k),
         \A p \in Proc \ {Shell} : ChildTable(p),
         [Next]_vars, NEW c \in Proc \ {Shell}
  PROVE  ChildTable(c)'
<1>0. CASE UNCHANGED vars
  BY <1>0 DEF vars, ChildTable
<1>1. pc \in [Proc -> States] /\ fds \in [Proc -> Table]
      /\ fdpipe \in [Proc -> [0 .. 1 -> FD]] /\ c \in Proc
  BY DEF PipelineTypes
<1>2. ChildTable(c)
  OBVIOUS
<1>3. ASSUME pc'[c] = pc[c], fds'[c] = fds[c], fdpipe'[c] = fdpipe[c]
      PROVE  ChildTable(c)'
  BY <1>2, <1>3 DEF ChildTable
<1>4. ASSUME pc'[c] \notin {"plumb", "dup"} PROVE ChildTable(c)'
  BY <1>4 DEF ChildTable
<1>5. ASSUME NEW k \in 2 .. N, Evaluation(k) PROVE ChildTable(c)'
  <2>0. Evaluator(k) \in Proc
    BY ProcFacts
  <2>1. CASE ForkLeft(k) \/ ForkRight(k)
    <3>1. PICK d \in {LeftChild(k), RightChild(k)}, next \in {"forkRight", "close"} :
            Fork(Evaluator(k), d, next) /\ pc[Evaluator(k)] \in {"forkLeft", "forkRight"}
      BY <2>1 DEF ForkLeft, ForkRight, At
    <3>2. d \in Proc /\ d # Evaluator(k) /\ PipeOf(d) = k
      BY <3>1, FamilyFacts
    <3>3. CASE c = d
      <4>1. /\ GoodPipe(k, fdpipe[Evaluator(k)])
            /\ fds[Evaluator(k)] = WithPipe(k, fdpipe[Evaluator(k)])
        BY <3>1 DEF EvaluatorTable
      <4>2. /\ pc'[c] = "plumb" /\ fds'[c] = fds[Evaluator(k)]
            /\ fdpipe'[c] = fdpipe[Evaluator(k)]
        BY <1>1, <2>0, <3>1, <3>2, <3>3 DEF Fork
      <4> QED
        BY <3>2, <3>3, <4>1, <4>2 DEF ChildTable
    <3>4. CASE c # d /\ c # Evaluator(k)
      BY <1>1, <1>3, <2>0, <3>1, <3>2, <3>4 DEF Fork
    <3>5. CASE c = Evaluator(k)
      <4>1. pc'[c] = next
        BY <1>1, <2>0, <3>1, <3>2, <3>5 DEF Fork
      <4> QED
        BY <1>4, <3>1, <4>1
    <3> QED
      BY <3>3, <3>4, <3>5
  <2>2. CASE c # Evaluator(k)
    <3>1. CASE MakePipe(k) \/ PipeFails(k) \/ GiveUp(k) \/ CloseBoth(k)
      BY <1>1, <1>3, <2>0, <2>2, <3>1 DEF MakePipe, PipeFails, GiveUp, CloseBoth, Leave, Goto
    <3>2. CASE ForkFails(k) \/ WaitLeft(k) \/ WaitRight(k)
      BY <1>1, <1>3, <2>0, <2>2, <3>2 DEF ForkFails, WaitLeft, WaitRight, Leave, Goto
    <3> QED
      BY <1>5, <2>1, <3>1, <3>2 DEF Evaluation
  <2>3. CASE c = Evaluator(k)
    <3>1. CASE MakePipe(k) \/ PipeFails(k) \/ GiveUp(k) \/ CloseBoth(k)
      BY <1>1, <1>4, <2>0, <2>3, <3>1 DEF MakePipe, PipeFails, GiveUp, CloseBoth, Leave, Goto
    <3>2. CASE ForkFails(k) \/ WaitLeft(k) \/ WaitRight(k)
      BY <1>1, <1>4, <2>0, <2>3, <3>2 DEF ForkFails, WaitLeft, WaitRight, Leave, Goto
    <3> QED
      BY <1>5, <2>1, <3>1, <3>2 DEF Evaluation
  <2> QED
    BY <2>2, <2>3
<1>6. ASSUME NEW q \in Proc, Plumbing(q) PROVE ChildTable(c)'
  <2>1. CASE q # c
    BY <1>1, <1>3, <1>6, <2>1 DEF Plumbing, CloseOther, DupOwn, Goto
  <2>2. CASE q = c /\ CloseOther(c)
    <3>1. /\ pc'[c] = "dup" /\ fds'[c] = Close(fds[c], fdpipe[c][OtherSide(c)])
          /\ fdpipe'[c] = fdpipe[c] /\ pc[c] = "plumb"
      BY <1>1, <2>2 DEF CloseOther, Goto, At, OtherSide
    <3> QED
      BY <1>2, <3>1 DEF ChildTable
  <2>3. CASE q = c /\ DupOwn(c)
    BY <1>1, <1>4, <2>3 DEF DupOwn, Goto
  <2> QED
    BY <1>6, <2>1, <2>2, <2>3 DEF Plumbing
<1>7. ASSUME NEW k \in 1 .. N, Command(k) \/ Quit(k) PROVE ChildTable(c)'
  <2>0. Member(k) \in Proc
    BY ProcFacts
  <2>1. CASE Read(k) \/ Write(k)
    BY <1>3, <2>1 DEF Read, Write
  <2>2. CASE c # Member(k)
    <3>1. CASE Redirect(k) \/ Exec(k)
      BY <1>1, <1>3, <2>0, <2>2, <3>1 DEF Redirect, Exec, Goto
    <3>2. CASE HereOpen(k)
      BY <1>1, <1>3, <2>0, <2>2, <3>2 DEF HereOpen, Goto
    <3>3. CASE HereWrite(k)
      BY <1>1, <1>3, <2>0, <2>2, <3>3 DEF HereWrite, Goto
    <3>4. CASE EndOfFile(k) \/ BrokenPipe(k) \/ HereBroken(k) \/ Quit(k)
      BY <1>1, <1>3, <2>0, <2>2, <3>4
      DEF EndOfFile, BrokenPipe, HereBroken, Quit, Stop, Exit, Goto
    <3> QED
      BY <1>7, <2>1, <3>1, <3>2, <3>3, <3>4 DEF Command
  <2>3. CASE c = Member(k)
    <3>1. CASE Redirect(k) \/ Exec(k)
      BY <1>1, <1>4, <2>0, <2>3, <3>1 DEF Redirect, Exec, Goto, At
    <3>2. CASE HereOpen(k)
      BY <1>1, <1>4, <2>0, <2>3, <3>2 DEF HereOpen, Goto
    <3>3. CASE HereWrite(k)
      BY <1>1, <1>4, <2>0, <2>3, <3>3 DEF HereWrite, Goto
    <3>4. CASE EndOfFile(k) \/ BrokenPipe(k) \/ HereBroken(k) \/ Quit(k)
      BY <1>1, <1>4, <2>0, <2>3, <3>4
      DEF EndOfFile, BrokenPipe, HereBroken, Quit, Stop, Exit, Goto
    <3> QED
      BY <1>7, <2>1, <3>1, <3>2, <3>3, <3>4 DEF Command
  <2> QED
    BY <2>2, <2>3
<1> QED
  BY <1>0, <1>5, <1>6, <1>7 DEF Next, Done

\* What is in a table stays in it when a descriptor is replaced of which a copy was made.
LEMMA SavedIsKept ==
  ASSUME NEW t \in Table, NEW fd \in FD, ~CannotSave(t, fd),
         NEW u \in Table,
         \A g \in FD \ {fd} : Saved(t, fd)[g] # Closed => u[g] = Saved(t, fd)[g],
         NEW f \in FD, t[f] # Closed
  PROVE  \E g \in FD : u[g] = t[f]
<1>1. CASE Free(t) = {}
  <2>1. f # fd /\ Saved(t, fd) = t
    BY <1>1 DEF CannotSave, Saved, Opened, Free
  <2> QED
    BY <2>1
<1>2. CASE Free(t) # {}
  <2> DEFINE l == Lowest(t)
  <2>1. l \in FD /\ t[l] = Closed
    BY <1>2, MinIsMember DEF Lowest, Free
  <2>2. Saved(t, fd) = [t EXCEPT ![l] = t[fd]]
    BY <1>2 DEF Saved, Opened
  <2> HIDE DEF l
  <2>3. CASE f = fd
    BY <2>1, <2>2, <2>3 DEF Table
  <2>4. CASE f # fd
    BY <2>1, <2>2, <2>4 DEF Table
  <2> QED
    BY <2>3, <2>4
<1> QED
  BY <1>1, <1>2

\* Nothing new gets into it by that.
LEMMA SavedIsOld ==
  ASSUME NEW t \in Table, NEW fd \in FD
  PROVE  /\ Saved(t, fd) \in Table
         /\ \A g \in FD : \E f \in FD : Saved(t, fd)[g] = t[f]
<1>1. CASE Free(t) = {}
  BY <1>1 DEF Saved, Opened
<1>2. CASE Free(t) # {}
  <2> DEFINE l == Lowest(t)
  <2>1. l \in FD
    BY <1>2, MinIsMember DEF Lowest, Free
  <2>2. Saved(t, fd) = [t EXCEPT ![l] = t[fd]]
    BY <1>2 DEF Saved, Opened
  <2> HIDE DEF l
  <2> QED
    BY <2>1, <2>2 DEF Table
<1> QED
  BY <1>1, <1>2

LEMMA CommandsHold ==
  ASSUME PipelineTypes, PipelineTypes',
         \A p \in Proc \ {Shell} : ChildTable(p), \A k \in 2 .. N : InOrder(k),
         [Next]_vars, NEW j \in 1 .. N, CommandTable(j)
  PROVE  CommandTable(j)'
<1> DEFINE p == Member(j)
<1>0. CASE UNCHANGED vars
  BY <1>0 DEF vars, CommandTable, HereEnd
<1>1. /\ pc \in [Proc -> States] /\ fds \in [Proc -> Table]
      /\ fdpipe \in [Proc -> [0 .. 1 -> FD]] /\ p \in Proc /\ p # Shell
      /\ N \in Nat /\ N >= 2 /\ 0 \in FD /\ 1 \in FD /\ failed \in BOOLEAN
  <2>1. 0 \in FD /\ 1 \in FD /\ N \in Nat /\ N >= 2
    BY PipelineAssumption DEF FD
  <2>2. p \in Proc /\ p # Shell
    BY ShellIsNoChild
  <2> QED
    BY <2>1, <2>2 DEF PipelineTypes
<1>2. ASSUME pc'[p] = pc[p], fds'[p] = fds[p], fdpipe'[p] = fdpipe[p], failed => failed'
      PROVE  CommandTable(j)'
  BY <1>1, <1>2 DEF CommandTable, HereEnd
<1>3. ASSUME pc'[p] \notin Own PROVE CommandTable(j)'
  BY <1>3 DEF CommandTable
<1>4. \A i : \A e \in Ends : End(i, e)[1] = e /\ End(i, e)[2] = i /\ End(i, e) # Closed
  BY DEF End, Ends, Closed
<1>5. "r" \in Ends /\ "w" \in Ends /\ Closed[1] # "w" /\ File[1] # "w" /\ Tty[1] # "w" /\ "r" # "w"
  BY DEF Closed, File, Tty, Ends
<1>6. ASSUME NEW k \in 2 .. N, Evaluation(k) PROVE CommandTable(j)'
  <2>0. /\ Evaluator(k) \in Proc /\ Evaluator(k) # p
        /\ LeftChild(k) \in Proc /\ RightChild(k) \in Proc
    BY ProcFacts, FamilyFacts
  <2>1. CASE ForkLeft(k) \/ ForkRight(k)
    <3>1. PICK d \in {LeftChild(k), RightChild(k)}, next \in {"forkRight", "close"} :
            Fork(Evaluator(k), d, next) /\ failed' = failed
      BY <2>1 DEF ForkLeft, ForkRight
    <3>2. CASE p = d
      <4>1. pc'[p] = "plumb"
        BY <1>1, <2>0, <3>1, <3>2 DEF Fork
      <4> QED
        BY <1>3, <4>1 DEF Own
    <3>3. CASE p # d
      BY <1>1, <1>2, <2>0, <3>1, <3>3 DEF Fork
    <3> QED
      BY <3>2, <3>3
  <2>2. CASE MakePipe(k) \/ PipeFails(k) \/ GiveUp(k) \/ CloseBoth(k)
    BY <1>1, <1>2, <2>0, <2>2 DEF MakePipe, PipeFails, GiveUp, CloseBoth, Leave, Goto
  <2>3. CASE ForkFails(k) \/ WaitLeft(k) \/ WaitRight(k)
    BY <1>1, <1>2, <2>0, <2>3 DEF ForkFails, WaitLeft, WaitRight, Leave, Goto
  <2> QED
    BY <1>6, <2>1, <2>2, <2>3 DEF Evaluation
<1>7. ASSUME NEW q \in Proc, Plumbing(q) PROVE CommandTable(j)'
  <2>1. CASE q # p
    BY <1>1, <1>2, <1>7, <2>1 DEF Plumbing, CloseOther, DupOwn, Goto
  <2>2. CASE q = p /\ CloseOther(p)
    BY <1>1, <1>3, <2>2 DEF CloseOther, Goto, Own
  <2>3. CASE q = p /\ DupOwn(p)
    <3> DEFINE f == fdpipe[p]
               k == PipeOf(p)
               b == IF IsOut(p) THEN 1 ELSE 0
    <3>1. /\ k \in 2 .. N /\ f \in [0 .. 1 -> FD] /\ GoodPipe(k, f)
          /\ fds[p] = Close(WithPipe(k, f), f[1 - b])
      <4>1. OtherSide(p) = 1 - b
        BY DEF OtherSide
      <4> QED
        BY <1>1, <2>3, <4>1, ParentOf DEF DupOwn, At, ChildTable
    <3>2. /\ pc'[p] = "redirect" /\ fdpipe'[p] = fdpipe[p] /\ failed' = failed
          /\ fds'[p] = Close(Dup2(fds[p], f[b], b), f[b])
      BY <1>1, <2>3, ProcFacts DEF DupOwn, Goto
    <3>3. \A g \in FD : /\ Base(k) \in Table /\ Base(k)[g][1] # "r"
                        /\ k < N => Base(k)[1] = End(k + 1, "w")
                        /\ Base(k)[g][1] = "w" => k < N /\ Base(k)[g] = End(k + 1, "w")
      BY <3>1, BaseFacts
    <3>4. CASE j = 1
      <4>1. IsOut(p) /\ k = 2
        BY <3>4, ProcFacts
      <4>2. b = 1
        BY <4>1
      <4>3. Close(Dup2(Close(WithPipe(2, f), f[0]), f[1], 1), f[1])
              = [Base(2) EXCEPT ![1] = End(2, "w")]
        BY <3>1, <4>1, Plumbed
      <4>4. f[1 - b] = f[0] /\ f[b] = f[1]
        BY <4>2
      <4>5. fds'[p] = [Base(2) EXCEPT ![1] = End(2, "w")]
        BY <3>1, <3>2, <4>1, <4>2, <4>3, <4>4
      <4>6. \A g \in FD : fds'[p][g] = IF g = 1 THEN End(2, "w") ELSE Base(2)[g]
        BY <3>3, <4>1, <4>5 DEF Table
      <4>7. \A g \in FD : g # 1 => Base(2)[g][1] # "w"
        BY <1>5, PipelineAssumption DEF Base, AtPrompt
      <4> QED
        BY <1>1, <3>2, <3>4, <4>6, <4>7 DEF CommandTable
    <3>5. CASE j # 1
      <4>1. ~IsOut(p) /\ k = j
        BY <3>5, ProcFacts
      <4>2. b = 0
        BY <4>1
      <4>3. Close(Dup2(Close(WithPipe(j, f), f[1]), f[0], 0), f[0])
              = [Base(j) EXCEPT ![0] = End(j, "r")]
        BY <3>1, <4>1, Plumbed
      <4>4. f[1 - b] = f[1] /\ f[b] = f[0]
        BY <4>2
      <4>5. fds'[p] = [Base(j) EXCEPT ![0] = End(j, "r")]
        BY <3>1, <3>2, <4>1, <4>2, <4>3, <4>4
      <4>6. \A g \in FD : fds'[p][g] = IF g = 0 THEN End(j, "r") ELSE Base(j)[g]
        BY <3>3, <4>1, <4>5 DEF Table
      <4>7. End(j, "r")[1] # "w"
        BY <1>4, <1>5
      <4> QED
        BY <1>1, <3>2, <3>3, <4>1, <4>6, <4>7 DEF CommandTable
    <3> QED
      BY <3>4, <3>5
  <2> QED
    BY <1>7, <2>1, <2>2, <2>3 DEF Plumbing
<1>8. ASSUME NEW k \in 1 .. N, Command(k) \/ Quit(k) PROVE CommandTable(j)'
  <2>0. Member(k) \in Proc /\ (k # j => Member(k) # p)
    BY ProcFacts
  <2>1. CASE k # j
    <3>1. CASE Redirect(k)
      BY <1>1, <1>2, <2>0, <2>1, <3>1 DEF Redirect
    <3>2. CASE Read(k) \/ Write(k) \/ Exec(k)
      BY <1>1, <1>2, <2>0, <2>1, <3>2 DEF Read, Write, Exec, Goto
    <3>3. CASE HereOpen(k)
      BY <1>1, <1>2, <2>0, <2>1, <3>3 DEF HereOpen, Goto
    <3>4. CASE HereWrite(k)
      BY <1>1, <1>2, <2>0, <2>1, <3>4 DEF HereWrite, Goto
    <3>5. CASE EndOfFile(k) \/ BrokenPipe(k) \/ HereBroken(k) \/ Quit(k)
      BY <1>1, <1>2, <2>0, <2>1, <3>5
      DEF EndOfFile, BrokenPipe, HereBroken, Quit, Stop, Exit, Goto
    <3> QED
      BY <1>8, <3>1, <3>2, <3>3, <3>4, <3>5 DEF Command
  <2>2. CASE k = j
    <3> DEFINE t == fds[p]
               u == fds'[p]
    <3>0. t \in Table /\ u \in Table
      BY <1>1 DEF PipelineTypes
    <3>1. Redirects(j) => ThisRedirection(j) \in Redirection
      <4>1. plan[j] \in Seq(Redirection) /\ made[j] \in Nat
        BY PipelineAssumption DEF PipelineTypes
      <4> QED
        BY <4>1 DEF Redirects, ThisRedirection
    <3>2. CASE Redirect(j)
      <4> DEFINE r == ThisRedirection(j)
                 v == FileOpened(t, r)
                 s == Saved(v, r.fd)
      <4>1. /\ pc[p] = "redirect" /\ pc'[p] = "redirect"
            /\ u = Replaced(s, r) /\ r.op # "here" /\ r \in Redirection
            /\ r.op = "file" => Free(t) # {}
            /\ failed' = (failed \/ CannotSave(v, r.fd))
        BY <1>1, <3>1, <3>2 DEF Redirect, At, Redirected
      <4>2. r.fd \in FD /\ r.target \in FD
        BY <4>1 DEF Redirection, FD
      <4>3. /\ v \in Table
            /\ \A g \in FD : t[g] # Closed => v[g] = t[g]
            /\ \A g \in FD : v[g] = File \/ v[g] = t[g]
        <5>1. CASE r.op # "file"
          BY <3>0, <5>1 DEF FileOpened
        <5>2. CASE r.op = "file"
          <6> DEFINE l == Lowest(t)
          <6>1. l \in FD /\ t[l] = Closed
            BY <4>1, <5>2, MinIsMember DEF Lowest, Free
          <6>2. v = [t EXCEPT ![l] = File]
            BY <4>1, <5>2 DEF FileOpened, Opened
          <6> HIDE DEF l, t, v
          <6> QED
            BY <3>0, <6>1, <6>2 DEF Table, Desc
        <5> QED
          BY <5>1, <5>2
      <4>4. s \in Table /\ \A g \in FD : \E f \in FD : s[g] = v[f]
        BY <4>2, <4>3, SavedIsOld
      <4> HIDE DEF t, u, r, v, s
      <4>5. /\ \A g \in FD \ {r.fd} : u[g] = s[g]
            /\ \A g \in FD : u[g] = File \/ \E f \in FD : u[g] = s[f]
        BY <4>1, <4>2, <4>4 DEF Replaced, Dup2, Table
      <4>6. ASSUME ~failed', NEW f \in FD, t[f] # Closed PROVE \E g \in FD : u[g] = t[f]
        <5>1. v[f] = t[f] /\ v[f] # Closed
          BY <4>3, <4>6
        <5>3. ~CannotSave(v, r.fd)
          BY <4>1, <4>6
        <5>4. \A g \in FD \ {r.fd} : Saved(v, r.fd)[g] # Closed => u[g] = Saved(v, r.fd)[g]
          BY <4>5 DEF s
        <5>2. \E g \in FD : u[g] = v[f]
          BY <3>0, <4>2, <4>3, <5>1, <5>3, <5>4, SavedIsKept
        <5> QED
          BY <5>1, <5>2
      <4>7. \A g \in FD : u[g] = File \/ \E f \in FD : u[g] = t[f]
        BY <4>3, <4>4, <4>5
      <4>8. ~failed' => ~failed
        BY <4>1
      <4>9. /\ ~failed => (j < N => \E f \in FD : t[f] = End(j + 1, "w"))
            /\ ~failed => (j > 1 => \E f \in FD : t[f] = End(j, "r"))
            /\ \A f \in FD : t[f][1] = "w" => j < N /\ t[f] = End(j + 1, "w")
        BY <4>1 DEF CommandTable, Own, t
      <4>10. /\ ~failed' => (j < N => \E f \in FD : u[f] = End(j + 1, "w"))
             /\ ~failed' => (j > 1 => \E f \in FD : u[f] = End(j, "r"))
             /\ \A f \in FD : u[f][1] = "w" => j < N /\ u[f] = End(j + 1, "w")
        BY <1>4, <1>5, <4>6, <4>7, <4>8, <4>9
      <4> QED
        BY <4>1, <4>10 DEF CommandTable, u
    <3>3. CASE HereOpen(j)
      <4> DEFINE fd == ThisRedirection(j).fd
                 s == Saved(t, fd)
                 r == PipeFds(s)[0]
                 w == PipeFds(s)[1]
                 piped == Piped(s, N + j)
      <4>1. /\ pc[p] = "redirect" /\ pc'[p] = "hereWrite" /\ failed' = failed
            /\ fdpipe'[p] = PipeFds(s)
            /\ u = Close(Dup2(piped, Lowest(s), fd), Lowest(s))
            /\ Cardinality(Free(s)) >= 2
        BY <1>1, <3>3 DEF HereOpen, At, Goto
      <4>2. fd \in FD /\ N + j \in PipeId
        BY <1>1, <3>1, <3>3 DEF HereOpen, Redirection, FD, PipeId
      <4>3. s \in Table /\ \A g \in FD : \E f \in FD : s[g] = t[f]
        BY <3>0, <4>2, SavedIsOld
      <4>4. /\ r \in FD /\ w \in FD /\ r # w /\ Lowest(s) = r
            /\ s[r] = Closed /\ s[w] = Closed /\ piped \in Table
            /\ piped = [s EXCEPT ![r] = End(N + j, "r"), ![w] = End(N + j, "w")]
        BY <4>1, <4>2, <4>3, PipeGiven
      <4>5. ~CannotSave(t, fd)
        <5>1. SUFFICES ASSUME Free(t) = {} PROVE FALSE
          BY DEF CannotSave
        <5>2. s = t
          BY <5>1 DEF Saved, Opened
        <5>3. Cardinality(Free(s)) = 0
          BY <5>1, <5>2, FS_EmptySet
        <5> QED
          BY <4>1, <5>3
      <4> HIDE DEF t, u, fd, s, r, w, piped
      <4>6. Dup2(piped, r, fd) = [piped EXCEPT ![fd] = End(N + j, "r")]
        <5>1. piped[r] = End(N + j, "r") /\ piped[r] # Closed
          BY <1>4, <1>5, <4>3, <4>4 DEF Table
        <5> QED
          BY <5>1 DEF Dup2
      <4>7. u = [[piped EXCEPT ![fd] = End(N + j, "r")] EXCEPT ![r] = Closed]
        BY <4>1, <4>4, <4>6 DEF Close
      <4>8. \A g \in FD : u[g] = IF g = r THEN Closed
                                 ELSE IF g = fd THEN End(N + j, "r")
                                 ELSE IF g = w THEN End(N + j, "w") ELSE s[g]
        BY <4>2, <4>3, <4>4, <4>7 DEF Table
      <4>9. ASSUME NEW f \in FD, t[f] # Closed PROVE \E g \in FD : u[g] = t[f]
        <5>1. \A g \in FD \ {fd} : Saved(t, fd)[g] # Closed => u[g] = Saved(t, fd)[g]
          BY <4>4, <4>8 DEF s
        <5> QED
          BY <3>0, <4>2, <4>5, <4>9, <5>1, SavedIsKept DEF s
      <4>10. /\ ~failed => (j < N => \E f \in FD : t[f] = End(j + 1, "w"))
             /\ ~failed => (j > 1 => \E f \in FD : t[f] = End(j, "r"))
             /\ \A f \in FD : t[f][1] = "w" => j < N /\ t[f] = End(j + 1, "w")
        BY <4>1 DEF CommandTable, Own, t
      <4>11. /\ ~failed' => (j < N => \E f \in FD : u[f] = End(j + 1, "w"))
             /\ ~failed' => (j > 1 => \E f \in FD : u[f] = End(j, "r"))
        BY <1>4, <1>5, <4>1, <4>9, <4>10
      <4>12. \A f \in FD : u[f][1] = "w" => \/ j < N /\ u[f] = End(j + 1, "w")
                                            \/ f = w /\ u[f] = End(N + j, "w")
        BY <1>4, <1>5, <4>3, <4>8, <4>10
      <4>13. u[w] \in {End(N + j, "w"), End(N + j, "r")}
        BY <4>4, <4>8
      <4>14. fdpipe'[p][1] = w
        BY <4>1 DEF w
      <4> QED
        BY <4>1, <4>11, <4>12, <4>13, <4>14 DEF CommandTable, HereEnd, u
    <3>4. CASE HereWrite(j)
      <4> DEFINE w == fdpipe[p][1]
      <4>1. /\ pc[p] = "hereWrite" /\ pc'[p] = "redirect" /\ failed' = failed
            /\ u = Close(t, w) /\ w \in FD
        BY <1>1, <3>4 DEF HereWrite, At, Goto
      <4> HIDE DEF t, u, w
      <4>2. /\ ~failed => (j < N => \E f \in FD : t[f] = End(j + 1, "w"))
            /\ ~failed => (j > 1 => \E f \in FD : t[f] = End(j, "r"))
            /\ \A f \in FD : t[f][1] = "w" => \/ j < N /\ t[f] = End(j + 1, "w")
                                              \/ f = w /\ t[f] = End(N + j, "w")
            /\ t[w] \in {End(N + j, "w"), End(N + j, "r")}
        BY <4>1 DEF CommandTable, Own, t, w, HereEnd
      <4>3. \A g \in FD : u[g] = IF g = w THEN Closed ELSE t[g]
        BY <3>0, <4>1 DEF Close, Table
      <4>4. N + j # j + 1 /\ N + j # j
        BY <1>1
      <4>5. t[w] # End(j + 1, "w") /\ t[w] # End(j, "r")
        BY <1>4, <1>5, <4>2, <4>4
      <4>6. /\ ~failed' => (j < N => \E f \in FD : u[f] = End(j + 1, "w"))
            /\ ~failed' => (j > 1 => \E f \in FD : u[f] = End(j, "r"))
            /\ \A f \in FD : u[f][1] = "w" => j < N /\ u[f] = End(j + 1, "w")
        BY <1>5, <4>1, <4>2, <4>3, <4>5
      <4> QED
        BY <4>1, <4>6 DEF CommandTable, u
    <3>5. CASE Exec(j)
      BY <1>1, <3>5 DEF Exec, Goto, At, CommandTable, Own
    <3>6. CASE Read(j) \/ Write(j)
      BY <1>2, <3>6 DEF Read, Write
    <3>7. CASE EndOfFile(j) \/ BrokenPipe(j) \/ HereBroken(j) \/ Quit(j)
      BY <1>1, <1>3, <3>7 DEF EndOfFile, BrokenPipe, HereBroken, Quit, Stop, Exit, Goto, Own
    <3> QED
      BY <1>8, <2>2, <3>2, <3>3, <3>4, <3>5, <3>6, <3>7 DEF Command
  <2> QED
    BY <2>1, <2>2
<1> QED
  BY <1>0, <1>6, <1>7, <1>8 DEF Next, Done

\* A command that is over stays so.
LEMMA DeadStays ==
  ASSUME PipelineTypes, \A k \in 2 .. N : InOrder(k), [Next]_vars,
         NEW j \in 1 .. N, pc[Member(j)] = "dead"
  PROVE  pc'[Member(j)] = "dead"
<1> DEFINE p == Member(j)
<1>0. CASE UNCHANGED vars
  BY <1>0 DEF vars
<1>1. DOMAIN pc = Proc /\ p \in Proc
  BY ProcFacts DEF PipelineTypes
<1>2. ASSUME NEW k \in 2 .. N, Evaluation(k) PROVE pc'[p] = "dead"
  <2>0. Evaluator(k) \in Proc /\ Evaluator(k) # p
    BY ProcFacts
  <2>1. CASE ForkLeft(k) \/ ForkRight(k)
    <3>1. PICK d \in {LeftChild(k), RightChild(k)}, next \in {"forkRight", "close"} :
            Fork(Evaluator(k), d, next) /\ pc[d] = "absent"
      BY <2>1 DEF ForkLeft, ForkRight, At, InOrder
    <3>2. d # p
      BY <3>1
    <3> QED
      BY <1>1, <2>0, <3>1, <3>2 DEF Fork
  <2>2. CASE MakePipe(k) \/ PipeFails(k) \/ GiveUp(k) \/ CloseBoth(k)
    BY <1>1, <2>0, <2>2 DEF MakePipe, PipeFails, GiveUp, CloseBoth, Leave, Goto
  <2>3. CASE ForkFails(k) \/ WaitLeft(k) \/ WaitRight(k)
    BY <1>1, <2>0, <2>3 DEF ForkFails, WaitLeft, WaitRight, Leave, Goto
  <2> QED
    BY <1>2, <2>1, <2>2, <2>3 DEF Evaluation
<1>3. ASSUME NEW q \in Proc, Plumbing(q) PROVE pc'[p] = "dead"
  BY <1>1, <1>3 DEF Plumbing, CloseOther, DupOwn, Goto, At
<1>4. ASSUME NEW k \in 1 .. N, Command(k) \/ Quit(k) PROVE pc'[p] = "dead"
  <2>1. CASE Redirect(k) \/ Read(k) \/ Write(k) \/ Exec(k) \/ HereWrite(k)
    BY <1>1, <2>1 DEF Redirect, Read, Write, Exec, HereWrite, Goto, At
  <2>2. CASE HereOpen(k)
    BY <1>1, <2>2 DEF HereOpen, Goto, At
  <2>3. CASE EndOfFile(k) \/ BrokenPipe(k) \/ HereBroken(k) \/ Quit(k)
    BY <1>1, <2>3 DEF EndOfFile, BrokenPipe, HereBroken, Quit, Stop, Exit, Goto
  <2> QED
    BY <1>4, <2>1, <2>2, <2>3 DEF Command
<1> QED
  BY <1>0, <1>2, <1>3, <1>4 DEF Next, Done

\* Who has been forked and is not over has an end of the pipe to its parent, the one
\* that it is to use.
LEMMA HolderOfChild ==
  ASSUME PipelineInv, ~failed, NEW k \in 2 .. N, NEW c \in {LeftChild(k), RightChild(k)},
         pc[c] \notin {"absent", "dead"}
  PROVE  Holders(k, IF IsOut(c) THEN "w" ELSE "r") # {}
<1> DEFINE e == IF IsOut(c) THEN "w" ELSE "r"
<1>1. /\ c \in Proc \ {Shell} /\ PipeOf(c) = k /\ N \in Nat /\ N >= 2
  BY FamilyFacts, PipelineAssumption
<1>2. SUFFICES \E f \in FD : fds[c][f] = End(k, e)
  BY <1>1 DEF Holders
<1>3. CASE pc[c] \in {"plumb", "dup"}
  <2> DEFINE f == fdpipe[c]
  <2>1. /\ GoodPipe(k, f) /\ ChildTable(c) /\ Base(k) \in Table
    BY <1>1, <1>3, BaseFacts DEF PipelineInv, ChildTable
  <2>2. CASE pc[c] = "plumb"
    <3>1. fds[c] = WithPipe(k, f)
      BY <1>1, <2>1, <2>2 DEF ChildTable
    <3>2. fds[c][f[0]] = End(k, "r") /\ fds[c][f[1]] = End(k, "w")
      BY <2>1, <3>1 DEF WithPipe, GoodPipe, Table
    <3> QED
      BY <2>1, <3>2 DEF GoodPipe
  <2>3. CASE pc[c] = "dup" /\ IsOut(c)
    <3>1. fds[c] = Close(WithPipe(k, f), f[0])
      BY <1>1, <2>1, <2>3 DEF ChildTable, OtherSide
    <3>2. fds[c][f[1]] = End(k, "w")
      BY <2>1, <3>1 DEF WithPipe, GoodPipe, Table, Close
    <3> QED
      BY <2>1, <2>3, <3>2 DEF GoodPipe
  <2>4. CASE pc[c] = "dup" /\ ~IsOut(c)
    <3>1. fds[c] = Close(WithPipe(k, f), f[1])
      BY <1>1, <2>1, <2>4 DEF ChildTable, OtherSide
    <3>2. fds[c][f[0]] = End(k, "r")
      BY <2>1, <3>1 DEF WithPipe, GoodPipe, Table, Close
    <3> QED
      BY <2>1, <2>4, <3>2 DEF GoodPipe
  <2> QED
    BY <1>3, <2>2, <2>3, <2>4
<1>4. CASE \E j \in 1 .. N : c = Member(j) /\ pc[c] \in Own
  <2>1. PICK j \in 1 .. N : c = Member(j) /\ pc[c] \in Own
    BY <1>4
  <2>2. CommandTable(j)
    BY DEF PipelineInv
  <2>3. IF IsOut(c) THEN j = 1 /\ k = 2 ELSE j = k
    BY <1>1, <2>1, ProcFacts
  <2> QED
    BY <1>1, <2>1, <2>2, <2>3 DEF CommandTable
<1>5. CASE \E j \in 2 .. N : c = Evaluator(j) /\ pc[c] \notin {"plumb", "dup"}
  <2>1. PICK j \in 2 .. N : c = Evaluator(j) /\ pc[c] \notin {"plumb", "dup"}
    BY <1>5
  <2>2. EvaluatorTable(j) /\ InOrder(j) /\ pc[c] \in States
    BY <1>1 DEF PipelineInv, PipelineTypes
  <2>3. k = j + 1 /\ IsOut(c)
    BY <1>1, <2>1, ProcFacts
  <2>4. /\ Base(j) \in Table /\ Base(j)[1] = End(k, "w") /\ 1 \in FD
    BY <1>1, <2>3, BaseFacts, PipelineAssumption DEF FD
  <2>5. CASE pc[c] \in {"pipe", "waitLeft", "waitRight"}
    BY <2>1, <2>2, <2>3, <2>4, <2>5 DEF EvaluatorTable
  <2>6. CASE pc[c] \in {"forkLeft", "forkRight", "giveUp", "close"}
    <3>1. GoodPipe(j, fdpipe[c]) /\ fds[c] = WithPipe(j, fdpipe[c])
      BY <2>1, <2>2, <2>6 DEF EvaluatorTable
    <3>2. End(k, "w") # Closed
      BY DEF End, Closed
    <3>3. fds[c][1] = End(k, "w")
      BY <2>4, <3>1, <3>2 DEF GoodPipe, WithPipe, Table
    <3> QED
      BY <2>3, <2>4, <3>3
  <2>7. pc[c] # "done"
    BY <1>1 DEF PipelineInv, InPlace
  <2> QED
    BY <1>1, <2>1, <2>2, <2>5, <2>6, <2>7 DEF States, Own, InOrder
<1>6. \A j \in 1 .. N : c = Member(j) => pc[c] \in {"absent", "plumb", "dup", "dead"} \cup Own
  BY <1>1, ProcFacts DEF PipelineInv, InPlace
<1> QED
  BY <1>1, <1>3, <1>4, <1>5, <1>6, ProcFacts

\* An end of file or a broken pipe that a command is about to see.
LEMMA EndIsRight ==
  ASSUME PipelineInv, ~failed, NEW k \in 1 .. N, pc[Member(k)] = "program"
  PROVE  /\ Stdin(k) = End(k, "r") /\ Holders(k, "w") = {} => k > 1 /\ pc[Member(k - 1)] = "dead"
         /\ Stdout(k)[1] = "w" /\ Holders(Stdout(k)[2], "r") = {} =>
              k < N /\ pc[Member(k + 1)] = "dead"
<1>1. /\ N \in Nat /\ N >= 2 /\ 0 \in FD /\ 1 \in FD /\ fds[Member(k)] \in Table
  BY ProcFacts, PipelineAssumption DEF PipelineInv, PipelineTypes, FD
<1>2. CommandTable(k)
  BY DEF PipelineInv
<1>3. ASSUME Stdin(k) = End(k, "r"), Holders(k, "w") = {}
      PROVE  k > 1 /\ pc[Member(k - 1)] = "dead"
  <2>1. k \in PipeId
    <3>1. Stdin(k) \in Desc
      BY <1>1 DEF Stdin, Table
    <3> QED
      BY <1>3, <3>1 DEF End, Desc, Closed, Tty, File
  <2>2. k \in 2 .. N
    BY <1>1, <2>1 DEF PipeId
  <2> DEFINE c == LeftChild(k)
  <2>3. InOrder(k)
    BY <2>2 DEF PipelineInv
  <2>4. c \in Proc /\ IsOut(c) /\ RightChild(k) = Member(k)
    BY <2>2, FamilyFacts DEF RightChild
  <2>5. pc[c] \in {"absent", "dead"}
    BY <1>3, <2>2, <2>4, HolderOfChild
  <2>6. pc[c] = "dead"
    <3>1. pc[Evaluator(k)] \notin {"absent", "plumb", "dup", "pipe", "forkLeft", "forkRight"}
      BY <2>3, <2>4 DEF InOrder
    <3>2. pc[Evaluator(k)] \in States
      BY <2>2, ProcFacts DEF PipelineInv, PipelineTypes
    <3> QED
      BY <2>3, <2>5, <3>1, <3>2 DEF InOrder, States, Own
  <2>7. CASE k = 2
    BY <2>6, <2>7 DEF LeftChild
  <2>8. CASE k # 2
    <3>1. k - 1 \in 2 .. N /\ c = Evaluator(k - 1)
      BY <1>1, <2>2, <2>8 DEF LeftChild
    <3>2. InOrder(k - 1) /\ pc[Evaluator(k - 1)] = "dead"
      BY <2>6, <3>1 DEF PipelineInv
    <3> QED
      BY <2>2, <3>2 DEF InOrder, RightChild
  <2> QED
    BY <2>2, <2>7, <2>8
<1>4. ASSUME Stdout(k)[1] = "w", Holders(Stdout(k)[2], "r") = {}
      PROVE  k < N /\ pc[Member(k + 1)] = "dead"
  <2>1. k < N /\ Stdout(k) = End(k + 1, "w")
    BY <1>1, <1>2, <1>4 DEF CommandTable, Own, Stdout
  <2>2. k + 1 \in 2 .. N /\ Holders(k + 1, "r") = {}
    BY <1>1, <1>4, <2>1 DEF End
  <2> DEFINE j == k + 1
             c == RightChild(j)
             e == Evaluator(j)
  <2>3. InOrder(j) /\ EvaluatorTable(j) /\ pc[e] \in States
    BY <2>2, ProcFacts DEF PipelineInv, PipelineTypes
  <2>4. c = Member(k + 1) /\ ~IsOut(c)
    BY <2>2, FamilyFacts DEF RightChild
  <2>5. pc[c] \in {"absent", "dead"}
    BY <2>2, <2>4, HolderOfChild
  <2>6. pc[LeftChild(j)] # "absent"
    <3>1. CASE k = 1
      BY <3>1 DEF LeftChild
    <3>2. CASE k # 1
      <4>1. k \in 2 .. N /\ LeftChild(j) = Evaluator(k) /\ RightChild(k) = Member(k)
        BY <1>1, <3>2 DEF LeftChild, RightChild
      <4>2. InOrder(k)
        BY <4>1 DEF PipelineInv
      <4> QED
        BY <4>1, <4>2 DEF InOrder
    <3> QED
      BY <3>1, <3>2
  <2>7. pc[e] # "forkRight"
    <3>1. SUFFICES ASSUME pc[e] = "forkRight" PROVE FALSE
      OBVIOUS
    <3>2. GoodPipe(j, fdpipe[e]) /\ fds[e] = WithPipe(j, fdpipe[e]) /\ Base(j) \in Table
      BY <2>2, <2>3, <3>1, BaseFacts DEF EvaluatorTable
    <3>3. fds[e][fdpipe[e][0]] = End(j, "r") /\ fdpipe[e][0] \in FD
      BY <3>2 DEF GoodPipe, WithPipe, Table
    <3> QED
      BY <2>2, <3>3, ProcFacts DEF Holders
  <2>8. pc[c] = "dead"
    BY <2>3, <2>5, <2>6, <2>7 DEF InOrder, States, Own
  <2> QED
    BY <2>1, <2>4, <2>8
<1> QED
  BY <1>3, <1>4

LEMMA PlacesHold ==
  ASSUME PipelineTypes, \A p \in Proc : InPlace(p), [Next]_vars, NEW c \in Proc
  PROVE  InPlace(c)'
<1>0. CASE UNCHANGED vars
  BY <1>0 DEF vars, InPlace
<1>1. DOMAIN pc = Proc /\ InPlace(c)
  BY DEF PipelineTypes
<1>2. ASSUME NEW q \in Proc, NEW s, pc' = [pc EXCEPT ![q] = s],
             s = "done" => q = Shell,
             q[1] = "evaluator" \/ s \in {"absent", "plumb", "dup", "dead"} \cup Own
      PROVE  InPlace(c)'
  BY <1>1, <1>2 DEF InPlace
<1>3. ASSUME NEW k \in 2 .. N, Evaluation(k) PROVE InPlace(c)'
  <2>0. Evaluator(k) \in Proc /\ Evaluator(k)[1] = "evaluator"
    BY ProcFacts
  <2>1. CASE ForkLeft(k) \/ ForkRight(k)
    <3>1. PICK d \in {LeftChild(k), RightChild(k)}, next \in {"forkRight", "close"} :
            Fork(Evaluator(k), d, next)
      BY <2>1 DEF ForkLeft, ForkRight
    <3> QED
      BY <1>1, <2>0, <3>1 DEF Fork, InPlace
  <2>2. CASE MakePipe(k) \/ PipeFails(k) \/ GiveUp(k) \/ CloseBoth(k)
    BY <1>2, <2>0, <2>2 DEF MakePipe, PipeFails, GiveUp, CloseBoth, Leave, Goto
  <2>3. CASE ForkFails(k) \/ WaitLeft(k) \/ WaitRight(k)
    BY <1>2, <2>0, <2>3 DEF ForkFails, WaitLeft, WaitRight, Leave, Goto
  <2> QED
    BY <1>3, <2>1, <2>2, <2>3 DEF Evaluation
<1>4. ASSUME NEW q \in Proc, Plumbing(q) PROVE InPlace(c)'
  BY <1>2, <1>4 DEF Plumbing, CloseOther, DupOwn, Goto, Own
<1>5. ASSUME NEW k \in 1 .. N, Command(k) \/ Quit(k) PROVE InPlace(c)'
  <2>0. Member(k) \in Proc
    BY ProcFacts
  <2>1. CASE Redirect(k) \/ Read(k) \/ Write(k)
    BY <1>1, <2>1 DEF Redirect, Read, Write, InPlace
  <2>2. CASE Exec(k) \/ HereWrite(k)
    BY <1>2, <2>0, <2>2 DEF Exec, HereWrite, Goto, Own
  <2>3. CASE HereOpen(k)
    BY <1>2, <2>0, <2>3 DEF HereOpen, Goto, Own
  <2>4. CASE EndOfFile(k) \/ BrokenPipe(k) \/ HereBroken(k) \/ Quit(k)
    BY <1>2, <2>0, <2>4 DEF EndOfFile, BrokenPipe, HereBroken, Quit, Stop, Exit, Goto
  <2> QED
    BY <1>5, <2>1, <2>2, <2>3, <2>4 DEF Command
<1> QED
  BY <1>0, <1>3, <1>4, <1>5 DEF Next, Done

\* What a command has been told of its ends stays true.
LEMMA EndsStayRight ==
  ASSUME PipelineInv, [Next]_vars, NEW j \in 1 .. N
  PROVE  EndedRight(j)'
<1>1. /\ EndedRight(j) /\ PipelineTypes /\ N \in Nat /\ failed \in BOOLEAN
      /\ ended \in [1 .. N -> {"no", "eof", "end", "sigpipe", "quit"}]
      /\ \A k \in 2 .. N : InOrder(k)
  BY PipelineAssumption DEF PipelineInv, PipelineTypes
\* Nobody ends.
<1>2. ASSUME ended' = ended, failed => failed' PROVE EndedRight(j)'
  <2>1. \A i \in 1 .. N : pc[Member(i)] = "dead" => pc'[Member(i)] = "dead"
    BY <1>1, DeadStays
  <2> QED
    BY <1>1, <1>2, <2>1 DEF EndedRight
\* Somebody ends and is told why.
<1>3. ASSUME NEW k \in 1 .. N, NEW why \in {"eof", "end", "sigpipe", "quit"}, Stop(k, why),
             ~failed /\ why = "eof" => k > 1 /\ pc[Member(k - 1)] = "dead",
             ~failed /\ why = "sigpipe" => k < N /\ pc[Member(k + 1)] = "dead",
             why = "eof" => k > 1, why = "sigpipe" => k < N
      PROVE  EndedRight(j)'
  <2>1. \A i \in 1 .. N : pc[Member(i)] = "dead" => pc'[Member(i)] = "dead"
    BY <1>1, DeadStays
  <2>2. ended' = [ended EXCEPT ![k] = why] /\ failed' = failed
    BY <1>3 DEF Stop
  <2> QED
    BY <1>1, <1>3, <2>1, <2>2 DEF EndedRight
<1>4. ASSUME NEW k \in 2 .. N, Evaluation(k) PROVE EndedRight(j)'
  <2>1. CASE MakePipe(k) \/ PipeFails(k) \/ GiveUp(k) \/ CloseBoth(k)
    BY <1>2, <2>1 DEF MakePipe, PipeFails, GiveUp, CloseBoth
  <2>2. CASE ForkLeft(k) \/ ForkRight(k) \/ ForkFails(k) \/ WaitLeft(k) \/ WaitRight(k)
    BY <1>2, <2>2 DEF ForkLeft, ForkRight, ForkFails, WaitLeft, WaitRight
  <2> QED
    BY <1>4, <2>1, <2>2 DEF Evaluation
<1>5. ASSUME NEW q \in Proc, Plumbing(q) PROVE EndedRight(j)'
  BY <1>2, <1>5 DEF Plumbing, CloseOther, DupOwn
<1>6. ASSUME NEW k \in 1 .. N, Command(k) \/ Quit(k) PROVE EndedRight(j)'
  <2>1. CASE Redirect(k) \/ HereOpen(k) \/ HereWrite(k)
    BY <1>2, <2>1 DEF Redirect, HereOpen, HereWrite
  <2>2. CASE Exec(k) \/ Read(k) \/ Write(k)
    BY <1>2, <2>2 DEF Exec, Read, Write
  <2>3. CASE HereBroken(k) \/ Quit(k)
    BY <1>3, <2>3 DEF HereBroken, Quit
  <2>4. CASE EndOfFile(k)
    <3>1. pc[Member(k)] = "program"
      BY <2>4 DEF EndOfFile, At
    <3>2. CASE Stdin(k) = End(k, "r")
      <4>1. Holders(k, "w") = {} /\ Stop(k, "eof")
        <5>1. Stdin(k)[1] = "r" /\ Stdin(k)[2] = k /\ Stdin(k) # Tty
          BY <3>2 DEF End, Tty
        <5>2. Stdin(k)[1] = "r" => Holders(Stdin(k)[2], "w") = {}
          BY <2>4, <5>1 DEF EndOfFile
        <5>3. (IF Stdin(k) = End(k, "r") THEN "eof" ELSE "end") = "eof"
          BY <3>2
        <5> QED
          BY <2>4, <5>1, <5>2, <5>3 DEF EndOfFile
      <4>2. k > 1
        <5>1. Stdin(k) \in Desc
          BY <1>1, ProcFacts, PipelineAssumption DEF Stdin, PipelineTypes, Table, FD
        <5>2. k \in PipeId
          BY <3>2, <5>1 DEF End, Desc, Closed, Tty, File
        <5> QED
          BY <5>2 DEF PipeId
      <4>3. ~failed => pc[Member(k - 1)] = "dead"
        BY <3>1, <3>2, <4>1, EndIsRight
      <4> QED
        BY <1>3, <4>1, <4>2, <4>3
    <3>3. CASE Stdin(k) # End(k, "r")
      <4>1. Stop(k, "end")
        BY <2>4, <3>3 DEF EndOfFile
      <4> QED
        BY <1>3, <4>1
    <3> QED
      BY <3>2, <3>3
  <2>5. CASE BrokenPipe(k)
    <3>1. /\ pc[Member(k)] = "program" /\ Stop(k, "sigpipe")
          /\ Stdout(k)[1] = "w" /\ Holders(Stdout(k)[2], "r") = {}
      BY <2>5 DEF BrokenPipe, At
    <3>2. k < N
      <4>1. CommandTable(k) /\ 1 \in FD
        BY PipelineAssumption DEF PipelineInv, FD
      <4> QED
        BY <3>1, <4>1 DEF CommandTable, Own, Stdout
    <3>3. ~failed => pc[Member(k + 1)] = "dead"
      BY <3>1, EndIsRight
    <3> QED
      BY <1>3, <3>1, <3>2, <3>3
  <2> QED
    BY <1>6, <2>1, <2>2, <2>3, <2>4, <2>5 DEF Command
<1>7. CASE UNCHANGED vars
  BY <1>2, <1>7 DEF vars
<1> QED
  BY <1>4, <1>5, <1>6, <1>7 DEF Next, Done

LEMMA PipelineBegins == Init => PipelineInv
<1> SUFFICES ASSUME Init PROVE PipelineInv
  OBVIOUS
<1> USE DEF Init
<1>1. /\ N \in Nat /\ N >= 2 /\ MaxFd \in Nat /\ MaxFd >= 5 /\ 0 \in FD
      /\ Shell \in Proc
  BY PipelineAssumption, ShellIsNoChild DEF FD
<1>2. PipelineTypes
  <2>1. AtPrompt \in Table /\ NoFds \in Table
    BY AtPromptType DEF Table, Desc, NoFds
  <2> QED
    BY <1>1, <2>1 DEF PipelineTypes, States
<1>3. \A p \in Proc : pc[p] = IF p = Shell THEN "pipe" ELSE "absent"
  OBVIOUS
<1>4. ASSUME NEW k \in 2 .. N PROVE InOrder(k) /\ EvaluatorTable(k)
  <2>1. Evaluator(k) \in Proc /\ LeftChild(k) \in Proc \ {Shell} /\ RightChild(k) \in Proc \ {Shell}
    BY ProcFacts, FamilyFacts
  <2>2. InOrder(k)
    BY <1>3, <2>1 DEF InOrder, Own
  <2>3. EvaluatorTable(k)
    <3>1. Evaluator(k) = Shell => k = N
      BY ShellIsNoChild
    <3> QED
      BY <1>3, <2>1, <3>1 DEF EvaluatorTable, Base
  <2> QED
    BY <2>2, <2>3
<1>5. ASSUME NEW p \in Proc PROVE InPlace(p)
  <2>1. Shell[1] = "evaluator"
    BY DEF Shell, Evaluator
  <2> QED
    BY <1>3, <2>1 DEF InPlace
<1>6. ASSUME NEW p \in Proc \ {Shell} PROVE ChildTable(p)
  BY <1>3 DEF ChildTable
<1>7. ASSUME NEW k \in 1 .. N PROVE CommandTable(k) /\ EndedRight(k)
  BY <1>3, ShellIsNoChild DEF CommandTable, EndedRight, Own
<1> QED
  BY <1>2, <1>4, <1>5, <1>6, <1>7 DEF PipelineInv

\* The ends of the pipes are where they belong at all times.
LEMMA PipelineInvariant == Spec => []PipelineInv
<1>1. ShellTable /\ PipelineInv /\ [Next]_vars => PipelineInv'
  <2> SUFFICES ASSUME ShellTable, PipelineInv, [Next]_vars PROVE PipelineInv'
    OBVIOUS
  <2>1. /\ PipelineTypes
        /\ \A k \in 2 .. N : InOrder(k) /\ EvaluatorTable(k)
        /\ \A p \in Proc : InPlace(p)
        /\ \A p \in Proc \ {Shell} : ChildTable(p)
        /\ \A k \in 1 .. N : CommandTable(k)
    BY DEF PipelineInv
  <2>2. PipelineTypes'
    BY <2>1, PipelineTyped
  <2>3. \A k \in 2 .. N : InOrder(k)' /\ EvaluatorTable(k)'
    BY <2>1, <2>2, PipelineOrdered, EvaluatorsHold
  <2>4. \A p \in Proc : InPlace(p)'
    BY <2>1, PlacesHold
  <2>5. \A p \in Proc \ {Shell} : ChildTable(p)'
    BY <2>1, <2>2, ChildrenHold
  <2>6. \A k \in 1 .. N : CommandTable(k)' /\ EndedRight(k)'
    BY <2>1, <2>2, CommandsHold, EndsStayRight
  <2> QED
    BY <2>2, <2>3, <2>4, <2>5, <2>6 DEF PipelineInv
<1> QED
  BY PipelineBegins, ShellTableInvariant, <1>1, PTL DEF Spec

\* A filter is told that its input has ended only when the command on its left is over,
\* and that nobody reads its output only when the one on its right is, unless a pipe,
\* a fork or the copy for oldfd has failed: for a pipeline of any length, any
\* redirections, and tables and pipes of any size.
THEOREM EndsAreTrue == Spec => []EndsMeanEnds
<1>1. PipelineInv => EndsMeanEnds
  BY DEF PipelineInv, EndedRight, EndsMeanEnds, At
<1> QED
  BY PipelineInvariant, <1>1, PTL

-----------------------------------------------------------------------------
(* What goes through the pipes of commands without redirections            *)

Plain == \A k \in 1 .. N : plan[k] = <<>>

\* Each command reads from the pipe on its left and writes to the one on its right.
PlainTable(k) ==
  pc[Member(k)] \in Own =>
    /\ pc[Member(k)] # "hereWrite"
    /\ Stdin(k) = IF k = 1 THEN Tty ELSE End(k, "r")
    /\ Stdout(k) = IF k = N THEN Tty ELSE End(k + 1, "w")

ItemTypes ==
  /\ have \subseteq 1 .. N
  /\ buffer \in [PipeId -> Nat]
  /\ input \in Nat /\ output \in Nat

\* With got[k] items that command k has read and put[k] that it has written, nothing
\* is anywhere else than where it belongs.
Balanced(got, put) ==
  /\ got[1] + input = Input
  /\ put[N] = output
  /\ \A k \in 1 .. N : got[k] = put[k] + IF k \in have THEN 1 ELSE 0
  /\ \A k \in 2 .. N : put[k - 1] = got[k] + buffer[k]

Conserved == \E got, put \in [1 .. N -> Nat] : Balanced(got, put)

EndedIsDead(k) == ended[k] # "no" <=> pc[Member(k)] = "dead"

\* A command that is over has left nothing, and the one on its left is over too.
Drained(k) ==
  ended[k] # "no" =>
    /\ k \notin have
    /\ k = 1 => input = 0
    /\ k > 1 => buffer[k] = 0 /\ ended[k - 1] # "no"

Undisturbed == ~failed /\ \A k \in 1 .. N : ended[k] # "quit"

OutputInv ==
  /\ ItemTypes
  /\ \A k \in 1 .. N : EndedIsDead(k)
  /\ Plain => /\ \A k \in 1 .. N : PlainTable(k)
              /\ Conserved
              /\ Undisturbed => \A k \in 1 .. N : Drained(k)

\* The variables of the commands' own actions are untouched by the shell's.
LEMMA ShellMovesNoItem ==
  /\ \A k \in 2 .. N : Evaluation(k) => UNCHANGED <<buffer, plan, made, have, input, output, ended>>
  /\ \A p \in Proc : Plumbing(p) => UNCHANGED <<buffer, plan, made, have, input, output, ended>>
<1>1. ASSUME NEW k \in 2 .. N, Evaluation(k)
      PROVE  UNCHANGED <<buffer, plan, made, have, input, output, ended>>
  <2>1. CASE MakePipe(k) \/ PipeFails(k) \/ GiveUp(k) \/ CloseBoth(k)
    BY <2>1 DEF MakePipe, PipeFails, GiveUp, CloseBoth
  <2>2. CASE ForkLeft(k) \/ ForkRight(k) \/ ForkFails(k) \/ WaitLeft(k) \/ WaitRight(k)
    BY <2>2 DEF ForkLeft, ForkRight, ForkFails, WaitLeft, WaitRight
  <2> QED
    BY <1>1, <2>1, <2>2 DEF Evaluation
<1>2. ASSUME NEW p \in Proc, Plumbing(p)
      PROVE  UNCHANGED <<buffer, plan, made, have, input, output, ended>>
  BY <1>2 DEF Plumbing, CloseOther, DupOwn
<1> QED
  BY <1>1, <1>2

\* A command is over when it has been told why.
LEMMA EndedStaysDead ==
  ASSUME PipelineInv, [Next]_vars, NEW j \in 1 .. N, EndedIsDead(j)
  PROVE  EndedIsDead(j)'
<1> DEFINE q == Member(j)
<1>1. /\ q \in Proc /\ DOMAIN pc = Proc /\ ended \in [1 .. N -> {"no", "eof", "end", "sigpipe", "quit"}]
      /\ PipelineTypes /\ \A k \in 2 .. N : InOrder(k)
  BY ProcFacts DEF PipelineInv, PipelineTypes
<1>2. pc[q] = "dead" => pc'[q] = "dead"
  BY <1>1, DeadStays
<1>3. ASSUME ended' = ended, pc'[q] = "dead" => pc[q] = "dead" PROVE EndedIsDead(j)'
  BY <1>2, <1>3 DEF EndedIsDead
<1>4. ASSUME NEW k \in 2 .. N, Evaluation(k) PROVE EndedIsDead(j)'
  <2>0. Evaluator(k) \in Proc /\ Evaluator(k) # q /\ ended' = ended
    BY <1>4, ProcFacts, ShellMovesNoItem
  <2>1. CASE ForkLeft(k) \/ ForkRight(k)
    <3>1. PICK d \in {LeftChild(k), RightChild(k)}, next \in {"forkRight", "close"} :
            Fork(Evaluator(k), d, next)
      BY <2>1 DEF ForkLeft, ForkRight
    <3> QED
      BY <1>1, <1>3, <2>0, <3>1 DEF Fork
  <2>2. CASE MakePipe(k) \/ PipeFails(k) \/ GiveUp(k) \/ CloseBoth(k)
    BY <1>1, <1>3, <2>0, <2>2 DEF MakePipe, PipeFails, GiveUp, CloseBoth, Leave, Goto
  <2>3. CASE ForkFails(k) \/ WaitLeft(k) \/ WaitRight(k)
    BY <1>1, <1>3, <2>0, <2>3 DEF ForkFails, WaitLeft, WaitRight, Leave, Goto
  <2> QED
    BY <1>4, <2>1, <2>2, <2>3 DEF Evaluation
<1>5. ASSUME NEW p \in Proc, Plumbing(p) PROVE EndedIsDead(j)'
  BY <1>1, <1>3, <1>5 DEF Plumbing, CloseOther, DupOwn, Goto, At
<1>6. ASSUME NEW k \in 1 .. N, Command(k) \/ Quit(k) PROVE EndedIsDead(j)'
  <2>0. Member(k) \in Proc
    BY ProcFacts
  <2>1. CASE Redirect(k) \/ Read(k) \/ Write(k)
    BY <1>3, <2>1 DEF Redirect, Read, Write
  <2>2. CASE Exec(k) \/ HereWrite(k) \/ HereOpen(k)
    BY <1>1, <1>3, <2>0, <2>2 DEF Exec, HereWrite, HereOpen, Goto
  <2>3. CASE EndOfFile(k) \/ BrokenPipe(k) \/ HereBroken(k) \/ Quit(k)
    <3>1. PICK why \in {"eof", "end", "sigpipe", "quit"} : Stop(k, why)
      BY <2>3 DEF EndOfFile, BrokenPipe, HereBroken, Quit
    <3>2. /\ pc' = [pc EXCEPT ![Member(k)] = "dead"]
          /\ ended' = [ended EXCEPT ![k] = why]
      BY <3>1 DEF Stop, Exit, Goto
    <3> QED
      BY <1>1, <2>0, <3>2, ProcFacts DEF EndedIsDead
  <2> QED
    BY <1>6, <2>1, <2>2, <2>3 DEF Command
<1>7. CASE UNCHANGED vars
  BY <1>3, <1>7 DEF vars
<1> QED
  BY <1>4, <1>5, <1>6, <1>7 DEF Next, Done

\* The ends that dup2 has put into place stay there.
LEMMA PlainTableKept ==
  ASSUME PipelineInv, Plain, [Next]_vars, NEW j \in 1 .. N, PlainTable(j)
  PROVE  PlainTable(j)'
<1> DEFINE q == Member(j)
           k == PipeOf(q)
           b == IF IsOut(q) THEN 1 ELSE 0
<1>1. /\ q \in Proc \ {Shell} /\ pc \in [Proc -> States] /\ fds \in [Proc -> Table]
      /\ fdpipe \in [Proc -> [0 .. 1 -> FD]]
      /\ made \in [1 .. N -> Nat] /\ ChildTable(q) /\ InPlace(q) /\ N \in Nat /\ N >= 2
      /\ 0 \in FD /\ 1 \in FD
  <2>1. q \in Proc \ {Shell}
    BY ProcFacts, ShellIsNoChild
  <2>2. N \in Nat /\ N >= 2 /\ 0 \in FD /\ 1 \in FD
    BY PipelineAssumption DEF FD
  <2> QED
    BY <2>1, <2>2 DEF PipelineInv, PipelineTypes
<1>2. ASSUME fds'[q] = fds[q], pc'[q] \in Own => pc'[q] # "hereWrite" /\ pc[q] \in Own
      PROVE  PlainTable(j)'
  BY <1>2 DEF PlainTable, Stdin, Stdout
<1>3. \A i \in 1 .. N : ~Redirects(i)
  BY <1>1 DEF Redirects, Plain
<1>4. ASSUME NEW i \in 2 .. N, Evaluation(i) PROVE PlainTable(j)'
  <2>0. Evaluator(i) \in Proc /\ Evaluator(i) # q
    BY ProcFacts
  <2>1. CASE ForkLeft(i) \/ ForkRight(i)
    <3>1. PICK d \in {LeftChild(i), RightChild(i)}, next \in {"forkRight", "close"} :
            Fork(Evaluator(i), d, next)
      BY <2>1 DEF ForkLeft, ForkRight
    <3>2. CASE d = q
      BY <1>1, <2>0, <3>1, <3>2 DEF Fork, PlainTable, Own
    <3>3. CASE d # q
      BY <1>1, <1>2, <2>0, <3>1, <3>3 DEF Fork, PlainTable
    <3> QED
      BY <3>2, <3>3
  <2>2. (fds'[q] = fds[q] /\ pc'[q] = pc[q]) \/ ForkLeft(i) \/ ForkRight(i)
    <3>1. CASE MakePipe(i) \/ PipeFails(i) \/ GiveUp(i) \/ CloseBoth(i)
      BY <1>1, <2>0, <3>1 DEF MakePipe, PipeFails, GiveUp, CloseBoth, Leave, Goto
    <3>2. CASE ForkFails(i) \/ WaitLeft(i) \/ WaitRight(i)
      BY <1>1, <2>0, <3>2 DEF ForkFails, WaitLeft, WaitRight, Leave, Goto
    <3> QED
      BY <1>4, <3>1, <3>2 DEF Evaluation
  <2> QED
    BY <2>1, <2>2 DEF PlainTable, Stdin, Stdout
<1>5. ASSUME NEW p \in Proc, Plumbing(p) PROVE PlainTable(j)'
  <2>1. CASE p # q \/ CloseOther(p)
    BY <1>1, <1>5, <2>1 DEF Plumbing, CloseOther, DupOwn, Goto, PlainTable, Stdin, Stdout, Own
  <2>2. CASE p = q /\ DupOwn(p)
    <3> DEFINE f == fdpipe[q]
               t == Close(WithPipe(k, f), f[OtherSide(q)])
    <3>1. /\ pc[q] = "dup" /\ k \in 2 .. N
          /\ fds'[q] = Close(Dup2(fds[q], f[b], b), f[b])
          /\ pc'[q] = "redirect"
      BY <1>1, <2>2, ParentOf, ProcFacts DEF DupOwn, At, Goto
    <3>2. fds[q] = t /\ GoodPipe(k, f) /\ Base(k) \in Table
      BY <1>1, <3>1, BaseFacts DEF ChildTable
    <3>3. f[0] \notin {0, 1} /\ f[1] \notin {0, 1} /\ f[0] # f[1] /\ f[0] \in FD /\ f[1] \in FD
      <4>1. Base(k)[0] = Tty /\ Base(k)[1] # Closed
        BY <3>1, BaseFacts
      <4> QED
        BY <3>2, <4>1 DEF GoodPipe, Tty, Closed
    <3>4. Base(k)[0] = Tty /\ Base(k)[1] = IF k = N THEN Tty ELSE End(k + 1, "w")
      BY <1>1, <3>1, BaseFacts, PipelineAssumption DEF Base, AtPrompt
    <3>5. End(k, "r") # Closed /\ End(k, "w") # Closed
      BY DEF End, Closed
    <3>6. CASE IsOut(q)
      <4>1. j = 1 /\ k = 2 /\ OtherSide(q) = 0 /\ b = 1
        BY <3>6, ProcFacts DEF OtherSide
      <4>2. t[f[1]] = End(k, "w") /\ t[0] = Tty
        BY <1>1, <3>2, <3>3, <3>4, <4>1 DEF WithPipe, Table, Close
      <4>3. fds'[q][0] = Tty /\ fds'[q][1] = End(2, "w")
        BY <1>1, <3>1, <3>2, <3>3, <3>5, <4>1, <4>2 DEF Dup2, Close, Table
      <4> QED
        BY <1>1, <3>1, <4>1, <4>3 DEF PlainTable, Stdin, Stdout
    <3>7. CASE ~IsOut(q)
      <4>1. j # 1 /\ k = j /\ OtherSide(q) = 1 /\ b = 0
        BY <3>7, ProcFacts DEF OtherSide
      <4>2. t[f[0]] = End(k, "r") /\ t[1] = Base(k)[1]
        BY <1>1, <3>2, <3>3, <3>4, <4>1 DEF WithPipe, Table, Close
      <4>3. fds'[q][0] = End(k, "r") /\ fds'[q][1] = Base(k)[1]
        BY <1>1, <3>1, <3>2, <3>3, <3>5, <4>1, <4>2 DEF Dup2, Close, Table
      <4> QED
        BY <1>1, <3>1, <3>4, <4>1, <4>3 DEF PlainTable, Stdin, Stdout
    <3> QED
      BY <3>6, <3>7
  <2> QED
    BY <1>5, <2>1, <2>2 DEF Plumbing
<1>6. ASSUME NEW i \in 1 .. N, Command(i) \/ Quit(i) PROVE PlainTable(j)'
  <2>0. Member(i) \in Proc /\ (i = j \/ Member(i) # q)
    BY ProcFacts
  <2>1. CASE Redirect(i) \/ HereOpen(i)
    BY <1>3, <2>1 DEF Redirect, HereOpen
  <2>2. CASE Read(i) \/ Write(i)
    BY <1>2, <2>2 DEF Read, Write, PlainTable, Stdin, Stdout
  <2>3. CASE Exec(i)
    BY <1>1, <2>0, <2>3 DEF Exec, Goto, At, PlainTable, Stdin, Stdout, Own
  <2>4. CASE HereWrite(i)
    BY <1>1, <2>0, <2>4 DEF HereWrite, Goto, At, PlainTable, Stdin, Stdout, Own
  <2>5. CASE EndOfFile(i) \/ BrokenPipe(i) \/ HereBroken(i) \/ Quit(i)
    <3>1. PICK why \in {"eof", "end", "sigpipe", "quit"} : Stop(i, why)
      BY <2>5 DEF EndOfFile, BrokenPipe, HereBroken, Quit
    <3>2. /\ pc' = [pc EXCEPT ![Member(i)] = "dead"]
          /\ fds' = [fds EXCEPT ![Member(i)] = NoFds]
      BY <3>1 DEF Stop, Exit, Goto
    <3> QED
      BY <1>1, <2>0, <3>2 DEF PlainTable, Stdin, Stdout, Own
  <2> QED
    BY <1>6, <2>1, <2>2, <2>3, <2>4, <2>5 DEF Command
<1>7. CASE UNCHANGED vars
  BY <1>7 DEF vars, PlainTable, Stdin, Stdout
<1> QED
  BY <1>4, <1>5, <1>6, <1>7 DEF Next, Done

\* The three things that happen to items: command k reads one,
Takes(k) ==
  /\ pc[Member(k)] = "program" /\ k \notin have
  /\ have' = have \cup {k}
  /\ IF k = 1 THEN input > 0 /\ input' = input - 1 /\ buffer' = buffer
     ELSE buffer[k] > 0 /\ buffer' = [buffer EXCEPT ![k] = @ - 1] /\ input' = input
  /\ UNCHANGED <<output, ended>>

\* writes it,
Puts(k) ==
  /\ pc[Member(k)] = "program" /\ k \in have
  /\ have' = have \ {k}
  /\ IF k = N THEN output' = output + 1 /\ buffer' = buffer
     ELSE buffer' = [buffer EXCEPT ![k + 1] = @ + 1] /\ output' = output
  /\ UNCHANGED <<input, ended>>

\* or ends.
Finishes(k, why) ==
  /\ pc[Member(k)] # "dead"
  /\ ended' = [ended EXCEPT ![k] = why]
  /\ \/ why = "quit"
     \/ why = "sigpipe" /\ k < N /\ (~failed => pc[Member(k + 1)] = "dead")
     \/ /\ why \in {"eof", "end"} /\ k \notin have
        /\ IF k = 1 THEN input = 0
           ELSE buffer[k] = 0 /\ (~failed => pc[Member(k - 1)] = "dead")
  /\ UNCHANGED <<buffer, have, input, output>>

ItemsMove ==
  \/ UNCHANGED <<buffer, have, input, output, ended>>
  \/ \E k \in 1 .. N :
       Takes(k) \/ Puts(k) \/ \E why \in {"eof", "end", "sigpipe", "quit"} : Finishes(k, why)

\* There is nothing else.
LEMMA ItemsMoveSo ==
  ASSUME PipelineInv, Plain, \A k \in 1 .. N : PlainTable(k), [Next]_vars
  PROVE  ItemsMove
<1>1. N \in Nat /\ N >= 2 /\ made \in [1 .. N -> Nat]
  BY PipelineAssumption DEF PipelineInv, PipelineTypes
<1>2. \A i \in 1 .. N : ~Redirects(i)
  BY <1>1 DEF Redirects, Plain
<1>3. ASSUME NEW k \in 2 .. N, Evaluation(k) PROVE ItemsMove
  BY <1>3, ShellMovesNoItem DEF ItemsMove
<1>4. ASSUME NEW p \in Proc, Plumbing(p) PROVE ItemsMove
  BY <1>4, ShellMovesNoItem DEF ItemsMove
<1>5. ASSUME NEW k \in 1 .. N, Command(k) \/ Quit(k) PROVE ItemsMove
  <2> DEFINE q == Member(k)
  <2>0. /\ PlainTable(k)
        /\ "w" # "r" /\ Tty[1] \notin {"r", "w"}
        /\ \A i, e : End(i, e)[1] = e /\ End(i, e)[2] = i /\ (e \in {"r", "w"} => End(i, e) # Tty)
    BY DEF End, Tty
  <2>1. CASE Redirect(k) \/ HereOpen(k)
    BY <1>2, <2>1 DEF Redirect, HereOpen
  <2>2. CASE Exec(k)
    BY <2>2 DEF Exec, ItemsMove
  <2>3. CASE HereWrite(k) \/ HereBroken(k)
    BY <2>0, <2>3 DEF HereWrite, HereBroken, At, PlainTable, Own
  <2>4. CASE Read(k)
    <3>1. pc[q] = "program"
      BY <2>4 DEF Read, At
    <3>2. Stdin(k) = IF k = 1 THEN Tty ELSE End(k, "r")
      BY <2>0, <3>1 DEF PlainTable, Own
    <3>3. Takes(k)
      <4>1. CASE k = 1
        BY <2>0, <2>4, <3>1, <3>2, <4>1 DEF Read, Takes
      <4>2. CASE k # 1
        BY <2>0, <2>4, <3>1, <3>2, <4>2 DEF Read, Takes
      <4> QED
        BY <4>1, <4>2
    <3> QED
      BY <3>3 DEF ItemsMove
  <2>5. CASE Write(k)
    <3>1. pc[q] = "program"
      BY <2>5 DEF Write, At
    <3>2. Stdout(k) = IF k = N THEN Tty ELSE End(k + 1, "w")
      BY <2>0, <3>1 DEF PlainTable, Own
    <3>3. Puts(k)
      <4>1. CASE k = N
        BY <2>0, <2>5, <3>1, <3>2, <4>1 DEF Write, Puts
      <4>2. CASE k # N
        BY <2>0, <2>5, <3>1, <3>2, <4>2 DEF Write, Puts
      <4> QED
        BY <4>1, <4>2
    <3> QED
      BY <3>3 DEF ItemsMove
  <2>6. CASE Quit(k)
    <3>1. Finishes(k, "quit")
      BY <2>6 DEF Quit, Stop, Finishes
    <3> QED
      BY <3>1 DEF ItemsMove
  <2>7. CASE EndOfFile(k)
    <3>1. pc[q] = "program" /\ k \notin have
      BY <2>7 DEF EndOfFile, At
    <3>2. Stdin(k) = IF k = 1 THEN Tty ELSE End(k, "r")
      BY <2>0, <3>1 DEF PlainTable, Own
    <3>3. PICK why \in {"eof", "end"} : Stop(k, why) /\ buffer' = buffer
      BY <2>7 DEF EndOfFile
    <3>4. CASE k = 1
      <4>1. input = 0
        BY <2>0, <2>7, <3>2, <3>4 DEF EndOfFile
      <4>2. Finishes(k, why)
        BY <3>1, <3>3, <3>4, <4>1 DEF Stop, Finishes
      <4> QED
        BY <4>2 DEF ItemsMove
    <3>5. CASE k # 1
      <4>1. buffer[k] = 0 /\ Holders(k, "w") = {}
        BY <2>0, <2>7, <3>2, <3>5 DEF EndOfFile
      <4>2. ~failed => pc[Member(k - 1)] = "dead"
        BY <3>1, <3>2, <3>5, <4>1, EndIsRight
      <4>3. Finishes(k, why)
        BY <3>1, <3>3, <3>5, <4>1, <4>2 DEF Stop, Finishes
      <4> QED
        BY <4>3 DEF ItemsMove
    <3> QED
      BY <3>4, <3>5
  <2>8. CASE BrokenPipe(k)
    <3>1. /\ pc[q] = "program" /\ Stop(k, "sigpipe") /\ buffer' = buffer
          /\ Stdout(k)[1] = "w" /\ Holders(Stdout(k)[2], "r") = {}
      BY <2>8 DEF BrokenPipe, At
    <3>2. k < N
      BY <1>1, <2>0, <3>1 DEF PlainTable, Own
    <3>3. ~failed => pc[Member(k + 1)] = "dead"
      BY <3>1, EndIsRight
    <3>4. Finishes(k, "sigpipe")
      BY <3>1, <3>2, <3>3 DEF Stop, Finishes
    <3> QED
      BY <3>4 DEF ItemsMove
  <2> QED
    BY <1>5, <2>1, <2>2, <2>3, <2>4, <2>5, <2>6, <2>7, <2>8 DEF Command
<1>6. CASE UNCHANGED vars
  BY <1>6 DEF vars, ItemsMove
<1> QED
  BY <1>3, <1>4, <1>5, <1>6 DEF Next, Done

\* An item that is read or written is in one place before and in one place after.
LEMMA ItemsConserved ==
  ASSUME ItemTypes, Conserved, ItemsMove
  PROVE  Conserved'
<1>1. N \in Nat /\ N >= 2 /\ Input \in Nat
  BY PipelineAssumption
<1>2. PICK got \in [1 .. N -> Nat], put \in [1 .. N -> Nat] : Balanced(got, put)
  BY DEF Conserved
<1>3. ASSUME UNCHANGED <<buffer, have, input, output>> PROVE Conserved'
  <2>1. Balanced(got, put)'
    BY <1>2, <1>3 DEF Balanced
  <2> QED
    BY <2>1 DEF Conserved
<1>4. ASSUME NEW k \in 1 .. N, Takes(k) PROVE Conserved'
  <2> DEFINE more == [got EXCEPT ![k] = @ + 1]
  <2>1. more \in [1 .. N -> Nat]
    OBVIOUS
  <2>2. more[1] + input' = Input
    BY <1>1, <1>2, <1>4 DEF Balanced, Takes, ItemTypes
  <2>3. put[N] = output'
    BY <1>2, <1>4 DEF Balanced, Takes
  <2>4. \A i \in 1 .. N : more[i] = put[i] + IF i \in have' THEN 1 ELSE 0
    BY <1>2, <1>4 DEF Balanced, Takes
  <2>5. \A i \in 2 .. N : put[i - 1] = more[i] + buffer'[i]
    <3> TAKE i \in 2 .. N
    <3>1. i \in PipeId /\ buffer[i] \in Nat /\ put[i - 1] = got[i] + buffer[i]
      <4>1. i \in PipeId
        BY <1>1 DEF PipeId
      <4> QED
        BY <1>2, <4>1 DEF Balanced, ItemTypes
    <3> QED
      BY <1>4, <3>1 DEF Takes, ItemTypes
  <2>6. Balanced(more, put)'
    BY <2>2, <2>3, <2>4, <2>5 DEF Balanced
  <2> QED
    BY <2>1, <2>6 DEF Conserved
<1>5. ASSUME NEW k \in 1 .. N, Puts(k) PROVE Conserved'
  <2> DEFINE more == [put EXCEPT ![k] = @ + 1]
  <2>1. more \in [1 .. N -> Nat]
    OBVIOUS
  <2>2. got[1] + input' = Input
    BY <1>2, <1>5 DEF Balanced, Puts
  <2>3. more[N] = output'
    BY <1>1, <1>2, <1>5 DEF Balanced, Puts
  <2>4. \A i \in 1 .. N : got[i] = more[i] + IF i \in have' THEN 1 ELSE 0
    BY <1>2, <1>5 DEF Balanced, Puts
  <2>5. \A i \in 2 .. N : more[i - 1] = got[i] + buffer'[i]
    <3> TAKE i \in 2 .. N
    <3>1. /\ i \in PipeId /\ buffer[i] \in Nat /\ put[i - 1] = got[i] + buffer[i]
          /\ i - 1 \in 1 .. N
      <4>1. i \in PipeId /\ i - 1 \in 1 .. N
        BY <1>1 DEF PipeId
      <4> QED
        BY <1>2, <4>1 DEF Balanced, ItemTypes
    <3>2. CASE i - 1 = k
      BY <1>1, <1>5, <3>1, <3>2 DEF Puts, ItemTypes
    <3>3. CASE i - 1 # k
      <4>1. more[i - 1] = put[i - 1] /\ buffer'[i] = buffer[i]
        BY <1>1, <1>5, <3>1, <3>3 DEF Puts, ItemTypes
      <4> QED
        BY <3>1, <4>1
    <3> QED
      BY <3>2, <3>3
  <2>6. Balanced(got, more)'
    BY <2>2, <2>3, <2>4, <2>5 DEF Balanced
  <2> QED
    BY <2>1, <2>6 DEF Conserved
<1> QED
  BY <1>3, <1>4, <1>5 DEF ItemsMove, Finishes

\* A command that has stopped at the end of its input does not get more.
LEMMA DrainedStays ==
  ASSUME PipelineTypes, ItemTypes, \A k \in 1 .. N : EndedIsDead(k),
         Undisturbed => \A k \in 1 .. N : Drained(k), ItemsMove,
         failed => failed', Undisturbed', NEW j \in 1 .. N
  PROVE  Drained(j)'
<1>1. /\ N \in Nat /\ N >= 2 /\ ended \in [1 .. N -> {"no", "eof", "end", "sigpipe", "quit"}]
  BY PipelineAssumption DEF PipelineTypes
<1>2. Undisturbed
  BY <1>1 DEF Undisturbed, ItemsMove, Takes, Puts, Finishes, EndedIsDead
<1>3. Drained(j) /\ (j > 1 => j - 1 \in 1 .. N /\ Drained(j - 1))
  BY <1>1, <1>2
<1>4. CASE UNCHANGED <<buffer, have, input, output, ended>>
  BY <1>3, <1>4 DEF Drained
<1>5. ASSUME NEW k \in 1 .. N, Takes(k) PROVE Drained(j)'
  <2>1. ended[k] = "no" /\ ended' = ended
    BY <1>5 DEF Takes, EndedIsDead
  <2>2. CASE j = k
    BY <2>1, <2>2 DEF Drained
  <2>3. CASE j # k
    <3>1. (j > 1 => buffer'[j] = buffer[j]) /\ (j = 1 => input' = input)
      BY <1>1, <1>5, <2>3 DEF Takes, ItemTypes, PipeId
    <3> QED
      BY <1>3, <1>5, <2>1, <2>3, <3>1 DEF Drained, Takes
  <2> QED
    BY <2>2, <2>3
<1>6. ASSUME NEW k \in 1 .. N, Puts(k) PROVE Drained(j)'
  <2>1. ended[k] = "no" /\ ended' = ended /\ input' = input
    BY <1>6 DEF Puts, EndedIsDead
  <2>2. CASE j = k
    BY <2>1, <2>2 DEF Drained
  <2>3. CASE j = k + 1
    BY <1>1, <1>3, <2>1, <2>3 DEF Drained
  <2>4. CASE j # k /\ j # k + 1
    <3>1. j > 1 => buffer'[j] = buffer[j]
      BY <1>1, <1>6, <2>4 DEF Puts, ItemTypes, PipeId
    <3> QED
      BY <1>3, <1>6, <2>1, <2>4, <3>1 DEF Drained, Puts
  <2> QED
    BY <2>2, <2>3, <2>4
<1>7. ASSUME NEW k \in 1 .. N, NEW why \in {"eof", "end", "sigpipe", "quit"}, Finishes(k, why)
      PROVE  Drained(j)'
  <2>1. ended' = [ended EXCEPT ![k] = why] /\ ended[k] = "no"
    BY <1>1, <1>7 DEF Finishes, EndedIsDead
  <2>2. why # "quit"
    BY <1>1, <2>1 DEF Undisturbed
  <2>3. why # "sigpipe"
    <3>1. SUFFICES ASSUME why = "sigpipe" PROVE FALSE
      OBVIOUS
    <3>2. k + 1 \in 1 .. N /\ pc[Member(k + 1)] = "dead"
      BY <1>1, <1>2, <1>7, <3>1 DEF Finishes, Undisturbed
    <3>3. ended[k + 1] # "no" /\ Drained(k + 1)
      BY <1>2, <3>2 DEF EndedIsDead
    <3> QED
      BY <1>1, <2>1, <3>3 DEF Drained
  <2>4. CASE j = k
    <3>1. k > 1 => ended[k - 1] # "no"
      BY <1>1, <1>2, <1>7, <2>2, <2>3 DEF Finishes, EndedIsDead, Undisturbed
    <3>2. k > 1 => ended'[k - 1] # "no"
      BY <1>1, <2>1, <3>1
    <3> QED
      BY <1>1, <1>7, <2>2, <2>3, <2>4, <3>2 DEF Finishes, Drained
  <2>5. CASE j # k
    <3>1. ended'[j] = ended[j] /\ (j > 1 /\ ended[j - 1] # "no" => ended'[j - 1] # "no")
      BY <1>1, <2>1, <2>5
    <3> QED
      BY <1>3, <1>7, <3>1 DEF Drained, Finishes
  <2> QED
    BY <2>4, <2>5
<1> QED
  BY <1>4, <1>5, <1>6, <1>7 DEF ItemsMove

\* When the outermost call is over, every command is.
LEMMA AllAreDead ==
  ASSUME PipelineInv, ~failed, pc[Shell] = "done", NEW k \in 1 .. N
  PROVE  pc[Member(k)] = "dead"
<1>1. N \in Nat /\ N >= 2
  BY PipelineAssumption
<1> DEFINE IsOver(i) == pc[Evaluator(i)] \in {"dead", "done"}
           S == {i \in 0 .. N - 2 : ~IsOver(N - i)}
<1>2. S = {}
  <2>1. SUFFICES ASSUME S # {} PROVE FALSE
    OBVIOUS
  <2>2. PICK i \in S : \A j \in S : i =< j
    <3>1. S \subseteq Nat
      BY <1>1
    <3> HIDE DEF S
    <3> QED
      BY <2>1, <3>1, LeastNumber
  <2>3. i # 0
    BY <1>1 DEF Shell
  <2>4. i - 1 \in 0 .. N - 2 /\ i - 1 \notin S
    BY <1>1, <2>2, <2>3
  <2>5. IsOver(N - (i - 1))
    BY <2>4
  <2> DEFINE m == N - (i - 1)
  <2>6. m \in 2 .. N /\ m # 2 /\ m - 1 = N - i
    BY <1>1, <2>2, <2>3
  <2>7. pc[LeftChild(m)] = "dead"
    BY <2>5, <2>6 DEF PipelineInv, InOrder
  <2>8. pc[Evaluator(N - i)] = "dead"
    BY <2>6, <2>7 DEF LeftChild
  <2> QED
    BY <2>2, <2>8
<1>3. ASSUME NEW i \in 2 .. N PROVE pc[Evaluator(i)] \in {"dead", "done"}
  <2>1. N - i \in 0 .. N - 2 /\ N - (N - i) = i
    BY <1>1
  <2>2. N - i \notin S
    BY <1>2
  <2> QED
    BY <2>1, <2>2
<1>4. \A i \in 2 .. N : pc[LeftChild(i)] = "dead" /\ pc[RightChild(i)] = "dead"
  BY <1>3 DEF PipelineInv, InOrder
<1>5. CASE k = 1
  BY <1>1, <1>4, <1>5 DEF LeftChild
<1>6. CASE k # 1
  BY <1>1, <1>4, <1>6 DEF RightChild
<1> QED
  BY <1>5, <1>6

\* Nothing is left on the way, so what has come out is what has gone in.
LEMMA NothingLeft ==
  ASSUME ItemTypes, Conserved, \A k \in 1 .. N : ended[k] # "no" /\ Drained(k)
  PROVE  output = Input
<1>1. N \in Nat /\ N >= 2 /\ Input \in Nat
  BY PipelineAssumption
<1>2. PICK got \in [1 .. N -> Nat], put \in [1 .. N -> Nat] : Balanced(got, put)
  BY DEF Conserved
<1>3. \A k \in 1 .. N : got[k] = put[k]
  BY <1>2 DEF Balanced, Drained
<1>4. \A k \in 2 .. N : put[k - 1] = got[k]
  <2> TAKE k \in 2 .. N
  <2>1. buffer[k] = 0
    BY <1>1 DEF Drained
  <2> QED
    BY <1>2, <2>1 DEF Balanced
<1>5. got[1] = Input
  <2>1. input = 0
    BY <1>1 DEF Drained
  <2> QED
    BY <1>1, <1>2, <2>1 DEF Balanced
<1> DEFINE S == {k \in 1 .. N : got[k] # Input}
<1>6. S = {}
  <2>1. SUFFICES ASSUME S # {} PROVE FALSE
    OBVIOUS
  <2>2. PICK k \in S : \A j \in S : k =< j
    <3>1. S \subseteq Nat
      BY <1>1
    <3> HIDE DEF S
    <3> QED
      BY <2>1, <3>1, LeastNumber
  <2>3. k \in 2 .. N /\ k - 1 \in 1 .. N /\ k - 1 \notin S
    BY <1>1, <1>5, <2>2
  <2>4. got[k] = got[k - 1]
    BY <1>3, <1>4, <2>3
  <2> QED
    BY <2>2, <2>3, <2>4
<1>7. N \in 1 .. N /\ got[N] = Input
  BY <1>1, <1>6
<1> QED
  BY <1>2, <1>3, <1>7 DEF Balanced

\* The types of what is counted.
LEMMA ItemsTyped ==
  ASSUME PipelineInv, ItemTypes, [Next]_vars
  PROVE  ItemTypes'
<1>1. N \in Nat /\ N >= 2 /\ Document \in Nat
  BY PipelineAssumption
<1>2. ASSUME UNCHANGED <<buffer, have, input, output>> PROVE ItemTypes'
  BY <1>2 DEF ItemTypes
<1>3. ASSUME NEW k \in 2 .. N, Evaluation(k) PROVE ItemTypes'
  BY <1>2, <1>3, ShellMovesNoItem
<1>4. ASSUME NEW p \in Proc, Plumbing(p) PROVE ItemTypes'
  BY <1>2, <1>4, ShellMovesNoItem
<1>5. ASSUME NEW k \in 1 .. N, Command(k) \/ Quit(k) PROVE ItemTypes'
  <2>1. CASE Redirect(k) \/ HereOpen(k) \/ Exec(k)
    BY <1>2, <2>1 DEF Redirect, HereOpen, Exec
  <2>2. CASE HereWrite(k)
    <3>1. buffer' = buffer \/ buffer' = [buffer EXCEPT ![N + k] = @ + Document]
      BY <2>2 DEF HereWrite
    <3> QED
      BY <1>1, <2>2, <3>1 DEF HereWrite, ItemTypes
  <2>3. CASE HereBroken(k) \/ Quit(k) \/ EndOfFile(k) \/ BrokenPipe(k)
    BY <1>2, <2>3 DEF HereBroken, Quit, EndOfFile, BrokenPipe, Stop
  <2>4. CASE Read(k)
    <3>1. Stdin(k) \in Desc
      BY ProcFacts, PipelineAssumption DEF PipelineInv, PipelineTypes, Stdin, Table, FD
    <3>2. CASE Stdin(k)[1] = "r" /\ buffer[Stdin(k)[2]] > 0
               /\ buffer' = [buffer EXCEPT ![Stdin(k)[2]] = @ - 1] /\ input' = input
      <4>1. Stdin(k)[2] \in PipeId
        BY <3>1, <3>2 DEF Desc, Closed, Tty, File
      <4>2. buffer' \in [PipeId -> Nat]
        BY <3>2, <4>1 DEF ItemTypes
      <4> QED
        BY <2>4, <3>2, <4>2 DEF Read, ItemTypes
    <3>3. CASE input > 0 /\ input' = input - 1 /\ buffer' = buffer
      BY <2>4, <3>3 DEF Read, ItemTypes
    <3> QED
      BY <2>4, <3>2, <3>3 DEF Read
  <2>5. CASE Write(k)
    <3>1. buffer' \in [PipeId -> Nat]
      BY <2>5 DEF Write, ItemTypes
    <3>2. output' \in Nat
      BY <2>5 DEF Write, ItemTypes
    <3> QED
      BY <2>5, <3>1, <3>2 DEF Write, ItemTypes
  <2> QED
    BY <1>5, <2>1, <2>2, <2>3, <2>4, <2>5 DEF Command
<1>6. CASE UNCHANGED vars
  BY <1>2, <1>6 DEF vars
<1> QED
  BY <1>3, <1>4, <1>5, <1>6 DEF Next, Done

\* The redirections are chosen once, and a failure is not forgotten.
LEMMA PlanStays ==
  ASSUME [Next]_vars
  PROVE  plan' = plan /\ (failed => failed')
<1>1. ASSUME NEW k \in 2 .. N, Evaluation(k) PROVE plan' = plan /\ (failed => failed')
  <2>1. CASE MakePipe(k) \/ PipeFails(k) \/ GiveUp(k) \/ CloseBoth(k)
    BY <2>1 DEF MakePipe, PipeFails, GiveUp, CloseBoth
  <2>2. CASE ForkLeft(k) \/ ForkRight(k) \/ ForkFails(k) \/ WaitLeft(k) \/ WaitRight(k)
    BY <2>2 DEF ForkLeft, ForkRight, ForkFails, WaitLeft, WaitRight
  <2> QED
    BY <1>1, <2>1, <2>2 DEF Evaluation
<1>2. ASSUME NEW p \in Proc, Plumbing(p) PROVE plan' = plan /\ (failed => failed')
  BY <1>2 DEF Plumbing, CloseOther, DupOwn
<1>3. ASSUME NEW k \in 1 .. N, Command(k) \/ Quit(k) PROVE plan' = plan /\ (failed => failed')
  <2>0. CASE Redirect(k)
    BY <2>0, Zenon DEF Redirect
  <2>1. CASE HereOpen(k) \/ HereWrite(k) \/ Exec(k)
    BY <2>1 DEF HereOpen, HereWrite, Exec
  <2>2. CASE Read(k) \/ Write(k)
    BY <2>2 DEF Read, Write
  <2>3. CASE HereBroken(k) \/ Quit(k) \/ EndOfFile(k) \/ BrokenPipe(k)
    BY <2>3 DEF HereBroken, Quit, EndOfFile, BrokenPipe, Stop
  <2> QED
    BY <1>3, <2>0, <2>1, <2>2, <2>3 DEF Command
<1>4. CASE UNCHANGED vars
  BY <1>4 DEF vars
<1> QED
  BY <1>1, <1>2, <1>3, <1>4 DEF Next, Done

\* What the user has typed comes out of a pipeline of filters, all of it and once,
\* before the shell prompts again, unless one of them gives up or something fails.
THEOREM OutputIsWhole == Spec => []WholeOutput
<1>1. Init => OutputInv
  <2> SUFFICES ASSUME Init PROVE OutputInv
    OBVIOUS
  <2> USE DEF Init
  <2>1. N \in Nat /\ N >= 2 /\ Input \in Nat
    BY PipelineAssumption
  <2>2. ItemTypes
    BY <2>1 DEF ItemTypes
  <2>3. \A k \in 1 .. N : pc[Member(k)] = "absent" /\ ended[k] = "no"
    BY ProcFacts, ShellIsNoChild
  <2>4. Conserved
    <3> DEFINE none == [k \in 1 .. N |-> 0]
    <3>1. none \in [1 .. N -> Nat]
      OBVIOUS
    <3>2. \A k \in 2 .. N : buffer[k] = 0 /\ k - 1 \in 1 .. N /\ k \in 1 .. N
      BY <2>1 DEF PipeId
    <3>3. Balanced(none, none)
      BY <2>1, <3>2 DEF Balanced
    <3> QED
      BY <3>1, <3>3 DEF Conserved
  <2> QED
    BY <2>2, <2>3, <2>4 DEF OutputInv, EndedIsDead, PlainTable, Drained, Own
<1>2. PipelineInv /\ OutputInv /\ [Next]_vars => OutputInv'
  <2> SUFFICES ASSUME PipelineInv, OutputInv, [Next]_vars PROVE OutputInv'
    OBVIOUS
  <2>1. ItemTypes' /\ \A k \in 1 .. N : EndedIsDead(k)'
    BY ItemsTyped, EndedStaysDead DEF OutputInv
  <2>2. plan' = plan /\ (failed => failed')
    BY PlanStays
  <2>3. ASSUME Plain' PROVE /\ \A k \in 1 .. N : PlainTable(k)'
                            /\ Conserved'
                            /\ Undisturbed' => \A k \in 1 .. N : Drained(k)'
    <3>1. Plain
      BY <2>2, <2>3 DEF Plain
    <3>2. \A k \in 1 .. N : PlainTable(k)'
      BY <3>1, PlainTableKept DEF OutputInv
    <3>3. ItemsMove
      BY <3>1, ItemsMoveSo DEF OutputInv
    <3>4. Conserved'
      BY <3>1, <3>3, ItemsConserved DEF OutputInv
    <3>5. ASSUME Undisturbed', NEW k \in 1 .. N PROVE Drained(k)'
      BY <2>2, <3>1, <3>3, <3>5, DrainedStays DEF OutputInv, PipelineInv
    <3> QED
      BY <3>2, <3>4, <3>5
  <2> QED
    BY <2>1, <2>3 DEF OutputInv
<1>3. PipelineInv /\ OutputInv => WholeOutput
  <2> SUFFICES ASSUME PipelineInv, OutputInv, At(Shell, "done"), ~failed,
                      \A k \in 1 .. N : plan[k] = <<>> /\ ended[k] # "quit"
               PROVE  output = Input
    BY DEF WholeOutput
  <2>1. Plain /\ Undisturbed
    BY DEF Plain, Undisturbed
  <2>2. \A k \in 1 .. N : pc[Member(k)] = "dead"
    BY AllAreDead DEF At
  <2>3. \A k \in 1 .. N : ended[k] # "no" /\ Drained(k)
    BY <2>1, <2>2 DEF OutputInv, EndedIsDead
  <2> QED
    BY <2>1, <2>3, NothingLeft DEF OutputInv
<1> QED
  BY PipelineInvariant, <1>1, <1>2, <1>3, PTL DEF Spec

=============================================================================
