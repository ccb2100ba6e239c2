----------------------------- MODULE ShellProofs -----------------------------
(***************************************************************************)
(* Proofs about ShellExec, for any set of processes, any forest of syntax  *)
(* trees and any number of typed lines, about Descriptors, for any         *)
(* redirections and tables of any size from six, and about Reruns.         *)
(***************************************************************************)
EXTENDS Reruns, WellFoundedInduction, FiniteSetTheorems, TLAPS

-----------------------------------------------------------------------------
(* Types                                                                   *)

\* A call of parse_ast is a control record.
LEMMA CallType ==
  ASSUME NEW n \in Node \cup {NoNode}, NEW b \in BOOLEAN, NEW f \in Seq(Frame)
  PROVE  Call(n, b, f) \in Control
BY DEF Call, Control

\* So is a value it returns, to any callers.
LEMMA ValueType ==
  ASSUME NEW v \in {0, -1}, NEW f \in Seq(Frame)
  PROVE  Value(v, f) \in Control
BY DEF Value, Control

\* A process with nothing to do.
LEMMA IdleType == Idle \in Control
<1>1. <<>> \in Seq(Frame)
  OBVIOUS
<1> QED
  BY <1>1, ValueType DEF Idle

\* Pushing a caller on the call stack.
LEMMA PushType ==
  ASSUME NEW k \in {"semiLeft", "semiRight", "redir", "redirFork"},
         NEW n \in Node, NEW f \in Seq(Frame)
  PROVE  Push(k, n, f) \in Seq(Frame)
<1>1. [k |-> k, n |-> n] \in Frame
  BY DEF Frame
<1> QED
  BY <1>1 DEF Push

\* What a process that returns to the caller k finds on its stack.
LEMMA ReturnsType ==
  ASSUME TypeOK, NEW p \in PID, NEW k, Returns(p, k)
  PROVE  /\ Tail(ctl[p].frames) \in Seq(Frame)
         /\ Head(ctl[p].frames).n \in Node
<1>1. ctl[p].frames \in Seq(Frame) /\ ctl[p].frames # <<>>
  BY DEF TypeOK, Control, Returns
<1>2. Head(ctl[p].frames) \in Frame
  BY <1>1
<1> QED
  BY <1>1, <1>2 DEF Frame

\* What a process evaluates is a node of the tree, and so are its sons.
LEMMA EvaluatesType ==
  ASSUME TypeOK, NEW p \in PID, ctl[p].node # NoNode
  PROVE  /\ ctl[p].node \in Node
         /\ left[ctl[p].node] \in Node \cup {NoNode}
         /\ right[ctl[p].node] \in Node \cup {NoNode}
<1>1. ctl[p].node \in Node
  BY DEF TypeOK, Control
<1> QED
  BY <1>1, NodeAssumption

\* The fields of a control record.
LEMMA ControlType ==
  ASSUME TypeOK, NEW p \in PID
  PROVE  /\ ctl[p] \in Control
         /\ ctl[p].node \in Node \cup {NoNode}
         /\ ctl[p].needfork \in BOOLEAN
         /\ ctl[p].ret \in {0, -1}
         /\ ctl[p].frames \in Seq(Frame)
BY DEF TypeOK, Control

\* A step of one process that changes its status and control only.
LEMMA StepType ==
  ASSUME TypeOK, NEW p \in PID, NEW st \in Statuses, NEW c \in Control,
         Step(p, st, c)
  PROVE  TypeOK'
BY DEF TypeOK, Step

\* fork, whatever becomes of pid0 and pid1.
LEMMA ForkType ==
  ASSUME TypeOK, NEW p \in PID, NEW c \in PID,
         NEW pst \in Statuses, NEW cst \in Statuses, NEW cctl \in Control,
         NEW b \in {"main", "pipe"}, Fork(p, c, pst, cst, cctl, b),
         pid0' \in [PID -> PID \cup {NoPid}], pid1' \in [PID -> PID \cup {NoPid}]
  PROVE  TypeOK'
<1>1. status' \in [PID -> Statuses]
  BY DEF TypeOK, Fork
<1>2. ctl' \in [PID -> Control]
  BY DEF TypeOK, Fork
<1>3. base' \in [PID -> {"main", "pipe"}] /\ parent' \in [PID -> PID \cup {NoPid}]
  BY DEF TypeOK, Fork
<1>4. depth' \in [PID -> Nat]
  BY DEF TypeOK, Fork
<1> QED
  BY <1>1, <1>2, <1>3, <1>4 DEF TypeOK, Fork

\* A process dies.
LEMMA DieType ==
  ASSUME TypeOK, NEW p \in PID, Die(p)
  PROVE  TypeOK'
<1>1. status' \in [PID -> Statuses]
  BY DEF TypeOK, Die, Statuses
<1>2. ctl' \in [PID -> Control]
  BY IdleType DEF TypeOK, Die
<1>3. parent' \in [PID -> PID \cup {NoPid}]
  BY DEF TypeOK, Die
<1>4. base' \in [PID -> {"main", "pipe"}] /\ depth' \in [PID -> Nat]
  BY DEF TypeOK, Die
<1>5. pid0' \in [PID -> PID \cup {NoPid}] /\ pid1' \in [PID -> PID \cup {NoPid}]
  BY DEF TypeOK, Die
<1> QED
  BY <1>1, <1>2, <1>3, <1>4, <1>5 DEF TypeOK, Die

\* A parent reaps a child, whatever becomes of the rest of its state.
LEMMA ReleaseType ==
  ASSUME TypeOK, NEW p \in PID, NEW c \in PID, NEW pst \in Statuses,
         Release(p, c, pst), ctl' \in [PID -> Control],
         pid0' \in [PID -> PID \cup {NoPid}], pid1' \in [PID -> PID \cup {NoPid}]
  PROVE  TypeOK'
BY DEF TypeOK, Release, Statuses

\* A process that applies a redirection, or is between the two forks of a
\* pipeline, works on a node and not on a NULL tree.
NodeInv ==
  \A p \in PID : status[p] \in {"redirect", "fork2"} => ctl[p].node \in Node

\* Every step keeps every variable in its type.
LEMMA TypeStep ==
  ASSUME TypeOK, NodeInv, [Next]_vars
  PROVE  TypeOK'
<1>1. CASE UNCHANGED vars
  BY <1>1 DEF TypeOK, vars
<1>2. CASE Done
  BY <1>2 DEF Done, TypeOK, vars
<1>3. ASSUME NEW p \in PID, User(p) PROVE TypeOK'
  <2>1. CASE Submit(p)
    <3>1. \A n \in Lines : Call(n, TRUE, <<>>) \in Control
      <4>1. <<>> \in Seq(Frame) /\ Lines \subseteq Node \cup {NoNode}
        BY NodeAssumption
      <4> QED
        BY <4>1, CallType
    <3>2. ctl' \in [PID -> Control]
      BY <2>1, <3>1 DEF Submit, TypeOK
    <3>3. status' \in [PID -> Statuses]
      BY <2>1 DEF Submit, TypeOK, Statuses
    <3>4. typed' \in 0 .. MaxLines
      BY <2>1, NodeAssumption DEF Submit, TypeOK
    <3> QED
      BY <2>1, <3>2, <3>3, <3>4 DEF Submit, TypeOK
  <2>2. CASE Quit(p)
    BY <2>2, DieType DEF Quit
  <2> QED
    BY <1>3, <2>1, <2>2 DEF User
<1>4. ASSUME NEW p \in PID, ProgramExit(p) PROVE TypeOK'
  BY <1>4, DieType DEF ProgramExit
<1>5. ASSUME NEW p \in PID, Local(p) PROVE TypeOK'
  <2> USE ControlType DEF Statuses
  <2>1. CASE EvalNull(p)
    BY <2>1, ValueType, StepType DEF EvalNull, Return
  <2>2. CASE EvalSemi(p)
    <3> DEFINE n == ctl[p].node
    <3>1. n \in Node /\ left[n] \in Node \cup {NoNode}
      BY <2>2, EvaluatesType DEF EvalSemi, Evaluates
    <3>2. Call(left[n], TRUE, Push("semiLeft", n, ctl[p].frames)) \in Control
      BY <3>1, PushType, CallType
    <3> QED
      BY <2>2, <3>2, StepType DEF EvalSemi, Eval
  <2>3. CASE EvalBuiltin(p) \/ EvalNotFound(p) \/ EvalForkFails(p)
    BY <2>3, ValueType, StepType DEF EvalBuiltin, EvalNotFound, EvalForkFails, Return
  <2>4. CASE EvalExit(p) \/ EvalFault(p) \/ RedirectFailsForked(p) \/ ReturnToPipeChild(p)
    BY <2>4, DieType DEF EvalExit, EvalFault, RedirectFailsForked, ReturnToPipeChild
  <2>5. CASE EvalExecInPlace(p) \/ EvalRedirInPlace(p)
    BY <2>5, StepType DEF EvalExecInPlace, EvalRedirInPlace
  <2>6. CASE Exec(p) \/ ReturnToMain(p)
    BY <2>6, IdleType, StepType DEF Exec, ReturnToMain
  <2>7. CASE ExecFails(p) \/ RedirectFailsInPlace(p)
    BY <2>7, ValueType, StepType DEF ExecFails, RedirectFailsInPlace, Return
  <2>8. CASE Redirect(p)
    <3> DEFINE n == ctl[p].node
               k == IF ctl[p].needfork THEN "redirFork" ELSE "redir"
    <3>1. n \in Node
      BY <2>8 DEF Redirect, NodeInv
    <3>2. left[n] \in Node \cup {NoNode}
      BY <3>1, NodeAssumption
    <3>3. Call(left[n], FALSE, Push(k, n, ctl[p].frames)) \in Control
      BY <3>1, <3>2, PushType, CallType
    <3> QED
      BY <2>8, <3>3, StepType DEF Redirect, Eval
  <2>9. CASE PipeRightForkFails(p)
    <3>1. Value(-1, ctl[p].frames) \in Control
      BY ValueType
    <3> QED
      BY <2>9, <3>1 DEF PipeRightForkFails, TypeOK
  <2>10. CASE ReapLeft(p)
    <3>1. pid0[p] \in PID
      BY <2>10 DEF ReapLeft, TypeOK
    <3>2. /\ ctl' \in [PID -> Control]
          /\ pid0' \in [PID -> PID \cup {NoPid}]
          /\ pid1' \in [PID -> PID \cup {NoPid}]
      BY <2>10 DEF ReapLeft, TypeOK
    <3> QED
      BY <2>10, <3>1, <3>2, ReleaseType DEF ReapLeft
  <2>11. CASE ReapRight(p)
    <3>1. Value(0, ctl[p].frames) \in Control
      BY ValueType
    <3>2. /\ ctl' \in [PID -> Control]
          /\ pid0' \in [PID -> PID \cup {NoPid}]
          /\ pid1' \in [PID -> PID \cup {NoPid}]
          /\ parent' \in [PID -> PID \cup {NoPid}]
          /\ status' \in [PID -> Statuses]
      BY <2>11, <3>1 DEF ReapRight, Release, TypeOK
    <3> QED
      BY <2>11, <3>2 DEF ReapRight, Release, TypeOK
  <2>12. CASE ReturnSemiLeft(p)
    <3> DEFINE n == Head(ctl[p].frames).n
    <3>1. n \in Node /\ Tail(ctl[p].frames) \in Seq(Frame)
      BY <2>12, ReturnsType DEF ReturnSemiLeft
    <3>2. right[n] \in Node \cup {NoNode}
      BY <3>1, NodeAssumption
    <3>3. Call(right[n], TRUE, Push("semiRight", n, Tail(ctl[p].frames))) \in Control
      BY <3>1, <3>2, PushType, CallType
    <3> QED
      BY <2>12, <3>3, StepType DEF ReturnSemiLeft, Eval
  <2>13. CASE ReturnSemiRight(p) \/ ReturnRedir(p) \/ ReturnRedirFork(p)
    <3>1. Tail(ctl[p].frames) \in Seq(Frame)
      BY <2>13, ReturnsType DEF ReturnSemiRight, ReturnRedir, ReturnRedirFork
    <3> QED
      BY <2>13, <3>1, ValueType, StepType, DieType
      DEF ReturnSemiRight, ReturnRedir, ReturnRedirFork, Return
  <2> QED
    BY <1>5, <2>1, <2>2, <2>3, <2>4, <2>5, <2>6, <2>7, <2>8, <2>9, <2>10, <2>11,
       <2>12, <2>13 DEF Local
<1>6. ASSUME NEW p \in PID, NEW c \in PID, Forks(p, c) PROVE TypeOK'
  <2> USE ControlType DEF Statuses
  <2>1. CASE EvalForkExec(p, c) \/ EvalRedirFork(p, c)
    <3>1. base[p] \in {"main", "pipe"}
      BY DEF TypeOK
    <3>2. /\ pid0' \in [PID -> PID \cup {NoPid}]
          /\ pid1' \in [PID -> PID \cup {NoPid}]
      BY <2>1 DEF EvalForkExec, EvalRedirFork, TypeOK
    <3> QED
      BY <2>1, <3>1, <3>2, ForkType DEF EvalForkExec, EvalRedirFork
  <2>2. CASE EvalPipe(p, c) \/ EvalPipeRight(p, c)
    <3>1. /\ left[ctl[p].node] \in Node \cup {NoNode}
          /\ right[ctl[p].node] \in Node \cup {NoNode}
      BY <2>2, EvaluatesType, NodeAssumption
      DEF EvalPipe, EvalPipeRight, Evaluates, NodeInv
    <3>2. /\ Call(left[ctl[p].node], FALSE, <<>>) \in Control
          /\ Call(right[ctl[p].node], FALSE, <<>>) \in Control
      <4>1. <<>> \in Seq(Frame)
        OBVIOUS
      <4> QED
        BY <3>1, <4>1, CallType
    <3>3. /\ pid0' \in [PID -> PID \cup {NoPid}]
          /\ pid1' \in [PID -> PID \cup {NoPid}]
      BY <2>2 DEF EvalPipe, EvalPipeRight, TypeOK
    <3> QED
      BY <2>2, <3>2, <3>3, ForkType DEF EvalPipe, EvalPipeRight
  <2> QED
    BY <1>6, <2>1, <2>2 DEF Forks
<1>7. ASSUME NEW p \in PID, NEW c \in PID, Reap(p, c) PROVE TypeOK'
  <2>1. Value(0, ctl[p].frames) \in Control
    BY ControlType, ValueType
  <2>2. ctl' \in [PID -> Control]
    BY <1>7, <2>1 DEF Reap, TypeOK
  <2> QED
    BY <1>7, <2>2, ReleaseType DEF Reap, TypeOK, Statuses
<1> QED
  BY <1>1, <1>2, <1>3, <1>4, <1>5, <1>6, <1>7 DEF Next, Shells

\* And keeps the two intermediate states on a node.
LEMMA NodeStep ==
  ASSUME TypeOK, NodeInv, [Next]_vars
  PROVE  NodeInv'
<1> SUFFICES ASSUME NEW q \in PID, status'[q] \in {"redirect", "fork2"}
             PROVE  ctl'[q].node \in Node
  BY DEF NodeInv
<1>1. CASE status'[q] = status[q] /\ ctl'[q] = ctl[q]
  BY <1>1 DEF NodeInv
<1>2. CASE UNCHANGED vars \/ Done
  BY <1>1, <1>2 DEF Done, vars
<1>3. ASSUME NEW p \in PID, User(p) \/ ProgramExit(p) PROVE ctl'[q].node \in Node
  BY <1>1, <1>3 DEF User, ProgramExit, Submit, Quit, Die, TypeOK
<1>4. ASSUME NEW p \in PID, Local(p) PROVE ctl'[q].node \in Node
  <2>1. CASE EvalRedirInPlace(p)
    BY <1>1, <2>1, EvaluatesType DEF EvalRedirInPlace, Evaluates, Step, TypeOK
  <2>2. ASSUME NEW st \in Statuses \ {"redirect", "fork2"}, NEW c, Step(p, st, c)
        PROVE  ctl'[q].node \in Node
    BY <1>1, <2>2 DEF Step, TypeOK
  <2>3. ASSUME Die(p) PROVE ctl'[q].node \in Node
    BY <1>1, <2>3 DEF Die, TypeOK
  <2>4. CASE PipeRightForkFails(p) \/ ReapLeft(p) \/ ReapRight(p)
    BY <1>1, <2>4 DEF PipeRightForkFails, ReapLeft, ReapRight, Release, TypeOK
  <2> QED
    BY <1>4, <2>1, <2>2, <2>3, <2>4
    DEF Local, EvalNull, EvalSemi, EvalBuiltin, EvalExit, EvalFault, EvalNotFound,
        EvalExecInPlace, Exec, ExecFails, EvalForkFails, Redirect,
        RedirectFailsForked, RedirectFailsInPlace, ReturnToMain,
        ReturnToPipeChild, ReturnSemiLeft, ReturnSemiRight, ReturnRedir,
        ReturnRedirFork, Return, Eval, Statuses
<1>5. ASSUME NEW p \in PID, NEW c \in PID, Forks(p, c) PROVE ctl'[q].node \in Node
  <2>1. CASE q = p
    BY <1>1, <1>5, <2>1, EvaluatesType
    DEF Forks, EvalForkExec, EvalRedirFork, EvalPipe, EvalPipeRight, Fork, Evaluates,
        Runs, TypeOK
  <2>2. CASE q # p
    BY <1>1, <1>5, <2>2, EvaluatesType
    DEF Forks, EvalForkExec, EvalRedirFork, EvalPipe, EvalPipeRight, Fork, Evaluates,
        Runs, TypeOK
  <2> QED
    BY <2>1, <2>2
<1>6. ASSUME NEW p \in PID, NEW c \in PID, Reap(p, c) PROVE ctl'[q].node \in Node
  BY <1>1, <1>6 DEF Reap, Release, TypeOK
<1> QED
  BY <1>2, <1>3, <1>4, <1>5, <1>6 DEF Next, Shells

\* The type invariant and what it needs to be inductive.
TypeInv == TypeOK /\ NodeInv

\* The initial state is well typed.
LEMMA TypeInit == Init => TypeInv
<1> SUFFICES ASSUME Init PROVE TypeInv
  OBVIOUS
<1>1. status \in [PID -> Statuses] /\ NodeInv
  BY DEF Init, Statuses, NodeInv
<1>2. ctl \in [PID -> Control]
  BY IdleType DEF Init
<1>3. typed \in 0 .. MaxLines
  BY NodeAssumption DEF Init
<1> QED
  BY <1>1, <1>2, <1>3 DEF Init, TypeInv, TypeOK

\* The two together are an invariant.
LEMMA TypeInvariant == Spec => []TypeInv
<1>1. TypeInv /\ [Next]_vars => TypeInv'
  BY TypeStep, NodeStep DEF TypeInv
<1> QED
  BY <1>1, TypeInit, PTL DEF Spec

\* Every variable keeps its type: results of parse_ast are 0 or -1 and callers
\* are the four kinds of frame, however far a child climbs back up its copy of
\* the call stack.
THEOREM TypeCorrect == Spec => []TypeOK
<1>1. TypeInv => TypeOK
  BY DEF TypeInv
<1> QED
  BY <1>1, TypeInvariant, PTL

-----------------------------------------------------------------------------
(* What a step does to the processes and their families                    *)

\* A process waits for its children.
Blocked == {"wait", "fork2", "waitpid"}

\* A process runs the shell's code and waits for nobody.
Running == {"prompt", "eval", "return", "redirect", "exec"}

\* p goes on, alone; it may become a program.
Moves(p) ==
  /\ status[p] \in Running
  /\ \E st \in Running \cup {"program"} : status' = [status EXCEPT ![p] = st]
  /\ UNCHANGED <<base, parent, pid0, pid1, depth, pipeForkFailed>>

\* p dies, waiting for nobody.
Dies(p) == status[p] \in Running \cup {"program"} /\ Die(p)

\* p forks c for a command or a redirection and waits for it.
ForksAndWaits(p, c) ==
  /\ status[p] = "eval"
  /\ \E st \in {"exec", "redirect"} : Fork(p, c, "wait", st, ctl[p], base[p])
  /\ UNCHANGED <<pid0, pid1>>

\* The effects a step may have.
Effects ==
  \/ UNCHANGED <<status, base, parent, pid0, pid1, depth, pipeForkFailed>>
  \/ \E p \in PID : Moves(p) \/ Dies(p)
  \/ \E p \in PID : PipeRightForkFails(p) \/ ReapLeft(p) \/ ReapRight(p)
  \/ \E p, c \in PID : ForksAndWaits(p, c) \/ EvalPipe(p, c) \/ EvalPipeRight(p, c)
  \/ \E p, c \in PID : Reap(p, c)

\* Every action has one of these effects.
LEMMA StepEffects ==
  ASSUME [Next]_vars
  PROVE  Effects
<1>1. CASE UNCHANGED vars \/ Done
  BY <1>1 DEF Effects, Done, vars
<1>2. ASSUME NEW p \in PID, User(p) PROVE Effects
  BY <1>2 DEF Effects, User, Submit, Quit, Moves, Dies, Running
<1>3. ASSUME NEW p \in PID, ProgramExit(p) PROVE Effects
  BY <1>3 DEF Effects, ProgramExit, Dies
<1>4. ASSUME NEW p \in PID, Local(p) PROVE Effects
  <2>1. ASSUME status[p] \in Running, NEW st \in Running \cup {"program"}, NEW c,
               Step(p, st, c)
        PROVE  Effects
    BY <2>1 DEF Effects, Moves, Step
  <2>2. ASSUME status[p] \in Running, Die(p) PROVE Effects
    BY <2>2 DEF Effects, Dies
  <2>3. CASE EvalNull(p) \/ EvalSemi(p) \/ EvalBuiltin(p) \/ EvalExit(p)
             \/ EvalFault(p) \/ EvalNotFound(p) \/ EvalExecInPlace(p) \/ Exec(p)
             \/ ExecFails(p) \/ EvalForkFails(p)
    BY <2>1, <2>2, <2>3
    DEF EvalNull, EvalSemi, EvalBuiltin, EvalExit, EvalFault, EvalNotFound,
        EvalExecInPlace, Exec, ExecFails, EvalForkFails, Runs, Evaluates,
        Return, Eval, Running
  <2>4. CASE EvalRedirInPlace(p) \/ Redirect(p) \/ RedirectFailsForked(p)
             \/ RedirectFailsInPlace(p) \/ ReturnToMain(p) \/ ReturnToPipeChild(p)
             \/ ReturnSemiLeft(p) \/ ReturnSemiRight(p) \/ ReturnRedir(p)
             \/ ReturnRedirFork(p)
    BY <2>1, <2>2, <2>4
    DEF EvalRedirInPlace, Redirect, RedirectFailsForked, RedirectFailsInPlace,
        ReturnToMain, ReturnToPipeChild, ReturnSemiLeft, ReturnSemiRight,
        ReturnRedir, ReturnRedirFork, Returns, Evaluates, Return, Eval, Running
  <2> QED
    BY <1>4, <2>3, <2>4 DEF Local, Effects
<1>5. ASSUME NEW p \in PID, NEW c \in PID, Forks(p, c) \/ Reap(p, c) PROVE Effects
  BY <1>5 DEF Effects, Forks, EvalForkExec, EvalRedirFork, Runs, Evaluates, ForksAndWaits
<1> QED
  BY <1>1, <1>2, <1>3, <1>4, <1>5 DEF Next, Shells

-----------------------------------------------------------------------------
(* Somebody to wait for                                                    *)

\* A process that waits has the children it waits for; the two of a pipeline
\* differ.
Waits(q) ==
  /\ status[q] = "wait" => \E d \in PID : Child(q, d)
  /\ status[q] = "fork2" => pid0[q] \in PID /\ Child(q, pid0[q])
  /\ status[q] = "waitpid" =>
       pid1[q] \in PID /\ Child(q, pid1[q]) /\ pid0[q] # pid1[q]
  /\ status[q] = "waitpid" /\ pid0[q] # NoPid => Child(q, pid0[q])

\* Everybody who waits does so for a reason.
WaitInv == \A q \in PID : Waits(q)

\* Of the other processes than p, the step wakes none up, blocks none, and takes
\* no child away.
OthersKept(p) ==
  \A q \in PID \ {p} :
    /\ status'[q] \in Blocked =>
         status'[q] = status[q] /\ pid0'[q] = pid0[q] /\ pid1'[q] = pid1[q]
    /\ \A d \in PID : Child(q, d) => Child(q, d)'

\* Then only p is left to look at.
LEMMA OthersWait ==
  ASSUME TypeOK, WaitInv, NEW p \in PID, OthersKept(p), Waits(p)'
  PROVE  WaitInv'
<1> SUFFICES ASSUME NEW q \in PID, q # p PROVE Waits(q)'
  BY DEF WaitInv
<1>1. Waits(q)
  BY DEF WaitInv
<1>2. pid0[q] \in PID \cup {NoPid} /\ pid1[q] \in PID \cup {NoPid}
  BY DEF TypeOK
<1>3. CASE status'[q] \in Blocked
  <2>1. status'[q] = status[q] /\ pid0'[q] = pid0[q] /\ pid1'[q] = pid1[q]
    BY <1>3 DEF OthersKept
  <2>2. \A d \in PID : Child(q, d) => Child(q, d)'
    BY DEF OthersKept
  <2> QED
    BY <1>1, <1>2, <2>1, <2>2 DEF Waits
<1>4. CASE status'[q] \notin Blocked
  BY <1>4 DEF Waits, Blocked
<1> QED
  BY <1>3, <1>4

\* A step takes nobody's last awaited child away.
LEMMA WaitStep ==
  ASSUME TypeOK, WaitInv, [Next]_vars
  PROVE  WaitInv'
<1> USE PidAssumption
<1>1. Effects
  BY StepEffects
<1>2. CASE UNCHANGED <<status, base, parent, pid0, pid1, depth, pipeForkFailed>>
  BY <1>2 DEF WaitInv, Waits, Child
<1>3. ASSUME NEW p \in PID, Moves(p) PROVE WaitInv'
  BY <1>3, OthersWait DEF OthersKept, Waits, Child, Blocked, Moves, Running, TypeOK
<1>4. ASSUME NEW p \in PID, Dies(p) PROVE WaitInv'
  <2>1. \A q \in PID \ {p} : status'[q] \in Blocked =>
          status'[q] = status[q] /\ pid0'[q] = pid0[q] /\ pid1'[q] = pid1[q]
    BY <1>4 DEF Dies, Die, Blocked, TypeOK
  <2>2. ASSUME NEW q \in PID \ {p}, NEW d \in PID, Child(q, d)
        PROVE  Child(q, d)'
    <3>1. parent'[d] = q
      BY <1>4, <2>2 DEF Dies, Die, Child, TypeOK
    <3>2. status'[d] # "free"
      BY <1>4, <2>2 DEF Dies, Die, Child, TypeOK
    <3> QED
      BY <3>1, <3>2 DEF Child
  <2>3. status'[p] \notin Blocked
    BY <1>4 DEF Dies, Die, Blocked, TypeOK
  <2> QED
    BY <2>1, <2>2, <2>3, OthersWait DEF OthersKept, Waits, Blocked
<1>5. ASSUME NEW p \in PID, PipeRightForkFails(p) PROVE WaitInv'
  BY <1>5, OthersWait DEF OthersKept, Waits, Child, PipeRightForkFails, TypeOK
<1>6. ASSUME NEW p \in PID, ReapLeft(p) PROVE WaitInv'
  <2>1. Waits(p)
    BY DEF WaitInv
  <2>2. pid0[p] \in PID /\ Child(p, pid0[p]) /\ Child(p, pid1[p]) /\ pid0[p] # pid1[p]
    BY <1>6, <2>1 DEF Waits, ReapLeft, TypeOK
  <2>3. OthersKept(p)
    BY <1>6, <2>2 DEF OthersKept, Child, Blocked, ReapLeft, Release, TypeOK
  <2>4. /\ status'[p] = "waitpid"
        /\ pid0'[p] = NoPid
        /\ pid1'[p] = pid1[p]
    BY <1>6, <2>2 DEF ReapLeft, Release, Child, TypeOK
  <2>5. pid1[p] \in PID /\ Child(p, pid1[p])'
    BY <1>6, <2>1, <2>2 DEF Waits, Child, ReapLeft, Release, TypeOK
  <2>6. Waits(p)'
    BY <2>4, <2>5 DEF Waits, Child
  <2> QED
    BY <2>3, <2>6, OthersWait
<1>7. ASSUME NEW p \in PID, ReapRight(p) PROVE WaitInv'
  <2>1. Waits(p)
    BY DEF WaitInv
  <2>2. pid1[p] \in PID /\ Child(p, pid1[p])
    BY <1>7, <2>1 DEF Waits, ReapRight
  <2>3. OthersKept(p)
    BY <1>7, <2>2 DEF OthersKept, Child, Blocked, ReapRight, Release, TypeOK
  <2>4. Waits(p)'
    BY <1>7, <2>2 DEF Waits, Child, ReapRight, Release, TypeOK
  <2> QED
    BY <2>3, <2>4, OthersWait
<1>8. ASSUME NEW p \in PID, NEW c \in PID, ForksAndWaits(p, c) PROVE WaitInv'
  <2>1. OthersKept(p)
    BY <1>8 DEF OthersKept, Child, ForksAndWaits, Fork, Blocked, TypeOK
  <2>2. Child(p, c)' /\ status'[p] = "wait"
    BY <1>8 DEF Child, ForksAndWaits, Fork, TypeOK
  <2> QED
    BY <2>1, <2>2, OthersWait DEF Waits
<1>9. ASSUME NEW p \in PID, NEW c \in PID, EvalPipe(p, c) PROVE WaitInv'
  <2>1. OthersKept(p)
    BY <1>9 DEF OthersKept, Child, EvalPipe, Fork, Blocked, TypeOK
  <2>2. Child(p, c)' /\ status'[p] = "fork2" /\ pid0'[p] = c
    BY <1>9 DEF Child, EvalPipe, Evaluates, Fork, TypeOK
  <2> QED
    BY <2>1, <2>2, OthersWait DEF Waits, Child
<1>10. ASSUME NEW p \in PID, NEW c \in PID, EvalPipeRight(p, c) PROVE WaitInv'
  <2>1. Waits(p)
    BY DEF WaitInv
  <2>2. OthersKept(p)
    BY <1>10 DEF OthersKept, Child, EvalPipeRight, Fork, Blocked, TypeOK
  <2>3. status'[p] = "waitpid" /\ pid1'[p] = c /\ pid0'[p] = pid0[p]
    BY <1>10 DEF EvalPipeRight, Fork, TypeOK
  <2>4. Child(p, c)' /\ Child(p, pid0[p])' /\ pid0[p] # c
    BY <1>10, <2>1 DEF Waits, Child, EvalPipeRight, Fork, TypeOK
  <2> QED
    BY <2>2, <2>3, <2>4, OthersWait DEF Waits, Child
<1>11. ASSUME NEW p \in PID, NEW c \in PID, Reap(p, c) PROVE WaitInv'
  <2>1. OthersKept(p)
    BY <1>11 DEF OthersKept, Child, Blocked, Reap, Release, TypeOK
  <2>2. status'[p] = "return"
    BY <1>11 DEF Reap, Release, TypeOK
  <2> QED
    BY <2>1, <2>2, OthersWait DEF Waits
<1> QED
  BY <1>1, <1>2, <1>3, <1>4, <1>5, <1>6, <1>7, <1>8, <1>9, <1>10, <1>11 DEF Effects

\* So it is an invariant.
LEMMA WaitInvariant == Spec => []WaitInv
<1>1. Init => WaitInv
  BY DEF Init, WaitInv, Waits
<1>2. TypeInv /\ WaitInv /\ [Next]_vars => WaitInv'
  BY WaitStep DEF TypeInv
<1> QED
  BY <1>1, <1>2, TypeInvariant, PTL DEF Spec

\* The wait(0) of parse_ast_command and parse_ast_redirection and the two
\* waitpid of parse_ast_pipe always have a child to wait for: their "== -1"
\* loops never spin on ECHILD, whatever has failed before.
THEOREM WaitsHaveChildren == Spec => []WaitHasChild
<1>1. WaitInv => WaitHasChild
  BY DEF WaitInv, Waits, WaitHasChild
<1> QED
  BY <1>1, WaitInvariant, PTL

-----------------------------------------------------------------------------
(* One shell at a time                                                     *)

\* While no pipeline has lost its second fork, a process has children only
\* where it waits for them: one in wait(0), pid0 and pid1 in parse_ast_pipe.
Family(p) ==
  /\ status[p] = "free" => parent[p] = NoPid
  /\ \A c \in PID : parent[c] = p =>
       /\ status[p] \in Blocked
       /\ status[p] = "fork2" => c = pid0[p]
       /\ status[p] = "waitpid" => c \in {pid0[p], pid1[p]}
       /\ status[p] = "wait" => \A d \in PID : parent[d] = p => d = c

Families == \A p \in PID : Family(p)

\* The shells form one chain: Root, its nested shell, the nested shell of that
\* one and so on, all in wait(0) but the innermost.
DepthUnique ==
  \A p, q \in PID : Shell(p) /\ Shell(q) /\ depth[p] = depth[q] => p = q

OuterWaits ==
  \A p, q \in PID : Shell(p) /\ Shell(q) /\ depth[p] < depth[q] => status[p] = "wait"

NoGap ==
  \A q \in PID : Shell(q) =>
    \A n \in 0 .. depth[q] : \E p \in PID : Shell(p) /\ depth[p] = n

ParentAbove ==
  \A q \in PID : Shell(q) /\ depth[q] > 0 =>
    \E p \in PID : parent[q] = p /\ Shell(p) /\ depth[p] = depth[q] - 1

Chain == DepthUnique /\ OuterWaits /\ NoGap /\ ParentAbove

\* A lost second fork is never forgotten.
LEMMA ForkFailedStep ==
  ASSUME TypeOK, [Next]_vars, ~pipeForkFailed'
  PROVE  ~pipeForkFailed /\ \A p \in PID : ~PipeRightForkFails(p)
<1>1. Effects
  BY StepEffects
<1>2. \A p \in PID : ~PipeRightForkFails(p)
  BY DEF PipeRightForkFails
<1>3. pipeForkFailed' = pipeForkFailed
  <2>1. ASSUME NEW p \in PID, Moves(p) \/ Dies(p) PROVE pipeForkFailed' = pipeForkFailed
    BY <2>1 DEF Moves, Dies, Die
  <2>2. ASSUME NEW p \in PID, ReapLeft(p) \/ ReapRight(p)
        PROVE  pipeForkFailed' = pipeForkFailed
    BY <2>2 DEF ReapLeft, ReapRight, Release
  <2>3. ASSUME NEW p \in PID, NEW c \in PID,
               ForksAndWaits(p, c) \/ EvalPipe(p, c) \/ EvalPipeRight(p, c) \/ Reap(p, c)
        PROVE  pipeForkFailed' = pipeForkFailed
    BY <2>3 DEF ForksAndWaits, EvalPipe, EvalPipeRight, Fork, Reap, Release
  <2> QED
    BY <1>1, <1>2, <2>1, <2>2, <2>3 DEF Effects
<1> QED
  BY <1>2, <1>3

\* Families stay as they should be.
LEMMA FamilyStep ==
  ASSUME TypeOK, Families, [Next]_vars, ~pipeForkFailed'
  PROVE  Families'
<1> USE PidAssumption
<1>1. Effects /\ \A p \in PID : ~PipeRightForkFails(p)
  BY StepEffects, ForkFailedStep
<1>2. CASE UNCHANGED <<status, base, parent, pid0, pid1, depth, pipeForkFailed>>
  BY <1>2 DEF Families, Family
<1>3. ASSUME NEW p \in PID, Moves(p) PROVE Families'
  <2>1. status[p] \in Running /\ status'[p] \in Running \cup {"program"}
    BY <1>3 DEF Moves, TypeOK
  <2>2. \A q \in PID \ {p} : status'[q] = status[q]
    BY <1>3 DEF Moves, TypeOK
  <2>3. \A c \in PID : parent[c] # p
    BY <2>1 DEF Families, Family, Running, Blocked
  <2> QED
    BY <1>3, <2>1, <2>2, <2>3 DEF Families, Family, Moves, Running
<1>4. ASSUME NEW p \in PID, Dies(p) PROVE Families'
  <2>1. \A q \in PID : parent'[q] = IF parent[q] = p THEN NoPid ELSE parent[q]
    BY <1>4 DEF Dies, Die
  <2>2. ASSUME NEW q \in PID, status'[q] = "free" PROVE parent'[q] = NoPid
    <3>1. CASE q = p
      BY <1>4, <2>1, <2>2, <3>1 DEF Dies, Die, TypeOK
    <3>2. CASE q # p /\ status[q] = "free"
      BY <2>1, <3>2 DEF Families, Family
    <3>3. CASE q # p /\ status[q] # "free"
      BY <1>4, <2>1, <2>2, <3>3 DEF Dies, Die
    <3> QED
      BY <3>1, <3>2, <3>3
  <2>3. ASSUME NEW q \in PID, NEW c \in PID, parent'[c] = q
        PROVE  /\ q # p
               /\ parent[c] = q
               /\ status'[q] = status[q] /\ pid0'[q] = pid0[q] /\ pid1'[q] = pid1[q]
    <3>1. q # p /\ parent[c] = q
      BY <2>1, <2>3
    <3>2. status[q] \in Blocked
      BY <3>1 DEF Families, Family
    <3> QED
      BY <1>4, <3>1, <3>2 DEF Dies, Die, Blocked, TypeOK
  <2>4. ASSUME NEW q \in PID PROVE Family(q)'
    <3>1. Family(q)
      BY DEF Families
    <3>2. \A c \in PID : parent'[c] = q => parent[c] = q
      BY <2>3
    <3> QED
      BY <2>2, <2>3, <3>1, <3>2 DEF Family
  <2> QED
    BY <2>4 DEF Families
<1>5. ASSUME NEW p \in PID, ReapLeft(p) PROVE Families'
  <2>1. pid0[p] \in PID
    BY <1>5 DEF ReapLeft, TypeOK
  <2> QED
    BY <1>5, <2>1 DEF Families, Family, ReapLeft, Release, Blocked, TypeOK
<1>6. ASSUME NEW p \in PID, ReapRight(p) PROVE Families'
  <2>1. \A c \in PID : parent[c] = p => c = pid1[p]
    BY <1>6 DEF Families, Family, ReapRight
  <2>2. \A c \in PID : parent'[c] # p
    BY <1>6, <2>1 DEF ReapRight, Release, TypeOK
  <2>3. ASSUME NEW q \in PID, q # p PROVE Family(q)'
    BY <1>6, <2>3 DEF Families, Family, ReapRight, Release, Blocked, TypeOK
  <2>4. Family(p)'
    BY <1>6, <2>2 DEF Family, ReapRight, Release, Blocked, TypeOK
  <2> QED
    BY <2>3, <2>4 DEF Families
<1>7. ASSUME NEW p \in PID, NEW c \in PID, ForksAndWaits(p, c) PROVE Families'
  <2>1. \A d \in PID : parent[d] # p /\ parent[d] # c
    BY <1>7 DEF Families, Family, ForksAndWaits, Fork, Blocked
  <2> QED
    BY <1>7, <2>1 DEF Families, Family, ForksAndWaits, Fork, Blocked, TypeOK
<1>8. ASSUME NEW p \in PID, NEW c \in PID, EvalPipe(p, c) PROVE Families'
  <2>1. \A d \in PID : parent[d] # p /\ parent[d] # c
    BY <1>8 DEF Families, Family, EvalPipe, Evaluates, Fork, Blocked
  <2> QED
    BY <1>8, <2>1 DEF Families, Family, EvalPipe, Fork, Blocked, TypeOK
<1>9. ASSUME NEW p \in PID, NEW c \in PID, EvalPipeRight(p, c) PROVE Families'
  <2>1. \A d \in PID : (parent[d] = p => d = pid0[p]) /\ parent[d] # c
    BY <1>9 DEF Families, Family, EvalPipeRight, Fork, Blocked
  <2> QED
    BY <1>9, <2>1 DEF Families, Family, EvalPipeRight, Fork, Blocked, TypeOK
<1>10. ASSUME NEW p \in PID, NEW c \in PID, Reap(p, c) PROVE Families'
  <2>1. \A d \in PID : parent[d] = p => d = c
    BY <1>10 DEF Families, Family, Reap
  <2> QED
    BY <1>10, <2>1 DEF Families, Family, Reap, Release, Blocked, TypeOK
<1> QED
  BY <1>1, <1>2, <1>3, <1>4, <1>5, <1>6, <1>7, <1>8, <1>9, <1>10 DEF Effects

\* A step of p that neither adds a shell nor wakes one up keeps the chain; p
\* may leave it, being its end.
LEMMA ChainKept ==
  ASSUME TypeOK, Chain, NEW p \in PID,
         Shell(p) => status[p] # "wait",
         \A q \in PID \ {p} : Shell(q)' <=> Shell(q),
         \A q \in PID \ {p} : Shell(q) =>
           status'[q] = status[q] /\ depth'[q] = depth[q] /\ parent'[q] = parent[q],
         Shell(p)' => Shell(p) /\ depth'[p] = depth[p] /\ parent'[p] = parent[p],
         Shell(p) /\ ~Shell(p)' => \A q \in PID : parent[q] # p
  PROVE  Chain'
<1>0. \A q \in PID : Shell(q)' =>
        Shell(q) /\ depth'[q] = depth[q] /\ parent'[q] = parent[q]
  OBVIOUS
<1>1. DepthUnique'
  BY <1>0 DEF Chain, DepthUnique
<1>2. OuterWaits'
  <2> SUFFICES ASSUME NEW q \in PID, NEW r \in PID, Shell(q)', Shell(r)',
                      depth'[q] < depth'[r]
               PROVE  status'[q] = "wait"
    BY DEF OuterWaits
  <2>1. status[q] = "wait" /\ Shell(q)
    BY <1>0 DEF Chain, OuterWaits
  <2> QED
    BY <2>1
<1>3. NoGap'
  <2> SUFFICES ASSUME NEW q \in PID, Shell(q)', NEW n \in 0 .. depth'[q]
               PROVE  \E r \in PID : Shell(r)' /\ depth'[r] = n
    BY DEF NoGap
  <2>1. Shell(q) /\ n \in 0 .. depth[q]
    BY <1>0
  <2>2. PICK r \in PID : Shell(r) /\ depth[r] = n
    BY <2>1 DEF Chain, NoGap
  <2>3. CASE r = p /\ ~Shell(p)'
    <3>1. q # p /\ depth[p] \in Nat /\ depth[q] \in Nat
      BY <2>3 DEF TypeOK
    <3>2. depth[p] < depth[q]
      BY <2>1, <2>2, <2>3, <3>1 DEF Chain, DepthUnique
    <3> QED
      BY <2>1, <2>2, <2>3, <3>2 DEF Chain, OuterWaits
  <2>4. CASE r # p \/ Shell(p)'
    BY <1>0, <2>2, <2>4
  <2> QED
    BY <2>3, <2>4
<1>4. ParentAbove'
  <2> SUFFICES ASSUME NEW q \in PID, Shell(q)', depth'[q] > 0
               PROVE  \E r \in PID :
                        parent'[q] = r /\ Shell(r)' /\ depth'[r] = depth'[q] - 1
    BY DEF ParentAbove
  <2>1. Shell(q) /\ depth[q] > 0 /\ parent'[q] = parent[q]
    BY <1>0
  <2>2. PICK r \in PID : parent[q] = r /\ Shell(r) /\ depth[r] = depth[q] - 1
    BY <2>1 DEF Chain, ParentAbove
  <2>3. Shell(r)'
    BY <2>2
  <2> QED
    BY <1>0, <2>1, <2>2, <2>3
<1> QED
  BY <1>1, <1>2, <1>3, <1>4 DEF Chain

\* A shell whose only child is dead has no shell inside of it.
LEMMA ReaperInnermost ==
  ASSUME TypeOK, Families, Chain, NEW p \in PID, NEW c \in PID,
         Shell(p), status[p] = "wait", status[c] = "zombie", parent[c] = p
  PROVE  \A q \in PID : Shell(q) => ~(depth[p] < depth[q])
<1> SUFFICES ASSUME NEW q \in PID, Shell(q), depth[p] < depth[q] PROVE FALSE
  OBVIOUS
<1>1. \A r \in PID : depth[r] \in Nat
  BY DEF TypeOK
<1>2. depth[p] + 1 \in 0 .. depth[q]
  BY <1>1
<1>3. PICK r \in PID : Shell(r) /\ depth[r] = depth[p] + 1
  BY <1>2 DEF Chain, NoGap
<1>4. depth[r] > 0
  BY <1>1, <1>3
<1>5. PICK s \in PID : parent[r] = s /\ Shell(s) /\ depth[s] = depth[r] - 1
  BY <1>3, <1>4 DEF Chain, ParentAbove
<1>6. parent[r] = p
  BY <1>1, <1>3, <1>5 DEF Chain, DepthUnique
<1>7. r = c
  BY <1>6 DEF Families, Family
<1> QED
  BY <1>3, <1>7 DEF Shell, Live

\* Every step keeps the chain.
LEMMA ChainStep ==
  ASSUME TypeOK, WaitInv, Families, Chain, [Next]_vars, ~pipeForkFailed'
  PROVE  Chain'
<1> USE PidAssumption
<1>1. Effects /\ \A p \in PID : ~PipeRightForkFails(p)
  BY StepEffects, ForkFailedStep
<1>2. CASE UNCHANGED <<status, base, parent, pid0, pid1, depth, pipeForkFailed>>
  BY <1>2 DEF Chain, DepthUnique, OuterWaits, NoGap, ParentAbove, Shell, Live
<1>3. ASSUME NEW p \in PID, Moves(p) PROVE Chain'
  <2>1. \A q \in PID : parent[q] # p
    BY <1>3 DEF Moves, Running, Families, Family, Blocked
  <2>2. Shell(p) => status[p] # "wait"
    BY <1>3 DEF Moves, Running
  <2>3. \A q \in PID \ {p} : Shell(q)' <=> Shell(q)
    BY <1>3 DEF Moves, Shell, Live, TypeOK
  <2>4. Shell(p)' => Shell(p)
    BY <1>3 DEF Moves, Running, Shell, Live, TypeOK
  <2>5. /\ \A q \in PID \ {p} : status'[q] = status[q]
        /\ depth' = depth /\ parent' = parent
    BY <1>3 DEF Moves, TypeOK
  <2> QED
    BY <2>1, <2>2, <2>3, <2>4, <2>5, ChainKept
<1>4. ASSUME NEW p \in PID, Dies(p) PROVE Chain'
  <2>1. \A q \in PID : parent[q] # p
    BY <1>4 DEF Dies, Running, Families, Family, Blocked
  <2>2. Shell(p) => status[p] # "wait"
    BY <1>4 DEF Dies, Running
  <2>3. \A q \in PID \ {p} :
          status'[q] = status[q] /\ base'[q] = base[q] /\ depth'[q] = depth[q]
            /\ parent'[q] = parent[q]
    BY <1>4, <2>1 DEF Dies, Die, TypeOK
  <2>4. \A q \in PID \ {p} : Shell(q)' <=> Shell(q)
    BY <2>3 DEF Shell, Live
  <2>5. ~Shell(p)'
    BY <1>4 DEF Dies, Die, Shell, Live, TypeOK
  <2> QED
    BY <2>1, <2>2, <2>3, <2>4, <2>5, ChainKept
<1>5. ASSUME NEW p \in PID, ReapLeft(p) \/ ReapRight(p) PROVE Chain'
  <2>1. PICK c \in PID : Release(p, c, "waitpid") \/ Release(p, c, "return")
    BY <1>5 DEF WaitInv, Waits, ReapLeft, ReapRight, TypeOK
  <2>2. status[p] = "waitpid" /\ status[c] = "zombie" /\ p # c
    BY <1>5, <2>1 DEF ReapLeft, ReapRight, Release
  <2>3. \A q \in PID \ {p, c} : status'[q] = status[q] /\ parent'[q] = parent[q]
    BY <2>1 DEF Release, TypeOK
  <2>4. parent'[p] = parent[p] /\ depth' = depth /\ base' = base
    BY <2>1, <2>2 DEF Release, TypeOK
  <2>5. status'[p] \in {"waitpid", "return"} /\ status'[c] = "free"
    BY <2>1, <2>2 DEF Release, TypeOK
  <2>6. \A q \in PID : Shell(q)' <=> Shell(q)
    BY <2>2, <2>3, <2>4, <2>5 DEF Shell, Live
  <2>7. ~Shell(c)
    BY <2>2 DEF Shell, Live
  <2> QED
    BY <2>2, <2>3, <2>4, <2>6, <2>7, ChainKept
<1>6. ASSUME NEW p \in PID, NEW c \in PID, EvalPipe(p, c) \/ EvalPipeRight(p, c)
      PROVE  Chain'
  <2>1. /\ status[c] = "free" /\ status[p] \in {"eval", "fork2"}
        /\ base'[c] = "pipe"
        /\ status'[p] \in {"fork2", "waitpid"}
    BY <1>6 DEF EvalPipe, EvalPipeRight, Evaluates, Fork, TypeOK
  <2>2. \A q \in PID \ {p, c} : status'[q] = status[q]
    BY <1>6 DEF EvalPipe, EvalPipeRight, Fork, TypeOK
  <2>3. \A q \in PID \ {c} :
          parent'[q] = parent[q] /\ depth'[q] = depth[q] /\ base'[q] = base[q]
    BY <1>6 DEF EvalPipe, EvalPipeRight, Fork, TypeOK
  <2>4. ~Shell(c) /\ ~Shell(c)' /\ p # c
    BY <2>1 DEF Shell, Live
  <2>5. \A q \in PID : Shell(q)' <=> Shell(q)
    BY <2>1, <2>2, <2>3, <2>4 DEF Shell, Live
  <2> QED
    BY <2>1, <2>2, <2>3, <2>4, <2>5, ChainKept
<1>7. ASSUME NEW p \in PID, NEW c \in PID, ForksAndWaits(p, c) PROVE Chain'
  <2>1. /\ status[c] = "free" /\ status[p] = "eval" /\ p # c
        /\ status'[p] = "wait" /\ status'[c] \in {"exec", "redirect"}
        /\ base'[c] = base[p] /\ parent'[c] = p /\ depth'[c] = depth[p] + 1
    BY <1>7 DEF ForksAndWaits, Fork, TypeOK
  <2>2. \A q \in PID \ {p, c} : status'[q] = status[q]
    BY <1>7 DEF ForksAndWaits, Fork, TypeOK
  <2>3. \A q \in PID \ {c} :
          parent'[q] = parent[q] /\ depth'[q] = depth[q] /\ base'[q] = base[q]
    BY <1>7 DEF ForksAndWaits, Fork, TypeOK
  <2>4. ~Shell(c)
    BY <2>1 DEF Shell, Live
  <2>5. \A q \in PID \ {c} : Shell(q)' <=> Shell(q)
    BY <2>1, <2>2, <2>3 DEF Shell, Live
  <2>6. CASE ~Shell(p)
    <3>1. ~Shell(c)'
      BY <2>1, <2>6 DEF Shell, Live
    <3> QED
      BY <2>2, <2>3, <2>4, <2>5, <2>6, <3>1, ChainKept
  <2>7. CASE Shell(p)
    <3>1. Shell(c)' /\ Shell(p)'
      BY <2>1, <2>5, <2>7 DEF Shell, Live
    <3>2. \A q \in PID : depth[q] \in Nat
      BY DEF TypeOK
    <3>3. \A q \in PID : Shell(q) => depth[q] <= depth[p]
      BY <2>1, <2>7, <3>2 DEF Chain, OuterWaits
    <3>4. DepthUnique'
      BY <2>1, <2>3, <2>5, <3>2, <3>3 DEF Chain, DepthUnique
    <3>5. OuterWaits'
      <4> SUFFICES ASSUME NEW q \in PID, NEW r \in PID, Shell(q)', Shell(r)',
                          depth'[q] < depth'[r]
                   PROVE  status'[q] = "wait"
        BY DEF OuterWaits
      <4>1. q # c
        BY <2>1, <2>3, <2>5, <3>2, <3>3
      <4>2. CASE q = p
        BY <2>1, <4>2
      <4>3. CASE q # p
        <5>1. Shell(q) /\ depth[q] < depth[p]
          BY <2>3, <2>5, <2>7, <3>2, <3>3, <4>1, <4>3 DEF Chain, DepthUnique
        <5> QED
          BY <2>2, <2>7, <4>1, <4>3, <5>1 DEF Chain, OuterWaits
      <4> QED
        BY <4>2, <4>3
    <3>6. NoGap'
      <4> SUFFICES ASSUME NEW q \in PID, Shell(q)', NEW n \in 0 .. depth'[q]
                   PROVE  \E r \in PID : Shell(r)' /\ depth'[r] = n
        BY DEF NoGap
      <4>1. CASE q = c /\ n = depth'[c]
        BY <4>1
      <4>2. CASE q = c /\ n # depth'[c]
        <5>1. n \in 0 .. depth[p]
          BY <2>1, <3>2, <4>2
        <5>2. PICK r \in PID : Shell(r) /\ depth[r] = n
          BY <2>7, <5>1 DEF Chain, NoGap
        <5> QED
          BY <2>3, <2>4, <2>5, <5>2
      <4>3. CASE q # c
        <5>1. n \in 0 .. depth[q] /\ Shell(q)
          BY <2>3, <2>5, <4>3
        <5>2. PICK r \in PID : Shell(r) /\ depth[r] = n
          BY <5>1 DEF Chain, NoGap
        <5> QED
          BY <2>3, <2>4, <2>5, <5>2
      <4> QED
        BY <4>1, <4>2, <4>3
    <3>7. ParentAbove'
      <4> SUFFICES ASSUME NEW q \in PID, Shell(q)', depth'[q] > 0
                   PROVE  \E r \in PID :
                            parent'[q] = r /\ Shell(r)' /\ depth'[r] = depth'[q] - 1
        BY DEF ParentAbove
      <4>1. CASE q = c
        BY <2>1, <2>3, <3>1, <3>2, <4>1
      <4>2. CASE q # c
        <5>1. PICK r \in PID : parent[q] = r /\ Shell(r) /\ depth[r] = depth[q] - 1
          BY <2>3, <2>5, <4>2 DEF Chain, ParentAbove
        <5> QED
          BY <2>3, <2>4, <2>5, <4>2, <5>1
      <4> QED
        BY <4>1, <4>2
    <3> QED
      BY <3>4, <3>5, <3>6, <3>7 DEF Chain
  <2> QED
    BY <2>6, <2>7
<1>8. ASSUME NEW p \in PID, NEW c \in PID, Reap(p, c) PROVE Chain'
  <2>1. /\ status[p] = "wait" /\ status[c] = "zombie" /\ p # c /\ parent[c] = p
        /\ status'[p] = "return" /\ status'[c] = "free"
        /\ depth' = depth /\ base' = base
    BY <1>8 DEF Reap, Release, TypeOK
  <2>2. \A q \in PID \ {p, c} : status'[q] = status[q]
    BY <1>8 DEF Reap, Release, TypeOK
  <2>3. \A q \in PID \ {c} : parent'[q] = parent[q]
    BY <1>8 DEF Reap, Release, TypeOK
  <2>4. \A q \in PID : Shell(q)' <=> Shell(q)
    BY <2>1, <2>2 DEF Shell, Live
  <2>5. ~Shell(c)
    BY <2>1 DEF Shell, Live
  <2>6. CASE ~Shell(p)
    BY <2>1, <2>2, <2>3, <2>4, <2>5, <2>6, ChainKept
  <2>7. CASE Shell(p)
    <3>1. \A q \in PID : depth[q] \in Nat
      BY DEF TypeOK
    <3>2. \A q \in PID : Shell(q) => ~(depth[p] < depth[q])
      BY <2>1, <2>7, ReaperInnermost
    <3>3. DepthUnique'
      BY <2>1, <2>4 DEF Chain, DepthUnique
    <3>4. OuterWaits'
      BY <2>1, <2>2, <2>4, <2>5, <3>2 DEF Chain, OuterWaits
    <3>5. NoGap'
      BY <2>1, <2>4 DEF Chain, NoGap
    <3>6. ParentAbove'
      BY <2>1, <2>3, <2>4, <2>5 DEF Chain, ParentAbove
    <3> QED
      BY <3>3, <3>4, <3>5, <3>6 DEF Chain
  <2> QED
    BY <2>6, <2>7
<1> QED
  BY <1>1, <1>2, <1>3, <1>4, <1>5, <1>6, <1>7, <1>8 DEF Effects

\* What holds until a pipeline loses its second fork.
ExclusiveInv == ~pipeForkFailed => Families /\ Chain

\* However many nested shells failed redirections leave behind, and however many
\* forks, execs and opens fail, at most one shell evaluates or prompts: two
\* shells never read the terminal at once.
THEOREM OneShellAtATime == Spec => []ForegroundExclusive
<1>1. Init => ExclusiveInv
  BY PidAssumption
  DEF Init, ExclusiveInv, Families, Family, Chain, DepthUnique, OuterWaits, NoGap,
      ParentAbove, Shell, Live
<1>2. TypeInv /\ WaitInv /\ ExclusiveInv /\ [Next]_vars => ExclusiveInv'
  BY ForkFailedStep, FamilyStep, ChainStep DEF TypeInv, ExclusiveInv
<1>3. TypeInv /\ ExclusiveInv => ForegroundExclusive
  <2> SUFFICES ASSUME TypeInv, Chain, NEW p \in PID, NEW q \in PID,
                      Active(p), Active(q)
               PROVE  p = q
    BY DEF ExclusiveInv, ForegroundExclusive
  <2>1. depth[p] \in Nat /\ depth[q] \in Nat
    BY DEF TypeInv, TypeOK
  <2>2. Shell(p) /\ Shell(q) /\ status[p] # "wait" /\ status[q] # "wait"
    BY DEF Active
  <2>3. depth[p] = depth[q]
    BY <2>1, <2>2 DEF Chain, OuterWaits
  <2> QED
    BY <2>2, <2>3 DEF Chain, DepthUnique
<1> QED
  BY <1>1, <1>2, <1>3, TypeInvariant, WaitInvariant, PTL DEF Spec

-----------------------------------------------------------------------------
(* What a redirection sees of the command below it                         *)

\* One level of the definition of Outcomes, f being what is said of the nodes below.
OutcomesBelow(f, n) ==
  CASE n = NoNode -> {-1}
    [] n # NoNode /\ kind[n] = "semi" -> {0}
    [] n # NoNode /\ kind[n] = "pipe" -> {0, -1}
    [] n # NoNode /\ kind[n] = "redirection" ->
         {-1} \cup {IF v = 0 THEN -1 ELSE 0 : v \in f[left[n]]}
    [] n # NoNode /\ kind[n] = "command" ->
         CASE word[n] = "builtin" -> {0}
           [] word[n] = "external" -> {0, -1}
           [] word[n] \in {"exit", "fault"} -> {}

OutcomeMap == [Node \cup {NoNode} -> SUBSET {0, -1}]

LEMMA BelowType ==
  ASSUME NEW f \in OutcomeMap, NEW n \in Node \cup {NoNode}
  PROVE  OutcomesBelow(f, n) \in SUBSET {0, -1}
<1>1. CASE n = NoNode
  BY <1>1 DEF OutcomesBelow
<1>2. CASE n # NoNode
  <2>1. n \in Node /\ kind[n] \in Kinds /\ word[n] \in Words
    BY <1>2, NodeAssumption
  <2>2. CASE kind[n] = "redirection"
    BY <1>2, <2>2 DEF OutcomesBelow
  <2>3. CASE kind[n] = "command"
    BY <1>2, <2>1, <2>3 DEF OutcomesBelow, Words
  <2> QED
    BY <1>2, <2>1, <2>2, <2>3 DEF OutcomesBelow, Kinds
<1> QED
  BY <1>1, <1>2

\* More outcomes below a node are not fewer at it.
LEMMA BelowGrows ==
  ASSUME NEW f \in OutcomeMap, NEW g \in OutcomeMap,
         \A m \in Node \cup {NoNode} : f[m] \subseteq g[m],
         NEW n \in Node \cup {NoNode}
  PROVE  OutcomesBelow(f, n) \subseteq OutcomesBelow(g, n)
<1>1. CASE n = NoNode
  BY <1>1 DEF OutcomesBelow
<1>2. CASE n # NoNode
  <2>1. n \in Node /\ kind[n] \in Kinds /\ left[n] \in Node \cup {NoNode}
    BY <1>2, NodeAssumption
  <2>2. CASE kind[n] = "redirection"
    <3>1. f[left[n]] \subseteq g[left[n]]
      BY <2>1
    <3>2. /\ OutcomesBelow(f, n)
               = {-1} \cup {IF v = 0 THEN -1 ELSE 0 : v \in f[left[n]]}
          /\ OutcomesBelow(g, n)
               = {-1} \cup {IF v = 0 THEN -1 ELSE 0 : v \in g[left[n]]}
      BY <1>2, <2>2 DEF OutcomesBelow
    <3> QED
      BY <3>1, <3>2
  <2>3. CASE kind[n] # "redirection"
    <3>1. OutcomesBelow(f, n) = OutcomesBelow(g, n)
      BY <1>2, <2>1, <2>3 DEF OutcomesBelow, Kinds
    <3> QED
      BY <3>1
  <2> QED
    BY <2>2, <2>3
<1> QED
  BY <1>1, <1>2

\* The definition of Outcomes has a solution, whatever the shape of the tree: what
\* every map has in common that is closed under it.
LEMMA OutcomesExist ==
  \E f : f = [n \in Node \cup {NoNode} |-> OutcomesBelow(f, n)]
<1> DEFINE D == Node \cup {NoNode}
           Solves(g) == \A m \in D : OutcomesBelow(g, m) \subseteq g[m]
           L == [n \in D |-> {v \in {0, -1} : \A g \in OutcomeMap : Solves(g) => v \in g[n]}]
           G == [n \in D |-> OutcomesBelow(L, n)]
<1>1. L \in OutcomeMap
  BY DEF OutcomeMap
<1>2. ASSUME NEW g \in OutcomeMap, Solves(g), NEW m \in D PROVE L[m] \subseteq g[m]
  BY <1>2
<1>3. ASSUME NEW m \in D, NEW v, v \in {0, -1},
             \A g \in OutcomeMap : Solves(g) => v \in g[m]
      PROVE  v \in L[m]
  BY <1>3
<1>4. ASSUME NEW m \in D PROVE OutcomesBelow(L, m) \subseteq L[m]
  <2> SUFFICES ASSUME NEW v \in OutcomesBelow(L, m) PROVE v \in L[m]
    OBVIOUS
  <2>1. v \in {0, -1}
    BY <1>1, BelowType
  <2>2. ASSUME NEW g \in OutcomeMap, Solves(g) PROVE v \in g[m]
    <3>1. OutcomesBelow(L, m) \subseteq OutcomesBelow(g, m)
      <4>1. \A k \in Node \cup {NoNode} : L[k] \subseteq g[k]
        BY <1>2, <2>2
      <4> HIDE DEF L
      <4> QED
        BY <1>1, <4>1, BelowGrows
    <3> QED
      BY <2>2, <3>1
  <2> QED
    BY <1>3, <2>1, <2>2
<1>5. G \in OutcomeMap
  <2>1. \A m \in D : OutcomesBelow(L, m) \in SUBSET {0, -1}
    BY <1>1, BelowType
  <2> QED
    BY <2>1 DEF OutcomeMap
<1> HIDE DEF L
<1>6. Solves(G)
  <2>1. \A m \in Node \cup {NoNode} : G[m] \subseteq L[m]
    BY <1>4
  <2>2. ASSUME NEW m \in D PROVE OutcomesBelow(G, m) \subseteq G[m]
    <3>1. OutcomesBelow(G, m) \subseteq OutcomesBelow(L, m)
      <4> HIDE DEF G
      <4> QED
        BY <1>1, <1>5, <2>1, BelowGrows
    <3> QED
      BY <3>1
  <2> QED
    BY <2>2
<1>7. \A m \in D : L[m] = OutcomesBelow(L, m)
  <2>1. \A m \in D : L[m] \subseteq G[m]
    <3> HIDE DEF G
    <3> QED
      BY <1>2, <1>5, <1>6
  <2> QED
    BY <1>4, <2>1
<1>8. L = [n \in D |-> OutcomesBelow(L, n)]
  BY <1>1, <1>7 DEF OutcomeMap
<1> QED
  BY <1>8

\* So it is what its definition says at every node.
LEMMA OutcomesValue ==
  ASSUME NEW n \in Node \cup {NoNode}
  PROVE  Outcomes[n] = OutcomesBelow(Outcomes, n)
<1>1. PICK f : f = [m \in Node \cup {NoNode} |-> OutcomesBelow(f, m)]
  BY OutcomesExist
<1>2. Outcomes = [m \in Node \cup {NoNode} |-> OutcomesBelow(Outcomes, m)]
  BY <1>1, SMT DEF Outcomes, OutcomesBelow
<1> QED
  BY <1>2

LEMMA OutcomesAre ==
  /\ Outcomes[NoNode] = {-1}
  /\ \A n \in Node :
       /\ kind[n] = "semi" => Outcomes[n] = {0}
       /\ kind[n] = "pipe" => Outcomes[n] = {0, -1}
       /\ kind[n] = "redirection" =>
            /\ -1 \in Outcomes[n]
            /\ -1 \in Outcomes[left[n]] => 0 \in Outcomes[n]
       /\ kind[n] = "command" /\ word[n] = "builtin" => Outcomes[n] = {0}
       /\ kind[n] = "command" /\ word[n] = "external" => Outcomes[n] = {0, -1}
<1>1. Outcomes[NoNode] = {-1}
  BY OutcomesValue DEF OutcomesBelow
<1>2. ASSUME NEW n \in Node
      PROVE  /\ kind[n] = "semi" => Outcomes[n] = {0}
             /\ kind[n] = "pipe" => Outcomes[n] = {0, -1}
             /\ kind[n] = "command" /\ word[n] = "builtin" => Outcomes[n] = {0}
             /\ kind[n] = "command" /\ word[n] = "external" => Outcomes[n] = {0, -1}
  BY OutcomesValue, NodeAssumption DEF OutcomesBelow
<1>3. ASSUME NEW n \in Node, kind[n] = "redirection"
      PROVE  -1 \in Outcomes[n] /\ (-1 \in Outcomes[left[n]] => 0 \in Outcomes[n])
  <2>1. Outcomes[n] = {-1} \cup {IF v = 0 THEN -1 ELSE 0 : v \in Outcomes[left[n]]}
    BY <1>3, OutcomesValue, NodeAssumption DEF OutcomesBelow
  <2> QED
    BY <2>1
<1> QED
  BY <1>1, <1>2, <1>3

\* Callers that are redirections.
Redirs == {"redir", "redirFork"}

\* The innermost caller of f, if it is a redirection, is the one around n.
Under(n, f) == f # <<>> /\ Head(f).k \in Redirs => left[Head(f).n] = n

\* It may see the value v.
Answers(v, f) ==
  f # <<>> /\ Head(f).k \in Redirs => v \in Outcomes[left[Head(f).n]]

\* A frame is of a node of its kind.
Fits(k, n) == kind[n] = IF k \in Redirs THEN "redirection" ELSE "semi"

\* Callers are of their kinds, and a redirection has called what is around the
\* next one in.
Nested(f) ==
  \A i \in 1 .. Len(f) :
    /\ Fits(f[i].k, f[i].n)
    /\ i < Len(f) /\ f[i + 1].k \in Redirs => left[f[i + 1].n] = f[i].n

\* Whoever is below a redirection without a fork is at the node under it, has no
\* need to fork, and returns what that node may return.
Sound(st, c) ==
  /\ Nested(c.frames)
  /\ st = "return" => Answers(c.ret, c.frames)
  /\ st \in {"eval", "redirect", "exec", "wait", "fork2", "waitpid"} =>
       /\ Under(c.node, c.frames)
       /\ c.frames # <<>> /\ Head(c.frames).k \in Redirs => ~c.needfork
  /\ st = "wait" => c.needfork
  /\ st = "redirect" => c.node \in Node /\ kind[c.node] = "redirection"
  /\ st \in {"fork2", "waitpid"} => c.node \in Node /\ kind[c.node] = "pipe"
  /\ st = "exec" => c.node \in Node /\ kind[c.node] = "command" /\ word[c.node] = "external"

CallInv == \A p \in PID : Sound(status[p], ctl[p])

\* A call pushed on callers that it is called by.
LEMMA PushNested ==
  ASSUME NEW f \in Seq(Frame), Nested(f),
         NEW k \in {"semiLeft", "semiRight", "redir", "redirFork"}, NEW n \in Node,
         Fits(k, n), Under(n, f)
  PROVE  Nested(Push(k, n, f))
<1> DEFINE e == [k |-> k, n |-> n]
           g == Push(k, n, f)
<1>1. e.k = k /\ e.n = n /\ e \in Frame
  BY DEF Frame
<1>2. /\ g = <<e>> \o f /\ Len(f) \in Nat /\ Len(g) = Len(f) + 1
      /\ g[1] = e /\ \A i \in 2 .. Len(g) : g[i] = f[i - 1]
  BY <1>1 DEF Push
<1>3. f # <<>> => Len(f) > 0 /\ Head(f) = f[1]
  OBVIOUS
<1> HIDE DEF e, g
<1>4. ASSUME NEW i \in 1 .. Len(g), i # 1
      PROVE  /\ Fits(g[i].k, g[i].n)
             /\ i < Len(g) /\ g[i + 1].k \in Redirs => left[g[i + 1].n] = g[i].n
  <2>1. i - 1 \in 1 .. Len(f) /\ g[i] = f[i - 1]
    BY <1>2, <1>4
  <2>2. i < Len(g) => g[i + 1] = f[(i - 1) + 1] /\ i - 1 < Len(f)
    BY <1>2, <1>4
  <2> QED
    BY <2>1, <2>2 DEF Nested
<1>5. Len(g) > 1 => f # <<>> /\ g[2] = Head(f)
  BY <1>2, <1>3
<1>6. ASSUME NEW i \in 1 .. Len(g), i = 1
      PROVE  /\ Fits(g[i].k, g[i].n)
             /\ i < Len(g) /\ g[i + 1].k \in Redirs => left[g[i + 1].n] = g[i].n
  <2>1. g[i].k = k /\ g[i].n = n
    BY <1>1, <1>2, <1>6
  <2>2. i < Len(g) => f # <<>> /\ g[i + 1] = Head(f)
    BY <1>2, <1>5, <1>6
  <2> QED
    BY <2>1, <2>2 DEF Under
<1>7. \A i \in 1 .. Len(g) :
        /\ Fits(g[i].k, g[i].n)
        /\ i < Len(g) /\ g[i + 1].k \in Redirs => left[g[i + 1].n] = g[i].n
  BY <1>4, <1>6
<1> QED
  BY <1>7 DEF Nested, g

\* Returning to the innermost caller.
LEMMA TailNested ==
  ASSUME NEW f \in Seq(Frame), f # <<>>, Nested(f)
  PROVE  /\ Nested(Tail(f))
         /\ Under(Head(f).n, Tail(f))
         /\ Fits(Head(f).k, Head(f).n)
<1> DEFINE t == Tail(f)
<1>1. /\ Len(f) \in Nat /\ Len(f) > 0 /\ Len(t) = Len(f) - 1
      /\ \A i \in 1 .. Len(t) : t[i] = f[i + 1]
      /\ Head(f) = f[1]
      /\ t # <<>> => Len(t) > 0 /\ Head(t) = t[1]
  OBVIOUS
<1> HIDE DEF t
<1>2. ASSUME NEW i \in 1 .. Len(t)
      PROVE  /\ Fits(t[i].k, t[i].n)
             /\ i < Len(t) /\ t[i + 1].k \in Redirs => left[t[i + 1].n] = t[i].n
  <2>1. i + 1 \in 1 .. Len(f) /\ t[i] = f[i + 1]
    BY <1>1
  <2>2. i < Len(t) => t[i + 1] = f[(i + 1) + 1] /\ i + 1 < Len(f)
    BY <1>1
  <2> QED
    BY <2>1, <2>2 DEF Nested
<1>3. Nested(t)
  BY <1>2 DEF Nested
<1>4. 1 \in 1 .. Len(f) /\ (t # <<>> => 1 < Len(f) /\ Head(t) = f[1 + 1])
  BY <1>1
<1>5. Under(Head(f).n, t) /\ Fits(Head(f).k, Head(f).n)
  BY <1>1, <1>4 DEF Nested, Under
<1> QED
  BY <1>3, <1>5 DEF t

\* What a node may return is what the redirection around it may see.
LEMMA AnswerOfNode ==
  ASSUME NEW n, NEW f, Under(n, f), NEW v \in Outcomes[n]
  PROVE  Answers(v, f)
BY DEF Under, Answers

LEMMA ValueSound ==
  ASSUME NEW f \in Seq(Frame), NEW v, Nested(f), Answers(v, f)
  PROVE  Sound("return", Value(v, f))
BY DEF Sound, Value

LEMMA CallSound ==
  ASSUME NEW f \in Seq(Frame), NEW n, NEW b \in BOOLEAN, Nested(f), Under(n, f),
         f # <<>> /\ Head(f).k \in Redirs => ~b
  PROVE  Sound("eval", Call(n, b, f))
BY DEF Sound, Call

LEMMA IdleSound ==
  ASSUME NEW st \in {"prompt", "program", "zombie", "free"}
  PROVE  Sound(st, Idle)
BY DEF Sound, Idle, Value, Nested

\* A step of one process that is sound before and after it.
LEMMA StepSound ==
  ASSUME TypeOK, CallInv, NEW p \in PID, NEW st, NEW c, Step(p, st, c), Sound(st, c)
  PROVE  CallInv'
<1> SUFFICES ASSUME NEW q \in PID PROVE Sound(status'[q], ctl'[q])
  BY DEF CallInv, Sound, Nested, Answers, Under, Fits
<1> QED
  BY DEF CallInv, Step, TypeOK

LEMMA ForkSound ==
  ASSUME TypeOK, CallInv, NEW p \in PID, NEW c \in PID, NEW pst, NEW cst, NEW cctl,
         NEW b, Fork(p, c, pst, cst, cctl, b), status[p] # "free",
         Sound(pst, ctl[p]), Sound(cst, cctl)
  PROVE  CallInv'
<1> SUFFICES ASSUME NEW q \in PID PROVE Sound(status'[q], ctl'[q])
  BY DEF CallInv, Sound, Nested, Answers, Under, Fits
<1>1. p # c /\ status'[p] = pst /\ ctl'[p] = ctl[p] /\ status'[c] = cst /\ ctl'[c] = cctl
  BY DEF Fork, TypeOK
<1>2. q # p /\ q # c => status'[q] = status[q] /\ ctl'[q] = ctl[q]
  BY DEF Fork, TypeOK
<1> QED
  BY <1>1, <1>2 DEF CallInv

\* A process that is nothing any more.
LEMMA GoneSound ==
  ASSUME NEW st, NEW c, Sound(st, c), NEW tt \in {"zombie", "free"}
  PROVE  Sound(tt, c)
BY DEF Sound

LEMMA DieSound ==
  ASSUME TypeOK, CallInv, NEW p \in PID, Die(p)
  PROVE  CallInv'
<1> SUFFICES ASSUME NEW q \in PID PROVE Sound(status'[q], ctl'[q])
  BY DEF CallInv, Sound, Nested, Answers, Under, Fits
<1>1. CASE q = p
  <2>1. status'[p] \in {"zombie", "free"} /\ ctl'[p] = Idle
    BY DEF Die, TypeOK
  <2> QED
    BY <1>1, <2>1, IdleSound
<1>2. CASE q # p
  <2>1. status'[q] \in {status[q], "free"} /\ ctl'[q] = ctl[q]
    BY <1>2 DEF Die, TypeOK
  <2> QED
    BY <2>1, GoneSound DEF CallInv
<1> QED
  BY <1>1, <1>2

\* Every step keeps what the callers may see.
LEMMA CallStep ==
  ASSUME TypeOK, NodeInv, CallInv, [Next]_vars
  PROVE  CallInv'
<1> DEFINE Busy == {"eval", "redirect", "exec", "wait", "fork2", "waitpid"}
<1>1. CASE UNCHANGED vars \/ Done
  BY <1>1 DEF Done, vars, CallInv, Sound, Nested, Answers, Under, Fits
<1>2. ASSUME NEW p \in PID, User(p) PROVE CallInv'
  <2>1. CASE Submit(p)
    <3>1. PICK n \in Lines : ctl' = [ctl EXCEPT ![p] = Call(n, TRUE, <<>>)]
      BY <2>1 DEF Submit
    <3>2. Sound("eval", Call(n, TRUE, <<>>))
      BY DEF Sound, Call, Nested, Under
    <3> SUFFICES ASSUME NEW q \in PID PROVE Sound(status'[q], ctl'[q])
      BY DEF CallInv, Sound, Nested, Answers, Under, Fits
    <3> QED
      BY <2>1, <3>1, <3>2 DEF Submit, CallInv, TypeOK
  <2>2. CASE Quit(p)
    BY <2>2, DieSound DEF Quit
  <2> QED
    BY <1>2, <2>1, <2>2 DEF User
<1>3. ASSUME NEW p \in PID, ProgramExit(p) PROVE CallInv'
  BY <1>3, DieSound DEF ProgramExit
<1>4. ASSUME NEW p \in PID
      PROVE  /\ ctl[p].frames \in Seq(Frame) /\ ctl[p].ret \in {0, -1}
             /\ Nested(ctl[p].frames)
             /\ status[p] = "return" => Answers(ctl[p].ret, ctl[p].frames)
             /\ status[p] \in Busy => Under(ctl[p].node, ctl[p].frames)
             /\ Sound(status[p], ctl[p])
  BY ControlType DEF CallInv, Sound
<1>5. ASSUME NEW p \in PID, NEW k, Evaluates(p, k)
      PROVE  ctl[p].node \in Node /\ kind[ctl[p].node] = k /\ status[p] = "eval"
  BY <1>5, EvaluatesType DEF Evaluates
<1>6. ASSUME NEW p \in PID, NEW k, Returns(p, k)
      PROVE  LET f == ctl[p].frames IN
             /\ f # <<>> /\ Head(f).k = k /\ Head(f).n \in Node
             /\ Tail(f) \in Seq(Frame) /\ Nested(Tail(f))
             /\ Under(Head(f).n, Tail(f)) /\ Fits(k, Head(f).n)
             /\ k \in Redirs => ctl[p].ret \in Outcomes[left[Head(f).n]]
  <2>1. status[p] = "return" /\ ctl[p].frames # <<>> /\ Head(ctl[p].frames).k = k
    BY <1>6 DEF Returns
  <2> QED
    BY <1>4, <1>6, <2>1, ReturnsType, TailNested DEF Answers
<1>7. ASSUME NEW p \in PID, Local(p) PROVE CallInv'
  <2> DEFINE n == ctl[p].node
             f == ctl[p].frames
  <2>1. ASSUME NEW v \in {0, -1}, Answers(v, f), Return(p, v, f) PROVE CallInv'
    BY <1>4, <2>1, ValueSound, StepSound DEF Return
  <2>2. CASE EvalNull(p)
    <3>1. Answers(-1, f)
      BY <1>4, <2>2, OutcomesAre, AnswerOfNode DEF EvalNull
    <3> QED
      BY <2>1, <2>2, <3>1 DEF EvalNull
  <2>3. CASE EvalSemi(p)
    <3>1. n \in Node /\ kind[n] = "semi" /\ Under(n, f)
      BY <1>4, <1>5, <2>3 DEF EvalSemi
    <3>2. Push("semiLeft", n, f) \in Seq(Frame) /\ Nested(Push("semiLeft", n, f))
      BY <1>4, <3>1, PushType, PushNested DEF Fits, Redirs
    <3>3. Head(Push("semiLeft", n, f)).k = "semiLeft"
      BY <1>4 DEF Push
    <3>4. Sound("eval", Call(left[n], TRUE, Push("semiLeft", n, f)))
      BY <3>2, <3>3, CallSound DEF Under, Redirs
    <3> QED
      BY <2>3, <3>4, StepSound DEF EvalSemi, Eval
  <2>4. CASE EvalBuiltin(p)
    <3>1. Answers(0, f)
      BY <1>4, <1>5, <2>4, OutcomesAre, AnswerOfNode DEF EvalBuiltin, Runs
    <3> QED
      BY <2>1, <2>4, <3>1 DEF EvalBuiltin
  <2>5. CASE EvalNotFound(p)
    <3>1. Answers(-1, f)
      BY <1>4, <1>5, <2>5, OutcomesAre, AnswerOfNode DEF EvalNotFound, Runs
    <3> QED
      BY <2>1, <2>5, <3>1 DEF EvalNotFound
  <2>6. CASE EvalForkFails(p)
    <3>1. PICK k \in {"command", "redirection", "pipe"} :
            /\ Evaluates(p, k)
            /\ k = "command" => word[n] = "external"
      BY <2>6 DEF EvalForkFails, Runs
    <3>2. Answers(-1, f)
      BY <1>4, <1>5, <3>1, OutcomesAre, AnswerOfNode
    <3> QED
      BY <2>1, <2>6, <3>2 DEF EvalForkFails
  <2>7. CASE EvalExit(p) \/ EvalFault(p) \/ RedirectFailsForked(p) \/ ReturnToPipeChild(p)
    BY <2>7, DieSound DEF EvalExit, EvalFault, RedirectFailsForked, ReturnToPipeChild
  <2>8. CASE EvalExecInPlace(p)
    <3>1. Sound("exec", ctl[p])
      BY <1>4, <1>5, <2>8 DEF EvalExecInPlace, Runs, Sound
    <3> QED
      BY <2>8, <3>1, StepSound DEF EvalExecInPlace
  <2>9. CASE EvalRedirInPlace(p)
    <3>1. Sound("redirect", ctl[p])
      BY <1>4, <1>5, <2>9 DEF EvalRedirInPlace, Sound
    <3> QED
      BY <2>9, <3>1, StepSound DEF EvalRedirInPlace
  <2>10. CASE Exec(p) \/ ReturnToMain(p)
    BY <2>10, IdleSound, StepSound DEF Exec, ReturnToMain
  <2>11. CASE ExecFails(p)
    <3>1. Under(n, f) /\ Outcomes[n] = {0, -1}
      BY <1>4, <2>11, OutcomesAre DEF ExecFails, Sound
    <3>2. Answers(0, f) /\ Answers(-1, f)
      BY <3>1, AnswerOfNode
    <3> QED
      BY <2>1, <2>11, <3>2 DEF ExecFails
  <2>12. CASE RedirectFailsInPlace(p)
    <3>1. Under(n, f) /\ -1 \in Outcomes[n]
      BY <1>4, <2>12, OutcomesAre DEF RedirectFailsInPlace, Sound
    <3> QED
      BY <2>1, <2>12, <3>1, AnswerOfNode DEF RedirectFailsInPlace
  <2>13. CASE Redirect(p)
    <3> DEFINE k == IF ctl[p].needfork THEN "redirFork" ELSE "redir"
    <3>1. n \in Node /\ kind[n] = "redirection" /\ Under(n, f) /\ k \in Redirs
      BY <1>4, <2>13 DEF Redirect, Sound, Redirs
    <3>2. Push(k, n, f) \in Seq(Frame) /\ Nested(Push(k, n, f))
      BY <1>4, <3>1, PushType, PushNested DEF Fits, Redirs
    <3>3. Head(Push(k, n, f)).n = n
      BY <1>4 DEF Push
    <3>4. Sound("eval", Call(left[n], FALSE, Push(k, n, f)))
      BY <3>2, <3>3, CallSound DEF Under
    <3> QED
      BY <2>13, <3>4, StepSound DEF Redirect, Eval
  <2>14. CASE PipeRightForkFails(p)
    <3>1. Under(n, f) /\ -1 \in Outcomes[n]
      BY <1>4, <2>14, OutcomesAre DEF PipeRightForkFails, Sound
    <3>2. Sound("return", Value(-1, f))
      BY <1>4, <3>1, AnswerOfNode, ValueSound
    <3> SUFFICES ASSUME NEW q \in PID PROVE Sound(status'[q], ctl'[q])
      BY DEF CallInv, Sound, Nested, Answers, Under, Fits
    <3> QED
      BY <2>14, <3>2 DEF PipeRightForkFails, CallInv, TypeOK
  <2>15. CASE ReapLeft(p) \/ ReapRight(p)
    <3>1. PICK c \in PID : c # p /\ \E st : Release(p, c, st)
      BY <2>15 DEF ReapLeft, ReapRight, Release, TypeOK
    <3>2. Under(n, f) /\ 0 \in Outcomes[n]
      BY <1>4, <2>15, OutcomesAre DEF ReapLeft, ReapRight, Sound
    <3>3. Sound("return", Value(0, f))
      BY <1>4, <3>2, AnswerOfNode, ValueSound
    <3>4. Sound(status'[p], ctl'[p])
      BY <1>4, <2>15, <3>3 DEF ReapLeft, ReapRight, Release, TypeOK
    <3>5. Sound(status'[c], ctl'[c])
      <4>1. status[c] = "zombie" /\ status'[c] = "free" /\ ctl'[c] = ctl[c]
        BY <2>15, <3>1 DEF ReapLeft, ReapRight, Release, TypeOK
      <4> QED
        BY <1>4, <4>1, GoneSound
    <3> SUFFICES ASSUME NEW q \in PID PROVE Sound(status'[q], ctl'[q])
      BY DEF CallInv, Sound, Nested, Answers, Under, Fits
    <3>6. CASE q # p /\ q # c
      <4>1. status'[q] = status[q] /\ ctl'[q] = ctl[q]
        BY <2>15, <3>1, <3>6 DEF ReapLeft, ReapRight, Release, TypeOK
      <4> QED
        BY <1>4, <4>1
    <3> QED
      BY <3>4, <3>5, <3>6
  <2>16. CASE ReturnSemiLeft(p)
    <3> DEFINE m == Head(f).n
               g == Push("semiRight", m, Tail(f))
    <3>1. g \in Seq(Frame) /\ Nested(g)
      BY <1>6, <2>16, PushType, PushNested DEF ReturnSemiLeft, Fits, Redirs
    <3>2. Head(g).k = "semiRight"
      BY <1>6, <2>16 DEF ReturnSemiLeft, Push
    <3>3. Sound("eval", Call(right[m], TRUE, g))
      <4> HIDE DEF g
      <4> QED
        BY <3>1, <3>2, CallSound DEF Under, Redirs
    <3> QED
      BY <2>16, <3>3, StepSound DEF ReturnSemiLeft, Eval
  <2>17. ASSUME NEW v, v \in Outcomes[Head(f).n], NEW k, Returns(p, k),
                Return(p, v, Tail(f))
         PROVE  CallInv'
    <3>1. Answers(v, Tail(f))
      BY <1>6, <2>17, AnswerOfNode
    <3>2. Sound("return", Value(v, Tail(f)))
      BY <1>6, <2>17, <3>1, ValueSound
    <3> QED
      BY <2>17, <3>2, StepSound DEF Return
  <2>18. CASE ReturnSemiRight(p)
    <3>1. 0 \in Outcomes[Head(f).n]
      BY <1>6, <2>18, OutcomesAre DEF ReturnSemiRight, Fits, Redirs
    <3> QED
      BY <2>17, <2>18, <3>1 DEF ReturnSemiRight
  <2>19. CASE ReturnRedir(p)
    <3>1. /\ Head(f).n \in Node /\ kind[Head(f).n] = "redirection"
          /\ ctl[p].ret \in Outcomes[left[Head(f).n]] /\ ctl[p].ret \in {0, -1}
      BY <1>4, <1>6, <2>19 DEF ReturnRedir, Fits, Redirs
    <3>2. (IF ctl[p].ret = 0 THEN -1 ELSE 0) \in Outcomes[Head(f).n]
      BY <3>1, OutcomesAre
    <3> QED
      BY <2>17, <2>19, <3>2 DEF ReturnRedir
  <2>20. CASE ReturnRedirFork(p)
    <3>1. CASE ctl[p].ret = 0
      BY <2>20, <3>1, DieSound DEF ReturnRedirFork
    <3>2. CASE ctl[p].ret # 0
      <4>1. /\ Head(f).n \in Node /\ kind[Head(f).n] = "redirection"
            /\ -1 \in Outcomes[left[Head(f).n]]
        BY <1>4, <1>6, <2>20, <3>2 DEF ReturnRedirFork, Fits, Redirs
      <4>2. 0 \in Outcomes[Head(f).n]
        BY <4>1, OutcomesAre
      <4> QED
        BY <2>17, <2>20, <3>2, <4>2 DEF ReturnRedirFork
    <3> QED
      BY <3>1, <3>2
  <2> QED
    BY <1>7, <2>2, <2>3, <2>4, <2>5, <2>6, <2>7, <2>8, <2>9, <2>10, <2>11, <2>12,
       <2>13, <2>14, <2>15, <2>16, <2>18, <2>19, <2>20 DEF Local
<1>8. ASSUME NEW p \in PID, NEW c \in PID, Forks(p, c) PROVE CallInv'
  <2>1. CASE EvalForkExec(p, c) \/ EvalRedirFork(p, c)
    <3>1. /\ ctl[p].node \in Node /\ ctl[p].needfork /\ status[p] = "eval"
          /\ EvalForkExec(p, c) => kind[ctl[p].node] = "command" /\ word[ctl[p].node] = "external"
          /\ EvalRedirFork(p, c) => kind[ctl[p].node] = "redirection"
      BY <1>5, <2>1 DEF EvalForkExec, EvalRedirFork, Runs
    <3>2. /\ Sound("wait", ctl[p])
          /\ EvalForkExec(p, c) => Sound("exec", ctl[p])
          /\ EvalRedirFork(p, c) => Sound("redirect", ctl[p])
      BY <1>4, <3>1 DEF Sound
    <3> QED
      BY <2>1, <3>1, <3>2, ForkSound DEF EvalForkExec, EvalRedirFork
  <2>2. CASE EvalPipe(p, c) \/ EvalPipeRight(p, c)
    <3>1. \A m \in Node \cup {NoNode} : Sound("eval", Call(m, FALSE, <<>>))
      BY DEF Sound, Call, Nested, Under
    <3>2. /\ left[ctl[p].node] \in Node \cup {NoNode}
          /\ right[ctl[p].node] \in Node \cup {NoNode}
      BY <2>2, EvaluatesType, NodeAssumption
      DEF EvalPipe, EvalPipeRight, Evaluates, NodeInv
    <3>3. /\ EvalPipe(p, c) => Sound("fork2", ctl[p]) /\ status[p] = "eval"
          /\ EvalPipeRight(p, c) => Sound("waitpid", ctl[p]) /\ status[p] = "fork2"
      BY <1>4, <1>5 DEF EvalPipe, EvalPipeRight, Sound
    <3> QED
      BY <2>2, <3>1, <3>2, <3>3, ForkSound DEF EvalPipe, EvalPipeRight
  <2> QED
    BY <1>8, <2>1, <2>2 DEF Forks
<1>9. ASSUME NEW p \in PID, NEW c \in PID, Reap(p, c) PROVE CallInv'
  <2>1. Nested(ctl[p].frames) /\ Answers(0, ctl[p].frames)
    BY <1>4, <1>9 DEF Reap, Sound, Answers
  <2>2. Sound("return", Value(0, ctl[p].frames))
    BY <1>4, <2>1, ValueSound
  <2>3. /\ p # c /\ status'[p] = "return" /\ ctl'[p] = Value(0, ctl[p].frames)
        /\ status[c] = "zombie" /\ status'[c] = "free" /\ ctl'[c] = ctl[c]
    BY <1>9 DEF Reap, Release, TypeOK
  <2>4. Sound("free", ctl[c])
    BY <1>4, <2>3, GoneSound
  <2> SUFFICES ASSUME NEW q \in PID PROVE Sound(status'[q], ctl'[q])
    BY DEF CallInv, Sound, Nested, Answers, Under, Fits
  <2>5. CASE q # p /\ q # c
    <3>1. status'[q] = status[q] /\ ctl'[q] = ctl[q]
      BY <1>9, <2>5 DEF Reap, Release, TypeOK
    <3> QED
      BY <1>4, <3>1
  <2> QED
    BY <2>2, <2>3, <2>4, <2>5
<1> QED
  BY <1>1, <1>2, <1>3, <1>7, <1>8, <1>9 DEF Next, Shells

\* They see nothing else, always.
LEMMA CallInvariant == Spec => []CallInv
<1>1. Init => CallInv
  BY IdleSound DEF Init, CallInv
<1>2. TypeInv /\ CallInv /\ [Next]_vars => CallInv'
  BY CallStep DEF TypeInv
<1> QED
  BY <1>1, <1>2, TypeInvariant, PTL DEF Spec

\* A redirection sees of the command below it nothing that the tree does not allow,
\* however deep the call is in nested shells and pipelines and whatever fails on the way:
\* so a nested shell can be left behind only by a line that has -1 among the outcomes
\* below an outermost redirection, or whose execve fails.
THEOREM ReturnsSound == Spec => []ReturnsAsBigStep
<1>1. CallInv => ReturnsAsBigStep
  BY DEF CallInv, ReturnsAsBigStep, Returns, Sound, Answers, Redirs
<1> QED
  BY <1>1, CallInvariant, PTL

-----------------------------------------------------------------------------
(* ShellExec implements Nest: it follows from the chain of shells          *)

\* A step that makes no shell, ends none, and wakes none up is a stutter.
LEMMA NestKept ==
  ASSUME \A q \in PID : Shell(q)' <=> Shell(q),
         \A q \in PID : Shell(q) => depth'[q] = depth[q],
         \A q \in PID : Active(q)' <=> Active(q),
         pipeForkFailed' = pipeForkFailed
  PROVE  UNCHANGED Stack!vars
<1>1. {q \in PID : Shell(q)}' = {q \in PID : Shell(q)}
  OBVIOUS
<1>2. [p \in {q \in PID : Shell(q)} |-> depth[p]]'
        = [p \in {q \in PID : Shell(q)} |-> depth[p]]
  BY <1>1
<1>3. {p \in PID : Active(p)}' = {p \in PID : Active(p)}
  OBVIOUS
<1> QED
  BY <1>2, <1>3 DEF Stack!vars

\* The active shell is the innermost.
LEMMA ActiveInnermost ==
  ASSUME TypeOK, Chain, NEW p \in PID, Active(p)
  PROVE  /\ {q \in PID : Active(q)} = {p}
         /\ \A q \in PID \ {p} : Shell(q) => depth[q] < depth[p]
<1>1. \A q \in PID : depth[q] \in Nat
  BY DEF TypeOK
<1>2. Shell(p) /\ status[p] # "wait"
  BY DEF Active
<1>3. ASSUME NEW q \in PID \ {p}, Shell(q) PROVE depth[q] < depth[p] /\ status[q] = "wait"
  <2>1. depth[q] # depth[p]
    BY <1>2, <1>3 DEF Chain, DepthUnique
  <2>2. ~(depth[p] < depth[q])
    BY <1>2, <1>3 DEF Chain, OuterWaits
  <2>3. depth[q] < depth[p]
    BY <1>1, <2>1, <2>2
  <2> QED
    BY <1>2, <1>3, <2>3 DEF Chain, OuterWaits
<1> QED
  BY <1>3 DEF Active

\* In the terms of Nest.
LEMMA NestInnermost ==
  ASSUME NEW p \in PID, Shell(p),
         \A q \in PID \ {p} : Shell(q) => depth[q] < depth[p]
  PROVE  Stack!Innermost(p)
BY DEF Stack!Innermost, Stack!Nested

\* The active shell ends or becomes a program.
LEMMA NestLeave ==
  ASSUME TypeOK, Chain, NEW p \in PID, Active(p), ~Shell(p)',
         \A q \in PID \ {p} : Shell(q)' <=> Shell(q),
         \A q \in PID \ {p} : depth'[q] = depth[q],
         \A q \in PID \ {p} : status'[q] = status[q]
  PROVE  Stack!Leave(p)
<1>1. /\ {q \in PID : Active(q)} = {p}
      /\ \A q \in PID \ {p} : Shell(q) => depth[q] < depth[p]
  BY ActiveInnermost
<1>2. Stack!Innermost(p)
  BY <1>1, NestInnermost DEF Active
<1>3. {q \in PID : Shell(q)}' = {q \in PID : Shell(q)} \ {p}
  OBVIOUS
<1>4. [x \in {q \in PID : Shell(q)} |-> depth[x]]'
        = [x \in {q \in PID : Shell(q)} \ {p} |-> [y \in {q \in PID : Shell(q)} |-> depth[y]][x]]
  BY <1>3
<1>5. {q \in PID : Active(q)}' = {}
  BY <1>1 DEF Active
<1> QED
  BY <1>1, <1>2, <1>4, <1>5 DEF Stack!Leave, Stack!Nested

\* Each step of the shells is one of the nest, as long as the promise is made.
LEMMA NestStep ==
  ASSUME TypeOK, Families, Chain, [Next]_vars, ~pipeForkFailed'
  PROVE  Stack!Next \/ UNCHANGED Stack!vars
<1> USE PidAssumption
<1>1. Effects /\ ~pipeForkFailed /\ \A p \in PID : ~PipeRightForkFails(p)
  BY StepEffects, ForkFailedStep
<1>2. SUFFICES (\E p \in PID : \/ Stack!Leave(p) \/ Stack!Resume(p)
                               \/ \E c \in PID : Stack!Enter(p, c))
               \/ UNCHANGED Stack!vars
  BY <1>1 DEF Stack!Next
<1>3. CASE UNCHANGED <<status, base, parent, pid0, pid1, depth, pipeForkFailed>>
  <2>1. UNCHANGED Stack!vars
    BY <1>3, NestKept DEF Shell, Live, Active
  <2> QED
    BY <2>1
<1>4. ASSUME NEW p \in PID, Moves(p)
      PROVE  Stack!Leave(p) \/ UNCHANGED Stack!vars
  <2>1. /\ \A q \in PID \ {p} : status'[q] = status[q]
        /\ status[p] \in Running /\ status'[p] \in Running \cup {"program"}
        /\ base' = base /\ depth' = depth /\ pipeForkFailed' = pipeForkFailed
    BY <1>4 DEF Moves, TypeOK
  <2>2. \A q \in PID \ {p} : (Shell(q)' <=> Shell(q)) /\ (Active(q)' <=> Active(q))
    BY <2>1 DEF Shell, Live, Active
  <2>3. CASE base[p] = "main" /\ status'[p] = "program"
    <3>1. Active(p) /\ ~Shell(p)'
      BY <2>1, <2>3 DEF Active, Shell, Live, Running
    <3> QED
      BY <2>1, <2>2, <3>1, NestLeave
  <2>4. CASE ~(base[p] = "main" /\ status'[p] = "program")
    <3>1. (Shell(p)' <=> Shell(p)) /\ (Active(p)' <=> Active(p))
      BY <2>1, <2>4 DEF Active, Shell, Live, Running
    <3> QED
      BY <2>1, <2>2, <3>1, NestKept
  <2> QED
    BY <2>3, <2>4
<1>5. ASSUME NEW p \in PID, Dies(p)
      PROVE  Stack!Leave(p) \/ UNCHANGED Stack!vars
  <2>1. \A q \in PID : parent[q] # p
    BY <1>5 DEF Dies, Running, Families, Family, Blocked
  <2>2. \A q \in PID \ {p} :
          status'[q] = status[q] /\ base'[q] = base[q] /\ depth'[q] = depth[q]
    BY <1>5, <2>1 DEF Dies, Die, TypeOK
  <2>3. \A q \in PID \ {p} : (Shell(q)' <=> Shell(q)) /\ (Active(q)' <=> Active(q))
    BY <2>2 DEF Shell, Live, Active
  <2>4. ~Shell(p)' /\ pipeForkFailed' = pipeForkFailed
    BY <1>5 DEF Dies, Die, Shell, Live, TypeOK
  <2>5. CASE Shell(p)
    <3>1. Active(p)
      BY <1>5, <2>5 DEF Dies, Running, Active
    <3> QED
      BY <2>2, <2>3, <2>4, <3>1, NestLeave
  <2>6. CASE ~Shell(p)
    BY <2>2, <2>3, <2>4, <2>6, NestKept DEF Active
  <2> QED
    BY <2>5, <2>6
<1>6. ASSUME NEW p \in PID, ReapLeft(p) \/ ReapRight(p) PROVE UNCHANGED Stack!vars
  <2>1. PICK c : /\ status[c] = "zombie"
                 /\ \/ status' = [status EXCEPT ![p] = "waitpid", ![c] = "free"]
                    \/ status' = [status EXCEPT ![p] = "return", ![c] = "free"]
    BY <1>6 DEF ReapLeft, ReapRight, Release
  <2>2. /\ status[p] = "waitpid" /\ base' = base /\ depth' = depth
        /\ pipeForkFailed' = pipeForkFailed
    BY <1>6 DEF ReapLeft, ReapRight, Release
  <2>3. \A q \in PID : (Shell(q)' <=> Shell(q)) /\ (Active(q)' <=> Active(q))
    BY <2>1, <2>2 DEF Shell, Live, Active, TypeOK
  <2> QED
    BY <2>2, <2>3, NestKept
<1>7. ASSUME NEW p \in PID, NEW c \in PID, EvalPipe(p, c) \/ EvalPipeRight(p, c)
      PROVE  UNCHANGED Stack!vars
  <2>1. /\ status[c] = "free" /\ status[p] \in {"eval", "fork2"}
        /\ status'[p] \in {"fork2", "waitpid"} /\ base'[c] = "pipe"
        /\ pipeForkFailed' = pipeForkFailed
    BY <1>7 DEF EvalPipe, EvalPipeRight, Evaluates, Fork, TypeOK
  <2>2. /\ \A q \in PID \ {p, c} : status'[q] = status[q]
        /\ \A q \in PID \ {c} : depth'[q] = depth[q] /\ base'[q] = base[q]
    BY <1>7 DEF EvalPipe, EvalPipeRight, Fork, TypeOK
  <2>3. \A q \in PID : (Shell(q)' <=> Shell(q)) /\ (Active(q)' <=> Active(q))
    BY <2>1, <2>2 DEF Shell, Live, Active
  <2>4. \A q \in PID : Shell(q) => depth'[q] = depth[q]
    BY <2>1, <2>2 DEF Shell, Live
  <2> QED
    BY <2>1, <2>3, <2>4, NestKept
<1>8. ASSUME NEW p \in PID, NEW c \in PID, ForksAndWaits(p, c)
      PROVE  Stack!Enter(p, c) \/ UNCHANGED Stack!vars
  <2>1. /\ status[c] = "free" /\ status[p] = "eval" /\ p # c
        /\ status'[p] = "wait" /\ status'[c] \in {"exec", "redirect"}
        /\ base'[c] = base[p] /\ depth'[c] = depth[p] + 1
        /\ pipeForkFailed' = pipeForkFailed
    BY <1>8 DEF ForksAndWaits, Fork, TypeOK
  <2>2. /\ \A q \in PID \ {p, c} : status'[q] = status[q]
        /\ \A q \in PID \ {c} : depth'[q] = depth[q] /\ base'[q] = base[q]
    BY <1>8 DEF ForksAndWaits, Fork, TypeOK
  <2>3. ~Shell(c)
    BY <2>1 DEF Shell, Live
  <2>4. \A q \in PID \ {c} : Shell(q)' <=> Shell(q)
    BY <2>1, <2>2 DEF Shell, Live
  <2>5. \A q \in PID \ {p, c} : Active(q)' <=> Active(q)
    BY <2>2, <2>4 DEF Active
  <2>6. CASE base[p] = "main"
    <3>1. Active(p) /\ Shell(p) /\ Shell(c)' /\ Active(c)' /\ ~Active(p)'
      BY <2>1, <2>2, <2>6 DEF Shell, Live, Active
    <3>2. /\ {q \in PID : Active(q)} = {p}
          /\ \A q \in PID \ {p} : Shell(q) => depth[q] < depth[p]
      BY <3>1, ActiveInnermost
    <3>3. Stack!Innermost(p)
      BY <3>1, <3>2, NestInnermost
    <3>4. {q \in PID : Shell(q)}' = {q \in PID : Shell(q)} \cup {c}
      BY <2>4, <3>1
    <3>5. [x \in {q \in PID : Shell(q)} |-> depth[x]]'
            = [x \in {q \in PID : Shell(q)} \cup {c} |->
                 IF x = c THEN [y \in {q \in PID : Shell(q)} |-> depth[y]][p] + 1
                 ELSE [y \in {q \in PID : Shell(q)} |-> depth[y]][x]]
      BY <2>1, <2>2, <3>1, <3>4
    <3>6. {q \in PID : Active(q)}' = {c}
      BY <2>1, <2>5, <3>1, <3>2
    <3> QED
      BY <2>3, <3>2, <3>3, <3>5, <3>6 DEF Stack!Enter, Stack!Nested
  <2>7. CASE base[p] # "main"
    <3>1. \A q \in PID : (Shell(q)' <=> Shell(q)) /\ (Active(q)' <=> Active(q))
      BY <2>1, <2>2, <2>4, <2>5, <2>7 DEF Shell, Live, Active
    <3>2. \A q \in PID : Shell(q) => depth'[q] = depth[q]
      BY <2>2, <2>3
    <3> QED
      BY <2>1, <3>1, <3>2, NestKept
  <2> QED
    BY <2>6, <2>7
<1>9. ASSUME NEW p \in PID, NEW c \in PID, Reap(p, c)
      PROVE  Stack!Resume(p) \/ UNCHANGED Stack!vars
  <2>1. /\ status[p] = "wait" /\ status[c] = "zombie" /\ p # c /\ parent[c] = p
        /\ status'[p] = "return" /\ status'[c] = "free"
        /\ depth' = depth /\ base' = base /\ pipeForkFailed' = pipeForkFailed
    BY <1>9 DEF Reap, Release, TypeOK
  <2>2. \A q \in PID \ {p, c} : status'[q] = status[q]
    BY <1>9 DEF Reap, Release, TypeOK
  <2>3. \A q \in PID : Shell(q)' <=> Shell(q)
    BY <2>1, <2>2 DEF Shell, Live
  <2>4. \A q \in PID \ {p} : Active(q)' <=> Active(q)
    BY <2>1, <2>2, <2>3 DEF Active, Shell, Live
  <2>5. CASE Shell(p)
    <3>1. \A q \in PID : Shell(q) => ~(depth[p] < depth[q])
      BY <2>1, <2>5, ReaperInnermost
    <3>2. \A q \in PID : depth[q] \in Nat
      BY DEF TypeOK
    <3>3. \A q \in PID \ {p} : Shell(q) => depth[q] < depth[p]
      BY <2>5, <3>1, <3>2 DEF Chain, DepthUnique
    <3>4. Stack!Innermost(p)
      BY <2>5, <3>3, NestInnermost
    <3>5. {q \in PID : Active(q)} = {}
      BY <2>1, <2>5, <3>3 DEF Chain, OuterWaits, Active
    <3>6. Active(p)'
      BY <2>1, <2>3, <2>5 DEF Active
    <3>7. {q \in PID : Active(q)}' = {p}
      BY <2>4, <3>5, <3>6
    <3>8. [x \in {q \in PID : Shell(q)} |-> depth[x]]'
            = [x \in {q \in PID : Shell(q)} |-> depth[x]]
      BY <2>1, <2>3
    <3> QED
      BY <3>4, <3>5, <3>7, <3>8 DEF Stack!Resume
  <2>6. CASE ~Shell(p)
    BY <2>1, <2>3, <2>4, <2>6, NestKept DEF Active
  <2> QED
    BY <2>5, <2>6
<1> QED
  BY <1>1, <1>3, <1>4, <1>5, <1>6, <1>7, <1>8, <1>9 DEF Effects

\* ShellExec starts with a nest of one.
LEMMA NestInit ==
  ASSUME Init
  PROVE  Stack!Init
<1>1. \A q \in PID : Shell(q) <=> q = Root
  BY PidAssumption DEF Init, Shell, Live
<1>2. Active(Root)
  BY <1>1, PidAssumption DEF Init, Active
<1>3. {q \in PID : Shell(q)} = {Root} /\ {q \in PID : Active(q)} = {Root}
  BY <1>1, <1>2, PidAssumption DEF Active
<1>4. [p \in {q \in PID : Shell(q)} |-> depth[p]] = [q \in {Root} |-> 0]
  BY <1>3, PidAssumption DEF Init
<1> QED
  BY <1>3, <1>4, PidAssumption DEF Stack!Init, Init

\* What has held since the beginning, with what ExclusiveInv rests on.
LEMMA ExclusiveInvariant == Spec => [](TypeInv /\ WaitInv /\ ExclusiveInv)
<1>1. Init => ExclusiveInv
  BY PidAssumption
  DEF Init, ExclusiveInv, Families, Family, Chain, DepthUnique, OuterWaits, NoGap,
      ParentAbove, Shell, Live
<1>2. TypeInv /\ WaitInv /\ ExclusiveInv /\ [Next]_vars => ExclusiveInv'
  BY ForkFailedStep, FamilyStep, ChainStep DEF TypeInv, ExclusiveInv
<1> QED
  BY <1>1, <1>2, TypeInvariant, WaitInvariant, PTL DEF Spec

\* The shells that failed redirections and failed execs leave behind, in whatever
\* number, come and go like brackets: ShellExec implements Nest.
THEOREM ShellsAreNested == Spec => ShellsNest
<1>1. Init => Stack!Init
  BY NestInit
<1>2. TypeInv /\ ExclusiveInv /\ [Next]_vars => [Stack!Next]_(Stack!vars)
  <2> SUFFICES ASSUME TypeInv, ExclusiveInv, [Next]_vars
               PROVE  Stack!Next \/ UNCHANGED Stack!vars
    OBVIOUS
  <2>1. CASE pipeForkFailed'
    BY <2>1 DEF Stack!Next
  <2>2. CASE ~pipeForkFailed'
    <3>1. Families /\ Chain /\ TypeOK
      BY <2>2, ForkFailedStep DEF ExclusiveInv, TypeInv
    <3> QED
      BY <2>2, <3>1, NestStep
  <2> QED
    BY <2>1, <2>2
<1> QED
  BY <1>1, <1>2, ExclusiveInvariant, PTL DEF Spec, ShellsNest, Stack!Spec

-----------------------------------------------------------------------------
(* Who is alive at a prompt                                                *)

\* A process without a parent is Root, at home: it was never forked, and so it
\* neither applies a redirection nor becomes a program.
Orphans ==
  \A q \in PID : Live(q) /\ parent[q] = NoPid =>
    /\ base[q] = "main"
    /\ status[q] \notin {"exec", "redirect", "program"}
    /\ status[q] = "eval" => ctl[q].needfork

\* A child is one fork deeper than its parent.
Depths ==
  \A q, r \in PID : Live(q) /\ parent[q] = r => depth[q] = depth[r] + 1

\* Only main prompts.
Prompters == \A q \in PID : status[q] = "prompt" => base[q] = "main"

\* Nobody loses his parent, and the newly born have one.
LEMMA ParentKept ==
  ASSUME TypeOK, Families, [Next]_vars, ~pipeForkFailed', NEW q \in PID,
         Live(q)', parent'[q] = NoPid
  PROVE  Live(q) /\ parent[q] = NoPid /\ base'[q] = base[q]
<1> USE PidAssumption
<1>1. Effects /\ \A p \in PID : ~PipeRightForkFails(p)
  BY StepEffects, ForkFailedStep
<1>2. CASE UNCHANGED <<status, base, parent, pid0, pid1, depth, pipeForkFailed>>
  BY <1>2 DEF Live
<1>3. ASSUME NEW p \in PID, Moves(p) PROVE Live(q) /\ parent[q] = NoPid /\ base'[q] = base[q]
  BY <1>3 DEF Moves, Running, Live, TypeOK
<1>4. ASSUME NEW p \in PID, Dies(p) PROVE Live(q) /\ parent[q] = NoPid /\ base'[q] = base[q]
  <2>1. parent[q] # p
    BY <1>4 DEF Dies, Running, Families, Family, Blocked
  <2>2. q # p
    BY <1>4 DEF Dies, Die, Live, TypeOK
  <2> QED
    BY <1>4, <2>1, <2>2 DEF Dies, Die, Live, TypeOK
<1>5. ASSUME NEW p \in PID, ReapLeft(p) \/ ReapRight(p)
      PROVE  Live(q) /\ parent[q] = NoPid /\ base'[q] = base[q]
  <2>1. PICK c : /\ status[c] = "zombie"
                 /\ \/ status' = [status EXCEPT ![p] = "waitpid", ![c] = "free"]
                    \/ status' = [status EXCEPT ![p] = "return", ![c] = "free"]
                 /\ parent' = [parent EXCEPT ![c] = NoPid]
    BY <1>5 DEF ReapLeft, ReapRight, Release
  <2>2. status[p] = "waitpid" /\ base' = base
    BY <1>5 DEF ReapLeft, ReapRight, Release
  <2>3. q # c
    BY <2>1, <2>2 DEF Live, TypeOK
  <2> QED
    BY <2>1, <2>2, <2>3 DEF Live, TypeOK
<1>6. ASSUME NEW p \in PID, NEW c \in PID,
             ForksAndWaits(p, c) \/ EvalPipe(p, c) \/ EvalPipeRight(p, c)
      PROVE  Live(q) /\ parent[q] = NoPid /\ base'[q] = base[q]
  <2>1. /\ parent' = [parent EXCEPT ![c] = p] /\ status[c] = "free"
        /\ status[p] \in {"eval", "fork2"}
        /\ \A r \in PID \ {p, c} : status'[r] = status[r]
        /\ \A r \in PID \ {c} : base'[r] = base[r]
    BY <1>6 DEF ForksAndWaits, EvalPipe, EvalPipeRight, Evaluates, Fork, TypeOK
  <2>2. q # c
    BY <2>1 DEF TypeOK
  <2> QED
    BY <2>1, <2>2 DEF Live, TypeOK
<1>7. ASSUME NEW p \in PID, NEW c \in PID, Reap(p, c)
      PROVE  Live(q) /\ parent[q] = NoPid /\ base'[q] = base[q]
  BY <1>7 DEF Reap, Release, Live, TypeOK
<1> QED
  BY <1>1, <1>2, <1>3, <1>4, <1>5, <1>6, <1>7 DEF Effects

\* Root stays at home.
LEMMA OrphanStep ==
  ASSUME TypeOK, Families, Orphans, [Next]_vars, ~pipeForkFailed'
  PROVE  Orphans'
<1> SUFFICES ASSUME NEW q \in PID, Live(q)', parent'[q] = NoPid
             PROVE  /\ base'[q] = "main"
                    /\ status'[q] \notin {"exec", "redirect", "program"}
                    /\ status'[q] = "eval" => ctl'[q].needfork
  BY DEF Orphans
<1> DEFINE Home == /\ status'[q] \notin {"exec", "redirect", "program"}
                   /\ status'[q] = "eval" => ctl'[q].needfork
<1>1. Live(q) /\ parent[q] = NoPid /\ base'[q] = base[q]
  BY ParentKept
<1>2. /\ base[q] = "main" /\ status[q] \notin {"exec", "redirect", "program"}
      /\ status[q] = "eval" => ctl[q].needfork
  BY <1>1 DEF Orphans
<1>3. CASE status'[q] = status[q] /\ ctl'[q] = ctl[q]
  BY <1>1, <1>2, <1>3
<1>4. CASE UNCHANGED vars \/ Done
  BY <1>3, <1>4 DEF Done, vars
<1>5. ASSUME NEW p \in PID, User(p) \/ ProgramExit(p) PROVE Home
  <2>1. CASE Submit(p)
    <3>1. \A n \in Lines : Call(n, TRUE, <<>>).needfork
      BY DEF Call
    <3> QED
      BY <1>2, <2>1, <3>1 DEF Submit, TypeOK
  <2>2. CASE Die(p)
    BY <1>2, <2>2 DEF Die, Live, TypeOK
  <2> QED
    BY <1>5, <2>1, <2>2 DEF User, Quit, ProgramExit
<1>6. ASSUME NEW p \in PID, Local(p) PROVE Home
  <2>1. CASE Die(p)
    BY <1>2, <2>1 DEF Die, Live, TypeOK
  <2>2. ASSUME NEW st \in {"return", "prompt"}, NEW c, Step(p, st, c) PROVE Home
    BY <1>2, <2>2 DEF Step, TypeOK
  <2>3. ASSUME NEW n, NEW f, Step(p, "eval", Call(n, TRUE, f)) PROVE Home
    BY <1>2, <2>3 DEF Step, Call, TypeOK
  <2>4. ASSUME NEW st, NEW c, Step(p, st, c), p # q PROVE Home
    BY <1>2, <2>4 DEF Step, TypeOK
  <2>5. CASE EvalExecInPlace(p) \/ EvalRedirInPlace(p) \/ Exec(p) \/ Redirect(p)
    <3>1. p # q
      BY <1>2, <2>5
      DEF EvalExecInPlace, EvalRedirInPlace, Exec, Redirect, Runs, Evaluates
    <3> QED
      BY <2>4, <2>5, <3>1 DEF EvalExecInPlace, EvalRedirInPlace, Exec, Redirect, Eval
  <2>6. CASE PipeRightForkFails(p)
    BY <2>6 DEF PipeRightForkFails
  <2>7. CASE ReapLeft(p) \/ ReapRight(p)
    BY <1>2, <2>7 DEF ReapLeft, ReapRight, Release, Live, TypeOK
  <2>8. CASE EvalSemi(p) \/ ReturnSemiLeft(p)
    BY <2>3, <2>8 DEF EvalSemi, ReturnSemiLeft, Eval
  <2> QED
    BY <1>6, <2>1, <2>2, <2>5, <2>6, <2>7, <2>8
    DEF Local, EvalNull, EvalBuiltin, EvalExit, EvalFault, EvalNotFound, ExecFails,
        EvalForkFails, RedirectFailsForked, RedirectFailsInPlace, ReturnToMain,
        ReturnToPipeChild, ReturnSemiRight, ReturnRedir, ReturnRedirFork, Return
<1>7. ASSUME NEW p \in PID, NEW c \in PID, Forks(p, c) PROVE Home
  <2>1. /\ status[c] = "free" /\ status'[p] \in {"wait", "fork2", "waitpid"}
        /\ \A r \in PID \ {p, c} : status'[r] = status[r]
        /\ \A r \in PID \ {c} : ctl'[r] = ctl[r]
    BY <1>7 DEF Forks, EvalForkExec, EvalRedirFork, EvalPipe, EvalPipeRight, Runs,
                Evaluates, Fork, TypeOK
  <2>2. q # c
    BY <1>1, <2>1 DEF Live
  <2> QED
    BY <1>2, <2>1, <2>2
<1>8. ASSUME NEW p \in PID, NEW c \in PID, Reap(p, c) PROVE Home
  BY <1>2, <1>8 DEF Reap, Release, TypeOK
<1> QED
  BY <1>1, <1>2, <1>4, <1>5, <1>6, <1>7, <1>8 DEF Next, Shells

\* Depths stay as they should be.
LEMMA DepthStep ==
  ASSUME TypeOK, Families, Depths, [Next]_vars, ~pipeForkFailed'
  PROVE  Depths'
<1> USE PidAssumption
<1>1. Effects /\ \A p \in PID : ~PipeRightForkFails(p)
  BY StepEffects, ForkFailedStep
<1> SUFFICES ASSUME NEW q \in PID, NEW r \in PID, Live(q)', parent'[q] = r
             PROVE  depth'[q] = depth'[r] + 1
  BY DEF Depths
<1>2. CASE UNCHANGED <<status, base, parent, pid0, pid1, depth, pipeForkFailed>>
  BY <1>2 DEF Depths, Live
<1>3. ASSUME NEW p \in PID, Moves(p) PROVE depth'[q] = depth'[r] + 1
  BY <1>3 DEF Moves, Running, Depths, Live, TypeOK
<1>4. ASSUME NEW p \in PID, Dies(p) PROVE depth'[q] = depth'[r] + 1
  <2>1. \A d \in PID : parent[d] # p
    BY <1>4 DEF Dies, Running, Families, Family, Blocked
  <2>2. parent'[q] = parent[q] /\ q # p /\ r # p
    BY <1>4, <2>1 DEF Dies, Die, Live, TypeOK
  <2>3. Live(q) /\ depth'[q] = depth[q] /\ depth'[r] = depth[r]
    BY <1>4, <2>1, <2>2 DEF Dies, Die, Live, TypeOK
  <2> QED
    BY <2>2, <2>3 DEF Depths
<1>5. ASSUME NEW p \in PID, ReapLeft(p) \/ ReapRight(p)
      PROVE  depth'[q] = depth'[r] + 1
  <2>1. PICK c : /\ status[c] = "zombie"
                 /\ \/ status' = [status EXCEPT ![p] = "waitpid", ![c] = "free"]
                    \/ status' = [status EXCEPT ![p] = "return", ![c] = "free"]
                 /\ parent' = [parent EXCEPT ![c] = NoPid]
    BY <1>5 DEF ReapLeft, ReapRight, Release
  <2>2. status[p] = "waitpid" /\ depth' = depth
    BY <1>5 DEF ReapLeft, ReapRight, Release
  <2>3. q # c
    BY <2>1 DEF TypeOK
  <2>4. Live(q) /\ parent[q] = r
    BY <2>1, <2>2, <2>3 DEF Live, TypeOK
  <2> QED
    BY <2>2, <2>4 DEF Depths
<1>6. ASSUME NEW p \in PID, NEW c \in PID,
             ForksAndWaits(p, c) \/ EvalPipe(p, c) \/ EvalPipeRight(p, c)
      PROVE  depth'[q] = depth'[r] + 1
  <2>1. /\ parent' = [parent EXCEPT ![c] = p] /\ status[c] = "free"
        /\ depth' = [depth EXCEPT ![c] = depth[p] + 1]
        /\ status[p] \in {"eval", "fork2"}
        /\ \A d \in PID \ {p, c} : status'[d] = status[d]
    BY <1>6 DEF ForksAndWaits, EvalPipe, EvalPipeRight, Evaluates, Fork, TypeOK
  <2>2. p # c /\ \A d \in PID : parent[d] # c
    BY <2>1 DEF Families, Family, Blocked
  <2>3. CASE q = c
    BY <2>1, <2>2, <2>3 DEF TypeOK
  <2>4. CASE q # c
    <3>1. Live(q) /\ parent[q] = r /\ r # c
      BY <2>1, <2>2, <2>4 DEF Live, TypeOK
    <3> QED
      BY <2>1, <2>4, <3>1 DEF Depths, TypeOK
  <2> QED
    BY <2>3, <2>4
<1>7. ASSUME NEW p \in PID, NEW c \in PID, Reap(p, c)
      PROVE  depth'[q] = depth'[r] + 1
  BY <1>7 DEF Reap, Release, Depths, Live, TypeOK
<1> QED
  BY <1>1, <1>2, <1>3, <1>4, <1>5, <1>6, <1>7 DEF Effects

\* A pipe's child never comes to a prompt.
LEMMA PromptStep ==
  ASSUME TypeOK, Prompters, [Next]_vars
  PROVE  Prompters'
<1> SUFFICES ASSUME NEW q \in PID, status'[q] = "prompt"
             PROVE  base'[q] = "main"
  BY DEF Prompters
<1>1. CASE status'[q] = status[q] /\ base'[q] = base[q]
  BY <1>1 DEF Prompters
<1>2. CASE UNCHANGED vars \/ Done
  BY <1>1, <1>2 DEF Done, vars
<1>3. ASSUME NEW p \in PID, Die(p) PROVE base'[q] = "main"
  BY <1>1, <1>3 DEF Die, TypeOK
<1>4. ASSUME NEW p \in PID, Submit(p) PROVE base'[q] = "main"
  BY <1>1, <1>4 DEF Submit, TypeOK
<1>5. ASSUME NEW p \in PID, Local(p) PROVE base'[q] = "main"
  <2>1. CASE ReturnToMain(p)
    BY <1>1, <2>1 DEF ReturnToMain, Step, TypeOK
  <2>2. ASSUME NEW st \in Statuses \ {"prompt"}, NEW c, Step(p, st, c)
        PROVE  base'[q] = "main"
    BY <1>1, <2>2 DEF Step, TypeOK
  <2>3. CASE PipeRightForkFails(p) \/ ReapLeft(p) \/ ReapRight(p)
    BY <1>1, <2>3 DEF PipeRightForkFails, ReapLeft, ReapRight, Release, TypeOK
  <2> QED
    BY <1>3, <1>5, <2>1, <2>2, <2>3
    DEF Local, EvalNull, EvalSemi, EvalBuiltin, EvalExit, EvalFault, EvalNotFound,
        EvalExecInPlace, Exec, ExecFails, EvalForkFails, EvalRedirInPlace, Redirect,
        RedirectFailsForked, RedirectFailsInPlace, ReturnToPipeChild, ReturnSemiLeft,
        ReturnSemiRight, ReturnRedir, ReturnRedirFork, Return, Eval, Statuses
<1>6. ASSUME NEW p \in PID, NEW c \in PID, Forks(p, c) PROVE base'[q] = "main"
  <2>1. /\ status'[p] # "prompt" /\ status'[c] # "prompt"
        /\ \A d \in PID \ {p, c} : status'[d] = status[d] /\ base'[d] = base[d]
    BY <1>6 DEF Forks, EvalForkExec, EvalRedirFork, EvalPipe, EvalPipeRight, Fork, TypeOK
  <2> QED
    BY <1>1, <2>1
<1>7. ASSUME NEW p \in PID, NEW c \in PID, Reap(p, c) PROVE base'[q] = "main"
  BY <1>1, <1>7 DEF Reap, Release, TypeOK
<1> QED
  BY <1>2, <1>3, <1>4, <1>5, <1>6, <1>7 DEF Next, Shells, User, Quit, ProgramExit

\* Where everybody comes from.
HomeInv == Prompters /\ (~pipeForkFailed => Orphans /\ Depths)

\* Everybody comes from somewhere, always.
LEMMA HomeInvariant == Spec => []HomeInv
<1>1. Init => HomeInv
  BY PidAssumption DEF Init, HomeInv, Prompters, Orphans, Depths, Live
<1>2. TypeInv /\ ExclusiveInv /\ HomeInv /\ [Next]_vars => HomeInv'
  <2> SUFFICES ASSUME TypeInv, ExclusiveInv, HomeInv, [Next]_vars PROVE HomeInv'
    OBVIOUS
  <2>1. TypeOK
    BY DEF TypeInv
  <2>2. Prompters'
    BY <2>1, PromptStep DEF HomeInv
  <2>3. ASSUME ~pipeForkFailed' PROVE Orphans' /\ Depths'
    <3>1. ~pipeForkFailed
      BY <2>1, <2>3, ForkFailedStep
    <3> QED
      BY <2>1, <2>3, <3>1, OrphanStep, DepthStep DEF HomeInv, ExclusiveInv
  <2> QED
    BY <2>2, <2>3 DEF HomeInv
<1> QED
  BY <1>1, <1>2, ExclusiveInvariant, PTL DEF Spec

\* A shell in wait(0) around another one has no other child than a shell.
LEMMA ChildOfOuter ==
  ASSUME TypeOK, Families, Chain, NEW p \in PID, NEW q \in PID, NEW r \in PID,
         Shell(p), Shell(r), depth[r] < depth[p], parent[q] = r
  PROVE  Shell(q)
<1>1. depth[p] \in Nat /\ depth[r] \in Nat
  BY DEF TypeOK
<1>2. status[r] = "wait"
  BY DEF Chain, OuterWaits
<1>3. PICK s \in PID : Shell(s) /\ depth[s] = depth[r] + 1
  <2>1. depth[r] + 1 \in 0 .. depth[p]
    BY <1>1
  <2> QED
    BY <2>1 DEF Chain, NoGap
<1>4. PICK t \in PID : parent[s] = t /\ Shell(t) /\ depth[t] = depth[s] - 1
  BY <1>1, <1>3 DEF Chain, ParentAbove
<1>5. t = r
  BY <1>1, <1>3, <1>4 DEF Chain, DepthUnique
<1>6. q = s
  BY <1>2, <1>4, <1>5 DEF Families, Family
<1> QED
  BY <1>3, <1>6

\* Under a prompt everybody is a shell: of the others the least deep would have a
\* parent that waits for it, a shell that cannot be around the one that prompts.
LEMMA ShellsOnly ==
  ASSUME TypeOK, WaitInv, Families, Chain, Orphans, Depths, Prompters,
         NEW p \in PID, status[p] = "prompt"
  PROVE  \A q \in PID : Live(q) => Shell(q)
<1> USE PidAssumption
<1> DEFINE Others == {q \in PID : Live(q) /\ ~Shell(q)}
           Levels == {depth[q] : q \in Others}
<1> SUFFICES ASSUME Others # {} PROVE FALSE
  OBVIOUS
<1>1. \A q \in PID : depth[q] \in Nat
  BY DEF TypeOK
<1>2. PICK q \in Others : \A r \in Others : ~(depth[r] < depth[q])
  <2>1. Levels \subseteq Nat /\ Levels # {}
    BY <1>1
  <2>2. PICK x \in Levels : \A y \in Levels : ~(<<y, x>> \in OpToRel(<, Nat))
    BY <2>1, NatLessThanWellFounded, WFMin
  <2>3. \A y \in Levels : ~(y < x)
    BY <2>1, <2>2 DEF OpToRel
  <2> QED
    BY <2>2, <2>3
<1>3. Active(p) /\ Shell(p)
  BY DEF Prompters, Active, Shell, Live
<1>4. parent[q] # NoPid
  BY <1>2 DEF Orphans, Shell
<1>5. PICK r \in PID : parent[q] = r
  BY <1>2, <1>4 DEF TypeOK
<1>6. status[r] \in Blocked
  BY <1>2, <1>5 DEF Families, Family
<1>7. Live(r) /\ r # p /\ depth[q] = depth[r] + 1
  BY <1>2, <1>5, <1>6 DEF Live, Blocked, Depths
<1>8. Shell(r)
  BY <1>1, <1>2, <1>7
<1>9. depth[r] < depth[p]
  BY <1>3, <1>7, <1>8, ActiveInnermost
<1>10. Shell(q)
  BY <1>2, <1>3, <1>5, <1>8, <1>9, ChildOfOuter
<1> QED
  BY <1>2, <1>10

\* When a shell prompts, everything that it and the shells around it have started is
\* over, whatever has failed on the way but the second fork of a pipeline.
THEOREM PromptsAlone == Spec => []PromptAlone
<1>1. TypeInv /\ WaitInv /\ ExclusiveInv /\ HomeInv => PromptAlone
  <2> SUFFICES ASSUME TypeOK, WaitInv, Families, Chain, Orphans, Depths, Prompters,
                      NEW p \in PID, NEW q \in PID,
                      status[p] = "prompt", Live(q), q # p
               PROVE  Shell(q) /\ status[q] = "wait" /\ depth[q] < depth[p]
    BY DEF TypeInv, ExclusiveInv, HomeInv, PromptAlone
  <2>1. Active(p) /\ Shell(p)
    BY DEF Prompters, Active, Shell, Live
  <2>2. Shell(q)
    BY ShellsOnly
  <2>3. depth[q] < depth[p]
    BY <2>1, <2>2, ActiveInnermost
  <2> QED
    BY <2>1, <2>2, <2>3 DEF Chain, OuterWaits
<1> QED
  BY <1>1, TypeInvariant, ExclusiveInvariant, HomeInvariant, PTL

-----------------------------------------------------------------------------
(* Every step is one of ShellExec                                          *)

\* Every step of the tables is one of the processes.
LEMMA StepsFollow == ASSUME [DNext]_dvars PROVE [Next]_vars
<1>1. CASE UNCHANGED dvars
  BY <1>1 DEF dvars
<1>2. CASE Done
  BY <1>2 DEF Next
<1>3. ASSUME NEW p \in PID,
             BackToPrompt(p) \/ SubmitLine(p) \/ QuitShell(p) \/ Replace(p)
             \/ ReplaceFails(p) \/ LeaveRedirection(p) \/ GiveUpPipe(p)
             \/ BecomeProgram(p) \/ Ends(p) \/ Other(p)
      PROVE  Next
  BY <1>3
  DEF Next, User, Shells, Local, BackToPrompt, SubmitLine, QuitShell, Replace,
      ReplaceFails, LeaveRedirection, GiveUpPipe, BecomeProgram, Ends, Other
<1>4. ASSUME NEW p \in PID, NEW c \in PID,
             ForkLeftSide(p, c) \/ ForkRightSide(p, c) \/ ForkCopies(p, c)
      PROVE  Next
  BY <1>4 DEF Next, Shells, Forks, ForkLeftSide, ForkRightSide, ForkCopies
<1> QED
  BY <1>1, <1>2, <1>3, <1>4 DEF DNext

LEMMA TablesFollow == DSpec => Spec
<1>1. DInit => Init
  BY DEF DInit
<1>2. [DNext]_dvars => [Next]_vars
  BY StepsFollow
<1> QED
  BY <1>1, <1>2, PTL DEF DSpec, Spec

-----------------------------------------------------------------------------
(* Tables                                                                  *)

Table == [FD -> File]

LEMMA LeastOf ==
  ASSUME NEW n \in Nat, NEW S, S \subseteq 0 .. n, S # {}
  PROVE  Min(S) \in S /\ \A y \in S : Min(S) =< y
<1>1. S \subseteq Nat
  OBVIOUS
<1>2. \E x \in S : \A y \in S : ~(<<y, x>> \in OpToRel(<, Nat))
  BY <1>1, WFMin, NatLessThanWellFounded
<1>3. OpToRel(<, Nat) = {ss \in Nat \X Nat : ss[1] < ss[2]}
  BY Zenon DEF OpToRel
<1>4. PICK x \in S : \A y \in S : <<y, x>> \notin {ss \in Nat \X Nat : ss[1] < ss[2]}
  BY <1>2, <1>3
<1>5. \A y \in S : x =< y
  <2>1. ASSUME NEW y \in S, y < x PROVE FALSE
    <3> DEFINE pair == <<y, x>>
    <3>1. pair \in Nat \X Nat /\ pair[1] < pair[2]
      BY <1>1, <2>1
    <3> QED
      BY <1>4, <3>1
  <2> QED
    BY <1>1, <2>1
<1> QED
  BY <1>5 DEF Min

\* The kernel gives out a free descriptor, above those that are always open.
LEMMA LowestFree ==
  ASSUME NEW t, Free(t) # {}
  PROVE  /\ Lowest(t) \in FD /\ t[Lowest(t)] = Closed
         /\ (\A f \in 0 .. 5 : t[f] # Closed) => Lowest(t) \in 6 .. MaxFd
<1>1. MaxFd \in Nat /\ Free(t) \subseteq 0 .. MaxFd
  BY DescriptorAssumption DEF Free, FD
<1>2. Lowest(t) \in Free(t)
  BY <1>1, LeastOf DEF Lowest
<1> QED
  BY <1>1, <1>2 DEF Free, FD

\* What is in no pipe, and open.
Solid(d) == d # Closed /\ d[1] \notin {"r", "w"}

LEMMA Files ==
  /\ Closed \in File /\ Tty \in File /\ Null \in File /\ Closed[1] \notin {"r", "w"}
  /\ Solid(Tty) /\ Solid(Null)
  /\ \A p \in PID : \A e \in {"r", "w"} :
       End(p, e) \in File /\ End(p, e)[1] = e /\ End(p, e)[2] = p /\ End(p, e) # Closed
  /\ \A n \in DOMAIN redir : \A k \in {"file", "here"} :
       <<k, n>> \in File /\ Solid(<<k, n>>)
BY DEF Closed, Tty, Null, End, File, Solid

LEMMA Numbers == 0 .. 5 \subseteq FD /\ 6 .. MaxFd \subseteq FD /\ -1 \notin FD
BY DescriptorAssumption DEF FD

LEMMA OpenedTable ==
  ASSUME NEW t \in Table, NEW d \in File
  PROVE  /\ Opened(t, d) \in Table
         /\ \A f \in FD : t[f] # Closed => Opened(t, d)[f] = t[f]
         /\ \A f \in FD : Opened(t, d)[f] \in {t[f], d}
         /\ Free(t) # {} => Opened(t, d)[Lowest(t)] = d
BY LowestFree DEF Opened, Table

LEMMA CloseTable ==
  ASSUME NEW t \in Table, NEW f
  PROVE  /\ Close(t, f) \in Table
         /\ \A g \in FD : g # f => Close(t, f)[g] = t[g]
         /\ \A g \in FD : Close(t, f)[g] \in {t[g], Closed}
BY Files DEF Close, Table

LEMMA Dup2Table ==
  ASSUME NEW t \in Table, NEW from, NEW to \in FD
  PROVE  /\ Dup2(t, from, to) \in Table
         /\ \A g \in FD : g # to => Dup2(t, from, to)[g] = t[g]
         /\ from \in FD /\ t[from] # Closed => Dup2(t, from, to)[to] = t[from]
         /\ ~(from \in FD /\ t[from] # Closed) => Dup2(t, from, to)[to] = t[to]
BY DEF Dup2, Table, Free

LEMMA RestoredTable ==
  ASSUME NEW t \in Table
  PROVE  /\ Restored(t) \in Table
         /\ \A f \in FD \ 0 .. 2 : Restored(t)[f] = t[f]
         /\ \A f \in 3 .. 5 : t[f] # Closed => Restored(t)[f - 3] = t[f]
<1>1. /\ 0 \in FD /\ 1 \in FD /\ 2 \in FD /\ 3 \in FD /\ 4 \in FD /\ 5 \in FD
  BY Numbers
<1> DEFINE a == Dup2(t, 3, 0)
           b == Dup2(a, 4, 1)
<1>2. /\ a \in Table /\ \A g \in FD : g # 0 => a[g] = t[g]
      /\ t[3] # Closed => a[0] = t[3]
  BY <1>1, Dup2Table
<1> HIDE DEF a
<1>3. /\ b \in Table /\ \A g \in FD : g # 1 => b[g] = a[g]
      /\ a[4] # Closed => b[1] = a[4]
  BY <1>1, <1>2, Dup2Table
<1> HIDE DEF b
<1>4. /\ Dup2(b, 5, 2) \in Table /\ \A g \in FD : g # 2 => Dup2(b, 5, 2)[g] = b[g]
      /\ b[5] # Closed => Dup2(b, 5, 2)[2] = b[5]
  BY <1>1, <1>3, Dup2Table
<1>5. Restored(t) = Dup2(b, 5, 2)
  BY DEF Restored, a, b
<1>6. ASSUME NEW f \in 3 .. 5, t[f] # Closed PROVE Restored(t)[f - 3] = t[f]
  <2>1. f = 3 \/ f = 4 \/ f = 5
    OBVIOUS
  <2>2. /\ a[0] = b[0] /\ b[0] = Restored(t)[0] /\ b[1] = Restored(t)[1]
        /\ a[4] = t[4] /\ b[5] = t[5]
    BY <1>1, <1>2, <1>3, <1>4, <1>5
  <2> QED
    BY <1>2, <1>3, <1>4, <1>5, <1>6, <2>1, <2>2
<1> QED
  BY <1>2, <1>3, <1>4, <1>5, <1>6

-----------------------------------------------------------------------------
(* What a redirection does to a table                                      *)

LEMMA WithFileTable ==
  ASSUME DTypeOK, NEW p \in PID, ctl[p].node \in DOMAIN redir
  PROVE  /\ WithFile(p) \in Table
         /\ \A f \in FD : fds[p][f] # Closed => WithFile(p)[f] = fds[p][f]
         /\ \A f \in FD : WithFile(p)[f] = fds[p][f] \/ Solid(WithFile(p)[f])
<1>1. fds[p] \in Table
  BY DEF DTypeOK, Table
<1>2. <<"file", ctl[p].node>> \in File /\ Solid(<<"file", ctl[p].node>>)
  BY Files
<1> QED
  BY <1>1, <1>2, OpenedTable DEF WithFile

LEMMA OldFdIs ==
  ASSUME DTypeOK, NEW p \in PID, ctl[p].node \in DOMAIN redir,
         redir[ctl[p].node].fd \in FD
  PROVE  LET fd == redir[ctl[p].node].fd IN
         /\ OldFd(p) \in FD \cup {-1}
         /\ WithOld(p) \in Table
         /\ OldFd(p) # -1 =>
              /\ WithFile(p)[OldFd(p)] = Closed /\ WithOld(p)[OldFd(p)] = WithFile(p)[fd]
              /\ WithFile(p)[fd] # Closed
              /\ (\A f \in 0 .. 5 : WithFile(p)[f] # Closed) => OldFd(p) \in 6 .. MaxFd
         /\ \A f \in FD : WithFile(p)[f] # Closed => WithOld(p)[f] = WithFile(p)[f]
         /\ \A f \in FD : WithOld(p)[f] \in {WithFile(p)[f], WithFile(p)[fd]}
<1> DEFINE w == WithFile(p)
           fd == redir[ctl[p].node].fd
<1>1. w \in Table
  BY WithFileTable
<1>2. w[fd] \in File
  BY <1>1 DEF Table
<1> HIDE DEF w
<1>3. OldFd(p) = IF Free(w) = {} \/ w[fd] = Closed THEN -1 ELSE Lowest(w)
  BY DEF OldFd, w
<1>4. WithOld(p) = IF OldFd(p) = -1 THEN w ELSE Opened(w, w[fd])
  BY DEF WithOld, w
<1>5. CASE Free(w) = {} \/ w[fd] = Closed
  BY <1>1, <1>3, <1>4, <1>5 DEF w
<1>6. CASE ~(Free(w) = {} \/ w[fd] = Closed)
  <2>1. OldFd(p) = Lowest(w) /\ OldFd(p) # -1
    BY <1>3, <1>6, LowestFree, Numbers
  <2>2. WithOld(p) = Opened(w, w[fd])
    BY <1>4, <2>1
  <2> QED
    BY <1>1, <1>2, <1>6, <2>1, <2>2, LowestFree, OpenedTable DEF w
<1> QED
  BY <1>5, <1>6

\* The rest of the table stays, and no descriptor is closed.
LEMMA RedirectedTable ==
  ASSUME DTypeOK, NEW p \in PID, ctl[p].node \in DOMAIN redir,
         redir[ctl[p].node].opens => Free(fds[p]) # {}
  PROVE  LET fd == redir[ctl[p].node].fd IN
         /\ Redirected(p) \in Table
         /\ \A f \in FD \ {fd} : WithOld(p)[f] # Closed => Redirected(p)[f] = WithOld(p)[f]
         /\ \A f \in FD \ {fd} : Redirected(p)[f] \in {WithOld(p)[f], Closed}
         /\ \/ Redirected(p)[fd] \in {Null, <<"here", ctl[p].node>>}
            \/ \E f \in FD : Redirected(p)[fd] = WithOld(p)[f]
         /\ WithOld(p)[fd] # Closed => Redirected(p)[fd] # Closed
<1> DEFINE n == ctl[p].node
           r == redir[n]
           o == WithOld(p)
<1>1. r \in Redirection /\ n \in DOMAIN redir
  BY DescriptorAssumption
<1>2. r.fd \in 0 .. 5 /\ r.target \in 0 .. 5 /\ r.opens \in BOOLEAN
      /\ r.onto \in {"file", "copy", "null", "here"}
  BY <1>1 DEF Redirection
<1>3. r.fd \in FD /\ r.target \in FD
  BY <1>2, Numbers
<1>4. o \in Table
  BY <1>3, OldFdIs
<1>5. RightFd(p) \in FD
  BY <1>2, <1>3, LowestFree DEF RightFd
<1> HIDE DEF o
<1>6. Redirected(p) = CASE r.onto \in {"file", "copy"} -> Dup2(o, RightFd(p), r.fd)
                        [] r.onto = "null" -> WithNull(o, r.fd)
                        [] r.onto = "here" -> [o EXCEPT ![r.fd] = <<"here", n>>]
  BY DEF Redirected, o
<1>7. CASE r.onto \in {"file", "copy"}
  <2>1. Redirected(p) = Dup2(o, RightFd(p), r.fd)
    BY <1>6, <1>7
  <2> QED
    BY <1>3, <1>4, <1>5, <2>1, Dup2Table DEF o
<1>8. CASE r.onto = "null"
  <2>1. Redirected(p) = WithNull(o, r.fd)
    BY <1>6, <1>8
  <2>2. CASE Free(o) = {}
    BY <1>3, <1>4, <2>1, <2>2 DEF WithNull, o
  <2>3. CASE Free(o) # {}
    <3> DEFINE l == Lowest(o)
               a == Opened(o, Null)
               b == Dup2(a, l, r.fd)
    <3>1. l \in FD /\ o[l] = Closed
      BY <2>3, LowestFree
    <3>2. a \in Table /\ a[l] = Null /\ \A f \in FD : f # l => a[f] = o[f]
      BY <1>4, <2>3, Files, OpenedTable, LowestFree DEF Opened, Table
    <3> HIDE DEF l, a
    <3>3. b \in Table /\ b[r.fd] = Null /\ \A f \in FD : f # r.fd => b[f] = a[f]
      BY <1>3, <3>1, <3>2, Dup2Table, Files DEF Solid
    <3>4. Redirected(p) = Close(b, l)
      BY <2>1, <2>3 DEF WithNull, l, a
    <3> HIDE DEF b
    <3>5. /\ Redirected(p) \in Table /\ Redirected(p)[l] = Closed
          /\ \A f \in FD : f # l => Redirected(p)[f] = b[f]
      BY <3>1, <3>3, <3>4, CloseTable DEF Close, Table
    <3>6. CASE r.fd = l
      BY <1>3, <3>1, <3>2, <3>3, <3>5, <3>6 DEF o
    <3>7. CASE r.fd # l
      BY <1>3, <3>1, <3>2, <3>3, <3>5, <3>7, Files DEF o, Solid
    <3> QED
      BY <3>6, <3>7
  <2> QED
    BY <2>2, <2>3
<1>9. CASE r.onto = "here"
  <2>1. Redirected(p) = [o EXCEPT ![r.fd] = <<"here", n>>]
    BY <1>6, <1>9
  <2>2. <<"here", n>> \in File /\ <<"here", n>> # Closed
    BY <1>1, Files DEF Solid
  <2> QED
    BY <1>3, <1>4, <2>1, <2>2 DEF Table, o
<1> QED
  BY <1>2, <1>7, <1>8, <1>9

-----------------------------------------------------------------------------
(* The copies that a process keeps for the redirections it is in           *)

Entry == [fd : 0 .. 5, oldfd : {-1} \cup 6 .. MaxFd, lost : BOOLEAN]

\* The first replacement of its descriptor: those around are further down.
Outermost(o, i) == \A j \in i + 1 .. Len(o) : o[j].fd # o[i].fd

\* Unless it is lost, the terminal behind f is there, or its copy is.
Kept(f, t, o, l) ==
  /\ \A i \in 1 .. Len(o) :
       o[i].fd = f /\ Outermost(o, i) /\ o[i].oldfd # -1 /\ ~o[i].lost =>
         t[o[i].oldfd] = Tty
  /\ (\A i \in 1 .. Len(o) : o[i].fd # f) /\ f \notin l => t[f] = Tty

\* 0 to 5 are always open, each copy is, and in a descriptor of its own above them.
StackOk(t, o, l) ==
  /\ o \in Seq(Entry)
  /\ \A f \in 0 .. 5 : Solid(t[f])
  /\ \A i \in 1 .. Len(o) : o[i].oldfd # -1 => Solid(t[o[i].oldfd])
  /\ \A i, j \in 1 .. Len(o) : i # j /\ o[i].oldfd # -1 => o[i].oldfd # o[j].oldfd
  /\ \A f \in 3 .. 5 : Kept(f, t, o, l)

\* What changes nothing that is open and in no pipe changes nothing here.
LEMMA StackStays ==
  ASSUME NEW t, NEW u, NEW o, NEW l, StackOk(t, o, l),
         \A f \in FD : Solid(t[f]) => u[f] = t[f]
  PROVE  StackOk(u, o, l)
<1>1. \A i \in 1 .. Len(o) : o[i] \in Entry
  BY DEF StackOk
<1>2. \A i \in 1 .. Len(o) : o[i].oldfd # -1 => o[i].oldfd \in FD
  BY <1>1, Numbers DEF Entry
<1>3. /\ \A f \in 0 .. 5 : u[f] = t[f]
      /\ \A i \in 1 .. Len(o) : o[i].oldfd # -1 => u[o[i].oldfd] = t[o[i].oldfd]
  BY <1>2, Numbers DEF StackOk
<1>4. \A f \in 3 .. 5 : Kept(f, u, o, l)
  BY <1>3 DEF StackOk, Kept
<1> QED
  BY <1>3, <1>4 DEF StackOk

\* A descriptor is replaced, and copied first if there is room.
LEMMA StackPush ==
  ASSUME NEW t, NEW u, NEW o, NEW l, StackOk(t, o, l),
         NEW fd \in 0 .. 5, NEW old \in {-1} \cup 6 .. MaxFd,
         \A f \in FD \ {fd} : Solid(t[f]) => u[f] = t[f],
         Solid(u[fd]),
         old # -1 => u[old] = t[fd] /\ t[old] = Closed
  PROVE  StackOk(u, <<[fd |-> fd, oldfd |-> old, lost |-> fd \in l]>> \o o,
                 IF old = -1 THEN l \cup {fd} ELSE l)
<1> DEFINE e == [fd |-> fd, oldfd |-> old, lost |-> fd \in l]
           s == <<e>> \o o
           ll == IF old = -1 THEN l \cup {fd} ELSE l
<1>1. e \in Entry /\ e.fd = fd /\ e.oldfd = old /\ e.lost = (fd \in l)
  BY DEF Entry
<1>2. o \in Seq(Entry) /\ \A i \in 1 .. Len(o) : o[i] \in Entry
  BY DEF StackOk
<1> HIDE DEF e
<1>3. /\ s \in Seq(Entry) /\ Len(s) = Len(o) + 1 /\ Len(o) \in Nat
      /\ s[1] = e /\ \A i \in 2 .. Len(s) : s[i] = o[i - 1]
      /\ \A i \in 1 .. Len(o) : s[i + 1] = o[i]
  BY <1>1, <1>2
<1> HIDE DEF s
<1>4. \A i \in 1 .. Len(o) : o[i].oldfd # -1 =>
        o[i].oldfd \in FD \ 0 .. 5 /\ Solid(t[o[i].oldfd]) /\ o[i].oldfd # old
  BY <1>2, Numbers DEF Entry, StackOk, Solid
<1>5. \A i \in 1 .. Len(o) : o[i].oldfd # -1 => u[o[i].oldfd] = t[o[i].oldfd]
  BY <1>4
<1>6. \A f \in 0 .. 5 : Solid(u[f])
  BY Numbers DEF StackOk
<1>7. ASSUME NEW i \in 1 .. Len(s), s[i].oldfd # -1 PROVE Solid(u[s[i].oldfd])
  <2>1. CASE i = 1
    BY <1>1, <1>3, <1>7, <2>1 DEF StackOk
  <2>2. CASE i # 1
    <3>1. i - 1 \in 1 .. Len(o) /\ s[i] = o[i - 1]
      BY <1>3, <2>2
    <3> QED
      BY <1>4, <1>5, <1>7, <3>1
  <2> QED
    BY <2>1, <2>2
<1>8. ASSUME NEW i \in 1 .. Len(s), NEW j \in 1 .. Len(s), i # j, s[i].oldfd # -1
      PROVE  s[i].oldfd # s[j].oldfd
  <2>1. CASE i = 1
    <3>1. j - 1 \in 1 .. Len(o) /\ s[j] = o[j - 1] /\ s[i].oldfd = old
      BY <1>1, <1>3, <1>8, <2>1
    <3> QED
      BY <1>4, <1>8, <3>1
  <2>2. CASE j = 1
    <3>1. i - 1 \in 1 .. Len(o) /\ s[i] = o[i - 1] /\ s[j].oldfd = old
      BY <1>1, <1>3, <1>8, <2>2
    <3> QED
      BY <1>4, <1>8, <3>1
  <2>3. CASE i # 1 /\ j # 1
    <3>1. /\ i - 1 \in 1 .. Len(o) /\ s[i] = o[i - 1]
          /\ j - 1 \in 1 .. Len(o) /\ s[j] = o[j - 1] /\ i - 1 # j - 1
      BY <1>3, <1>8, <2>3
    <3> QED
      BY <1>8, <3>1 DEF StackOk
  <2> QED
    BY <2>1, <2>2, <2>3
<1>9. ASSUME NEW f \in 3 .. 5 PROVE Kept(f, u, s, ll)
  <2>1. Kept(f, t, o, l)
    BY DEF StackOk
  <2>2. ASSUME NEW i \in 1 .. Len(s), s[i].fd = f, Outermost(s, i), s[i].oldfd # -1,
               ~s[i].lost
        PROVE  u[s[i].oldfd] = Tty
    <3>1. CASE i = 1
      <4>1. \A j \in 1 .. Len(o) : o[j].fd # f
        <5> SUFFICES ASSUME NEW j \in 1 .. Len(o) PROVE o[j].fd # f
          OBVIOUS
        <5>1. j + 1 \in i + 1 .. Len(s) /\ s[j + 1] = o[j]
          BY <1>3, <3>1
        <5> QED
          BY <2>2, <5>1 DEF Outermost
      <4>2. f = fd /\ f \notin l /\ old # -1 /\ s[i].oldfd = old
        BY <1>1, <1>3, <2>2, <3>1
      <4> QED
        BY <2>1, <4>1, <4>2 DEF Kept
    <3>2. CASE i # 1
      <4>1. i - 1 \in 1 .. Len(o) /\ s[i] = o[i - 1]
        BY <1>3, <3>2
      <4>2. Outermost(o, i - 1)
        <5> SUFFICES ASSUME NEW j \in (i - 1) + 1 .. Len(o) PROVE o[j].fd # o[i - 1].fd
          BY DEF Outermost
        <5>1. j \in 1 .. Len(o) /\ j + 1 \in i + 1 .. Len(s) /\ s[j + 1] = o[j]
          BY <1>3, <3>2
        <5> QED
          BY <2>2, <4>1, <5>1 DEF Outermost
      <4>3. t[o[i - 1].oldfd] = Tty
        BY <2>1, <2>2, <4>1, <4>2 DEF Kept
      <4> QED
        BY <1>5, <2>2, <4>1, <4>3
    <3> QED
      BY <3>1, <3>2
  <2>3. ASSUME \A i \in 1 .. Len(s) : s[i].fd # f, f \notin ll PROVE u[f] = Tty
    <3>1. f # fd
      BY <1>1, <1>3, <2>3
    <3>2. \A i \in 1 .. Len(o) : o[i].fd # f
      <4> SUFFICES ASSUME NEW i \in 1 .. Len(o) PROVE o[i].fd # f
        OBVIOUS
      <4>1. i + 1 \in 1 .. Len(s) /\ s[i + 1] = o[i]
        BY <1>3
      <4> QED
        BY <2>3, <4>1
    <3>3. t[f] = Tty /\ f \in FD
      BY <2>1, <2>3, <3>2, Numbers DEF Kept
    <3> QED
      BY <3>1, <3>3, Files
  <2> QED
    BY <2>2, <2>3 DEF Kept
<1>10. StackOk(u, s, ll)
  BY <1>3, <1>6, <1>7, <1>8, <1>9 DEF StackOk
<1> QED
  BY <1>10 DEF s, e

\* A redirection is left, and the copy put back or not.
LEMMA StackPop ==
  ASSUME NEW t \in Table, NEW o, NEW l, StackOk(t, o, l), o # <<>>, NEW back \in BOOLEAN
  PROVE  LET e == Head(o) IN
         StackOk(IF back THEN Close(Dup2(t, e.oldfd, e.fd), e.oldfd) ELSE t, Tail(o),
                 IF back /\ e.oldfd # -1 /\ ~e.lost THEN l \ {e.fd} ELSE l \cup {e.fd})
<1> DEFINE e == Head(o)
           s == Tail(o)
           u == IF back THEN Close(Dup2(t, e.oldfd, e.fd), e.oldfd) ELSE t
           ll == IF back /\ e.oldfd # -1 /\ ~e.lost THEN l \ {e.fd} ELSE l \cup {e.fd}
<1>1. o \in Seq(Entry) /\ \A i \in 1 .. Len(o) : o[i] \in Entry
  BY DEF StackOk
<1>2. /\ s \in Seq(Entry) /\ Len(o) \in Nat /\ Len(o) > 0 /\ Len(s) = Len(o) - 1
      /\ e = o[1] /\ \A i \in 1 .. Len(s) : s[i] = o[i + 1]
  BY <1>1
<1>3. /\ e.fd \in 0 .. 5 /\ e.fd \in FD /\ e.lost \in BOOLEAN
      /\ e.oldfd \in {-1} \cup 6 .. MaxFd
      /\ e.oldfd # -1 => e.oldfd \in FD /\ Solid(t[e.oldfd])
  <2>1. 1 \in 1 .. Len(o) /\ e \in Entry
    BY <1>1, <1>2
  <2> QED
    BY <1>2, <2>1, Numbers DEF Entry, StackOk
<1> HIDE DEF e, s
<1>4. /\ \A f \in FD : f # e.fd /\ f # e.oldfd => u[f] = t[f]
      /\ u[e.fd] = IF back /\ e.oldfd # -1 THEN t[e.oldfd] ELSE t[e.fd]
  <2>1. CASE back /\ e.oldfd # -1
    <3> DEFINE d == Dup2(t, e.oldfd, e.fd)
    <3>1. d \in Table /\ d[e.fd] = t[e.oldfd] /\ \A f \in FD : f # e.fd => d[f] = t[f]
      BY <1>3, <2>1, Dup2Table DEF Solid
    <3> HIDE DEF d
    <3>2. \A f \in FD : f # e.oldfd => Close(d, e.oldfd)[f] = d[f]
      BY <3>1, CloseTable
    <3>3. e.fd # e.oldfd
      BY <1>3
    <3>4. u = Close(d, e.oldfd)
      BY <2>1 DEF d
    <3> HIDE DEF u
    <3> QED
      BY <1>3, <2>1, <3>1, <3>2, <3>3, <3>4
  <2>2. CASE ~back \/ e.oldfd = -1
    <3>1. u = t
      BY <1>3, <2>2, Numbers DEF Close, Dup2
    <3> QED
      BY <2>2, <3>1
  <2> QED
    BY <2>1, <2>2
<1> HIDE DEF u
<1>5. \A f \in 0 .. 5 : Solid(u[f])
  <2> SUFFICES ASSUME NEW f \in 0 .. 5 PROVE Solid(u[f])
    OBVIOUS
  <2>1. f \in FD /\ f # e.oldfd /\ Solid(t[f]) /\ Solid(t[e.fd])
    BY <1>3, Numbers DEF StackOk
  <2> QED
    BY <1>3, <1>4, <2>1
<1>6. ASSUME NEW i \in 1 .. Len(s), s[i].oldfd # -1
      PROVE  u[s[i].oldfd] = t[s[i].oldfd] /\ Solid(u[s[i].oldfd])
  <2>1. i + 1 \in 1 .. Len(o) /\ 1 \in 1 .. Len(o) /\ i + 1 # 1 /\ s[i] = o[i + 1]
    BY <1>2
  <2>2. s[i].oldfd # e.oldfd /\ Solid(t[s[i].oldfd])
    BY <1>2, <1>6, <2>1 DEF StackOk
  <2>3. s[i].oldfd \in FD /\ s[i].oldfd # e.fd
    BY <1>1, <1>3, <1>6, <2>1, Numbers DEF Entry
  <2> QED
    BY <1>4, <2>2, <2>3
<1>7. ASSUME NEW i \in 1 .. Len(s), NEW j \in 1 .. Len(s), i # j, s[i].oldfd # -1
      PROVE  s[i].oldfd # s[j].oldfd
  <2>1. /\ i + 1 \in 1 .. Len(o) /\ s[i] = o[i + 1]
        /\ j + 1 \in 1 .. Len(o) /\ s[j] = o[j + 1] /\ i + 1 # j + 1
    BY <1>2, <1>7
  <2> QED
    BY <1>7, <2>1 DEF StackOk
<1>8. ASSUME NEW f \in 3 .. 5 PROVE Kept(f, u, s, ll)
  <2>1. Kept(f, t, o, l)
    BY DEF StackOk
  <2>2. ASSUME NEW i \in 1 .. Len(s), s[i].fd = f, Outermost(s, i), s[i].oldfd # -1,
               ~s[i].lost
        PROVE  u[s[i].oldfd] = Tty
    <3>1. i + 1 \in 1 .. Len(o) /\ s[i] = o[i + 1]
      BY <1>2
    <3>2. Outermost(o, i + 1)
      <4> SUFFICES ASSUME NEW j \in (i + 1) + 1 .. Len(o) PROVE o[j].fd # o[i + 1].fd
        BY DEF Outermost
      <4>1. j - 1 \in i + 1 .. Len(s) /\ j - 1 \in 1 .. Len(s) /\ s[j - 1] = o[(j - 1) + 1]
            /\ (j - 1) + 1 = j
        BY <1>2
      <4> QED
        BY <2>2, <3>1, <4>1 DEF Outermost
    <3> QED
      BY <1>6, <2>1, <2>2, <3>1, <3>2 DEF Kept
  <2>3. ASSUME \A i \in 1 .. Len(s) : s[i].fd # f, f \notin ll PROVE u[f] = Tty
    <3>1. \A i \in 2 .. Len(o) : o[i].fd # f
      <4> SUFFICES ASSUME NEW i \in 2 .. Len(o) PROVE o[i].fd # f
        OBVIOUS
      <4>1. i - 1 \in 1 .. Len(s) /\ s[i - 1] = o[(i - 1) + 1] /\ (i - 1) + 1 = i
        BY <1>2
      <4> QED
        BY <2>3, <4>1
    <3>2. CASE e.fd = f
      <4>1. back /\ e.oldfd # -1 /\ ~e.lost
        BY <2>3, <3>2
      <4>2. 1 \in 1 .. Len(o) /\ Outermost(o, 1)
        BY <1>2, <3>1, <3>2 DEF Outermost
      <4>3. t[e.oldfd] = Tty
        BY <1>2, <2>1, <3>2, <4>1, <4>2 DEF Kept
      <4> QED
        BY <1>4, <3>2, <4>1, <4>3
    <3>3. CASE e.fd # f
      <4>1. \A i \in 1 .. Len(o) : o[i].fd # f
        BY <1>2, <3>1, <3>3
      <4>2. f \notin l /\ f \in FD /\ f # e.oldfd
        BY <1>3, <2>3, <3>3, Numbers
      <4> QED
        BY <1>4, <2>1, <3>3, <4>1, <4>2 DEF Kept
    <3> QED
      BY <3>2, <3>3
  <2> QED
    BY <2>2, <2>3 DEF Kept
<1>9. StackOk(u, s, ll)
  BY <1>2, <1>5, <1>6, <1>7, <1>8 DEF StackOk
<1> QED
  BY <1>9 DEF u, s, e

-----------------------------------------------------------------------------
(* How many redirections a process is in                                   *)

\* k of the callers f are redirections.
Deep(f, k) ==
  \E h \in [1 .. Len(f) + 1 -> Nat] :
    /\ h[Len(f) + 1] = 0 /\ h[1] = k
    /\ \A i \in 1 .. Len(f) : h[i] = h[i + 1] + (IF f[i].k \in Redirs THEN 1 ELSE 0)

LEMMA DeepEmpty == Deep(<<>>, 0) /\ \A k : Deep(<<>>, k) => k = 0
<1>1. Deep(<<>>, 0)
  <2> DEFINE h == [i \in 1 .. 1 |-> 0]
  <2>1. /\ h \in [1 .. Len(<<>>) + 1 -> Nat] /\ h[Len(<<>>) + 1] = 0 /\ h[1] = 0
        /\ \A i \in 1 .. Len(<<>>) : FALSE
    OBVIOUS
  <2> HIDE DEF h
  <2> QED
    BY <2>1 DEF Deep
<1>2. ASSUME NEW k, Deep(<<>>, k) PROVE k = 0
  BY <1>2 DEF Deep
<1> QED
  BY <1>1, <1>2

LEMMA DeepPush ==
  ASSUME NEW f \in Seq(Frame), NEW d \in Nat, Deep(f, d),
         NEW k \in {"semiLeft", "semiRight", "redir", "redirFork"}, NEW n \in Node
  PROVE  Deep(Push(k, n, f), IF k \in Redirs THEN d + 1 ELSE d)
<1> DEFINE g == Push(k, n, f)
           m == IF k \in Redirs THEN 1 ELSE 0
<1>1. PICK h \in [1 .. Len(f) + 1 -> Nat] :
        /\ h[Len(f) + 1] = 0 /\ h[1] = d
        /\ \A i \in 1 .. Len(f) : h[i] = h[i + 1] + (IF f[i].k \in Redirs THEN 1 ELSE 0)
  BY DEF Deep
<1>2. /\ Len(f) \in Nat /\ Len(g) = Len(f) + 1 /\ g[1].k = k
      /\ \A i \in 2 .. Len(g) : g[i] = f[i - 1]
  BY PushType DEF Push, Frame
<1> HIDE DEF g
<1> DEFINE e == [i \in 1 .. Len(g) + 1 |-> IF i = 1 THEN d + m ELSE h[i - 1]]
<1>3. /\ e \in [1 .. Len(g) + 1 -> Nat] /\ e[Len(g) + 1] = 0 /\ e[1] = d + m
  BY <1>1, <1>2
<1>4. ASSUME NEW i \in 1 .. Len(g)
      PROVE  e[i] = e[i + 1] + (IF g[i].k \in Redirs THEN 1 ELSE 0)
  <2>1. CASE i = 1
    BY <1>1, <1>2, <2>1
  <2>2. CASE i # 1
    <3>1. /\ i - 1 \in 1 .. Len(f) /\ g[i] = f[i - 1] /\ e[i] = h[i - 1]
          /\ e[i + 1] = h[(i - 1) + 1]
      BY <1>2, <2>2
    <3> QED
      BY <1>1, <3>1
  <2> QED
    BY <2>1, <2>2
<1>5. Deep(g, d + m)
  <2> HIDE DEF e
  <2> QED
    BY <1>3, <1>4 DEF Deep
<1> QED
  BY <1>5 DEF g

LEMMA DeepTail ==
  ASSUME NEW f \in Seq(Frame), f # <<>>, NEW d \in Nat, Deep(f, d)
  PROVE  IF Head(f).k \in Redirs THEN d > 0 /\ Deep(Tail(f), d - 1) ELSE Deep(Tail(f), d)
<1> DEFINE g == Tail(f)
           m == IF Head(f).k \in Redirs THEN 1 ELSE 0
<1>1. PICK h \in [1 .. Len(f) + 1 -> Nat] :
        /\ h[Len(f) + 1] = 0 /\ h[1] = d
        /\ \A i \in 1 .. Len(f) : h[i] = h[i + 1] + (IF f[i].k \in Redirs THEN 1 ELSE 0)
  BY DEF Deep
<1>2. /\ Len(f) \in Nat /\ Len(f) > 0 /\ Len(g) = Len(f) - 1 /\ Head(f) = f[1]
      /\ \A i \in 1 .. Len(g) : g[i] = f[i + 1]
  OBVIOUS
<1> HIDE DEF g
<1> DEFINE e == [i \in 1 .. Len(g) + 1 |-> h[i + 1]]
<1>3. e \in [1 .. Len(g) + 1 -> Nat] /\ e[Len(g) + 1] = 0 /\ e[1] = h[2]
  BY <1>1, <1>2
<1>4. ASSUME NEW i \in 1 .. Len(g)
      PROVE  e[i] = e[i + 1] + (IF g[i].k \in Redirs THEN 1 ELSE 0)
  <2>1. i + 1 \in 1 .. Len(f) /\ g[i] = f[i + 1] /\ e[i] = h[i + 1] /\ e[i + 1] = h[(i + 1) + 1]
    BY <1>2
  <2> QED
    BY <1>1, <2>1
<1>5. Deep(g, h[2])
  <2> HIDE DEF e
  <2> QED
    BY <1>3, <1>4 DEF Deep
<1>6. d = h[2] + m /\ h[2] \in Nat
  <2>1. 1 \in 1 .. Len(f) /\ 2 \in 1 .. Len(f) + 1 /\ 1 + 1 = 2
    BY <1>2
  <2> QED
    BY <1>1, <1>2, <2>1
<1> QED
  BY <1>5, <1>6 DEF g

-----------------------------------------------------------------------------
(* The invariant                                                           *)

\* A copy for each redirection; the child of a pipeline has those of its parent as well.
CountOk(q) ==
  \E k \in 0 .. Len(oldfds[q]) :
    Deep(ctl[q].frames, k) /\ (base[q] = "main" => k = Len(oldfds[q]))

\* A shell has in its table what it needs to come back to its prompt, and no end of
\* a pipe but those of its own pipeline, between the two forks.
Sane(q) ==
  /\ StackOk(fds[q], oldfds[q], lost[q])
  /\ \A f \in FD : fds[q][f][1] \in {"r", "w"} => status[q] = "fork2" /\ fds[q][f][2] = q
  /\ status[q] = "prompt" =>
       ctl[q].frames = <<>> /\ \A f \in 3 .. 5 : f \notin lost[q] => fds[q][f - 3] = Tty

\* None of the callers f is a redirection.
Unredirected(f) == \A i \in 1 .. Len(f) : f[i].k \notin Redirs

\* The first shell never redirects itself.
First(q) ==
  /\ status[q] \notin {"redirect", "exec", "program"}
  /\ status[q] = "eval" => ctl[q].needfork
  /\ oldfds[q] = <<>>
  /\ Unredirected(ctl[q].frames)
  /\ IF status[q] = "fork2" THEN Unpiped(fds[q], q) = AtPrompt ELSE fds[q] = AtPrompt

TableInv(q) ==
  /\ CountOk(q)
  /\ Shell(q) => Sane(q)
  /\ Live(q) /\ depth[q] = 0 => First(q)
  /\ ~Live(q) => fds[q] = NoFds

DescInv == DTypeOK /\ \A q \in PID : TableInv(q)

\* q has no part in the step, but that it may be forgotten when it is dead.
Rest(q) ==
  /\ status'[q] = status[q] \/ (status[q] = "zombie" /\ status'[q] = "free")
  /\ ctl'[q] = ctl[q] /\ base'[q] = base[q] /\ depth'[q] = depth[q]

LEMMA RestKeeps ==
  ASSUME NEW q \in PID, TableInv(q), Rest(q),
         fds'[q] = fds[q], oldfds'[q] = oldfds[q], lost'[q] = lost[q]
  PROVE  TableInv(q)'
<1>1. CountOk(q)'
  BY DEF TableInv, CountOk, Rest, Deep
<1>2. CASE status'[q] = status[q]
  <2>1. /\ Live(q)' = Live(q) /\ Shell(q)' = Shell(q)
    BY <1>2 DEF Live, Shell, Rest
  <2>2. Sane(q) => Sane(q)'
    BY <1>2 DEF Sane, StackOk, Kept, Outermost, Rest
  <2>3. First(q) => First(q)'
    BY <1>2 DEF First, Rest, Unpiped, Unredirected
  <2> QED
    BY <1>1, <2>1, <2>2, <2>3 DEF TableInv, Rest
<1>3. CASE status[q] = "zombie" /\ status'[q] = "free"
  <2>1. ~Live(q) /\ ~Live(q)' /\ ~Shell(q)'
    BY <1>3 DEF Live, Shell
  <2> QED
    BY <1>1, <2>1 DEF TableInv
<1> QED
  BY <1>2, <1>3 DEF Rest

LEMMA StepRest ==
  ASSUME TypeOK, NEW p \in PID, NEW st, NEW c, Step(p, st, c)
  PROVE  /\ \A q \in PID \ {p} : Rest(q)
         /\ status'[p] = st /\ ctl'[p] = c /\ base'[p] = base[p] /\ depth'[p] = depth[p]
BY DEF TypeOK, Step, Rest

LEMMA ForkRest ==
  ASSUME TypeOK, NEW p \in PID, NEW c \in PID, NEW pst, NEW cst, NEW cctl, NEW b,
         Fork(p, c, pst, cst, cctl, b), status[p] # "free"
  PROVE  /\ \A q \in PID \ {p, c} : Rest(q)
         /\ p # c
         /\ status'[p] = pst /\ ctl'[p] = ctl[p] /\ base'[p] = base[p] /\ depth'[p] = depth[p]
         /\ status'[c] = cst /\ ctl'[c] = cctl /\ base'[c] = b /\ depth'[c] > 0
BY DEF TypeOK, Fork, Rest

LEMMA DieRest ==
  ASSUME TypeOK, NEW p \in PID, Die(p)
  PROVE  /\ \A q \in PID \ {p} : Rest(q)
         /\ ~Live(p)' /\ ctl'[p] = Idle
BY DEF TypeOK, Die, Rest, Live

\* The dead have no descriptors.
LEMMA DieKeeps ==
  ASSUME TypeOK, DescInv, NEW p \in PID, Die(p), Closes(p), tty' \in {"raw", "cooked"}
  PROVE  DescInv'
<1>1. \A q \in PID \ {p} : Rest(q)
  BY DieRest
<1>2. ~Live(p)' /\ ctl'[p].frames = <<>>
  BY DieRest DEF Idle, Value
<1>3. /\ fds' = [fds EXCEPT ![p] = NoFds] /\ oldfds' = [oldfds EXCEPT ![p] = <<>>]
      /\ lost' = [lost EXCEPT ![p] = {}]
  BY DEF Closes
<1>4. NoFds \in Table
  BY Files DEF NoFds, Table
<1>5. DTypeOK'
  <2>1. fds' \in [PID -> [FD -> File]]
    BY <1>3, <1>4 DEF DescInv, DTypeOK, Table
  <2>2. oldfds' \in [PID -> Seq([fd : FD, oldfd : FD \cup {-1}, lost : BOOLEAN])]
    <3>1. <<>> \in Seq([fd : FD, oldfd : FD \cup {-1}, lost : BOOLEAN])
      OBVIOUS
    <3> QED
      BY <1>3, <3>1 DEF DescInv, DTypeOK
  <2> QED
    BY <1>3, <2>1, <2>2 DEF DescInv, DTypeOK
<1>6. TableInv(p)'
  <2>1. fds'[p] = NoFds /\ oldfds'[p] = <<>> /\ ~Shell(p)'
    BY <1>2, <1>3 DEF DescInv, DTypeOK, Shell
  <2>2. 0 \in 0 .. Len(oldfds'[p]) /\ 0 = Len(oldfds'[p])
    BY <2>1
  <2>3. CountOk(p)'
    <3>1. Deep(ctl'[p].frames, 0)
      BY <1>2, DeepEmpty
    <3> QED
      BY <2>2, <3>1 DEF CountOk, Deep
  <2> QED
    BY <1>2, <2>1, <2>3 DEF TableInv
<1>7. ASSUME NEW q \in PID, q # p PROVE TableInv(q)'
  BY <1>1, <1>3, <1>7, RestKeeps DEF DescInv, DTypeOK
<1> QED
  BY <1>5, <1>6, <1>7 DEF DescInv

\* A step of p alone.
LEMMA AloneKeeps ==
  ASSUME DescInv, NEW p \in PID, \A q \in PID \ {p} : Rest(q),
         NEW t \in Table, NEW o \in Seq([fd : FD, oldfd : FD \cup {-1}, lost : BOOLEAN]),
         NEW l \in SUBSET FD,
         fds' = [fds EXCEPT ![p] = t], oldfds' = [oldfds EXCEPT ![p] = o],
         lost' = [lost EXCEPT ![p] = l], tty' \in {"raw", "cooked"},
         TableInv(p)'
  PROVE  DescInv'
<1>1. DTypeOK'
  BY DEF DescInv, DTypeOK, Table
<1>2. ASSUME NEW q \in PID, q # p PROVE TableInv(q)'
  BY <1>2, RestKeeps DEF DescInv, DTypeOK
<1> QED
  BY <1>1, <1>2 DEF DescInv

\* The types of what a process has.
LEMMA TablesType ==
  ASSUME DTypeOK, NEW p \in PID
  PROVE  /\ fds[p] \in Table /\ fds = [fds EXCEPT ![p] = fds[p]]
         /\ oldfds[p] \in Seq([fd : FD, oldfd : FD \cup {-1}, lost : BOOLEAN])
         /\ oldfds = [oldfds EXCEPT ![p] = oldfds[p]]
         /\ Len(oldfds[p]) \in Nat
         /\ lost[p] \in SUBSET FD /\ lost = [lost EXCEPT ![p] = lost[p]]
<1>1. fds[p] \in Table /\ fds = [fds EXCEPT ![p] = fds[p]]
  BY DEF DTypeOK, Table
<1>2. oldfds = [oldfds EXCEPT ![p] = oldfds[p]] /\ lost = [lost EXCEPT ![p] = lost[p]]
  BY DEF DTypeOK
<1>3. /\ oldfds[p] \in Seq([fd : FD, oldfd : FD \cup {-1}, lost : BOOLEAN])
      /\ lost[p] \in SUBSET FD
  BY DEF DTypeOK
<1>4. Len(oldfds[p]) \in Nat
  BY <1>3
<1> QED
  BY <1>1, <1>2, <1>3, <1>4


-----------------------------------------------------------------------------
(* Steps that leave the table as it is, or but for the ends of a pipe      *)

LEMMA NoRedirs ==
  ASSUME NEW f \in Seq(Frame), NEW k \in {"semiLeft", "semiRight"}, NEW n \in Node
  PROVE  /\ \A d \in Nat : Deep(f, d) => Deep(Push(k, n, f), d)
         /\ Unredirected(f) => Unredirected(Push(k, n, f))
<1>1. \A d \in Nat : Deep(f, d) => Deep(Push(k, n, f), d)
  BY DeepPush DEF Redirs
<1>2. ASSUME Unredirected(f) PROVE Unredirected(Push(k, n, f))
  <2> DEFINE g == Push(k, n, f)
  <2>1. /\ Len(f) \in Nat /\ Len(g) = Len(f) + 1 /\ g[1].k = k
        /\ \A i \in 2 .. Len(g) : g[i] = f[i - 1]
    BY PushType DEF Push, Frame
  <2> HIDE DEF g
  <2>2. ASSUME NEW i \in 1 .. Len(g), i # 1 PROVE g[i].k \notin Redirs
    <3>1. i - 1 \in 1 .. Len(f) /\ g[i] = f[i - 1]
      BY <2>1, <2>2
    <3> QED
      BY <1>2, <3>1 DEF Unredirected
  <2>3. Unredirected(g)
    BY <2>1, <2>2 DEF Unredirected, Redirs
  <2> QED
    BY <2>3 DEF g
<1> QED
  BY <1>1, <1>2

LEMMA NoRedirLeft ==
  ASSUME NEW f \in Seq(Frame), f # <<>>, Head(f).k \notin Redirs
  PROVE  /\ Tail(f) \in Seq(Frame)
         /\ \A d \in Nat : Deep(f, d) => Deep(Tail(f), d)
         /\ Unredirected(f) => Unredirected(Tail(f))
<1>1. \A d \in Nat : Deep(f, d) => Deep(Tail(f), d)
  BY DeepTail
<1>2. ASSUME Unredirected(f), NEW i \in 1 .. Len(Tail(f)) PROVE Tail(f)[i].k \notin Redirs
  <2>1. i + 1 \in 1 .. Len(f) /\ Tail(f)[i] = f[i + 1]
    OBVIOUS
  <2> QED
    BY <1>2, <2>1 DEF Unredirected
<1> QED
  BY <1>1, <1>2 DEF Unredirected

\* p keeps its copies, and all that is open in its table but in no pipe.
LEMMA StaysPut ==
  ASSUME NEW p \in PID, TableInv(p), Live(p), status[p] # "program",
         base'[p] = base[p], depth'[p] = depth[p],
         oldfds'[p] = oldfds[p], lost'[p] = lost[p],
         status'[p] \notin {"prompt", "zombie", "free", "program"},
         \A k \in Nat : Deep(ctl[p].frames, k) => Deep(ctl'[p].frames, k),
         Len(oldfds[p]) \in Nat,
         Shell(p) =>
           \A f \in FD :
             /\ Solid(fds[p][f]) => fds'[p][f] = fds[p][f]
             /\ fds'[p][f][1] \in {"r", "w"} => status'[p] = "fork2" /\ fds'[p][f][2] = p,
         depth[p] = 0 => First(p)'
  PROVE  TableInv(p)'
<1>1. CountOk(p)'
  <2>1. PICK k \in 0 .. Len(oldfds[p]) :
          Deep(ctl[p].frames, k) /\ (base[p] = "main" => k = Len(oldfds[p]))
    BY DEF TableInv, CountOk
  <2>2. Deep(ctl'[p].frames, k)
    BY <2>1
  <2> QED
    BY <2>1, <2>2 DEF CountOk, Deep
<1>2. Live(p)' /\ (Shell(p)' => Shell(p))
  BY DEF Live, Shell
<1>3. ASSUME Shell(p) PROVE Sane(p)'
  <2>1. StackOk(fds[p], oldfds[p], lost[p])
    BY <1>3 DEF TableInv, Sane
  <2>2. StackOk(fds'[p], oldfds[p], lost[p])
    BY <1>3, <2>1, StackStays
  <2>3. StackOk(fds'[p], oldfds'[p], lost'[p])
    BY <2>2
  <2> QED
    BY <1>3, <2>3 DEF Sane, StackOk, Kept, Outermost
<1> QED
  BY <1>1, <1>2, <1>3 DEF TableInv

\* p goes on, in the same redirections.
Quiet(p) ==
  /\ \A q \in PID \ {p} : Rest(q)
  /\ base'[p] = base[p] /\ depth'[p] = depth[p]
  /\ status[p] \in {"eval", "exec", "wait", "waitpid", "return"}
  /\ status'[p] \in {"eval", "exec", "redirect", "waitpid", "return"}
  /\ \A k \in Nat : Deep(ctl[p].frames, k) => Deep(ctl'[p].frames, k)
  /\ First(p) =>
       /\ status'[p] \notin {"redirect", "exec"}
       /\ status'[p] = "eval" => ctl'[p].needfork
       /\ Unredirected(ctl'[p].frames)

LEMMA QuietOther ==
  ASSUME TypeOK, NEW p \in PID, Other(p)
  PROVE  Quiet(p)
<1> DEFINE f == ctl[p].frames
<1>1. f \in Seq(Frame)
  BY ControlType
<1>2. First(p) => Unredirected(f)
  BY DEF First, Unredirected
<1>3. ASSUME NEW st, NEW c, Step(p, st, c),
             status[p] \in {"eval", "exec", "return"},
             st \in {"eval", "exec", "redirect", "return"},
             \A k \in Nat : Deep(f, k) => Deep(c.frames, k),
             Unredirected(f) => Unredirected(c.frames),
             First(p) => st \notin {"redirect", "exec"} /\ (st = "eval" => c.needfork)
      PROVE  Quiet(p)
  BY <1>2, <1>3, StepRest DEF Quiet
<1>4. CASE EvalNull(p) \/ EvalBuiltin(p) \/ EvalNotFound(p) \/ ExecFails(p) \/ EvalForkFails(p)
  <2>1. status[p] \in {"eval", "exec"} /\ \E v \in {0, -1} : Return(p, v, f)
    BY <1>4
    DEF EvalNull, EvalBuiltin, EvalNotFound, ExecFails, EvalForkFails, Runs, Evaluates
  <2>2. PICK v \in {0, -1} : Step(p, "return", Value(v, f))
    BY <2>1 DEF Return
  <2>3. Value(v, f).frames = f
    BY DEF Value
  <2> QED
    BY <1>3, <2>1, <2>2, <2>3
<1>5. CASE EvalSemi(p)
  <2> DEFINE n == ctl[p].node
             g == Push("semiLeft", n, f)
  <2>1. status[p] = "eval" /\ Step(p, "eval", Call(left[n], TRUE, g)) /\ n \in Node
    BY <1>5, EvaluatesType DEF EvalSemi, Evaluates, Eval
  <2>2. Call(left[n], TRUE, g).frames = g /\ Call(left[n], TRUE, g).needfork
    BY DEF Call
  <2> QED
    BY <1>1, <1>3, <2>1, <2>2, NoRedirs
<1>6. CASE EvalExecInPlace(p) \/ EvalRedirInPlace(p)
  <2>1. /\ status[p] = "eval" /\ ~ctl[p].needfork
        /\ \E st \in {"exec", "redirect"} : Step(p, st, ctl[p])
    BY <1>6 DEF EvalExecInPlace, EvalRedirInPlace, Runs, Evaluates
  <2>2. ~First(p)
    BY <2>1 DEF First
  <2> QED
    BY <1>3, <2>1, <2>2
<1>7. CASE ReturnSemiLeft(p) \/ ReturnSemiRight(p)
  <2>1. /\ status[p] = "return" /\ f # <<>> /\ Head(f).k \notin Redirs
        /\ Head(f).n \in Node
    BY <1>7, ReturnsType DEF ReturnSemiLeft, ReturnSemiRight, Returns, Redirs
  <2>2. /\ Tail(f) \in Seq(Frame)
        /\ \A d \in Nat : Deep(f, d) => Deep(Tail(f), d)
        /\ Unredirected(f) => Unredirected(Tail(f))
    BY <1>1, <2>1, NoRedirLeft
  <2>3. CASE ReturnSemiLeft(p)
    <3> DEFINE n == Head(f).n
               g == Push("semiRight", n, Tail(f))
    <3>1. Step(p, "eval", Call(right[n], TRUE, g))
      BY <2>3 DEF ReturnSemiLeft, Eval
    <3>2. Call(right[n], TRUE, g).frames = g /\ Call(right[n], TRUE, g).needfork
      BY DEF Call
    <3>3. /\ \A d \in Nat : Deep(f, d) => Deep(g, d)
          /\ Unredirected(f) => Unredirected(g)
      BY <2>1, <2>2, NoRedirs
    <3> QED
      BY <1>3, <2>1, <3>1, <3>2, <3>3
  <2>4. CASE ReturnSemiRight(p)
    <3>1. Step(p, "return", Value(0, Tail(f)))
      BY <2>4 DEF ReturnSemiRight, Return
    <3>2. Value(0, Tail(f)).frames = Tail(f)
      BY DEF Value
    <3> QED
      BY <1>3, <2>1, <2>2, <3>1, <3>2
  <2> QED
    BY <1>7, <2>3, <2>4
<1>8. ASSUME ReapLeft(p) \/ ReapRight(p) \/ \E c \in PID : Reap(p, c) PROVE Quiet(p)
  <2> DEFINE Freed == \E c, st : st \in {"waitpid", "return"} /\ Release(p, c, st)
  <2>5. Freed
    <3>1. CASE ReapLeft(p)
      BY <3>1 DEF ReapLeft
    <3>2. CASE ReapRight(p)
      BY <3>2 DEF ReapRight
    <3>3. ASSUME NEW c \in PID, Reap(p, c) PROVE Freed
      BY <3>3 DEF Reap
    <3> QED
      BY <1>8, <3>1, <3>2, <3>3
  <2>1. PICK c, st : st \in {"waitpid", "return"} /\ Release(p, c, st)
    BY <2>5
  <2>2. status[p] \in {"wait", "waitpid"} /\ depth' = depth /\ base' = base
    BY <1>8 DEF ReapLeft, ReapRight, Reap, Release
  <2>3. /\ status'[p] = st
        /\ \A q \in PID \ {p} :
             status'[q] = status[q] \/ (status[q] = "zombie" /\ status'[q] = "free")
    BY <2>1, <2>2 DEF Release, TypeOK
  <2>4. /\ \A q \in PID \ {p} : ctl'[q] = ctl[q]
        /\ ctl'[p].frames = f
    BY <1>8 DEF ReapLeft, ReapRight, Reap, Value, TypeOK
  <2>6. \A q \in PID \ {p} : Rest(q)
    BY <2>2, <2>3, <2>4 DEF Rest
  <2>7. /\ \A k \in Nat : Deep(f, k) => Deep(ctl'[p].frames, k)
        /\ First(p) => Unredirected(ctl'[p].frames)
    BY <1>2, <2>4
  <2> QED
    BY <2>1, <2>2, <2>3, <2>6, <2>7 DEF Quiet
<1> QED
  BY <1>4, <1>5, <1>6, <1>7, <1>8 DEF Other

LEMMA OtherKeeps ==
  ASSUME TypeOK, DescInv, NEW p \in PID, Other(p)
  PROVE  DescInv'
<1>1. Quiet(p) /\ UNCHANGED tables
  BY QuietOther DEF Other
<1>2. DTypeOK /\ TableInv(p) /\ Live(p) /\ status[p] # "program"
  BY <1>1 DEF DescInv, Quiet, Live
<1>3. Len(oldfds[p]) \in Nat
  BY <1>2, TablesType
<1>4. depth[p] = 0 => First(p)'
  <2>1. depth[p] = 0 => First(p)
    BY <1>2 DEF TableInv
  <2> QED
    BY <1>1, <2>1 DEF Quiet, First, Unredirected, tables
<1>5. Shell(p) => \A f \in FD : fds[p][f][1] \notin {"r", "w"}
  BY <1>1, <1>2 DEF TableInv, Sane, Quiet
<1>6. TableInv(p)'
  BY <1>1, <1>2, <1>3, <1>4, <1>5, StaysPut DEF Quiet, tables
<1>7. \A q \in PID \ {p} : TableInv(q)'
  BY <1>1, RestKeeps DEF DescInv, Quiet, tables
<1> QED
  BY <1>1, <1>2, <1>6, <1>7 DEF DescInv, DTypeOK, tables

-----------------------------------------------------------------------------
(* main's loop, and the end of a process                                   *)

\* A loop back to the prompt puts the terminal back on 0, 1 and 2.
LEMMA PromptKeeps ==
  ASSUME TypeOK, DescInv, NEW p \in PID, BackToPrompt(p)
  PROVE  DescInv'
<1> DEFINE t == fds[p]
           u == Restored(t)
           l == lost[p]
           m == {f \in l : f > 2 \/ f + 3 \in l}
<1>1. /\ status[p] = "return" /\ ctl[p].frames = <<>> /\ base[p] = "main"
      /\ Step(p, "prompt", Idle)
  BY DEF BackToPrompt, ReturnToMain
<1>2. /\ \A q \in PID \ {p} : Rest(q)
      /\ status'[p] = "prompt" /\ ctl'[p].frames = <<>>
      /\ base'[p] = "main" /\ depth'[p] = depth[p]
  BY <1>1, StepRest DEF Idle, Value
<1>3. DTypeOK /\ TableInv(p)
  BY DEF DescInv
<1>4. /\ t \in Table /\ l \in SUBSET FD
      /\ oldfds[p] \in Seq([fd : FD, oldfd : FD \cup {-1}, lost : BOOLEAN])
      /\ oldfds = [oldfds EXCEPT ![p] = oldfds[p]]
  BY <1>3, TablesType
<1>5. Sane(p)
  BY <1>1, <1>3 DEF TableInv, Shell, Live
<1>6. oldfds[p] = <<>>
  <2>1. Deep(<<>>, Len(oldfds[p]))
    BY <1>1, <1>3 DEF TableInv, CountOk
  <2> QED
    BY <1>4, <2>1, DeepEmpty
<1>7. /\ u \in Table
      /\ \A f \in FD \ 0 .. 2 : u[f] = t[f]
      /\ \A f \in 3 .. 5 : t[f] # Closed => u[f - 3] = t[f]
  BY <1>4, RestoredTable
<1>8. \A f \in 0 .. 5 : Solid(t[f])
  BY <1>5 DEF Sane, StackOk
<1> HIDE DEF t, u
<1>9. \A f \in 0 .. 2 : u[f] = t[f + 3]
  <2> SUFFICES ASSUME NEW f \in 0 .. 2 PROVE u[f] = t[f + 3]
    OBVIOUS
  <2>1. f + 3 \in 3 .. 5 /\ f + 3 \in 0 .. 5 /\ (f + 3) - 3 = f
    OBVIOUS
  <2> QED
    BY <1>7, <1>8, <2>1 DEF Solid
<1>10. \A f \in 3 .. 5 : f \in FD /\ u[f] = t[f]
  BY <1>7, Numbers
<1>11. \A f \in 3 .. 5 : f \notin m => u[f] = Tty /\ u[f - 3] = Tty
  <2> SUFFICES ASSUME NEW f \in 3 .. 5, f \notin m PROVE u[f] = Tty /\ u[f - 3] = Tty
    OBVIOUS
  <2>1. f \notin l
    OBVIOUS
  <2>2. t[f] = Tty
    BY <1>5, <1>6, <2>1 DEF Sane, StackOk, Kept, t
  <2> QED
    BY <1>7, <1>10, <2>2, Files DEF Solid
<1>12. StackOk(u, <<>>, m)
  <2>1. ASSUME NEW f \in 0 .. 5 PROVE Solid(u[f])
    <3>1. f \in 0 .. 2 \/ f \in 3 .. 5
      OBVIOUS
    <3>2. f \in 0 .. 2 => f + 3 \in 0 .. 5
      OBVIOUS
    <3> QED
      BY <1>8, <1>9, <1>10, <3>1, <3>2
  <2>2. \A f \in 3 .. 5 : Kept(f, u, <<>>, m)
    BY <1>11 DEF Kept
  <2>3. <<>> \in Seq(Entry) /\ \A i \in 1 .. Len(<<>>) : FALSE
    OBVIOUS
  <2> QED
    BY <2>1, <2>2, <2>3 DEF StackOk
<1>13. fds'[p] = u /\ fds' = [fds EXCEPT ![p] = u]
  BY <1>3 DEF BackToPrompt, DescInv, DTypeOK, t, u
<1>14. lost'[p] = m /\ lost' = [lost EXCEPT ![p] = m]
  BY <1>3 DEF BackToPrompt, DescInv, DTypeOK
<1>15. oldfds' = oldfds /\ oldfds'[p] = <<>>
  BY <1>6 DEF BackToPrompt
<1>16. Sane(p)'
  <2>1. StackOk(fds'[p], oldfds'[p], lost'[p])
    BY <1>12, <1>13, <1>14, <1>15
  <2>2. \A f \in FD : u[f][1] \notin {"r", "w"}
    <3>1. \A f \in FD : t[f][1] \notin {"r", "w"}
      BY <1>1, <1>5 DEF Sane, t
    <3>2. \A f \in 0 .. 2 : f + 3 \in FD
      BY Numbers
    <3> QED
      BY <1>7, <1>9, <3>1, <3>2
  <2> QED
    BY <1>2, <1>11, <1>13, <1>14, <2>1, <2>2 DEF Sane, StackOk, Kept, Outermost
<1>17. ASSUME depth[p] = 0 PROVE First(p)'
  <2>1. t = AtPrompt
    BY <1>1, <1>3, <1>17 DEF TableInv, First, Live, t
  <2>2. u = AtPrompt
    <3>1. AtPrompt \in Table
      BY Files DEF AtPrompt, Table
    <3>2. ASSUME NEW f \in FD PROVE u[f] = AtPrompt[f]
      <4>1. f \in 0 .. 2 => f + 3 \in FD /\ f + 3 <= 5 /\ f <= 5
        BY Numbers
      <4> QED
        BY <1>7, <1>9, <2>1, <4>1 DEF AtPrompt
    <3> QED
      BY <1>7, <3>1, <3>2 DEF Table
  <2>3. Unredirected(<<>>)
    BY DEF Unredirected
  <2> QED
    BY <1>2, <1>13, <1>15, <2>2, <2>3 DEF First, Unredirected
<1>18. CountOk(p)'
  <2>1. 0 \in 0 .. Len(oldfds'[p]) /\ 0 = Len(oldfds'[p])
    BY <1>15
  <2>2. Deep(ctl'[p].frames, 0)
    BY <1>2, DeepEmpty
  <2> QED
    BY <2>1, <2>2 DEF CountOk, Deep
<1>19. TableInv(p)'
  BY <1>2, <1>16, <1>17, <1>18 DEF TableInv, Live
<1>20. tty' \in {"raw", "cooked"}
  BY <1>3 DEF BackToPrompt, SetTermios, DTypeOK
<1> QED
  BY <1>2, <1>4, <1>7, <1>13, <1>14, <1>15, <1>19, <1>20, AloneKeeps

LEMMA SubmitKeeps ==
  ASSUME TypeOK, DescInv, Prompters, NEW p \in PID, SubmitLine(p)
  PROVE  DescInv'
<1>1. /\ status[p] = "prompt" /\ HasTable(p, fds[p])
      /\ \E n \in Lines : ctl' = [ctl EXCEPT ![p] = Call(n, TRUE, <<>>)]
      /\ status' = [status EXCEPT ![p] = "eval"]
      /\ base' = base /\ depth' = depth
  BY DEF SubmitLine, Submit
<1>2. DTypeOK /\ TableInv(p)
  BY DEF DescInv
<1>3. fds' = fds /\ oldfds' = oldfds /\ lost' = lost
  BY <1>1, <1>2, TablesType DEF HasTable
<1>4. Shell(p) /\ Sane(p)
  BY <1>1, <1>2 DEF Prompters, Shell, Live, TableInv
<1>5. ctl[p].frames = <<>>
  BY <1>1, <1>4 DEF Sane
<1>6. status'[p] = "eval" /\ ctl'[p].frames = <<>> /\ ctl'[p].needfork
  BY <1>1 DEF Call, TypeOK
<1>7. \A q \in PID \ {p} : Rest(q)
  BY <1>1 DEF Rest, TypeOK
<1>8. \A f \in FD : fds[p][f][1] \notin {"r", "w"}
  BY <1>1, <1>4 DEF Sane
<1>9. depth[p] = 0 => First(p)'
  <2>1. depth[p] = 0 => First(p)
    BY <1>2, <1>4 DEF TableInv, Shell
  <2>2. Unredirected(<<>>)
    BY DEF Unredirected
  <2> QED
    BY <1>1, <1>3, <1>6, <2>1, <2>2 DEF First, Unredirected
<1>10. Len(oldfds[p]) \in Nat
  BY <1>2, TablesType
<1>11. TableInv(p)'
  BY <1>1, <1>2, <1>3, <1>4, <1>5, <1>6, <1>8, <1>9, <1>10, StaysPut DEF Shell
<1>12. \A q \in PID \ {p} : TableInv(q)'
  BY <1>3, <1>7, RestKeeps DEF DescInv
<1>13. tty' \in {"raw", "cooked"}
  BY <1>2 DEF SubmitLine, SetTermios, DTypeOK
<1> QED
  BY <1>2, <1>3, <1>11, <1>12, <1>13 DEF DescInv, DTypeOK

LEMMA DeathKeeps ==
  ASSUME TypeOK, DescInv, NEW p \in PID,
         \/ QuitShell(p) \/ Ends(p)
         \/ Die(p) /\ Closes(p) /\ UNCHANGED tty
  PROVE  DescInv'
<1>1. Die(p) /\ Closes(p)
  BY DEF QuitShell, Quit, Ends, EvalExit, EvalFault, ProgramExit, ReturnToPipeChild
<1>2. tty \in {"raw", "cooked"}
  BY DEF DescInv, DTypeOK
<1>3. tty' \in {"raw", "cooked"}
  BY <1>2 DEF QuitShell, Ends, SetTermios
<1> QED
  BY <1>1, <1>3, DieKeeps

LEMMA ExecKeeps ==
  ASSUME TypeOK, DescInv, NEW p \in PID, BecomeProgram(p)
  PROVE  DescInv'
<1>1. status[p] = "exec" /\ Step(p, "program", Idle)
  BY DEF BecomeProgram, Exec
<1>2. /\ \A q \in PID \ {p} : Rest(q)
      /\ status'[p] = "program" /\ ctl'[p].frames = <<>> /\ depth'[p] = depth[p]
  BY <1>1, StepRest DEF Idle, Value
<1>3. DTypeOK /\ TableInv(p)
  BY DEF DescInv
<1>4. fds[p] \in Table /\ fds = [fds EXCEPT ![p] = fds[p]]
  BY <1>3, TablesType
<1>5. /\ fds' = [fds EXCEPT ![p] = fds[p]]
      /\ oldfds' = [oldfds EXCEPT ![p] = <<>>] /\ lost' = [lost EXCEPT ![p] = {}]
      /\ tty' = tty
  BY <1>4 DEF BecomeProgram
<1>6. oldfds'[p] = <<>>
  BY <1>3, <1>5 DEF DTypeOK
<1>7. depth[p] # 0
  BY <1>1, <1>3 DEF TableInv, First, Live
<1>8. CountOk(p)'
  <2>1. 0 \in 0 .. Len(oldfds'[p]) /\ 0 = Len(oldfds'[p])
    BY <1>6
  <2>2. Deep(ctl'[p].frames, 0)
    BY <1>2, DeepEmpty
  <2> QED
    BY <2>1, <2>2 DEF CountOk, Deep
<1>9. TableInv(p)'
  BY <1>2, <1>7, <1>8 DEF TableInv, Shell, Live
<1>10. <<>> \in Seq([fd : FD, oldfd : FD \cup {-1}, lost : BOOLEAN]) /\ {} \in SUBSET FD
  OBVIOUS
<1>11. tty' \in {"raw", "cooked"}
  BY <1>3, <1>5 DEF DTypeOK
<1> QED
  BY <1>2, <1>4, <1>5, <1>9, <1>10, <1>11, AloneKeeps

-----------------------------------------------------------------------------
(* Redirections                                                            *)

\* The redirection that p is to apply.
LEMMA RedirNode ==
  ASSUME CallInv, NEW p \in PID, status[p] = "redirect"
  PROVE  LET r == redir[ctl[p].node] IN
         /\ ctl[p].node \in Node /\ ctl[p].node \in DOMAIN redir
         /\ r.fd \in 0 .. 5 /\ r.fd \in FD
<1>1. ctl[p].node \in Node /\ kind[ctl[p].node] = "redirection"
  BY DEF CallInv, Sound
<1>2. ctl[p].node \in DOMAIN redir /\ redir[ctl[p].node] \in Redirection
  BY <1>1, DescriptorAssumption
<1> QED
  BY <1>1, <1>2, Numbers DEF Redirection

\* No end of a pipe comes up, and what is open stays.
LEMMA WithOldKeeps ==
  ASSUME DTypeOK, CallInv, NEW p \in PID, status[p] = "redirect", Sane(p)
  PROVE  /\ \A f \in FD : fds[p][f] # Closed => WithOld(p)[f] = fds[p][f]
         /\ \A f \in FD : WithOld(p)[f][1] \notin {"r", "w"}
<1> DEFINE t == fds[p]
           w == WithFile(p)
           o == WithOld(p)
           fd == redir[ctl[p].node].fd
<1>1. ctl[p].node \in DOMAIN redir /\ fd \in FD
  BY RedirNode
<1>2. /\ \A f \in FD : t[f] # Closed => w[f] = t[f]
      /\ \A f \in FD : w[f] = t[f] \/ Solid(w[f])
  BY <1>1, WithFileTable
<1>3. /\ \A f \in FD : w[f] # Closed => o[f] = w[f]
      /\ \A f \in FD : o[f] \in {w[f], w[fd]}
  BY <1>1, OldFdIs
<1>4. \A f \in FD : t[f][1] \notin {"r", "w"}
  BY DEF Sane
<1> HIDE DEF t, w, o, fd
<1>5. \A f \in FD : w[f][1] \notin {"r", "w"}
  BY <1>2, <1>4 DEF Solid
<1> QED
  BY <1>1, <1>2, <1>3, <1>5 DEF t, o

\* A descriptor is copied and replaced.
LEMMA ReplaceStack ==
  ASSUME DTypeOK, CallInv, NEW p \in PID, status[p] = "redirect", Sane(p),
         redir[ctl[p].node].opens => Free(fds[p]) # {}
  PROVE  LET fd == redir[ctl[p].node].fd
             o == [fd |-> fd, oldfd |-> OldFd(p), lost |-> fd \in lost[p]]
         IN /\ StackOk(Redirected(p), <<o>> \o oldfds[p],
                       IF OldFd(p) = -1 THEN lost[p] \cup {fd} ELSE lost[p])
            /\ \A f \in FD : Redirected(p)[f][1] \notin {"r", "w"}
<1> DEFINE n == ctl[p].node
           t == fds[p]
           w == WithFile(p)
           v == WithOld(p)
           u == Redirected(p)
           fd == redir[n].fd
           old == OldFd(p)
<1>1. n \in DOMAIN redir /\ fd \in 0 .. 5 /\ fd \in FD
  BY RedirNode
<1>2. StackOk(t, oldfds[p], lost[p]) /\ \A f \in 0 .. 5 : Solid(t[f])
  BY DEF Sane, StackOk
<1>3. /\ \A f \in FD : t[f] # Closed => w[f] = t[f]
      /\ \A f \in FD : w[f] = t[f] \/ Solid(w[f])
  BY <1>1, WithFileTable
<1>4. \A f \in 0 .. 5 : f \in FD /\ w[f] # Closed
  BY <1>2, <1>3, Numbers DEF Solid
<1>5. /\ old \in FD \cup {-1}
      /\ old # -1 => old \in 6 .. MaxFd /\ w[old] = Closed /\ v[old] = w[fd]
  BY <1>1, <1>4, OldFdIs
<1>6. /\ \A f \in FD : t[f] # Closed => v[f] = t[f]
      /\ \A f \in FD : v[f][1] \notin {"r", "w"}
  BY WithOldKeeps
<1>7. /\ \A f \in FD \ {fd} : v[f] # Closed => u[f] = v[f]
      /\ \A f \in FD \ {fd} : u[f] \in {v[f], Closed}
      /\ u[fd] \in {Null, <<"here", n>>} \/ \E f \in FD : u[fd] = v[f]
      /\ v[fd] # Closed => u[fd] # Closed
  BY <1>1, RedirectedTable
<1> HIDE DEF n, t, w, v, u, fd, old
<1>8. w[fd] = t[fd] /\ v[fd] = t[fd] /\ t[fd] # Closed
  BY <1>1, <1>2, <1>3, <1>6 DEF Solid
<1>9. Solid(u[fd])
  <2>1. Solid(Null) /\ Solid(<<"here", n>>)
    BY <1>1, Files
  <2> QED
    BY <1>6, <1>7, <1>8, <2>1 DEF Solid
<1>10. \A f \in FD \ {fd} : Solid(t[f]) => u[f] = t[f]
  BY <1>6, <1>7 DEF Solid
<1>11. old \in {-1} \cup 6 .. MaxFd
  BY <1>5
<1>12. old # -1 => u[old] = t[fd] /\ t[old] = Closed
  <2> SUFFICES ASSUME old # -1 PROVE u[old] = t[fd] /\ t[old] = Closed
    OBVIOUS
  <2>1. old \in FD /\ old # fd
    BY <1>1, <1>5
  <2> QED
    BY <1>3, <1>5, <1>7, <1>8, <2>1
<1>13. StackOk(u, <<[fd |-> fd, oldfd |-> old, lost |-> fd \in lost[p]]>> \o oldfds[p],
               IF old = -1 THEN lost[p] \cup {fd} ELSE lost[p])
  BY <1>1, <1>2, <1>9, <1>10, <1>11, <1>12, StackPush
<1>14. \A f \in FD : u[f][1] \notin {"r", "w"}
  BY <1>6, <1>7, <1>9, Files DEF Solid
<1> QED
  BY <1>13, <1>14 DEF n, u, fd, old

LEMMA ReplaceKeeps ==
  ASSUME TypeOK, CallInv, DescInv, NEW p \in PID, Replace(p)
  PROVE  DescInv'
<1> DEFINE n == ctl[p].node
           r == redir[n]
           k == IF ctl[p].needfork THEN "redirFork" ELSE "redir"
           f == ctl[p].frames
           o == [fd |-> r.fd, oldfd |-> OldFd(p), lost |-> r.fd \in lost[p]]
           s == <<o>> \o oldfds[p]
           l == IF OldFd(p) = -1 THEN lost[p] \cup {r.fd} ELSE lost[p]
<1>1. /\ status[p] = "redirect" /\ Step(p, "eval", Call(left[n], FALSE, Push(k, n, f)))
      /\ r.opens => Free(fds[p]) # {}
  BY DEF Replace, Redirect, Eval
<1>2. n \in Node /\ n \in DOMAIN redir /\ r.fd \in 0 .. 5 /\ r.fd \in FD
  BY <1>1, RedirNode
<1>3. /\ \A q \in PID \ {p} : Rest(q)
      /\ status'[p] = "eval" /\ ctl'[p].frames = Push(k, n, f)
      /\ base'[p] = base[p] /\ depth'[p] = depth[p]
  BY <1>1, StepRest DEF Call
<1>4. DTypeOK /\ TableInv(p) /\ Live(p)
  BY <1>1 DEF DescInv, Live
<1>5. /\ oldfds[p] \in Seq([fd : FD, oldfd : FD \cup {-1}, lost : BOOLEAN])
      /\ Len(oldfds[p]) \in Nat /\ lost[p] \in SUBSET FD
  BY <1>4, TablesType
<1>6. Redirected(p) \in Table /\ OldFd(p) \in FD \cup {-1}
  BY <1>1, <1>2, <1>4, RedirectedTable, OldFdIs
<1>7. o \in [fd : FD, oldfd : FD \cup {-1}, lost : BOOLEAN]
  BY <1>2, <1>6
<1>8. /\ s \in Seq([fd : FD, oldfd : FD \cup {-1}, lost : BOOLEAN])
      /\ Len(s) = Len(oldfds[p]) + 1 /\ l \in SUBSET FD
  <2> HIDE DEF o
  <2> QED
    BY <1>2, <1>5, <1>7
<1>9. /\ fds' = [fds EXCEPT ![p] = Redirected(p)] /\ fds'[p] = Redirected(p)
      /\ oldfds' = [oldfds EXCEPT ![p] = s] /\ oldfds'[p] = s
      /\ lost' = [lost EXCEPT ![p] = l] /\ lost'[p] = l
      /\ tty' \in {"raw", "cooked"}
  BY <1>4 DEF Replace, DTypeOK
<1>10. ASSUME Shell(p)'
       PROVE  Sane(p)'
  <2>1. Sane(p)
    BY <1>1, <1>3, <1>4, <1>10 DEF Shell, TableInv
  <2>2. /\ StackOk(Redirected(p), s, l)
        /\ \A g \in FD : Redirected(p)[g][1] \notin {"r", "w"}
    BY <1>1, <1>4, <2>1, ReplaceStack
  <2> HIDE DEF s, l, o
  <2>3. StackOk(fds'[p], oldfds'[p], lost'[p])
    BY <1>9, <2>2
  <2> QED
    BY <1>3, <1>9, <2>2, <2>3 DEF Sane, StackOk, Kept, Outermost
<1>11. CountOk(p)'
  <2>1. PICK d \in 0 .. Len(oldfds[p]) : Deep(f, d) /\ (base[p] = "main" => d = Len(oldfds[p]))
    BY <1>4 DEF TableInv, CountOk
  <2>2. f \in Seq(Frame) /\ k \in {"semiLeft", "semiRight", "redir", "redirFork"}
    BY ControlType
  <2>3. Deep(Push(k, n, f), d + 1)
    BY <1>2, <2>1, <2>2, DeepPush DEF Redirs
  <2>4. d + 1 \in 0 .. Len(s) /\ (base[p] = "main" => d + 1 = Len(s))
    BY <1>5, <1>8, <2>1
  <2>5. Deep(ctl'[p].frames, d + 1)
    BY <1>3, <2>3
  <2> HIDE DEF s
  <2> QED
    BY <1>3, <1>9, <2>4, <2>5 DEF CountOk, Deep
<1>12. depth[p] # 0
  BY <1>1, <1>4 DEF TableInv, First
<1>13. TableInv(p)'
  BY <1>3, <1>10, <1>11, <1>12 DEF TableInv, Live
<1> HIDE DEF s, l
<1> QED
  BY <1>3, <1>6, <1>8, <1>9, <1>13, AloneKeeps

LEMMA ReplaceFailsKeeps ==
  ASSUME TypeOK, CallInv, DescInv, NEW p \in PID, ReplaceFails(p)
  PROVE  DescInv'
<1>1. CASE RedirectFailsForked(p) /\ Closes(p)
  BY <1>1, DeathKeeps DEF RedirectFailsForked, ReplaceFails
<1>2. CASE ~(RedirectFailsForked(p) /\ Closes(p))
  <2> DEFINE t == IF redir[ctl[p].node].opens THEN fds[p] ELSE WithOld(p)
  <2>1. /\ status[p] = "redirect" /\ Step(p, "return", Value(-1, ctl[p].frames))
        /\ HasTable(p, t) /\ tty' = tty
    BY <1>2 DEF ReplaceFails, RedirectFailsInPlace, Return
  <2>2. /\ \A q \in PID \ {p} : Rest(q)
        /\ status'[p] = "return" /\ ctl'[p].frames = ctl[p].frames
        /\ base'[p] = base[p] /\ depth'[p] = depth[p]
    BY <2>1, StepRest DEF Value
  <2>3. DTypeOK /\ TableInv(p) /\ Live(p) /\ tty \in {"raw", "cooked"}
    BY <2>1 DEF DescInv, Live, DTypeOK
  <2>4. /\ oldfds[p] \in Seq([fd : FD, oldfd : FD \cup {-1}, lost : BOOLEAN])
        /\ oldfds = [oldfds EXCEPT ![p] = oldfds[p]]
        /\ Len(oldfds[p]) \in Nat
        /\ lost[p] \in SUBSET FD /\ lost = [lost EXCEPT ![p] = lost[p]]
        /\ fds[p] \in Table
    BY <2>3, TablesType
  <2>5. t \in Table
    BY <2>1, <2>3, <2>4, RedirNode, OldFdIs
  <2>6. /\ fds' = [fds EXCEPT ![p] = t] /\ fds'[p] = t
        /\ oldfds' = oldfds /\ lost' = lost
    BY <2>1, <2>3 DEF HasTable, DTypeOK
  <2>7. depth[p] # 0
    BY <2>1, <2>3 DEF TableInv, First
  <2>8. ASSUME Shell(p), NEW f \in FD
        PROVE  /\ Solid(fds[p][f]) => t[f] = fds[p][f]
               /\ t[f][1] \notin {"r", "w"}
    <3>1. Sane(p) /\ fds[p][f][1] \notin {"r", "w"}
      BY <2>1, <2>3, <2>8 DEF TableInv, Sane
    <3> QED
      BY <2>1, <2>3, <3>1, WithOldKeeps DEF Solid
  <2> HIDE DEF t
  <2>9. TableInv(p)'
    BY <2>1, <2>2, <2>3, <2>4, <2>6, <2>7, <2>8, StaysPut
  <2> QED
    BY <2>1, <2>2, <2>3, <2>4, <2>5, <2>6, <2>9, AloneKeeps
<1> QED
  BY <1>1, <1>2

\* Nothing comes up that was not there.
LEMMA BackTable ==
  ASSUME NEW t \in Table, NEW a \in FD \cup {-1}, NEW b \in FD
  PROVE  /\ Close(Dup2(t, a, b), a) \in Table
         /\ (\A f \in FD : t[f][1] \notin {"r", "w"}) =>
              \A f \in FD : Close(Dup2(t, a, b), a)[f][1] \notin {"r", "w"}
<1> DEFINE d == Dup2(t, a, b)
<1>1. /\ d \in Table /\ \A g \in FD : g # b => d[g] = t[g]
      /\ d[b] = t[b] \/ \E g \in FD : d[b] = t[g]
  BY Dup2Table
<1> HIDE DEF d
<1>2. Close(d, a) \in Table /\ \A g \in FD : Close(d, a)[g] \in {d[g], Closed}
  BY <1>1, CloseTable
<1>3. ASSUME \A f \in FD : t[f][1] \notin {"r", "w"}, NEW g \in FD
      PROVE  Close(d, a)[g][1] \notin {"r", "w"}
  <2>1. d[g][1] \notin {"r", "w"}
    BY <1>1, <1>3
  <2> QED
    BY <1>2, <2>1, Files
<1> QED
  BY <1>2, <1>3 DEF d

LEMMA PutBackKeeps ==
  ASSUME TypeOK, DescInv, NEW p \in PID, PutBack(p), UNCHANGED tty,
         status[p] = "return", ctl[p].frames # <<>>, Head(ctl[p].frames).k \in Redirs,
         NEW v, Step(p, "return", Value(v, Tail(ctl[p].frames)))
  PROVE  DescInv'
<1> DEFINE f == ctl[p].frames
           o == oldfds[p]
           e == Head(o)
           back == ctl[p].ret # 0
           u == IF back THEN Close(Dup2(fds[p], e.oldfd, e.fd), e.oldfd) ELSE fds[p]
           l == IF back /\ e.oldfd # -1 /\ ~e.lost THEN lost[p] \ {e.fd} ELSE lost[p] \cup {e.fd}
<1>1. /\ \A q \in PID \ {p} : Rest(q)
      /\ status'[p] = "return" /\ ctl'[p].frames = Tail(f)
      /\ base'[p] = base[p] /\ depth'[p] = depth[p]
  <2> DEFINE c == Value(v, Tail(f))
  <2>1. c.frames = Tail(f)
    BY DEF Value
  <2>2. Step(p, "return", c)
    OBVIOUS
  <2> HIDE DEF c
  <2>3. /\ \A q \in PID \ {p} : Rest(q)
        /\ status'[p] = "return" /\ ctl'[p] = c /\ base'[p] = base[p] /\ depth'[p] = depth[p]
    BY <2>2, StepRest
  <2> QED
    BY <2>1, <2>3
<1>2. DTypeOK /\ TableInv(p) /\ Live(p) /\ tty \in {"raw", "cooked"} /\ f \in Seq(Frame)
  BY ControlType DEF DescInv, Live, DTypeOK
<1>3. /\ o \in Seq([fd : FD, oldfd : FD \cup {-1}, lost : BOOLEAN])
      /\ Len(o) \in Nat /\ lost[p] \in SUBSET FD /\ fds[p] \in Table
  BY <1>2, TablesType
<1>4. PICK d \in 0 .. Len(o) : Deep(f, d) /\ (base[p] = "main" => d = Len(o))
  BY <1>2 DEF TableInv, CountOk
<1>5. d \in Nat /\ d > 0 /\ Deep(Tail(f), d - 1)
  BY <1>2, <1>3, <1>4, DeepTail
<1>6. o # <<>>
  BY <1>3, <1>4, <1>5
<1>7. /\ Tail(o) \in Seq([fd : FD, oldfd : FD \cup {-1}, lost : BOOLEAN])
      /\ Len(Tail(o)) = Len(o) - 1
      /\ e \in [fd : FD, oldfd : FD \cup {-1}, lost : BOOLEAN]
  <2> DEFINE R == [fd : FD, oldfd : FD \cup {-1}, lost : BOOLEAN]
  <2>1. o \in Seq(R)
    BY <1>3
  <2> HIDE DEF R
  <2>2. Tail(o) \in Seq(R) /\ Len(Tail(o)) = Len(o) - 1 /\ e \in R
    BY <1>6, <2>1
  <2> QED
    BY <2>2 DEF R
<1>8. e.fd \in FD /\ e.oldfd \in FD \cup {-1}
  BY <1>7
<1>9. u \in Table /\ l \in SUBSET FD
  BY <1>3, <1>8, BackTable
<1>10. /\ fds' = [fds EXCEPT ![p] = u] /\ fds'[p] = u
       /\ oldfds' = [oldfds EXCEPT ![p] = Tail(o)] /\ oldfds'[p] = Tail(o)
       /\ lost' = [lost EXCEPT ![p] = l] /\ lost'[p] = l
  BY <1>2 DEF PutBack, DTypeOK
<1>11. CountOk(p)'
  <2>1. d - 1 \in 0 .. Len(Tail(o)) /\ (base[p] = "main" => d - 1 = Len(Tail(o)))
    BY <1>3, <1>4, <1>5, <1>7
  <2>2. Deep(ctl'[p].frames, d - 1)
    BY <1>1, <1>5
  <2> QED
    BY <1>1, <1>10, <2>1, <2>2 DEF CountOk, Deep
<1>12. ASSUME Shell(p)'
       PROVE  Sane(p)'
  <2>1. Sane(p) /\ StackOk(fds[p], o, lost[p])
    BY <1>1, <1>2, <1>12 DEF Shell, TableInv, Sane
  <2>2. back \in BOOLEAN
    OBVIOUS
  <2>3. StackOk(u, Tail(o), l)
    BY <1>3, <1>6, <2>1, <2>2, StackPop
  <2>4. \A g \in FD : u[g][1] \notin {"r", "w"}
    <3>1. \A g \in FD : fds[p][g][1] \notin {"r", "w"}
      BY <2>1 DEF Sane
    <3> QED
      BY <1>3, <1>8, <3>1, BackTable
  <2> HIDE DEF u, l
  <2>5. StackOk(fds'[p], oldfds'[p], lost'[p])
    BY <1>10, <2>3
  <2> QED
    BY <1>1, <1>10, <2>4, <2>5 DEF Sane, StackOk, Kept, Outermost
<1>13. depth[p] # 0
  <2>1. 1 \in 1 .. Len(f) /\ f[1] = Head(f)
    BY <1>2
  <2> QED
    BY <1>2, <2>1 DEF TableInv, First, Unredirected
<1>14. TableInv(p)'
  BY <1>1, <1>11, <1>12, <1>13 DEF TableInv, Live
<1> HIDE DEF u, l
<1> QED
  BY <1>1, <1>2, <1>7, <1>9, <1>10, <1>14, AloneKeeps

LEMMA LeaveKeeps ==
  ASSUME TypeOK, DescInv, NEW p \in PID, LeaveRedirection(p)
  PROVE  DescInv'
<1>1. CASE ReturnRedir(p) /\ PutBack(p)
  <2>1. /\ status[p] = "return" /\ ctl[p].frames # <<>> /\ Head(ctl[p].frames).k \in Redirs
        /\ Step(p, "return", Value(IF ctl[p].ret = 0 THEN -1 ELSE 0, Tail(ctl[p].frames)))
    BY <1>1 DEF ReturnRedir, Returns, Return, Redirs
  <2> QED
    BY <1>1, <2>1, PutBackKeeps DEF LeaveRedirection
<1>2. CASE ReturnRedirFork(p) /\ ctl[p].ret # 0 /\ PutBack(p)
  <2>1. /\ status[p] = "return" /\ ctl[p].frames # <<>> /\ Head(ctl[p].frames).k \in Redirs
        /\ Step(p, "return", Value(0, Tail(ctl[p].frames)))
    BY <1>2 DEF ReturnRedirFork, Returns, Return, Redirs
  <2> QED
    BY <1>2, <2>1, PutBackKeeps DEF LeaveRedirection
<1>3. CASE ReturnRedirFork(p) /\ ctl[p].ret = 0 /\ Closes(p)
  BY <1>3, DeathKeeps DEF ReturnRedirFork, LeaveRedirection
<1> QED
  BY <1>1, <1>2, <1>3 DEF LeaveRedirection

-----------------------------------------------------------------------------
(* Pipelines and forks                                                     *)

LEMMA UnpipedTable ==
  ASSUME NEW t \in Table, NEW p \in PID
  PROVE  /\ Unpiped(t, p) \in Table
         /\ \A f \in FD : Solid(t[f]) => Unpiped(t, p)[f] = t[f]
         /\ (\A f \in FD : t[f][1] \in {"r", "w"} => t[f][2] = p) =>
              \A f \in FD : Unpiped(t, p)[f][1] \notin {"r", "w"}
<1> DEFINE u == Unpiped(t, p)
<1>1. \A f \in FD : u[f] = IF t[f] \in {End(p, "r"), End(p, "w")} THEN Closed ELSE t[f]
  BY DEF Unpiped
<1>2. u \in Table
  BY Files DEF Unpiped, Table
<1> HIDE DEF u
<1>3. \A f \in FD : Solid(t[f]) => u[f] = t[f]
  BY <1>1, Files DEF Solid
<1>4. ASSUME \A f \in FD : t[f][1] \in {"r", "w"} => t[f][2] = p, NEW f \in FD
      PROVE  u[f][1] \notin {"r", "w"}
  <2>1. CASE t[f][1] \in {"r", "w"}
    <3>1. t[f] \in File /\ t[f][2] = p
      BY <1>4, <2>1 DEF Table
    <3>2. t[f] \in {End(p, "r"), End(p, "w")}
      BY <2>1, <3>1 DEF File, End, Closed, Tty, Null
    <3> QED
      BY <1>1, <3>2, Files
  <2>2. CASE t[f][1] \notin {"r", "w"}
    BY <1>1, <2>2, Files
  <2> QED
    BY <2>1, <2>2
<1> QED
  BY <1>2, <1>3, <1>4 DEF u

LEMMA PipedTable ==
  ASSUME NEW t \in Table, NEW p \in PID
  PROVE  /\ Piped(t, p) \in Table
         /\ \A f \in FD : t[f] # Closed => Piped(t, p)[f] = t[f]
         /\ \A f \in FD : Piped(t, p)[f] \in {t[f], End(p, "r"), End(p, "w")}
<1> DEFINE u == Opened(t, End(p, "r"))
<1>1. /\ u \in Table
      /\ \A f \in FD : t[f] # Closed => u[f] = t[f]
      /\ \A f \in FD : u[f] \in {t[f], End(p, "r")}
  BY Files, OpenedTable
<1> HIDE DEF u
<1>2. /\ Opened(u, End(p, "w")) \in Table
      /\ \A f \in FD : u[f] # Closed => Opened(u, End(p, "w"))[f] = u[f]
      /\ \A f \in FD : Opened(u, End(p, "w"))[f] \in {u[f], End(p, "w")}
  BY <1>1, Files, OpenedTable
<1>3. Piped(t, p) = Opened(u, End(p, "w"))
  BY DEF Piped, u
<1> QED
  BY <1>1, <1>2, <1>3

LEMMA GiveUpKeeps ==
  ASSUME TypeOK, DescInv, NEW p \in PID, GiveUpPipe(p)
  PROVE  DescInv'
<1> DEFINE t == Unpiped(fds[p], p)
<1>1. /\ status[p] = "fork2" /\ status' = [status EXCEPT ![p] = "return"]
      /\ ctl' = [ctl EXCEPT ![p] = Value(-1, ctl[p].frames)]
      /\ base' = base /\ depth' = depth /\ tty' = tty /\ HasTable(p, t)
  BY DEF GiveUpPipe, PipeRightForkFails
<1>2. /\ \A q \in PID \ {p} : Rest(q)
      /\ status'[p] = "return" /\ ctl'[p].frames = ctl[p].frames
  BY <1>1 DEF Rest, TypeOK, Value
<1>3. DTypeOK /\ TableInv(p) /\ Live(p) /\ tty \in {"raw", "cooked"}
  BY <1>1 DEF DescInv, Live, DTypeOK
<1>4. /\ oldfds[p] \in Seq([fd : FD, oldfd : FD \cup {-1}, lost : BOOLEAN])
      /\ oldfds = [oldfds EXCEPT ![p] = oldfds[p]]
      /\ Len(oldfds[p]) \in Nat
      /\ lost[p] \in SUBSET FD /\ lost = [lost EXCEPT ![p] = lost[p]]
      /\ fds[p] \in Table
  BY <1>3, TablesType
<1>5. /\ t \in Table
      /\ \A f \in FD : Solid(fds[p][f]) => t[f] = fds[p][f]
  BY <1>4, UnpipedTable
<1>6. Shell(p) => \A f \in FD : t[f][1] \notin {"r", "w"}
  BY <1>3, <1>4, UnpipedTable DEF TableInv, Sane
<1>7. /\ fds' = [fds EXCEPT ![p] = t] /\ fds'[p] = t
      /\ oldfds' = oldfds /\ lost' = lost
  BY <1>1, <1>3 DEF HasTable, DTypeOK
<1>8. depth[p] = 0 => First(p)'
  <2>1. depth[p] = 0 => First(p)
    BY <1>3 DEF TableInv
  <2> QED
    BY <1>1, <1>2, <1>7, <2>1 DEF First, Unredirected
<1> HIDE DEF t
<1>9. TableInv(p)'
  BY <1>1, <1>2, <1>3, <1>4, <1>5, <1>6, <1>7, <1>8, StaysPut
<1> QED
  BY <1>1, <1>2, <1>3, <1>4, <1>5, <1>7, <1>9, AloneKeeps

\* Only the two of a fork are left to look at.
LEMMA ForkKeeps ==
  ASSUME TypeOK, DescInv, NEW p \in PID, NEW c \in PID, NEW pst, NEW cst, NEW cctl,
         NEW b, Fork(p, c, pst, cst, cctl, b), status[p] # "free",
         NEW u \in Table, NEW t \in Table, Copies(p, c, u, t)
  PROVE  /\ p # c /\ fds'[p] = u /\ fds'[c] = t
         /\ oldfds'[p] = oldfds[p] /\ oldfds'[c] = oldfds[p]
         /\ lost'[p] = lost[p] /\ lost'[c] = lost[p]
         /\ TableInv(p)' /\ TableInv(c)' => DescInv'
<1>1. /\ \A q \in PID \ {p, c} : Rest(q)
      /\ p # c
  BY ForkRest
<1>2. DTypeOK
  BY DEF DescInv
<1>3. /\ oldfds[p] \in Seq([fd : FD, oldfd : FD \cup {-1}, lost : BOOLEAN])
      /\ lost[p] \in SUBSET FD
  BY <1>2, TablesType
<1>4. DTypeOK'
  BY <1>2, <1>3 DEF Copies, DTypeOK, Table
<1>5. /\ fds'[p] = u /\ fds'[c] = t
      /\ oldfds'[p] = oldfds[p] /\ oldfds'[c] = oldfds[p]
      /\ lost'[p] = lost[p] /\ lost'[c] = lost[p]
      /\ \A q \in PID \ {p, c} :
           fds'[q] = fds[q] /\ oldfds'[q] = oldfds[q] /\ lost'[q] = lost[q]
  BY <1>1, <1>2 DEF Copies, DTypeOK
<1>6. \A q \in PID \ {p, c} : TableInv(q)'
  BY <1>1, <1>5, RestKeeps DEF DescInv
<1> QED
  BY <1>1, <1>4, <1>5, <1>6 DEF DescInv

LEMMA CopiesKeep ==
  ASSUME TypeOK, DescInv, NEW p \in PID, NEW c \in PID, ForkCopies(p, c)
  PROVE  DescInv'
<1>1. PICK cst \in {"exec", "redirect"} : Fork(p, c, "wait", cst, ctl[p], base[p])
  BY DEF ForkCopies, EvalForkExec, EvalRedirFork
<1>2. status[p] = "eval" /\ Copies(p, c, fds[p], fds[p])
  BY DEF ForkCopies, EvalForkExec, EvalRedirFork, Runs, Evaluates
<1>3. DTypeOK /\ TableInv(p) /\ Live(p)
  BY <1>2 DEF DescInv, Live
<1>4. Len(oldfds[p]) \in Nat /\ fds[p] \in Table
  BY <1>3, TablesType
<1>5. /\ p # c /\ fds'[p] = fds[p] /\ fds'[c] = fds[p]
      /\ oldfds'[p] = oldfds[p] /\ oldfds'[c] = oldfds[p]
      /\ lost'[p] = lost[p] /\ lost'[c] = lost[p]
      /\ TableInv(p)' /\ TableInv(c)' => DescInv'
  BY <1>1, <1>2, <1>4, ForkKeeps
<1>6. /\ status'[p] = "wait" /\ ctl'[p] = ctl[p] /\ base'[p] = base[p] /\ depth'[p] = depth[p]
      /\ status'[c] = cst /\ ctl'[c] = ctl[p] /\ base'[c] = base[p] /\ depth'[c] > 0
  BY <1>1, <1>2, ForkRest
<1>7. Shell(p) => \A f \in FD : fds[p][f][1] \notin {"r", "w"}
  BY <1>2, <1>3 DEF TableInv, Sane
<1>8. depth[p] = 0 => First(p)'
  <2>1. depth[p] = 0 => First(p)
    BY <1>3 DEF TableInv
  <2> QED
    BY <1>2, <1>5, <1>6, <2>1 DEF First, Unredirected
<1>9. TableInv(p)'
  BY <1>2, <1>3, <1>4, <1>5, <1>6, <1>7, <1>8, StaysPut
<1>10. CountOk(c)'
  BY <1>3, <1>5, <1>6 DEF TableInv, CountOk, Deep
<1>11. ASSUME Shell(c)' PROVE Sane(c)'
  <2>1. Shell(p)
    BY <1>2, <1>6, <1>11 DEF Shell, Live
  <2>2. StackOk(fds[p], oldfds[p], lost[p])
    BY <1>3, <2>1 DEF TableInv, Sane
  <2>3. StackOk(fds'[c], oldfds'[c], lost'[c])
    BY <1>5, <2>2
  <2>4. status'[c] # "prompt"
    BY <1>6
  <2> QED
    BY <1>5, <1>7, <2>1, <2>3, <2>4 DEF Sane, StackOk, Kept, Outermost
<1>12. TableInv(c)'
  BY <1>6, <1>10, <1>11 DEF TableInv, Live
<1> QED
  BY <1>5, <1>9, <1>12

\* A side of a pipeline is no shell: it has been given no callers.
LEMMA SideOk ==
  ASSUME NEW c \in PID, status'[c] = "eval", ctl'[c].frames = <<>>, base'[c] = "pipe",
         depth'[c] > 0, Len(oldfds'[c]) \in Nat
  PROVE  TableInv(c)'
<1>1. CountOk(c)'
  <2>1. 0 \in 0 .. Len(oldfds'[c])
    OBVIOUS
  <2>2. Deep(ctl'[c].frames, 0)
    BY DeepEmpty
  <2> QED
    BY <2>1, <2>2 DEF CountOk, Deep
<1> QED
  BY <1>1 DEF TableInv, Shell, Live

LEMMA PlumbedTable ==
  ASSUME NEW t \in Table, NEW p \in PID, NEW side \in {0, 1}
  PROVE  Plumbed(t, p, side) \in Table
<1>1. 0 \in FD /\ 1 \in FD
  BY Numbers
<1> QED
  BY <1>1, UnpipedTable, Files DEF Plumbed, Table

LEMMA LeftSideKeeps ==
  ASSUME TypeOK, DescInv, NEW p \in PID, NEW c \in PID, ForkLeftSide(p, c)
  PROVE  DescInv'
<1> DEFINE u == Piped(fds[p], p)
           t == Plumbed(u, p, 1)
           call == Call(left[ctl[p].node], FALSE, <<>>)
<1>1. status[p] = "eval" /\ Fork(p, c, "fork2", "eval", call, "pipe") /\ Copies(p, c, u, t)
  BY DEF ForkLeftSide, EvalPipe, Evaluates
<1>2. DTypeOK /\ TableInv(p) /\ Live(p)
  BY <1>1 DEF DescInv, Live
<1>3. Len(oldfds[p]) \in Nat /\ fds[p] \in Table
  BY <1>2, TablesType
<1>4. /\ u \in Table
      /\ \A f \in FD : fds[p][f] # Closed => u[f] = fds[p][f]
      /\ \A f \in FD : u[f] \in {fds[p][f], End(p, "r"), End(p, "w")}
  BY <1>3, PipedTable
<1> HIDE DEF u
<1>5. t \in Table
  BY <1>4, PlumbedTable
<1>6. call.frames = <<>>
  BY DEF Call
<1> HIDE DEF t, call
<1>7. /\ p # c /\ fds'[p] = u /\ fds'[c] = t
      /\ oldfds'[p] = oldfds[p] /\ oldfds'[c] = oldfds[p]
      /\ lost'[p] = lost[p] /\ lost'[c] = lost[p]
      /\ TableInv(p)' /\ TableInv(c)' => DescInv'
  BY <1>1, <1>4, <1>5, ForkKeeps
<1>8. /\ status'[p] = "fork2" /\ ctl'[p] = ctl[p] /\ base'[p] = base[p] /\ depth'[p] = depth[p]
      /\ status'[c] = "eval" /\ ctl'[c] = call /\ base'[c] = "pipe" /\ depth'[c] > 0
  BY <1>1, ForkRest
<1>9. TableInv(c)'
  BY <1>3, <1>6, <1>7, <1>8, SideOk
<1>10. Shell(p) => \A f \in FD : /\ Solid(fds[p][f]) => u[f] = fds[p][f]
                                 /\ u[f][1] \in {"r", "w"} => u[f][2] = p
  <2>1. Shell(p) => \A f \in FD : fds[p][f][1] \notin {"r", "w"}
    BY <1>1, <1>2 DEF TableInv, Sane
  <2> QED
    BY <1>4, <2>1, Files DEF Solid
<1>11. depth[p] = 0 => First(p)'
  <2> SUFFICES ASSUME depth[p] = 0 PROVE First(p)'
    OBVIOUS
  <2>1. First(p) /\ fds[p] = AtPrompt
    BY <1>1, <1>2 DEF TableInv, First
  <2>2. Unpiped(u, p) = AtPrompt
    <3>1. Unpiped(u, p) \in Table /\ AtPrompt \in Table
      BY <1>4, UnpipedTable, Files DEF AtPrompt, Table
    <3>2. ASSUME NEW f \in FD PROVE Unpiped(u, p)[f] = AtPrompt[f]
      <4>1. AtPrompt[f] \in {Tty, Closed} /\ AtPrompt[f] \notin {End(p, "r"), End(p, "w")}
        BY Files DEF AtPrompt, Solid
      <4> QED
        BY <1>4, <2>1, <4>1, Files DEF Unpiped, Solid
    <3> QED
      BY <3>1, <3>2 DEF Table
  <2>3. Unpiped(fds[p], p)' = AtPrompt
    BY <1>7, <2>2 DEF Unpiped
  <2> QED
    BY <1>7, <1>8, <2>1, <2>3 DEF First, Unredirected
<1>12. TableInv(p)'
  BY <1>1, <1>2, <1>3, <1>7, <1>8, <1>10, <1>11, StaysPut
<1> QED
  BY <1>7, <1>9, <1>12

LEMMA RightSideKeeps ==
  ASSUME TypeOK, DescInv, NEW p \in PID, NEW c \in PID, ForkRightSide(p, c)
  PROVE  DescInv'
<1> DEFINE u == Unpiped(fds[p], p)
           t == Plumbed(fds[p], p, 0)
           call == Call(right[ctl[p].node], FALSE, <<>>)
<1>1. status[p] = "fork2" /\ Fork(p, c, "waitpid", "eval", call, "pipe") /\ Copies(p, c, u, t)
  BY DEF ForkRightSide, EvalPipeRight
<1>2. DTypeOK /\ TableInv(p) /\ Live(p)
  BY <1>1 DEF DescInv, Live
<1>3. Len(oldfds[p]) \in Nat /\ fds[p] \in Table
  BY <1>2, TablesType
<1>4. /\ u \in Table
      /\ \A f \in FD : Solid(fds[p][f]) => u[f] = fds[p][f]
      /\ Shell(p) => \A f \in FD : u[f][1] \notin {"r", "w"}
  BY <1>2, <1>3, UnpipedTable DEF TableInv, Sane
<1>5. t \in Table
  BY <1>3, PlumbedTable
<1>6. call.frames = <<>>
  BY DEF Call
<1>7. depth[p] = 0 => First(p) /\ u = AtPrompt
  BY <1>1, <1>2 DEF TableInv, First
<1> HIDE DEF u, t, call
<1>8. /\ p # c /\ fds'[p] = u /\ fds'[c] = t
      /\ oldfds'[p] = oldfds[p] /\ oldfds'[c] = oldfds[p]
      /\ lost'[p] = lost[p] /\ lost'[c] = lost[p]
      /\ TableInv(p)' /\ TableInv(c)' => DescInv'
  BY <1>1, <1>4, <1>5, ForkKeeps
<1>9. /\ status'[p] = "waitpid" /\ ctl'[p] = ctl[p] /\ base'[p] = base[p] /\ depth'[p] = depth[p]
      /\ status'[c] = "eval" /\ ctl'[c] = call /\ base'[c] = "pipe" /\ depth'[c] > 0
  BY <1>1, ForkRest
<1>10. TableInv(c)'
  BY <1>3, <1>6, <1>8, <1>9, SideOk
<1>11. depth[p] = 0 => First(p)'
  BY <1>7, <1>8, <1>9 DEF First, Unredirected
<1>12. TableInv(p)'
  BY <1>1, <1>2, <1>3, <1>4, <1>8, <1>9, <1>11, StaysPut
<1> QED
  BY <1>8, <1>10, <1>12

-----------------------------------------------------------------------------
(* The invariant of the tables                                             *)

LEMMA DescStep ==
  ASSUME TypeOK, CallInv, Prompters, DescInv, [DNext]_dvars
  PROVE  DescInv'
<1>1. CASE UNCHANGED dvars \/ (Done /\ UNCHANGED tables)
  <2>1. UNCHANGED vars /\ UNCHANGED tables
    BY <1>1 DEF dvars, Done
  <2>2. \A q \in PID : TableInv(q)'
    BY <2>1, RestKeeps DEF DescInv, Rest, vars, tables
  <2> QED
    BY <2>1, <2>2 DEF DescInv, DTypeOK, tables
<1>2. ASSUME NEW p \in PID,
             BackToPrompt(p) \/ SubmitLine(p) \/ QuitShell(p) \/ Replace(p)
             \/ ReplaceFails(p) \/ LeaveRedirection(p) \/ GiveUpPipe(p)
             \/ BecomeProgram(p) \/ Ends(p) \/ Other(p)
      PROVE  DescInv'
  BY <1>2, PromptKeeps, SubmitKeeps, DeathKeeps, ReplaceKeeps, ReplaceFailsKeeps,
     LeaveKeeps, GiveUpKeeps, ExecKeeps, OtherKeeps
<1>3. ASSUME NEW p \in PID, NEW c \in PID,
             ForkLeftSide(p, c) \/ ForkRightSide(p, c) \/ ForkCopies(p, c)
      PROVE  DescInv'
  BY <1>3, LeftSideKeeps, RightSideKeeps, CopiesKeep
<1> QED
  BY <1>1, <1>2, <1>3 DEF DNext

LEMMA DescInit == DInit => DescInv
<1> SUFFICES ASSUME DInit PROVE DescInv
  OBVIOUS
<1>1. AtPrompt \in Table /\ NoFds \in Table
  BY Files DEF AtPrompt, NoFds, Table
<1>2. /\ status = [p \in PID |-> IF p = Root THEN "prompt" ELSE "free"]
      /\ \A p \in PID : ctl[p].frames = <<>> /\ base[p] = "main" /\ depth[p] = 0
      /\ fds = [p \in PID |-> IF p = Root THEN AtPrompt ELSE NoFds]
      /\ oldfds = [p \in PID |-> <<>>]
      /\ lost = [p \in PID |-> {}]
      /\ tty = "raw"
  BY DEF DInit, Init, Idle, Value
<1>3. DTypeOK
  <2>1. <<>> \in Seq([fd : FD, oldfd : FD \cup {-1}, lost : BOOLEAN])
    OBVIOUS
  <2>2. oldfds \in [PID -> Seq([fd : FD, oldfd : FD \cup {-1}, lost : BOOLEAN])]
    BY <1>2, <2>1
  <2> QED
    BY <1>1, <1>2, <2>2 DEF DTypeOK, Table
<1>4. ASSUME NEW q \in PID PROVE TableInv(q)
  <2>1. CountOk(q)
    <3>1. 0 \in 0 .. Len(oldfds[q]) /\ 0 = Len(oldfds[q])
      BY <1>2
    <3> QED
      BY <1>2, <3>1, DeepEmpty DEF CountOk
  <2>2. ASSUME Live(q) PROVE fds[q] = AtPrompt /\ status[q] = "prompt"
    BY <1>2, <2>2 DEF Live
  <2>3. /\ \A f \in 0 .. 5 : AtPrompt[f] = Tty
        /\ \A f \in FD : AtPrompt[f] \in {Tty, Closed}
    BY Numbers DEF AtPrompt
  <2>4. ASSUME Live(q) PROVE Sane(q)
    <3>1. /\ <<>> \in Seq(Entry) /\ \A i \in 1 .. Len(<<>>) : FALSE
          /\ \A f \in 3 .. 5 : f \in 0 .. 5 /\ f - 3 \in 0 .. 5
      OBVIOUS
    <3>2. StackOk(AtPrompt, <<>>, {})
      BY <2>3, <3>1, Files DEF StackOk, Kept
    <3>3. StackOk(fds[q], oldfds[q], lost[q])
      BY <1>2, <2>2, <2>4, <3>2
    <3>4. \A f \in FD : fds[q][f][1] \notin {"r", "w"}
      BY <2>2, <2>3, <2>4, Files DEF Solid
    <3> QED
      BY <1>2, <2>2, <2>3, <2>4, <3>1, <3>3, <3>4 DEF Sane
  <2>5. ASSUME Live(q) PROVE First(q)
    <3>1. Unredirected(<<>>)
      BY DEF Unredirected
    <3> QED
      BY <1>2, <2>2, <2>5, <3>1 DEF First
  <2>6. ~Live(q) => fds[q] = NoFds
    BY <1>2 DEF Live
  <2> QED
    BY <2>1, <2>4, <2>5, <2>6 DEF TableInv, Shell
<1> QED
  BY <1>3, <1>4 DEF DescInv

LEMMA DescInvariant == DSpec => []DescInv
<1>1. TypeInv => TypeOK
  BY DEF TypeInv
<1>2. HomeInv => Prompters
  BY DEF HomeInv
<1>3. TypeOK /\ CallInv /\ Prompters /\ DescInv /\ [DNext]_dvars => DescInv'
  BY DescStep
<1> QED
  BY <1>1, <1>2, <1>3, DescInit, TablesFollow, TypeInvariant, CallInvariant, HomeInvariant, PTL
  DEF DSpec

\* The tables hold files, and so on, whatever is replaced, copied and given up.
THEOREM TablesTyped == DSpec => []DTypeOK
<1>1. DescInv => DTypeOK
  BY DEF DescInv
<1> QED
  BY <1>1, DescInvariant, PTL

\* Wherever a shell has climbed out of, it prompts with the terminal on 0, 1 and 2, but
\* for a copy that was lost, and with no end of a pipe; the first shell has its own
\* table, descriptor by descriptor.
THEOREM PromptsRestored == DSpec => []TablesAtPrompt
<1>1. DescInv /\ HomeInv /\ PromptAlone => TablesAtPrompt
  <2> SUFFICES ASSUME DescInv, Prompters, PromptAlone,
                      NEW p \in PID, status[p] = "prompt", ~pipeForkFailed
               PROVE  /\ depth[p] = 0 => fds[p] = AtPrompt
                      /\ \A f \in 3 .. 5 : f \notin lost[p] =>
                           fds[p][f] = Tty /\ fds[p][f - 3] = Tty
                      /\ \A q \in PID, f \in FD : fds[q][f][1] \notin {"r", "w"}
    BY DEF HomeInv, TablesAtPrompt
  <2>1. Shell(p) /\ base[p] = "main" /\ Live(p)
    BY DEF Prompters, Shell, Live
  <2>2. DTypeOK /\ TableInv(p) /\ Sane(p)
    BY <2>1 DEF DescInv, TableInv
  <2>3. depth[p] = 0 => fds[p] = AtPrompt
    BY <2>1, <2>2 DEF TableInv, First
  <2>4. oldfds[p] = <<>>
    <3>1. Deep(<<>>, Len(oldfds[p]))
      BY <2>1, <2>2 DEF TableInv, CountOk, Sane
    <3>2. oldfds[p] \in Seq([fd : FD, oldfd : FD \cup {-1}, lost : BOOLEAN])
      BY <2>2, TablesType
    <3> QED
      BY <3>1, <3>2, DeepEmpty
  <2>5. ASSUME NEW f \in 3 .. 5, f \notin lost[p]
        PROVE  fds[p][f] = Tty /\ fds[p][f - 3] = Tty
    <3>1. Kept(f, fds[p], <<>>, lost[p])
      BY <2>2, <2>4 DEF Sane, StackOk
    <3>2. fds[p][f] = Tty
      BY <2>5, <3>1 DEF Kept
    <3> QED
      BY <2>2, <2>5, <3>2 DEF Sane
  <2>6. ASSUME NEW q \in PID, NEW f \in FD PROVE fds[q][f][1] \notin {"r", "w"}
    <3>1. CASE Live(q)
      <4>1. Shell(q) /\ status[q] # "fork2"
        BY <2>1, <3>1 DEF PromptAlone
      <4> QED
        BY <4>1 DEF DescInv, TableInv, Sane
    <3>2. CASE ~Live(q)
      BY <3>2, Files DEF DescInv, TableInv, NoFds
    <3> QED
      BY <3>1, <3>2
  <2> QED
    BY <2>3, <2>5, <2>6
<1> QED
  BY <1>1, DescInvariant, TablesFollow, HomeInvariant, PromptsAlone, PTL

-----------------------------------------------------------------------------
(* The mode of the terminal                                                *)

\* The terminal is raw if some prompt has it on descriptor 0.
TtyInv ==
  ~pipeForkFailed => (tty = "raw" <=> \E p \in PID : status[p] = "prompt" /\ fds[p][0] = Tty)

\* Nobody comes to his prompt or leaves it.
NoPrompt ==
  /\ tty' = tty
  /\ \A q \in PID :
       /\ status'[q] = "prompt" <=> status[q] = "prompt"
       /\ status[q] = "prompt" => fds'[q] = fds[q]

LEMMA NoPromptAlone ==
  ASSUME DTypeOK, NEW p \in PID, \A q \in PID \ {p} : Rest(q),
         status[p] # "prompt", status'[p] # "prompt", tty' = tty,
         fds' = fds \/ \E t : fds' = [fds EXCEPT ![p] = t]
  PROVE  NoPrompt
BY DEF NoPrompt, Rest, DTypeOK

LEMMA NoPromptDeath ==
  ASSUME TypeOK, DTypeOK, NEW p \in PID, Die(p), Closes(p), status[p] # "prompt",
         tty' = tty
  PROVE  NoPrompt
<1>1. \A q \in PID \ {p} : Rest(q)
  BY DieRest
<1>2. status'[p] # "prompt"
  BY DEF Die, TypeOK
<1> QED
  BY <1>1, <1>2, NoPromptAlone DEF Closes

LEMMA NoPromptFork ==
  ASSUME TypeOK, DTypeOK, NEW p \in PID, NEW c \in PID,
         NEW pst, NEW cst, NEW cctl, NEW b, Fork(p, c, pst, cst, cctl, b),
         status[p] \in {"eval", "fork2"}, pst # "prompt", cst # "prompt",
         NEW u, NEW t, Copies(p, c, u, t)
  PROVE  NoPrompt
<1>1. /\ \A q \in PID \ {p, c} : Rest(q)
      /\ status'[p] = pst /\ status'[c] = cst
  BY ForkRest
<1>2. status[c] = "free"
  BY DEF Fork
<1> QED
  BY <1>1, <1>2 DEF NoPrompt, Copies, Rest, DTypeOK

\* These are the steps that do not touch the terminal.
LEMMA NoPromptStep ==
  ASSUME TypeOK, CallInv, DTypeOK, [DNext]_dvars,
         \A p \in PID : ~BackToPrompt(p) /\ ~SubmitLine(p) /\ ~QuitShell(p)
  PROVE  NoPrompt
<1>1. CASE UNCHANGED dvars \/ (Done /\ UNCHANGED tables)
  BY <1>1 DEF NoPrompt, dvars, vars, tables, Done
<1>2. ASSUME NEW p \in PID, NEW st, NEW c, Step(p, st, c),
             status[p] # "prompt", st # "prompt", tty' = tty,
             fds' = fds \/ \E t : fds' = [fds EXCEPT ![p] = t]
      PROVE  NoPrompt
  BY <1>2, StepRest, NoPromptAlone
<1>3. ASSUME NEW p \in PID, Replace(p) \/ BecomeProgram(p) PROVE NoPrompt
  <2>1. status[p] \in {"redirect", "exec"} /\ tty' = tty
    BY <1>3 DEF Replace, Redirect, BecomeProgram, Exec
  <2>2. fds' = fds \/ \E t : fds' = [fds EXCEPT ![p] = t]
    BY <1>3 DEF Replace, BecomeProgram
  <2>3. \E st \in {"eval", "program"} : \E c : Step(p, st, c)
    BY <1>3 DEF Replace, Redirect, Eval, BecomeProgram, Exec
  <2> QED
    BY <1>2, <2>1, <2>2, <2>3
<1>4. ASSUME NEW p \in PID, ReplaceFails(p) PROVE NoPrompt
  <2>1. status[p] = "redirect" /\ tty' = tty
    BY <1>4 DEF ReplaceFails, RedirectFailsForked, RedirectFailsInPlace
  <2>2. CASE RedirectFailsForked(p) /\ Closes(p)
    BY <2>1, <2>2, NoPromptDeath DEF RedirectFailsForked
  <2>3. CASE ~(RedirectFailsForked(p) /\ Closes(p))
    <3>1. Step(p, "return", Value(-1, ctl[p].frames))
      BY <1>4, <2>3 DEF ReplaceFails, RedirectFailsInPlace, Return
    <3>2. \E t : fds' = [fds EXCEPT ![p] = t]
      BY <1>4, <2>3 DEF ReplaceFails, HasTable
    <3> QED
      BY <1>2, <2>1, <3>1, <3>2
  <2> QED
    BY <2>2, <2>3
<1>5. ASSUME NEW p \in PID, LeaveRedirection(p) PROVE NoPrompt
  <2>1. status[p] = "return" /\ tty' = tty
    BY <1>5 DEF LeaveRedirection, ReturnRedir, ReturnRedirFork, Returns
  <2>2. CASE ReturnRedirFork(p) /\ ctl[p].ret = 0 /\ Closes(p)
    BY <2>1, <2>2, NoPromptDeath DEF ReturnRedirFork
  <2>3. CASE ~(ReturnRedirFork(p) /\ ctl[p].ret = 0 /\ Closes(p))
    <3>1. PutBack(p) /\ \E c : Step(p, "return", c)
      BY <1>5, <2>3 DEF LeaveRedirection, ReturnRedir, ReturnRedirFork, Return
    <3>2. \E t : fds' = [fds EXCEPT ![p] = t]
      BY <3>1 DEF PutBack
    <3> QED
      BY <1>2, <2>1, <3>1, <3>2
  <2> QED
    BY <2>2, <2>3
<1>6. ASSUME NEW p \in PID, GiveUpPipe(p) PROVE NoPrompt
  <2>1. /\ status[p] = "fork2" /\ status' = [status EXCEPT ![p] = "return"] /\ tty' = tty
        /\ \E t : fds' = [fds EXCEPT ![p] = t]
    BY <1>6 DEF GiveUpPipe, PipeRightForkFails, HasTable
  <2> QED
    BY <2>1 DEF NoPrompt, TypeOK, DTypeOK
<1>7. ASSUME NEW p \in PID, Ends(p) PROVE NoPrompt
  <2>1. /\ Die(p) /\ Closes(p) /\ status[p] \in {"eval", "program", "return"}
        /\ tty' = tty
    BY <1>7
    DEF Ends, EvalExit, EvalFault, ProgramExit, ReturnToPipeChild, Runs, Evaluates
  <2> QED
    BY <2>1, NoPromptDeath
<1>8. ASSUME NEW p \in PID, Other(p) PROVE NoPrompt
  <2>1. Quiet(p) /\ fds' = fds /\ tty' = tty
    BY <1>8, QuietOther DEF Other, tables
  <2> QED
    BY <2>1, NoPromptAlone DEF Quiet
<1>9. ASSUME NEW p \in PID, NEW c \in PID,
             ForkLeftSide(p, c) \/ ForkRightSide(p, c) \/ ForkCopies(p, c)
      PROVE  NoPrompt
  <2>1. status[p] \in {"eval", "fork2"}
    BY <1>9
    DEF ForkLeftSide, ForkRightSide, ForkCopies, EvalPipe, EvalPipeRight, EvalForkExec,
        EvalRedirFork, Runs, Evaluates
  <2>2. \E pst \in {"fork2", "waitpid", "wait"}, cst \in {"eval", "exec", "redirect"} :
          \E cctl, b : Fork(p, c, pst, cst, cctl, b)
    BY <1>9
    DEF ForkLeftSide, ForkRightSide, ForkCopies, EvalPipe, EvalPipeRight, EvalForkExec,
        EvalRedirFork
  <2>3. \E u, t : Copies(p, c, u, t)
    BY <1>9 DEF ForkLeftSide, ForkRightSide, ForkCopies
  <2> QED
    BY <2>1, <2>2, <2>3, NoPromptFork
<1> QED
  BY <1>1, <1>3, <1>4, <1>5, <1>6, <1>7, <1>8, <1>9 DEF DNext

LEMMA TtyStep ==
  ASSUME TypeOK, CallInv, DescInv, ExclusiveInv, ForegroundExclusive, Prompters, TtyInv,
         [DNext]_dvars, pipeForkFailed => pipeForkFailed'
  PROVE  TtyInv'
<1> SUFFICES ASSUME ~pipeForkFailed, ~pipeForkFailed',
                    tty = "raw" <=> \E p \in PID : status[p] = "prompt" /\ fds[p][0] = Tty
             PROVE  tty' = "raw" <=> \E p \in PID : status'[p] = "prompt" /\ fds'[p][0] = Tty
  BY DEF TtyInv
<1>1. \A p, q \in PID : Active(p) /\ Active(q) => p = q
  BY DEF ForegroundExclusive
<1>2. \A q \in PID : status[q] = "prompt" => Active(q)
  BY DEF Prompters, Active, Shell, Live
<1>3. DTypeOK
  BY DEF DescInv
<1>4. ASSUME NEW p \in PID, BackToPrompt(p)
      PROVE  tty' = "raw" <=> \E q \in PID : status'[q] = "prompt" /\ fds'[q][0] = Tty
  <2>1. status[p] = "return" /\ base[p] = "main" /\ Step(p, "prompt", Idle)
    BY <1>4 DEF BackToPrompt, ReturnToMain
  <2>2. \A q \in PID : status[q] # "prompt"
    BY <1>1, <1>2, <2>1 DEF Active, Shell, Live
  <2>3. \A q \in PID : status'[q] = "prompt" <=> q = p
    BY <2>1, <2>2 DEF Step, TypeOK
  <2>4. tty' = IF fds'[p][0] = Tty THEN "raw" ELSE tty
    BY <1>4 DEF BackToPrompt, SetTermios
  <2> QED
    BY <2>2, <2>3, <2>4
<1>5. ASSUME NEW p \in PID, SubmitLine(p) \/ QuitShell(p)
      PROVE  tty' = "raw" <=> \E q \in PID : status'[q] = "prompt" /\ fds'[q][0] = Tty
  <2>1. status[p] = "prompt" /\ tty' = IF fds[p][0] = Tty THEN "cooked" ELSE tty
    BY <1>5 DEF SubmitLine, Submit, QuitShell, Quit, SetTermios
  <2>2. \A q \in PID : status[q] = "prompt" => q = p
    BY <1>1, <1>2, <2>1
  <2>3. \A q \in PID : status'[q] # "prompt"
    BY <1>5, <2>2 DEF SubmitLine, Submit, QuitShell, Quit, Die, TypeOK
  <2> QED
    BY <2>1, <2>2, <2>3
<1>6. CASE \A p \in PID : ~BackToPrompt(p) /\ ~SubmitLine(p) /\ ~QuitShell(p)
  <2>1. NoPrompt
    BY <1>3, <1>6, NoPromptStep
  <2> QED
    BY <2>1 DEF NoPrompt
<1> QED
  BY <1>4, <1>5, <1>6

\* The terminal is raw exactly while a shell reads a line, unless a redirection of 0 has
\* been lost: the one shell that is active has set it, however it came to be active.
THEOREM RawOnlyAtPrompt == DSpec => []RawAtPrompt
<1>1. DInit => TtyInv
  <2> SUFFICES ASSUME DInit PROVE status[Root] = "prompt" /\ fds[Root][0] = Tty /\ tty = "raw"
    BY PidAssumption DEF TtyInv
  <2> QED
    BY PidAssumption, Numbers DEF DInit, Init, AtPrompt
<1>2. TypeInv /\ CallInv /\ DescInv /\ ExclusiveInv /\ ForegroundExclusive /\ HomeInv /\ TtyInv
        /\ [Next]_vars /\ [DNext]_dvars => TtyInv'
  BY TtyStep, ForkFailedStep DEF TypeInv, HomeInv
<1>3. DescInv /\ HomeInv /\ TtyInv => RawAtPrompt
  <2> SUFFICES ASSUME DescInv, Prompters, NEW p \in PID, status[p] = "prompt",
                      lost[p] \cap {0, 3} = {}
               PROVE  fds[p][0] = Tty
    BY DEF HomeInv, TtyInv, RawAtPrompt
  <2>1. Sane(p)
    BY DEF DescInv, TableInv, Prompters, Shell, Live
  <2>2. 3 \in 3 .. 5 /\ 3 \notin lost[p] /\ 3 - 3 = 0
    OBVIOUS
  <2> QED
    BY <2>1, <2>2 DEF Sane
<1> QED
  BY <1>1, <1>2, <1>3, TablesFollow, TypeInvariant, CallInvariant, DescInvariant,
     ExclusiveInvariant, OneShellAtATime, HomeInvariant, PTL
  DEF DSpec, Spec

-----------------------------------------------------------------------------
(* Folds over the callers                                                  *)

\* FoldRight(Through, f, b), on any set of the callers f.
Folded(f, b) ==
  LET iter[x \in SUBSET DOMAIN f] ==
        IF x = {} THEN b ELSE Through(f[Min(x)], iter[x \ {Min(x)}])
  IN  iter

\* g folds the callers from k on.
Folds(g, k, f, b) ==
  g = [x \in SUBSET (k .. Len(f)) |->
         IF x = {} THEN b ELSE Through(f[Min(x)], g[x \ {Min(x)}])]

LEMMA LeastOfRange ==
  ASSUME NEW k \in Nat, NEW n \in Nat, NEW x \in SUBSET (k .. n), x # {}
  PROVE  /\ Min(x) \in x /\ Min(x) \in k .. n
         /\ k \in x => Min(x) = k /\ x \ {k} \in SUBSET (k + 1 .. n)
         /\ k \notin x => x \in SUBSET (k + 1 .. n)
         /\ x \ {Min(x)} \in SUBSET (k .. n)
<1>1. x \subseteq 0 .. n
  OBVIOUS
<1>2. Min(x) \in x /\ \A y \in x : Min(x) =< y
  BY <1>1, LeastOf
<1>3. ASSUME k \in x PROVE Min(x) = k
  <2> DEFINE l == Min(x)
  <2>1. l =< k /\ l \in k .. n
    BY <1>2, <1>3
  <2> HIDE DEF l
  <2>2. l = k
    BY <2>1
  <2> QED
    BY <2>2 DEF l
<1>4. k \in x => x \ {k} \in SUBSET (k + 1 .. n)
  OBVIOUS
<1>5. k \notin x => x \in SUBSET (k + 1 .. n)
  OBVIOUS
<1> QED
  BY <1>2, <1>3, <1>4, <1>5

\* One more caller is folded.
LEMMA FoldsMore ==
  ASSUME NEW f \in Seq(Frame), NEW b, NEW k \in 1 .. Len(f), NEW g, Folds(g, k + 1, f, b)
  PROVE  \E h : Folds(h, k, f, b)
<1> DEFINE h == [x \in SUBSET (k .. Len(f)) |->
                   IF k \in x THEN Through(f[k], g[x \ {k}]) ELSE g[x]]
<1>1. k \in Nat /\ Len(f) \in Nat
  OBVIOUS
<1>2. ASSUME NEW x \in SUBSET (k .. Len(f))
      PROVE  h[x] = IF x = {} THEN b ELSE Through(f[Min(x)], h[x \ {Min(x)}])
  <2>1. CASE x = {}
    <3>1. x \in SUBSET (k + 1 .. Len(f)) /\ k \notin x
      BY <2>1
    <3> QED
      BY <2>1, <3>1 DEF Folds
  <2>2. CASE x # {} /\ k \in x
    <3>1. Min(x) = k /\ x \ {k} \in SUBSET (k + 1 .. Len(f)) /\ x \ {k} \in SUBSET (k .. Len(f))
      BY <1>1, <2>2, LeastOfRange
    <3>2. h[x \ {k}] = g[x \ {k}]
      BY <3>1
    <3> QED
      BY <2>2, <3>1, <3>2
  <2>3. CASE x # {} /\ k \notin x
    <3> DEFINE y == x \ {Min(x)}
    <3>1. /\ x \in SUBSET (k + 1 .. Len(f))
          /\ y \in SUBSET (k .. Len(f)) /\ y \in SUBSET (k + 1 .. Len(f)) /\ k \notin y
      BY <1>1, <2>3, LeastOfRange
    <3>2. h[x] = g[x] /\ h[y] = g[y]
      BY <2>3, <3>1
    <3>3. g[x] = Through(f[Min(x)], g[y])
      BY <2>3, <3>1 DEF Folds
    <3> QED
      BY <2>3, <3>2, <3>3
  <2> QED
    BY <2>1, <2>2, <2>3
<1>3. h = [x \in SUBSET (k .. Len(f)) |->
             IF x = {} THEN b ELSE Through(f[Min(x)], h[x \ {Min(x)}])]
  BY <1>2
<1> QED
  BY <1>3 DEF Folds

LEMMA FoldedIs ==
  ASSUME NEW f \in Seq(Frame), NEW b
  PROVE  /\ FoldRight(Through, f, b) = Folded(f, b)[1 .. Len(f)]
         /\ \A x \in SUBSET (1 .. Len(f)) :
              Folded(f, b)[x] =
                IF x = {} THEN b ELSE Through(f[Min(x)], Folded(f, b)[x \ {Min(x)}])
<1> DEFINE n == Len(f)
           P(i) == \E g : Folds(g, n + 1 - i, f, b)
           S == {i \in 0 .. n : ~P(i)}
<1>1. n \in Nat /\ DOMAIN f = 1 .. n
  OBVIOUS
<1>2. P(0)
  <2> DEFINE g == [x \in SUBSET (n + 1 .. n) |-> b]
  <2>1. n + 1 .. n = {} /\ n + 1 - 0 = n + 1
    BY <1>1
  <2>2. \A x \in SUBSET (n + 1 .. n) : x = {}
    BY <2>1
  <2>3. g = [x \in SUBSET (n + 1 .. n) |->
               IF x = {} THEN b ELSE Through(f[Min(x)], g[x \ {Min(x)}])]
    BY <2>2
  <2>4. Folds(g, n + 1, f, b)
    BY <2>3 DEF Folds
  <2> QED
    BY <2>1, <2>4
<1>3. ASSUME NEW i \in 1 .. n, P(i - 1) PROVE P(i)
  <2> DEFINE k == n + 1 - i
  <2>1. k \in 1 .. n /\ n + 1 - (i - 1) = k + 1
    BY <1>1
  <2> HIDE DEF k
  <2>2. PICK g : Folds(g, k + 1, f, b)
    BY <1>3, <2>1
  <2>3. \E h : Folds(h, k, f, b)
    BY <2>1, <2>2, FoldsMore
  <2> QED
    BY <2>3 DEF k
<1> HIDE DEF P
<1>4. S = {}
  <2> SUFFICES ASSUME S # {} PROVE FALSE
    OBVIOUS
  <2>1. Min(S) \in S /\ \A y \in S : Min(S) =< y
    BY <1>1, LeastOf
  <2>2. Min(S) \in 1 .. n /\ Min(S) - 1 \in 0 .. n /\ Min(S) - 1 \notin S
    BY <1>1, <1>2, <2>1
  <2> QED
    BY <1>3, <2>1, <2>2
<1>5. P(n)
  BY <1>1, <1>4
<1>6. PICK g : g = [x \in SUBSET DOMAIN f |->
                      IF x = {} THEN b ELSE Through(f[Min(x)], g[x \ {Min(x)}])]
  <2>1. n + 1 - n = 1
    BY <1>1
  <2> QED
    BY <1>1, <1>5, <2>1 DEF P, Folds
<1>7. Folded(f, b) = [x \in SUBSET DOMAIN f |->
                        IF x = {} THEN b
                        ELSE Through(f[Min(x)], Folded(f, b)[x \ {Min(x)}])]
  BY <1>6 DEF Folded
<1>8. FoldRight(Through, f, b) = Folded(f, b)[DOMAIN f]
  BY DEF FoldRight, MapThenFoldSet, Folded
<1> QED
  BY <1>1, <1>7, <1>8

\* The fold from k on is that from k + 1 on, and then what the caller k does.
LEMMA FoldedFrom ==
  ASSUME NEW f \in Seq(Frame), NEW b, NEW k \in 1 .. Len(f)
  PROVE  Folded(f, b)[k .. Len(f)] = Through(f[k], Folded(f, b)[k + 1 .. Len(f)])
<1> DEFINE x == k .. Len(f)
<1>1. k \in Nat /\ Len(f) \in Nat
  OBVIOUS
<1>2. x \in SUBSET (1 .. Len(f)) /\ x \in SUBSET (k .. Len(f)) /\ k \in x /\ x # {}
  OBVIOUS
<1>3. Min(x) = k /\ x \ {k} = k + 1 .. Len(f)
  <2>1. Min(x) = k
    BY <1>1, <1>2, LeastOfRange
  <2>2. x \ {k} = k + 1 .. Len(f)
    BY <1>1
  <2> QED
    BY <2>1, <2>2
<1> HIDE DEF x
<1>4. Folded(f, b)[x] = Through(f[Min(x)], Folded(f, b)[x \ {Min(x)}])
  <2>1. \A y \in SUBSET (1 .. Len(f)) :
          Folded(f, b)[y] =
            IF y = {} THEN b ELSE Through(f[Min(y)], Folded(f, b)[y \ {Min(y)}])
    BY FoldedIs
  <2>2. Folded(f, b)[x] =
          IF x = {} THEN b ELSE Through(f[Min(x)], Folded(f, b)[x \ {Min(x)}])
    BY <1>2, <2>1, Zenon
  <2> QED
    BY <1>2, <2>2
<1> QED
  BY <1>3, <1>4 DEF x

LEMMA FoldedEmpty ==
  ASSUME NEW f \in Seq(Frame), NEW b
  PROVE  Folded(f, b)[Len(f) + 1 .. Len(f)] = b
<1>1. Len(f) + 1 .. Len(f) = {} /\ {} \in SUBSET (1 .. Len(f))
  OBVIOUS
<1> QED
  BY <1>1, FoldedIs

\* Callers that are no redirections do nothing.
LEMMA FoldNothing ==
  ASSUME NEW f \in Seq(Frame), NEW b, Unredirected(f)
  PROVE  FoldRight(Through, f, b) = b
<1> DEFINE n == Len(f)
           S == {i \in 0 .. n : Folded(f, b)[n + 1 - i .. n] # b}
<1>1. n \in Nat
  OBVIOUS
<1>2. 0 \notin S
  BY <1>1, FoldedEmpty
<1>3. ASSUME NEW i \in 1 .. n, i - 1 \notin S PROVE i \notin S
  <2>1. /\ n + 1 - i \in 1 .. n /\ (n + 1 - i) + 1 = n + 1 - (i - 1)
        /\ i - 1 \in 0 .. n
    BY <1>1
  <2>2. Folded(f, b)[n + 1 - i .. n] = Through(f[n + 1 - i], Folded(f, b)[(n + 1 - i) + 1 .. n])
    BY <2>1, FoldedFrom
  <2>3. Folded(f, b)[(n + 1 - i) + 1 .. n] = b
    BY <1>3, <2>1
  <2>4. f[n + 1 - i].k \notin Redirs
    BY <2>1 DEF Unredirected
  <2> QED
    BY <2>2, <2>3, <2>4 DEF Through, Redirs
<1>4. S = {}
  <2> SUFFICES ASSUME S # {} PROVE FALSE
    OBVIOUS
  <2>1. Min(S) \in S /\ \A y \in S : Min(S) =< y
    BY <1>1, LeastOf
  <2>2. Min(S) \in 1 .. n /\ Min(S) - 1 \notin S
    BY <1>1, <1>2, <2>1
  <2> QED
    BY <1>3, <2>1, <2>2
<1>5. Folded(f, b)[1 .. n] = b
  <2>1. n \in 0 .. n /\ n + 1 - n = 1
    BY <1>1
  <2> QED
    BY <1>4, <2>1
<1> QED
  BY <1>5, FoldedIs

\* A new caller is folded after those that were there.
LEMMA FoldPush ==
  ASSUME NEW f \in Seq(Frame), NEW b, NEW k, NEW m, Push(k, m, f) \in Seq(Frame)
  PROVE  FoldRight(Through, Push(k, m, f), b)
           = Through([k |-> k, n |-> m], FoldRight(Through, f, b))
<1> DEFINE n == Len(f)
           h == Push(k, m, f)
           F(i) == Folded(f, b)[n + 1 - i .. n]
           H(i) == Folded(h, b)[n + 2 - i .. n + 1]
           S == {i \in 0 .. n : H(i) # F(i)}
<1>1. /\ n \in Nat /\ h \in Seq(Frame) /\ Len(h) = n + 1
      /\ h[1] = [k |-> k, n |-> m] /\ \A i \in 1 .. n : h[i + 1] = f[i]
  BY DEF Push
<1> HIDE DEF h
<1>2. 0 \notin S
  <2>1. F(0) = b
    BY <1>1, FoldedEmpty
  <2>2. Folded(h, b)[Len(h) + 1 .. Len(h)] = b
    BY <1>1, FoldedEmpty
  <2>3. n + 2 - 0 = Len(h) + 1 /\ n + 1 = Len(h)
    BY <1>1
  <2>4. H(0) = b
    BY <2>2, <2>3
  <2> QED
    BY <2>1, <2>4
<1>3. ASSUME NEW i \in 1 .. n, i - 1 \notin S PROVE i \notin S
  <2> DEFINE j == n + 1 - i
  <2>1. /\ j \in 1 .. n /\ j + 1 = n + 1 - (i - 1) /\ i - 1 \in 0 .. n
        /\ j + 1 \in 1 .. n + 1 /\ n + 2 - i = j + 1 /\ (j + 1) + 1 = n + 2 - (i - 1)
    BY <1>1
  <2> HIDE DEF j
  <2>2. Folded(f, b)[j .. n] = Through(f[j], Folded(f, b)[j + 1 .. n])
    BY <2>1, FoldedFrom
  <2>3. Folded(h, b)[j + 1 .. n + 1] = Through(h[j + 1], Folded(h, b)[(j + 1) + 1 .. n + 1])
    <3>1. j + 1 \in 1 .. Len(h)
      BY <1>1, <2>1
    <3>2. Folded(h, b)[j + 1 .. Len(h)] = Through(h[j + 1], Folded(h, b)[(j + 1) + 1 .. Len(h)])
      BY <1>1, <3>1, FoldedFrom
    <3> QED
      BY <1>1, <3>2
  <2>4. h[j + 1] = f[j]
    BY <1>1, <2>1
  <2>5. H(i - 1) = F(i - 1)
    BY <1>3, <2>1
  <2>6. Folded(h, b)[(j + 1) + 1 .. n + 1] = Folded(f, b)[j + 1 .. n]
    BY <2>1, <2>5
  <2>7. Folded(h, b)[j + 1 .. n + 1] = Folded(f, b)[j .. n]
    BY <2>2, <2>3, <2>4, <2>6
  <2>8. H(i) = F(i)
    BY <2>1, <2>7 DEF j
  <2> QED
    BY <2>8
<1> HIDE DEF F, H
<1>4. S = {}
  <2> SUFFICES ASSUME S # {} PROVE FALSE
    OBVIOUS
  <2>1. Min(S) \in S /\ \A y \in S : Min(S) =< y
    BY <1>1, LeastOf
  <2>2. Min(S) \in 1 .. n /\ Min(S) - 1 \notin S
    BY <1>1, <1>2, <2>1
  <2> QED
    BY <1>3, <2>1, <2>2
<1>5. Folded(h, b)[2 .. n + 1] = Folded(f, b)[1 .. n]
  <2>1. n \in 0 .. n /\ n + 1 - n = 1 /\ n + 2 - n = 2
    BY <1>1
  <2>2. H(n) = F(n)
    BY <1>4, <2>1
  <2> QED
    BY <2>1, <2>2 DEF F, H
<1>6. Folded(h, b)[1 .. n + 1] = Through(h[1], Folded(h, b)[1 + 1 .. n + 1])
  <2>1. 1 \in 1 .. Len(h)
    BY <1>1
  <2>2. Folded(h, b)[1 .. Len(h)] = Through(h[1], Folded(h, b)[1 + 1 .. Len(h)])
    BY <1>1, <2>1, FoldedFrom
  <2> QED
    BY <1>1, <2>2
<1>7. /\ FoldRight(Through, f, b) = Folded(f, b)[1 .. n]
      /\ FoldRight(Through, h, b) = Folded(h, b)[1 .. n + 1]
  BY <1>1, FoldedIs
<1>8. FoldRight(Through, h, b) = Through([k |-> k, n |-> m], FoldRight(Through, f, b))
  BY <1>1, <1>5, <1>6, <1>7
<1> QED
  BY <1>8 DEF h

-----------------------------------------------------------------------------
(* The sides of a pipeline                                                 *)

\* In the middle of parse_ast, with no command forked.
AtCall == {"eval", "redirect", "exec", "fork2", "waitpid"}

\* A side of a pipeline evaluates one command, in place, and prompts for nothing else.
Sided(q) ==
  base[q] = "pipe" =>
    /\ status[q] \in AtCall \cup {"return", "program"}
    /\ status[q] \in {"eval", "redirect", "exec"} => ~ctl[q].needfork
    /\ status[q] = "eval" => ctl[q].node \notin Semi
    /\ \A i \in 1 .. Len(ctl[q].frames) : ctl[q].frames[i].k \in Redirs

SideInv == \A q \in PID : Sided(q)

\* No ';' is among the redirections that a command is in.
LEMMA SemisOutside ==
  ASSUME NEW f \in Seq(Frame), Nested(f), f # <<>> => Head(f).k \notin Redirs
  PROVE  Unredirected(f)
<1> DEFINE S == {i \in 1 .. Len(f) : f[i].k \in Redirs}
<1> SUFFICES ASSUME S # {} PROVE FALSE
  BY DEF Unredirected
<1>1. Len(f) \in Nat /\ S \subseteq 0 .. Len(f)
  OBVIOUS
<1>2. Min(S) \in S /\ \A y \in S : Min(S) =< y
  BY <1>1, LeastOf
<1> DEFINE l == Min(S)
<1>3. l \in 1 .. Len(f) /\ f[l].k \in Redirs
  BY <1>2
<1>4. l - 1 \notin S
  BY <1>2, <1>3
<1> HIDE DEF l
<1>5. l - 1 \in 1 .. Len(f) /\ (l - 1) + 1 = l /\ l - 1 < Len(f)
  <2>1. f # <<>> /\ Head(f) = f[1]
    BY <1>3
  <2>2. l # 1
    BY <1>3, <2>1
  <2> QED
    BY <1>1, <1>3, <2>2
<1>6. f[l] \in Frame /\ f[l - 1] \in Frame
  BY <1>3, <1>5
<1>7. /\ kind[f[l].n] = "redirection" /\ left[f[l].n] = f[l - 1].n
      /\ kind[f[l - 1].n] = IF f[l - 1].k \in Redirs THEN "redirection" ELSE "semi"
  BY <1>3, <1>5 DEF Nested, Fits
<1>8. kind[f[l - 1].n] # "semi"
  BY <1>6, <1>7, TreeAssumption DEF Frame
<1> QED
  BY <1>4, <1>5, <1>7, <1>8 DEF Redirs

\* Who has to fork is in no redirection.
LEMMA ForksUnredirected ==
  ASSUME TypeOK, CallInv, NEW p \in PID, status[p] \in AtCall, ctl[p].needfork
  PROVE  Unredirected(ctl[p].frames)
<1>1. ctl[p].frames \in Seq(Frame)
  BY ControlType
<1>2. Nested(ctl[p].frames) /\ (ctl[p].frames # <<>> => Head(ctl[p].frames).k \notin Redirs)
  BY DEF CallInv, Sound, AtCall
<1> QED
  BY <1>1, <1>2, SemisOutside

LEMMA SideRest ==
  ASSUME SideInv, NEW q \in PID, Rest(q)
  PROVE  Sided(q)'
<1>1. base[q] = "pipe" => status[q] # "zombie"
  BY DEF SideInv, Sided, AtCall
<1> QED
  BY <1>1 DEF SideInv, Sided, Rest

\* A step of p alone.
LEMMA SideAlone ==
  ASSUME SideInv, NEW p \in PID, \A q \in PID \ {p} : Rest(q), Sided(p)'
  PROVE  SideInv'
BY SideRest DEF SideInv

\* Returning is always possible.
LEMMA SideReturns ==
  ASSUME TypeOK, SideInv, NEW p \in PID, NEW v, NEW f, Return(p, v, f),
         f = ctl[p].frames \/ (ctl[p].frames # <<>> /\ f = Tail(ctl[p].frames))
  PROVE  SideInv'
<1>1. /\ \A q \in PID \ {p} : Rest(q)
      /\ status'[p] = "return" /\ ctl'[p].frames = f /\ base'[p] = base[p]
  BY StepRest DEF Return, Value
<1>2. ctl[p].frames \in Seq(Frame)
  BY ControlType
<1>3. ASSUME \A i \in 1 .. Len(ctl[p].frames) : ctl[p].frames[i].k \in Redirs,
             NEW i \in 1 .. Len(f)
      PROVE  f[i].k \in Redirs
  <2>1. CASE f = ctl[p].frames
    BY <1>3, <2>1
  <2>2. CASE ctl[p].frames # <<>> /\ f = Tail(ctl[p].frames)
    <3>1. i + 1 \in 1 .. Len(ctl[p].frames) /\ f[i] = ctl[p].frames[i + 1]
      BY <1>2, <2>2
    <3> QED
      BY <1>3, <3>1
  <2> QED
    BY <2>1, <2>2
<1>4. Sided(p)'
  BY <1>1, <1>3 DEF SideInv, Sided, AtCall
<1> QED
  BY <1>1, <1>4, SideAlone

LEMMA SideStep ==
  ASSUME TypeOK, CallInv, SideInv, [Next]_vars
  PROVE  SideInv'
<1>1. CASE UNCHANGED vars \/ Done
  BY <1>1 DEF SideInv, Sided, Done, vars
<1>2. ASSUME NEW p \in PID, Die(p) PROVE SideInv'
  <2>1. base'[p] = "main"
    BY <1>2 DEF Die, TypeOK
  <2> QED
    BY <1>2, <2>1, DieRest, SideAlone DEF Sided
<1>3. ASSUME NEW p \in PID, Submit(p) PROVE SideInv'
  <2>1. base[p] # "pipe"
    BY <1>3 DEF SideInv, Sided, Submit, AtCall
  <2>2. base' = base /\ \A q \in PID \ {p} : Rest(q)
    BY <1>3 DEF Submit, Rest, TypeOK
  <2> QED
    BY <2>1, <2>2, SideAlone DEF Sided
<1>4. ASSUME NEW p \in PID, NEW v, NEW f, Return(p, v, f),
             f = ctl[p].frames \/ (ctl[p].frames # <<>> /\ f = Tail(ctl[p].frames))
      PROVE  SideInv'
  BY <1>4, SideReturns
<1>5. ASSUME NEW p \in PID, NEW st, NEW c, Step(p, st, c), base[p] # "pipe" PROVE SideInv'
  <2>1. base'[p] = base[p] /\ \A q \in PID \ {p} : Rest(q)
    BY <1>5, StepRest
  <2> QED
    BY <1>5, <2>1, SideAlone DEF Sided
<1>6. ASSUME NEW p \in PID, EvalSemi(p) \/ ReturnToMain(p) \/ ReturnSemiLeft(p) PROVE SideInv'
  <2>1. base[p] # "pipe"
    <3>1. CASE EvalSemi(p)
      BY <3>1, EvaluatesType DEF EvalSemi, Evaluates, SideInv, Sided, Semi
    <3>2. CASE ReturnToMain(p)
      BY <3>2 DEF ReturnToMain
    <3>3. CASE ReturnSemiLeft(p)
      <4>1. ctl[p].frames \in Seq(Frame)
        BY ControlType
      <4>2. ctl[p].frames # <<>> /\ Head(ctl[p].frames).k = "semiLeft"
        BY <3>3 DEF ReturnSemiLeft, Returns
      <4>3. 1 \in 1 .. Len(ctl[p].frames) /\ ctl[p].frames[1].k = "semiLeft"
        BY <4>1, <4>2
      <4> QED
        BY <4>3 DEF SideInv, Sided, Redirs
    <3> QED
      BY <1>6, <3>1, <3>2, <3>3
  <2>2. \E st, c : Step(p, st, c)
    BY <1>6 DEF EvalSemi, ReturnToMain, ReturnSemiLeft, Eval
  <2> QED
    BY <1>5, <2>1, <2>2
<1>7. ASSUME NEW p \in PID, EvalExecInPlace(p) \/ EvalRedirInPlace(p) PROVE SideInv'
  <2>1. /\ status[p] = "eval" /\ ~ctl[p].needfork
        /\ \E st \in {"exec", "redirect"} : Step(p, st, ctl[p])
    BY <1>7 DEF EvalExecInPlace, EvalRedirInPlace, Runs, Evaluates
  <2>2. PICK st \in {"exec", "redirect"} : Step(p, st, ctl[p])
    BY <2>1
  <2>3. /\ \A q \in PID \ {p} : Rest(q)
        /\ status'[p] = st /\ ctl'[p] = ctl[p] /\ base'[p] = base[p]
    BY <2>2, StepRest
  <2>4. Sided(p)'
    BY <2>1, <2>3 DEF SideInv, Sided, AtCall
  <2> QED
    BY <2>3, <2>4, SideAlone
<1>8. ASSUME NEW p \in PID, Exec(p) PROVE SideInv'
  <2>1. /\ \A q \in PID \ {p} : Rest(q)
        /\ status'[p] = "program" /\ ctl'[p].frames = <<>> /\ base'[p] = base[p]
    BY <1>8, StepRest DEF Exec, Idle, Value
  <2>2. Sided(p)'
    BY <2>1 DEF Sided, AtCall
  <2> QED
    BY <2>1, <2>2, SideAlone
<1>9. ASSUME NEW p \in PID, Redirect(p) PROVE SideInv'
  <2> DEFINE n == ctl[p].node
             f == ctl[p].frames
  <2>1. PICK k \in Redirs : Eval(p, left[n], FALSE, Push(k, n, f))
    BY <1>9 DEF Redirect, Redirs
  <2>2. /\ \A q \in PID \ {p} : Rest(q)
        /\ status'[p] = "eval" /\ ctl'[p] = Call(left[n], FALSE, Push(k, n, f))
        /\ base'[p] = base[p]
    BY <2>1, StepRest DEF Eval
  <2>3. n \in Node /\ kind[n] = "redirection"
    BY <1>9 DEF Redirect, CallInv, Sound
  <2>4. left[n] \notin Semi
    BY <2>3, TreeAssumption DEF Semi
  <2>5. f \in Seq(Frame)
    BY ControlType
  <2>6. ASSUME \A i \in 1 .. Len(f) : f[i].k \in Redirs, NEW i \in 1 .. Len(Push(k, n, f))
        PROVE  Push(k, n, f)[i].k \in Redirs
    <3>1. CASE i = 1
      <4>1. Push(k, n, f)[1] = [k |-> k, n |-> n]
        BY <2>5 DEF Push
      <4> QED
        BY <2>1, <3>1, <4>1
    <3>2. CASE i # 1
      <4>1. i - 1 \in 1 .. Len(f) /\ Push(k, n, f)[i] = f[i - 1]
        BY <2>5, <2>6, <3>2 DEF Push
      <4> QED
        BY <2>6, <4>1
    <3> QED
      BY <3>1, <3>2
  <2>7. ctl'[p].frames = Push(k, n, f) /\ ctl'[p].node = left[n] /\ ~ctl'[p].needfork
    BY <2>2 DEF Call
  <2> HIDE DEF f
  <2>8. base[p] = "pipe" => \A i \in 1 .. Len(f) : f[i].k \in Redirs
    BY DEF SideInv, Sided, f
  <2>9. Sided(p)'
    BY <2>2, <2>4, <2>6, <2>7, <2>8 DEF Sided, AtCall
  <2> QED
    BY <2>2, <2>9, SideAlone
<1>10. ASSUME NEW p \in PID, PipeRightForkFails(p) \/ ReapLeft(p) \/ ReapRight(p)
       PROVE  SideInv'
  <2>1. /\ base' = base /\ \A q \in PID \ {p} : Rest(q)
        /\ ctl'[p].frames = ctl[p].frames /\ status'[p] \in {"return", "waitpid"}
    BY <1>10 DEF PipeRightForkFails, ReapLeft, ReapRight, Release, Rest, TypeOK, Value
  <2>2. Sided(p)'
    BY <2>1 DEF SideInv, Sided, AtCall
  <2> QED
    BY <2>1, <2>2, SideAlone
<1>11. ASSUME NEW p \in PID, NEW c \in PID, Reap(p, c) PROVE SideInv'
  <2>1. base' = base /\ base[p] # "pipe" /\ \A q \in PID \ {p} : Rest(q)
    BY <1>11 DEF Reap, Release, Rest, TypeOK, SideInv, Sided, AtCall
  <2> QED
    BY <2>1, SideAlone DEF Sided
<1>12. ASSUME NEW p \in PID, NEW c \in PID, EvalForkExec(p, c) \/ EvalRedirFork(p, c)
       PROVE  SideInv'
  <2>1. /\ status[p] = "eval" /\ ctl[p].needfork
        /\ \E st : Fork(p, c, "wait", st, ctl[p], base[p])
    BY <1>12 DEF EvalForkExec, EvalRedirFork, Runs, Evaluates
  <2>2. base[p] # "pipe"
    BY <2>1 DEF SideInv, Sided
  <2>3. /\ \A q \in PID \ {p, c} : Rest(q)
        /\ base'[p] = base[p] /\ base'[c] = base[p]
    BY <2>1, ForkRest
  <2> QED
    BY <2>2, <2>3, SideRest DEF SideInv, Sided
<1>13. ASSUME NEW p \in PID, NEW c \in PID, EvalPipe(p, c) \/ EvalPipeRight(p, c)
       PROVE  SideInv'
  <2> DEFINE n == ctl[p].node
  <2>1. /\ status[p] \in {"eval", "fork2"}
        /\ \E st \in {"fork2", "waitpid"}, m \in {left[n], right[n]} :
             Fork(p, c, st, "eval", Call(m, FALSE, <<>>), "pipe")
    BY <1>13 DEF EvalPipe, EvalPipeRight, Evaluates
  <2>2. PICK st \in {"fork2", "waitpid"}, m \in {left[n], right[n]} :
          Fork(p, c, st, "eval", Call(m, FALSE, <<>>), "pipe")
    BY <2>1
  <2>3. n \in Node /\ kind[n] = "pipe"
    <3>1. CASE EvalPipe(p, c)
      BY <3>1, EvaluatesType DEF EvalPipe, Evaluates
    <3>2. CASE EvalPipeRight(p, c)
      BY <3>2 DEF EvalPipeRight, CallInv, Sound
    <3> QED
      BY <1>13, <3>1, <3>2
  <2>4. m \notin Semi
    BY <2>3, TreeAssumption DEF Semi
  <2> DEFINE call == Call(m, FALSE, <<>>)
  <2>8. status[p] # "free" /\ Fork(p, c, st, "eval", call, "pipe")
    BY <2>1, <2>2
  <2>9. call.frames = <<>> /\ call.node = m /\ ~call.needfork
    BY DEF Call
  <2> HIDE DEF call
  <2>5. /\ \A q \in PID \ {p, c} : Rest(q)
        /\ status'[p] = st /\ ctl'[p] = ctl[p] /\ base'[p] = base[p]
        /\ status'[c] = "eval" /\ ctl'[c] = call
    BY <2>8, ForkRest
  <2>6. Sided(p)'
    BY <2>5 DEF SideInv, Sided, AtCall
  <2>7. Sided(c)'
    BY <2>4, <2>5, <2>9 DEF Sided, AtCall
  <2> QED
    BY <2>5, <2>6, <2>7, SideRest DEF SideInv
<1>14. ASSUME NEW p \in PID, Local(p) PROVE SideInv'
  <2>1. CASE Redirect(p) \/ Exec(p) \/ EvalExecInPlace(p) \/ EvalRedirInPlace(p)
               \/ EvalSemi(p) \/ ReturnToMain(p) \/ ReturnSemiLeft(p)
               \/ PipeRightForkFails(p) \/ ReapLeft(p) \/ ReapRight(p)
    BY <1>6, <1>7, <1>8, <1>9, <1>10, <2>1
  <2>2. CASE Die(p)
    BY <1>2, <2>2
  <2>3. ASSUME ~Die(p), EvalNull(p) \/ EvalBuiltin(p) \/ EvalExit(p) \/ EvalFault(p)
               \/ EvalNotFound(p) \/ ExecFails(p) \/ EvalForkFails(p)
               \/ RedirectFailsForked(p) \/ RedirectFailsInPlace(p) \/ ReturnToPipeChild(p)
        PROVE  SideInv'
    <3>1. \E v : Return(p, v, ctl[p].frames)
      BY <2>3
      DEF EvalNull, EvalBuiltin, EvalExit, EvalFault, EvalNotFound, ExecFails,
          EvalForkFails, RedirectFailsForked, RedirectFailsInPlace, ReturnToPipeChild
    <3> QED
      BY <1>4, <3>1
  <2>4. ASSUME ~Die(p), ReturnSemiRight(p) \/ ReturnRedir(p) \/ ReturnRedirFork(p)
        PROVE  SideInv'
    <3>1. ctl[p].frames # <<>> /\ \E v : Return(p, v, Tail(ctl[p].frames))
      BY <2>4 DEF ReturnSemiRight, ReturnRedir, ReturnRedirFork, Returns
    <3> QED
      BY <1>4, <3>1
  <2> QED
    BY <1>14, <2>1, <2>2, <2>3, <2>4 DEF Local
<1> QED
  BY <1>1, <1>2, <1>3, <1>11, <1>12, <1>13, <1>14
  DEF Next, Shells, Forks, User, Quit, ProgramExit

LEMMA SideInvariant == Spec => []SideInv
<1>1. Init => SideInv
  BY DEF Init, SideInv, Sided
<1>2. TypeInv => TypeOK
  BY DEF TypeInv
<1> QED
  BY <1>1, <1>2, SideStep, TypeInvariant, CallInvariant, PTL DEF Spec

-----------------------------------------------------------------------------
(* Who steps, and who is left alone                                        *)

\* As long as no pipeline has lost its second fork.
Known ==
  /\ TypeInv /\ CallInv /\ WaitInv /\ DescInv /\ SideInv
  /\ Prompters /\ Families /\ Orphans /\ Depths

\* q has no part in the step.
Apart(q) ==
  /\ Rest(q)
  /\ fds'[q] = fds[q] /\ pid0'[q] = pid0[q]
  /\ Live(q) => parent'[q] = parent[q]

Childless(p) == \A q \in PID : parent[q] = p => ~Live(q)

\* A step of p alone: it leaves parse_ast, or its wait; begins what may fork; goes on
\* without a fork; replaces a descriptor; or reaps the left side of its pipeline.
Alone(p) ==
  /\ \A q \in PID \ {p} : Apart(q)
  /\ Live(p)' => base'[p] = base[p] /\ depth'[p] = depth[p] /\ parent'[p] = parent[p]
  /\ \/ status'[p] \notin AtCall /\ Childless(p)
     \/ /\ status'[p] = "eval" /\ ctl'[p].needfork /\ base'[p] = "main"
        /\ Childless(p)
     \/ /\ status[p] = "eval" /\ ~ctl[p].needfork /\ status'[p] \in {"exec", "redirect"}
        /\ ctl'[p] = ctl[p] /\ fds'[p] = fds[p]
        /\ Childless(p)
     \/ Replace(p) /\ Childless(p)
     \/ /\ status[p] = "waitpid" /\ status'[p] = "waitpid" /\ fds'[p] = fds[p]
        /\ \A q \in PID : Live(q) => pid0[p] # q /\ pid0'[p] # q

Born(p, c) ==
  /\ \A q \in PID \ {p, c} : Apart(q)
  /\ ForkLeftSide(p, c) \/ ForkRightSide(p, c) \/ ForkCopies(p, c)

LEMMA NoChildren ==
  ASSUME Families, NEW p \in PID, status[p] \notin Blocked
  PROVE  \A q \in PID : parent[q] # p
BY DEF Families, Family

\* A step of p in parse_ast.
LEMMA StepAlone ==
  ASSUME TypeOK, DTypeOK, Families, NEW p \in PID, NEW st, NEW c, Step(p, st, c),
         status[p] \notin Blocked, fds' = fds \/ \E t : fds' = [fds EXCEPT ![p] = t]
  PROVE  /\ \A q \in PID \ {p} : Apart(q)
         /\ base'[p] = base[p] /\ depth'[p] = depth[p] /\ parent'[p] = parent[p]
         /\ status'[p] = st /\ ctl'[p] = c /\ Childless(p)
<1>1. /\ \A q \in PID \ {p} : Rest(q)
      /\ status'[p] = st /\ ctl'[p] = c /\ base'[p] = base[p] /\ depth'[p] = depth[p]
  BY StepRest
<1>2. parent' = parent /\ pid0' = pid0
  BY DEF Step
<1>3. \A q \in PID \ {p} : fds'[q] = fds[q]
  BY DEF DTypeOK
<1> QED
  BY <1>1, <1>2, <1>3, NoChildren DEF Apart, Childless

LEMMA DeathAlone ==
  ASSUME TypeOK, DTypeOK, Families, NEW p \in PID, Die(p), Closes(p),
         status[p] \notin Blocked
  PROVE  Alone(p)
<1>1. \A q \in PID : parent[q] # p
  BY NoChildren
<1>2. (\A q \in PID \ {p} : Rest(q)) /\ ~Live(p)'
  BY DieRest
<1>3. \A q \in PID \ {p} : fds'[q] = fds[q] /\ pid0'[q] = pid0[q] /\ parent'[q] = parent[q]
  BY <1>1 DEF Die, Closes, TypeOK, DTypeOK
<1>4. status'[p] \notin AtCall
  BY <1>2 DEF Live, AtCall
<1> QED
  BY <1>1, <1>2, <1>3, <1>4 DEF Alone, Apart, Childless

LEMMA ReturnAlone ==
  ASSUME TypeOK, DTypeOK, Families, NEW p \in PID, NEW v, NEW f, Return(p, v, f),
         status[p] \notin Blocked, fds' = fds \/ \E t : fds' = [fds EXCEPT ![p] = t]
  PROVE  Alone(p)
<1>1. Step(p, "return", Value(v, f))
  BY DEF Return
<1> QED
  BY <1>1, StepAlone DEF Alone, AtCall

\* Only the dead are waited for.
LEMMA ReapAlone ==
  ASSUME Known, NEW p \in PID,
         ReapLeft(p) \/ ReapRight(p) \/ (\E c \in PID : Reap(p, c)), fds' = fds
  PROVE  Alone(p)
<1>1. TypeOK /\ DTypeOK /\ Families /\ Waits(p)
  BY DEF Known, TypeInv, DescInv, WaitInv
<1> USE PidAssumption
<1>2. ASSUME NEW c, NEW st, Release(p, c, st), status[p] \in {"wait", "waitpid"},
             \A q \in PID \ {p} : ctl'[q] = ctl[q] /\ pid0'[q] = pid0[q]
      PROVE  /\ \A q \in PID \ {p} : Apart(q)
             /\ base'[p] = base[p] /\ depth'[p] = depth[p] /\ parent'[p] = parent[p]
             /\ status'[p] = st
  BY <1>1, <1>2 DEF Release, Apart, Rest, Live, TypeOK
<1>3. CASE ReapLeft(p)
  <2>1. /\ Release(p, pid0[p], "waitpid") /\ status[p] = "waitpid"
        /\ pid0' = [pid0 EXCEPT ![p] = NoPid] /\ ctl' = ctl
    BY <1>3 DEF ReapLeft
  <2>2. \A q \in PID : Live(q) => pid0[p] # q /\ pid0'[p] # q
    BY <1>1, <2>1 DEF Release, Live, TypeOK
  <2>3. \A q \in PID \ {p} : ctl'[q] = ctl[q] /\ pid0'[q] = pid0[q]
    BY <1>1, <2>1 DEF TypeOK
  <2> QED
    BY <1>2, <2>1, <2>2, <2>3 DEF Alone
<1>4. CASE ReapRight(p)
  <2>1. /\ Release(p, pid1[p], "return") /\ status[p] = "waitpid"
        /\ pid0[p] = NoPid /\ pid0' = pid0
        /\ ctl' = [ctl EXCEPT ![p] = Value(0, ctl[p].frames)]
    BY <1>4 DEF ReapRight
  <2>2. Childless(p)
    BY <1>1, <2>1 DEF Families, Family, Childless, Release, Live
  <2>3. \A q \in PID \ {p} : ctl'[q] = ctl[q] /\ pid0'[q] = pid0[q]
    BY <1>1, <2>1 DEF TypeOK
  <2> QED
    BY <1>2, <2>1, <2>2, <2>3 DEF Alone, AtCall
<1>5. ASSUME NEW c \in PID, Reap(p, c) PROVE Alone(p)
  <2>1. /\ Release(p, c, "return") /\ status[p] = "wait" /\ parent[c] = p
        /\ pid0' = pid0 /\ ctl' = [ctl EXCEPT ![p] = Value(0, ctl[p].frames)]
    BY <1>5 DEF Reap
  <2>2. Childless(p)
    BY <1>1, <2>1 DEF Families, Family, Childless, Release, Live
  <2>3. \A q \in PID \ {p} : ctl'[q] = ctl[q] /\ pid0'[q] = pid0[q]
    BY <1>1, <2>1 DEF TypeOK
  <2> QED
    BY <1>2, <2>1, <2>2, <2>3 DEF Alone, AtCall
<1> QED
  BY <1>3, <1>4, <1>5

\* What may fork is no side of a pipeline.
LEMMA SemiAlone ==
  ASSUME Known, NEW p \in PID, EvalSemi(p) \/ ReturnSemiLeft(p), fds' = fds
  PROVE  Alone(p)
<1>1. TypeOK /\ DTypeOK /\ Families /\ SideInv
  BY DEF Known, TypeInv, DescInv
<1>2. base[p] = "main"
  <2>1. base[p] # "pipe"
    <3>1. CASE EvalSemi(p)
      BY <1>1, <3>1, EvaluatesType DEF EvalSemi, Evaluates, SideInv, Sided, Semi
    <3>2. CASE ReturnSemiLeft(p)
      <4>1. ctl[p].frames \in Seq(Frame)
        BY <1>1, ControlType
      <4>2. ctl[p].frames # <<>> /\ Head(ctl[p].frames).k = "semiLeft"
        BY <3>2 DEF ReturnSemiLeft, Returns
      <4>3. 1 \in 1 .. Len(ctl[p].frames) /\ ctl[p].frames[1].k = "semiLeft"
        BY <4>1, <4>2
      <4> QED
        BY <1>1, <4>3 DEF SideInv, Sided, Redirs
    <3> QED
      BY <3>1, <3>2
  <2> QED
    BY <1>1, <2>1 DEF TypeOK
<1>3. PICK n, f : Step(p, "eval", Call(n, TRUE, f))
  BY DEF EvalSemi, ReturnSemiLeft, Eval
<1>4. Call(n, TRUE, f).needfork
  BY DEF Call
<1>5. status[p] \notin Blocked
  BY DEF EvalSemi, ReturnSemiLeft, Evaluates, Returns, Blocked
<1> QED
  BY <1>1, <1>2, <1>3, <1>4, <1>5, StepAlone DEF Alone

LEMMA OtherAlone ==
  ASSUME Known, NEW p \in PID, Other(p)
  PROVE  Alone(p)
<1>1. TypeOK /\ DTypeOK /\ Families /\ fds' = fds
  BY DEF Known, TypeInv, DescInv, Other, tables
<1>2. CASE EvalNull(p) \/ EvalBuiltin(p) \/ EvalNotFound(p) \/ ExecFails(p) \/ EvalForkFails(p)
            \/ ReturnSemiRight(p)
  <2>1. status[p] \notin Blocked /\ \E v, f : Return(p, v, f)
    BY <1>2
    DEF EvalNull, EvalBuiltin, EvalNotFound, ExecFails, EvalForkFails, ReturnSemiRight,
        Runs, Evaluates, Returns, Blocked
  <2> QED
    BY <1>1, <2>1, ReturnAlone
<1>3. CASE EvalSemi(p) \/ ReturnSemiLeft(p)
  BY <1>1, <1>3, SemiAlone
<1>4. CASE EvalExecInPlace(p) \/ EvalRedirInPlace(p)
  <2>1. /\ status[p] = "eval" /\ ~ctl[p].needfork /\ status[p] \notin Blocked
        /\ \E st \in {"exec", "redirect"} : Step(p, st, ctl[p])
    BY <1>4 DEF EvalExecInPlace, EvalRedirInPlace, Runs, Evaluates, Blocked
  <2> QED
    BY <1>1, <2>1, StepAlone DEF Alone
<1>5. CASE ReapLeft(p) \/ ReapRight(p) \/ \E c \in PID : Reap(p, c)
  BY <1>1, <1>5, ReapAlone
<1> QED
  BY <1>2, <1>3, <1>4, <1>5 DEF Other

LEMMA Bystanders ==
  ASSUME Known, [DNext]_dvars, ~pipeForkFailed'
  PROVE  \/ \A q \in PID : Apart(q)
         \/ \E p \in PID : Alone(p)
         \/ \E p, c \in PID : Born(p, c)
<1>1. TypeOK /\ DTypeOK /\ Families /\ Prompters
  BY DEF Known, TypeInv, DescInv
<1>2. CASE UNCHANGED dvars \/ (Done /\ UNCHANGED tables)
  BY <1>2 DEF Apart, Rest, dvars, vars, tables, Done
<1>3. ASSUME NEW p \in PID, BackToPrompt(p) \/ BecomeProgram(p) PROVE Alone(p)
  <2>1. /\ status[p] \notin Blocked
        /\ \E st \in {"prompt", "program"} : \E c : Step(p, st, c)
    BY <1>3 DEF BackToPrompt, ReturnToMain, BecomeProgram, Exec, Blocked
  <2>2. fds' = fds \/ \E t : fds' = [fds EXCEPT ![p] = t]
    BY <1>3 DEF BackToPrompt, BecomeProgram
  <2> QED
    BY <1>1, <2>1, <2>2, StepAlone DEF Alone, AtCall
<1>4. ASSUME NEW p \in PID, SubmitLine(p) PROVE Alone(p)
  <2>1. /\ status[p] = "prompt" /\ status' = [status EXCEPT ![p] = "eval"]
        /\ \E n \in Lines : ctl' = [ctl EXCEPT ![p] = Call(n, TRUE, <<>>)]
        /\ UNCHANGED <<base, parent, pid0, depth>>
        /\ fds' = [fds EXCEPT ![p] = fds[p]]
    BY <1>4 DEF SubmitLine, Submit, HasTable
  <2>2. \A n \in Lines : Call(n, TRUE, <<>>).needfork
    BY DEF Call
  <2>3. status'[p] = "eval" /\ ctl'[p].needfork /\ base'[p] = "main"
    BY <1>1, <2>1, <2>2 DEF TypeOK, Prompters
  <2>4. Childless(p)
    BY <1>1, <2>1, NoChildren DEF Childless, Blocked
  <2>5. \A q \in PID \ {p} : Apart(q)
    BY <1>1, <2>1 DEF Apart, Rest, TypeOK, DTypeOK
  <2> QED
    BY <2>1, <2>3, <2>4, <2>5 DEF Alone
<1>5. ASSUME NEW p \in PID, QuitShell(p) \/ Ends(p) PROVE Alone(p)
  <2>1. Die(p) /\ Closes(p) /\ status[p] \notin Blocked
    BY <1>5
    DEF QuitShell, Quit, Ends, EvalExit, EvalFault, ProgramExit, ReturnToPipeChild, Runs,
        Evaluates, Blocked
  <2> QED
    BY <1>1, <2>1, DeathAlone
<1>6. ASSUME NEW p \in PID, Replace(p) PROVE Alone(p)
  <2>1. /\ status[p] \notin Blocked /\ \E c : Step(p, "eval", c)
        /\ \E t : fds' = [fds EXCEPT ![p] = t]
    BY <1>6 DEF Replace, Redirect, Eval, Blocked
  <2> QED
    BY <1>1, <1>6, <2>1, StepAlone DEF Alone
<1>7. ASSUME NEW p \in PID, ReplaceFails(p) PROVE Alone(p)
  <2>1. status[p] \notin Blocked
    BY <1>7 DEF ReplaceFails, RedirectFailsForked, RedirectFailsInPlace, Blocked
  <2>2. CASE RedirectFailsForked(p) /\ Closes(p)
    BY <1>1, <2>1, <2>2, DeathAlone DEF RedirectFailsForked
  <2>3. CASE ~(RedirectFailsForked(p) /\ Closes(p))
    <3>1. /\ \E v, f : Return(p, v, f)
          /\ \E t : fds' = [fds EXCEPT ![p] = t]
      BY <1>7, <2>3 DEF ReplaceFails, RedirectFailsInPlace, HasTable
    <3> QED
      BY <1>1, <2>1, <3>1, ReturnAlone
  <2> QED
    BY <2>2, <2>3
<1>8. ASSUME NEW p \in PID, LeaveRedirection(p) PROVE Alone(p)
  <2>1. status[p] \notin Blocked
    BY <1>8 DEF LeaveRedirection, ReturnRedir, ReturnRedirFork, Returns, Blocked
  <2>2. CASE ReturnRedirFork(p) /\ ctl[p].ret = 0 /\ Closes(p)
    BY <1>1, <2>1, <2>2, DeathAlone DEF ReturnRedirFork
  <2>3. CASE ~(ReturnRedirFork(p) /\ ctl[p].ret = 0 /\ Closes(p))
    <3>1. PutBack(p) /\ \E v, f : Return(p, v, f)
      BY <1>8, <2>3 DEF LeaveRedirection, ReturnRedir, ReturnRedirFork
    <3>2. \E t : fds' = [fds EXCEPT ![p] = t]
      BY <3>1 DEF PutBack
    <3> QED
      BY <1>1, <2>1, <3>1, <3>2, ReturnAlone
  <2> QED
    BY <2>2, <2>3
<1>9. ASSUME NEW p \in PID PROVE ~GiveUpPipe(p)
  BY DEF GiveUpPipe, PipeRightForkFails
<1>10. ASSUME NEW p \in PID, Other(p) PROVE Alone(p)
  BY <1>10, OtherAlone
<1>11. ASSUME NEW p \in PID, NEW c \in PID,
              ForkLeftSide(p, c) \/ ForkRightSide(p, c) \/ ForkCopies(p, c)
       PROVE  Born(p, c)
  <2>1. status[p] \in {"eval", "fork2"}
    BY <1>11
    DEF ForkLeftSide, ForkRightSide, ForkCopies, EvalPipe, EvalPipeRight, EvalForkExec,
        EvalRedirFork, Runs, Evaluates
  <2>2. PICK pst, cst, cctl, b : Fork(p, c, pst, cst, cctl, b)
    BY <1>11
    DEF ForkLeftSide, ForkRightSide, ForkCopies, EvalPipe, EvalPipeRight, EvalForkExec,
        EvalRedirFork
  <2>3. \A q \in PID \ {p, c} : Rest(q)
    BY <1>1, <2>1, <2>2, ForkRest
  <2>4. /\ \E u, t : Copies(p, c, u, t)
        /\ pid0' = pid0 \/ \E d : pid0' = [pid0 EXCEPT ![p] = d]
    BY <1>11
    DEF ForkLeftSide, ForkRightSide, ForkCopies, EvalPipe, EvalPipeRight, EvalForkExec,
        EvalRedirFork
  <2>5. \A q \in PID \ {p, c} : fds'[q] = fds[q] /\ pid0'[q] = pid0[q] /\ parent'[q] = parent[q]
    BY <1>1, <2>2, <2>4 DEF Copies, Fork, TypeOK, DTypeOK
  <2> QED
    BY <1>11, <2>3, <2>5 DEF Born, Apart
<1> QED
  BY <1>2, <1>3, <1>4, <1>5, <1>6, <1>7, <1>8, <1>9, <1>10, <1>11 DEF DNext

-----------------------------------------------------------------------------
(* What is on 0 to 5                                                       *)

\* p has an end of r's pipe where a redirection or a pipeline puts it.
Holds(p, r) == \E f \in 0 .. 5, e \in {"r", "w"} : fds[p][f] = End(r, e)

\* A side of a pipeline has 0 to 5 open, with ends of pipes of those around it, who
\* wait for it.
Held(p) ==
  base[p] = "pipe" /\ status[p] \in AtCall =>
    /\ \A f \in 0 .. 5 : fds[p][f] # Closed
    /\ \A r \in PID : Holds(p, r) =>
         /\ status[r] \in {"fork2", "waitpid"} /\ depth[r] < depth[p]
         /\ parent[p] = r \/ Holds(parent[p], r)

HeldInv == \A p \in PID : Held(p)

\* p evaluates what it was forked for, and has returned from nothing yet.
Committed(p) ==
  \/ status[p] \in {"redirect", "exec"}
  \/ status[p] = "eval" /\ ~ctl[p].needfork

\* It has on 0 to 5 what the redirections that it is in have made of what it was given.
Sight(p) ==
  Committed(p) /\ NullsOpen(p) =>
    Low(fds[p]) = FoldRight(Through, ctl[p].frames, Inherited(p))

LEMMA LowOpen ==
  ASSUME Known, HeldInv, NEW p \in PID, status[p] \in AtCall \cup {"wait"}
  PROVE  \A f \in 0 .. 5 :
           f \in FD /\ fds[p][f] # Closed /\ fds[p][f] \notin {End(p, "r"), End(p, "w")}
<1>1. TypeOK /\ DescInv /\ SideInv
  BY DEF Known, TypeInv
<1>2. CASE base[p] = "pipe"
  <2>1. status[p] \in AtCall
    BY <1>1, <1>2 DEF SideInv, Sided, AtCall
  <2>2. Held(p) /\ depth[p] \in Nat
    BY <1>1 DEF HeldInv, TypeOK
  <2> QED
    BY <1>2, <2>1, <2>2, Numbers DEF Held, Holds
<1>3. CASE base[p] # "pipe"
  <2>1. Shell(p)
    BY <1>1, <1>3 DEF Shell, Live, AtCall, TypeOK
  <2>2. \A f \in 0 .. 5 : Solid(fds[p][f])
    BY <1>1, <2>1 DEF DescInv, TableInv, Sane, StackOk
  <2> QED
    BY <2>2, Numbers, Files DEF Solid
<1> QED
  BY <1>2, <1>3

\* A side of a pipeline has a parent, who waits.
LEMMA SideParent ==
  ASSUME Known, NEW p \in PID, Live(p), base[p] = "pipe" \/ Committed(p)
  PROVE  /\ parent[p] \in PID /\ status[parent[p]] \in Blocked
         /\ depth[p] = depth[parent[p]] + 1
<1>1. TypeOK /\ Orphans /\ Families /\ Depths
  BY DEF Known, TypeInv
<1>2. parent[p] # NoPid
  BY <1>1 DEF Orphans, Committed
<1>3. parent[p] \in PID
  BY <1>1, <1>2 DEF TypeOK
<1> QED
  BY <1>1, <1>3 DEF Families, Family, Depths

\* The least deep holder of an end has got it from the one whose pipe it is.
LEMMA NoHolder ==
  ASSUME Known, HeldInv, NEW r \in PID, Childless(r),
         NEW p \in PID, base[p] = "pipe", status[p] \in AtCall, Holds(p, r)
  PROVE  FALSE
<1> DEFINE Holder(q) == base[q] = "pipe" /\ status[q] \in AtCall /\ Holds(q, r)
           S == {d \in 0 .. depth[p] : \E q \in PID : Holder(q) /\ depth[q] = d}
<1>1. TypeOK /\ DescInv /\ SideInv
  BY DEF Known, TypeInv
<1>2. depth[p] \in Nat /\ depth[p] \in S
  BY <1>1 DEF TypeOK
<1>3. Min(S) \in S /\ \A d \in S : Min(S) =< d
  <2>1. S \subseteq 0 .. depth[p] /\ S # {}
    BY <1>2
  <2> HIDE DEF S
  <2> QED
    BY <1>2, <2>1, LeastOf
<1>4. PICK q \in PID : Holder(q) /\ depth[q] = Min(S)
  BY <1>3
<1>14. depth[q] \in 0 .. depth[p] /\ \A d \in S : depth[q] =< d
  BY <1>3, <1>4
<1>15. \A x \in PID : Holder(x) /\ depth[x] \in 0 .. depth[p] => depth[x] \in S
  OBVIOUS
<1> HIDE DEF S
<1>5. Live(q)
  BY <1>4 DEF Live, AtCall
<1>6. parent[q] = r \/ Holds(parent[q], r)
  BY <1>4 DEF HeldInv, Held
<1>7. /\ parent[q] \in PID /\ status[parent[q]] \in Blocked
      /\ depth[q] = depth[parent[q]] + 1
  BY <1>4, <1>5, SideParent
<1> DEFINE y == parent[q]
<1>8. Holds(y, r)
  BY <1>5, <1>6 DEF Childless
<1>9. base[y] = "pipe"
  <2> SUFFICES ASSUME base[y] # "pipe" PROVE FALSE
    OBVIOUS
  <2>1. Shell(y)
    BY <1>1, <1>7 DEF Shell, Live, Blocked, TypeOK
  <2>2. \A f \in 0 .. 5 : Solid(fds[y][f])
    BY <1>1, <1>7, <2>1 DEF DescInv, TableInv, Sane, StackOk
  <2> QED
    BY <1>8, <2>2, Files DEF Holds, Solid
<1>10. status[y] \in AtCall
  BY <1>1, <1>7, <1>9 DEF SideInv, Sided, AtCall, Blocked
<1>11. depth[y] \in Nat /\ depth[y] < depth[q] /\ depth[y] \in 0 .. depth[p]
  <2>1. depth[y] \in Nat /\ depth[q] = depth[y] + 1
    BY <1>1, <1>7 DEF TypeOK
  <2> HIDE DEF y
  <2> QED
    BY <1>2, <1>14, <2>1
<1>12. Holder(y) /\ y \in PID
  BY <1>7, <1>8, <1>9, <1>10
<1> HIDE DEF y
<1>13. depth[y] \in S
  BY <1>11, <1>12, <1>15
<1> QED
  BY <1>2, <1>11, <1>13, <1>14

-----------------------------------------------------------------------------
(* What a step does to others                                              *)

Acts == (\A q \in PID : Apart(q)) \/ (\E a \in PID : Alone(a)) \/ \E a, c \in PID : Born(a, c)

\* The two sides of a fork.
LEMMA BornIs ==
  ASSUME Known, NEW a \in PID, NEW c \in PID, Born(a, c)
  PROVE  /\ a # c /\ status[c] = "free" /\ status[a] \in {"eval", "fork2"}
         /\ status'[a] \in {"wait", "fork2", "waitpid"} /\ ctl'[a] = ctl[a]
         /\ base'[a] = base[a] /\ depth'[a] = depth[a] /\ parent'[a] = parent[a]
         /\ status'[c] \in {"eval", "exec", "redirect"} /\ parent'[c] = a
         /\ depth'[c] = depth[a] + 1
<1>1. TypeOK
  BY DEF Known, TypeInv
<1>2. status[a] \in {"eval", "fork2"}
  BY DEF Born, ForkLeftSide, ForkRightSide, ForkCopies, EvalPipe, EvalPipeRight,
         EvalForkExec, EvalRedirFork, Runs, Evaluates
<1>3. PICK pst \in {"wait", "fork2", "waitpid"}, cst \in {"eval", "exec", "redirect"} :
        \E cctl, b : Fork(a, c, pst, cst, cctl, b)
  BY DEF Born, ForkLeftSide, ForkRightSide, ForkCopies, EvalPipe, EvalPipeRight,
         EvalForkExec, EvalRedirFork
<1>4. PICK cctl, b : Fork(a, c, pst, cst, cctl, b)
  BY <1>3
<1> QED
  BY <1>1, <1>2, <1>4 DEF Fork, TypeOK

\* Who waits has on 0 to 5 what it had.
LEMMA ParentKeeps ==
  ASSUME Known, HeldInv, Acts, NEW p \in PID, Live(p), base[p] = "pipe" \/ Committed(p)
  PROVE  /\ Low(fds'[parent[p]]) = Low(fds[parent[p]])
         /\ pid0'[parent[p]] = p <=> pid0[parent[p]] = p
<1> DEFINE q == parent[p]
<1>1. q \in PID /\ status[q] \in Blocked /\ p # q
  <2>1. depth[p] \in Nat /\ depth[q] \in Nat /\ depth[p] = depth[q] + 1 /\ q \in PID
    BY SideParent DEF Known, TypeInv, TypeOK
  <2> QED
    BY <2>1, SideParent
<1> HIDE DEF q
<1> SUFFICES Low(fds'[q]) = Low(fds[q]) /\ (pid0'[q] = p <=> pid0[q] = p)
  BY DEF q
<1>2. CASE Apart(q)
  BY <1>2 DEF Apart
<1>3. CASE Alone(q)
  <2>1. ~Childless(q)
    BY DEF Childless, q
  <2> QED
    BY <1>3, <2>1 DEF Alone
<1>4. ASSUME NEW c \in PID, Born(q, c)
      PROVE  Low(fds'[q]) = Low(fds[q]) /\ (pid0'[q] = p <=> pid0[q] = p)
  <2>1. status[q] = "fork2"
    BY <1>1, <1>4, BornIs DEF Blocked
  <2>2. ForkRightSide(q, c)
    BY <1>4, <2>1
    DEF Born, ForkLeftSide, ForkCopies, EvalPipe, EvalForkExec, EvalRedirFork, Runs, Evaluates
  <2>3. q # c
    BY <1>1, <1>4, BornIs
  <2>4. fds'[q] = Unpiped(fds[q], q) /\ pid0' = pid0
    BY <1>1, <2>2, <2>3 DEF ForkRightSide, EvalPipeRight, Copies, Known, DescInv, DTypeOK
  <2>5. \A f \in 0 .. 5 :
          f \in FD /\ fds[q][f] # Closed /\ fds[q][f] \notin {End(q, "r"), End(q, "w")}
    BY <1>1, <2>1, LowOpen DEF AtCall
  <2>6. \A f \in 0 .. 5 : fds'[q][f] = fds[q][f]
    BY <2>4, <2>5 DEF Unpiped
  <2> QED
    BY <2>4, <2>6 DEF Low
<1>5. ASSUME NEW a \in PID, Alone(a), a # q PROVE Apart(q)
  BY <1>1, <1>5 DEF Alone
<1>6. ASSUME NEW a \in PID, NEW c \in PID, Born(a, c), a # q PROVE Apart(q)
  <2>1. c # q
    BY <1>1, <1>6, BornIs DEF Blocked
  <2> QED
    BY <1>1, <1>6, <2>1 DEF Born
<1> QED
  BY <1>1, <1>2, <1>3, <1>4, <1>5, <1>6 DEF Acts

\* Whose pipe it is waits on as long as somebody holds an end.
LEMMA OwnerKeeps ==
  ASSUME Known, HeldInv, Acts, NEW p \in PID, base[p] = "pipe", status[p] \in AtCall,
         NEW r \in PID, Holds(p, r)
  PROVE  status'[r] \in {"fork2", "waitpid"} /\ depth'[r] = depth[r]
<1>1. status[r] \in {"fork2", "waitpid"}
  BY DEF HeldInv, Held
<1>2. CASE Apart(r)
  BY <1>1, <1>2 DEF Apart, Rest
<1>3. CASE Alone(r)
  <2>1. ~Childless(r)
    BY NoHolder
  <2> QED
    BY <1>3, <2>1 DEF Alone, Live
<1>4. ASSUME NEW c \in PID, Born(r, c) PROVE status'[r] = "waitpid" /\ depth'[r] = depth[r]
  <2>1. status[r] = "fork2" /\ depth'[r] = depth[r] /\ r # c
    BY <1>1, <1>4, BornIs
  <2>2. ForkRightSide(r, c)
    BY <1>4, <2>1
    DEF Born, ForkLeftSide, ForkCopies, EvalPipe, EvalForkExec, EvalRedirFork, Runs, Evaluates
  <2> QED
    BY <2>1, <2>2 DEF ForkRightSide, EvalPipeRight, Fork, Known, TypeInv, TypeOK
<1>5. ASSUME NEW a \in PID, Alone(a), a # r PROVE Apart(r)
  BY <1>5 DEF Alone
<1>6. ASSUME NEW a \in PID, NEW c \in PID, Born(a, c), a # r PROVE Apart(r)
  <2>1. c # r
    BY <1>1, <1>6, BornIs
  <2> QED
    BY <1>6, <2>1 DEF Born
<1> QED
  BY <1>2, <1>3, <1>4, <1>5, <1>6 DEF Acts

\* A side of a pipeline goes on with what it has.
LEMMA HeldGoesOn ==
  ASSUME Known, HeldInv, Acts, NEW p \in PID, base[p] = "pipe", status[p] \in AtCall,
         base'[p] = base[p], depth'[p] = depth[p], parent'[p] = parent[p],
         \A f \in 0 .. 5 :
           \/ \E g \in 0 .. 5 : fds'[p][f] = fds[p][g]
           \/ Solid(fds'[p][f])
  PROVE  Held(p)'
<1>1. Held(p)
  BY DEF HeldInv
<1>2. \A f \in 0 .. 5 : fds'[p][f] # Closed
  BY <1>1 DEF Held, Solid
<1>3. ASSUME NEW r \in PID, NEW f \in 0 .. 5, NEW e \in {"r", "w"}, fds'[p][f] = End(r, e)
      PROVE  /\ status'[r] \in {"fork2", "waitpid"} /\ depth'[r] < depth[p]
             /\ parent[p] = r \/ \E g \in 0 .. 5, d \in {"r", "w"} : fds'[parent[p]][g] = End(r, d)
  <2>1. Holds(p, r)
    BY <1>3, Files DEF Holds, Solid
  <2>2. /\ depth[r] < depth[p]
        /\ parent[p] = r \/ Holds(parent[p], r)
    BY <1>1, <2>1 DEF Held
  <2>3. status'[r] \in {"fork2", "waitpid"} /\ depth'[r] = depth[r]
    BY <2>1, OwnerKeeps
  <2>4. \A g \in 0 .. 5 : fds'[parent[p]][g] = fds[parent[p]][g]
    <3>1. Live(p)
      BY DEF Live, AtCall
    <3>2. Low(fds'[parent[p]]) = Low(fds[parent[p]])
      BY <3>1, ParentKeeps
    <3> QED
      BY <3>2 DEF Low
  <2> QED
    BY <2>2, <2>3, <2>4 DEF Holds
<1> QED
  BY <1>2, <1>3 DEF Held, Holds

-----------------------------------------------------------------------------
(* What a redirection does to 0 to 5                                       *)

\* With all of 0 to 5 open, one of them is replaced, by what the redirection says;
\* if it is /dev/null, and there is a descriptor to spare.
LEMMA RedirectedLow ==
  ASSUME DTypeOK, CallInv, NEW p \in PID, status[p] = "redirect",
         \A f \in 0 .. 5 : fds[p][f] # Closed,
         redir[ctl[p].node].opens => Free(fds[p]) # {}
  PROVE  /\ \A f \in 0 .. 5 :
              \/ \E g \in 0 .. 5 : Redirected(p)[f] = fds[p][g]
              \/ Solid(Redirected(p)[f])
         /\ Free(Redirected(p)) \subseteq Free(fds[p])
         /\ Free(Redirected(p)) # {} \/ redir[ctl[p].node].onto # "null" =>
              Low(Redirected(p)) = Applied(ctl[p].node, Low(fds[p]))
<1> DEFINE n == ctl[p].node
           r == redir[n]
           t == fds[p]
           w == WithFile(p)
           v == WithOld(p)
           u == Redirected(p)
           d == CASE r.onto = "copy" -> t[r.target]
                  [] r.onto = "null" -> Null
                  [] r.onto \in {"file", "here"} -> <<r.onto, n>>
<1>1. /\ n \in DOMAIN redir /\ r \in Redirection
      /\ r.onto = "file" => r.opens
      /\ r.onto = "copy" => ~r.opens
  BY RedirNode, DescriptorAssumption
<1>2. /\ r.fd \in 0 .. 5 /\ r.fd \in FD /\ r.target \in 0 .. 5 /\ r.target \in FD
      /\ r.onto \in {"file", "copy", "null", "here"}
  BY <1>1, Numbers DEF Redirection
<1>3. /\ w \in Table /\ v \in Table /\ t \in Table
      /\ \A f \in FD : t[f] # Closed => w[f] = t[f]
      /\ \A f \in FD : w[f] # Closed => v[f] = w[f]
  BY <1>1, <1>2, WithFileTable, OldFdIs DEF DTypeOK, Table
<1>4. \A f \in 0 .. 5 : f \in FD /\ v[f] = t[f] /\ t[f] # Closed
  BY <1>3, Numbers
<1>5. /\ RightFd(p) = IF r.opens THEN Lowest(t) ELSE r.target
      /\ r.opens => w = Opened(t, <<"file", n>>) /\ Free(t) # {}
      /\ u = CASE r.onto \in {"file", "copy"} -> Dup2(v, RightFd(p), r.fd)
               [] r.onto = "null" -> WithNull(v, r.fd)
               [] r.onto = "here" -> [v EXCEPT ![r.fd] = <<"here", n>>]
  BY DEF RightFd, WithFile, Redirected
<1>6. <<"file", n>> \in File /\ Solid(<<"file", n>>) /\ Solid(<<"here", n>>) /\ Solid(Null)
  BY <1>1, Files
<1>7. Applied(n, Low(t)) = [Low(t) EXCEPT ![r.fd] = CASE r.onto = "copy" -> Low(t)[r.target]
                                                     [] r.onto = "null" -> Null
                                                     [] r.onto \in {"file", "here"} -> <<r.onto, n>>]
  BY DEF Applied
<1> HIDE DEF n, r, t, w, v, u
<1>8. \/ u = v /\ Free(v) = {} /\ r.onto = "null"
      \/ /\ u[r.fd] = d
         /\ \A f \in 0 .. 5 : f # r.fd => u[f] = v[f]
         /\ \A f \in FD : u[f] = Closed => v[f] = Closed
  <2>1. CASE r.onto = "file"
    <3> DEFINE l == Lowest(t)
    <3>1. l \in FD /\ l \in 6 .. MaxFd
      BY <1>1, <1>4, <1>5, <2>1, LowestFree
    <3>2. w[l] = <<"file", n>> /\ w[l] # Closed
      <4>1. w = Opened(t, <<"file", n>>) /\ Free(t) # {}
        BY <1>1, <1>5, <2>1
      <4>2. w[l] = <<"file", n>>
        BY <1>3, <1>6, <4>1, OpenedTable
      <4> QED
        BY <1>6, <4>2 DEF Solid
    <3>3. u = Dup2(v, l, r.fd)
      BY <1>1, <1>5, <2>1
    <3> HIDE DEF l
    <3>4. v[l] = <<"file", n>> /\ v[l] # Closed
      BY <1>3, <3>1, <3>2
    <3>5. u[r.fd] = v[l] /\ \A f \in FD : f # r.fd => u[f] = v[f]
      <4>1. v \in Table /\ l \in FD /\ v[l] # Closed /\ r.fd \in FD
        BY <1>2, <1>3, <3>1, <3>4
      <4> QED
        BY <3>3, <4>1, Dup2Table
    <3>6. d = <<"file", n>>
      BY <2>1
    <3> QED
      BY <1>4, <3>4, <3>5, <3>6
  <2>2. CASE r.onto = "copy"
    <3>1. u = Dup2(v, r.target, r.fd)
      BY <1>1, <1>5, <2>2
    <3>2. v[r.target] = t[r.target] /\ v[r.target] # Closed
      BY <1>2, <1>4
    <3>3. u[r.fd] = v[r.target] /\ \A f \in FD : f # r.fd => u[f] = v[f]
      BY <1>2, <1>3, <3>1, <3>2, Dup2Table
    <3>4. d = t[r.target]
      BY <2>2
    <3> QED
      BY <1>4, <3>2, <3>3, <3>4
  <2>3. CASE r.onto = "null" /\ Free(v) = {}
    BY <1>5, <2>3 DEF WithNull
  <2>4. CASE r.onto = "null" /\ Free(v) # {}
    <3> DEFINE l == Lowest(v)
               a == Opened(v, Null)
               b == Dup2(a, l, r.fd)
    <3>1. l \in FD /\ l \in 6 .. MaxFd /\ v[l] = Closed /\ l # r.fd
      BY <1>2, <1>4, <2>4, LowestFree
    <3>2. a \in Table /\ a[l] = Null /\ \A f \in FD : f # l => a[f] = v[f]
      BY <1>3, <2>4, <3>1, Files, OpenedTable DEF Opened, Table
    <3>3. u = Close(b, l)
      BY <1>5, <2>4 DEF WithNull
    <3> HIDE DEF l, a
    <3>4. b \in Table /\ b[r.fd] = Null /\ \A f \in FD : f # r.fd => b[f] = a[f]
      BY <1>2, <1>6, <3>1, <3>2, Dup2Table DEF Solid
    <3> HIDE DEF b
    <3>5. \A f \in FD : f # l => u[f] = b[f]
      BY <3>1, <3>3, <3>4, CloseTable
    <3>6. d = Null
      BY <2>4
    <3>7. u[r.fd] = d /\ \A f \in FD : f # l /\ f # r.fd => u[f] = v[f]
      BY <1>2, <3>1, <3>2, <3>4, <3>5, <3>6
    <3>8. \A f \in 0 .. 5 : f \in FD /\ f # l
      BY <1>4, <3>1
    <3>9. \A f \in FD : u[f] = Closed => v[f] = Closed
      BY <1>6, <3>1, <3>6, <3>7 DEF Solid
    <3> QED
      BY <3>7, <3>8, <3>9
  <2>5. CASE r.onto = "here"
    <3>1. u = [v EXCEPT ![r.fd] = <<"here", n>>]
      BY <1>5, <2>5
    <3>2. u[r.fd] = <<"here", n>> /\ \A f \in FD : f # r.fd => u[f] = v[f]
      BY <1>2, <1>3, <3>1 DEF Table
    <3>3. d = <<"here", n>>
      BY <2>5
    <3> QED
      BY <1>4, <1>6, <3>2, <3>3 DEF Solid
  <2> QED
    BY <1>2, <2>1, <2>2, <2>3, <2>4, <2>5
<1>9. d = t[r.target] \/ Solid(d)
  <2>1. CASE r.onto \in {"file", "here"}
    <3>1. d = <<r.onto, n>>
      BY <2>1
    <3> QED
      BY <1>6, <2>1, <3>1
  <2> QED
    BY <1>2, <1>6, <2>1
<1>10. Applied(n, Low(t)) = [f \in 0 .. 5 |-> IF f = r.fd THEN d ELSE t[f]]
  BY <1>2, <1>7 DEF Low
<1> HIDE DEF d
<1>11. \A f \in 0 .. 5 : (\E g \in 0 .. 5 : u[f] = t[g]) \/ Solid(u[f])
  BY <1>2, <1>4, <1>8, <1>9
<1>12. Free(v) \subseteq Free(t) /\ Free(u) \subseteq Free(v)
  BY <1>3, <1>8 DEF Free
<1>13. Free(u) # {} \/ r.onto # "null" => Low(u) = Applied(n, Low(t))
  BY <1>4, <1>8, <1>10 DEF Low
<1>14. Free(u) \subseteq Free(t)
  BY <1>12
<1> QED
  BY <1>11, <1>13, <1>14 DEF n, r, t, u

-----------------------------------------------------------------------------
(* The sides of a pipeline hold what they were given                       *)

\* What a fork leaves on 0 to 5, and what it gives.
LEMMA BornTables ==
  ASSUME Known, HeldInv, NEW a \in PID, NEW c \in PID, Born(a, c), NEW f \in 0 .. 5
  PROVE  /\ fds'[a][f] = fds[a][f] /\ fds[a][f] # Closed
         /\ ForkLeftSide(a, c) => fds'[c][f] = IF f = 1 THEN End(a, "w") ELSE fds[a][f]
         /\ ForkRightSide(a, c) => fds'[c][f] = IF f = 0 THEN End(a, "r") ELSE fds[a][f]
         /\ ForkCopies(a, c) => fds'[c][f] = fds[a][f]
<1> DEFINE t == fds[a]
           d == t[f]
<1>1. a # c /\ status[a] \in AtCall /\ DTypeOK
  BY BornIs DEF AtCall, Known, DescInv
<1>2. f \in FD /\ d # Closed /\ d \notin {End(a, "r"), End(a, "w")}
  BY <1>1, LowOpen
<1>3. t \in Table
  BY <1>1 DEF DTypeOK, Table
<1>4. Piped(t, a)[f] = d
  BY <1>2, <1>3, PipedTable
<1>5. ASSUME NEW u, u[f] = d PROVE Unpiped(u, a)[f] = d
  BY <1>2, <1>5 DEF Unpiped
<1>6. ASSUME NEW u, u[f] = d, NEW side \in {0, 1}
      PROVE  Plumbed(u, a, side)[f]
               = IF f = side THEN End(a, IF side = 1 THEN "w" ELSE "r") ELSE d
  <2>1. Unpiped(u, a)[f] = d /\ f \in DOMAIN Unpiped(u, a)
    BY <1>2, <1>5, <1>6 DEF Unpiped
  <2> QED
    BY <2>1 DEF Plumbed
<1>7. ASSUME NEW u, NEW v, Copies(a, c, u, v) PROVE fds'[a] = u /\ fds'[c] = v
  BY <1>1, <1>7 DEF Copies, DTypeOK
<1> HIDE DEF d
<1>8. CASE ForkLeftSide(a, c)
  <2>1. Copies(a, c, Piped(t, a), Plumbed(Piped(t, a), a, 1))
    BY <1>8 DEF ForkLeftSide
  <2>2. Plumbed(Piped(t, a), a, 1)[f] = IF f = 1 THEN End(a, "w") ELSE d
    BY <1>4, <1>6
  <2>3. ~ForkRightSide(a, c) /\ ~ForkCopies(a, c)
    BY <1>8
    DEF ForkLeftSide, ForkRightSide, ForkCopies, EvalPipe, EvalPipeRight, EvalForkExec,
        EvalRedirFork, Runs, Evaluates
  <2> QED
    BY <1>2, <1>4, <1>7, <2>1, <2>2, <2>3 DEF d
<1>9. CASE ForkRightSide(a, c)
  <2>1. Copies(a, c, Unpiped(t, a), Plumbed(t, a, 0))
    BY <1>9 DEF ForkRightSide
  <2>2. Plumbed(t, a, 0)[f] = (IF f = 0 THEN End(a, "r") ELSE d) /\ Unpiped(t, a)[f] = d
    BY <1>5, <1>6 DEF d
  <2>3. ~ForkLeftSide(a, c) /\ ~ForkCopies(a, c)
    BY <1>9
    DEF ForkLeftSide, ForkRightSide, ForkCopies, EvalPipe, EvalPipeRight, EvalForkExec,
        EvalRedirFork, Runs, Evaluates
  <2> QED
    BY <1>2, <1>7, <2>1, <2>2, <2>3 DEF d
<1>10. CASE ForkCopies(a, c)
  <2>1. Copies(a, c, t, t)
    BY <1>10 DEF ForkCopies
  <2>2. ~ForkLeftSide(a, c) /\ ~ForkRightSide(a, c)
    BY <1>10
    DEF ForkLeftSide, ForkRightSide, ForkCopies, EvalPipe, EvalPipeRight, EvalForkExec,
        EvalRedirFork, Runs, Evaluates
  <2> QED
    BY <1>2, <1>7, <2>1, <2>2 DEF d
<1> QED
  BY <1>8, <1>9, <1>10 DEF Born

LEMMA HeldAlone ==
  ASSUME Known, HeldInv, Acts, NEW p \in PID, Alone(p)
  PROVE  Held(p)'
<1> SUFFICES ASSUME base'[p] = "pipe", status'[p] \in AtCall PROVE Held(p)'
  BY DEF Held
<1>1. base[p] = "pipe" /\ base'[p] = base[p] /\ depth'[p] = depth[p] /\ parent'[p] = parent[p]
  BY DEF Alone, Live, AtCall
<1>2. status[p] \in AtCall
      /\ \A f \in 0 .. 5 : (\E g \in 0 .. 5 : fds'[p][f] = fds[p][g]) \/ Solid(fds'[p][f])
  <2>1. CASE status[p] \in AtCall /\ fds'[p] = fds[p]
    BY <2>1
  <2>2. CASE Replace(p)
    <3>1. /\ status[p] = "redirect" /\ fds' = [fds EXCEPT ![p] = Redirected(p)]
          /\ redir[ctl[p].node].opens => Free(fds[p]) # {}
      BY <2>2 DEF Replace, Redirect
    <3>2. status[p] \in AtCall /\ DTypeOK /\ CallInv
      BY <3>1 DEF AtCall, Known, DescInv
    <3>3. \A f \in 0 .. 5 : fds[p][f] # Closed
      BY <3>2, LowOpen
    <3>4. fds'[p] = Redirected(p)
      BY <3>1, <3>2 DEF DTypeOK
    <3> QED
      BY <3>1, <3>2, <3>3, <3>4, RedirectedLow
  <2> QED
    BY <1>1, <2>1, <2>2 DEF Alone, AtCall
<1> QED
  BY <1>1, <1>2, HeldGoesOn

LEMMA HeldParent ==
  ASSUME Known, HeldInv, Acts, NEW a \in PID, NEW c \in PID, Born(a, c)
  PROVE  Held(a)'
<1> SUFFICES ASSUME base'[a] = "pipe" PROVE Held(a)'
  BY DEF Held
<1>1. /\ base[a] = "pipe" /\ base'[a] = base[a] /\ depth'[a] = depth[a]
      /\ parent'[a] = parent[a] /\ status[a] \in AtCall
  BY BornIs DEF AtCall
<1>2. \A f \in 0 .. 5 : fds'[a][f] = fds[a][f]
  BY BornTables
<1> QED
  BY <1>1, <1>2, HeldGoesOn

LEMMA HeldChild ==
  ASSUME Known, HeldInv, Acts, NEW a \in PID, NEW c \in PID, Born(a, c)
  PROVE  Held(c)'
<1> SUFFICES ASSUME base'[c] = "pipe" PROVE Held(c)'
  BY DEF Held
<1>1. TypeOK /\ DescInv /\ SideInv
  BY DEF Known, TypeInv
<1>2. /\ a # c /\ status[a] \in {"eval", "fork2"}
      /\ status'[a] \in {"wait", "fork2", "waitpid"}
      /\ base'[a] = base[a] /\ depth'[a] = depth[a]
      /\ parent'[c] = a /\ depth'[c] = depth[a] + 1 /\ depth[a] \in Nat
  BY <1>1, BornIs DEF TypeOK
<1>3. PICK side \in {0, 1}, e \in {"r", "w"} :
        /\ status'[a] \in {"fork2", "waitpid"}
        /\ \A f \in 0 .. 5 : fds'[c][f] = IF f = side THEN End(a, e) ELSE fds[a][f]
  <2>1. CASE ForkLeftSide(a, c)
    <3>1. status'[a] = "fork2"
      BY <1>1, <1>2, <2>1 DEF ForkLeftSide, EvalPipe, Fork, TypeOK
    <3> QED
      BY <2>1, <3>1, BornTables
  <2>2. CASE ForkRightSide(a, c)
    <3>1. status'[a] = "waitpid"
      BY <1>1, <1>2, <2>2 DEF ForkRightSide, EvalPipeRight, Fork, TypeOK
    <3> QED
      BY <2>2, <3>1, BornTables
  <2>3. CASE ForkCopies(a, c)
    <3>1. /\ status[a] = "eval" /\ ctl[a].needfork
          /\ \E st : Fork(a, c, "wait", st, ctl[a], base[a])
      BY <2>3 DEF ForkCopies, EvalForkExec, EvalRedirFork, Runs, Evaluates
    <3>2. base'[c] = base[a]
      BY <1>1, <3>1 DEF Fork, TypeOK
    <3> QED
      BY <1>1, <3>1, <3>2 DEF SideInv, Sided
  <2> QED
    BY <2>1, <2>2, <2>3 DEF Born
<1>4. \A f \in 0 .. 5 : fds'[a][f] = fds[a][f] /\ fds[a][f] # Closed
  BY BornTables
<1>5. \A f \in 0 .. 5 : fds'[c][f] # Closed
  BY <1>3, <1>4, Files
<1>6. ASSUME NEW r \in PID, NEW f \in 0 .. 5, NEW d \in {"r", "w"}, fds'[c][f] = End(r, d)
      PROVE  /\ status'[r] \in {"fork2", "waitpid"} /\ depth'[r] < depth'[c]
             /\ parent'[c] = r \/ \E g \in 0 .. 5, k \in {"r", "w"} : fds'[parent'[c]][g] = End(r, k)
  <2>1. CASE f = side
    <3>1. End(a, e) = End(r, d)
      BY <1>3, <1>6, <2>1
    <3>2. r = a
      BY <3>1, Files
    <3> QED
      BY <1>2, <1>3, <3>2
  <2>2. CASE f # side
    <3>1. fds[a][f] = End(r, d) /\ fds'[a][f] = End(r, d)
      BY <1>3, <1>4, <1>6, <2>2
    <3>2. base[a] = "pipe"
      <4> SUFFICES ASSUME base[a] # "pipe" PROVE FALSE
        OBVIOUS
      <4>1. Shell(a)
        BY <1>1, <1>2 DEF Shell, Live, TypeOK
      <4>2. Solid(fds[a][f])
        BY <1>1, <4>1 DEF DescInv, TableInv, Sane, StackOk
      <4> QED
        BY <3>1, <4>2, Files DEF Solid
    <3>3. status'[a] \in AtCall /\ Held(a)'
      BY <1>3, HeldParent DEF AtCall
    <3>4. status'[r] \in {"fork2", "waitpid"} /\ depth'[r] < depth'[a]
      BY <1>2, <3>1, <3>2, <3>3 DEF Held, Holds
    <3>5. depth'[r] < depth'[c]
      <4> DEFINE x == depth'[r]
                 y == depth'[c]
                 z == depth[a]
      <4>1. x \in Nat
        <5>1. status[a] \in AtCall /\ Holds(a, r)
          BY <1>2, <3>1 DEF AtCall, Holds
        <5>2. depth'[r] = depth[r]
          BY <1>1, <3>2, <5>1, OwnerKeeps
        <5> QED
          BY <1>1, <5>2 DEF TypeOK
      <4>2. x < z /\ y = z + 1 /\ z \in Nat
        BY <1>2, <3>4
      <4> HIDE DEF x, y, z
      <4>3. x < y
        BY <4>1, <4>2
      <4> QED
        BY <4>3 DEF x, y
    <3> QED
      BY <1>2, <3>1, <3>4, <3>5
  <2> QED
    BY <2>1, <2>2
<1> QED
  BY <1>5, <1>6 DEF Held, Holds

LEMMA HeldStep ==
  ASSUME Known, HeldInv, [DNext]_dvars, ~pipeForkFailed'
  PROVE  HeldInv'
<1>1. Acts
  BY Bystanders DEF Acts
<1>2. ASSUME NEW p \in PID, Apart(p) PROVE Held(p)'
  <2> SUFFICES ASSUME base'[p] = "pipe", status'[p] \in AtCall PROVE Held(p)'
    BY DEF Held
  <2>1. /\ base[p] = "pipe" /\ status[p] \in AtCall /\ base'[p] = base[p]
        /\ depth'[p] = depth[p] /\ parent'[p] = parent[p] /\ fds'[p] = fds[p]
    BY <1>2 DEF Apart, Rest, AtCall, Live
  <2> QED
    BY <1>1, <2>1, HeldGoesOn
<1>3. ASSUME NEW a \in PID, Alone(a) PROVE HeldInv'
  BY <1>1, <1>2, <1>3, HeldAlone DEF HeldInv, Alone
<1>4. ASSUME NEW a \in PID, NEW c \in PID, Born(a, c) PROVE HeldInv'
  BY <1>1, <1>2, <1>4, HeldParent, HeldChild DEF HeldInv, Born
<1> QED
  BY <1>1, <1>2, <1>3, <1>4 DEF Acts, HeldInv

-----------------------------------------------------------------------------
(* A command sees its redirections                                         *)

LEMMA InheritedKeeps ==
  ASSUME Known, HeldInv, Acts, NEW p \in PID, Committed(p),
         base'[p] = base[p], parent'[p] = parent[p]
  PROVE  Inherited(p)' = Inherited(p)
<1>1. Live(p)
  BY DEF Committed, Live
<1>2. /\ Low(fds'[parent[p]]) = Low(fds[parent[p]])
      /\ pid0'[parent[p]] = p <=> pid0[parent[p]] = p
  BY <1>1, ParentKeeps
<1> QED
  BY <1>2 DEF Inherited

\* One more caller, one more redirection.
LEMMA SightReplace ==
  ASSUME Known, HeldInv, Acts, NEW p \in PID, Sight(p), Replace(p)
  PROVE  Sight(p)'
<1> DEFINE n == ctl[p].node
           f == ctl[p].frames
           t == fds[p]
           u == Redirected(p)
           b == Inherited(p)
<1>1. TypeOK /\ DTypeOK /\ CallInv
  BY DEF Known, TypeInv, DescInv
<1>2. PICK k \in Redirs : Redirect(p) /\ Eval(p, left[n], FALSE, Push(k, n, f))
  BY DEF Replace, Redirect, Redirs
<1>3. status[p] = "redirect" /\ status[p] \in AtCall /\ Committed(p)
  BY <1>2 DEF Redirect, AtCall, Committed
<1>4. ctl'[p] = Call(left[n], FALSE, Push(k, n, f)) /\ base' = base /\ parent' = parent
  BY <1>1, <1>2 DEF Eval, Step, TypeOK
<1>5. ctl'[p].frames = Push(k, n, f)
  BY <1>4 DEF Call
<1>6. fds'[p] = u /\ (redir[n].opens => Free(t) # {})
  BY <1>1 DEF Replace, DTypeOK
<1>7. \A g \in 0 .. 5 : t[g] # Closed
  BY <1>3, LowOpen
<1>8. /\ Free(u) \subseteq Free(t)
      /\ Free(u) # {} \/ redir[n].onto # "null" => Low(u) = Applied(n, Low(t))
  BY <1>1, <1>3, <1>6, <1>7, RedirectedLow
<1>9. Push(k, n, f) \in Seq(Frame) /\ f \in Seq(Frame)
  <2>1. n \in Node
    BY <1>1, <1>3, RedirNode
  <2>2. f \in Seq(Frame)
    BY <1>1, ControlType
  <2> HIDE DEF n, f
  <2> QED
    BY <2>1, <2>2 DEF Push, Frame, Redirs
<1>10. b' = b
  BY <1>3, <1>4, InheritedKeeps
<1>11. NullsOpen(p) => Low(t) = FoldRight(Through, f, b)
  BY <1>3 DEF Sight
<1>12. NullsOpen(p)' => NullsOpen(p) /\ (Free(u) # {} \/ redir[n].onto # "null")
  <2> DEFINE g == Push(k, n, f)
             Opens(i) == f[i].k \in {"redir", "redirFork"} => redir[f[i].n].onto # "null"
  <2>1. NullsOpen(p)' <=> \/ Free(u) # {}
                         \/ \A i \in DOMAIN g : g[i].k \in {"redir", "redirFork"} =>
                              redir[g[i].n].onto # "null"
    BY <1>5, <1>6 DEF NullsOpen
  <2>2. NullsOpen(p) <=> Free(t) # {} \/ \A i \in DOMAIN f : Opens(i)
    BY DEF NullsOpen
  <2> HIDE DEF f
  <2>3. /\ 1 \in DOMAIN g /\ g[1] = [k |-> k, n |-> n]
        /\ \A i \in DOMAIN f : i + 1 \in DOMAIN g /\ g[i + 1] = f[i]
    BY <1>9 DEF Push
  <2> HIDE DEF g, n, t, u
  <2>4. CASE Free(u) # {}
    BY <1>8, <2>2, <2>4
  <2>5. ASSUME \A i \in DOMAIN g : g[i].k \in {"redir", "redirFork"} => redir[g[i].n].onto # "null"
        PROVE  redir[n].onto # "null" /\ \A i \in DOMAIN f : Opens(i)
    <3>1. redir[n].onto # "null"
      BY <2>3, <2>5 DEF Redirs
    <3>2. ASSUME NEW i \in DOMAIN f PROVE Opens(i)
      BY <2>3, <2>5, <3>2
    <3> QED
      BY <3>1, <3>2
  <2> QED
    BY <2>1, <2>2, <2>4, <2>5
<1> HIDE DEF n, f, t, u, b
<1>13. FoldRight(Through, Push(k, n, f), b)
         = Through([k |-> k, n |-> n], FoldRight(Through, f, b))
  BY <1>9, FoldPush
<1>14. NullsOpen(p)' => Low(u) = FoldRight(Through, Push(k, n, f), b)
  BY <1>8, <1>11, <1>12, <1>13 DEF Through, Redirs
<1> QED
  BY <1>5, <1>6, <1>10, <1>14 DEF Sight, b

LEMMA SightAlone ==
  ASSUME Known, HeldInv, Acts, NEW p \in PID, Sight(p), Alone(p)
  PROVE  Sight(p)'
<1> SUFFICES ASSUME Committed(p)' PROVE Sight(p)'
  BY DEF Sight
<1>1. base'[p] = base[p] /\ parent'[p] = parent[p]
  BY DEF Alone, Live, Committed
<1>2. CASE status[p] = "eval" /\ ~ctl[p].needfork /\ ctl'[p] = ctl[p] /\ fds'[p] = fds[p]
  <2>1. Committed(p)
    BY <1>2 DEF Committed
  <2>2. Inherited(p)' = Inherited(p)
    BY <1>1, <2>1, InheritedKeeps
  <2> QED
    BY <1>2, <2>1, <2>2 DEF Sight, NullsOpen
<1> QED
  BY <1>2, SightReplace DEF Alone, AtCall, Committed

\* A new process has no redirection behind it, and finds what its parent has.
LEMMA SightChild ==
  ASSUME Known, HeldInv, Acts, NEW a \in PID, NEW c \in PID, Born(a, c)
  PROVE  Sight(c)'
<1>1. TypeOK /\ CallInv /\ SideInv /\ WaitInv
  BY DEF Known, TypeInv
<1>2. /\ a # c /\ status[c] = "free" /\ parent'[c] = a
      /\ \A f \in 0 .. 5 : fds'[a][f] = fds[a][f]
  BY BornIs, BornTables
<1>3. /\ ctl'[c].frames \in Seq(Frame)
      /\ Unredirected(ctl'[c].frames)
      /\ Low(fds'[c]) = Inherited(c)'
  <2>1. ASSUME NEW m, NEW st, Fork(a, c, st, "eval", Call(m, FALSE, <<>>), "pipe"),
               NEW side, NEW e,
               \/ side = 1 /\ e = "w" /\ pid0'[a] = c
               \/ side = 0 /\ e = "r" /\ pid0'[a] # c,
               \A f \in 0 .. 5 : fds'[c][f] = IF f = side THEN End(a, e) ELSE fds[a][f]
        PROVE  /\ ctl'[c].frames \in Seq(Frame)
               /\ Unredirected(ctl'[c].frames)
               /\ Low(fds'[c]) = Inherited(c)'
    <3>1. ctl'[c] = Call(m, FALSE, <<>>) /\ base'[c] = "pipe"
      BY <1>1, <2>1 DEF Fork, TypeOK
    <3>2. ctl'[c].frames = <<>>
      BY <3>1 DEF Call
    <3>3. Low(fds'[c]) = [Low(fds'[a]) EXCEPT ![side] = End(a, e)]
      <4>1. \A f \in 0 .. 5 : fds'[c][f] = IF f = side THEN End(a, e) ELSE fds'[a][f]
        BY <1>2, <2>1
      <4> QED
        BY <4>1 DEF Low
    <3>4. Low(fds'[c]) = Inherited(c)'
      BY <1>2, <2>1, <3>1, <3>3 DEF Inherited
    <3> QED
      BY <3>2, <3>4 DEF Unredirected
  <2>2. CASE ForkLeftSide(a, c)
    <3>1. /\ Fork(a, c, "fork2", "eval", Call(left[ctl[a].node], FALSE, <<>>), "pipe")
          /\ pid0'[a] = c
      BY <1>1, <2>2 DEF ForkLeftSide, EvalPipe, TypeOK
    <3>2. \A f \in 0 .. 5 : fds'[c][f] = IF f = 1 THEN End(a, "w") ELSE fds[a][f]
      BY <2>2, BornTables
    <3> QED
      BY <2>1, <3>1, <3>2
  <2>3. CASE ForkRightSide(a, c)
    <3>1. /\ Fork(a, c, "waitpid", "eval", Call(right[ctl[a].node], FALSE, <<>>), "pipe")
          /\ status[a] = "fork2" /\ pid0' = pid0
      BY <2>3 DEF ForkRightSide, EvalPipeRight
    <3>2. pid0'[a] # c
      BY <1>1, <1>2, <3>1 DEF WaitInv, Waits, Child
    <3>3. \A f \in 0 .. 5 : fds'[c][f] = IF f = 0 THEN End(a, "r") ELSE fds[a][f]
      BY <2>3, BornTables
    <3> QED
      BY <2>1, <3>1, <3>2, <3>3
  <2>4. CASE ForkCopies(a, c)
    <3>1. /\ status[a] = "eval" /\ ctl[a].needfork
          /\ \E st : Fork(a, c, "wait", st, ctl[a], base[a])
      BY <2>4 DEF ForkCopies, EvalForkExec, EvalRedirFork, Runs, Evaluates
    <3>2. ctl'[c] = ctl[a] /\ base'[c] = base[a] /\ base[a] # "pipe"
      BY <1>1, <3>1 DEF Fork, TypeOK, SideInv, Sided
    <3>3. ctl[a].frames \in Seq(Frame) /\ Unredirected(ctl[a].frames)
      BY <1>1, <3>1, ControlType, ForksUnredirected DEF AtCall
    <3>4. base[a] = "main"
      BY <1>1, <3>2 DEF TypeOK
    <3>5. Low(fds'[c]) = Low(fds'[a])
      BY <1>2, <2>4, BornTables DEF Low
    <3> QED
      BY <1>2, <3>2, <3>3, <3>4, <3>5 DEF Inherited
  <2> QED
    BY <2>2, <2>3, <2>4 DEF Born
<1>4. FoldRight(Through, ctl'[c].frames, Inherited(c)') = Inherited(c)'
  BY <1>3, FoldNothing
<1> QED
  BY <1>3, <1>4 DEF Sight

LEMMA SightStep ==
  ASSUME Known, HeldInv, \A p \in PID : Sight(p), [DNext]_dvars, ~pipeForkFailed'
  PROVE  \A p \in PID : Sight(p)'
<1>1. Acts
  BY Bystanders DEF Acts
<1>2. ASSUME NEW p \in PID, Apart(p) PROVE Sight(p)'
  <2> SUFFICES ASSUME Committed(p)' PROVE Sight(p)'
    BY DEF Sight
  <2>1. Committed(p) /\ base'[p] = base[p] /\ parent'[p] = parent[p]
        /\ fds'[p] = fds[p] /\ ctl'[p] = ctl[p]
    BY <1>2 DEF Apart, Rest, Committed, Live
  <2>2. Inherited(p)' = Inherited(p)
    BY <1>1, <2>1, InheritedKeeps
  <2> QED
    BY <2>1, <2>2 DEF Sight, NullsOpen
<1>3. ASSUME NEW a \in PID, Alone(a) PROVE \A p \in PID : Sight(p)'
  BY <1>1, <1>2, <1>3, SightAlone DEF Alone
<1>4. ASSUME NEW a \in PID, NEW c \in PID, Born(a, c) PROVE \A p \in PID : Sight(p)'
  <2>1. Sight(a)'
    <3>1. ~Committed(a)'
      BY <1>4, BornIs DEF Committed
    <3> QED
      BY <3>1 DEF Sight
  <2> QED
    BY <1>1, <1>2, <1>4, <2>1, SightChild DEF Born
<1> QED
  BY <1>1, <1>2, <1>3, <1>4 DEF Acts

\* Until a pipeline loses its second fork.
SightInv == ~pipeForkFailed => HeldInv /\ \A p \in PID : Sight(p)

\* Through whatever redirections, pipelines and nested shells a command has come to be
\* run, it has on 0 to 5 what its redirections make, one after the other, of what its
\* shell or pipeline has there: unless /dev/null is one of them and the table full, or a
\* pipeline has lost its second fork.
THEOREM CommandsSeeRedirections == DSpec => []SeesRedirections
<1>1. DInit => SightInv
  BY DEF DInit, Init, SightInv, HeldInv, Held, Sight, Committed
<1>2. TypeInv /\ CallInv /\ WaitInv /\ DescInv /\ SideInv /\ ExclusiveInv /\ HomeInv
        /\ SightInv /\ [Next]_vars /\ [DNext]_dvars => SightInv'
  <2> SUFFICES ASSUME TypeInv, CallInv, WaitInv, DescInv, SideInv, ExclusiveInv, HomeInv,
                      SightInv, [Next]_vars, [DNext]_dvars, ~pipeForkFailed'
               PROVE  HeldInv' /\ \A p \in PID : Sight(p)'
    BY DEF SightInv
  <2>1. ~pipeForkFailed
    BY ForkFailedStep DEF TypeInv
  <2>2. Known /\ HeldInv /\ \A p \in PID : Sight(p)
    BY <2>1 DEF Known, SightInv, ExclusiveInv, HomeInv
  <2> QED
    BY <2>2, HeldStep, SightStep
<1>3. SightInv => SeesRedirections
  BY DEF SightInv, SeesRedirections, Sight, Committed
<1> QED
  BY <1>1, <1>2, <1>3, TablesFollow, TypeInvariant, CallInvariant, WaitInvariant,
     DescInvariant, SideInvariant, ExclusiveInvariant, HomeInvariant, PTL
  DEF DSpec, Spec

-----------------------------------------------------------------------------
(* The rest of a line                                                      *)

\* What a caller has called.
Called(r) == IF r.k = "semiRight" THEN right[r.n] ELSE left[r.n]

\* A command that ends the process that evaluates it.
Fatal(n) == n \in Node /\ kind[n] = "command" /\ word[n] \in {"exit", "fault"}

\* The semicolons in the left part of n.
Inside(n) == SemisOf[left[n]]

\* The left part of n ends the process that evaluates it.
Stops(n) ==
  \/ Fatal(left[n])
  \/ \E m \in Inside(n) : Fatal(left[m]) \/ Fatal(right[m])

\* Callers are called by the next one out, and around a semicolon are only others
\* that have it in their left part.
Linked(f) ==
  \A i \in 1 .. Len(f) :
    /\ i < Len(f) => f[i].n = Called(f[i + 1])
    /\ f[i].k \notin Redirs =>
         \A j \in i + 1 .. Len(f) :
           f[j].k = "semiLeft" /\ {f[i].n} \cup Inside(f[i].n) \subseteq Inside(f[j].n)
    /\ f[i].k = "redirFork" => \A j \in i + 1 .. Len(f) : f[j].k \notin Redirs
    /\ f[i].k = "semiRight" => ~Stops(f[i].n)

\* n is what the callers f have called.
CalledBy(n, f) == f # <<>> => n = Called(Head(f))

\* What f has called has not ended the process.
Survived(f) ==
  f # <<>> =>
    /\ Head(f).k = "semiLeft" => ~Stops(Head(f).n)
    /\ Head(f).k = "semiRight" => ~Fatal(right[Head(f).n])

Forked(f) == \E i \in 1 .. Len(f) : f[i].k = "redirFork"

\* A process in parse_ast, waiting or not.
InCall == AtCall \cup {"wait"}

\* A process is where its callers say, and one that is to become a shell again does
\* nothing without a fork but in the child of a redirection.
Placed(st, c, b) ==
  /\ Linked(c.frames)
  /\ st \in InCall => CalledBy(c.node, c.frames)
  /\ st \in InCall \ {"eval"} => c.node \in Node /\ c.node \notin Semi /\ ~Fatal(c.node)
  /\ st = "return" => Survived(c.frames)
  /\ st \notin InCall \cup {"return"} => c.frames = <<>>
  /\ b = "main" =>
       /\ st \in {"eval", "redirect", "exec"} /\ ~c.needfork => Forked(c.frames)
       /\ ~Unredirected(c.frames) => Forked(c.frames)

PlacedInv == \A q \in PID : Placed(status[q], ctl[q], base[q])

\* The semicolons whose right part c has still to run, those it has not met yet
\* included.
Waiting(f) == {f[i].n : i \in {j \in 1 .. Len(f) : f[j].k = "semiLeft"}}
Ahead(st, c) == Waiting(c.frames) \cup IF st = "eval" THEN SemisOf[c.node] ELSE {}

\* A forked child that is to exit when its command is done.
Provisional(st, c) == Forked(c.frames) \/ (st \in {"redirect", "exec"} /\ c.needfork)

\* Those whose right part it runs if nothing fails.
Due(st, c) ==
  IF st \in {"free", "zombie"} \/ Provisional(st, c) THEN {} ELSE Ahead(st, c)

\* A process that is to become a shell again has all of the line before it, or behind it.
Tracks(q) ==
  /\ Live(q) /\ status[q] # "prompt" => line[q] \in 1 .. Len(log)
  /\ Live(q) /\ line[q] > 0 =>
       LET l == log[line[q]]
       IN /\ depth[q] >= l.level
          /\ base[q] = "main" /\ status[q] # "program" =>
               \A n \in SemisOf[l.root] : n \in Ahead(status[q], ctl[q]) \/ ~Stops(n)

\* Those in line i who are to run the right part of n.
Owing(i, n) == {q \in PID : line[q] = i /\ n \in Due(status[q], ctl[q])}

\* Each right part has been run once by everybody who was to run it and does not any more.
Balanced(i) ==
  \A n \in SemisOf[log[i].root] : ~Stops(n) =>
    /\ IsFiniteSet(Owing(i, n))
    /\ log[i].runs[n] + Cardinality(Owing(i, n)) = log[i].stayed[n] + 1

Records == [root : Lines, level : Nat, runs : [Semi -> Nat], stayed : [Semi -> Nat]]

LogType == line \in [PID -> 0 .. Len(log)] /\ log \in Seq(Records)

RunInv == LogType /\ (\A q \in PID : Tracks(q)) /\ \A i \in 1 .. Len(log) : Balanced(i)

-----------------------------------------------------------------------------
(* The semicolons of a line                                                *)

\* One level of the definition of SemisOf, f being what is said of the nodes below.
SemisBelow(f, n) == IF n \in Semi THEN {n} \cup f[left[n]] \cup f[right[n]] ELSE {}

SemiMap == [Node \cup {NoNode} -> SUBSET Node]

\* The semicolons below a node, by any map of them, are nodes.
LEMMA BelowNodes ==
  ASSUME NEW f \in SemiMap, NEW n \in Node \cup {NoNode}
  PROVE  SemisBelow(f, n) \subseteq Node
<1>1. n \in Semi => n \in Node /\ f[left[n]] \subseteq Node /\ f[right[n]] \subseteq Node
  BY NodeAssumption DEF Semi, SemiMap
<1> QED
  BY <1>1 DEF SemisBelow

\* A larger map gives larger sets.
LEMMA BelowMore ==
  ASSUME NEW f \in SemiMap, NEW g \in SemiMap,
         \A m \in Node \cup {NoNode} : f[m] \subseteq g[m],
         NEW n \in Node \cup {NoNode}
  PROVE  SemisBelow(f, n) \subseteq SemisBelow(g, n)
<1>1. n \in Semi => left[n] \in Node \cup {NoNode} /\ right[n] \in Node \cup {NoNode}
  BY NodeAssumption DEF Semi
<1> QED
  BY <1>1 DEF SemisBelow

\* The definition of SemisOf has a solution: what every map that is closed under it has
\* in common.
LEMMA SemisExist ==
  \E f : f = [n \in Node \cup {NoNode} |-> SemisBelow(f, n)]
<1> DEFINE D == Node \cup {NoNode}
           Solves(g) == \A m \in D : SemisBelow(g, m) \subseteq g[m]
           L == [n \in D |-> {v \in Node : \A g \in SemiMap : Solves(g) => v \in g[n]}]
           G == [n \in D |-> SemisBelow(L, n)]
<1>1. L \in SemiMap
  BY DEF SemiMap
<1>2. ASSUME NEW g \in SemiMap, Solves(g), NEW m \in D PROVE L[m] \subseteq g[m]
  BY <1>2
<1>3. ASSUME NEW m \in D, NEW v \in Node, \A g \in SemiMap : Solves(g) => v \in g[m]
      PROVE  v \in L[m]
  BY <1>3
<1>4. ASSUME NEW m \in D PROVE SemisBelow(L, m) \subseteq L[m]
  <2> SUFFICES ASSUME NEW v \in SemisBelow(L, m) PROVE v \in L[m]
    OBVIOUS
  <2>1. v \in Node
    BY <1>1, BelowNodes
  <2>2. ASSUME NEW g \in SemiMap, Solves(g) PROVE v \in g[m]
    <3>1. SemisBelow(L, m) \subseteq SemisBelow(g, m)
      <4>1. \A k \in Node \cup {NoNode} : L[k] \subseteq g[k]
        BY <1>2, <2>2
      <4> HIDE DEF L
      <4> QED
        BY <1>1, <4>1, BelowMore
    <3> QED
      BY <2>2, <3>1
  <2> QED
    BY <1>3, <2>1, <2>2
<1>5. G \in SemiMap
  <2>1. \A m \in D : SemisBelow(L, m) \subseteq Node
    BY <1>1, BelowNodes
  <2> QED
    BY <2>1 DEF SemiMap
<1> HIDE DEF L
<1>6. Solves(G)
  <2>1. \A m \in Node \cup {NoNode} : G[m] \subseteq L[m]
    BY <1>4
  <2>2. ASSUME NEW m \in D PROVE SemisBelow(G, m) \subseteq G[m]
    <3>1. SemisBelow(G, m) \subseteq SemisBelow(L, m)
      <4> HIDE DEF G
      <4> QED
        BY <1>1, <1>5, <2>1, BelowMore
    <3> QED
      BY <3>1
  <2> QED
    BY <2>2
<1>7. \A m \in D : L[m] = SemisBelow(L, m)
  <2>1. \A m \in D : L[m] \subseteq G[m]
    <3> HIDE DEF G
    <3> QED
      BY <1>2, <1>5, <1>6
  <2> QED
    BY <1>4, <2>1
<1>8. L = [n \in D |-> SemisBelow(L, n)]
  BY <1>1, <1>7 DEF SemiMap
<1> QED
  BY <1>8

\* The left part of a semicolon holds all others below it.
LEMMA SemisAre ==
  /\ \A n \in Semi : /\ SemisOf[n] = {n} \cup Inside(n)
                     /\ n \notin Inside(n) /\ Inside(n) \subseteq Semi
                     /\ SemisOf[right[n]] = {}
  /\ \A n \in (Node \cup {NoNode}) \ Semi : SemisOf[n] = {}
<1>1. PICK f : f = [m \in Node \cup {NoNode} |-> SemisBelow(f, m)]
  BY SemisExist
<1>2. SemisOf = [m \in Node \cup {NoNode} |-> SemisBelow(SemisOf, m)]
  <2> DEFINE IsMap(g) == g = [m \in Node \cup {NoNode} |->
        IF m \in Semi THEN {m} \cup g[left[m]] \cup g[right[m]] ELSE {}]
  <2>1. IsMap(f)
    BY <1>1 DEF SemisBelow
  <2>2. SemisOf = CHOOSE g : IsMap(g)
    BY Zenon DEF SemisOf
  <2>3. IsMap(SemisOf)
    <3> HIDE DEF IsMap
    <3> QED
      BY <2>1, <2>2
  <2> QED
    BY <2>3 DEF SemisBelow
<1>3. \A n \in Node \cup {NoNode} : SemisOf[n] = SemisBelow(SemisOf, n)
  BY <1>2
<1>4. \A n \in (Node \cup {NoNode}) \ Semi : SemisOf[n] = {}
  BY <1>3 DEF SemisBelow
<1>5. ASSUME NEW n \in Semi
      PROVE  /\ SemisOf[n] = {n} \cup Inside(n)
             /\ n \notin Inside(n) /\ Inside(n) \subseteq Semi
             /\ SemisOf[right[n]] = {}
  <2>1. n \in Node /\ right[n] \in (Node \cup {NoNode}) \ Semi
    BY NodeAssumption, SemiAssumption DEF Semi
  <2>2. SemisOf[right[n]] = {}
    BY <1>4, <2>1
  <2>3. SemisOf[n] = {n} \cup SemisOf[left[n]] \cup SemisOf[right[n]]
    BY <1>3, <2>1 DEF SemisBelow
  <2> QED
    BY <2>2, <2>3, SemiAssumption DEF Inside
<1> QED
  BY <1>4, <1>5

\* They are nodes.
LEMMA SemisTyped ==
  ASSUME NEW n \in Node \cup {NoNode}
  PROVE  SemisOf[n] \subseteq Semi
BY SemisAre DEF Semi

\* A semicolon is no command.
LEMMA SemiNotFatal == \A n \in Semi : ~Fatal(n)
BY DEF Semi, Fatal

\* The left part of n is itself a semicolon.
LEMMA StopsFrom ==
  ASSUME NEW n \in Semi, NEW m \in Semi, left[n] = m, ~Stops(m), ~Fatal(right[m])
  PROVE  ~Stops(n)
<1>1. ~Fatal(left[n])
  BY SemiNotFatal
<1>2. Inside(n) = {m} \cup Inside(m)
  BY SemisAre DEF Inside
<1>3. \A l \in Inside(n) : ~Fatal(left[l]) /\ ~Fatal(right[l])
  BY <1>2 DEF Stops
<1> QED
  BY <1>1, <1>3 DEF Stops

\* The left part of n is no semicolon.
LEMMA StopsAt ==
  ASSUME NEW n \in Semi, left[n] \notin Semi, ~Fatal(left[n])
  PROVE  ~Stops(n)
<1>1. n \in Node /\ left[n] \in Node \cup {NoNode}
  BY NodeAssumption DEF Semi
<1>2. Inside(n) = {}
  BY <1>1, SemisAre DEF Inside
<1> QED
  BY <1>2 DEF Stops

-----------------------------------------------------------------------------
(* Callers pushed and popped                                               *)

FrameKinds == {"semiLeft", "semiRight", "redir", "redirFork"}

\* A caller more.
LEMMA Pushed ==
  ASSUME NEW f \in Seq(Frame), NEW k \in FrameKinds,
         NEW n \in Node,
         NEW g, g = Push(k, n, f)
  PROVE  /\ g \in Seq(Frame) /\ Len(g) = Len(f) + 1 /\ Len(f) \in Nat /\ g # <<>>
         /\ Head(g) = g[1] /\ g[1].k = k /\ g[1].n = n
         /\ \A i \in 2 .. Len(g) : g[i] = f[i - 1]
         /\ \A i \in 1 .. Len(f) : g[i + 1] = f[i]
         /\ f # <<>> => 1 \in 1 .. Len(f) /\ Head(f) = f[1]
<1> DEFINE e == [k |-> k, n |-> n]
<1>1. e.k = k /\ e.n = n /\ e \in Frame
  BY DEF Frame, FrameKinds
<1> HIDE DEF e
<1>2. g = <<e>> \o f
  BY DEF Push, e
<1> QED
  BY <1>1, <1>2

\* A caller less.
LEMMA Popped ==
  ASSUME NEW f \in Seq(Frame), f # <<>>
  PROVE  LET g == Tail(f)
         IN /\ g \in Seq(Frame) /\ Len(f) = Len(g) + 1 /\ Len(g) \in Nat
            /\ Head(f) = f[1] /\ 1 \in 1 .. Len(f) /\ f[1] \in Frame
            /\ \A i \in 2 .. Len(f) : f[i] = g[i - 1]
            /\ \A i \in 1 .. Len(g) : g[i] = f[i + 1]
            /\ g # <<>> => 1 \in 1 .. Len(g) /\ Head(g) = g[1] /\ Head(g) = f[2]
OBVIOUS

\* A semicolon is in the right part of none, and in no redirection.
LEMMA SemiCaller ==
  ASSUME NEW r \in Frame, Fits(r.k, r.n), NEW n \in Semi, n = Called(r)
  PROVE  r.k = "semiLeft" /\ r.n \in Semi /\ {n} \cup Inside(n) \subseteq Inside(r.n)
<1>1. r.n \in Node /\ n \in Node /\ kind[n] = "semi"
  BY DEF Frame, Semi
<1>2. r.k \notin Redirs
  BY <1>1, TreeAssumption DEF Called, Fits, Redirs
<1>3. r.n \in Semi
  BY <1>1, <1>2 DEF Fits, Semi
<1>4. r.k = "semiLeft"
  BY <1>2, <1>3, SemiAssumption DEF Called, Redirs, Frame
<1>5. Inside(r.n) = SemisOf[n]
  BY <1>4 DEF Called, Inside
<1> QED
  BY <1>3, <1>4, <1>5, SemisAre

\* Who calls is linked to his own callers.
LEMMA LinkedPush ==
  ASSUME NEW f \in Seq(Frame), Nested(f), Linked(f), NEW n \in Node, CalledBy(n, f),
         NEW k \in {"semiLeft", "redir", "redirFork"},
         k = "semiLeft" => n \in Semi,
         k = "redirFork" => Unredirected(f)
  PROVE  Linked(Push(k, n, f)) /\ CalledBy(left[n], Push(k, n, f))
<1> DEFINE g == Push(k, n, f)
<1>0. k \in FrameKinds
  BY DEF FrameKinds
<1>1. /\ Len(g) = Len(f) + 1 /\ Len(f) \in Nat /\ g # <<>>
      /\ Head(g) = g[1] /\ g[1].k = k /\ g[1].n = n
      /\ \A i \in 2 .. Len(g) : g[i] = f[i - 1]
      /\ \A i \in 1 .. Len(f) : g[i + 1] = f[i]
      /\ f # <<>> => 1 \in 1 .. Len(f) /\ Head(f) = f[1]
  <2>1. /\ Len(g) = Len(f) + 1 /\ Len(f) \in Nat /\ g # <<>>
        /\ Head(g) = g[1] /\ g[1].k = k /\ g[1].n = n
    BY <1>0, Pushed, SMTT(30)
  <2>2. \A i \in 2 .. Len(g) : g[i] = f[i - 1]
    BY <1>0, Pushed, SMTT(30)
  <2>3. \A i \in 1 .. Len(f) : g[i + 1] = f[i]
    BY <1>0, Pushed, SMTT(30)
  <2> HIDE DEF g
  <2> QED
    BY <2>1, <2>2, <2>3
<1> HIDE DEF g
<1>2. CalledBy(left[n], g)
  BY <1>1 DEF CalledBy, Called
<1>3. ASSUME NEW i \in 1 .. Len(g), i # 1
      PROVE  /\ i < Len(g) => g[i].n = Called(g[i + 1])
             /\ g[i].k \notin Redirs =>
                  \A j \in i + 1 .. Len(g) :
                    g[j].k = "semiLeft" /\ {g[i].n} \cup Inside(g[i].n) \subseteq Inside(g[j].n)
             /\ g[i].k = "redirFork" => \A j \in i + 1 .. Len(g) : g[j].k \notin Redirs
             /\ g[i].k = "semiRight" => ~Stops(g[i].n)
  <2>1. i - 1 \in 1 .. Len(f) /\ g[i] = f[i - 1]
    BY <1>1, <1>3
  <2>2. i < Len(g) => i - 1 < Len(f) /\ g[i + 1] = f[(i - 1) + 1]
    BY <1>1, <1>3
  <2>3. \A j \in i + 1 .. Len(g) : j - 1 \in (i - 1) + 1 .. Len(f) /\ g[j] = f[j - 1]
    BY <1>1, <1>3
  <2> QED
    BY <2>1, <2>2, <2>3 DEF Linked
<1>4. 1 < Len(g) => g[1].n = Called(g[1 + 1])
  <2> SUFFICES ASSUME 1 < Len(g) PROVE g[1].n = Called(g[1 + 1])
    OBVIOUS
  <2>1. 1 \in 1 .. Len(f) /\ g[1 + 1] = f[1]
    BY <1>1
  <2>2. f # <<>>
    BY <2>1
  <2> QED
    BY <1>1, <2>1, <2>2 DEF CalledBy
<1>5. ASSUME k = "semiLeft", NEW j \in 1 .. Len(f)
      PROVE  f[j].k = "semiLeft" /\ {n} \cup Inside(n) \subseteq Inside(f[j].n)
  <2>1. f # <<>> /\ 1 \in 1 .. Len(f) /\ f[1] \in Frame /\ n = Called(f[1])
    BY <1>1, <1>5 DEF CalledBy
  <2>2. Fits(f[1].k, f[1].n)
    BY <2>1 DEF Nested
  <2>3. f[1].k = "semiLeft" /\ {n} \cup Inside(n) \subseteq Inside(f[1].n)
    BY <1>5, <2>1, <2>2, SemiCaller
  <2>4. CASE j # 1
    <3>1. j \in 1 + 1 .. Len(f)
      BY <1>1, <2>4
    <3>2. f[1].k \notin Redirs
      BY <2>3 DEF Redirs
    <3>3. f[j].k = "semiLeft" /\ Inside(f[1].n) \subseteq Inside(f[j].n)
      BY <2>1, <3>1, <3>2 DEF Linked
    <3> QED
      BY <2>3, <3>3
  <2> QED
    BY <2>3, <2>4
<1>6. ASSUME NEW j \in 1 + 1 .. Len(g)
      PROVE  j - 1 \in 1 .. Len(f) /\ g[j] = f[j - 1]
  BY <1>1
<1>7. g[1].k \notin Redirs =>
        \A j \in 1 + 1 .. Len(g) :
          g[j].k = "semiLeft" /\ {g[1].n} \cup Inside(g[1].n) \subseteq Inside(g[j].n)
  BY <1>1, <1>5, <1>6 DEF Redirs
<1>8. g[1].k = "redirFork" => \A j \in 1 + 1 .. Len(g) : g[j].k \notin Redirs
  BY <1>1, <1>6 DEF Unredirected
<1>9. g[1].k # "semiRight"
  BY <1>1
<1>10. ASSUME NEW i \in 1 .. Len(g)
      PROVE  /\ i < Len(g) => g[i].n = Called(g[i + 1])
             /\ g[i].k \notin Redirs =>
                  \A j \in i + 1 .. Len(g) :
                    g[j].k = "semiLeft" /\ {g[i].n} \cup Inside(g[i].n) \subseteq Inside(g[j].n)
             /\ g[i].k = "redirFork" => \A j \in i + 1 .. Len(g) : g[j].k \notin Redirs
             /\ g[i].k = "semiRight" => ~Stops(g[i].n)
  BY <1>3, <1>4, <1>7, <1>8, <1>9
<1>11. Linked(g)
  BY <1>10 DEF Linked
<1> QED
  BY <1>2, <1>11 DEF g

\* Without the innermost caller the others are linked as before.
LEMMA LinkedTail ==
  ASSUME NEW f \in Seq(Frame), f # <<>>, Linked(f)
  PROVE  Linked(Tail(f)) /\ CalledBy(Head(f).n, Tail(f))
<1> DEFINE g == Tail(f)
<1>1. /\ Len(f) = Len(g) + 1 /\ Len(g) \in Nat /\ Head(f) = f[1] /\ 1 \in 1 .. Len(f)
      /\ \A i \in 1 .. Len(g) : g[i] = f[i + 1]
      /\ g # <<>> => 1 \in 1 .. Len(g) /\ Head(g) = g[1]
  BY Popped
<1> HIDE DEF g
<1>2. CalledBy(Head(f).n, g)
  <2> SUFFICES ASSUME g # <<>> PROVE Head(f).n = Called(Head(g))
    BY DEF CalledBy
  <2>1. 1 < Len(f) /\ Head(g) = f[1 + 1]
    BY <1>1
  <2> QED
    BY <1>1, <2>1 DEF Linked
<1>3. ASSUME NEW i \in 1 .. Len(g)
      PROVE  /\ i < Len(g) => g[i].n = Called(g[i + 1])
             /\ g[i].k \notin Redirs =>
                  \A j \in i + 1 .. Len(g) :
                    g[j].k = "semiLeft" /\ {g[i].n} \cup Inside(g[i].n) \subseteq Inside(g[j].n)
             /\ g[i].k = "redirFork" => \A j \in i + 1 .. Len(g) : g[j].k \notin Redirs
             /\ g[i].k = "semiRight" => ~Stops(g[i].n)
  <2>1. i + 1 \in 1 .. Len(f) /\ g[i] = f[i + 1]
    BY <1>1
  <2>2. i < Len(g) => i + 1 < Len(f) /\ g[i + 1] = f[(i + 1) + 1]
    BY <1>1
  <2>3. \A j \in i + 1 .. Len(g) : j + 1 \in (i + 1) + 1 .. Len(f) /\ g[j] = f[j + 1]
    BY <1>1
  <2> QED
    BY <2>1, <2>2, <2>3 DEF Linked
<1>4. Linked(g)
  BY <1>3 DEF Linked
<1> QED
  BY <1>2, <1>4 DEF g

\* From the left part of a semicolon to its right part.
LEMMA LinkedTurn ==
  ASSUME NEW f \in Seq(Frame), f # <<>>, Linked(f), Head(f).k = "semiLeft", ~Stops(Head(f).n)
  PROVE  LET g == Push("semiRight", Head(f).n, Tail(f))
         IN Linked(g) /\ CalledBy(right[Head(f).n], g)
<1> DEFINE t == Tail(f)
           n == Head(f).n
           g == Push("semiRight", n, t)
<1>1. /\ t \in Seq(Frame) /\ Len(f) = Len(t) + 1 /\ Len(t) \in Nat
      /\ Head(f) = f[1] /\ 1 \in 1 .. Len(f) /\ f[1] \in Frame
      /\ \A i \in 2 .. Len(f) : f[i] = t[i - 1]
  BY Popped
<1>2. n \in Node
  BY <1>1 DEF Frame
<1>3. /\ g # <<>> /\ Len(g) = Len(t) + 1 /\ Head(g) = g[1]
      /\ g[1].k = "semiRight" /\ g[1].n = n
      /\ \A i \in 2 .. Len(g) : g[i] = t[i - 1]
  <2>1. "semiRight" \in FrameKinds
    BY DEF FrameKinds
  <2> HIDE DEF t, n
  <2> QED
    BY <1>1, <1>2, <2>1, Pushed
<1> HIDE DEF g, t
<1>4. Len(g) = Len(f) /\ \A i \in 2 .. Len(g) : g[i] = f[i]
  BY <1>1, <1>3
<1>5. f[1].n = n /\ f[1].k = "semiLeft" /\ g[1].k \notin Redirs /\ f[1].k \notin Redirs
  BY <1>1, <1>3 DEF Redirs
<1> HIDE DEF n
<1>6. CalledBy(right[n], g)
  BY <1>3 DEF CalledBy, Called
<1>7. ASSUME NEW i \in 1 .. Len(g)
      PROVE  /\ i < Len(g) => g[i].n = Called(g[i + 1])
             /\ g[i].k \notin Redirs =>
                  \A j \in i + 1 .. Len(g) :
                    g[j].k = "semiLeft" /\ {g[i].n} \cup Inside(g[i].n) \subseteq Inside(g[j].n)
             /\ g[i].k = "redirFork" => \A j \in i + 1 .. Len(g) : g[j].k \notin Redirs
             /\ g[i].k = "semiRight" => ~Stops(g[i].n)
  <2>1. i < Len(g) => g[i + 1] = f[i + 1]
    BY <1>1, <1>4
  <2>2. \A j \in i + 1 .. Len(g) : g[j] = f[j]
    BY <1>1, <1>4
  <2>3. CASE i = 1
    <3>1. g[i].n = f[i].n /\ g[i].k # "redirFork" /\ ~Stops(g[i].n)
      BY <1>3, <1>5, <2>3 DEF n
    <3>2. f[i].k \notin Redirs
      BY <1>5, <2>3
    <3> QED
      BY <1>4, <2>1, <2>2, <3>1, <3>2 DEF Linked
  <2>4. CASE i # 1
    <3>1. g[i] = f[i]
      BY <1>1, <1>4, <2>4
    <3> QED
      BY <1>4, <2>1, <2>2, <3>1 DEF Linked
  <2> QED
    BY <2>3, <2>4
<1>8. Linked(g)
  BY <1>7 DEF Linked
<1> QED
  BY <1>6, <1>8 DEF g, n, t

\* What waits with a caller more.
LEMMA WaitingPush ==
  ASSUME NEW f \in Seq(Frame), NEW k \in FrameKinds,
         NEW n \in Node
  PROVE  /\ Waiting(Push(k, n, f)) = Waiting(f) \cup IF k = "semiLeft" THEN {n} ELSE {}
         /\ Forked(Push(k, n, f)) <=> k = "redirFork" \/ Forked(f)
         /\ Unredirected(Push(k, n, f)) <=> k \notin Redirs /\ Unredirected(f)
<1> DEFINE g == Push(k, n, f)
<1>0. k \in FrameKinds
  BY DEF FrameKinds
<1>1. /\ Len(g) = Len(f) + 1 /\ Len(f) \in Nat /\ g # <<>>
      /\ Head(g) = g[1] /\ g[1].k = k /\ g[1].n = n
      /\ \A i \in 2 .. Len(g) : g[i] = f[i - 1]
      /\ \A i \in 1 .. Len(f) : g[i + 1] = f[i]
      /\ f # <<>> => 1 \in 1 .. Len(f) /\ Head(f) = f[1]
  <2>1. /\ Len(g) = Len(f) + 1 /\ Len(f) \in Nat /\ g # <<>>
        /\ Head(g) = g[1] /\ g[1].k = k /\ g[1].n = n
    BY <1>0, Pushed, SMTT(30)
  <2>2. \A i \in 2 .. Len(g) : g[i] = f[i - 1]
    BY <1>0, Pushed, SMTT(30)
  <2>3. \A i \in 1 .. Len(f) : g[i + 1] = f[i]
    BY <1>0, Pushed, SMTT(30)
  <2> HIDE DEF g
  <2> QED
    BY <2>1, <2>2, <2>3
<1> HIDE DEF g
<1>2. 1 \in 1 .. Len(g) /\ \A i \in 1 .. Len(f) : i + 1 \in 1 .. Len(g)
  BY <1>1
<1>3. \A i \in 1 .. Len(g) : i = 1 \/ (i - 1 \in 1 .. Len(f) /\ g[i] = f[i - 1])
  BY <1>1
<1>4. ASSUME NEW m
      PROVE  m \in Waiting(g) <=> m \in Waiting(f) \/ (k = "semiLeft" /\ m = n)
  <2>1. ASSUME m \in Waiting(g) PROVE m \in Waiting(f) \/ (k = "semiLeft" /\ m = n)
    <3>1. PICK i \in 1 .. Len(g) : g[i].k = "semiLeft" /\ m = g[i].n
      BY <2>1 DEF Waiting
    <3> QED
      BY <1>1, <1>3, <3>1 DEF Waiting
  <2>2. ASSUME m \in Waiting(f) PROVE m \in Waiting(g)
    <3>1. PICK i \in 1 .. Len(f) : f[i].k = "semiLeft" /\ m = f[i].n
      BY <2>2 DEF Waiting
    <3>2. i + 1 \in 1 .. Len(g) /\ g[i + 1].k = "semiLeft" /\ m = g[i + 1].n
      BY <1>1, <1>2, <3>1
    <3> QED
      BY <3>2 DEF Waiting
  <2>3. k = "semiLeft" => n \in Waiting(g)
    BY <1>1, <1>2 DEF Waiting
  <2> QED
    BY <2>1, <2>2, <2>3
<1>5. Forked(g) <=> k = "redirFork" \/ Forked(f)
  BY <1>1, <1>2, <1>3 DEF Forked
<1>6. Unredirected(g) <=> k \notin Redirs /\ Unredirected(f)
  BY <1>1, <1>2, <1>3 DEF Unredirected
<1>7. Waiting(g) = Waiting(f) \cup IF k = "semiLeft" THEN {n} ELSE {}
  BY <1>4
<1> QED
  BY <1>5, <1>6, <1>7 DEF g

\* What waits with a caller less.
LEMMA WaitingTail ==
  ASSUME NEW f \in Seq(Frame), f # <<>>
  PROVE  /\ Waiting(f) = Waiting(Tail(f)) \cup IF Head(f).k = "semiLeft" THEN {Head(f).n} ELSE {}
         /\ Forked(f) <=> Head(f).k = "redirFork" \/ Forked(Tail(f))
         /\ Unredirected(f) <=> Head(f).k \notin Redirs /\ Unredirected(Tail(f))
<1> DEFINE h == Head(f)
           t == Tail(f)
<1>1. t \in Seq(Frame) /\ h \in Frame
  BY Popped
<1>2. h.k \in FrameKinds /\ h.n \in Node /\ h = [k |-> h.k, n |-> h.n]
  BY <1>1 DEF Frame, FrameKinds
<1>3. f = <<h>> \o t
  BY Popped
<1> HIDE DEF h, t
<1>4. f = Push(h.k, h.n, t)
  BY <1>2, <1>3 DEF Push
<1>5. /\ Waiting(Push(h.k, h.n, t)) = Waiting(t) \cup IF h.k = "semiLeft" THEN {h.n} ELSE {}
      /\ Forked(Push(h.k, h.n, t)) <=> h.k = "redirFork" \/ Forked(t)
      /\ Unredirected(Push(h.k, h.n, t)) <=> h.k \notin Redirs /\ Unredirected(t)
  BY <1>1, <1>2, WaitingPush, Zenon
<1> QED
  BY <1>4, <1>5 DEF h, t

\* Without callers nothing waits.
LEMMA WaitingNothing ==
  /\ Waiting(<<>>) = {} /\ ~Forked(<<>>) /\ Unredirected(<<>>)
  /\ Linked(<<>>) /\ Survived(<<>>) /\ \A n : CalledBy(n, <<>>)
BY DEF Waiting, Forked, Unredirected, Linked, Survived, CalledBy

\* The innermost semicolon is not among the ones around it.
LEMMA WaitingOnce ==
  ASSUME NEW f \in Seq(Frame), f # <<>>, Nested(f), Linked(f), Head(f).k = "semiLeft"
  PROVE  Head(f).n \notin Waiting(Tail(f))
<1> DEFINE g == Tail(f)
<1>1. /\ Len(f) = Len(g) + 1 /\ Len(g) \in Nat /\ g \in Seq(Frame)
      /\ Head(f) = f[1] /\ 1 \in 1 .. Len(f) /\ f[1] \in Frame
      /\ \A i \in 1 .. Len(g) : g[i] = f[i + 1]
  BY Popped
<1> HIDE DEF g
<1> SUFFICES ASSUME Head(f).n \in Waiting(g) PROVE FALSE
  BY DEF g
<1>2. PICK i \in 1 .. Len(g) : g[i].k = "semiLeft" /\ Head(f).n = g[i].n
  BY DEF Waiting
<1>3. i + 1 \in 1 + 1 .. Len(f) /\ f[i + 1].n = f[1].n
  BY <1>1, <1>2
<1>4. f[1].n \in Inside(f[i + 1].n)
  BY <1>1, <1>3 DEF Linked, Redirs
<1>5. f[1].n \in Semi
  BY <1>1 DEF Nested, Fits, Semi, Frame, Redirs
<1> QED
  BY <1>3, <1>4, <1>5, SemisAre

\* Around the outermost redirection, there are only semicolons.
LEMMA ForkedTail ==
  ASSUME NEW f \in Seq(Frame), f # <<>>, Linked(f)
  PROVE  Head(f).k = "redirFork" => Unredirected(Tail(f)) /\ ~Forked(Tail(f))
<1> DEFINE g == Tail(f)
<1>1. /\ Len(f) = Len(g) + 1 /\ Len(g) \in Nat
      /\ Head(f) = f[1] /\ 1 \in 1 .. Len(f)
      /\ \A i \in 1 .. Len(g) : g[i] = f[i + 1]
  BY Popped
<1> HIDE DEF g
<1>2. \A i \in 1 .. Len(g) : i + 1 \in 1 + 1 .. Len(f)
  BY <1>1
<1>3. Head(f).k = "redirFork" => Unredirected(g)
  BY <1>1, <1>2 DEF Linked, Unredirected
<1> QED
  BY <1>3 DEF Unredirected, Forked, Redirs, g

-----------------------------------------------------------------------------
(* A step of a process in its line                                         *)

\* Called directly, n is neither a semicolon nor fatal.
LEMMA SurvivedAt ==
  ASSUME NEW f \in Seq(Frame), Nested(f), NEW n, CalledBy(n, f), n \notin Semi, ~Fatal(n)
  PROVE  Survived(f)
<1> SUFFICES ASSUME f # <<>>
             PROVE  /\ Head(f).k = "semiLeft" => ~Stops(Head(f).n)
                    /\ Head(f).k = "semiRight" => ~Fatal(right[Head(f).n])
  BY DEF Survived
<1>1. Head(f) = f[1] /\ 1 \in 1 .. Len(f) /\ f[1] \in Frame /\ n = Called(f[1])
  BY Popped DEF CalledBy
<1>2. f[1].k = "semiLeft" => f[1].n \in Semi /\ left[f[1].n] = n
  BY <1>1 DEF Nested, Fits, Redirs, Frame, Semi, Called
<1>3. f[1].k = "semiRight" => right[f[1].n] = n
  BY <1>1 DEF Called
<1> QED
  BY <1>1, <1>2, <1>3, StopsAt

\* The right part of a semicolon is over.
LEMMA SurvivedRight ==
  ASSUME NEW f \in Seq(Frame), f # <<>>, Nested(f), Linked(f), Survived(f),
         Head(f).k = "semiRight"
  PROVE  Survived(Tail(f))
<1> DEFINE g == Tail(f)
           n == Head(f).n
<1> SUFFICES ASSUME g # <<>>
             PROVE  /\ Head(g).k = "semiLeft" => ~Stops(Head(g).n)
                    /\ Head(g).k = "semiRight" => ~Fatal(right[Head(g).n])
  BY DEF Survived
<1>1. /\ Head(f) = f[1] /\ 1 \in 1 .. Len(f) /\ f[1] \in Frame
      /\ g \in Seq(Frame) /\ Head(g) = g[1] /\ 1 \in 1 .. Len(g)
  BY Popped
<1>2. Nested(g) /\ n = Called(Head(g))
  BY TailNested, LinkedTail DEF CalledBy
<1>3. Head(g) \in Frame /\ Fits(Head(g).k, Head(g).n)
  BY <1>1, <1>2 DEF Nested
<1>4. n \in Semi
  BY <1>1 DEF Nested, Fits, Redirs, Frame, Semi
<1>5. Head(g).k = "semiLeft" /\ Head(g).n \in Semi
  BY <1>2, <1>3, <1>4, SemiCaller
<1>6. ~Stops(n) /\ ~Fatal(right[n])
  BY <1>1 DEF Linked, Survived
<1>7. left[Head(g).n] = n
  BY <1>2, <1>5 DEF Called
<1>8. ~Stops(Head(g).n)
  BY <1>4, <1>5, <1>6, <1>7, StopsFrom
<1> QED
  BY <1>5, <1>8

\* A redirection is over.
LEMMA SurvivedRedir ==
  ASSUME NEW f \in Seq(Frame), f # <<>>, Nested(f), Linked(f), Head(f).k \in Redirs
  PROVE  Survived(Tail(f))
<1>1. Head(f) = f[1] /\ 1 \in 1 .. Len(f) /\ f[1] \in Frame /\ Tail(f) \in Seq(Frame)
  BY Popped
<1>2. kind[Head(f).n] = "redirection"
  BY <1>1 DEF Nested, Fits
<1>3. Head(f).n \notin Semi /\ ~Fatal(Head(f).n)
  BY <1>2 DEF Semi, Fatal
<1> QED
  BY <1>1, <1>3, TailNested, LinkedTail, SurvivedAt

Footing == TypeOK /\ NodeInv /\ CallInv /\ SideInv /\ PlacedInv

\* What Footing says of one process.
LEMMA FootingOf ==
  ASSUME Footing, NEW p \in PID
  PROVE  /\ ctl[p].frames \in Seq(Frame) /\ ctl[p].node \in Node \cup {NoNode}
         /\ Nested(ctl[p].frames) /\ Linked(ctl[p].frames)
         /\ Sound(status[p], ctl[p]) /\ Placed(status[p], ctl[p], base[p]) /\ Sided(p)
         /\ base[p] \in {"main", "pipe"}
<1>1. ctl[p].frames \in Seq(Frame) /\ ctl[p].node \in Node \cup {NoNode}
  BY ControlType DEF Footing
<1>2. Sound(status[p], ctl[p]) /\ Placed(status[p], ctl[p], base[p]) /\ Sided(p)
  BY DEF Footing, CallInv, PlacedInv, SideInv
<1>3. base[p] \in {"main", "pipe"}
  BY DEF Footing, TypeOK
<1> QED
  BY <1>1, <1>2, <1>3 DEF Sound, Placed

\* PlacedInv, process by process.
LEMMA PlacedNext ==
  ASSUME \A q \in PID : Placed(status'[q], ctl'[q], base'[q])
  PROVE  PlacedInv'
BY DEF PlacedInv, Placed, Linked, Called, CalledBy, Survived, Forked, Unredirected, Inside, Stops, Fatal

\* A process that rests keeps its place, and what it has to run.
LEMMA PlacedRest ==
  ASSUME PlacedInv, NEW q \in PID, Rest(q)
  PROVE  /\ Placed(status'[q], ctl'[q], base'[q])
         /\ Due(status'[q], ctl'[q]) = Due(status[q], ctl[q])
<1>1. Placed(status[q], ctl[q], base[q])
  BY DEF PlacedInv
<1>2. CASE status'[q] = status[q]
  BY <1>1, <1>2 DEF Rest
<1>3. CASE status[q] = "zombie" /\ status'[q] = "free"
  <2>1. Placed("free", ctl[q], base[q])
    BY <1>1, <1>3 DEF Placed, InCall, AtCall
  <2>2. Due("free", ctl[q]) = {} /\ Due("zombie", ctl[q]) = {}
    BY DEF Due
  <2> QED
    BY <1>3, <2>1, <2>2 DEF Rest
<1> QED
  BY <1>2, <1>3 DEF Rest

\* A step of p alone keeps everybody's place.
LEMMA PlacedAlone ==
  ASSUME PlacedInv, NEW p \in PID, \A q \in PID \ {p} : Rest(q),
         Placed(status'[p], ctl'[p], base'[p])
  PROVE  PlacedInv'
<1>1. \A q \in PID : Placed(status'[q], ctl'[q], base'[q])
  BY PlacedRest
<1> QED
  BY <1>1, PlacedNext

\* p goes on in its line.
Plain(p) ==
  /\ \A q \in PID \ {p} : Rest(q)
  /\ Live(p) /\ status[p] \notin {"prompt", "program"}
  /\ Live(p)' /\ base'[p] = base[p] /\ depth'[p] = depth[p]
  /\ status'[p] # "program" => Ahead(status'[p], ctl'[p]) = Ahead(status[p], ctl[p])
  /\ Due(status'[p], ctl'[p]) = Due(status[p], ctl[p])

\* It does, with the same callers, semicolons and forks.
LEMMA PlainIs ==
  ASSUME NEW p \in PID, \A q \in PID \ {p} : Rest(q),
         status[p] \in InCall \cup {"return"}, status'[p] \in InCall \cup {"return", "prompt"},
         base'[p] = base[p], depth'[p] = depth[p],
         Ahead(status'[p], ctl'[p]) = Ahead(status[p], ctl[p]),
         Provisional(status'[p], ctl'[p]) <=> Provisional(status[p], ctl[p])
  PROVE  Plain(p)
<1>1. status[p] \notin {"free", "zombie"} /\ status'[p] \notin {"free", "zombie"}
  BY DEF InCall, AtCall
<1>2. Due(status'[p], ctl'[p]) = Due(status[p], ctl[p])
  BY <1>1, Zenon DEF Due
<1> QED
  BY <1>1, <1>2 DEF Plain, Live, InCall, AtCall

\* What is ahead of a process that evaluates no semicolon.
LEMMA AheadIs ==
  ASSUME NEW st, NEW c, c.node \in Node \cup {NoNode}, st = "eval" => c.node \notin Semi
  PROVE  Ahead(st, c) = Waiting(c.frames)
BY SemisAre DEF Ahead

\* p leaves the call that it is in.
LEMMA LeavesCall ==
  ASSUME Footing, NEW p \in PID, \A q \in PID \ {p} : Rest(q),
         status[p] \in InCall, status[p] = "eval" => ctl[p].node \notin Semi /\ ~Fatal(ctl[p].node),
         status'[p] = "return", ctl'[p].frames = ctl[p].frames,
         base'[p] = base[p], depth'[p] = depth[p], ctl'[p].node = NoNode
  PROVE  /\ PlacedInv'
         /\ Ahead(status'[p], ctl'[p]) = Ahead(status[p], ctl[p])
         /\ status[p] \notin {"redirect", "exec"} \/ ~ctl[p].needfork => Plain(p)
         /\ status[p] \in {"redirect", "exec"} /\ ctl[p].needfork => ~Forked(ctl[p].frames)
<1> DEFINE f == ctl[p].frames
<1>1. /\ f \in Seq(Frame) /\ ctl[p].node \in Node \cup {NoNode}
      /\ Nested(f) /\ Linked(f) /\ Placed(status[p], ctl[p], base[p])
  BY FootingOf
<1>2. CalledBy(ctl[p].node, f) /\ ctl[p].node \notin Semi /\ ~Fatal(ctl[p].node)
  BY <1>1 DEF Placed
<1>3. Survived(f)
  BY <1>1, <1>2, SurvivedAt
<1>4. Placed(status'[p], ctl'[p], base'[p])
  BY <1>1, <1>3 DEF Placed, InCall, AtCall
<1>5. PlacedInv'
  BY <1>4, PlacedAlone DEF Footing
<1>6. Ahead(status[p], ctl[p]) = Waiting(f)
  BY <1>1, <1>2, AheadIs
<1>7. Ahead(status'[p], ctl'[p]) = Waiting(f)
  BY AheadIs
<1>8. status[p] \notin {"redirect", "exec"} \/ ~ctl[p].needfork => Plain(p)
  <2> SUFFICES ASSUME status[p] \notin {"redirect", "exec"} \/ ~ctl[p].needfork
               PROVE  Plain(p)
    OBVIOUS
  <2>1. Provisional(status'[p], ctl'[p]) <=> Provisional(status[p], ctl[p])
    BY DEF Provisional
  <2> QED
    BY <1>6, <1>7, <2>1, PlainIs
<1>9. ASSUME status[p] \in {"redirect", "exec"}, ctl[p].needfork PROVE ~Forked(f)
  <2>1. Unredirected(f)
    BY <1>9, ForksUnredirected DEF AtCall, Footing
  <2> QED
    BY <2>1 DEF Unredirected, Forked, Redirs
<1> QED
  BY <1>5, <1>6, <1>7, <1>8, <1>9

\* What p is to run, when it dies, it would have stopped before.
Settled(p) == Live(p) /\ \A n \in Due(status[p], ctl[p]) : Stops(n)

\* A process that dies has nothing to run, or has been ended by its line.
LEMMA Dying ==
  ASSUME Footing, NEW p \in PID, Die(p), Live(p),
         \/ Due(status[p], ctl[p]) = {}
         \/ status[p] = "eval" /\ Fatal(ctl[p].node)
  PROVE  PlacedInv' /\ Settled(p)
<1> DEFINE f == ctl[p].frames
           x == ctl[p].node
<1>1. /\ f \in Seq(Frame) /\ x \in Node \cup {NoNode}
      /\ Nested(f) /\ Linked(f) /\ Placed(status[p], ctl[p], base[p]) /\ Sided(p)
      /\ base[p] \in {"main", "pipe"} /\ Sound(status[p], ctl[p])
  BY FootingOf
<1>2. PlacedInv'
  <2>1. (\A q \in PID \ {p} : Rest(q)) /\ ~Live(p)' /\ ctl'[p] = Idle
    BY DieRest DEF Footing
  <2>2. status'[p] \in {"free", "zombie"} /\ ctl'[p].frames = <<>>
    BY <2>1 DEF Live, Idle, Value
  <2>3. Placed(status'[p], ctl'[p], base'[p])
    BY <2>2, WaitingNothing DEF Placed, InCall, AtCall
  <2> QED
    BY <2>1, <2>3, PlacedAlone DEF Footing
<1>3. CASE Due(status[p], ctl[p]) = {}
  BY <1>2, <1>3 DEF Settled
<1>4. ASSUME status[p] = "eval", Fatal(x), NEW n \in Due(status[p], ctl[p]) PROVE Stops(n)
  <2>1. x \notin Semi
    BY <1>4, SemiNotFatal
  <2>2. n \in Waiting(f) /\ ~Forked(f)
    BY <1>1, <1>4, <2>1, AheadIs DEF Due, Provisional
  <2>3. PICK j \in 1 .. Len(f) : f[j].k = "semiLeft" /\ f[j].n = n
    BY <2>2 DEF Waiting
  <2>4. f # <<>> /\ Head(f) = f[1] /\ 1 \in 1 .. Len(f) /\ f[1] \in Frame /\ Len(f) \in Nat
    BY <1>1, <2>3
  <2>5. base[p] = "main"
    BY <1>1, <2>3 DEF Sided, Redirs
  <2>6. Unredirected(f)
    BY <1>1, <2>2, <2>5 DEF Placed
  <2>7. f[1].k \in {"semiLeft", "semiRight"}
    BY <2>4, <2>6 DEF Unredirected, Redirs, Frame
  <2>8. x = Called(f[1])
    BY <1>1, <1>4, <2>4 DEF Placed, InCall, AtCall, CalledBy
  <2>9. CASE j = 1
    BY <1>4, <2>3, <2>8, <2>9 DEF Called, Stops
  <2>10. CASE j # 1
    <3>1. f[1].n \in Inside(n)
      <4>1. j \in 1 + 1 .. Len(f) /\ f[1].k \notin Redirs
        BY <2>4, <2>6, <2>10 DEF Unredirected
      <4> QED
        BY <1>1, <2>3, <2>4, <4>1 DEF Linked
    <3> QED
      BY <1>4, <2>7, <2>8, <3>1 DEF Called, Stops
  <2> QED
    BY <2>9, <2>10
<1> QED
  BY <1>2, <1>3, <1>4 DEF Settled

\* Whoever has to fork for nothing has no line before it.
LEMMA NothingDue ==
  ASSUME Footing, NEW p \in PID,
         \/ status[p] \in {"redirect", "exec"}
         \/ status[p] \notin InCall \cup {"return"}
         \/ status[p] = "return" /\ (ctl[p].frames = <<>> \/ Head(ctl[p].frames).k = "redirFork")
  PROVE  Due(status[p], ctl[p]) = {}
<1> DEFINE f == ctl[p].frames
<1>1. /\ f \in Seq(Frame) /\ ctl[p].node \in Node \cup {NoNode}
      /\ Placed(status[p], ctl[p], base[p]) /\ Sided(p) /\ base[p] \in {"main", "pipe"}
  BY FootingOf
<1>2. status[p] # "eval"
  BY DEF InCall, AtCall
<1>3. Ahead(status[p], ctl[p]) = Waiting(f)
  BY <1>1, <1>2, AheadIs
<1>4. f = <<>> => Due(status[p], ctl[p]) = {}
  BY <1>3, WaitingNothing DEF Due
<1>5. Forked(f) => Due(status[p], ctl[p]) = {}
  BY DEF Due, Provisional
<1>6. CASE status[p] \in {"redirect", "exec"}
  <2>1. CASE ctl[p].needfork
    BY <1>6, <2>1 DEF Due, Provisional
  <2>2. CASE ~ctl[p].needfork /\ base[p] = "main"
    BY <1>1, <1>5, <1>6, <2>2 DEF Placed
  <2>3. CASE base[p] = "pipe"
    <3>1. Waiting(f) = {}
      BY <1>1, <2>3 DEF Sided, Waiting, Redirs
    <3> QED
      BY <1>3, <3>1 DEF Due
  <2> QED
    BY <1>1, <2>1, <2>2, <2>3
<1>7. CASE status[p] \notin InCall \cup {"return"}
  BY <1>1, <1>4, <1>7 DEF Placed
<1>8. CASE f # <<>> /\ Head(f).k = "redirFork"
  BY <1>1, <1>5, <1>8, WaitingTail
<1> QED
  BY <1>4, <1>6, <1>7, <1>8

\* p returns from what its innermost caller has called.
LEMMA PopsFrame ==
  ASSUME Footing, NEW p \in PID, status[p] = "return", ctl[p].frames # <<>>,
         Head(ctl[p].frames).k # "semiLeft", NEW v, Return(p, v, Tail(ctl[p].frames))
  PROVE  /\ PlacedInv'
         /\ Head(ctl[p].frames).k # "redirFork" => Plain(p)
         /\ Head(ctl[p].frames).k = "redirFork" =>
              /\ Ahead(status'[p], ctl'[p]) = Ahead(status[p], ctl[p])
              /\ Due(status'[p], ctl'[p]) = Waiting(ctl[p].frames)
<1> DEFINE f == ctl[p].frames
           t == Tail(f)
<1>1. /\ f \in Seq(Frame) /\ ctl[p].node \in Node \cup {NoNode}
      /\ Nested(f) /\ Linked(f) /\ Placed(status[p], ctl[p], base[p])
  BY FootingOf
<1>2. Step(p, "return", Value(v, t))
  BY DEF Return
<1>3. /\ \A q \in PID \ {p} : Rest(q)
      /\ status'[p] = "return" /\ ctl'[p] = Value(v, t)
      /\ base'[p] = base[p] /\ depth'[p] = depth[p]
  BY <1>2, StepRest DEF Footing
<1>4. ctl'[p].frames = t /\ ctl'[p].node = NoNode
  BY <1>3 DEF Value
<1> HIDE DEF t
<1>5. f # <<>> /\ Head(f) \in Frame /\ Survived(f)
  BY <1>1 DEF Placed
<1>6. Survived(t)
  <2>1. CASE Head(f).k = "semiRight"
    BY <1>1, <1>5, <2>1, SurvivedRight DEF t
  <2>2. CASE Head(f).k \in Redirs
    BY <1>1, <1>5, <2>2, SurvivedRedir DEF t
  <2> QED
    BY <1>5, <2>1, <2>2 DEF Frame, Redirs
<1>7. /\ Waiting(f) = Waiting(t)
      /\ Forked(f) <=> Head(f).k = "redirFork" \/ Forked(t)
      /\ Unredirected(f) <=> Head(f).k \notin Redirs /\ Unredirected(t)
  BY <1>1, <1>5, WaitingTail DEF t
<1>8. Linked(t) /\ (Head(f).k = "redirFork" => Unredirected(t) /\ ~Forked(t))
  BY <1>1, <1>5, LinkedTail, ForkedTail DEF t
<1>9. base[p] = "main" /\ ~Unredirected(t) => Forked(t)
  BY <1>1, <1>7, <1>8 DEF Placed
<1>10. Placed(status'[p], ctl'[p], base'[p])
  BY <1>3, <1>4, <1>6, <1>8, <1>9 DEF Placed, InCall, AtCall
<1>11. PlacedInv'
  BY <1>3, <1>10, PlacedAlone DEF Footing
<1>12. /\ Ahead(status[p], ctl[p]) = Waiting(f)
       /\ Ahead(status'[p], ctl'[p]) = Waiting(f)
  BY <1>1, <1>3, <1>4, <1>7, AheadIs
<1>13. ASSUME Head(f).k # "redirFork" PROVE Plain(p)
  <2>1. Provisional(status'[p], ctl'[p]) <=> Provisional(status[p], ctl[p])
    BY <1>3, <1>4, <1>7, <1>13 DEF Provisional
  <2> QED
    BY <1>3, <1>12, <2>1, PlainIs
<1>14. ASSUME Head(f).k = "redirFork"
       PROVE  Due(status'[p], ctl'[p]) = Waiting(f)
  BY <1>3, <1>4, <1>8, <1>12, <1>14 DEF Due, Provisional
<1> QED
  BY <1>11, <1>12, <1>13, <1>14

\* p has run the left part of a semicolon and begins the right one.
LEMMA TurnDoes ==
  ASSUME Footing, NEW p \in PID, ReturnSemiLeft(p)
  PROVE  LET n == Head(ctl[p].frames).n
         IN /\ PlacedInv'
            /\ \A q \in PID \ {p} : Rest(q)
            /\ Live(p) /\ status[p] # "prompt" /\ Live(p)' /\ status'[p] # "program"
            /\ base'[p] = base[p] /\ depth'[p] = depth[p]
            /\ n \in Due(status[p], ctl[p]) /\ ~Stops(n) /\ n \in Semi
            /\ Due(status'[p], ctl'[p]) = Due(status[p], ctl[p]) \ {n}
            /\ Ahead(status'[p], ctl'[p]) = Ahead(status[p], ctl[p]) \ {n}
<1> DEFINE f == ctl[p].frames
           n == Head(f).n
           t == Tail(f)
           g == Push("semiRight", n, t)
<1>1. /\ f \in Seq(Frame) /\ ctl[p].node \in Node \cup {NoNode}
      /\ Nested(f) /\ Linked(f) /\ Placed(status[p], ctl[p], base[p]) /\ Sided(p)
      /\ base[p] \in {"main", "pipe"}
  BY FootingOf
<1>2. status[p] = "return" /\ f # <<>> /\ Head(f).k = "semiLeft"
  BY DEF ReturnSemiLeft, Returns
<1>3. Step(p, "eval", Call(right[n], TRUE, g))
  BY DEF ReturnSemiLeft, Eval
<1>4. /\ \A q \in PID \ {p} : Rest(q)
      /\ status'[p] = "eval" /\ ctl'[p] = Call(right[n], TRUE, g)
      /\ base'[p] = base[p] /\ depth'[p] = depth[p]
  BY <1>3, StepRest DEF Footing
<1>5. ctl'[p].frames = g /\ ctl'[p].node = right[n] /\ ctl'[p].needfork
  BY <1>4 DEF Call
<1>6. Head(f) = f[1] /\ 1 \in 1 .. Len(f) /\ f[1] \in Frame /\ t \in Seq(Frame)
  BY <1>1, <1>2, Popped
<1>7. n \in Semi /\ n \in Node
  BY <1>1, <1>2, <1>6 DEF Nested, Fits, Redirs, Frame, Semi
<1>8. ~Stops(n)
  BY <1>1, <1>2 DEF Placed, Survived
<1>9. Linked(g) /\ CalledBy(right[n], g)
  BY <1>1, <1>2, <1>8, LinkedTurn
<1>10. ~Forked(t) /\ Unredirected(t)
  <2>1. \A i \in 1 .. Len(t) : i + 1 \in 1 + 1 .. Len(f) /\ t[i] = f[i + 1]
    BY <1>1, <1>2
  <2>2. f[1].k \notin Redirs
    BY <1>2, <1>6 DEF Redirs
  <2>3. \A i \in 1 .. Len(t) : t[i].k = "semiLeft"
    BY <1>1, <1>6, <2>1, <2>2 DEF Linked
  <2> QED
    BY <2>3 DEF Forked, Unredirected, Redirs
<1>11. /\ Waiting(f) = Waiting(t) \cup {n}
       /\ ~Forked(f)
  BY <1>1, <1>2, <1>10, WaitingTail
<1>12. n \notin Waiting(t)
  BY <1>1, <1>2, WaitingOnce
<1>13. Waiting(g) = Waiting(t) /\ ~Forked(g) /\ Unredirected(g)
  <2>1. "semiRight" \in FrameKinds /\ "semiRight" \notin Redirs
    BY DEF FrameKinds, Redirs
  <2> HIDE DEF g, t, n
  <2>2. PICK k \in FrameKinds : k = "semiRight"
    BY <2>1
  <2>3. /\ Waiting(Push(k, n, t)) = Waiting(t) \cup IF k = "semiLeft" THEN {n} ELSE {}
        /\ Forked(Push(k, n, t)) <=> k = "redirFork" \/ Forked(t)
        /\ Unredirected(Push(k, n, t)) <=> k \notin Redirs /\ Unredirected(t)
    BY <1>6, <1>7, WaitingPush, Zenon
  <2>4. g = Push(k, n, t)
    BY <2>2 DEF g
  <2> QED
    BY <1>10, <2>1, <2>2, <2>3, <2>4
<1> HIDE DEF g, t, n
<1>14. Placed(status'[p], ctl'[p], base'[p])
  BY <1>4, <1>5, <1>9, <1>13 DEF Placed, InCall, AtCall
<1>15. PlacedInv'
  BY <1>4, <1>14, PlacedAlone DEF Footing
<1>16. right[n] \in (Node \cup {NoNode}) \ Semi
  BY <1>7, NodeAssumption, SemiAssumption
<1>17. Ahead(status[p], ctl[p]) = Waiting(f) /\ Ahead(status'[p], ctl'[p]) = Waiting(t)
  BY <1>1, <1>2, <1>5, <1>13, <1>16, AheadIs
<1>18. Due(status[p], ctl[p]) = Waiting(f) /\ Due(status'[p], ctl'[p]) = Waiting(t)
  BY <1>2, <1>4, <1>5, <1>11, <1>13, <1>17 DEF Due, Provisional
<1>19. Waiting(t) = Waiting(f) \ {n} /\ n \in Waiting(f)
  BY <1>11, <1>12
<1> QED
  BY <1>2, <1>4, <1>7, <1>8, <1>15, <1>17, <1>18, <1>19 DEF Live, n

\* The forked child of a command or redirection returns to its parent's callers.
LEMMA StayDoes ==
  ASSUME Footing, NEW p \in PID, Stays(p)
  PROVE  /\ PlacedInv'
         /\ \A q \in PID \ {p} : Rest(q)
         /\ Live(p) /\ status[p] # "prompt" /\ Live(p)' /\ status'[p] # "program"
         /\ base'[p] = base[p] /\ depth'[p] = depth[p]
         /\ Due(status[p], ctl[p]) = {}
         /\ Due(status'[p], ctl'[p]) = Waiting(ctl[p].frames)
         /\ Ahead(status'[p], ctl'[p]) = Ahead(status[p], ctl[p])
<1> DEFINE f == ctl[p].frames
<1>1. TypeOK /\ ctl[p].node \in Node \cup {NoNode} /\ f \in Seq(Frame)
  BY FootingOf DEF Footing
<1>2. CASE ReturnRedirFork(p) /\ ctl[p].ret # 0
  <2>1. /\ status[p] = "return" /\ f # <<>> /\ Head(f).k = "redirFork"
        /\ Return(p, 0, Tail(f))
    BY <1>2 DEF ReturnRedirFork, Returns
  <2>2. Step(p, "return", Value(0, Tail(f)))
    BY <2>1 DEF Return
  <2>3. /\ \A q \in PID \ {p} : Rest(q)
        /\ status'[p] = "return" /\ base'[p] = base[p] /\ depth'[p] = depth[p]
    BY <1>1, <2>2, StepRest
  <2>4. Due(status[p], ctl[p]) = {}
    BY <2>1, NothingDue
  <2>5. /\ PlacedInv'
        /\ Ahead(status'[p], ctl'[p]) = Ahead(status[p], ctl[p])
        /\ Due(status'[p], ctl'[p]) = Waiting(f)
    BY <2>1, PopsFrame
  <2> QED
    BY <2>1, <2>3, <2>4, <2>5 DEF Live
<1>3. CASE ExecFails(p) /\ ctl[p].needfork
  <2>1. status[p] = "exec" /\ Step(p, "return", Value(-1, f))
    BY <1>3 DEF ExecFails, Return
  <2>2. /\ \A q \in PID \ {p} : Rest(q)
        /\ status'[p] = "return" /\ ctl'[p] = Value(-1, f)
        /\ base'[p] = base[p] /\ depth'[p] = depth[p]
    BY <1>1, <2>1, StepRest
  <2>3. ctl'[p].frames = f /\ ctl'[p].node = NoNode
    BY <2>2 DEF Value
  <2>4. Due(status[p], ctl[p]) = {}
    BY <2>1, NothingDue
  <2>5. /\ PlacedInv' /\ ~Forked(f)
        /\ Ahead(status'[p], ctl'[p]) = Ahead(status[p], ctl[p])
    BY <1>3, <2>1, <2>2, <2>3, LeavesCall DEF InCall, AtCall
  <2>6. Ahead(status'[p], ctl'[p]) = Waiting(f)
    BY <2>2, <2>3, AheadIs
  <2>7. Due(status'[p], ctl'[p]) = Waiting(f)
    BY <2>2, <2>3, <2>5, <2>6 DEF Due, Provisional
  <2> QED
    BY <2>1, <2>2, <2>4, <2>5, <2>7 DEF Live
<1> QED
  BY <1>2, <1>3 DEF Stays

\* A new line is all ahead.
LEMMA SubmitDoes ==
  ASSUME Footing, NEW p \in PID, Submit(p)
  PROVE  /\ PlacedInv'
         /\ \A q \in PID \ {p} : Rest(q)
         /\ Live(p)' /\ depth'[p] = depth[p]
         /\ ctl'[p].node \in Lines
         /\ Due(status[p], ctl[p]) = {}
         /\ Due(status'[p], ctl'[p]) = SemisOf[ctl'[p].node]
         /\ Ahead(status'[p], ctl'[p]) = SemisOf[ctl'[p].node]
<1>1. TypeOK
  BY DEF Footing
<1>2. /\ status[p] = "prompt" /\ base' = base /\ depth' = depth
      /\ status' = [status EXCEPT ![p] = "eval"]
  BY DEF Submit
<1>3. PICK n \in Lines : ctl' = [ctl EXCEPT ![p] = Call(n, TRUE, <<>>)]
  BY DEF Submit
<1>4. status'[p] = "eval" /\ ctl'[p].node = n /\ ctl'[p].frames = <<>> /\ ctl'[p].needfork
  BY <1>1, <1>2, <1>3 DEF TypeOK, Call
<1>5. \A q \in PID \ {p} : Rest(q)
  BY <1>1, <1>2, <1>3 DEF TypeOK, Rest
<1>6. Placed(status'[p], ctl'[p], base'[p])
  BY <1>4, WaitingNothing DEF Placed, InCall, AtCall
<1>7. PlacedInv'
  BY <1>5, <1>6, PlacedAlone DEF Footing
<1>8. Due(status[p], ctl[p]) = {}
  BY <1>2, NothingDue DEF InCall, AtCall
<1>9. Ahead(status'[p], ctl'[p]) = SemisOf[n]
  BY <1>4, WaitingNothing DEF Ahead
<1>10. Due(status'[p], ctl'[p]) = SemisOf[n]
  BY <1>4, <1>9, WaitingNothing DEF Due, Provisional
<1> QED
  BY <1>2, <1>4, <1>5, <1>7, <1>8, <1>9, <1>10 DEF Live

\* A fork: nothing changes for p, and the child has nothing to run yet on its own account.
LEMMA ForkDoes ==
  ASSUME Footing, NEW p \in PID, NEW c \in PID, Forks(p, c)
  PROVE  /\ PlacedInv'
         /\ p # c /\ \A q \in PID \ {p, c} : Rest(q)
         /\ Live(p) /\ status[p] \notin {"prompt", "program"}
         /\ Live(p)' /\ base'[p] = base[p] /\ depth'[p] = depth[p]
         /\ Ahead(status'[p], ctl'[p]) = Ahead(status[p], ctl[p])
         /\ Due(status'[p], ctl'[p]) = Due(status[p], ctl[p])
         /\ depth'[c] = depth[p] + 1 /\ Live(c)'
         /\ Due(status[c], ctl[c]) = {} /\ Due(status'[c], ctl'[c]) = {}
         /\ base'[c] = "main" =>
              /\ base[p] = "main"
              /\ Ahead(status'[c], ctl'[c]) = Ahead(status[p], ctl[p])
<1> DEFINE f == ctl[p].frames
           x == ctl[p].node
<1>1. /\ f \in Seq(Frame) /\ x \in Node \cup {NoNode} /\ TypeOK
      /\ Nested(f) /\ Linked(f) /\ Placed(status[p], ctl[p], base[p]) /\ Sided(p)
      /\ base[p] \in {"main", "pipe"} /\ Sound(status[p], ctl[p])
  BY FootingOf DEF Footing
<1>2. ASSUME NEW pst \in {"wait", "fork2", "waitpid"}, NEW cst, NEW cctl, NEW b,
             Fork(p, c, pst, cst, cctl, b), status[p] \in {"eval", "fork2"},
             x \in Node \ Semi, ~Fatal(x),
             Placed(cst, cctl, b), cst \in InCall, Due(cst, cctl) = {},
             b = "main" => base[p] = "main" /\ Ahead(cst, cctl) = Waiting(f)
      PROVE  /\ PlacedInv'
             /\ p # c /\ \A q \in PID \ {p, c} : Rest(q)
             /\ Live(p) /\ status[p] \notin {"prompt", "program"}
             /\ Live(p)' /\ base'[p] = base[p] /\ depth'[p] = depth[p]
             /\ Ahead(status'[p], ctl'[p]) = Ahead(status[p], ctl[p])
             /\ Due(status'[p], ctl'[p]) = Due(status[p], ctl[p])
             /\ depth'[c] = depth[p] + 1 /\ Live(c)'
             /\ Due(status[c], ctl[c]) = {} /\ Due(status'[c], ctl'[c]) = {}
             /\ base'[c] = "main" =>
                  /\ base[p] = "main"
                  /\ Ahead(status'[c], ctl'[c]) = Ahead(status[p], ctl[p])
  <2>1. status[p] # "free"
    BY <1>2
  <2>2. /\ \A q \in PID \ {p, c} : Rest(q)
        /\ p # c
        /\ status'[p] = pst /\ ctl'[p] = ctl[p] /\ base'[p] = base[p] /\ depth'[p] = depth[p]
        /\ status'[c] = cst /\ ctl'[c] = cctl /\ base'[c] = b
    BY <1>1, <1>2, <2>1, ForkRest
  <2>3. depth'[c] = depth[p] + 1 /\ status[c] = "free"
    BY <1>1, <1>2 DEF Fork, TypeOK
  <2>4. Placed(pst, ctl[p], base[p])
    BY <1>1, <1>2 DEF Placed, InCall, AtCall
  <2>5. PlacedInv'
    <3>1. \A q \in PID : Placed(status'[q], ctl'[q], base'[q])
      BY <1>2, <2>2, <2>4, PlacedRest DEF Footing
    <3> QED
      BY <3>1, PlacedNext
  <2>6. Ahead(status'[p], ctl'[p]) = Waiting(f) /\ Ahead(status[p], ctl[p]) = Waiting(f)
    BY <1>1, <1>2, <2>2, AheadIs
  <2>7. Due(status'[p], ctl'[p]) = Due(status[p], ctl[p])
    BY <1>2, <2>2, <2>6 DEF Due, Provisional
  <2>8. Due(status[c], ctl[c]) = {}
    BY <2>3 DEF Due
  <2>9. Live(p) /\ Live(p)' /\ Live(c)' /\ status[p] \notin {"prompt", "program"}
    BY <1>2, <2>2 DEF Live, InCall, AtCall
  <2> QED
    BY <1>2, <2>2, <2>3, <2>5, <2>6, <2>7, <2>8, <2>9
<1>3. CASE EvalForkExec(p, c) \/ EvalRedirFork(p, c)
  <2>1. /\ status[p] = "eval" /\ ctl[p].needfork /\ x \in Node
        /\ kind[x] \in {"command", "redirection"}
        /\ kind[x] = "command" => word[x] = "external"
    BY <1>1, <1>3, EvaluatesType DEF EvalForkExec, EvalRedirFork, Runs, Evaluates, Footing
  <2>2. x \in Node \ Semi /\ ~Fatal(x)
    BY <2>1 DEF Semi, Fatal
  <2>3. PICK cst \in {"exec", "redirect"} : Fork(p, c, "wait", cst, ctl[p], base[p])
    BY <1>3 DEF EvalForkExec, EvalRedirFork
  <2>4. Placed(cst, ctl[p], base[p])
    BY <1>1, <2>1, <2>2, <2>3 DEF Placed, InCall, AtCall
  <2>5. Due(cst, ctl[p]) = {}
    BY <2>1, <2>3 DEF Due, Provisional
  <2>6. Ahead(cst, ctl[p]) = Waiting(f)
    BY <1>1, <2>3, AheadIs
  <2>7. cst \in InCall /\ "wait" \in {"wait", "fork2", "waitpid"} /\ status[p] \in {"eval", "fork2"}
    BY <2>1, <2>3 DEF InCall, AtCall
  <2> HIDE DEF f, x
  <2> QED
    BY <1>2, <2>2, <2>3, <2>4, <2>5, <2>6, <2>7
<1>4. CASE EvalPipe(p, c) \/ EvalPipeRight(p, c)
  <2>1. x \in Node /\ kind[x] = "pipe" /\ status[p] \in {"eval", "fork2"}
    <3>1. CASE EvalPipe(p, c)
      BY <1>1, <3>1, EvaluatesType DEF EvalPipe, Evaluates, Footing
    <3>2. CASE EvalPipeRight(p, c)
      BY <1>1, <3>2 DEF EvalPipeRight, Sound
    <3> QED
      BY <1>4, <3>1, <3>2
  <2>2. x \in Node \ Semi /\ ~Fatal(x)
    BY <2>1 DEF Semi, Fatal
  <2>3. \E pst \in {"fork2", "waitpid"}, m \in {left[x], right[x]} :
          Fork(p, c, pst, "eval", Call(m, FALSE, <<>>), "pipe")
    BY <1>4 DEF EvalPipe, EvalPipeRight
  <2>4. PICK pst \in {"fork2", "waitpid"}, m \in {left[x], right[x]} :
          Fork(p, c, pst, "eval", Call(m, FALSE, <<>>), "pipe")
    BY <2>3
  <2>5. m \in (Node \cup {NoNode}) \ Semi
    BY <2>1, TreeAssumption, NodeAssumption DEF Semi
  <2> DEFINE call == Call(m, FALSE, <<>>)
  <2>6. call.frames = <<>> /\ call.node = m
    BY DEF Call
  <2>7. Fork(p, c, pst, "eval", call, "pipe")
    BY <2>4
  <2> HIDE DEF call, x, f
  <2>8. Placed("eval", call, "pipe")
    BY <2>6, WaitingNothing DEF Placed, InCall, AtCall
  <2>9. Ahead("eval", call) = {}
    BY <2>5, <2>6, AheadIs, WaitingNothing
  <2>10. Due("eval", call) = {}
    BY <2>9 DEF Due
  <2>11. "eval" \in InCall /\ pst \in {"wait", "fork2", "waitpid"}
    BY DEF InCall, AtCall
  <2> QED
    BY <1>2, <2>1, <2>2, <2>7, <2>8, <2>10, <2>11
<1> QED
  BY <1>3, <1>4 DEF Forks

\* The other steps of a process on its own: it goes on in its line or dies.
GoesOn(p) == PlacedInv' /\ (Plain(p) \/ (Die(p) /\ Settled(p)))

\* It returns a value from the call that it is in.
LEMMA ReturnGoesOn ==
  ASSUME Footing, NEW p \in PID, NEW v, Return(p, v, ctl[p].frames), status[p] \in InCall,
         status[p] = "eval" => ctl[p].node \notin Semi /\ ~Fatal(ctl[p].node),
         status[p] \notin {"redirect", "exec"} \/ ~ctl[p].needfork
  PROVE  GoesOn(p)
<1>1. Step(p, "return", Value(v, ctl[p].frames))
  BY DEF Return
<1>2. /\ \A q \in PID \ {p} : Rest(q)
      /\ status'[p] = "return" /\ ctl'[p] = Value(v, ctl[p].frames)
      /\ base'[p] = base[p] /\ depth'[p] = depth[p]
  BY <1>1, StepRest DEF Footing
<1>3. ctl'[p].frames = ctl[p].frames /\ ctl'[p].node = NoNode
  BY <1>2 DEF Value
<1> QED
  BY <1>2, <1>3, LeavesCall DEF GoesOn

\* Evaluating a ';'.
LEMMA SemiGoesOn ==
  ASSUME Footing, NEW p \in PID, EvalSemi(p)
  PROVE  GoesOn(p)
<1> DEFINE f == ctl[p].frames
           n == ctl[p].node
           g == Push("semiLeft", n, f)
<1>1. /\ f \in Seq(Frame) /\ Nested(f) /\ Linked(f) /\ Placed(status[p], ctl[p], base[p])
  BY FootingOf
<1>2. status[p] = "eval" /\ n \in Node /\ n \in Semi
  BY EvaluatesType DEF EvalSemi, Evaluates, Semi, Footing
<1>3. Step(p, "eval", Call(left[n], TRUE, g))
  BY DEF EvalSemi, Eval
<1>4. /\ \A q \in PID \ {p} : Rest(q)
      /\ status'[p] = "eval" /\ ctl'[p] = Call(left[n], TRUE, g)
      /\ base'[p] = base[p] /\ depth'[p] = depth[p]
  BY <1>3, StepRest DEF Footing
<1>5. ctl'[p].frames = g /\ ctl'[p].node = left[n] /\ ctl'[p].needfork
  BY <1>4 DEF Call
<1>6. CalledBy(n, f)
  BY <1>1, <1>2 DEF Placed, InCall, AtCall
<1>7. PICK k \in FrameKinds : k = "semiLeft" /\ k \in {"semiLeft", "redir", "redirFork"}
  BY DEF FrameKinds
<1>8. Linked(Push(k, n, f)) /\ CalledBy(left[n], Push(k, n, f))
  BY <1>1, <1>2, <1>6, <1>7, LinkedPush
<1>9. /\ Waiting(Push(k, n, f)) = Waiting(f) \cup IF k = "semiLeft" THEN {n} ELSE {}
      /\ Forked(Push(k, n, f)) <=> k = "redirFork" \/ Forked(f)
      /\ Unredirected(Push(k, n, f)) <=> k \notin Redirs /\ Unredirected(f)
  BY <1>1, <1>2, WaitingPush, Zenon
<1>10. g = Push(k, n, f)
  BY <1>7
<1> HIDE DEF f, n, g
<1>11. /\ Linked(g) /\ CalledBy(left[n], g)
       /\ Waiting(g) = Waiting(f) \cup {n}
       /\ Forked(g) <=> Forked(f)
       /\ Unredirected(g) <=> Unredirected(f)
  BY <1>7, <1>8, <1>9, <1>10 DEF Redirs
<1>12. Placed(status'[p], ctl'[p], base'[p])
  BY <1>1, <1>4, <1>5, <1>11 DEF Placed, InCall, AtCall, f
<1>13. PlacedInv'
  BY <1>4, <1>12, PlacedAlone DEF Footing
<1>14. SemisOf[n] = {n} \cup SemisOf[left[n]]
  BY <1>2, SemisAre DEF Inside
<1>15. /\ Ahead(status[p], ctl[p]) = Waiting(f) \cup SemisOf[n]
       /\ Ahead(status'[p], ctl'[p]) = Waiting(g) \cup SemisOf[left[n]]
  BY <1>2, <1>4, <1>5 DEF Ahead, f, n
<1>16. Ahead(status'[p], ctl'[p]) = Ahead(status[p], ctl[p])
  BY <1>11, <1>14, <1>15
<1>17. Provisional(status'[p], ctl'[p]) <=> Provisional(status[p], ctl[p])
  BY <1>2, <1>4, <1>5, <1>11 DEF Provisional, f
<1>18. Plain(p)
  BY <1>2, <1>4, <1>16, <1>17, PlainIs DEF InCall, AtCall
<1> QED
  BY <1>13, <1>18 DEF GoesOn

\* Evaluating a redirection.
LEMMA RedirectGoesOn ==
  ASSUME Footing, NEW p \in PID, Redirect(p)
  PROVE  GoesOn(p)
<1> DEFINE f == ctl[p].frames
           n == ctl[p].node
<1>1. /\ f \in Seq(Frame) /\ Nested(f) /\ Linked(f) /\ Placed(status[p], ctl[p], base[p])
      /\ Sound(status[p], ctl[p]) /\ n \in Node \cup {NoNode}
  BY FootingOf
<1>2. status[p] = "redirect" /\ n \in Node /\ kind[n] = "redirection"
  BY <1>1 DEF Redirect, Sound
<1>3. PICK k \in FrameKinds : /\ k = IF ctl[p].needfork THEN "redirFork" ELSE "redir"
                              /\ k \in {"semiLeft", "redir", "redirFork"} /\ k \in Redirs
  BY DEF FrameKinds, Redirs
<1> DEFINE g == Push(k, n, f)
<1>4. Step(p, "eval", Call(left[n], FALSE, g))
  BY <1>3 DEF Redirect, Eval
<1>5. /\ \A q \in PID \ {p} : Rest(q)
      /\ status'[p] = "eval" /\ ctl'[p] = Call(left[n], FALSE, g)
      /\ base'[p] = base[p] /\ depth'[p] = depth[p]
  BY <1>4, StepRest DEF Footing
<1>6. ctl'[p].frames = g /\ ctl'[p].node = left[n] /\ ~ctl'[p].needfork
  BY <1>5 DEF Call
<1>7. CalledBy(n, f)
  BY <1>1, <1>2 DEF Placed, InCall, AtCall
<1>8. ctl[p].needfork => Unredirected(f)
  BY <1>2, ForksUnredirected DEF AtCall, Footing
<1>9. k # "semiLeft" /\ (k = "redirFork" <=> ctl[p].needfork)
  BY <1>3
<1>10. Linked(g) /\ CalledBy(left[n], g)
  BY <1>1, <1>2, <1>3, <1>7, <1>8, <1>9, LinkedPush
<1>11. /\ Waiting(g) = Waiting(f) \cup IF k = "semiLeft" THEN {n} ELSE {}
       /\ Forked(g) <=> k = "redirFork" \/ Forked(f)
  BY <1>1, <1>2, WaitingPush, Zenon
<1> HIDE DEF f, n, g
<1>12. Waiting(g) = Waiting(f) /\ (Forked(g) <=> ctl[p].needfork \/ Forked(f))
  BY <1>9, <1>11
<1>13. base[p] = "main" => Forked(g)
  BY <1>1, <1>2, <1>12 DEF Placed, f
<1>14. Placed(status'[p], ctl'[p], base'[p])
  BY <1>5, <1>6, <1>10, <1>13 DEF Placed, InCall, AtCall
<1>15. PlacedInv'
  BY <1>5, <1>14, PlacedAlone DEF Footing
<1>16. left[n] \in (Node \cup {NoNode}) \ Semi
  BY <1>2, TreeAssumption, NodeAssumption DEF Semi
<1>17. Ahead(status[p], ctl[p]) = Waiting(f)
  BY <1>1, <1>2, AheadIs DEF f, n
<1>18. Ahead(status'[p], ctl'[p]) = Waiting(f)
  BY <1>6, <1>12, <1>16, AheadIs
<1>19. Provisional(status'[p], ctl'[p]) <=> Provisional(status[p], ctl[p])
  BY <1>2, <1>5, <1>6, <1>12 DEF Provisional, f
<1>20. Plain(p)
  BY <1>2, <1>5, <1>17, <1>18, <1>19, PlainIs DEF InCall, AtCall
<1> QED
  BY <1>15, <1>20 DEF GoesOn

\* Every other step of one process in parse_ast.
LEMMA LocalGoesOn ==
  ASSUME Footing, NEW p \in PID, Local(p), ~ReturnSemiLeft(p), ~Stays(p)
  PROVE  GoesOn(p)
<1> DEFINE f == ctl[p].frames
           n == ctl[p].node
<1>1. /\ TypeOK /\ f \in Seq(Frame) /\ n \in Node \cup {NoNode}
      /\ Nested(f) /\ Linked(f) /\ Placed(status[p], ctl[p], base[p]) /\ Sided(p)
      /\ base[p] \in {"main", "pipe"} /\ Sound(status[p], ctl[p])
  BY FootingOf DEF Footing
<1>2. ASSUME NEW k, Evaluates(p, k) PROVE n \in Node /\ kind[n] = k /\ status[p] = "eval"
  BY <1>2, EvaluatesType DEF Evaluates, Footing
<1>3. CASE EvalNull(p)
  <2>1. n \notin Semi /\ ~Fatal(n) /\ status[p] = "eval"
    BY <1>3, NodeAssumption DEF EvalNull, Semi, Fatal
  <2> QED
    BY <1>3, <2>1, ReturnGoesOn DEF EvalNull, InCall, AtCall
<1>4. CASE EvalBuiltin(p) \/ EvalNotFound(p) \/ EvalForkFails(p)
  <2>1. /\ status[p] = "eval" /\ n \in Node /\ kind[n] \in {"command", "redirection", "pipe"}
        /\ kind[n] = "command" => word[n] \in {"builtin", "external"}
    BY <1>2, <1>4 DEF EvalBuiltin, EvalNotFound, EvalForkFails, Runs
  <2>2. n \notin Semi /\ ~Fatal(n)
    BY <2>1 DEF Semi, Fatal
  <2>3. \E v : Return(p, v, f)
    BY <1>4 DEF EvalBuiltin, EvalNotFound, EvalForkFails
  <2> QED
    BY <2>1, <2>2, <2>3, ReturnGoesOn DEF InCall, AtCall
<1>5. CASE RedirectFailsInPlace(p)
  BY <1>5, ReturnGoesOn DEF RedirectFailsInPlace, InCall, AtCall
<1>6. CASE ExecFails(p)
  BY <1>6, ReturnGoesOn DEF ExecFails, Stays, InCall, AtCall
<1>7. CASE EvalExit(p) \/ EvalFault(p)
  <2>1. /\ status[p] = "eval" /\ n \in Node /\ kind[n] = "command"
        /\ word[n] \in {"exit", "fault"} /\ Die(p)
    BY <1>2, <1>7 DEF EvalExit, EvalFault, Runs
  <2>2. Fatal(n) /\ Live(p)
    BY <2>1 DEF Fatal, Live
  <2> QED
    BY <2>1, <2>2, Dying DEF GoesOn
<1>8. CASE RedirectFailsForked(p) \/ ReturnToPipeChild(p) \/ (ReturnRedirFork(p) /\ ctl[p].ret = 0)
  <2>1. Die(p) /\ Live(p)
    BY <1>8 DEF RedirectFailsForked, ReturnToPipeChild, ReturnRedirFork, Returns, Live
  <2>2. Due(status[p], ctl[p]) = {}
    <3>1. \/ status[p] \in {"redirect", "exec"}
          \/ status[p] = "return" /\ (f = <<>> \/ Head(f).k = "redirFork")
      BY <1>8 DEF RedirectFailsForked, ReturnToPipeChild, ReturnRedirFork, Returns
    <3> QED
      BY <3>1, NothingDue
  <2> QED
    BY <2>1, <2>2, Dying DEF GoesOn
<1>9. CASE EvalSemi(p)
  BY <1>9, SemiGoesOn
<1>10. CASE Redirect(p)
  BY <1>10, RedirectGoesOn
<1>11. CASE EvalExecInPlace(p) \/ EvalRedirInPlace(p)
  <2>1. /\ status[p] = "eval" /\ n \in Node /\ kind[n] \in {"command", "redirection"}
        /\ kind[n] = "command" => word[n] = "external"
        /\ ~ctl[p].needfork
    BY <1>2, <1>11 DEF EvalExecInPlace, EvalRedirInPlace, Runs
  <2>2. n \notin Semi /\ ~Fatal(n)
    BY <2>1 DEF Semi, Fatal
  <2>3. PICK st \in {"exec", "redirect"} : Step(p, st, ctl[p])
    BY <1>11 DEF EvalExecInPlace, EvalRedirInPlace
  <2>4. /\ \A q \in PID \ {p} : Rest(q)
        /\ status'[p] = st /\ ctl'[p] = ctl[p] /\ base'[p] = base[p] /\ depth'[p] = depth[p]
    BY <1>1, <2>3, StepRest
  <2>5. Placed(status'[p], ctl'[p], base'[p])
    BY <1>1, <2>1, <2>2, <2>4 DEF Placed, InCall, AtCall
  <2>6. PlacedInv'
    BY <2>4, <2>5, PlacedAlone DEF Footing
  <2>7. Ahead(status'[p], ctl'[p]) = Waiting(f) /\ Ahead(status[p], ctl[p]) = Waiting(f)
    BY <1>1, <2>2, <2>4, AheadIs
  <2>8. Provisional(status'[p], ctl'[p]) <=> Provisional(status[p], ctl[p])
    BY <2>1, <2>4 DEF Provisional
  <2>9. Plain(p)
    BY <2>1, <2>4, <2>7, <2>8, PlainIs DEF InCall, AtCall
  <2> QED
    BY <2>6, <2>9 DEF GoesOn
<1>12. CASE Exec(p) \/ ReturnToMain(p)
  <2>1. /\ status[p] = "exec" \/ (status[p] = "return" /\ f = <<>>)
        /\ \E st \in {"program", "prompt"} : Step(p, st, Idle) /\ (st = "prompt" => f = <<>>)
    BY <1>12 DEF Exec, ReturnToMain
  <2>2. PICK st \in {"program", "prompt"} : Step(p, st, Idle) /\ (st = "prompt" => f = <<>>)
    BY <2>1
  <2>3. /\ \A q \in PID \ {p} : Rest(q)
        /\ status'[p] = st /\ ctl'[p] = Idle /\ base'[p] = base[p] /\ depth'[p] = depth[p]
    BY <1>1, <2>2, StepRest
  <2>4. ctl'[p].frames = <<>> /\ ctl'[p].node = NoNode
    BY <2>3 DEF Idle, Value
  <2>5. Placed(status'[p], ctl'[p], base'[p])
    BY <2>3, <2>4, WaitingNothing DEF Placed, InCall, AtCall
  <2>6. PlacedInv'
    BY <2>3, <2>5, PlacedAlone DEF Footing
  <2>7. Due(status[p], ctl[p]) = {}
    BY <2>1, NothingDue
  <2>8. Ahead(status'[p], ctl'[p]) = {}
    BY <2>3, <2>4, AheadIs, WaitingNothing
  <2>9. Due(status'[p], ctl'[p]) = {}
    BY <2>8 DEF Due
  <2>10. ASSUME status'[p] # "program" PROVE Ahead(status[p], ctl[p]) = {}
    <3>1. f = <<>> /\ status[p] # "eval"
      BY <2>1, <2>2, <2>3, <2>10
    <3> QED
      BY <1>1, <3>1, AheadIs, WaitingNothing
  <2>11. Plain(p)
    BY <2>1, <2>3, <2>7, <2>8, <2>9, <2>10 DEF Plain, Live
  <2> QED
    BY <2>6, <2>11 DEF GoesOn
<1>13. CASE PipeRightForkFails(p) \/ ReapRight(p)
  <2>1. /\ status[p] \in {"fork2", "waitpid"} /\ base' = base /\ depth' = depth
        /\ \A q \in PID \ {p} : Rest(q)
        /\ status'[p] = "return" /\ \E v : ctl'[p] = Value(v, f)
    BY <1>1, <1>13 DEF PipeRightForkFails, ReapRight, Release, Rest, TypeOK
  <2>2. ctl'[p].frames = f /\ ctl'[p].node = NoNode
    BY <2>1 DEF Value
  <2> QED
    BY <2>1, <2>2, LeavesCall DEF GoesOn, InCall, AtCall
<1>14. CASE ReapLeft(p)
  <2>1. /\ status[p] = "waitpid" /\ base' = base /\ depth' = depth
        /\ \A q \in PID \ {p} : Rest(q)
        /\ status'[p] = status[p] /\ ctl'[p] = ctl[p]
    BY <1>1, <1>14 DEF ReapLeft, Release, Rest, TypeOK
  <2>2. Placed(status'[p], ctl'[p], base'[p])
    BY <1>1, <2>1
  <2>3. PlacedInv'
    BY <2>1, <2>2, PlacedAlone DEF Footing
  <2>4. Plain(p)
    BY <2>1, PlainIs DEF InCall, AtCall
  <2> QED
    BY <2>3, <2>4 DEF GoesOn
<1>15. CASE ReturnSemiRight(p) \/ ReturnRedir(p)
  <2>1. /\ status[p] = "return" /\ f # <<>> /\ Head(f).k \in {"semiRight", "redir"}
        /\ \E v : Return(p, v, Tail(f))
    BY <1>15 DEF ReturnSemiRight, ReturnRedir, Returns
  <2> QED
    BY <2>1, PopsFrame DEF GoesOn
<1>16. ReturnRedirFork(p) => ctl[p].ret = 0
  BY DEF Stays
<1> QED
  BY <1>3, <1>4, <1>5, <1>6, <1>7, <1>8, <1>9, <1>10, <1>11, <1>12, <1>13, <1>14, <1>15, <1>16
  DEF Local

\* Waiting for a child.
LEMMA ReapGoesOn ==
  ASSUME Footing, NEW p \in PID, NEW c \in PID, Reap(p, c)
  PROVE  GoesOn(p)
<1> DEFINE f == ctl[p].frames
<1>1. TypeOK
  BY DEF Footing
<1>2. /\ status[p] = "wait" /\ base' = base /\ depth' = depth
      /\ \A q \in PID \ {p} : Rest(q)
      /\ status'[p] = "return" /\ \E v : ctl'[p] = Value(v, f)
  BY <1>1 DEF Reap, Release, Rest, TypeOK
<1>3. ctl'[p].frames = f /\ ctl'[p].node = NoNode
  BY <1>2 DEF Value
<1> QED
  BY <1>2, <1>3, LeavesCall DEF GoesOn, InCall, AtCall

\* Every step is one of these.
LEMMA RunStep ==
  ASSUME Footing, [Next]_vars
  PROVE  /\ PlacedInv'
         /\ \/ UNCHANGED vars
            \/ \E p \in PID : Submit(p) \/ ReturnSemiLeft(p) \/ Stays(p) \/ GoesOn(p)
            \/ \E p, c \in PID : Forks(p, c)
<1>1. CASE UNCHANGED vars \/ Done
  <2>1. \A q \in PID : Placed(status'[q], ctl'[q], base'[q])
    BY <1>1 DEF Done, vars, Footing, PlacedInv
  <2> QED
    BY <1>1, <2>1, PlacedNext DEF Done
<1>2. ASSUME NEW p \in PID, Quit(p) \/ ProgramExit(p) PROVE GoesOn(p)
  <2>1. Die(p) /\ status[p] \in {"prompt", "program"}
    BY <1>2 DEF Quit, ProgramExit
  <2>2. Due(status[p], ctl[p]) = {} /\ Live(p)
    BY <2>1, NothingDue DEF InCall, AtCall, Live
  <2> QED
    BY <2>1, <2>2, Dying DEF GoesOn
<1>3. ASSUME NEW p \in PID, Submit(p) \/ ReturnSemiLeft(p) \/ Stays(p) PROVE PlacedInv'
  <2>1. CASE Submit(p)
    BY <2>1, SubmitDoes
  <2>2. CASE ReturnSemiLeft(p)
    BY <2>2, TurnDoes
  <2>3. CASE Stays(p)
    BY <2>3, StayDoes
  <2> QED
    BY <1>3, <2>1, <2>2, <2>3
<1>4. ASSUME NEW p \in PID, Local(p), ~ReturnSemiLeft(p), ~Stays(p) PROVE GoesOn(p)
  BY <1>4, LocalGoesOn
<1>5. ASSUME NEW p \in PID, NEW c \in PID, Forks(p, c) PROVE PlacedInv'
  BY <1>5, ForkDoes
<1>6. ASSUME NEW p \in PID, NEW c \in PID, Reap(p, c) PROVE GoesOn(p)
  BY <1>6, ReapGoesOn
<1>7. \A p \in PID : GoesOn(p) => PlacedInv'
  BY DEF GoesOn
<1> QED
  BY <1>1, <1>2, <1>3, <1>4, <1>5, <1>6, <1>7 DEF Next, User, Shells

\* Everybody is in its place, always.
LEMMA PlacedInvariant == Spec => []PlacedInv
<1>1. Init => PlacedInv
  <2> SUFFICES ASSUME Init, NEW q \in PID PROVE Placed(status[q], ctl[q], base[q])
    BY DEF PlacedInv
  <2>1. status[q] \in {"prompt", "free"} /\ ctl[q].frames = <<>>
    BY DEF Init, Idle, Value
  <2> QED
    BY <2>1, WaitingNothing DEF Placed, InCall, AtCall
<1>2. TypeInv /\ CallInv /\ SideInv /\ PlacedInv => Footing
  BY DEF TypeInv, Footing
<1>3. Footing /\ [Next]_vars => PlacedInv'
  BY RunStep
<1> QED
  BY <1>1, <1>2, <1>3, TypeInvariant, CallInvariant, SideInvariant, PTL DEF Spec

-----------------------------------------------------------------------------
(* The lines that have been typed                                          *)

\* Tracks after a step.
LEMMA TracksNext ==
  ASSUME NEW q \in PID,
         status'[q] \notin {"free", "zombie", "prompt"} => line'[q] \in 1 .. Len(log'),
         status'[q] \notin {"free", "zombie"} /\ line'[q] > 0 =>
           /\ depth'[q] >= log'[line'[q]].level
           /\ base'[q] = "main" /\ status'[q] # "program" =>
                \A n \in SemisOf[log'[line'[q]].root] :
                  n \in Ahead(status'[q], ctl'[q]) \/ ~Stops(n)
  PROVE  Tracks(q)'
BY DEF Tracks, Live, Ahead, Waiting, Stops, Inside, Fatal

\* Balanced after a step.
LEMMA BalancedNext ==
  ASSUME NEW i \in 1 .. Len(log'),
         \A n \in SemisOf[log'[i].root] : ~Stops(n) =>
           \E S : /\ S = {q \in PID : line'[q] = i /\ n \in Due(status'[q], ctl'[q])}
                  /\ IsFiniteSet(S)
                  /\ log'[i].runs[n] + Cardinality(S) = log'[i].stayed[n] + 1
  PROVE  Balanced(i)'
BY DEF Balanced, Owing, Due, Ahead, Waiting, Provisional, Forked, Stops, Inside, Fatal

\* Lines are added to the log, and keep what they are.
Grows ==
  /\ Len(log') \in Nat /\ Len(log) =< Len(log')
  /\ \A i \in 1 .. Len(log) : log'[i].root = log[i].root /\ log'[i].level = log[i].level

\* The types in an entry of the log.
LEMMA LogEntry ==
  ASSUME LogType, NEW i \in 1 .. Len(log)
  PROVE  /\ log[i].root \in Lines /\ log[i].level \in Nat
         /\ SemisOf[log[i].root] \subseteq Semi
         /\ \A n \in Semi : log[i].runs[n] \in Nat /\ log[i].stayed[n] \in Nat
         /\ log[i] \in Records
<1>1. log[i] \in Records
  BY DEF LogType
<1>2. /\ log[i].root \in Lines /\ log[i].level \in Nat
      /\ log[i].runs \in [Semi -> Nat] /\ log[i].stayed \in [Semi -> Nat]
  BY <1>1 DEF Records
<1>3. log[i].root \in Node
  BY <1>2, NodeAssumption
<1> QED
  BY <1>1, <1>2, <1>3, SemisTyped

\* The number of a line, or 0.
LEMMA LineOf ==
  ASSUME LogType, NEW q \in PID
  PROVE  line[q] \in Nat /\ (line[q] > 0 => line[q] \in 1 .. Len(log))
BY DEF LogType

\* q goes on in its line, or is not concerned.
LEMMA TracksOn ==
  ASSUME LogType, Grows, NEW q \in PID, Tracks(q), line'[q] = line[q],
         \/ Rest(q)
         \/ /\ Live(q) /\ status[q] \notin {"prompt", "program"}
            /\ base'[q] = base[q] /\ depth'[q] = depth[q]
            /\ status'[q] # "program" =>
                 \A n : n \in Ahead(status[q], ctl[q]) =>
                          n \in Ahead(status'[q], ctl'[q]) \/ ~Stops(n)
  PROVE  Tracks(q)'
<1>1. line[q] \in Nat /\ (line[q] > 0 => line[q] \in 1 .. Len(log))
  BY LineOf
<1>2. line[q] \in 1 .. Len(log) => line[q] \in 1 .. Len(log')
  BY DEF Grows, LogType
<1>3. line[q] > 0 => /\ log'[line[q]].root = log[line[q]].root
                     /\ log'[line[q]].level = log[line[q]].level
  BY <1>1 DEF Grows
<1>4. CASE Rest(q)
  BY <1>1, <1>2, <1>3, <1>4, TracksNext DEF Rest, Tracks, Live
<1>5. CASE /\ Live(q) /\ status[q] \notin {"prompt", "program"}
           /\ base'[q] = base[q] /\ depth'[q] = depth[q]
           /\ status'[q] # "program" =>
                \A n : n \in Ahead(status[q], ctl[q]) =>
                         n \in Ahead(status'[q], ctl'[q]) \/ ~Stops(n)
  BY <1>1, <1>2, <1>3, <1>5, TracksNext DEF Tracks
<1> QED
  BY <1>4, <1>5

\* An entry with one field changed.
LEMMA RecordOf ==
  ASSUME NEW r \in Records
  PROVE  /\ r.runs \in [Semi -> Nat] /\ r.stayed \in [Semi -> Nat]
         /\ \A n \in Semi :
              LET s == [r EXCEPT !.runs[n] = @ + 1]
              IN /\ s \in Records /\ s.root = r.root /\ s.level = r.level
                 /\ s.stayed = r.stayed /\ s.runs = [r.runs EXCEPT ![n] = @ + 1]
         /\ \A f \in [Semi -> Nat] :
              LET s == [r EXCEPT !.stayed = f]
              IN /\ s \in Records /\ s.root = r.root /\ s.level = r.level
                 /\ s.runs = r.runs /\ s.stayed = f
<1>1. r.runs \in [Semi -> Nat] /\ r.stayed \in [Semi -> Nat]
  BY DEF Records
<1>2. ASSUME NEW n \in Semi
      PROVE  LET s == [r EXCEPT !.runs[n] = @ + 1]
             IN /\ s \in Records /\ s.root = r.root /\ s.level = r.level
                /\ s.stayed = r.stayed /\ s.runs = [r.runs EXCEPT ![n] = @ + 1]
  <2> DEFINE f == [r.runs EXCEPT ![n] = @ + 1]
  <2>1. f \in [Semi -> Nat]
    BY <1>1
  <2>2. [r EXCEPT !.runs[n] = @ + 1] = [r EXCEPT !.runs = f]
    BY DEF Records
  <2> HIDE DEF f
  <2>3. LET s == [r EXCEPT !.runs = f]
        IN /\ s \in Records /\ s.root = r.root /\ s.level = r.level
           /\ s.stayed = r.stayed /\ s.runs = f
    BY <2>1 DEF Records
  <2> QED
    BY <2>2, <2>3 DEF f
<1>3. ASSUME NEW f \in [Semi -> Nat]
      PROVE  LET s == [r EXCEPT !.stayed = f]
             IN /\ s \in Records /\ s.root = r.root /\ s.level = r.level
                /\ s.runs = r.runs /\ s.stayed = f
  BY DEF Records
<1> QED
  BY <1>1, <1>2, <1>3

\* One has run its right part, or one has come back who was not to.
LEMMA BalancedOn ==
  ASSUME LogType, Grows, NEW i \in 1 .. Len(log), Balanced(i),
         \A n \in SemisOf[log[i].root] : ~Stops(n) =>
           \E T :
             /\ T = {q \in PID : line'[q] = i /\ n \in Due(status'[q], ctl'[q])}
             /\ \/ /\ T = Owing(i, n)
                   /\ log'[i].runs[n] = log[i].runs[n] /\ log'[i].stayed[n] = log[i].stayed[n]
                \/ /\ \E p \in Owing(i, n) : T = Owing(i, n) \ {p}
                   /\ log'[i].runs[n] = log[i].runs[n] + 1
                   /\ log'[i].stayed[n] = log[i].stayed[n]
                \/ /\ \E p : p \notin Owing(i, n) /\ T = Owing(i, n) \cup {p}
                   /\ log'[i].runs[n] = log[i].runs[n]
                   /\ log'[i].stayed[n] = log[i].stayed[n] + 1
  PROVE  Balanced(i)'
<1>1. i \in 1 .. Len(log') /\ log'[i].root = log[i].root
  BY DEF Grows, LogType
<1>2. ASSUME NEW n \in SemisOf[log[i].root], ~Stops(n)
      PROVE  \E T : /\ T = {q \in PID : line'[q] = i /\ n \in Due(status'[q], ctl'[q])}
                    /\ IsFiniteSet(T)
                    /\ log'[i].runs[n] + Cardinality(T) = log'[i].stayed[n] + 1
  <2> DEFINE S == Owing(i, n)
  <2>1. IsFiniteSet(S) /\ log[i].runs[n] + Cardinality(S) = log[i].stayed[n] + 1
    BY <1>2 DEF Balanced
  <2>2. log[i].runs[n] \in Nat /\ log[i].stayed[n] \in Nat
    BY <1>2, LogEntry
  <2>3. Cardinality(S) \in Nat
    BY <2>1, FS_CardinalityType
  <2>4. PICK T :
          /\ T = {q \in PID : line'[q] = i /\ n \in Due(status'[q], ctl'[q])}
          /\ \/ /\ T = S
                /\ log'[i].runs[n] = log[i].runs[n] /\ log'[i].stayed[n] = log[i].stayed[n]
             \/ /\ \E p \in S : T = S \ {p}
                /\ log'[i].runs[n] = log[i].runs[n] + 1
                /\ log'[i].stayed[n] = log[i].stayed[n]
             \/ /\ \E p : p \notin S /\ T = S \cup {p}
                /\ log'[i].runs[n] = log[i].runs[n]
                /\ log'[i].stayed[n] = log[i].stayed[n] + 1
    BY <1>2
  <2> HIDE DEF S
  <2>5. CASE /\ T = S
             /\ log'[i].runs[n] = log[i].runs[n] /\ log'[i].stayed[n] = log[i].stayed[n]
    BY <2>1, <2>4, <2>5
  <2>6. CASE /\ \E p \in S : T = S \ {p}
             /\ log'[i].runs[n] = log[i].runs[n] + 1
             /\ log'[i].stayed[n] = log[i].stayed[n]
    <3>1. IsFiniteSet(T) /\ Cardinality(T) = Cardinality(S) - 1
      BY <2>1, <2>6, FS_RemoveElement
    <3>2. log'[i].runs[n] + Cardinality(T) = log'[i].stayed[n] + 1
      BY <2>1, <2>2, <2>3, <2>6, <3>1
    <3> QED
      BY <2>4, <3>1, <3>2
  <2>7. CASE /\ \E p : p \notin S /\ T = S \cup {p}
             /\ log'[i].runs[n] = log[i].runs[n]
             /\ log'[i].stayed[n] = log[i].stayed[n] + 1
    <3>1. IsFiniteSet(T) /\ Cardinality(T) = Cardinality(S) + 1
      BY <2>1, <2>7, FS_AddElement
    <3>2. log'[i].runs[n] + Cardinality(T) = log'[i].stayed[n] + 1
      BY <2>1, <2>2, <2>3, <2>7, <3>1
    <3> QED
      BY <2>4, <3>1, <3>2
  <2> QED
    BY <2>4, <2>5, <2>6, <2>7
<1> QED
  BY <1>1, <1>2, BalancedNext

\* Nothing about n changes in line i.
LEMMA OwingSame ==
  ASSUME NEW i, NEW n,
         \A q \in PID : line'[q] = i /\ n \in Due(status'[q], ctl'[q])
                          <=> line[q] = i /\ n \in Due(status[q], ctl[q])
  PROVE  {q \in PID : line'[q] = i /\ n \in Due(status'[q], ctl'[q])} = Owing(i, n)
BY DEF Owing

\* What RunInv says, one by one.
LEMMA RunInvNext ==
  ASSUME LogType', \A q \in PID : Tracks(q)', \A i \in 1 .. Len(log') : Balanced(i)'
  PROVE  RunInv'
BY DEF RunInv

\* A step that is about no line.
LEMMA LineElsewhere ==
  ASSUME Footing, RunInv, line' = line, log' = log,
         \A q \in PID : Rest(q) \/ Plain(q)
  PROVE  RunInv'
<1>1. LogType /\ LogType' /\ Grows
  BY DEF RunInv, LogType, Grows
<1>2. ASSUME NEW q \in PID PROVE Due(status'[q], ctl'[q]) = Due(status[q], ctl[q])
  BY PlacedRest DEF Footing, Plain
<1>3. ASSUME NEW q \in PID PROVE Tracks(q)'
  <2>1. CASE Rest(q)
    BY <1>1, <2>1, TracksOn DEF RunInv
  <2>2. CASE Plain(q)
    <3>1. /\ Live(q) /\ status[q] \notin {"prompt", "program"}
          /\ base'[q] = base[q] /\ depth'[q] = depth[q]
          /\ status'[q] # "program" => Ahead(status'[q], ctl'[q]) = Ahead(status[q], ctl[q])
      BY <2>2 DEF Plain
    <3> QED
      BY <1>1, <3>1, TracksOn DEF RunInv
  <2> QED
    BY <2>1, <2>2
<1>4. ASSUME NEW i \in 1 .. Len(log) PROVE Balanced(i)'
  <2>1. \A n : {q \in PID : line'[q] = i /\ n \in Due(status'[q], ctl'[q])} = Owing(i, n)
    BY <1>2, OwingSame
  <2> QED
    BY <1>1, <1>4, <2>1, BalancedOn DEF RunInv
<1> QED
  BY <1>1, <1>3, <1>4, RunInvNext

\* A process dies.
LEMMA LineDrop ==
  ASSUME Footing, RunInv, NEW p \in PID, Die(p), Settled(p),
         line' = [line EXCEPT ![p] = 0], log' = log
  PROVE  RunInv'
<1>1. LogType /\ LogType' /\ Grows
  BY DEF RunInv, LogType, Grows
<1>2. (\A q \in PID \ {p} : Rest(q)) /\ ~Live(p)'
  BY DieRest DEF Footing
<1>3. line'[p] = 0 /\ \A q \in PID \ {p} : line'[q] = line[q]
  BY <1>1 DEF LogType
<1>4. status'[p] \in {"free", "zombie"}
  BY <1>2 DEF Live
<1>5. ASSUME NEW q \in PID PROVE Tracks(q)'
  <2>1. CASE q = p
    BY <1>3, <1>4, <2>1, TracksNext
  <2>2. CASE q # p
    BY <1>1, <1>2, <1>3, <2>2, TracksOn DEF RunInv
  <2> QED
    BY <2>1, <2>2
<1>6. ASSUME NEW i \in 1 .. Len(log) PROVE Balanced(i)'
  <2>1. ASSUME NEW n, ~Stops(n)
        PROVE  {q \in PID : line'[q] = i /\ n \in Due(status'[q], ctl'[q])} = Owing(i, n)
    <3>1. n \notin Due(status[p], ctl[p])
      BY <2>1 DEF Settled
    <3>2. n \notin Due(status'[p], ctl'[p])
      BY <1>4 DEF Due
    <3>3. \A q \in PID \ {p} : Due(status'[q], ctl'[q]) = Due(status[q], ctl[q])
      BY <1>2, PlacedRest DEF Footing
    <3> QED
      BY <1>3, <3>1, <3>2, <3>3, OwingSame
  <2> QED
    BY <1>1, <1>6, <2>1, BalancedOn DEF RunInv
<1> QED
  BY <1>1, <1>5, <1>6, RunInvNext

\* A right part is begun.
LEMMA LineRerun ==
  ASSUME Footing, RunInv, NEW p \in PID, Rerun(p)
  PROVE  RunInv'
<1> DEFINE n == Head(ctl[p].frames).n
           l == line[p]
<1>1. /\ \A q \in PID \ {p} : Rest(q)
      /\ Live(p) /\ status[p] # "prompt" /\ Live(p)' /\ status'[p] # "program"
      /\ base'[p] = base[p] /\ depth'[p] = depth[p]
      /\ n \in Due(status[p], ctl[p]) /\ ~Stops(n) /\ n \in Semi
      /\ Due(status'[p], ctl'[p]) = Due(status[p], ctl[p]) \ {n}
      /\ Ahead(status'[p], ctl'[p]) = Ahead(status[p], ctl[p]) \ {n}
  BY TurnDoes DEF Rerun
<1>2. LogType /\ l \in 1 .. Len(log) /\ status[p] # "program"
  <2>1. status[p] = "return"
    BY DEF Rerun, ReturnSemiLeft, Returns
  <2> QED
    BY <1>1, <2>1 DEF RunInv, Tracks
<1>3. log' = [log EXCEPT ![l].runs[n] = @ + 1] /\ line' = line
  BY DEF Rerun
<1> HIDE DEF n, l
<1>4. /\ Len(log') = Len(log) /\ Len(log) \in Nat
      /\ \A i \in 1 .. Len(log) : i # l => log'[i] = log[i]
      /\ log'[l] = [log[l] EXCEPT !.runs[n] = @ + 1]
  BY <1>2, <1>3 DEF LogType
<1>5. /\ log[l] \in Records /\ log[l].runs \in [Semi -> Nat]
      /\ log'[l].root = log[l].root /\ log'[l].level = log[l].level
      /\ log'[l].stayed = log[l].stayed
      /\ log'[l].runs = [log[l].runs EXCEPT ![n] = @ + 1]
      /\ log'[l] \in Records
  <2>1. log[l] \in Records
    BY <1>2, LogEntry
  <2>2. n \in Semi
    BY <1>1
  <2> DEFINE s == [log[l] EXCEPT !.runs[n] = @ + 1]
  <2>3. /\ log[l].runs \in [Semi -> Nat] /\ s \in Records
        /\ s.root = log[l].root /\ s.level = log[l].level
        /\ s.stayed = log[l].stayed /\ s.runs = [log[l].runs EXCEPT ![n] = @ + 1]
    BY <2>1, <2>2, RecordOf, Zenon
  <2>4. log'[l] = s
    BY <1>4
  <2> HIDE DEF s
  <2> QED
    BY <2>1, <2>3, <2>4, Zenon
<1>6. LogType' /\ Grows
  BY <1>2, <1>3, <1>4, <1>5 DEF LogType, Grows
<1>7. ASSUME NEW q \in PID PROVE Tracks(q)'
  <2>1. CASE q # p
    BY <1>1, <1>2, <1>3, <1>6, <2>1, TracksOn DEF RunInv
  <2>2. \A m : m \in Ahead(status[p], ctl[p]) => m \in Ahead(status'[p], ctl'[p]) \/ ~Stops(m)
    BY <1>1
  <2>3. CASE q = p
    BY <1>1, <1>2, <1>3, <1>6, <2>2, <2>3, TracksOn DEF RunInv
  <2> QED
    BY <2>1, <2>3
<1>8. \A q \in PID \ {p} : Due(status'[q], ctl'[q]) = Due(status[q], ctl[q])
  BY <1>1, PlacedRest DEF Footing
<1>9. ASSUME NEW i \in 1 .. Len(log), NEW m \in SemisOf[log[i].root]
      PROVE  \E T :
               /\ T = {q \in PID : line'[q] = i /\ m \in Due(status'[q], ctl'[q])}
               /\ \/ /\ T = Owing(i, m)
                     /\ log'[i].runs[m] = log[i].runs[m] /\ log'[i].stayed[m] = log[i].stayed[m]
                  \/ /\ \E r \in Owing(i, m) : T = Owing(i, m) \ {r}
                     /\ log'[i].runs[m] = log[i].runs[m] + 1
                     /\ log'[i].stayed[m] = log[i].stayed[m]
  <2> DEFINE T == {q \in PID : line'[q] = i /\ m \in Due(status'[q], ctl'[q])}
  <2>1. m \in Semi
    BY <1>2, LogEntry
  <2>2. CASE i = l /\ m = n
    <3>1. p \in Owing(i, m) /\ T = Owing(i, m) \ {p}
      BY <1>1, <1>3, <1>8, <2>2 DEF Owing, l
    <3>2. log'[i].runs[m] = log[i].runs[m] + 1 /\ log'[i].stayed[m] = log[i].stayed[m]
      BY <1>1, <1>5, <2>2
    <3> QED
      BY <3>1, <3>2
  <2>3. CASE ~(i = l /\ m = n)
    <3>1. T = Owing(i, m)
      BY <1>1, <1>3, <1>8, <2>3 DEF Owing, l
    <3>2. log'[i].runs[m] = log[i].runs[m] /\ log'[i].stayed[m] = log[i].stayed[m]
      BY <1>4, <1>5, <2>1, <2>3
    <3> QED
      BY <3>1, <3>2
  <2> QED
    BY <2>2, <2>3
<1>10. ASSUME NEW i \in 1 .. Len(log) PROVE Balanced(i)'
  BY <1>2, <1>6, <1>9, <1>10, BalancedOn DEF RunInv
<1> QED
  BY <1>4, <1>6, <1>7, <1>10, RunInvNext

\* Pending and Waiting are the same.
LEMMA PendingIs ==
  ASSUME TypeOK, NEW p \in PID
  PROVE  Pending(p) = Waiting(ctl[p].frames)
<1>1. ctl[p].frames \in Seq(Frame)
  BY ControlType
<1>2. DOMAIN ctl[p].frames = 1 .. Len(ctl[p].frames)
  BY <1>1
<1> QED
  BY <1>2 DEF Pending, Waiting

\* A forked child comes back and stays.
LEMMA LineStay ==
  ASSUME Footing, RunInv, NEW p \in PID, Stay(p)
  PROVE  RunInv'
<1> DEFINE W == Waiting(ctl[p].frames)
           l == line[p]
<1>1. /\ \A q \in PID \ {p} : Rest(q)
      /\ Live(p) /\ status[p] # "prompt" /\ Live(p)' /\ status'[p] # "program"
      /\ base'[p] = base[p] /\ depth'[p] = depth[p]
      /\ Due(status[p], ctl[p]) = {} /\ Due(status'[p], ctl'[p]) = W
      /\ Ahead(status'[p], ctl'[p]) = Ahead(status[p], ctl[p])
  BY StayDoes DEF Stay
<1>2. LogType /\ l \in 1 .. Len(log) /\ status[p] # "program"
  <2>1. status[p] \in {"return", "exec"}
    BY DEF Stay, Stays, ReturnRedirFork, Returns, ExecFails
  <2> QED
    BY <1>1, <2>1 DEF RunInv, Tracks
<1> DEFINE g == [n \in Semi |-> IF n \in W THEN log[l].stayed[n] + 1 ELSE log[l].stayed[n]]
<1>3. log' = [log EXCEPT ![l].stayed = g] /\ line' = line
  <2>1. Pending(p) = W
    BY PendingIs DEF Footing
  <2> QED
    BY <2>1 DEF Stay
<1>4. log[l] \in Records /\ log[l].stayed \in [Semi -> Nat] /\ log[l].runs \in [Semi -> Nat]
  BY <1>2, LogEntry, RecordOf
<1>5. g \in [Semi -> Nat]
  BY <1>4
<1>6. \A n \in Semi : g[n] = IF n \in W THEN log[l].stayed[n] + 1 ELSE log[l].stayed[n]
  OBVIOUS
<1> HIDE DEF W, l, g
<1>7. /\ Len(log') = Len(log) /\ Len(log) \in Nat
      /\ \A i \in 1 .. Len(log) : i # l => log'[i] = log[i]
      /\ log'[l] = [log[l] EXCEPT !.stayed = g]
  BY <1>2, <1>3 DEF LogType
<1>8. /\ log'[l].root = log[l].root /\ log'[l].level = log[l].level
      /\ log'[l].runs = log[l].runs /\ log'[l].stayed = g
      /\ log'[l] \in Records
  BY <1>4, <1>5, <1>7, RecordOf
<1>9. LogType' /\ Grows
  BY <1>2, <1>3, <1>7, <1>8 DEF LogType, Grows
<1>10. ASSUME NEW q \in PID PROVE Tracks(q)'
  <2>1. CASE q # p
    BY <1>1, <1>2, <1>3, <1>9, <2>1, TracksOn DEF RunInv
  <2>2. CASE q = p
    BY <1>1, <1>2, <1>3, <1>9, <2>2, TracksOn DEF RunInv
  <2> QED
    BY <2>1, <2>2
<1>11. \A q \in PID \ {p} : Due(status'[q], ctl'[q]) = Due(status[q], ctl[q])
  BY <1>1, PlacedRest DEF Footing
<1>12. ASSUME NEW i \in 1 .. Len(log), NEW m \in SemisOf[log[i].root]
      PROVE  \E T :
               /\ T = {q \in PID : line'[q] = i /\ m \in Due(status'[q], ctl'[q])}
               /\ \/ /\ T = Owing(i, m)
                     /\ log'[i].runs[m] = log[i].runs[m] /\ log'[i].stayed[m] = log[i].stayed[m]
                  \/ /\ \E r : r \notin Owing(i, m) /\ T = Owing(i, m) \cup {r}
                     /\ log'[i].runs[m] = log[i].runs[m]
                     /\ log'[i].stayed[m] = log[i].stayed[m] + 1
  <2> DEFINE T == {q \in PID : line'[q] = i /\ m \in Due(status'[q], ctl'[q])}
  <2>1. m \in Semi
    BY <1>2, LogEntry
  <2>2. CASE i = l /\ m \in W
    <3>1. p \notin Owing(i, m) /\ T = Owing(i, m) \cup {p}
      BY <1>1, <1>3, <1>11, <2>2 DEF Owing, l
    <3>2. log'[i].stayed[m] = log[i].stayed[m] + 1 /\ log'[i].runs[m] = log[i].runs[m]
      BY <1>6, <1>8, <2>1, <2>2
    <3> QED
      BY <3>1, <3>2
  <2>3. CASE ~(i = l /\ m \in W)
    <3>1. T = Owing(i, m)
      BY <1>1, <1>3, <1>11, <2>3 DEF Owing, l
    <3>2. log'[i].runs[m] = log[i].runs[m] /\ log'[i].stayed[m] = log[i].stayed[m]
      BY <1>6, <1>7, <1>8, <2>1, <2>3
    <3> QED
      BY <3>1, <3>2
  <2> QED
    BY <2>2, <2>3
<1>13. ASSUME NEW i \in 1 .. Len(log) PROVE Balanced(i)'
  BY <1>2, <1>9, <1>12, <1>13, BalancedOn DEF RunInv
<1> QED
  BY <1>7, <1>9, <1>10, <1>13, RunInvNext

\* A child is forked into the line.
LEMMA LineFork ==
  ASSUME Footing, RunInv, NEW p \in PID, NEW c \in PID, ForkLine(p, c)
  PROVE  RunInv'
<1>1. /\ p # c /\ \A q \in PID \ {p, c} : Rest(q)
      /\ Live(p) /\ status[p] \notin {"prompt", "program"}
      /\ Live(p)' /\ base'[p] = base[p] /\ depth'[p] = depth[p]
      /\ Ahead(status'[p], ctl'[p]) = Ahead(status[p], ctl[p])
      /\ Due(status'[p], ctl'[p]) = Due(status[p], ctl[p])
      /\ depth'[c] = depth[p] + 1 /\ Live(c)'
      /\ Due(status[c], ctl[c]) = {} /\ Due(status'[c], ctl'[c]) = {}
      /\ base'[c] = "main" =>
           /\ base[p] = "main"
           /\ Ahead(status'[c], ctl'[c]) = Ahead(status[p], ctl[p])
  BY ForkDoes DEF ForkLine
<1>2. LogType /\ line[p] \in 1 .. Len(log)
  BY <1>1 DEF RunInv, Tracks
<1>3. log' = log /\ line' = [line EXCEPT ![c] = line[p]]
  BY DEF ForkLine
<1>4. line'[c] = line[p] /\ \A q \in PID \ {c} : line'[q] = line[q]
  BY <1>2, <1>3 DEF LogType
<1>5. LogType' /\ Grows
  BY <1>2, <1>3 DEF LogType, Grows
<1>6. ASSUME NEW q \in PID PROVE Tracks(q)'
  <2>1. CASE q # p /\ q # c
    BY <1>1, <1>2, <1>4, <1>5, <2>1, TracksOn DEF RunInv
  <2>2. CASE q = p
    BY <1>1, <1>2, <1>4, <1>5, <2>2, TracksOn DEF RunInv
  <2>3. CASE q = c
    <3>1. log[line[p]].level \in Nat /\ depth[p] \in Nat /\ depth[p] >= log[line[p]].level
      BY <1>1, <1>2, LogEntry DEF RunInv, Tracks, Footing, TypeOK
    <3>2. depth'[c] >= log'[line'[c]].level
      BY <1>1, <1>3, <1>4, <3>1
    <3>3. ASSUME base'[c] = "main", NEW n \in SemisOf[log'[line'[c]].root]
          PROVE  n \in Ahead(status'[c], ctl'[c]) \/ ~Stops(n)
      <4>1. n \in SemisOf[log[line[p]].root] /\ base[p] = "main"
        BY <1>1, <1>3, <1>4, <3>3
      <4>2. n \in Ahead(status[p], ctl[p]) \/ ~Stops(n)
        BY <1>1, <1>2, <4>1 DEF RunInv, Tracks
      <4> QED
        BY <1>1, <3>3, <4>2
    <3> QED
      BY <1>2, <1>3, <1>4, <2>3, <3>2, <3>3, TracksNext
  <2> QED
    BY <2>1, <2>2, <2>3
<1>7. ASSUME NEW i \in 1 .. Len(log) PROVE Balanced(i)'
  <2>1. ASSUME NEW n
        PROVE  {q \in PID : line'[q] = i /\ n \in Due(status'[q], ctl'[q])} = Owing(i, n)
    <3>1. \A q \in PID \ {p, c} : Due(status'[q], ctl'[q]) = Due(status[q], ctl[q])
      BY <1>1, PlacedRest DEF Footing
    <3> QED
      BY <1>1, <1>4, <3>1, OwingSame
  <2> QED
    BY <1>2, <1>3, <1>5, <1>7, <2>1, BalancedOn DEF RunInv
<1> QED
  BY <1>3, <1>5, <1>6, <1>7, RunInvNext

\* A line is typed.
LEMMA LineBegin ==
  ASSUME Footing, RunInv, NEW p \in PID, Begin(p)
  PROVE  RunInv'
<1> DEFINE x == ctl'[p].node
           k == Len(log) + 1
           z == [n \in Semi |-> 0]
           e == [root |-> x, level |-> depth[p], runs |-> z, stayed |-> z]
<1>1. /\ \A q \in PID \ {p} : Rest(q)
      /\ Live(p)' /\ depth'[p] = depth[p] /\ x \in Lines
      /\ Due(status[p], ctl[p]) = {}
      /\ Due(status'[p], ctl'[p]) = SemisOf[x]
      /\ Ahead(status'[p], ctl'[p]) = SemisOf[x]
  BY SubmitDoes DEF Begin
<1>2. LogType /\ depth[p] \in Nat
  BY DEF RunInv, Footing, TypeOK
<1>3. line' = [line EXCEPT ![p] = k] /\ log' = Append(log, e)
  BY DEF Begin
<1>4. z \in [Semi -> Nat] /\ \A n \in Semi : z[n] = 0
  OBVIOUS
<1> HIDE DEF z
<1>5. e \in Records
  BY <1>1, <1>2, <1>4 DEF Records
<1>6. e.root = x /\ e.level = depth[p] /\ e.runs = z /\ e.stayed = z
  OBVIOUS
<1> HIDE DEF e, x
<1>7. /\ Len(log) \in Nat /\ Len(log') = k /\ log'[k] = e /\ log' \in Seq(Records)
      /\ \A i \in 1 .. Len(log) : log'[i] = log[i]
  BY <1>2, <1>3, <1>5 DEF LogType
<1>8. LogType' /\ Grows
  BY <1>2, <1>3, <1>7 DEF LogType, Grows
<1>9. line'[p] = k /\ \A q \in PID \ {p} : line'[q] = line[q] /\ line[q] \in 0 .. Len(log)
  BY <1>2, <1>3 DEF LogType
<1>10. ASSUME NEW q \in PID PROVE Tracks(q)'
  <2>1. CASE q # p
    BY <1>1, <1>2, <1>8, <1>9, <2>1, TracksOn DEF RunInv
  <2>2. CASE q = p
    <3>1. line'[p] \in 1 .. Len(log') /\ depth'[p] >= log'[line'[p]].level
      BY <1>1, <1>2, <1>6, <1>7, <1>9
    <3>2. \A n \in SemisOf[log'[line'[p]].root] : n \in Ahead(status'[p], ctl'[p])
      BY <1>1, <1>6, <1>7, <1>9
    <3> QED
      BY <2>2, <3>1, <3>2, TracksNext
  <2> QED
    BY <2>1, <2>2
<1>11. \A q \in PID \ {p} : Due(status'[q], ctl'[q]) = Due(status[q], ctl[q])
  BY <1>1, PlacedRest DEF Footing
<1>12. ASSUME NEW i \in 1 .. Len(log) PROVE Balanced(i)'
  <2>1. ASSUME NEW n
        PROVE  {q \in PID : line'[q] = i /\ n \in Due(status'[q], ctl'[q])} = Owing(i, n)
    <3>1. line'[p] # i
      BY <1>7, <1>9
    <3> QED
      BY <1>1, <1>9, <1>11, <3>1, OwingSame
  <2> QED
    BY <1>2, <1>7, <1>8, <1>12, <2>1, BalancedOn DEF RunInv
<1>13. ASSUME NEW j \in 1 .. Len(log'), j = k PROVE Balanced(j)'
  <2>1. ASSUME NEW n \in SemisOf[log'[j].root]
        PROVE  \E S : /\ S = {q \in PID : line'[q] = j /\ n \in Due(status'[q], ctl'[q])}
                      /\ IsFiniteSet(S)
                      /\ log'[j].runs[n] + Cardinality(S) = log'[j].stayed[n] + 1
    <3> DEFINE S == {q \in PID : line'[q] = j /\ n \in Due(status'[q], ctl'[q])}
    <3>1. n \in SemisOf[x]
      BY <1>6, <1>7, <1>13, <2>1
    <3>2. S = {p}
      BY <1>1, <1>7, <1>9, <1>13, <3>1
    <3>3. IsFiniteSet(S) /\ Cardinality(S) = 1
      BY <3>2, FS_Singleton
    <3>4. n \in Semi
      BY <1>1, <3>1, SemisTyped, NodeAssumption
    <3>5. log'[j].runs[n] = 0 /\ log'[j].stayed[n] = 0
      BY <1>4, <1>6, <1>7, <1>13, <3>4
    <3> QED
      BY <3>3, <3>5
  <2> QED
    BY <2>1, BalancedNext
<1>14. \A i \in 1 .. Len(log') : i \in 1 .. Len(log) \/ i = k
  BY <1>7
<1>15. \A i \in 1 .. Len(log') : Balanced(i)'
  BY <1>12, <1>13, <1>14
<1> QED
  BY <1>8, <1>10, <1>15, RunInvNext

\* A process that lives goes on living, but those that die.
LEMMA OnlyTheDying ==
  ASSUME Footing, [Next]_vars, NEW p \in PID, Live(p), ~Live(p)'
  PROVE  Die(p) /\ Settled(p)
<1>1. CASE UNCHANGED vars
  BY <1>1 DEF vars, Live
<1>2. ASSUME NEW q \in PID, q # p, \/ \A r \in PID \ {q} : Rest(r)
                                  \/ \E c \in PID : Live(c)' /\ \A r \in PID \ {q, c} : Rest(r)
      PROVE  FALSE
  BY <1>2 DEF Rest, Live
<1>3. ASSUME NEW q \in PID, Submit(q) \/ ReturnSemiLeft(q) \/ Stays(q) PROVE FALSE
  <2>1. Live(q)' /\ \A r \in PID \ {q} : Rest(r)
    BY <1>3, SubmitDoes, TurnDoes, StayDoes
  <2> QED
    BY <1>2, <2>1
<1>4. ASSUME NEW q \in PID, NEW c \in PID, Forks(q, c) PROVE FALSE
  <2>1. Live(q)' /\ Live(c)' /\ \A r \in PID \ {q, c} : Rest(r)
    BY <1>4, ForkDoes
  <2> QED
    BY <1>2, <2>1
<1>5. ASSUME NEW q \in PID, GoesOn(q) PROVE Die(p) /\ Settled(p)
  <2>1. CASE Plain(q)
    BY <1>2, <2>1 DEF Plain
  <2>2. CASE Die(q) /\ Settled(q)
    <3>1. \A r \in PID \ {q} : Rest(r)
      BY <2>2, DieRest DEF Footing
    <3> QED
      BY <1>2, <2>2, <3>1
  <2> QED
    BY <1>5, <2>1, <2>2 DEF GoesOn
<1> QED
  BY <1>1, <1>3, <1>4, <1>5, RunStep

\* A step keeps the lines balanced, whoever makes it.
LEMMA RunInvStep ==
  ASSUME Footing, RunInv, [RNext]_rvars
  PROVE  RunInv'
<1>1. [Next]_vars
  BY StepsFollow DEF RNext, rvars
<1>2. CASE UNCHANGED rvars
  <2>1. line' = line /\ log' = log /\ \A q \in PID : Rest(q)
    BY <1>2 DEF rvars, dvars, vars, Rest
  <2> QED
    BY <2>1, LineElsewhere
<1>3. ASSUME NEW p \in PID, Begin(p) \/ Rerun(p) \/ Stay(p) PROVE RunInv'
  BY <1>3, LineBegin, LineRerun, LineStay
<1>4. ASSUME NEW p \in PID, DropLine(p) PROVE RunInv'
  <2>1. Die(p) /\ Settled(p)
    BY <1>1, <1>4, OnlyTheDying DEF DropLine
  <2>2. line' = [line EXCEPT ![p] = 0] /\ log' = log
    BY <1>4 DEF DropLine
  <2> QED
    BY <2>1, <2>2, LineDrop
<1>5. ASSUME NEW p \in PID, NEW c \in PID, ForkLine(p, c) PROVE RunInv'
  BY <1>5, LineFork
<1>6. CASE Elsewhere
  <2>1. /\ \A p \in PID : ~Submit(p) /\ ~ReturnSemiLeft(p) /\ ~Stays(p)
        /\ \A p, c \in PID : ~Forks(p, c)
        /\ \A p \in PID : Live(p) => Live(p)'
        /\ line' = line /\ log' = log
    BY <1>6 DEF Elsewhere
  <2>2. CASE UNCHANGED vars
    <3>1. \A q \in PID : Rest(q)
      BY <2>2 DEF vars, Rest
    <3> QED
      BY <2>1, <3>1, LineElsewhere
  <2>3. CASE \E p \in PID : GoesOn(p)
    <3>1. PICK p \in PID : GoesOn(p)
      BY <2>3
    <3>2. ~(Die(p) /\ Settled(p))
      BY <2>1, DieRest DEF Settled, Footing
    <3>3. Plain(p)
      BY <3>1, <3>2 DEF GoesOn
    <3>4. \A q \in PID : Rest(q) \/ Plain(q)
      BY <3>3 DEF Plain
    <3> QED
      BY <2>1, <3>4, LineElsewhere
  <2> QED
    BY <1>1, <2>1, <2>2, <2>3, RunStep
<1> QED
  BY <1>2, <1>3, <1>4, <1>5, <1>6 DEF RNext

\* All lines are balanced, always.
LEMMA RunInvariant == RSpec => Spec /\ [](Footing /\ RunInv)
<1>1. RInit => Init /\ RunInv
  <2> SUFFICES ASSUME RInit PROVE Init /\ RunInv
    OBVIOUS
  <2>1. Init /\ line = [p \in PID |-> 0] /\ log = <<>>
    BY DEF RInit, DInit
  <2>2. LogType /\ Len(log) = 0 /\ \A q \in PID : line[q] = 0
    BY <2>1 DEF LogType
  <2>3. \A q \in PID : Live(q) => status[q] = "prompt"
    BY <2>1 DEF Init, Live
  <2>4. ASSUME NEW q \in PID PROVE Tracks(q)
    <3>1. line[q] = 0 /\ ~(line[q] > 0) /\ ~(Live(q) /\ status[q] # "prompt")
      BY <2>2, <2>3
    <3> QED
      BY <3>1, Zenon DEF Tracks
  <2> QED
    BY <2>1, <2>2, <2>4 DEF RunInv
<1>2. [RNext]_rvars => [Next]_vars
  BY StepsFollow DEF RNext, rvars
<1>3. TypeInv /\ CallInv /\ SideInv /\ PlacedInv => Footing
  BY DEF TypeInv, Footing
<1>4. Footing /\ RunInv /\ [RNext]_rvars => RunInv'
  BY RunInvStep
<1>5. Init /\ [][Next]_vars => Spec
  BY DEF Spec
<1> QED
  BY <1>1, <1>2, <1>3, <1>4, <1>5, TypeInvariant, CallInvariant, SideInvariant, PlacedInvariant, PTL
  DEF RSpec

\* Back at the prompt where a line was typed, the right part of each ';' has been run
\* once, and once again for each nested shell that was left behind in the left part.
THEOREM PartsRunOnce == RSpec => []EachOnce
<1>1. Footing /\ RunInv /\ HomeInv /\ PromptAlone => EachOnce
  <2> SUFFICES ASSUME Footing, RunInv, HomeInv, PromptAlone,
                      NEW p \in PID, status[p] = "prompt", line[p] > 0, ~pipeForkFailed,
                      depth[p] = log[line[p]].level,
                      NEW n \in SemisOf[log[line[p]].root]
               PROVE  log[line[p]].runs[n] = log[line[p]].stayed[n] + 1
    BY DEF EachOnce
  <2>1. LogType /\ line[p] \in 1 .. Len(log) /\ Live(p)
    BY LineOf DEF RunInv, Live
  <2>2. PICK i \in 1 .. Len(log) : i = line[p]
    BY <2>1
  <2>3. base[p] = "main" /\ Due(status[p], ctl[p]) = {}
    BY NothingDue DEF HomeInv, Prompters, InCall, AtCall
  <2>4. ~Stops(n)
    <3>1. n \notin Ahead(status[p], ctl[p])
      <4>1. ctl[p].frames = <<>>
        BY FootingOf DEF Placed, InCall, AtCall
      <4> QED
        BY <4>1, WaitingNothing DEF Ahead
    <3> QED
      BY <2>1, <2>3, <3>1 DEF RunInv, Tracks
  <2>5. ASSUME NEW q \in PID, line[q] = i PROVE n \notin Due(status[q], ctl[q])
    <3>1. CASE q = p
      BY <2>3, <3>1
    <3>2. CASE ~Live(q)
      BY <3>2 DEF Live, Due
    <3>3. CASE q # p /\ Live(q)
      <4>1. depth[q] < depth[p]
        BY <3>3 DEF PromptAlone
      <4>2. depth[q] >= log[i].level
        BY <2>2, <2>5, <3>3 DEF RunInv, Tracks
      <4>3. depth[p] \in Nat /\ depth[q] \in Nat /\ log[i].level = depth[p]
        BY <2>2 DEF Footing, TypeOK
      <4> QED
        BY <4>1, <4>2, <4>3
    <3> QED
      BY <3>1, <3>2, <3>3
  <2>6. Owing(i, n) = {}
    BY <2>5 DEF Owing
  <2>7. log[i].runs[n] + 0 = log[i].stayed[n] + 1
    BY <2>2, <2>4, <2>6, FS_EmptySet DEF RunInv, Balanced
  <2>8. log[i].runs[n] \in Nat /\ log[i].stayed[n] \in Nat
    BY <2>1, <2>2, LogEntry
  <2> QED
    BY <2>2, <2>7, <2>8
<1> QED
  BY <1>1, RunInvariant, HomeInvariant, PromptsAlone, PTL

=============================================================================
