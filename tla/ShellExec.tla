------------------------------ MODULE ShellExec ------------------------------
(***************************************************************************)
(* Execution of parsed command lines by the processes of 21sh: parse_ast   *)
(* and the functions it calls, main's loop around it, and the fork, exec,  *)
(* exit and wait calls that tie the processes together.                    *)
(*                                                                         *)
(* A process is either the shell itself, a fork of it that is still        *)
(* running the shell's code, or a program it has become.  A fork copies    *)
(* the whole call stack, so a forked child that returns instead of exiting *)
(* climbs back to main's loop and becomes a second, nested, shell.         *)
(*                                                                         *)
(* The tree built by the AST creator is given as constants: a set of       *)
(* nodes, with the fields of t_ast as functions on it.  File descriptors   *)
(* are left out; a file that can or cannot be opened is a choice.          *)
(***************************************************************************)
EXTENDS Integers, Sequences

CONSTANTS
  PID,      \* process identifiers the kernel may hand out
  Root,     \* the process main starts in
  NoPid,    \* no process: the parent of Root and of orphans
  Node,     \* the t_ast nodes of the command lines that can be typed
  NoNode,   \* a NULL t_ast pointer
  kind,     \* type of a node: ";", "|", a redirection or a command
  word,     \* what the first word of a command is
  left,     \* ast->left
  right,    \* ast->right, for ";" and "|"
  Lines,    \* the roots of the command lines
  MaxLines  \* bound: how many lines are typed in all

Kinds == {"semi", "pipe", "redirection", "command"}

\* "fault" is a command whose evaluation dereferences NULL: one with no word
\* at all (args[0] is NULL in handle_commands), or unsetenv with no argument.
Words == {"builtin", "exit", "fault", "external"}

ASSUME PidAssumption == Root \in PID /\ NoPid \notin PID

ASSUME NodeAssumption ==
  /\ NoNode \notin Node
  /\ kind \in [Node -> Kinds]
  /\ word \in [Node -> Words]
  /\ left \in [Node -> Node \cup {NoNode}]
  /\ right \in [Node -> Node \cup {NoNode}]
  /\ Lines \subseteq Node
  /\ MaxLines \in Nat

VARIABLES
  status,   \* what each process is doing
  ctl,      \* the parse_ast call it evaluates, the value it returns, its callers
  base,     \* where the outermost parse_ast returns to: main or the pipe child
  parent,   \* who must reap the process
  pid0,     \* pid[0] of parse_ast_pipe, not yet reaped
  pid1,     \* pid[1] of parse_ast_pipe, not yet reaped
  typed,    \* number of lines typed so far, for the bound
  depth,    \* auxiliary: number of forks between Root and the process
  pipeForkFailed  \* auxiliary: a pipeline has lost its second fork

vars == <<status, ctl, base, parent, pid0, pid1, typed, depth, pipeForkFailed>>

Statuses ==
  {"free",      \* no such process
   "prompt",    \* in main's loop, reading a line
   "eval",      \* entering parse_ast
   "return",    \* leaving parse_ast
   "redirect",  \* entering parse_ast_redirection_child
   "exec",      \* about to call execve
   "program",   \* execve succeeded: no longer the shell's code
   "wait",      \* in while (wait(0) == -1)
   "fork2",     \* in parse_ast_pipe between its two forks
   "waitpid",   \* in the two waitpid loops of parse_ast_pipe
   "zombie"}    \* dead, not yet reaped

\* A caller of parse_ast that has something left to do when it returns.
Frame == [k : {"semiLeft", "semiRight", "redir", "redirFork"}, n : Node]

Control == [node : Node \cup {NoNode}, needfork : BOOLEAN,
            ret : {0, -1}, frames : Seq(Frame)]

TypeOK ==
  /\ status \in [PID -> Statuses]
  /\ ctl \in [PID -> Control]
  /\ base \in [PID -> {"main", "pipe"}]
  /\ parent \in [PID -> PID \cup {NoPid}]
  /\ pid0 \in [PID -> PID \cup {NoPid}]
  /\ pid1 \in [PID -> PID \cup {NoPid}]
  /\ typed \in 0 .. MaxLines
  /\ depth \in [PID -> Nat]
  /\ pipeForkFailed \in BOOLEAN

Call(n, needfork, frames) ==
  [node |-> n, needfork |-> needfork, ret |-> 0, frames |-> frames]
Value(v, frames) ==
  [node |-> NoNode, needfork |-> FALSE, ret |-> v, frames |-> frames]
Idle == Value(0, <<>>)

Push(k, n, frames) == <<[k |-> k, n |-> n]>> \o frames

Init ==
  /\ status = [p \in PID |-> IF p = Root THEN "prompt" ELSE "free"]
  /\ ctl = [p \in PID |-> Idle]
  /\ base = [p \in PID |-> "main"]
  /\ parent = [p \in PID |-> NoPid]
  /\ pid0 = [p \in PID |-> NoPid]
  /\ pid1 = [p \in PID |-> NoPid]
  /\ typed = 0
  /\ depth = [p \in PID |-> 0]
  /\ pipeForkFailed = FALSE

-----------------------------------------------------------------------------
(* Building blocks of the actions                                          *)

Step(p, st, c) ==
  /\ status' = [status EXCEPT ![p] = st]
  /\ ctl' = [ctl EXCEPT ![p] = c]
  /\ UNCHANGED <<base, parent, pid0, pid1, typed, depth, pipeForkFailed>>

Return(p, v, frames) == Step(p, "return", Value(v, frames))

Eval(p, n, needfork, frames) == Step(p, "eval", Call(n, needfork, frames))

\* fork(): c is a copy of p, one level deeper; b is where c's calls end.
Fork(p, c, pst, cst, cctl, b) ==
  /\ status[c] = "free"
  /\ status' = [status EXCEPT ![p] = pst, ![c] = cst]
  /\ ctl' = [ctl EXCEPT ![c] = cctl]
  /\ base' = [base EXCEPT ![c] = b]
  /\ parent' = [parent EXCEPT ![c] = p]
  /\ depth' = [depth EXCEPT ![c] = depth[p] + 1]
  /\ UNCHANGED <<typed, pipeForkFailed>>

\* The process ends: its children are orphaned (init reaps the dead ones) and
\* it stays a zombie for its own parent, if that one is still there.
Die(p) ==
  /\ status' = [q \in PID |->
       IF q = p THEN IF parent[p] = NoPid THEN "free" ELSE "zombie"
       ELSE IF parent[q] = p /\ status[q] = "zombie" THEN "free"
       ELSE status[q]]
  /\ parent' = [q \in PID |-> IF parent[q] = p THEN NoPid ELSE parent[q]]
  /\ ctl' = [ctl EXCEPT ![p] = Idle]
  /\ base' = [base EXCEPT ![p] = "main"]
  /\ depth' = [depth EXCEPT ![p] = 0]
  /\ pid0' = [pid0 EXCEPT ![p] = NoPid]
  /\ pid1' = [pid1 EXCEPT ![p] = NoPid]
  /\ UNCHANGED <<typed, pipeForkFailed>>

\* The kernel forgets the zombie c once its parent p has waited for it.
Release(p, c, pst) ==
  /\ status[c] = "zombie"
  /\ status' = [status EXCEPT ![p] = pst, ![c] = "free"]
  /\ parent' = [parent EXCEPT ![c] = NoPid]
  /\ UNCHANGED <<base, typed, depth, pipeForkFailed>>

Evaluates(p, k) ==
  /\ status[p] = "eval"
  /\ ctl[p].node # NoNode
  /\ kind[ctl[p].node] = k

Runs(p, w) ==
  /\ Evaluates(p, "command")
  /\ word[ctl[p].node] = w

-----------------------------------------------------------------------------
(* main: the prompt                                                        *)

\* A line is read and parsed: parse_ast(shell.ast, &shell, 1).
Submit(p) ==
  /\ status[p] = "prompt"
  /\ typed < MaxLines
  /\ \E n \in Lines : ctl' = [ctl EXCEPT ![p] = Call(n, TRUE, <<>>)]
  /\ status' = [status EXCEPT ![p] = "eval"]
  /\ typed' = typed + 1
  /\ UNCHANGED <<base, parent, pid0, pid1, depth, pipeForkFailed>>

\* Ctrl-D on an empty line: exit(0).
Quit(p) ==
  /\ status[p] = "prompt"
  /\ Die(p)

-----------------------------------------------------------------------------
(* parse_ast: dispatch on the node                                         *)

EvalNull(p) ==
  /\ status[p] = "eval"
  /\ ctl[p].node = NoNode
  /\ Return(p, -1, ctl[p].frames)

EvalSemi(p) ==
  /\ Evaluates(p, "semi")
  /\ LET n == ctl[p].node
     IN Eval(p, left[n], TRUE, Push("semiLeft", n, ctl[p].frames))

\* handle_commands runs the builtin in this process.
EvalBuiltin(p) ==
  /\ Runs(p, "builtin")
  /\ Return(p, 0, ctl[p].frames)

EvalExit(p) ==
  /\ Runs(p, "exit")
  /\ Die(p)

\* The process is killed by SIGSEGV.
EvalFault(p) ==
  /\ Runs(p, "fault")
  /\ Die(p)

\* ft_exec_check_err: not found, not a regular file, not executable.
EvalNotFound(p) ==
  /\ Runs(p, "external")
  /\ Return(p, -1, ctl[p].frames)

EvalForkExec(p, c) ==
  /\ Runs(p, "external")
  /\ ctl[p].needfork
  /\ Fork(p, c, "wait", "exec", ctl[p], base[p])
  /\ UNCHANGED <<pid0, pid1>>

EvalExecInPlace(p) ==
  /\ Runs(p, "external")
  /\ ~ctl[p].needfork
  /\ Step(p, "exec", ctl[p])

Exec(p) ==
  /\ status[p] = "exec"
  /\ Step(p, "program", Idle)

\* execve fails.  ft_exec_fork returns -1 in the forked child; ft_exec itself
\* sets ret = (execve(...) == -1) = 1, which parse_ast_command reads as success.
ExecFails(p) ==
  /\ status[p] = "exec"
  /\ Return(p, IF ctl[p].needfork THEN -1 ELSE 0, ctl[p].frames)

ProgramExit(p) ==
  /\ status[p] = "program"
  /\ Die(p)

\* Fault: no return after the message, so that the parent waits for nobody.
EvalForkFailsWaits(p) ==
  /\ \/ Runs(p, "external") /\ ctl[p].needfork
     \/ Evaluates(p, "redirection") /\ ctl[p].needfork
     \/ Evaluates(p, "pipe")
  /\ Step(p, "wait", ctl[p])

\* fork fails for a command or a redirection, or pipe or the first fork of a
\* pipeline fails.
EvalForkFails(p) ==
  /\ \/ Runs(p, "external") /\ ctl[p].needfork
     \/ Evaluates(p, "redirection") /\ ctl[p].needfork
     \/ Evaluates(p, "pipe")
  /\ Return(p, -1, ctl[p].frames)

-----------------------------------------------------------------------------
(* parse_ast_redirection                                                   *)

\* Fault: the parent does not wait.
EvalRedirNoWait(p, c) ==
  /\ Evaluates(p, "redirection")
  /\ ctl[p].needfork
  /\ Fork(p, c, "return", "redirect", ctl[p], base[p])
  /\ UNCHANGED <<pid0, pid1>>

EvalRedirFork(p, c) ==
  /\ Evaluates(p, "redirection")
  /\ ctl[p].needfork
  /\ Fork(p, c, "wait", "redirect", ctl[p], base[p])
  /\ UNCHANGED <<pid0, pid1>>

EvalRedirInPlace(p) ==
  /\ Evaluates(p, "redirection")
  /\ ~ctl[p].needfork
  /\ Step(p, "redirect", ctl[p])

\* The file is opened and put in place: parse_ast(ast->left, shell, 0).
Redirect(p) ==
  /\ status[p] = "redirect"
  /\ LET n == ctl[p].node
         k == IF ctl[p].needfork THEN "redirFork" ELSE "redir"
     IN Eval(p, left[n], FALSE, Push(k, n, ctl[p].frames))

\* open or pipe fails: parse_ast_redirection_child returns 0.
RedirectFailsForked(p) ==
  /\ status[p] = "redirect"
  /\ ctl[p].needfork
  /\ Die(p)

RedirectFailsInPlace(p) ==
  /\ status[p] = "redirect"
  /\ ~ctl[p].needfork
  /\ Return(p, -1, ctl[p].frames)

-----------------------------------------------------------------------------
(* parse_ast_pipe                                                          *)

\* Fault: no exit behind parse_ast in the first child.
EvalPipeStays(p, c) ==
  /\ Evaluates(p, "pipe")
  /\ Fork(p, c, "fork2", "eval", Call(left[ctl[p].node], FALSE, ctl[p].frames), base[p])
  /\ pid0' = [pid0 EXCEPT ![p] = c]
  /\ UNCHANGED pid1

\* The child of a pipeline ends in exit(0) whatever parse_ast returns.
EvalPipe(p, c) ==
  /\ Evaluates(p, "pipe")
  /\ Fork(p, c, "fork2", "eval", Call(left[ctl[p].node], FALSE, <<>>), "pipe")
  /\ pid0' = [pid0 EXCEPT ![p] = c]
  /\ UNCHANGED pid1

\* Fault: pid[0] is assigned twice.
EvalPipeSamePid(p, c) ==
  /\ status[p] = "fork2"
  /\ Fork(p, c, "waitpid", "eval", Call(right[ctl[p].node], FALSE, <<>>), "pipe")
  /\ pid0' = [pid0 EXCEPT ![p] = c]
  /\ UNCHANGED pid1

EvalPipeRight(p, c) ==
  /\ status[p] = "fork2"
  /\ Fork(p, c, "waitpid", "eval", Call(right[ctl[p].node], FALSE, <<>>), "pipe")
  /\ pid1' = [pid1 EXCEPT ![p] = c]
  /\ UNCHANGED pid0

\* The second fork fails: kill(pid[0], SIGINT) and return, without a wait.  The
\* shell's own code only notes SIGINT; that a program dies of it, some time
\* later, is a ProgramExit.
PipeRightForkFails(p) ==
  /\ status[p] = "fork2"
  /\ status' = [status EXCEPT ![p] = "return"]
  /\ ctl' = [ctl EXCEPT ![p] = Value(-1, ctl[p].frames)]
  /\ pid0' = [pid0 EXCEPT ![p] = NoPid]
  /\ pipeForkFailed' = TRUE
  /\ UNCHANGED <<base, parent, pid1, typed, depth>>

\* Fault: the second waitpid is missing.
ReapLeftOnly(p) ==
  /\ status[p] = "waitpid"
  /\ pid0[p] # NoPid
  /\ Release(p, pid0[p], "return")
  /\ pid0' = [pid0 EXCEPT ![p] = NoPid]
  /\ ctl' = [ctl EXCEPT ![p] = Value(0, ctl[p].frames)]
  /\ UNCHANGED pid1

\* Fault: the first waitpid is missing.
ReapLeftSkipped(p) ==
  /\ status[p] = "waitpid"
  /\ pid0[p] # NoPid
  /\ pid0' = [pid0 EXCEPT ![p] = NoPid]
  /\ UNCHANGED <<status, ctl, base, parent, pid1, typed, depth, pipeForkFailed>>

\* waitpid(pid[0]) first, then waitpid(pid[1]).
ReapLeft(p) ==
  /\ status[p] = "waitpid"
  /\ pid0[p] # NoPid
  /\ Release(p, pid0[p], "waitpid")
  /\ pid0' = [pid0 EXCEPT ![p] = NoPid]
  /\ UNCHANGED <<ctl, pid1>>

ReapRight(p) ==
  /\ status[p] = "waitpid"
  /\ pid0[p] = NoPid /\ pid1[p] # NoPid
  /\ Release(p, pid1[p], "return")
  /\ pid1' = [pid1 EXCEPT ![p] = NoPid]
  /\ ctl' = [ctl EXCEPT ![p] = Value(0, ctl[p].frames)]
  /\ UNCHANGED pid0

-----------------------------------------------------------------------------
(* wait                                                                    *)

\* wait(0) returns for any child that has died.  (A signal interrupts it with
\* EINTR and the loop calls it again: no change of state.)
Reap(p, c) ==
  /\ status[p] = "wait"
  /\ parent[c] = p
  /\ Release(p, c, "return")
  /\ ctl' = [ctl EXCEPT ![p] = Value(0, ctl[p].frames)]
  /\ UNCHANGED <<pid0, pid1>>

-----------------------------------------------------------------------------
(* parse_ast returns to its caller                                         *)

Returns(p, k) ==
  /\ status[p] = "return"
  /\ ctl[p].frames # <<>>
  /\ Head(ctl[p].frames).k = k

ReturnToMain(p) ==
  /\ status[p] = "return"
  /\ ctl[p].frames = <<>>
  /\ base[p] = "main"
  /\ Step(p, "prompt", Idle)

ReturnToPipeChild(p) ==
  /\ status[p] = "return"
  /\ ctl[p].frames = <<>>
  /\ base[p] = "pipe"
  /\ Die(p)

ReturnSemiLeft(p) ==
  /\ Returns(p, "semiLeft")
  /\ LET n == Head(ctl[p].frames).n
     IN Eval(p, right[n], TRUE, Push("semiRight", n, Tail(ctl[p].frames)))

ReturnSemiRight(p) ==
  /\ Returns(p, "semiRight")
  /\ Return(p, 0, Tail(ctl[p].frames))

\* Fault, for this model: the test as it was meant.
ReturnRedirPlain(p) ==
  /\ Returns(p, "redir")
  /\ Return(p, ctl[p].ret, Tail(ctl[p].frames))

\* parse_ast_redirection_kernel reads 0, the success value of parse_ast, as a
\* failure: "if (!parse_ast(ast->left, shell, 0)) return (0);".
ReturnRedir(p) ==
  /\ Returns(p, "redir")
  /\ Return(p, IF ctl[p].ret = 0 THEN -1 ELSE 0, Tail(ctl[p].frames))

\* In the forked child the same test decides between exit(1) and falling
\* through to "return (1)", back to the callers copied from the parent.
ReturnRedirFork(p) ==
  /\ Returns(p, "redirFork")
  /\ IF ctl[p].ret = 0 THEN Die(p) ELSE Return(p, 0, Tail(ctl[p].frames))

-----------------------------------------------------------------------------
User(p) == Submit(p) \/ Quit(p)

\* Steps of the shell's code on its own.
Local(p) ==
  \/ EvalNull(p) \/ EvalSemi(p) \/ EvalBuiltin(p) \/ EvalExit(p)
  \/ EvalFault(p) \/ EvalNotFound(p) \/ EvalExecInPlace(p) \/ Exec(p)
  \/ ExecFails(p) \/ EvalForkFails(p) \/ EvalRedirInPlace(p) \/ Redirect(p)
  \/ RedirectFailsForked(p) \/ RedirectFailsInPlace(p)
  \/ PipeRightForkFails(p) \/ ReapLeft(p) \/ ReapRight(p)
  \/ ReturnToMain(p) \/ ReturnToPipeChild(p) \/ ReturnSemiLeft(p)
  \/ ReturnSemiRight(p) \/ ReturnRedir(p) \/ ReturnRedirFork(p)

\* Steps that involve a second process.
Forks(p, c) ==
  \/ EvalForkExec(p, c) \/ EvalRedirFork(p, c)
  \/ EvalPipe(p, c) \/ EvalPipeRight(p, c)

Shells(p) == Local(p) \/ \E c \in PID : Forks(p, c) \/ Reap(p, c)

\* Everybody has exited.
Done == (\A p \in PID : status[p] = "free") /\ UNCHANGED vars

Next ==
  \/ \E p \in PID : User(p) \/ Shells(p) \/ ProgramExit(p)
  \/ Done

Spec == Init /\ [][Next]_vars

\* The kernel runs every runnable process, and programs end by themselves;
\* nothing obliges the user to type.
FairSpec == Spec /\ \A p \in PID : WF_vars(Shells(p)) /\ WF_vars(ProgramExit(p))

-----------------------------------------------------------------------------
(* Properties                                                              *)

Live(p) == status[p] \notin {"free", "zombie"}

\* p runs the code of an interactive shell: when its calls return it is main's
\* loop they return to.
Shell(p) == Live(p) /\ base[p] = "main" /\ status[p] # "program"

\* A shell that is not blocked in wait(0).
Active(p) == Shell(p) /\ status[p] # "wait"

Child(p, c) == parent[c] = p /\ status[c] # "free"

\* However many nested shells failed redirections have left behind, at most
\* one of them evaluates or prompts; all others are blocked in wait(0).  The
\* exception is a pipeline whose second fork failed: its first child is never
\* waited for, and a later wait(0) that reaps it returns too early.
ForegroundExclusive ==
  ~pipeForkFailed => \A p, q \in PID : Active(p) /\ Active(q) => p = q

\* The shells as a nest: each is as deep as it was forked often.
Stack == INSTANCE Nest WITH
  Process <- PID,
  level <- [p \in {q \in PID : Shell(q)} |-> depth[p]],
  active <- {p \in PID : Active(p)},
  ok <- ~pipeForkFailed

\* Shells come and go like brackets: a fork that climbs back to main's loop, or goes on
\* to exec, is inside of the shell that is active, and the shells around it go on from
\* the inside out, each when the one in it is gone, none skipped and none twice.
ShellsNest == Stack!Spec

\* When a shell prompts, nothing of the lines before is still running: every
\* other live process is a shell further out, blocked in wait(0).  In particular
\* no member of a pipeline outlives it.
PromptAlone ==
  ~pipeForkFailed =>
    \A p, q \in PID :
      status[p] = "prompt" /\ Live(q) /\ q # p =>
        Shell(q) /\ status[q] = "wait" /\ depth[q] < depth[p]

\* "while (wait(0) == -1)" and the waitpid loops always have a child to wait
\* for, so they never spin on ECHILD, even after a fork has failed.
WaitHasChild ==
  \A p \in PID :
    /\ status[p] = "wait" => \E c \in PID : Child(p, c)
    /\ status[p] = "waitpid" => Child(p, pid1[p])
    /\ status[p] = "waitpid" /\ pid0[p] # NoPid => Child(p, pid0[p])

\* What parse_ast(n, shell, 0) may return, by structure of the tree.  Every
\* redirection around a command inverts the result.
Outcomes[n \in Node \cup {NoNode}] ==
  CASE n = NoNode -> {-1}
    [] n # NoNode /\ kind[n] = "semi" -> {0}
    [] n # NoNode /\ kind[n] = "pipe" -> {0, -1}
    [] n # NoNode /\ kind[n] = "redirection" ->
         {-1} \cup {IF v = 0 THEN -1 ELSE 0 : v \in Outcomes[left[n]]}
    [] n # NoNode /\ kind[n] = "command" ->
         CASE word[n] = "builtin" -> {0}
           [] word[n] = "external" -> {0, -1}
           [] word[n] \in {"exit", "fault"} -> {}

\* The result a redirection sees of the command under it is one the tree
\* allows, whatever forks, failures and nested shells came in between.  With
\* ReturnRedirFork it tells which lines can leave a nested shell behind: those
\* with -1 among the outcomes below an outermost redirection.
ReturnsAsBigStep ==
  \A p \in PID :
    Returns(p, "redir") \/ Returns(p, "redirFork") =>
      ctl[p].ret \in Outcomes[left[Head(ctl[p].frames).n]]

\* A command line never hangs the terminal: again and again some shell is at
\* its prompt, or all have exited.
Responsive ==
  []<>(\/ \E p \in PID : status[p] = "prompt"
       \/ \A p \in PID : status[p] = "free")

\* Every process that dies is reaped, by the parent that waits for it or, once
\* the parent is gone, by init.
ZombiesReaped ==
  \A c \in PID :
    status[c] = "zombie" /\ ~pipeForkFailed ~> status[c] = "free" \/ pipeForkFailed

=============================================================================
