------------------------------ MODULE Pipeline ------------------------------
(***************************************************************************)
(* The descriptors of a pipeline of N commands: parse_ast_pipe, which for  *)
(* commands 1 .. k makes a pipe and forks one child for 1 .. k - 1 and one *)
(* for k, and the redirections of the single commands.                     *)
(*                                                                         *)
(* A fork copies the descriptor table.  A reader of a pipe gets its end of *)
(* file when no table holds the other end any more, so each end must be    *)
(* closed by everybody who is not to use it.  The commands are taken for   *)
(* filters: they read items from descriptor 0 and write them to            *)
(* descriptor 1, until the end of file, a broken pipe or their own wish.   *)
(***************************************************************************)
EXTENDS Integers, Sequences, FiniteSets, FiniteSetsExt

CONSTANTS
  N,         \* commands of the pipeline
  MaxFd,     \* bound: the highest descriptor of a process
  Capacity,  \* items a pipe holds before a write to it blocks
  Input,     \* items the user types
  Document,  \* items in a here-document
  Plans      \* which redirections the commands have

\* A redirection of descriptor fd: to or from a file, to a copy of the descriptor
\* target, or from a here-document.
Redirection == [op : {"file", "dup", "here"}, fd : 0 .. MaxFd, target : 0 .. MaxFd]

\* A here-document is written before anybody reads it, so it has to fit.  A
\* command has one at most.
ASSUME PipelineAssumption ==
  /\ N \in Nat /\ N >= 2
  /\ MaxFd \in Nat /\ MaxFd >= 5
  /\ Capacity \in Nat \ {0} /\ Input \in Nat
  /\ Document \in 0 .. Capacity
  /\ Plans \subseteq [1 .. N -> Seq(Redirection)]
  /\ \A x \in Plans, k \in 1 .. N : \A i, j \in DOMAIN x[k] :
       x[k][i].op = "here" /\ x[k][j].op = "here" => i = j

FD == 0 .. MaxFd

\* The calls of parse_ast_pipe and the commands, each with a process of its own;
\* the outermost call is the shell's.
Evaluator(k) == <<"evaluator", k>>
Member(k) == <<"member", k>>
Shell == Evaluator(N)
Proc == {Evaluator(k) : k \in 2 .. N} \cup {Member(k) : k \in 1 .. N}

LeftChild(k) == IF k = 2 THEN Member(1) ELSE Evaluator(k - 1)
RightChild(k) == Member(k)
IsOut(p) == p = Member(1) \/ p[1] = "evaluator"

\* What a descriptor refers to.  Pipe k is the one Evaluator(k) makes; the
\* here-document of member k comes through pipe N + k.
PipeId == 2 .. 2 * N
Ends == {"r", "w"}
End(id, e) == <<e, id>>
Closed == <<"closed", 0>>
Tty == <<"tty", 0>>
File == <<"file", 0>>

VARIABLES
  pc,
  fds,      \* the descriptor table of each process
  fdpipe,   \* fdpipe of parse_ast_pipe, copied by fork; pipefd of a here-document
  buffer,   \* items in each pipe
  plan,     \* the redirections of each command
  made,     \* how many of them it has made
  have,     \* commands that have read an item and not written it
  input,    \* items still to come from the terminal
  output,   \* items that have reached the terminal
  ended,    \* auxiliary: why a command has ended; "eof" is of its pipe
  failed    \* auxiliary: a pipe, a fork or the dup to oldfd has failed

vars == <<pc, fds, fdpipe, buffer, plan, made, have, input, output, ended, failed>>

TypeOK ==
  /\ pc \in [Proc -> {"absent", "plumb", "dup", "pipe", "forkLeft", "forkRight", "giveUp",
                      "close", "waitLeft", "waitRight", "redirect", "hereWrite",
                      "program", "dead", "done"}]
  /\ fds \in [Proc -> [FD -> (Ends \X PipeId) \cup {Closed, Tty, File}]]
  /\ fdpipe \in [Proc -> [0 .. 1 -> FD]]
  /\ buffer \in [PipeId -> 0 .. Capacity]
  /\ plan \in Plans
  /\ \A k \in 1 .. N : made[k] \in 0 .. Len(plan[k])
  /\ have \subseteq 1 .. N
  /\ input \in 0 .. Input
  /\ output \in 0 .. Input + N * Document
  /\ ended \in [1 .. N -> {"no", "eof", "end", "sigpipe", "quit"}]
  /\ failed \in BOOLEAN

\* Descriptors 3, 4 and 5 are the copies of the terminal that preparation keeps.
AtPrompt == [f \in FD |-> IF f <= 5 THEN Tty ELSE Closed]
NoFds == [f \in FD |-> Closed]

Init ==
  /\ pc = [p \in Proc |-> IF p = Shell THEN "pipe" ELSE "absent"]
  /\ fds = [p \in Proc |-> IF p = Shell THEN AtPrompt ELSE NoFds]
  /\ fdpipe = [p \in Proc |-> [i \in 0 .. 1 |-> 0]]
  /\ buffer = [i \in PipeId |-> 0]
  /\ plan \in Plans
  /\ made = [k \in 1 .. N |-> 0]
  /\ have = {}
  /\ input = Input
  /\ output = 0
  /\ ended = [k \in 1 .. N |-> "no"]
  /\ failed = FALSE

-----------------------------------------------------------------------------
(* The kernel                                                              *)

Free(table) == {f \in FD : table[f] = Closed}
Lowest(table) == Min(Free(table))

\* open and dup take the lowest free descriptor, if there is one.
Opened(table, d) ==
  IF Free(table) = {} THEN table ELSE [table EXCEPT ![Lowest(table)] = d]

Dup2(table, from, to) ==
  IF table[from] = Closed THEN table ELSE [table EXCEPT ![to] = table[from]]

Close(table, f) == [table EXCEPT ![f] = Closed]

\* pipe: its read end has the lower number.
Piped(table, id) == Opened(Opened(table, End(id, "r")), End(id, "w"))
PipeFds(table) ==
  [i \in 0 .. 1 |-> IF i = 0 THEN Lowest(table) ELSE Min(Free(table) \ {Lowest(table)})]

Holders(id, e) == {p \in Proc : \E f \in FD : fds[p][f] = End(id, e)}

At(p, where) == pc[p] = where
Goto(p, where) == pc' = [pc EXCEPT ![p] = where]

\* exit, which closes everything.
Exit(p) ==
  /\ Goto(p, "dead")
  /\ fds' = [fds EXCEPT ![p] = NoFds]

Fork(p, c, next) ==
  /\ pc' = [pc EXCEPT ![p] = next, ![c] = "plumb"]
  /\ fds' = [fds EXCEPT ![c] = fds[p]]
  /\ fdpipe' = [fdpipe EXCEPT ![c] = fdpipe[p]]

-----------------------------------------------------------------------------
(* parse_ast_pipe                                                          *)

\* Back to main's loop, or to the exit(0) of parse_ast_pipe_child.
Leave(p, table) ==
  /\ Goto(p, IF p = Shell THEN "done" ELSE "dead")
  /\ fds' = [fds EXCEPT ![p] = IF p = Shell THEN table ELSE NoFds]

MakePipe(k) ==
  LET p == Evaluator(k)
  IN /\ At(p, "pipe")
     /\ Cardinality(Free(fds[p])) >= 2
     /\ fdpipe' = [fdpipe EXCEPT ![p] = PipeFds(fds[p])]
     /\ fds' = [fds EXCEPT ![p] = Piped(@, k)]
     /\ Goto(p, "forkLeft")
     /\ UNCHANGED <<buffer, plan, made, have, input, output, ended, failed>>

PipeFails(k) ==
  LET p == Evaluator(k)
  IN /\ At(p, "pipe")
     /\ Leave(p, fds[p])
     /\ failed' = TRUE
     /\ UNCHANGED <<fdpipe, buffer, plan, made, have, input, output, ended>>

ForkLeft(k) ==
  /\ At(Evaluator(k), "forkLeft")
  /\ Fork(Evaluator(k), LeftChild(k), "forkRight")
  /\ UNCHANGED <<buffer, plan, made, have, input, output, ended, failed>>

ForkRight(k) ==
  /\ At(Evaluator(k), "forkRight")
  /\ Fork(Evaluator(k), RightChild(k), "close")
  /\ UNCHANGED <<buffer, plan, made, have, input, output, ended, failed>>

\* Either fork fails.  The left child is not waited for; that it may die of the
\* SIGINT sent to it is left to Quit.
ForkFails(k) ==
  LET p == Evaluator(k)
  IN /\ pc[p] \in {"forkLeft", "forkRight"}
     /\ Goto(p, "giveUp")
     /\ failed' = TRUE
     /\ UNCHANGED <<fds, fdpipe, buffer, plan, made, have, input, output, ended>>

\* Fault: the write end is forgotten after a failed fork too.
WithoutReadEnd(p) == Close(fds[p], fdpipe[p][0])

\* Both ends are closed, on every path, before anybody is waited for.
WithoutPipe(p) == Close(Close(fds[p], fdpipe[p][0]), fdpipe[p][1])

GiveUp(k) ==
  LET p == Evaluator(k)
  IN /\ At(p, "giveUp")
     /\ Leave(p, WithoutPipe(p))
     /\ UNCHANGED <<fdpipe, buffer, plan, made, have, input, output, ended, failed>>

\* Fault: the write end stays open.
CloseRead(k) ==
  LET p == Evaluator(k)
  IN /\ At(p, "close")
     /\ fds' = [fds EXCEPT ![p] = Close(@, fdpipe[p][0])]
     /\ Goto(p, "waitLeft")
     /\ UNCHANGED <<fdpipe, buffer, plan, made, have, input, output, ended, failed>>

CloseBoth(k) ==
  LET p == Evaluator(k)
  IN /\ At(p, "close")
     /\ fds' = [fds EXCEPT ![p] = WithoutPipe(p)]
     /\ Goto(p, "waitLeft")
     /\ UNCHANGED <<fdpipe, buffer, plan, made, have, input, output, ended, failed>>

WaitLeft(k) ==
  /\ At(Evaluator(k), "waitLeft")
  /\ At(LeftChild(k), "dead")
  /\ Goto(Evaluator(k), "waitRight")
  /\ UNCHANGED <<fds, fdpipe, buffer, plan, made, have, input, output, ended, failed>>

\* Fault: the second waitpid is missing.
WaitNoMore(k) ==
  /\ At(Evaluator(k), "waitRight")
  /\ Leave(Evaluator(k), fds[Evaluator(k)])
  /\ UNCHANGED <<fdpipe, buffer, plan, made, have, input, output, ended, failed>>

WaitRight(k) ==
  /\ At(Evaluator(k), "waitRight")
  /\ At(RightChild(k), "dead")
  /\ Leave(Evaluator(k), fds[Evaluator(k)])
  /\ UNCHANGED <<fdpipe, buffer, plan, made, have, input, output, ended, failed>>

\* parse_ast_pipe_child: close(fdpipe[a])
CloseOther(p) ==
  /\ At(p, "plumb")
  /\ fds' = [fds EXCEPT ![p] = Close(@, fdpipe[p][IF IsOut(p) THEN 0 ELSE 1])]
  /\ Goto(p, "dup")
  /\ UNCHANGED <<fdpipe, buffer, plan, made, have, input, output, ended, failed>>

\* dup2(fdpipe[b], b), close(fdpipe[b]), and on with this side of the tree.
DupOwn(p) ==
  LET b == IF IsOut(p) THEN 1 ELSE 0
  IN /\ At(p, "dup")
     /\ fds' = [fds EXCEPT ![p] = Close(Dup2(@, fdpipe[p][b], b), fdpipe[p][b])]
     /\ Goto(p, IF p[1] = "evaluator" THEN "pipe" ELSE "redirect")
     /\ UNCHANGED <<fdpipe, buffer, plan, made, have, input, output, ended, failed>>

-----------------------------------------------------------------------------
(* parse_ast_redirection_child in a command of the pipeline                *)

\* parse_ast_redirection_right: what is read or written is opened first.
FileOpened(table, r) == IF r.op = "file" THEN Opened(table, File) ELSE table

\* oldfd = dup(fd)
Saved(table, fd) == Opened(table, table[fd])
CannotSave(table, fd) == Free(table) = {} /\ table[fd] # Closed

\* dup2(rightfd, fd)
Replaced(table, r) ==
  IF r.op = "dup" THEN Dup2(table, r.target, r.fd) ELSE [table EXCEPT ![r.fd] = File]

\* Fault: no copy of the descriptor is kept.
RedirectedAway(table, r) == Replaced(FileOpened(table, r), r)

Redirected(table, r) == Replaced(Saved(FileOpened(table, r), r.fd), r)

Redirects(k) == made[k] < Len(plan[k])
ThisRedirection(k) == plan[k][made[k] + 1]

Redirect(k) ==
  LET p == Member(k)
      r == ThisRedirection(k)
  IN /\ At(p, "redirect") /\ Redirects(k)
     /\ r.op # "here"
     /\ r.op = "file" => Free(fds[p]) # {}
     /\ fds' = [fds EXCEPT ![p] = Redirected(@, r)]
     /\ made' = [made EXCEPT ![k] = @ + 1]
     /\ failed' = (failed \/ CannotSave(FileOpened(fds[p], r), r.fd))
     /\ UNCHANGED <<pc, fdpipe, buffer, plan, have, input, output, ended>>

\* parse_ast_redirection_kernel_heredoc, up to its write.
HereOpen(k) ==
  LET p == Member(k)
      fd == ThisRedirection(k).fd
      saved == Saved(fds[p], fd)
      piped == Piped(saved, N + k)
  IN /\ At(p, "redirect") /\ Redirects(k)
     /\ ThisRedirection(k).op = "here"
     /\ Cardinality(Free(saved)) >= 2
     /\ fdpipe' = [fdpipe EXCEPT ![p] = PipeFds(saved)]
     /\ fds' = [fds EXCEPT ![p] =
                  Close(Dup2(piped, Lowest(saved), fd), Lowest(saved))]
     /\ Goto(p, "hereWrite")
     /\ UNCHANGED <<buffer, plan, made, have, input, output, ended, failed>>

\* What pipefd[1] refers to: its own dup2 may have hit it, if fd is that number.
HereEnd(k) == fds[Member(k)][fdpipe[Member(k)][1]]

\* The write, which blocks if the document does not fit, and the close after it.
HereWrite(k) ==
  LET p == Member(k)
  IN /\ At(p, "hereWrite")
     /\ \/ /\ HereEnd(k) = End(N + k, "w") /\ Holders(N + k, "r") # {}
           /\ buffer[N + k] + Document <= Capacity
           /\ buffer' = [buffer EXCEPT ![N + k] = @ + Document]
        \/ HereEnd(k) # End(N + k, "w") /\ UNCHANGED buffer
     /\ fds' = [fds EXCEPT ![p] = Close(@, fdpipe[p][1])]
     /\ made' = [made EXCEPT ![k] = @ + 1]
     /\ Goto(p, "redirect")
     /\ UNCHANGED <<fdpipe, plan, have, input, output, ended, failed>>

\* execve.  Descriptors are not close-on-exec: the program inherits them all.
Exec(k) ==
  /\ At(Member(k), "redirect") /\ ~Redirects(k)
  /\ Goto(Member(k), "program")
  /\ UNCHANGED <<fds, fdpipe, buffer, plan, made, have, input, output, ended, failed>>

-----------------------------------------------------------------------------
(* The commands                                                            *)

Stop(k, why) ==
  /\ Exit(Member(k))
  /\ ended' = [ended EXCEPT ![k] = why]
  /\ UNCHANGED <<fdpipe, plan, made, have, input, output, failed>>

\* A redirection fails, the command is not found, or it stops before the end.
Quit(k) ==
  /\ pc[Member(k)] \in {"redirect", "program"}
  /\ Stop(k, "quit")
  /\ UNCHANGED buffer

\* SIGPIPE in the shell's own write: if fd is the number of pipefd[0], the close
\* after dup2 has taken the only read end away.
HereBroken(k) ==
  /\ At(Member(k), "hereWrite")
  /\ HereEnd(k) = End(N + k, "w") /\ Holders(N + k, "r") = {}
  /\ Stop(k, "quit")
  /\ UNCHANGED buffer

Stdin(k) == fds[Member(k)][0]
Stdout(k) == fds[Member(k)][1]

Read(k) ==
  /\ At(Member(k), "program") /\ k \notin have
  /\ \/ /\ Stdin(k)[1] = "r" /\ buffer[Stdin(k)[2]] > 0
        /\ buffer' = [buffer EXCEPT ![Stdin(k)[2]] = @ - 1]
        /\ UNCHANGED input
     \/ /\ Stdin(k) = Tty /\ input > 0
        /\ input' = input - 1
        /\ UNCHANGED buffer
  /\ have' = have \cup {k}
  /\ UNCHANGED <<pc, fds, fdpipe, plan, made, output, ended, failed>>

\* The end of the input: of a pipe, when it is empty and nobody holds its other
\* end; of the terminal, the user's Ctrl-D; a file is taken for empty.  Reading
\* from a write end is an error.
EndOfFile(k) ==
  /\ At(Member(k), "program") /\ k \notin have
  /\ CASE Stdin(k)[1] = "r" ->
            buffer[Stdin(k)[2]] = 0 /\ Holders(Stdin(k)[2], "w") = {}
       [] Stdin(k) = Tty -> input = 0
       [] OTHER -> TRUE
  /\ Stop(k, IF Stdin(k) = End(k, "r") THEN "eof" ELSE "end")
  /\ UNCHANGED buffer

Write(k) ==
  /\ At(Member(k), "program") /\ k \in have
  /\ \/ /\ Stdout(k)[1] = "w"
        /\ Holders(Stdout(k)[2], "r") # {} /\ buffer[Stdout(k)[2]] < Capacity
        /\ buffer' = [buffer EXCEPT ![Stdout(k)[2]] = @ + 1]
        /\ UNCHANGED output
     \/ /\ Stdout(k)[1] # "w"
        /\ output' = IF Stdout(k) = Tty THEN output + 1 ELSE output
        /\ UNCHANGED buffer
  /\ have' = have \ {k}
  /\ UNCHANGED <<pc, fds, fdpipe, plan, made, input, ended, failed>>

\* SIGPIPE
BrokenPipe(k) ==
  /\ At(Member(k), "program") /\ k \in have
  /\ Stdout(k)[1] = "w" /\ Holders(Stdout(k)[2], "r") = {}
  /\ Stop(k, "sigpipe")
  /\ UNCHANGED buffer

-----------------------------------------------------------------------------
Evaluation(k) ==
  \/ MakePipe(k) \/ PipeFails(k) \/ ForkLeft(k) \/ ForkRight(k) \/ ForkFails(k)
  \/ GiveUp(k) \/ CloseBoth(k) \/ WaitLeft(k) \/ WaitRight(k)

Plumbing(p) == CloseOther(p) \/ DupOwn(p)

Command(k) ==
  \/ Redirect(k) \/ HereOpen(k) \/ HereWrite(k) \/ HereBroken(k) \/ Exec(k)
  \/ Read(k) \/ EndOfFile(k) \/ Write(k) \/ BrokenPipe(k)

\* The shell is back at its prompt and every process is gone.
Over ==
  /\ At(Shell, "done")
  /\ \A p \in Proc \ {Shell} : pc[p] \in {"absent", "dead"}

Done == Over /\ UNCHANGED vars

Next ==
  \/ \E k \in 2 .. N : Evaluation(k)
  \/ \E p \in Proc : Plumbing(p)
  \/ \E k \in 1 .. N : Command(k) \/ Quit(k)
  \/ Done

Spec == Init /\ [][Next]_vars

\* Every process is scheduled; no command has to stop before its input does.
FairSpec ==
  /\ Spec
  /\ \A k \in 2 .. N : WF_vars(Evaluation(k))
  /\ \A p \in Proc : WF_vars(Plumbing(p))
  /\ \A k \in 1 .. N : WF_vars(Command(k))

-----------------------------------------------------------------------------
(* Properties                                                              *)

\* An end of file comes only when the command on the left is over, and a broken
\* pipe only when the one on the right is: also if that one has been redirected
\* away from the pipe, for oldfd keeps it, unless the table was full.
EndsMeanEnds ==
  ~failed =>
    \A k \in 1 .. N :
      /\ ended[k] = "eof" => At(Member(k - 1), "dead")
      /\ ended[k] = "sigpipe" => At(Member(k + 1), "dead")

\* Whatever has failed, a line leaves the shell with the descriptors it had.
ShellClean == At(Shell, "done") => fds[Shell] = AtPrompt

\* Nothing is lost on the way: if no command is redirected and none gives up,
\* all that was typed comes out, once, before the next prompt.
WholeOutput ==
  At(Shell, "done") /\ ~failed /\ (\A k \in 1 .. N : plan[k] = <<>> /\ ended[k] # "quit") =>
    output = Input

\* The shell comes back to its prompt and all its children end: no process waits
\* for an end of file that somebody who waits for it could give.
Completes == <>Over

=============================================================================
