----------------------------- MODULE Descriptors -----------------------------
(***************************************************************************)
(* ShellExec with the descriptor table of each process and the mode of the *)
(* terminal: preparation and change_termios, the ends of a pipe, and       *)
(* parse_ast_redirection_child, which keeps a copy of what it replaces.    *)
(*                                                                         *)
(* Each action is one of ShellExec and what it does to the tables.  What   *)
(* matters is what a nested shell is left with, which has climbed out of   *)
(* redirections that were made for a command.  (Who holds the ends of a    *)
(* pipe at which moment is in Pipeline.)                                   *)
(***************************************************************************)
EXTENDS ShellExec, FiniteSets, FiniteSetsExt, SequencesExt

CONSTANTS
  MaxFd,  \* the highest descriptor of a process
  redir   \* what a redirection node does

FD == 0 .. MaxFd

\* fd is the descriptor that is replaced; opens, whether the file on the right is
\* opened first; onto, what fd comes to be: this file, a copy of target,
\* /dev/null (where "-" stands on the right) or a here-document.
Redirection == [fd : 0 .. 5, opens : BOOLEAN, target : 0 .. 5,
                onto : {"file", "copy", "null", "here"}]

ASSUME DescriptorAssumption ==
  /\ MaxFd \in Nat /\ MaxFd >= 5
  /\ redir \in [{n \in Node : kind[n] = "redirection"} -> Redirection]
  /\ \A n \in DOMAIN redir : redir[n].onto = "file" => redir[n].opens
  /\ \A n \in DOMAIN redir : redir[n].onto = "copy" => ~redir[n].opens

\* AstCreator puts a ';' under nothing but another one.
ASSUME TreeAssumption ==
  \A n \in Node : kind[n] \in {"pipe", "redirection"} =>
    \A m \in {left[n], right[n]} \cap Node : kind[m] # "semi"

Closed == <<"closed", NoPid>>
Tty == <<"tty", NoPid>>
Null == <<"null", NoPid>>
End(p, e) == <<e, p>>

VARIABLES
  fds,     \* the descriptor table of each process
  oldfds,  \* for each redirection it is in: fd, and oldfd or -1
  lost,    \* auxiliary: descriptors replaced and not put back
  tty      \* the mode of the terminal

tables == <<fds, oldfds, lost, tty>>
dvars == <<vars, tables>>

File == {Closed, Tty, Null} \cup {End(p, e) : p \in PID, e \in {"r", "w"}}
          \cup {<<k, n>> : k \in {"file", "here"}, n \in DOMAIN redir}

DTypeOK ==
  /\ fds \in [PID -> [FD -> File]]
  /\ oldfds \in [PID -> Seq([fd : FD, oldfd : FD \cup {-1}, lost : BOOLEAN])]
  /\ lost \in [PID -> SUBSET FD]
  /\ tty \in {"raw", "cooked"}

\* preparation: 3, 4 and 5 are the copies of the terminal in initfd.
AtPrompt == [f \in FD |-> IF f <= 5 THEN Tty ELSE Closed]
NoFds == [f \in FD |-> Closed]

DInit ==
  /\ Init
  /\ fds = [p \in PID |-> IF p = Root THEN AtPrompt ELSE NoFds]
  /\ oldfds = [p \in PID |-> <<>>]
  /\ lost = [p \in PID |-> {}]
  /\ tty = "raw"

-----------------------------------------------------------------------------
(* The kernel                                                              *)

Free(table) == {f \in FD : table[f] = Closed}
Lowest(table) == Min(Free(table))

Opened(table, d) ==
  IF Free(table) = {} THEN table ELSE [table EXCEPT ![Lowest(table)] = d]

Close(table, f) == IF f \in FD THEN [table EXCEPT ![f] = Closed] ELSE table

\* A descriptor that is not open is not copied.
Dup2(table, from, to) ==
  IF from \notin FD \ Free(table) THEN table ELSE [table EXCEPT ![to] = table[from]]

HasTable(p, t) == fds' = [fds EXCEPT ![p] = t] /\ UNCHANGED <<oldfds, lost>>

\* exit closes everything.
Closes(p) ==
  /\ fds' = [fds EXCEPT ![p] = NoFds]
  /\ oldfds' = [oldfds EXCEPT ![p] = <<>>]
  /\ lost' = [lost EXCEPT ![p] = {}]

\* The child c of a fork has table t, and p keeps u.
Copies(p, c, u, t) ==
  /\ fds' = [fds EXCEPT ![p] = u, ![c] = t]
  /\ oldfds' = [oldfds EXCEPT ![c] = oldfds[p]]
  /\ lost' = [lost EXCEPT ![c] = lost[p]]
  /\ UNCHANGED tty

-----------------------------------------------------------------------------
(* main's loop and the terminal                                            *)

\* tcsetattr(0, ..) has no effect on what is not the terminal.
SetTermios(table, mode) == tty' = IF table[0] = Tty THEN mode ELSE tty

\* change_termios(&shell->initfd, 0)
Restored(table) == Dup2(Dup2(Dup2(table, 3, 0), 4, 1), 5, 2)

BackToPrompt(p) ==
  /\ ReturnToMain(p)
  /\ fds' = [fds EXCEPT ![p] = Restored(@)]
  /\ lost' = [lost EXCEPT ![p] = {f \in @ : f > 2 \/ f + 3 \in @}]
  /\ SetTermios(fds'[p], "raw")
  /\ UNCHANGED oldfds

SubmitLine(p) ==
  /\ Submit(p)
  /\ HasTable(p, fds[p])
  /\ SetTermios(fds[p], "cooked")

\* Fault: no change_termios before the exit.
QuitRaw(p) == Quit(p) /\ Closes(p) /\ UNCHANGED tty

\* Ctrl-D: change_termios(.., 1), exit.
QuitShell(p) ==
  /\ Quit(p)
  /\ Closes(p)
  /\ SetTermios(fds[p], "cooked")

-----------------------------------------------------------------------------
(* Redirections                                                            *)

\* parse_ast_redirection_right
WithFile(p) ==
  LET n == ctl[p].node
  IN IF redir[n].opens THEN Opened(fds[p], <<"file", n>>) ELSE fds[p]

RightFd(p) ==
  LET r == redir[ctl[p].node] IN IF r.opens THEN Lowest(fds[p]) ELSE r.target

\* oldfd = dup(fd)
OldFd(p) ==
  IF Free(WithFile(p)) = {} \/ WithFile(p)[redir[ctl[p].node].fd] = Closed THEN -1
  ELSE Lowest(WithFile(p))

WithOld(p) ==
  IF OldFd(p) = -1 THEN WithFile(p)
  ELSE Opened(WithFile(p), WithFile(p)[redir[ctl[p].node].fd])

\* open, dup2, close.
WithNull(table, fd) ==
  IF Free(table) = {} THEN table
  ELSE Close(Dup2(Opened(table, Null), Lowest(table), fd), Lowest(table))

\* Fault: the arguments of dup2 the wrong way round.
RedirectedBackwards(p) == Dup2(WithOld(p), redir[ctl[p].node].fd, RightFd(p))

\* parse_ast_redirection_kernel.  The two ends of a here-document's pipe are open
\* for a while; its text is written and both are closed before the command runs.
Redirected(p) ==
  LET n == ctl[p].node
      r == redir[n]
  IN CASE r.onto \in {"file", "copy"} -> Dup2(WithOld(p), RightFd(p), r.fd)
       [] r.onto = "null" -> WithNull(WithOld(p), r.fd)
       [] r.onto = "here" -> [WithOld(p) EXCEPT ![r.fd] = <<"here", n>>]

RoomForPipe(table) == Cardinality(Free(table)) >= 2

Replace(p) ==
  LET r == redir[ctl[p].node]
  IN /\ Redirect(p)
     /\ r.opens => Free(fds[p]) # {}
     /\ r.onto = "here" => RoomForPipe(WithOld(p))
     /\ fds' = [fds EXCEPT ![p] = Redirected(p)]
     /\ oldfds' = [oldfds EXCEPT ![p] =
          <<[fd |-> r.fd, oldfd |-> OldFd(p), lost |-> r.fd \in lost[p]]>> \o @]
     /\ lost' = [lost EXCEPT ![p] = IF OldFd(p) = -1 THEN @ \cup {r.fd} ELSE @]
     /\ UNCHANGED tty

\* open fails, or the pipe of a here-document, which leaves oldfd open.
ReplaceFails(p) ==
  LET r == redir[ctl[p].node]
  IN /\ \/ RedirectFailsForked(p) /\ Closes(p)
        \/ RedirectFailsInPlace(p) /\ HasTable(p, IF r.opens THEN fds[p] ELSE WithOld(p))
     /\ r.opens \/ (r.onto = "here" /\ ~RoomForPipe(WithOld(p)))
     /\ UNCHANGED tty

\* Fault: the copy is closed and not put back.
PutNothingBack(p) ==
  LET o == Head(oldfds[p])
  IN /\ oldfds' = [oldfds EXCEPT ![p] = Tail(@)]
     /\ fds' = [fds EXCEPT ![p] = Close(@, o.oldfd)]
     /\ UNCHANGED lost

\* dup2(oldfd, fd), close(oldfd); but only if parse_ast has not returned 0.
PutBack(p) ==
  LET o == Head(oldfds[p])
      back == ctl[p].ret # 0
  IN /\ oldfds' = [oldfds EXCEPT ![p] = Tail(@)]
     /\ fds' = [fds EXCEPT ![p] = IF back THEN Close(Dup2(@, o.oldfd, o.fd), o.oldfd) ELSE @]
     /\ lost' = [lost EXCEPT ![p] =
          IF back /\ o.oldfd # -1 /\ ~o.lost THEN @ \ {o.fd} ELSE @ \cup {o.fd}]

LeaveRedirection(p) ==
  /\ \/ ReturnRedir(p) /\ PutBack(p)
     \/ ReturnRedirFork(p) /\ ctl[p].ret = 0 /\ Closes(p)
     \/ ReturnRedirFork(p) /\ ctl[p].ret # 0 /\ PutBack(p)
  /\ UNCHANGED tty

-----------------------------------------------------------------------------
(* Pipelines, and everything else                                          *)

\* pipe: the two lowest free descriptors.
Piped(table, p) == Opened(Opened(table, End(p, "r")), End(p, "w"))

\* Both ends are closed again.
Unpiped(table, p) ==
  [f \in FD |-> IF table[f] \in {End(p, "r"), End(p, "w")} THEN Closed ELSE table[f]]

\* parse_ast_pipe_child: the end a side of the pipe does not use is closed, and the
\* other one moved.
Plumbed(table, p, side) ==
  [Unpiped(table, p) EXCEPT ![side] = End(p, IF side = 1 THEN "w" ELSE "r")]

ForkLeftSide(p, c) ==
  /\ EvalPipe(p, c)
  /\ RoomForPipe(fds[p])
  /\ LET t == Piped(fds[p], p) IN Copies(p, c, t, Plumbed(t, p, 1))

ForkRightSide(p, c) ==
  /\ EvalPipeRight(p, c)
  /\ Copies(p, c, Unpiped(fds[p], p), Plumbed(fds[p], p, 0))

GiveUpPipe(p) ==
  /\ PipeRightForkFails(p)
  /\ HasTable(p, Unpiped(fds[p], p))
  /\ UNCHANGED tty

ForkCopies(p, c) ==
  /\ EvalForkExec(p, c) \/ EvalRedirFork(p, c)
  /\ Copies(p, c, fds[p], fds[p])

\* execve keeps the table, and nothing else.
BecomeProgram(p) ==
  /\ Exec(p)
  /\ oldfds' = [oldfds EXCEPT ![p] = <<>>]
  /\ lost' = [lost EXCEPT ![p] = {}]
  /\ UNCHANGED <<fds, tty>>

Ends(p) ==
  /\ EvalExit(p) \/ EvalFault(p) \/ ProgramExit(p) \/ ReturnToPipeChild(p)
  /\ Closes(p)
  /\ UNCHANGED tty

\* The steps that have nothing to do with descriptors.
Other(p) ==
  /\ \/ EvalNull(p) \/ EvalSemi(p) \/ EvalBuiltin(p) \/ EvalNotFound(p)
     \/ EvalExecInPlace(p) \/ ExecFails(p) \/ EvalForkFails(p) \/ EvalRedirInPlace(p)
     \/ ReapLeft(p) \/ ReapRight(p) \/ ReturnSemiLeft(p) \/ ReturnSemiRight(p)
     \/ \E c \in PID : Reap(p, c)
  /\ UNCHANGED tables

DNext ==
  \/ \E p \in PID :
       \/ BackToPrompt(p) \/ SubmitLine(p) \/ QuitShell(p)
       \/ Replace(p) \/ ReplaceFails(p) \/ LeaveRedirection(p)
       \/ GiveUpPipe(p) \/ BecomeProgram(p) \/ Ends(p) \/ Other(p)
       \/ \E c \in PID : ForkLeftSide(p, c) \/ ForkRightSide(p, c) \/ ForkCopies(p, c)
  \/ Done /\ UNCHANGED tables

DSpec == DInit /\ [][DNext]_dvars

-----------------------------------------------------------------------------
(* Properties                                                              *)

\* Whatever a shell has been through, at its prompt it has the terminal on 0, 1 and
\* 2 and its copies on 3, 4 and 5: the first shell has nothing else, and a nested
\* one keeps files open at most, but no end of a pipe; nor does anybody else hold
\* one.  lost stands for a copy that was not made, the table being full, or not put
\* back: parse_ast_redirection_kernel returns early when the command succeeds.
TablesAtPrompt ==
  \A p \in PID : status[p] = "prompt" /\ ~pipeForkFailed =>
    /\ depth[p] = 0 => fds[p] = AtPrompt
    /\ \A f \in 3 .. 5 : f \notin lost[p] => fds[p][f] = Tty /\ fds[p][f - 3] = Tty
    /\ \A q \in PID, f \in FD : fds[q][f][1] \notin {"r", "w"}

\* What the redirection n does to a table, if it does only what it says.
Applied(n, table) ==
  LET r == redir[n]
  IN [table EXCEPT ![r.fd] = CASE r.onto = "copy" -> table[r.target]
                               [] r.onto = "null" -> Null
                               [] r.onto \in {"file", "here"} -> <<r.onto, n>>]

\* What a caller does to it.
Through(r, table) == IF r.k \in {"redir", "redirFork"} THEN Applied(r.n, table) ELSE table

\* The descriptors that can be redirected.
Low(table) == [f \in 0 .. 5 |-> table[f]]

\* Those that p was forked with: its parent's, with an end of the pipe.
Inherited(p) ==
  LET q == parent[p]
  IN IF base[p] = "main" THEN Low(fds[q])
     ELSE IF pid0[q] = p THEN [Low(fds[q]) EXCEPT ![1] = End(q, "w")]
     ELSE [Low(fds[q]) EXCEPT ![0] = End(q, "r")]

\* Without a descriptor to spare /dev/null cannot be opened, and nobody notices.
NullsOpen(p) ==
  \/ Free(fds[p]) # {}
  \/ \A i \in DOMAIN ctl[p].frames : LET r == ctl[p].frames[i] IN
       r.k \in {"redir", "redirFork"} => redir[r.n].onto # "null"

\* A command finds on its descriptors what its redirections say of those of its
\* shell or pipeline, applied in the order in which they are written, and nothing that
\* copies and files opened on the way have left there.
SeesRedirections ==
  \A p \in PID : status[p] = "exec" /\ NullsOpen(p) /\ ~pipeForkFailed =>
    Low(fds[p]) = FoldRight(Through, ctl[p].frames, Inherited(p))

\* The terminal is raw while a shell reads a line and never while a command runs,
\* also when a nested shell is left with Ctrl-D and the one below goes on.
RawAtPrompt ==
  ~pipeForkFailed /\ (\A p \in PID : lost[p] \cap {0, 3} = {}) =>
    (tty = "raw" <=> \E p \in PID : status[p] = "prompt")

=============================================================================
