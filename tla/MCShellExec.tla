----------------------------- MODULE MCShellExec -----------------------------
(***************************************************************************)
(* Command lines for the model checker: a forest of syntax trees, one      *)
(* record per node, children by index, 0 for NULL.  Of the redirections of *)
(* a command the one written first is outermost, as create_redirection_ast *)
(* looks for the first.                                                    *)
(***************************************************************************)
EXTENDS ShellExec, TLC

Command(w) == [k |-> "command", w |-> w, l |-> 0, r |-> 0]
Tree(k, l, r) == [k |-> k, w |-> "builtin", l |-> l, r |-> r]

\* x is what Descriptors wants to know of a redirection.
Redir(l, fd, onto, target) ==
  [k |-> "redirection", w |-> "builtin", l |-> l, r |-> 0,
   x |-> [fd |-> fd, onto |-> onto, opens |-> onto = "file", target |-> target]]

AST == <<
  Command("external"),          \*  1  ls
  Command("builtin"),           \*  2  cd
  Command("exit"),              \*  3  exit
  Command("fault"),             \*  4  the empty command of "<< eof"
  Redir(1, 1, "file", 0),       \*  5  ls > f
  Redir(2, 3, "file", 0),       \*  6  cd 3> f
  Redir(6, 1, "file", 0),       \*  7  cd > g 3> f
  Redir(4, 0, "here", 0),       \*  8  << eof
  Tree("pipe", 1, 1),           \*  9  ls | ls
  Tree("pipe", 1, 5),           \* 10  ls | ls > f
  Tree("pipe", 9, 2),           \* 11  ls | ls | cd
  Tree("semi", 5, 2),           \* 12  ls > f ; cd
  Tree("semi", 0, 7),           \* 13  ; cd > g 3> f
  Tree("semi", 9, 1),           \* 14  ls | ls ; ls
  Redir(3, 2, "null", 0),       \* 15  exit 2>&-
  Tree("pipe", 7, 3),           \* 16  cd > g 3> f | exit
  Redir(5, 2, "copy", 1),       \* 17  ls 2>&1 > f
  Tree("semi", 12, 1),          \* 18  ls > f ; cd ; ls
  Redir(1, 2, "copy", 1),       \* 19  ls 2>&1
  Redir(19, 1, "file", 0),      \* 20  ls > f 2>&1
  Redir(2, 1, "file", 0),       \* 21  cd > g
  Redir(21, 3, "file", 0)       \* 22  cd 3> f > g
  >>

MCNode == 1 .. Len(AST)
MCkind == [n \in MCNode |-> AST[n].k]
MCword == [n \in MCNode |-> AST[n].w]
MCleft == [n \in MCNode |-> AST[n].l]
MCright == [n \in MCNode |-> AST[n].r]

\* Every shape of line.
AllLines == {3, 4, 8, 10, 11, 13, 14, 15, 16, 17, 18, 20, 22}

\* A few, for the temporal properties.
SomeLines == {1, 3, 4, 9, 12, 13}

CONSTANTS p1, p2, p3, p4, p5
MCPID == {p1, p2, p3, p4, p5}
\* For the temporal properties: a pipeline and a nested shell still fit.
FewPID == {p1, p2, p3, p4}

Symmetry == Permutations(MCPID \ {Root})

=============================================================================
