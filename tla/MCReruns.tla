------------------------------- MODULE MCReruns -------------------------------
(***************************************************************************)
(* The command lines of MCShellExec with what their redirections do.       *)
(***************************************************************************)
EXTENDS MCShellExec, Reruns

MCredir == [n \in {m \in MCNode : AST[m].k = "redirection"} |-> AST[n].x]

=============================================================================
