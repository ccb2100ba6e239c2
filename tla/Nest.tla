--------------------------------- MODULE Nest ---------------------------------
(***************************************************************************)
(* What the processes of 21sh are to be to their user: shells inside of    *)
(* shells, of which the innermost alone is active.  A new shell is always  *)
(* one inside the active one, which must then rest; only the innermost may *)
(* end, and then the one around it goes on, when whatever it has become    *)
(* (a program, perhaps) is over.                                           *)
(*                                                                         *)
(* ShellExec implements it, until a pipeline has lost its second fork.     *)
(***************************************************************************)
EXTENDS Naturals

CONSTANT Process

VARIABLES
  level,   \* how many shells there are around each shell
  active,  \* the shell that does something, if one does
  ok       \* the promise is still made

vars == <<level, active, ok>>

Nested == DOMAIN level

TypeOK ==
  /\ Nested \subseteq Process /\ level \in [Nested -> Nat]
  /\ active \subseteq Nested
  /\ ok \in BOOLEAN

Innermost(p) == p \in Nested /\ \A q \in Nested \ {p} : level[q] < level[p]

Init ==
  /\ \E p \in Process : level = [q \in {p} |-> 0] /\ active = {p}
  /\ ok = TRUE

\* A shell begins another one inside of itself.
Enter(p, c) ==
  /\ active = {p} /\ Innermost(p)
  /\ c \in Process \ Nested
  /\ level' = [q \in Nested \cup {c} |-> IF q = c THEN level[p] + 1 ELSE level[q]]
  /\ active' = {c}

\* It ends, or becomes something that is not a shell.
Leave(p) ==
  /\ active = {p} /\ Innermost(p)
  /\ level' = [q \in Nested \ {p} |-> level[q]]
  /\ active' = {}

\* The shell around it goes on.
Resume(p) ==
  /\ active = {} /\ Innermost(p)
  /\ active' = {p}
  /\ UNCHANGED level

Next ==
  ok' => /\ ok
         /\ \E p \in Process : Leave(p) \/ Resume(p) \/ \E c \in Process : Enter(p, c)

Spec == Init /\ [][Next]_vars

=============================================================================
