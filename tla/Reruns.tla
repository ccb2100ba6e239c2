-------------------------------- MODULE Reruns --------------------------------
(***************************************************************************)
(* How often the right part of a ';' is run.  A process that a failed      *)
(* command leaves behind as a nested shell was forked in the middle of a   *)
(* line, with the callers of parse_ast on its stack: it goes on with the   *)
(* rest of that line, and so does its parent when it has quit.             *)
(*                                                                         *)
(* line and log are history variables beside those of Descriptors.         *)
(***************************************************************************)
EXTENDS Descriptors

VARIABLES
  line,  \* the line that each process is in: its number, 0 before the first
  log    \* of each line: its tree, the depth of the shell it was typed at, and
         \* for each ';' how often its right part was begun and how many forked
         \* children have returned from its left part instead of exiting

rvars == <<dvars, line, log>>

Semi == {n \in Node : kind[n] = "semi"}

\* The semicolons of a tree: they are at its top.
SemisOf[n \in Node \cup {NoNode}] ==
  IF n \in Semi THEN {n} \cup SemisOf[left[n]] \cup SemisOf[right[n]] ELSE {}

\* A line is a list to the left: a ';' is the left part of the next one.
ASSUME SemiAssumption ==
  \A n \in Semi : right[n] \notin Semi /\ SemisOf[left[n]] \subseteq Semi \ {n}

RTypeOK ==
  /\ line \in [PID -> 0 .. Len(log)]
  /\ log \in Seq([root : Lines, level : Nat, runs : [Semi -> Nat], stayed : [Semi -> Nat]])
  /\ Len(log) = typed

RInit ==
  /\ DInit
  /\ line = [p \in PID |-> 0]
  /\ log = <<>>

\* The semicolons whose right part p has still to run.
Pending(p) == {ctl[p].frames[i].n : i \in {j \in DOMAIN ctl[p].frames :
                                             ctl[p].frames[j].k = "semiLeft"}}

\* A line is typed.
Begin(p) ==
  /\ Submit(p)
  /\ line' = [line EXCEPT ![p] = Len(log) + 1]
  /\ log' = Append(log, [root |-> ctl'[p].node, level |-> depth[p],
                         runs |-> [n \in Semi |-> 0], stayed |-> [n \in Semi |-> 0]])

\* A right part is begun.
Rerun(p) ==
  /\ ReturnSemiLeft(p)
  /\ log' = [log EXCEPT ![line[p]].runs[Head(ctl[p].frames).n] = @ + 1]
  /\ UNCHANGED line

\* A forked child comes back to its parent's callers: parse_ast_redirection_child has
\* returned 1, or ft_exec_fork -1.
Stays(p) ==
  \/ ReturnRedirFork(p) /\ ctl[p].ret # 0
  \/ ExecFails(p) /\ ctl[p].needfork

Stay(p) ==
  /\ Stays(p)
  /\ log' = [log EXCEPT ![line[p]].stayed =
               [n \in Semi |-> IF n \in Pending(p) THEN @[n] + 1 ELSE @[n]]]
  /\ UNCHANGED line

ForkLine(p, c) ==
  /\ Forks(p, c)
  /\ line' = [line EXCEPT ![c] = line[p]]
  /\ UNCHANGED log

\* The dead are in no line.
DropLine(p) ==
  /\ Live(p) /\ ~Live(p)'
  /\ line' = [line EXCEPT ![p] = 0]
  /\ UNCHANGED log

Elsewhere ==
  /\ \A p \in PID : ~Submit(p) /\ ~ReturnSemiLeft(p) /\ ~Stays(p)
  /\ \A p, c \in PID : ~Forks(p, c)
  /\ \A p \in PID : Live(p) => Live(p)'
  /\ UNCHANGED <<line, log>>

RNext ==
  /\ DNext
  /\ \/ \E p \in PID : Begin(p) \/ Rerun(p) \/ Stay(p) \/ DropLine(p)
     \/ \E p, c \in PID : ForkLine(p, c)
     \/ Elsewhere

RSpec == RInit /\ [][RNext]_rvars

\* Back at the prompt where a line was typed, the right part of each ';' has been run
\* once, and once again for each nested shell that was left behind in the left part,
\* no matter what has failed in between and who has died or been waited for: no
\* command is skipped, and none is repeated for another reason.
EachOnce ==
  \A p \in PID : status[p] = "prompt" /\ line[p] > 0 /\ ~pipeForkFailed =>
    LET l == log[line[p]]
    IN depth[p] = l.level =>
         \A n \in SemisOf[l.root] : l.runs[n] = l.stayed[n] + 1

=============================================================================
