---------------------------- MODULE MCEnvironment ----------------------------
(* Names of one letter, and two that are taken for each other because 'n'  *)
(* and '1' lie 61 apart.                                                   *)
EXTENDS Environment

P == <<80>>
O == <<79>>
H == <<72>>
A1 == <<97, 49>>
An == <<97, 110>>
Root == <<47>>
Home == <<47, 97>>

MCName == {P, O, H, A1, An}
MCDir == {Root, Home}
MCValue == MCDir \cup {<<>>}
MCEnviron == {<<>>, <<Entry(P, Root), Entry(A1, <<>>), Entry(H, Home)>>}

=============================================================================
