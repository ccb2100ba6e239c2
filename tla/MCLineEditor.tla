---------------------------- MODULE MCLineEditor ----------------------------
(***************************************************************************)
(* Bytes for the model checker: a letter, the space, and two bytes that    *)
(* make up a third character.                                              *)
(***************************************************************************)
EXTENDS LineEditor

MCLetter == {<<"a">>, <<" ">>, <<"lead", "cont">>}

\* Commands that were typed before; Delete has torn the second.
MCRecalled == {<<"lead", "cont", " ", "a">>, <<"cont", "a">>}

=============================================================================
