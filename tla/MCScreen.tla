------------------------------ MODULE MCScreen ------------------------------
(* A letter, a wide character and a newline.  The history brings lines that *)
(* fill rows of their own, or that do not fit into the window.  A part of   *)
(* any of them is one that keys have left.                                 *)
EXTENDS Screen

MCChar == {"a", "wide", "newline"}
FullRows ==
  {<<"a", "a", "newline", "a", "newline">>, <<"newline", "a", "a", "a", "a">>,
   <<"newline", "newline", "newline", "newline", "newline">>}

=============================================================================
