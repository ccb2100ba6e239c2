------------------------------ MODULE MCHistory ------------------------------
(***************************************************************************)
(* Pieces for the model checker: the empty one, and one of each nature     *)
(* but plain.  A line with a "<<" may do all that a plain line does, as it *)
(* goes straight back to main's prompt if it is found in error.            *)
(***************************************************************************)
EXTENDS History

MCnature == [t \in Text |->
  CASE t \in {"", " "} -> "blank"
    [] t = "'" -> "quote"
    [] t = "|" -> "pipe"
    [] t = "<<" -> "heredoc"]
=============================================================================
