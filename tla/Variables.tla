------------------------------ MODULE Variables ------------------------------
(***************************************************************************)
(* What setenv, unsetenv and cd promise: variables are a function from     *)
(* names to values, and two of them follow the working directory.          *)
(* Environment, an array of strings searched with ft_strcmp, implements it *)
(* as long as no name is taken for another.                                *)
(***************************************************************************)
EXTENDS Functions

CONSTANTS
  Name,
  Value,
  Dir,                \* those values that are directories
  PWD, OLDPWD, HOME   \* names

VARIABLES
  value,  \* the variables that are set, and their values
  cwd

vars == <<value, cwd>>

TypeOK ==
  /\ DOMAIN value \subseteq Name /\ Range(value) \subseteq Value
  /\ cwd \in Dir

With(f, n, v) == [k \in DOMAIN f \cup {n} |-> IF k = n THEN v ELSE f[k]]

Set(n, v) == value' = With(value, n, v) /\ UNCHANGED cwd

Unset(n) == value' = [k \in DOMAIN value \ {n} |-> value[k]] /\ UNCHANGED cwd

\* OLDPWD remembers a directory that is left; PWD is set in any case.
Go(d) ==
  /\ cwd' = d
  /\ value' = With(IF d = cwd THEN value ELSE With(value, OLDPWD, cwd), PWD, d)

\* To the directory a variable names, or nowhere.
GoTo(n) ==
  IF n \in DOMAIN value /\ value[n] \in Dir THEN Go(value[n]) ELSE Go(cwd)

Next ==
  \/ \E n \in Name, v \in Value : Set(n, v)
  \/ \E n \in Name : Unset(n)
  \/ \E d \in Dir : Go(d)
  \/ GoTo(HOME) \/ GoTo(OLDPWD)

=============================================================================
