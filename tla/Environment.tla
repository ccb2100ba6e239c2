----------------------------- MODULE Environment -----------------------------
(***************************************************************************)
(* The environment of 21sh, an array of strings NAME=value, under setenv,  *)
(* unsetenv and cd, and the working directory.                             *)
(*                                                                         *)
(* An entry is found with ft_strcmp(entry, name) == '=', the difference of *)
(* the first two bytes that are not the same.  It is '=' if the entry ends *)
(* its name there and name ends altogether; but it is the same number for  *)
(* two bytes that lie 61 apart, such as 'n' and '1', so that bytes are     *)
(* numbers here.                                                           *)
(***************************************************************************)
EXTENDS Integers, Sequences, FiniteSets, SequencesExt, FiniteSetsExt

CONSTANTS
  Name,              \* what is typed as a name; it may contain an '='
  Value,
  Dir,               \* the values that are directories one may enter
  Environ,           \* the environments the shell may be started with
  PWD, OLDPWD, HOME,
  MaxEntries         \* bound: entries of the array

Equals == 61
Byte == 1 .. 127

Entry(k, v) == k \o <<Equals>> \o v

NameOf(e) == SubSeq(e, 1, Min({i \in DOMAIN e : e[i] = Equals}) - 1)

\* What the shell is started with has an '=' in each string and no name twice.
ASSUME EnvironmentAssumption ==
  /\ {PWD, OLDPWD, HOME} \subseteq Name /\ Name \subseteq Seq(Byte)
  /\ PWD # OLDPWD /\ OLDPWD # HOME /\ HOME # PWD
  /\ Value \subseteq Seq(Byte) /\ Dir \subseteq Value
  /\ \A x \in Environ :
       /\ x \in Seq(Seq(Byte))
       /\ \A i \in DOMAIN x : \E k \in Name, v \in Value : x[i] = Entry(k, v)
       /\ \A i, j \in DOMAIN x : NameOf(x[i]) = NameOf(x[j]) => i = j

VARIABLES
  env,
  cwd,
  previous,  \* auxiliary: the directory before this one
  told,      \* auxiliary: of PWD and OLDPWD, those that cd has set last
  confused   \* auxiliary: a name was taken for another

vars == <<env, cwd, previous, told, confused>>

TypeOK ==
  /\ Len(env) <= MaxEntries
  /\ \A i \in DOMAIN env : \E k \in Name, v \in Value : env[i] = Entry(k, v)
  /\ cwd \in Dir /\ previous \in Dir
  /\ told \subseteq {PWD, OLDPWD}
  /\ confused \in BOOLEAN

\* fill_env copies environ.
Init ==
  /\ env \in Environ
  /\ cwd \in Dir /\ previous = cwd
  /\ told = {}
  /\ confused = FALSE

-----------------------------------------------------------------------------
(* The array                                                               *)

At(s, i) == IF i > Len(s) THEN 0 ELSE s[i]

\* ft_strcmp
Difference(s, t) ==
  LET i == CHOOSE n \in 1 .. Len(s) + 1 :
             /\ At(s, n) # At(t, n) \/ n > Len(s)
             /\ \A m \in 1 .. n - 1 : At(s, m) = At(t, m)
  IN At(s, i) - At(t, i)

IsFound(e, k) == Difference(e, k) = Equals

\* The names that cd uses are made of letters which no byte can be 61 above.
ASSUME DirectoryNames ==
  \A k \in {PWD, OLDPWD, HOME} : \A i \in DOMAIN k : k[i] # Equals /\ k[i] + Equals \notin Byte

Found(table, k) == {i \in DOMAIN table : IsFound(table[i], k)}

\* Fault: set_env_check_existing is not called.
AppendEnv(table, k, v) == Append(table, Entry(k, v))

\* set_env
SetEnv(table, k, v) ==
  IF Found(table, k) = {} THEN Append(table, Entry(k, v))
  ELSE [table EXCEPT ![Min(Found(table, k))] = Entry(k, v)]

\* Fault: the copy stops one entry early instead of leaving one out.
UnsetLast(table, k) ==
  IF Found(table, k) = {} THEN table ELSE RemoveAt(table, Len(table))

\* unset_env
UnsetEnv(table, k) ==
  IF Found(table, k) = {} THEN table
  ELSE RemoveAt(table, Min(Found(table, k)))

\* get_env: what stands behind the first '='.
ValueOf(e) == SubSeq(e, Len(NameOf(e)) + 2, Len(e))

IsSet(k) == Found(env, k) # {}
GetEnv(k) == ValueOf(env[Min(Found(env, k))])

Confuses(k) == \E i \in DOMAIN env : IsFound(env[i], k) /\ NameOf(env[i]) # k

-----------------------------------------------------------------------------
(* The builtins                                                            *)

SetEnvComm(k, v) ==
  /\ env' = SetEnv(env, k, v) /\ Len(env') <= MaxEntries
  /\ confused' = (confused \/ Confuses(k) \/ Equals \in ToSet(k))
  /\ told' = told \ {k}
  /\ UNCHANGED <<cwd, previous>>

UnsetEnvComm(k) ==
  /\ env' = UnsetEnv(env, k)
  /\ confused' = (confused \/ Confuses(k))
  /\ told' = told \ {k}
  /\ UNCHANGED <<cwd, previous>>

\* Fault: OLDPWD is set in any case.
TellAlways(d) == SetEnv(SetEnv(env, OLDPWD, cwd), PWD, d)

\* The end of change_dir: OLDPWD only if the directory is another.
Tell(d) == SetEnv(IF d = cwd THEN env ELSE SetEnv(env, OLDPWD, cwd), PWD, d)

ChangeTo(d) ==
  /\ cwd' = d
  /\ previous' = IF d = cwd THEN previous ELSE cwd
  /\ env' = Tell(d) /\ Len(env') <= MaxEntries
  /\ told' = told \cup {PWD} \cup (IF d = cwd THEN {} ELSE {OLDPWD})
  /\ confused' = (confused \/ \E k \in {PWD, OLDPWD, HOME} : Confuses(k))

\* check_dir_err
ChangeIfDir(v) == ChangeTo(IF v \in Dir THEN v ELSE cwd)

\* cd with a directory, or with two strings one of which replaces the other in
\* the name of the working directory.  That name is put together in memory that
\* has not been cleared and may come out as anything.
ChangeDir(d) == ChangeTo(d)

\* cd with something else, with too many arguments, or without a variable it needs.
ChangeDirFails == ChangeTo(cwd)

ChangeDirHome == IF IsSet(HOME) THEN ChangeIfDir(GetEnv(HOME)) ELSE ChangeTo(cwd)

\* cd -
ChangeDirBack == IF IsSet(OLDPWD) THEN ChangeIfDir(GetEnv(OLDPWD)) ELSE ChangeTo(cwd)

Next ==
  \/ \E k \in Name, v \in Value : SetEnvComm(k, v)
  \/ \E k \in Name : UnsetEnvComm(k)
  \/ \E d \in Dir : ChangeDir(d)
  \/ ChangeDirFails \/ ChangeDirHome \/ ChangeDirBack

Spec == Init /\ [][Next]_vars

-----------------------------------------------------------------------------
(* Properties                                                              *)

\* No name has two entries, so that unsetenv leaves none behind; unless one name
\* was taken for another and overwritten.
NamesUnique ==
  ~confused => \A i, j \in DOMAIN env : NameOf(env[i]) = NameOf(env[j]) => i = j

\* Whatever else is set and unset, PWD is the working directory and OLDPWD the one
\* before, once cd has set them and until somebody else does.
DirectoriesKnown ==
  ~confused =>
    /\ PWD \in told => IsSet(PWD) /\ GetEnv(PWD) = cwd
    /\ OLDPWD \in told => IsSet(OLDPWD) /\ GetEnv(OLDPWD) = previous

\* The variables as one reads them in the array.
Listed == [k \in {NameOf(env[i]) : i \in DOMAIN env} |->
             ValueOf(env[Min({i \in DOMAIN env : NameOf(env[i]) = k})])]

Promise == INSTANCE Variables WITH value <- Listed

\* setenv changes the one variable it names, unsetenv removes it and no other, and
\* cd changes the two that follow the directory: for the other variables each
\* command is as if it had not been.
AsPromised ==
  [][~confused' =>
       /\ \A k \in Name, v \in Value : SetEnvComm(k, v) => Promise!Set(k, v)
       /\ \A k \in Name : UnsetEnvComm(k) => Promise!Unset(k)
       /\ \A d \in Dir : ChangeDir(d) => Promise!Go(d)
       /\ ChangeDirFails => Promise!Go(cwd)
       /\ ChangeDirHome => Promise!GoTo(HOME)
       /\ ChangeDirBack => Promise!GoTo(OLDPWD)]_vars

=============================================================================
