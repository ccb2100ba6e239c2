SPECIFICATION Spec
CONSTANTS
  Name <- MCName
  Value <- MCValue
  Dir <- MCDir
  Environ <- MCEnviron
  PWD <- P
  OLDPWD <- O
  HOME <- H
  MaxEntries = 3
INVARIANTS
  NamesUnique
  DirectoriesKnown
PROPERTY
  AsPromised
