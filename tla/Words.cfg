SPECIFICATION FairSpec
CONSTANTS
  Char = {"a", "h", "$", "single", "double", "~", "blank"}
  Dollar = "$"
  SQuote = "single"
  DQuote = "double"
  Tilde = "~"
  Blank = "blank"
  HOME <- MCHome
  Environments <- MCEnvironments
  MaxLen = 6
INVARIANTS
  ExpandsOnce
  MeansWhatIsTyped
PROPERTY
  Finishes
