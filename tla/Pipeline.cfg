SPECIFICATION FairSpec
CONSTANTS
  N = 3
  MaxFd = 8
  Capacity = 2
  Input = 3
  Document = 2
  Plans <- MCPlans
INVARIANTS
  EndsMeanEnds
  ShellClean
  WholeOutput
PROPERTY
  Completes
