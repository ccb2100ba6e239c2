SPECIFICATION RSpec
CONSTANTS
  p1 = p1
  p2 = p2
  p3 = p3
  p4 = p4
  p5 = p5
  PID <- MCPID
  Root = p1
  NoPid = NoPid
  Node <- MCNode
  NoNode = 0
  kind <- MCkind
  word <- MCword
  left <- MCleft
  right <- MCright
  Lines <- AllLines
  MaxLines = 2
  MaxFd = 9
  redir <- MCredir
SYMMETRY Symmetry
INVARIANTS
  PromptAlone
  WaitHasChild
  ReturnsAsBigStep
  TablesAtPrompt
  SeesRedirections
  RawAtPrompt
  EachOnce
PROPERTY
  ShellsNest
