SPECIFICATION FairSpec
CONSTANTS
  p1 = p1
  p2 = p2
  p3 = p3
  p4 = p4
  p5 = p5
  PID <- FewPID
  Root = p1
  NoPid = NoPid
  Node <- MCNode
  NoNode = 0
  kind <- MCkind
  word <- MCword
  left <- MCleft
  right <- MCright
  Lines <- SomeLines
  MaxLines = 2
PROPERTIES
  Responsive
  ZombiesReaped
