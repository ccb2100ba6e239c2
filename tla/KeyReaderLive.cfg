SPECIFICATION FairSpec
CONSTANTS
  Byte <- MCByte
  Extra <- MCExtra
  Cont = {"cont"}
  Control <- MCControl
  Esc = "esc"
  Newline = "newline"
  EOT = "EOT"
  Command <- MCCommand
  Key <- MCKey
  Reply <- MCReply
  READING_SIZE = 5
  MaxKeys = 2
  MaxResizes = 2
  MaxInterrupts = 1
  MaxPrompts = 2
PROPERTY
  QuestionEnds
CHECK_DEADLOCK FALSE
