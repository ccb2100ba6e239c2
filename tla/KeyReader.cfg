SPECIFICATION Spec
CONSTANTS
  Byte <- MCByte
  Extra <- MCExtra
  Cont = {"cont"}
  Control <- MCControl
  Esc = "esc"
  Newline = "newline"
  EOT = "EOT"
  Command <- MCCommand
  Key <- MCKey
  Reply <- MCReply
  READING_SIZE = 5
  MaxKeys = 3
  MaxResizes = 2
  MaxInterrupts = 1
  MaxPrompts = 2
INVARIANTS
  KeysInOrder
  InterruptsPaid
  SizeKnown
  CursorKnown
CHECK_DEADLOCK FALSE
