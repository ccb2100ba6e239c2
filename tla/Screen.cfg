SPECIFICATION Spec
CONSTANTS
  Char <- MCChar
  Wide = {"wide"}
  Newline = "newline"
  ws_col = 5
  ws_row = 4
  Recalled <- FullRows
  PromptCols = {3, 4}
  MaxLen = 5
  MaxDrift = 3
INVARIANTS
  CursorTrue
PROPERTIES
  PrintsInPlace
  RowsKeepColumn
