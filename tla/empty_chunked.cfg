\* A file cut into two readlines chunks (Hint scaled down from 100000).
CONSTANTS
  Exts <- MCExts
  Bodies <- MCBodies
  Terms = {"LF"}
  Hint = 3
  MaxLines = 5
  NumFiles = 1
SPECIFICATION Spec
PROPERTY EmptyLinesExact
CHECK_DEADLOCK FALSE
