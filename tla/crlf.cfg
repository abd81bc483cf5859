\* Files written with "\r\n" line endings.
CONSTANTS
  Exts <- MCExts
  Bodies <- MCBodies
  Terms = {"LF", "CRLF"}
  Hint = 100
  MaxLines = 2
  NumFiles = 1
SPECIFICATION Spec
PROPERTY CRLFFlagged
CHECK_DEADLOCK FALSE
