\* Files cut into several readlines chunks (Hint scaled down from 100000).
CONSTANTS
  Exts <- MCExts
  Bodies <- MCBodies
  Terms = {"LF"}
  Hint = 6
  MaxLines = 6
  NumFiles = 1
SPECIFICATION Spec
INVARIANT EmptyLinesSound
PROPERTY BlockCommentSound
CHECK_DEADLOCK FALSE
