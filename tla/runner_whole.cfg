\* Files that fit in one readlines chunk: the spec's rules hold exactly.
CONSTANTS
  Exts <- MCExts
  Bodies <- MCBodies
  Terms = {"LF"}
  Hint = 100
  MaxLines = 4
  NumFiles = 2
SPECIFICATION Spec
INVARIANT TypeOK
PROPERTY EmptyLinesExact BlockCommentExact
CHECK_DEADLOCK FALSE
