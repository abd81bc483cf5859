--------------------------- MODULE MCCheckRunner ---------------------------
(***************************************************************************)
(* Model values for CheckRunner: a handful of line texts that exercise    *)
(* every stateful check and the category dispatch.                        *)
(***************************************************************************)
EXTENDS CheckRunner

\* ""      : an empty line
\* "x"     : a plain line
\* "/*"    : opens a block comment
\* "*/"    : closes one
\* "x "    : trailing space
\* "//"    : a C++ comment (reported in c files, not in m4 or py)
\* 80 wide : wider than max_x of c, m4 and py
\* len only feeds readlines' size count, which the runs scale down with
\* Hint (100000 in the code), so every line has a small len; width is the
\* real expanded width that check_xy_max compares with max_x.
MCBodies ==
  {[len |-> 0, last |-> "none",  open |-> FALSE, close |-> FALSE, width |-> 0,  flags |-> {}],
   [len |-> 1, last |-> "other", open |-> FALSE, close |-> FALSE, width |-> 1,  flags |-> {}],
   [len |-> 2, last |-> "other", open |-> TRUE,  close |-> FALSE, width |-> 2,  flags |-> {}],
   [len |-> 2, last |-> "other", open |-> FALSE, close |-> TRUE,  width |-> 2,  flags |-> {}],
   [len |-> 2, last |-> "space", open |-> FALSE, close |-> FALSE, width |-> 2,  flags |-> {}],
   [len |-> 2, last |-> "other", open |-> FALSE, close |-> FALSE, width |-> 2,  flags |-> {"cpp_comment"}],
   [len |-> 2, last |-> "other", open |-> FALSE, close |-> FALSE, width |-> 80, flags |-> {}]}

MCExts == {"c", "m4", "py"}
=============================================================================
