---------------------------- MODULE CheckRunner ----------------------------
(***************************************************************************)
(* The check runner of ccheck (src/test/ccheck.py): parse_file reading a   *)
(* file in chunks of f.readlines(100000), process_line running the common *)
(* checks, the category's checks and check_xy_max on each line, error()   *)
(* counting diagnostics, and the instance fields that carry state from    *)
(* line to line and from file to file (empty_lines_count, cc_count,       *)
(* cur_lineno).  Files are parsed one after the other, in any category of *)
(* Exts, as the traversal hands them over.                                *)
(*                                                                         *)
(* A line is abstracted to what the checks tell apart: its length, its    *)
(* last character, whether it contains "/*" and "*/", its width after     *)
(* expandtabs, and the messages its content draws from the stateless      *)
(* regular-expression checks.                                              *)
(***************************************************************************)
EXTENDS Naturals, Sequences, FiniteSets, CategoryTable

CONSTANTS
  Exts,      \* categories of the files handed to parse_file
  Bodies,    \* the line texts a file may contain (abstracted, see BodyType)
  Terms,     \* the line terminators a file may use on disk
  Hint,      \* the size hint of f.readlines (100000 in the code)
  MaxLines,  \* bound: lines per file
  NumFiles   \* bound: files parsed in one run

\* The diagnostics, one per message the code's error() calls print.
Msgs == {"trailing_space", "trailing_tab", "empty_lines", "double_semicolon",
         "space_before_term", "hex_upper", "pre_increment", "pre_decrement",
         "not_unix", "no_space_after_operator", "else_bracket",
         "cpp_comment", "c_comment", "indent_tab", "indent_space", "too_wide"}

\* The messages decided by a line's text alone, through the regular
\* expressions and slices of the stateless checks.
LineFlags == {"double_semicolon", "space_before_term", "hex_upper",
              "pre_increment", "pre_decrement", "no_space_after_operator",
              "else_bracket", "cpp_comment", "indent_tab", "indent_space"}

\* line[-1] as the checks see it.  Python's open() reads in universal
\* newline mode, where "\r" is a line terminator, so a text between two
\* terminators never contains a carriage return.
LastChars == {"none", "space", "tab", "other"}

BodyType == [len: Nat, last: LastChars, open: BOOLEAN, close: BOOLEAN,
             width: Nat, flags: SUBSET LineFlags]

ASSUME RunnerAssumption ==
  /\ Exts \subseteq DOMAIN funcmap
  /\ Bodies \subseteq BodyType
  /\ \A b \in Bodies : (b.len = 0) <=> (b.last = "none")
  /\ Terms \subseteq {"LF", "CRLF", "CR"}
  /\ Hint \in Nat \ {0}
  /\ MaxLines \in Nat
  /\ NumFiles \in Nat

\* A line on disk: its text and its terminator.
Lines == [body: Bodies, term: Terms]

NoExt == "none"

\* The value of line before the first line is processed.
NoLine == [body |-> [len |-> 0, last |-> "none", open |-> FALSE, close |-> FALSE,
                     width |-> 0, flags |-> {}],
           term |-> "none"]

-----------------------------------------------------------------------------
(* Reading.                                                                *)

\* The string the file iterator yields for a line: the text and one "\n",
\* whatever the terminator on disk was ("\r\n" and "\r" are translated).
ReadLen(l) == l.body.len + 1

\* The line process_line works on: line.rstrip('\n') of what was read.
ReadText(l) == l.body

\* Characters in the first k lines of s.
PrefixLen(s, k) ==
  LET f[i \in 0..k] == IF i = 0 THEN 0 ELSE f[i - 1] + ReadLen(s[i])
  IN  f[k]

\* The non-empty results f.readlines(Hint) can return when at most n lines
\* are left: it appends lines until their total length exceeds Hint or the
\* file ends, so every line but the last fits within Hint.
Chunks(n) ==
  {s \in UNION {[1..k -> Lines] : k \in 1..n} :
      PrefixLen(s, Len(s) - 1) <= Hint}

-----------------------------------------------------------------------------
(* The checks.  Each takes the line text b and returns its diagnostics;   *)
(* the two stateful ones also return the new value of their counter.      *)

(* Mutants: plausible slips in the two stateful checks, each defined     *)
(* with the parameters of the check it replaces.                          *)

\* check_whitespace without the "if self.cur_lineno == 1" reset.
check_whitespace_noreset(b, lineno, elc) ==
  LET e1 == IF b.len = 0 THEN elc + 1 ELSE 0
  IN  [out   |-> (IF b.len > 0 /\ b.last = "space" THEN {"trailing_space"} ELSE {})
                 \cup (IF b.len > 0 /\ b.last = "tab" THEN {"trailing_tab"} ELSE {})
                 \cup (IF e1 > 2 THEN {"empty_lines"} ELSE {}),
       count |-> IF e1 > 2 THEN 0 ELSE e1]

\* check_whitespace firing at "> 1" instead of "> 2".
check_whitespace_offbyone(b, lineno, elc) ==
  LET e0 == IF lineno = 1 THEN 0 ELSE elc
      e1 == IF b.len = 0 THEN e0 + 1 ELSE 0
  IN  [out   |-> (IF b.len > 0 /\ b.last = "space" THEN {"trailing_space"} ELSE {})
                 \cup (IF b.len > 0 /\ b.last = "tab" THEN {"trailing_tab"} ELSE {})
                 \cup (IF e1 > 1 THEN {"empty_lines"} ELSE {}),
       count |-> IF e1 > 1 THEN 0 ELSE e1]

\* check_c_comments without the reset at line 1.
check_c_comments_noreset(b, lineno, cc) ==
  LET c1 == IF b.open THEN cc + 1 ELSE cc
  IN  [out   |-> IF b.close /\ c1 > 0 THEN {"c_comment"} ELSE {},
       count |-> IF b.close THEN 0 ELSE c1]

\* check_c_comments that does not zero cc_count on "*/".
check_c_comments_keep(b, lineno, cc) ==
  LET c0 == IF lineno = 1 THEN 0 ELSE cc
      c1 == IF b.open THEN c0 + 1 ELSE c0
  IN  [out   |-> IF b.close /\ c1 > 0 THEN {"c_comment"} ELSE {},
       count |-> c1]

\* check_c_comments that closes one level on "*/" instead of zeroing.
check_c_comments_decr(b, lineno, cc) ==
  LET c0 == IF lineno = 1 THEN 0 ELSE cc
      c1 == IF b.open THEN c0 + 1 ELSE c0
  IN  [out   |-> IF b.close /\ c1 > 0 THEN {"c_comment"} ELSE {},
       count |-> IF b.close THEN c1 - 1 ELSE c1]

\* check_whitespace: trailing space or tab, and the empty-line streak that
\* is zeroed at line 1, fires above 2 and is zeroed when it fires.
check_whitespace(b, lineno, elc) ==
  LET e0 == IF lineno = 1 THEN 0 ELSE elc
      e1 == IF b.len = 0 THEN e0 + 1 ELSE 0
  IN  [out   |-> (IF b.len > 0 /\ b.last = "space" THEN {"trailing_space"} ELSE {})
                 \cup (IF b.len > 0 /\ b.last = "tab" THEN {"trailing_tab"} ELSE {})
                 \cup (IF e1 > 2 THEN {"empty_lines"} ELSE {}),
       count |-> IF e1 > 2 THEN 0 ELSE e1]

\* check_c_comments: cc_count is zeroed at line 1, counts a line with
\* "/*", and a line with "*/" fires when it is positive and zeroes it.
check_c_comments(b, lineno, cc) ==
  LET c0 == IF lineno = 1 THEN 0 ELSE cc
      c1 == IF b.open THEN c0 + 1 ELSE c0
  IN  [out   |-> IF b.close /\ c1 > 0 THEN {"c_comment"} ELSE {},
       count |-> IF b.close THEN 0 ELSE c1]

\* check_file_unix: the last character is a carriage return.
check_file_unix(b) == IF b.len >= 1 /\ b.last = "cr" THEN {"not_unix"} ELSE {}

\* check_xy_max: width after expandtabs above the category's max_x.
check_xy_max(b, max_x) == IF b.width > max_x THEN {"too_wide"} ELSE {}

\* The stateless checks, whose regular expressions the body's flags record.
check_termination(b)    == b.flags \cap {"double_semicolon", "space_before_term"}
check_hex_lowercase(b)  == b.flags \cap {"hex_upper"}
check_pre_incr(b)       == b.flags \cap {"pre_increment", "pre_decrement"}
check_brackets(b)       == b.flags \cap {"no_space_after_operator", "else_bracket"}
check_c_preprocessor(b) == b.flags \cap {"cpp_comment"}
check_indent_tab(b)     == b.flags \cap {"indent_tab"}
check_indent_space(b)   == b.flags \cap {"indent_space"}

\* What each call "func(line, line_len)" of process_line reports, by
\* check, given what the two stateful checks report on the line (ws, cm).
CheckResults(b, ws, cm) ==
  [check_whitespace     |-> ws,
   check_termination    |-> check_termination(b),
   check_hex_lowercase  |-> check_hex_lowercase(b),
   check_pre_incr       |-> check_pre_incr(b),
   check_file_unix      |-> check_file_unix(b),
   check_brackets       |-> check_brackets(b),
   check_c_preprocessor |-> check_c_preprocessor(b),
   check_c_comments     |-> cm,
   check_indent_tab     |-> check_indent_tab(b),
   check_indent_space   |-> check_indent_space(b)]

\* process_line for a file of category e: every check of the category on
\* the line, whatever the earlier ones reported, then check_xy_max.
process_line(e, b, lineno, elc, cc) ==
  LET ws == check_whitespace(b, lineno, elc)
      cm == check_c_comments(b, lineno, cc)
  IN  [out   |-> (UNION {CheckResults(b, ws.out, cm.out)[chk] : chk \in ChecksOf(e)})
                   \cup check_xy_max(b, maxsize[e][1]),
       empty |-> ws.count,
       cc    |-> IF "check_c_comments" \in ChecksOf(e) THEN cm.count ELSE cc]

-----------------------------------------------------------------------------
VARIABLES
  errors,             \* self.errors
  cur_lineno,         \* self.cur_lineno
  empty_lines_count,  \* self.empty_lines_count
  cc_count,           \* self.cc_count
  ext,                \* category of the file being parsed, NoExt between files
  started,            \* files handed to parse_file so far
  chunk,              \* lines of the last readlines result not yet processed
  eof,                \* the last readlines result ended the file
  line,               \* the line processed last
  out,                \* diagnostics error() printed for that line
  nread,              \* lines of the current file read so far
  lineIdx,            \* ghost: position of the last processed line in its file
  gRun,               \* ghost: empty lines ending at that line, in its file
  gOpen               \* ghost: a "/*" line since the last "*/" line, in its file

vars == <<errors, cur_lineno, empty_lines_count, cc_count, ext, started,
          chunk, eof, line, out, nread, lineIdx, gRun, gOpen>>

\* ccheck.__init__: no errors, no file, both counters zero.
Init ==
  /\ errors = 0
  /\ cur_lineno = 0
  /\ empty_lines_count = 0
  /\ cc_count = 0
  /\ ext = NoExt
  /\ started = 0
  /\ chunk = <<>>
  /\ eof = FALSE
  /\ line = NoLine
  /\ out = {}
  /\ nread = 0
  /\ lineIdx = 0
  /\ gRun = 0
  /\ gOpen = FALSE

\* parse_file(filename, e): take funcmap[e] and open the file.  The
\* instance fields keep what the previous file left in them.
StartFile(e) ==
  /\ ext = NoExt
  /\ started < NumFiles
  /\ ext' = e
  /\ started' = started + 1
  /\ chunk' = <<>>
  /\ eof' = FALSE
  /\ out' = {}
  /\ nread' = 0
  /\ lineIdx' = 0
  /\ gRun' = 0
  /\ gOpen' = FALSE
  /\ UNCHANGED <<errors, cur_lineno, empty_lines_count, cc_count, line>>

\* lines = f.readlines(100000) returns lines: cur_lineno restarts at 0.
ReadChunk ==
  /\ ext # NoExt
  /\ chunk = <<>>
  /\ ~eof
  /\ \E c \in Chunks(MaxLines - nread) :
       /\ chunk' = c
       /\ nread' = nread + Len(c)
       /\ eof' = (PrefixLen(c, Len(c)) <= Hint)
  /\ cur_lineno' = 0
  /\ out' = {}
  /\ UNCHANGED <<errors, empty_lines_count, cc_count, ext, started, line,
                 lineIdx, gRun, gOpen>>

\* readlines returns []: the loop breaks and parse_file returns.
EndFile ==
  /\ ext # NoExt
  /\ chunk = <<>>
  /\ ext' = NoExt
  /\ out' = {}
  /\ UNCHANGED <<errors, cur_lineno, empty_lines_count, cc_count, started,
                 chunk, eof, line, nread, lineIdx, gRun, gOpen>>

\* One iteration of "for line in lines": cur_lineno += 1, process_line,
\* error() once per diagnostic.
ProcessLine ==
  /\ ext # NoExt
  /\ chunk # <<>>
  /\ LET l == Head(chunk)
         b == ReadText(l)
         r == process_line(ext, b, cur_lineno + 1, empty_lines_count, cc_count)
     IN  /\ cur_lineno' = cur_lineno + 1
         /\ chunk' = Tail(chunk)
         /\ line' = l
         /\ out' = r.out
         /\ errors' = errors + Cardinality(r.out)
         /\ empty_lines_count' = r.empty
         /\ cc_count' = r.cc
         /\ lineIdx' = lineIdx + 1
         /\ gRun' = IF b.len = 0 THEN gRun + 1 ELSE 0
         /\ gOpen' = ((gOpen \/ b.open) /\ ~b.close)
  /\ UNCHANGED <<ext, started, eof, nread>>

Next ==
  \/ \E e \in Exts : StartFile(e)
  \/ ReadChunk
  \/ ProcessLine
  \/ EndFile

Spec == Init /\ [][Next]_vars

-----------------------------------------------------------------------------
(* Properties.                                                             *)

TypeOK ==
  /\ errors \in Nat
  /\ cur_lineno \in Nat
  /\ empty_lines_count \in Nat
  /\ cc_count \in Nat
  /\ ext \in Exts \cup {NoExt}
  /\ started \in 0..NumFiles
  /\ chunk \in Seq(Lines)
  /\ eof \in BOOLEAN
  /\ line \in Lines \cup {NoLine}
  /\ out \subseteq Msgs
  /\ nread \in 0..MaxLines
  /\ lineIdx \in Nat
  /\ gRun \in Nat
  /\ gOpen \in BOOLEAN

\* check_whitespace, as spec section 8 states it: in a run of empty lines
\* of one file the "more than two empty lines" diagnostic fires at the 3rd,
\* 6th, 9th... line of the run and nowhere else, whatever the previous
\* file left in empty_lines_count.
EmptyLinesExact ==
  [][ProcessLine => ("empty_lines" \in out' <=> gRun' > 0 /\ gRun' % 3 = 0)]_vars

\* check_whitespace never reports more than two empty lines unless the
\* line and the two before it in the same file are really empty, however
\* readlines cuts the file.
EmptyLinesSound == "empty_lines" \in out => gRun >= 3

\* The inductive strengthening of EmptyLinesSound: within a chunk
\* cur_lineno never runs ahead of the line's real position, so after the
\* first line of a file empty_lines_count never exceeds the real run.
EmptyInv ==
  /\ TypeOK
  /\ chunk # <<>> => cur_lineno <= lineIdx
  /\ lineIdx >= 1 => empty_lines_count <= gRun
  /\ EmptyLinesSound

\* check_c_comments in an m4 file: a line with "*/" is reported exactly
\* when it or an earlier line of the same file since the last "*/" line
\* has "/*"; lines of other categories are never reported.
BlockCommentExact ==
  [][ProcessLine =>
       ("c_comment" \in out' <=>
          /\ "check_c_comments" \in ChecksOf(ext)
          /\ line'.body.close
          /\ (gOpen \/ line'.body.open))]_vars

\* check_c_comments never reports a "*/" line that no "/*" of the same
\* file opened, however readlines cuts the file.
BlockCommentSound ==
  [][ProcessLine /\ "c_comment" \in out' =>
       line'.body.close /\ (gOpen \/ line'.body.open)]_vars

\* error() prints "file:line:" with the line's position in its file.
DiagLineNumber == out # {} => cur_lineno = lineIdx

\* check_file_unix, as the spec states it: a line ending in "\r\n" on
\* disk is reported as not in Unix format.
CRLFFlagged == [][ProcessLine /\ line'.term = "CRLF" => "not_unix" \in out']_vars
=============================================================================
