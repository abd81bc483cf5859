------------------------- MODULE CheckRunnerProofs -------------------------
(***************************************************************************)
(* Proofs about CheckRunner for every value of its constants: the type    *)
(* invariant, and that a "more than two empty lines" diagnostic is never  *)
(* printed unless the line and the two before it really are empty,        *)
(* however f.readlines cuts the file.                                      *)
(***************************************************************************)
EXTENDS CheckRunner, FiniteSetTheorems, TLAPS

\* The diagnostics form a finite set, so a line's diagnostics can be counted.
LEMMA MsgsFinite == IsFiniteSet(Msgs)
<1> DEFINE list == <<"trailing_space", "trailing_tab", "empty_lines",
                     "double_semicolon", "space_before_term", "hex_upper",
                     "pre_increment", "pre_decrement", "not_unix",
                     "no_space_after_operator", "else_bracket", "cpp_comment",
                     "c_comment", "indent_tab", "indent_space", "too_wide">>
<1>1. list \in Surjection(1..16, Msgs)
  BY DEF Surjection, Msgs
<1>2. ExistsSurjection(1..16, Msgs)
  BY <1>1 DEF ExistsSurjection
<1>3. \E n \in Nat : ExistsSurjection(1..n, Msgs)
  BY <1>2, Zenon
<1>4. QED
  BY <1>3, FS_NatSurjection

\* The checks process_line can call.
CheckNames == {"check_whitespace", "check_termination", "check_hex_lowercase",
               "check_pre_incr", "check_file_unix", "check_brackets",
               "check_c_preprocessor", "check_c_comments", "check_indent_tab",
               "check_indent_space"}

\* Every category's checks are checks CheckResults knows.
LEMMA ChecksOfNames ==
  ASSUME NEW e \in DOMAIN funcmap
  PROVE  ChecksOf(e) \subseteq CheckNames
  BY DEF ChecksOf, funcmap, common_checks, CheckNames

\* Every check reports only diagnostics of Msgs, and "empty_lines" comes
\* from check_whitespace alone.
LEMMA CheckResultsMsgs ==
  ASSUME NEW b \in BodyType, NEW ws \in SUBSET Msgs,
         NEW cm \in SUBSET (Msgs \ {"empty_lines"}),
         NEW chk \in CheckNames
  PROVE  /\ CheckResults(b, ws, cm)[chk] \subseteq Msgs
         /\ ("empty_lines" \in CheckResults(b, ws, cm)[chk] => "empty_lines" \in ws)
<1> DEFINE cr == CheckResults(b, ws, cm)
<1>1. b.flags \subseteq LineFlags
  BY DEF BodyType
<1>2. cr[chk] \subseteq ws \cup cm \cup b.flags \cup {"not_unix"}
  <2>1. CASE chk \in {"check_whitespace", "check_c_comments", "check_file_unix"}
    BY <2>1 DEF CheckResults, check_file_unix
  <2>2. CASE chk \in {"check_termination", "check_hex_lowercase", "check_pre_incr",
                      "check_brackets", "check_c_preprocessor",
                      "check_indent_tab", "check_indent_space"}
    BY <2>2 DEF CheckResults, check_termination, check_hex_lowercase,
                check_pre_incr, check_brackets, check_c_preprocessor,
                check_indent_tab, check_indent_space
  <2>3. QED
    BY <2>1, <2>2 DEF CheckNames
<1>3. cr[chk] \subseteq Msgs
  <2>1. ws \cup cm \cup b.flags \cup {"not_unix"} \subseteq Msgs
    <3>1. LineFlags \subseteq Msgs /\ "not_unix" \in Msgs
      BY DEF LineFlags, Msgs
    <3>2. QED
      BY <1>1, <3>1, Zenon
  <2>2. QED
    BY <1>2, <2>1, Zenon
<1>4. "empty_lines" \notin cm \cup b.flags \cup {"not_unix"}
  BY <1>1 DEF LineFlags
<1>5. QED
  BY <1>2, <1>3, <1>4

\* What process_line returns for a line of an abstract body.
LEMMA ProcessLineType ==
  ASSUME NEW e \in DOMAIN funcmap, NEW b \in BodyType, NEW lineno \in Nat,
         NEW elc \in Nat, NEW cc \in Nat
  PROVE  LET r == process_line(e, b, lineno, elc, cc)
         IN  /\ r.out \subseteq Msgs
             /\ r.empty \in Nat
             /\ r.cc \in Nat
             /\ ("empty_lines" \in r.out =>
                   "empty_lines" \in check_whitespace(b, lineno, elc).out)
<1> DEFINE ws == check_whitespace(b, lineno, elc)
           cm == check_c_comments(b, lineno, cc)
           cr == CheckResults(b, ws.out, cm.out)
<1>1. ws.out \in SUBSET Msgs /\ ws.count \in Nat
  BY DEF check_whitespace, Msgs, BodyType
<1>2. cm.out \in SUBSET (Msgs \ {"empty_lines"}) /\ cm.count \in Nat
  BY DEF check_c_comments, Msgs, BodyType
<1>3. \A chk \in ChecksOf(e) : /\ cr[chk] \subseteq Msgs
                              /\ ("empty_lines" \in cr[chk] => "empty_lines" \in ws.out)
  <2> TAKE chk \in ChecksOf(e)
  <2>1. chk \in CheckNames
    BY ChecksOfNames
  <2>2. QED
    BY <1>1, <1>2, <2>1, CheckResultsMsgs, Zenon
<1>4. check_xy_max(b, maxsize[e][1]) \subseteq Msgs \ {"empty_lines"}
  BY DEF check_xy_max, Msgs
<1>5. UNION {cr[chk] : chk \in ChecksOf(e)} \subseteq Msgs
  BY <1>3
<1>6. "empty_lines" \in UNION {cr[chk] : chk \in ChecksOf(e)} => "empty_lines" \in ws.out
  BY <1>3
<1>7. QED
  BY <1>1, <1>2, <1>4, <1>5, <1>6 DEF process_line

-----------------------------------------------------------------------------
\* The line ProcessLine takes is a line of a known body, in a known category.
LEMMA ProcessLineInputs ==
  ASSUME TypeOK, ProcessLine
  PROVE  /\ Head(chunk) \in Lines
         /\ ReadText(Head(chunk)) \in BodyType
         /\ ext \in DOMAIN funcmap
         /\ cur_lineno + 1 \in Nat
<1>1. Head(chunk) \in Lines
  BY DEF ProcessLine, TypeOK
<1>2. Head(chunk).body \in Bodies
  BY <1>1 DEF Lines
<1>3. QED
  BY <1>1, <1>2, RunnerAssumption DEF ReadText, ProcessLine, TypeOK, NoExt

\* The initial state is well typed.
LEMMA InitTypeOK == Init => TypeOK
<1> SUFFICES ASSUME Init PROVE TypeOK
  OBVIOUS
<1>1. NumFiles \in Nat /\ MaxLines \in Nat
  BY RunnerAssumption
<1>2. chunk \in Seq(Lines)
  BY DEF Init
<1>3. line \in Lines \cup {NoLine} /\ ext \in Exts \cup {NoExt}
  BY DEF Init
<1>4. out \subseteq Msgs
  BY DEF Init
<1>5. started \in 0..NumFiles /\ nread \in 0..MaxLines
  BY <1>1 DEF Init
<1>6. /\ errors \in Nat /\ cur_lineno \in Nat /\ empty_lines_count \in Nat
      /\ cc_count \in Nat /\ lineIdx \in Nat /\ gRun \in Nat
  BY DEF Init
<1>7. eof \in BOOLEAN /\ gOpen \in BOOLEAN
  BY Zenon DEF Init
<1>8. QED
  BY <1>2, <1>3, <1>4, <1>5, <1>6, <1>7 DEF TypeOK

\* Every step keeps the types.
LEMMA NextTypeOK == TypeOK /\ [Next]_vars => TypeOK'
<1> SUFFICES ASSUME TypeOK, [Next]_vars PROVE TypeOK'
  OBVIOUS
<1> USE RunnerAssumption DEF TypeOK
<1>1. ASSUME NEW e \in Exts, StartFile(e) PROVE TypeOK'
  <2>1. eof' \in BOOLEAN /\ gOpen' \in BOOLEAN
    BY <1>1, Zenon DEF StartFile
  <2>2. QED
    BY <1>1, <2>1 DEF StartFile
<1>2. CASE ReadChunk
  <2>1. PICK c \in Chunks(MaxLines - nread) :
               /\ chunk' = c
               /\ nread' = nread + Len(c)
               /\ eof' = (PrefixLen(c, Len(c)) <= Hint)
    BY <1>2 DEF ReadChunk
  <2>2. PICK k \in 1..(MaxLines - nread) : c \in [1..k -> Lines]
    BY <2>1 DEF Chunks
  <2>3. c \in Seq(Lines) /\ Len(c) = k
    BY <2>2
  <2>4. QED
    BY <1>2, <2>1, <2>2, <2>3 DEF ReadChunk
<1>3. CASE ProcessLine
  <2> DEFINE b == ReadText(Head(chunk))
             r == process_line(ext, b, cur_lineno + 1, empty_lines_count, cc_count)
  <2>1. r.out \subseteq Msgs /\ r.empty \in Nat /\ r.cc \in Nat
    BY <1>3, ProcessLineInputs, ProcessLineType
  <2>2. Cardinality(r.out) \in Nat
    BY <2>1, MsgsFinite, FS_Subset, FS_CardinalityType
  <2>3. QED
    BY <1>3, <2>1, <2>2, ProcessLineInputs DEF ProcessLine
<1>4. CASE EndFile
  BY <1>4 DEF EndFile
<1>5. CASE UNCHANGED vars
  BY <1>5 DEF vars
<1>6. QED
  BY <1>1, <1>2, <1>3, <1>4, <1>5 DEF Next

\* The type invariant: every variable keeps the type TypeOK gives it.
THEOREM TypeCorrect == Spec => []TypeOK
BY InitTypeOK, NextTypeOK, PTL DEF Spec

-----------------------------------------------------------------------------
\* EmptyInv holds initially.
LEMMA EmptyInit == Init => EmptyInv
  BY InitTypeOK DEF Init, EmptyInv, EmptyLinesSound

\* Every step keeps EmptyInv.
LEMMA EmptyStep == EmptyInv /\ [Next]_vars => EmptyInv'
<1> SUFFICES ASSUME EmptyInv, [Next]_vars PROVE EmptyInv'
  OBVIOUS
<1>1. TypeOK'
  BY NextTypeOK DEF EmptyInv
<1> USE DEF EmptyInv, EmptyLinesSound
<1>2. ASSUME NEW e \in Exts, StartFile(e) PROVE EmptyInv'
  BY <1>1, <1>2 DEF StartFile
<1>3. CASE ReadChunk
  BY <1>1, <1>3 DEF ReadChunk, TypeOK
<1>4. CASE EndFile
  BY <1>1, <1>4 DEF EndFile
<1>5. CASE ProcessLine
  <2> DEFINE b  == ReadText(Head(chunk))
             n  == cur_lineno + 1
             ws == check_whitespace(b, n, empty_lines_count)
             e0 == IF n = 1 THEN 0 ELSE empty_lines_count
  <2>1. b \in BodyType /\ ext \in DOMAIN funcmap /\ n \in Nat
    BY <1>5, ProcessLineInputs DEF EmptyInv
  <2>2. e0 <= gRun
    <3>1. CASE n = 1
      BY <3>1 DEF TypeOK
    <3>2. CASE n # 1
      <4>1. lineIdx >= 1
        BY <1>5, <3>2 DEF ProcessLine, TypeOK
      <4>2. QED
        BY <3>2, <4>1
    <3>3. QED
      BY <3>1, <3>2
  <2> DEFINE r == process_line(ext, b, n, empty_lines_count, cc_count)
  <2>3. /\ gRun' = IF b.len = 0 THEN gRun + 1 ELSE 0
        /\ empty_lines_count' = r.empty
        /\ out' = r.out
        /\ chunk' # <<>> => cur_lineno' <= lineIdx'
    BY <1>5 DEF ProcessLine, TypeOK
  <2>4. r.empty = ws.count
    BY DEF process_line
  <2>5. "empty_lines" \in r.out => "empty_lines" \in ws.out
    BY <2>1, ProcessLineType, Zenon DEF TypeOK
  <2>6. b.len \in Nat /\ gRun \in Nat /\ empty_lines_count \in Nat
    BY <2>1 DEF BodyType, TypeOK
  <2>7. CASE b.len = 0
    <3>1. ws.count <= gRun' /\ ("empty_lines" \in ws.out => gRun' >= 3)
      BY <2>2, <2>3, <2>6, <2>7 DEF check_whitespace
    <3>2. QED
      BY <1>1, <2>3, <2>4, <2>5, <3>1
  <2>8. CASE b.len # 0
    <3>1. ws.count = 0 /\ "empty_lines" \notin ws.out /\ gRun' = 0
      BY <2>3, <2>8 DEF check_whitespace
    <3>2. QED
      BY <1>1, <2>3, <2>4, <2>5, <3>1
  <2>9. QED
    BY <2>7, <2>8
<1>6. CASE UNCHANGED vars
  BY <1>1, <1>6 DEF vars
<1>7. QED
  BY <1>2, <1>3, <1>4, <1>5, <1>6 DEF Next

\* check_whitespace never reports more than two empty lines unless the line
\* and the two before it in the same file are really empty, for every size
\* hint, file length and number of files (EmptyLinesSound).  The induction
\* goes through EmptyInv: readlines may restart cur_lineno, which can only
\* zero empty_lines_count, never raise it above the real run.
THEOREM EmptyLinesSoundThm == Spec => []EmptyLinesSound
<1>1. Init => EmptyInv
  BY EmptyInit
<1>2. EmptyInv /\ [Next]_vars => EmptyInv'
  BY EmptyStep
<1>3. QED
  BY <1>1, <1>2, PTL DEF Spec, EmptyInv

-----------------------------------------------------------------------------
\* The strengthening behind BlockCommentSound: in a file whose category
\* runs check_c_comments, once a line of it has been processed, a positive
\* cc_count means a "/*" line of this file is still unclosed.  A count left
\* by an earlier file is never read, because the first line of every chunk
\* (in particular of every file) has cur_lineno = 1 and zeroes it.
CommentCounted ==
  /\ ext # NoExt
  /\ "check_c_comments" \in ChecksOf(ext)
  /\ lineIdx >= 1
  => (cc_count > 0 => gOpen)

CommentInv == EmptyInv /\ CommentCounted


\* Only check_c_comments reports "c_comment".
LEMMA CheckResultsComment ==
  ASSUME NEW b \in BodyType, NEW ws, "c_comment" \notin ws, NEW cm,
         NEW chk \in CheckNames, "c_comment" \in CheckResults(b, ws, cm)[chk]
  PROVE  chk = "check_c_comments" /\ "c_comment" \in cm
<1>1. "c_comment" \notin b.flags
  BY DEF BodyType, LineFlags
<1>2. CASE chk \in {"check_whitespace", "check_file_unix"}
  BY <1>2 DEF CheckResults, check_file_unix
<1>3. CASE chk \in {"check_termination", "check_hex_lowercase", "check_pre_incr",
                    "check_brackets", "check_c_preprocessor",
                    "check_indent_tab", "check_indent_space"}
  BY <1>1, <1>3 DEF CheckResults, check_termination, check_hex_lowercase,
                    check_pre_incr, check_brackets, check_c_preprocessor,
                    check_indent_tab, check_indent_space
<1>4. CASE chk = "check_c_comments"
  BY <1>4 DEF CheckResults
<1>5. QED
  BY <1>2, <1>3, <1>4 DEF CheckNames

\* process_line reports "c_comment" only through check_c_comments, and
\* changes cc_count only in a category that runs it.
LEMMA ProcessLineComment ==
  ASSUME NEW e \in DOMAIN funcmap, NEW b \in BodyType, NEW lineno \in Nat,
         NEW elc \in Nat, NEW cc \in Nat
  PROVE  LET r  == process_line(e, b, lineno, elc, cc)
             cm == check_c_comments(b, lineno, cc)
         IN  /\ "c_comment" \in r.out =>
                  "check_c_comments" \in ChecksOf(e) /\ "c_comment" \in cm.out
             /\ r.cc = IF "check_c_comments" \in ChecksOf(e) THEN cm.count ELSE cc
<1> DEFINE ws == check_whitespace(b, lineno, elc)
           cm == check_c_comments(b, lineno, cc)
           cr == CheckResults(b, ws.out, cm.out)
<1>1. "c_comment" \notin ws.out
  BY DEF check_whitespace
<1>2. "c_comment" \notin check_xy_max(b, maxsize[e][1])
  BY DEF check_xy_max
<1>3. ASSUME NEW chk \in ChecksOf(e), "c_comment" \in cr[chk]
      PROVE  chk = "check_c_comments" /\ "c_comment" \in cm.out
  BY <1>1, <1>3, ChecksOfNames, CheckResultsComment, Zenon
<1>4. "c_comment" \in process_line(e, b, lineno, elc, cc).out =>
        \E chk \in ChecksOf(e) : "c_comment" \in cr[chk]
  BY <1>2 DEF process_line
<1>5. QED
  BY <1>3, <1>4 DEF process_line

\* When ProcessLine runs a file that checks comments, the count
\* check_c_comments starts from is positive only inside an open comment.
LEMMA StartCountOpen ==
  ASSUME CommentInv, ProcessLine, "check_c_comments" \in ChecksOf(ext)
  PROVE  (IF cur_lineno + 1 = 1 THEN 0 ELSE cc_count) > 0 => gOpen
<1>1. CASE cur_lineno + 1 = 1
  BY <1>1
<1>2. CASE cur_lineno + 1 # 1
  <2>1. cur_lineno >= 1 /\ cur_lineno <= lineIdx
    BY <1>2 DEF ProcessLine, CommentInv, EmptyInv, TypeOK
  <2>2. ext # NoExt /\ lineIdx >= 1
    BY <2>1 DEF ProcessLine, CommentInv, EmptyInv, TypeOK
  <2>3. QED
    BY <1>2, <2>2 DEF CommentInv, CommentCounted
<1>3. QED
  BY <1>1, <1>2


\* The quantities a ProcessLine step works with.
LEMMA ProcessLineFacts ==
  ASSUME CommentInv, ProcessLine
  PROVE  LET b  == ReadText(Head(chunk))
             n  == cur_lineno + 1
             r  == process_line(ext, b, n, empty_lines_count, cc_count)
             cm == check_c_comments(b, n, cc_count)
         IN  /\ b \in BodyType /\ ext \in DOMAIN funcmap /\ n \in Nat
             /\ line' = Head(chunk) /\ b = line'.body
             /\ out' = r.out /\ cc_count' = r.cc
             /\ gOpen' = ((gOpen \/ b.open) /\ ~b.close)
             /\ ext' = ext /\ lineIdx' = lineIdx + 1
             /\ "c_comment" \in r.out =>
                  "check_c_comments" \in ChecksOf(ext) /\ "c_comment" \in cm.out
             /\ r.cc = IF "check_c_comments" \in ChecksOf(ext) THEN cm.count ELSE cc_count
<1>1. ReadText(Head(chunk)) \in BodyType /\ ext \in DOMAIN funcmap /\ cur_lineno + 1 \in Nat
  BY ProcessLineInputs DEF CommentInv, EmptyInv
<1>2. empty_lines_count \in Nat /\ cc_count \in Nat
  BY DEF CommentInv, EmptyInv, TypeOK
<1>3. QED
  BY <1>1, <1>2, ProcessLineComment DEF ProcessLine, ReadText

LEMMA CommentInit == Init => CommentInv
  BY EmptyInit DEF Init, CommentInv, CommentCounted

LEMMA CommentStep == CommentInv /\ [Next]_vars => CommentInv'
<1> SUFFICES ASSUME CommentInv, [Next]_vars PROVE CommentInv'
  OBVIOUS
<1>1. EmptyInv'
  BY EmptyStep DEF CommentInv
<1> SUFFICES CommentCounted'
  BY <1>1 DEF CommentInv
<1>2. ASSUME NEW e \in Exts, StartFile(e) PROVE CommentCounted'
  BY <1>2 DEF StartFile, CommentCounted
<1>3. CASE ReadChunk
  BY <1>3 DEF ReadChunk, CommentInv, CommentCounted
<1>4. CASE EndFile
  BY <1>4 DEF EndFile, CommentCounted
<1>5. CASE ProcessLine
  <2> DEFINE b  == ReadText(Head(chunk))
             n  == cur_lineno + 1
             cm == check_c_comments(b, n, cc_count)
             c0 == IF n = 1 THEN 0 ELSE cc_count
  <2>1. CASE "check_c_comments" \in ChecksOf(ext)
    <3>1. c0 > 0 => gOpen
      BY <1>5, <2>1, StartCountOpen
    <3>2. cc_count' = cm.count /\ gOpen' = ((gOpen \/ b.open) /\ ~b.close)
      BY <1>5, <2>1, ProcessLineFacts
    <3>3. cc_count \in Nat
      BY DEF CommentInv, EmptyInv, TypeOK
    <3>4. cm.count > 0 => gOpen'
      <4>1. b \in BodyType
        BY <1>5, ProcessLineFacts
      <4>2. CASE b.close
        BY <3>2, <4>1, <4>2 DEF check_c_comments, BodyType
      <4>3. CASE ~b.close
        BY <3>1, <3>2, <3>3, <4>1, <4>3 DEF check_c_comments, BodyType
      <4>4. QED
        BY <4>2, <4>3
    <3>5. QED
      BY <3>2, <3>4 DEF CommentCounted
  <2>2. CASE "check_c_comments" \notin ChecksOf(ext)
    BY <1>5, <2>2, ProcessLineFacts DEF CommentCounted
  <2>3. QED
    BY <2>1, <2>2
<1>6. CASE UNCHANGED vars
  BY <1>6 DEF vars, CommentInv, CommentCounted
<1>7. QED
  BY <1>2, <1>3, <1>4, <1>5, <1>6 DEF Next

\* check_c_comments never reports a "*/" line that no "/*" line of the
\* same file opened, for every size hint, file length and number of files,
\* however readlines cuts the file and whatever an earlier file left in
\* cc_count (BlockCommentSound; run runner_chunked checks it on files of up
\* to six lines).
THEOREM BlockCommentSoundThm == Spec => BlockCommentSound
<1>1. Spec => []CommentInv
  BY CommentInit, CommentStep, PTL DEF Spec
<1>2. CommentInv /\ [Next]_vars =>
        [ProcessLine /\ "c_comment" \in out' =>
           line'.body.close /\ (gOpen \/ line'.body.open)]_vars
  <2> SUFFICES ASSUME CommentInv, ProcessLine, "c_comment" \in out'
               PROVE  line'.body.close /\ (gOpen \/ line'.body.open)
    OBVIOUS
  <2> DEFINE b  == ReadText(Head(chunk))
             n  == cur_lineno + 1
             cm == check_c_comments(b, n, cc_count)
             c0 == IF n = 1 THEN 0 ELSE cc_count
  <2>1. "check_c_comments" \in ChecksOf(ext) /\ "c_comment" \in cm.out
    BY ProcessLineFacts
  <2>2. c0 > 0 => gOpen
    BY <2>1, StartCountOpen
  <2>3. b.close /\ (b.open \/ c0 > 0)
    BY <2>1 DEF check_c_comments
  <2>4. b = line'.body
    BY ProcessLineFacts
  <2>5. QED
    BY <2>2, <2>3, <2>4
<1>3. QED
  BY <1>1, <1>2, PTL DEF BlockCommentSound, Spec

=============================================================================
