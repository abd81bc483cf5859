--------------------------- MODULE CategoryTable ---------------------------
(***************************************************************************)
(* The static tables of ccheck (src/test/ccheck.py, ccheck.__init__): the  *)
(* categories in the order they are tried, the checks run for every       *)
(* category, the category-specific checks in their call order, the        *)
(* file-name patterns of each category and its (max width, max lines)     *)
(* pair.  A check is named by its method name; a record field is a        *)
(* category tag of the code.                                              *)
(***************************************************************************)
EXTENDS Naturals, Sequences

\* self.extensions: the categories, in the fixed order parse_any_file and
\* build_file_list try them.
extensions == <<"c", "cpp", "h", "mk", "m4", "py", "m", "s", "java", "php">>

\* self.common_checks: run on every line of every category, in this order.
common_checks == <<"check_whitespace", "check_termination",
                   "check_hex_lowercase", "check_pre_incr", "check_file_unix">>

\* self.funcmap: the category-specific checks, in call order.
funcmap ==
  [c    |-> <<"check_brackets", "check_c_preprocessor", "check_indent_tab">>,
   h    |-> <<"check_brackets", "check_indent_tab">>,
   cpp  |-> <<"check_brackets", "check_indent_tab">>,
   mk   |-> <<"check_indent_tab">>,
   m4   |-> <<"check_brackets", "check_c_comments", "check_indent_tab">>,
   py   |-> <<"check_brackets", "check_indent_space">>,
   m    |-> <<"check_brackets", "check_c_preprocessor", "check_indent_tab">>,
   s    |-> <<"check_indent_tab", "check_c_preprocessor">>,
   java |-> <<"check_brackets", "check_indent_tab">>,
   php  |-> <<"check_brackets", "check_indent_tab">>]

\* self.extmap: the fnmatch patterns of each category, in the order tried.
extmap ==
  [c    |-> <<"*.c">>,
   h    |-> <<"*.h">>,
   cpp  |-> <<"*.cpp", "*.cc">>,
   mk   |-> <<"*Makefile", "*.mk">>,
   m4   |-> <<"*.m4">>,
   py   |-> <<"*.py">>,
   m    |-> <<"*.m">>,
   s    |-> <<"*.s", "*.S">>,
   java |-> <<"*.java">>,
   php  |-> <<"*.php">>]

\* self.maxsize: (maximum expanded width, maximum line count).  The second
\* component is never read by any check (check_xy_max only takes max_x).
maxsize ==
  [c    |-> <<79, 3000>>,
   h    |-> <<79, 1000>>,
   cpp  |-> <<79, 3000>>,
   mk   |-> <<79, 1000>>,
   m4   |-> <<79, 3000>>,
   py   |-> <<79, 3000>>,
   m    |-> <<79, 3000>>,
   s    |-> <<79, 3000>>,
   java |-> <<179, 3000>>,
   php  |-> <<179, 3000>>]

\* The checks process_line runs for a file of category e: the common ones
\* and then funcmap[e].
ChecksOf(e) ==
  {common_checks[i] : i \in DOMAIN common_checks}
    \cup {funcmap[e][i] : i \in DOMAIN funcmap[e]}
=============================================================================
