------------------------------ MODULE CpplintRun ------------------------------
(***************************************************************************)
(* One run of build_support/cpplint.py: main lints the files of its        *)
(* command line one after the other (ProcessFile).  For each it reads the  *)
(* CPPLINT.cfg files from the file's directory upwards                     *)
(* (ProcessConfigOverrides), runs the checks (ProcessFileData), and prints *)
(* and counts the errors they report that pass the verbosity, the filters  *)
(* and the NOLINT comments (Error).  The globals of the program live from  *)
(* file to file.                                                           *)
(*                                                                         *)
(* What a check finds in a line is chosen freely; of the text of a file    *)
(* only its NOLINT comments and the width of its lines matter here.        *)
(***************************************************************************)
EXTENDS Integers, FiniteSets, Sequences, SequencesExt, FiniteSetsExt

CONSTANTS
  Dirs, NONE,
  Parent,          \* the directory above each directory, or NONE
  FileNames,
  Place,           \* the directory of each file
  Extension,       \* the extension of each file
  Configs,         \* what a CPPLINT.cfg may say: sequences of options
  CommandLines,    \* parsed command lines
  NumLines,        \* lines of a file
  Comments,        \* NOLINT comments a line may have
  Widths,          \* widths of lines
  MaxErrors        \* bound on the errors that are printed

Lines == 1..NumLines

(* A category is a pair; a filter is a sign and the categories that start  *)
(* with its text.                                                          *)
LineLength == <<"whitespace", "line_length">>
Newline == <<"whitespace", "newline">>
EmptyLoopBody == <<"whitespace", "empty_loop_body">>
MultilineComment == <<"readability", "multiline_comment">>
Braces == <<"readability", "braces">>
Nolint == <<"readability", "nolint">>
All == <<"all", "">>
Unknown == <<"unknown", "">>
Categories == {LineLength, Newline, EmptyLoopBody, MultilineComment, Braces, Nolint}

ASSUME RunAssumption ==
  /\ NumLines \in Nat /\ MaxErrors \in Nat
  /\ Parent \in [Dirs -> Dirs \cup {NONE}]
  /\ Place \in [FileNames -> Dirs]
  /\ NONE \notin Configs
  /\ \A c \in Configs : c \in Seq({c[i] : i \in DOMAIN c})
  /\ \A c \in CommandLines :
       c.counting \in {"total", "toplevel", "detailed"} /\ c.filenames \in Seq(FileNames)

(* Above every directory there is a root.                                  *)
ASSUME TreeAssumption ==
  /\ NONE \notin Dirs /\ IsFiniteSet(Dirs)
  /\ \E depth \in [Dirs \cup {NONE} -> 0..Cardinality(Dirs)] :
       \A d \in Dirs : depth[Parent[d]] < depth[d]

VARIABLES
  args,           \* the command line
  config,         \* the CPPLINT.cfg of each directory, NONE if it has none
  pc,
  filenames,      \* the files still to be processed, the current one first
  (* globals, and _CppLintState *)
  filters, filters_backup, line_length, valid_extensions, hpp_headers,
  error_suppressions, global_error_suppressions,
  error_count, errors_by_category,
  (* ProcessConfigOverrides *)
  look,           \* the directory it looks in
  base_name,      \* the component below that directory
  options,        \* the options of its CPPLINT.cfg that are still to be read
  keep_looking, cfg_filters,
  (* ProcessFileData *)
  comment,        \* the NOLINT comment of each line
  line,           \* the line ProcessLine was last called for
  parsed,         \* history: the lines whose comments have been parsed
  reported        \* history: the errors the last check has reported

globals == <<filters, filters_backup, line_length, valid_extensions, hpp_headers>>
counts == <<error_count, errors_by_category>>
search == <<look, base_name, options, keep_looking, cfg_filters>>
data == <<error_suppressions, global_error_suppressions, comment, line,
          parsed, reported>>
vars == <<args, config, pc, filenames, globals, counts, search, data>>

filename == Head(filenames)

-----------------------------------------------------------------------------
(* The command line and the globals *)

(* No filter of the default list speaks of the categories above.           *)
DefaultFilters == <<[sign |-> "-", categories |-> {}]>>

(* The entry of errors_by_category a category counts for. *)
CountKey(counting, category) ==
  IF counting = "toplevel" THEN <<category[1], "">> ELSE category

CountKeys == {CountKey(counting, c) : counting \in {"toplevel", "detailed"},
                                      c \in Categories}

(* ParseArguments, and ResetErrorCounts. *)
Init ==
  /\ args \in CommandLines
  /\ config \in [Dirs -> Configs \cup {NONE}]
  /\ pc = "next"
  /\ filenames = args.filenames
  /\ filters = DefaultFilters \o args.filters
  /\ filters_backup = filters
  /\ line_length = args.line_length
  /\ valid_extensions = args.extensions
  /\ hpp_headers = args.headers
  /\ error_suppressions = {} /\ global_error_suppressions = {}
  /\ error_count = 0
  /\ errors_by_category = [k \in CountKeys |-> 0]
  /\ look = NONE /\ base_name = NONE /\ options = <<>>
  /\ keep_looking = FALSE /\ cfg_filters = <<>>
  /\ comment = [l \in Lines |-> NONE]
  /\ line = 0
  /\ parsed = {} /\ reported = {}

HeaderExtensions ==
  IF hpp_headers # {} THEN hpp_headers
  ELSE IF valid_extensions # {} THEN valid_extensions \cap {"h", "hpp"}
  ELSE {"h", "hpp"}

AllExtensions ==
  HeaderExtensions \cup (IF valid_extensions # {} THEN valid_extensions ELSE {"cc", "cpp"})

(* Of the filters that speak of a category the last one decides.           *)
Filtered(fs, category) ==
  LET hits == {i \in DOMAIN fs : category \in fs[i].categories}
  IN  hits # {} /\ fs[Max(hits)].sign = "-"

-----------------------------------------------------------------------------
(* ProcessFile: the configuration *)

NextFile ==
  /\ pc = "next" /\ filenames # <<>>
  /\ pc' = "look"
  /\ filters_backup' = filters
  /\ look' = Place[filename]
  /\ base_name' = filename
  /\ keep_looking' = TRUE
  /\ cfg_filters' = <<>>
  /\ UNCHANGED <<args, config, filenames, filters, line_length, valid_extensions,
                 hpp_headers, counts, options, data>>

(* A directory without a CPPLINT.cfg, *)
LookUp ==
  /\ pc = "look" /\ keep_looking /\ look # NONE
  /\ config[look] = NONE
  /\ base_name' = look
  /\ look' = Parent[look]
  /\ UNCHANGED <<args, config, pc, filenames, globals, counts, options,
                 keep_looking, cfg_filters, data>>

(* one with a CPPLINT.cfg,  *)
OpenConfig ==
  /\ pc = "look" /\ keep_looking /\ look # NONE
  /\ config[look] # NONE
  /\ options' = config[look]
  /\ pc' = "config"
  /\ UNCHANGED <<args, config, filenames, globals, counts, look, base_name,
                 keep_looking, cfg_filters, data>>

(* and one whose CPPLINT.cfg cannot be opened. *)
OpenConfigFails ==
  /\ pc = "look" /\ keep_looking /\ look # NONE
  /\ config[look] # NONE
  /\ keep_looking' = FALSE
  /\ UNCHANGED <<args, config, pc, filenames, globals, counts, look, base_name,
                 options, cfg_filters, data>>

Option(name) == pc = "config" /\ options # <<>> /\ Head(options).name = name
NextOption == options' = Tail(options)

SetNoparent ==
  /\ Option("set noparent")
  /\ keep_looking' = FALSE
  /\ NextOption
  /\ UNCHANGED <<args, config, pc, filenames, globals, counts, look, base_name,
                 cfg_filters, data>>

Filter ==
  /\ Option("filter")
  /\ cfg_filters' = Append(cfg_filters, Head(options).val)
  /\ NextOption
  /\ UNCHANGED <<args, config, pc, filenames, globals, counts, look, base_name,
                 keep_looking, data>>

(* Mutant: the file is skipped without RestoreFilters. *)
ExcludeFiles_keep ==
  /\ Option("exclude_files")
  /\ base_name \in Head(options).val
  /\ pc' = "next"
  /\ filenames' = Tail(filenames)
  /\ options' = <<>>
  /\ filters' = filters \o FlattenSeq(Reverse(cfg_filters))
  /\ UNCHANGED <<args, config, filters_backup, line_length, valid_extensions,
                 hpp_headers, counts, look, base_name, keep_looking, cfg_filters,
                 data>>

(* The file is skipped: the filters are restored, the other globals keep   *)
(* what the options before this one have made of them.                     *)
ExcludeFiles ==
  /\ Option("exclude_files")
  /\ base_name \in Head(options).val
  /\ pc' = "next"
  /\ filenames' = Tail(filenames)
  /\ options' = <<>>
  /\ filters' = filters_backup
  /\ UNCHANGED <<args, config, filters_backup, line_length, valid_extensions,
                 hpp_headers, counts, look, base_name, keep_looking, cfg_filters,
                 data>>

ExcludeOthers ==
  /\ Option("exclude_files")
  /\ base_name \notin Head(options).val
  /\ NextOption
  /\ UNCHANGED <<args, config, pc, filenames, globals, counts, look, base_name,
                 keep_looking, cfg_filters, data>>

SetLineLength ==
  /\ Option("linelength")
  /\ line_length' = Head(options).val
  /\ NextOption
  /\ UNCHANGED <<args, config, pc, filenames, filters, filters_backup,
                 valid_extensions, hpp_headers, counts, look, base_name,
                 keep_looking, cfg_filters, data>>

ProcessExtensionsOption ==
  /\ Option("extensions")
  /\ valid_extensions' = Head(options).val
  /\ NextOption
  /\ UNCHANGED <<args, config, pc, filenames, filters, filters_backup, line_length,
                 hpp_headers, counts, look, base_name, keep_looking, cfg_filters,
                 data>>

ProcessHppHeadersOption ==
  /\ Option("headers")
  /\ hpp_headers' = Head(options).val
  /\ NextOption
  /\ UNCHANGED <<args, config, pc, filenames, filters, filters_backup, line_length,
                 valid_extensions, counts, look, base_name, keep_looking,
                 cfg_filters, data>>

ConfigEnds ==
  /\ pc = "config" /\ options = <<>>
  /\ pc' = "look"
  /\ base_name' = look
  /\ look' = Parent[look]
  /\ UNCHANGED <<args, config, filenames, globals, counts, options, keep_looking,
                 cfg_filters, data>>

(* Every filter of an option must start with + or -.                       *)
Signed(option) == \A i \in DOMAIN option : option[i].sign \in {"+", "-"}

(* The filters that were read are added in reverse order.                  *)
AddFilters ==
  /\ pc = "look" /\ (~keep_looking \/ look = NONE)
  /\ \A i \in DOMAIN cfg_filters : Signed(cfg_filters[i])
  /\ pc' = "open"
  /\ filters' = filters \o FlattenSeq(Reverse(cfg_filters))
  /\ UNCHANGED <<args, config, filenames, filters_backup, line_length,
                 valid_extensions, hpp_headers, counts, search, data>>

(* The first option with a filter without a sign, which has been added     *)
(* then, ends the run with a ValueError.                                   *)
AddFiltersFails ==
  /\ pc = "look" /\ (~keep_looking \/ look = NONE)
  /\ \E i \in DOMAIN cfg_filters :
       /\ ~Signed(cfg_filters[i])
       /\ \A j \in DOMAIN cfg_filters : j > i => Signed(cfg_filters[j])
       /\ filters' = filters \o
            FlattenSeq(Reverse(SubSeq(cfg_filters, i, Len(cfg_filters))))
  /\ pc' = "crashed"
  /\ UNCHANGED <<args, config, filenames, filters_backup, line_length,
                 valid_extensions, hpp_headers, counts, search, data>>

-----------------------------------------------------------------------------
(* Errors *)

IsErrorSuppressedByNolint(suppressed, category, l) ==
  \/ category \in global_error_suppressions
  \/ <<category, l>> \in suppressed
  \/ <<All, l>> \in suppressed

ShouldPrintError(suppressed, e) ==
  /\ ~IsErrorSuppressedByNolint(suppressed, e.category, e.line)
  /\ e.confidence >= args.verbose
  /\ ~Filtered(filters, e.category)

(* What the comment of a line suppresses, if it names a category.          *)
Suppressed(l) ==
  LET c == comment[l]
  IN  IF c = NONE \/ c.category = Unknown THEN {}
      ELSE {<<c.category, IF c.nextline THEN l + 1 ELSE l>>}

(* Mutant: the table is kept for one counting style only. *)
IncrementErrorCount_one(errors) ==
  /\ error_count' = error_count + Cardinality(errors)
  /\ errors_by_category' = [k \in CountKeys |-> errors_by_category[k] +
       IF args.counting = "detailed"
       THEN Cardinality({e \in errors : CountKey(args.counting, e.category) = k}) ELSE 0]

IncrementErrorCount(errors) ==
  /\ error_count' = error_count + Cardinality(errors)
  /\ errors_by_category' = [k \in CountKeys |-> errors_by_category[k] +
       IF args.counting \in {"toplevel", "detailed"}
       THEN Cardinality({e \in errors : CountKey(args.counting, e.category) = k}) ELSE 0]

(* A check parses the comments of the lines ls (ParseNolintSuppressions,   *)
(* which reports the unknown categories), then it reports errors.  An      *)
(* error is blind if comments that may speak of its line are not parsed.   *)
Report(ls, errors) ==
  LET all == errors \cup
        {[line |-> l, category |-> Nolint, confidence |-> 5] :
           l \in {k \in ls : comment[k] # NONE /\ comment[k].category = Unknown}}
      suppressed == error_suppressions \cup UNION {Suppressed(l) : l \in ls}
      print == {e \in all : ShouldPrintError(suppressed, e)}
      seen == parsed \cup ls
  IN  /\ error_count + Cardinality(print) <= MaxErrors
      /\ error_suppressions' = suppressed
      /\ IncrementErrorCount(print)
      /\ parsed' = seen
      /\ reported' = {[error |-> e, printed |-> e \in print,
           blind |-> ~({e.line - 1, e.line} \cap Lines \subseteq seen)] : e \in all}

Error(l, category, confidence) ==
  [line |-> l, category |-> category, confidence |-> confidence]

-----------------------------------------------------------------------------
(* ProcessFile: the file *)

(* The file cannot be opened, or has not a valid extension.                *)
SkipFile ==
  /\ pc = "open"
  /\ pc' = "next"
  /\ filenames' = Tail(filenames)
  /\ filters' = filters_backup
  /\ UNCHANGED <<args, config, filters_backup, line_length, valid_extensions,
                 hpp_headers, counts, search, data>>

(* Mutant: the suppressions of the last file are kept. *)
ProcessFileData_keep ==
  /\ pc = "open"
  /\ Extension[filename] \in AllExtensions
  /\ pc' = "data"
  /\ comment' \in [Lines -> Comments \cup {NONE}]
  /\ line' = 0
  /\ global_error_suppressions' \in {{}, {Braces}}
  /\ UNCHANGED <<args, config, filenames, globals, counts, search,
                 error_suppressions, parsed, reported>>

(* ResetNolintSuppressions and ProcessGlobalSuppresions: a line of the     *)
(* file may switch off the categories that are not for C or the kernel.    *)
ProcessFileData ==
  /\ pc = "open"
  /\ Extension[filename] \in AllExtensions
  /\ pc' = "data"
  /\ comment' \in [Lines -> Comments \cup {NONE}]
  /\ line' = 0
  /\ error_suppressions' = {}
  /\ global_error_suppressions' \in {{}, {Braces}}
  /\ UNCHANGED <<args, config, filenames, globals, counts, search, parsed,
                 reported>>

lineVars == <<args, config, filenames, globals, search, global_error_suppressions,
              comment>>

(* RemoveMultiLineComments may find a comment without an end, before any   *)
(* line is processed; it reports the line after the one where it begins.   *)
RemoveMultiLineComments ==
  /\ pc = "data"
  /\ pc' = "lines"
  /\ \E ls \in {{}} \cup {{l} : l \in Lines} :
       Report({}, {Error(l + 1, MultilineComment, 5) : l \in ls})
  /\ UNCHANGED <<lineVars, line>>

(* ProcessLine parses the comment of the line, then the checks follow:     *)
(* CheckStyle compares its width with line_length;                         *)
ProcessLine ==
  /\ pc = "lines" /\ line < NumLines
  /\ pc' = "braces"
  /\ line' = line + 1
  /\ \E width \in Widths :
       Report({line + 1}, {Error(l, LineLength, 2) :
                             l \in IF width > line_length THEN {line + 1} ELSE {}})
  /\ UNCHANGED lineVars

(* CheckTrailingSemicolon may report the line of a closing brace further   *)
(* on, and looks for comments there and on the line before;                *)
CheckTrailingSemicolon ==
  /\ pc = "braces"
  /\ pc' = "body"
  /\ \/ \E l \in line..NumLines :
          Report({l - 1, l} \cap Lines, {Error(l, Braces, 4)})
     \/ Report({}, {})
  /\ UNCHANGED <<lineVars, line>>

(* CheckEmptyBlockBody may report the line where a condition ends, but it  *)
(* does not look for comments.                                             *)
CheckEmptyBlockBody ==
  /\ pc = "body"
  /\ pc' = "lines"
  /\ \/ \E l \in line..NumLines : Report({}, {Error(l, EmptyLoopBody, 5)})
     \/ Report({}, {})
  /\ UNCHANGED <<lineVars, line>>

(* After the lines ProcessFile reports the ends of lines that are mixed.   *)
CheckNewlines ==
  /\ pc = "lines" /\ line = NumLines
  /\ pc' = "done"
  /\ \E crlf_lines \in SUBSET Lines :
       Report({}, {Error(l, Newline, 1) : l \in crlf_lines})
  /\ UNCHANGED <<lineVars, line>>

FileDone ==
  /\ pc = "done"
  /\ pc' = "next"
  /\ filenames' = Tail(filenames)
  /\ filters' = filters_backup
  /\ parsed' = {} /\ reported' = {}
  /\ comment' = [l \in Lines |-> NONE]
  /\ UNCHANGED <<args, config, filters_backup, line_length, valid_extensions,
                 hpp_headers, counts, search, line, error_suppressions,
                 global_error_suppressions>>

Exit ==
  /\ pc = "next" /\ filenames = <<>>
  /\ pc' = "exit"
  /\ UNCHANGED <<args, config, filenames, globals, counts, search, data>>

-----------------------------------------------------------------------------

ProcessConfigOverrides ==
  \/ LookUp
  \/ OpenConfig
  \/ OpenConfigFails
  \/ SetNoparent
  \/ Filter
  \/ ExcludeFiles
  \/ ExcludeOthers
  \/ SetLineLength
  \/ ProcessExtensionsOption
  \/ ProcessHppHeadersOption
  \/ ConfigEnds
  \/ AddFilters
  \/ AddFiltersFails

CheckFile ==
  \/ ProcessFileData
  \/ RemoveMultiLineComments
  \/ ProcessLine
  \/ CheckTrailingSemicolon
  \/ CheckEmptyBlockBody
  \/ CheckNewlines
  \/ FileDone

Next ==
  \/ NextFile
  \/ ProcessConfigOverrides
  \/ SkipFile
  \/ CheckFile
  \/ Exit

Spec == Init /\ [][Next]_vars

-----------------------------------------------------------------------------

(* The exit code of main. *)
ExitCode == IF error_count > 0 THEN 1 ELSE 0

(* What the options of one CPPLINT.cfg, from the i-th on, give to name.    *)
Vals(opts, name) ==
  LET vals[i \in 1..Len(opts)+1] ==
        IF i > Len(opts) THEN <<>>
        ELSE IF opts[i].name = name THEN <<opts[i].val>> \o vals[i + 1]
        ELSE vals[i + 1]
  IN  vals

Noparent(opts) == \E i \in 1..Len(opts) : opts[i].name = "set noparent"

(* What the CPPLINT.cfg files that speak of a file in a directory give to  *)
(* name, the nearest file first.                                           *)
Nearest(cfg, name) ==
  LET vals[d \in Dirs \cup {NONE}] ==
        IF d = NONE THEN <<>>
        ELSE IF cfg[d] = NONE THEN vals[Parent[d]]
        ELSE Vals(cfg[d], name)[1] \o
               (IF Noparent(cfg[d]) THEN <<>> ELSE vals[Parent[d]])
  IN  vals

Checking == pc \in {"open", "data", "lines", "braces", "body", "done"}

(* "CPPLINT.cfg has an effect on files in the same directory and all       *)
(* sub-directories": between two files the filters are those of the        *)
(* command line, however the last file ended, and a file is checked with   *)
(* these and then the filters of the directories above it, whatever files  *)
(* were checked before, the outermost first (so that it has the least      *)
(* priority) - fewer if some CPPLINT.cfg could not be opened.              *)
FiltersScoped ==
  LET cli == DefaultFilters \o args.filters
      cfg == Nearest(config, "filter")[Place[filename]]
  IN  /\ pc \in {"next", "exit"} => filters = cli
      /\ Checking => \E n \in 0..Len(cfg) :
           filters = cli \o FlattenSeq(Reverse(SubSeq(cfg, 1, n)))

(* "NOLINT suppresses errors of all categories on that line": an error     *)
(* that passes the verbosity and the filters is printed if and only if the *)
(* text of this file, and not that of another one, asks for no             *)
(* suppression - as long as the check has parsed the comments of its line. *)
NolintExact ==
  LET asked == UNION {Suppressed(l) : l \in Lines}
  IN  \A r \in reported :
        LET e == r.error
        IN  ~r.blind => (r.printed <=>
              /\ e.confidence >= args.verbose
              /\ ~Filtered(filters, e.category)
              /\ ~IsErrorSuppressedByNolint(asked, e.category, e.line))

(* The summary of the errors by category adds up to the total, which       *)
(* decides the exit code, and is kept if it was asked for.                 *)
CountsAddUp ==
  LET total == FoldFunction(+, 0, errors_by_category)
  IN  /\ args.counting = "total" => total = 0
      /\ args.counting # "total" => total = error_count
      /\ (\E r \in reported : r.printed) => ExitCode = 1

(* The line length of a file is that of the nearest CPPLINT.cfg: it "has   *)
(* an effect on files in the same directory and all sub-directories,       *)
(* unless overridden by a nested configuration file" - or that of the      *)
(* command line, if there is no such file or it could not be opened.       *)
LineLengthScoped ==
  LET lengths == Nearest(config, "linelength")[Place[filename]]
  IN  Checking =>
        \/ line_length = args.line_length
        \/ lengths # <<>> /\ line_length = lengths[1]

=============================================================================
