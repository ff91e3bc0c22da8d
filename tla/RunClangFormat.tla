--------------------------- MODULE RunClangFormat ---------------------------
(***************************************************************************)
(* build_support/run_clang_format.py, the program of the targets format    *)
(* and check-format: check is called for one directory after the other,    *)
(* and formats its files (--fix, one call of clang-format -i for all of    *)
(* them) or compares each with the output of clang-format.                 *)
(***************************************************************************)
EXTENDS Naturals, FiniteSets

CONSTANTS
  NumDirs,     \* length of --source_dirs; the files of each are in Names
  Names,
  Kinds        \* the kinds of files that occur

Dirs == 1..NumDirs
Files == Dirs \X Names

(* "clean" and "dirty": sources clang-format would leave or change.        *)
(* "excluded": a glob of the exclusions matches it, or it is no .h and no  *)
(* .cpp.  "broken": clang-format fails on it, or it is not UTF-8.          *)
FormatAssumption ==
  /\ NumDirs \in Nat
  /\ Kinds \subseteq {"clean", "dirty", "excluded", "broken"}

VARIABLES
  kind,      \* of each file
  fix,       \* arguments.fix
  pc,
  dir,       \* the directory check is called for
  todo,      \* formatted_filenames the loop of check has still to see
  error,     \* of check
  had_err    \* of the main program

vars == <<kind, fix, pc, dir, todo, error, had_err>>

Init ==
  /\ kind \in [Files -> Kinds]
  /\ fix \in BOOLEAN
  /\ pc = "dirs"
  /\ dir = 1
  /\ todo = {}
  /\ error = FALSE
  /\ had_err = FALSE

(* What the walk through directory d and the globs leave.                  *)
FormattedFilenames(d) ==
  {f \in Files : f[1] = d /\ kind[f] # "excluded"}

CallCheck ==
  /\ pc = "dirs" /\ dir <= NumDirs
  /\ pc' = IF fix THEN "fix" ELSE "check"
  /\ todo' = FormattedFilenames(dir)
  /\ error' = FALSE
  /\ UNCHANGED <<kind, fix, dir, had_err>>

(* clang-format -i of all files: check_call raises if it fails on one, and *)
(* also if there are none, for it cannot change what it reads from stdin;  *)
(* what it had changed by then is changed.                                 *)
Fix ==
  /\ pc = "fix"
  /\ IF todo # {} /\ \A f \in todo : kind[f] # "broken"
     THEN /\ kind' = [f \in Files |-> IF f \in todo THEN "clean" ELSE kind[f]]
          /\ pc' = "return"
     ELSE /\ \E changed \in SUBSET {f \in todo : kind[f] = "dirty"} :
               kind' = [f \in Files |-> IF f \in changed THEN "clean" ELSE kind[f]]
          /\ pc' = "raised"
  /\ todo' = {}
  /\ UNCHANGED <<fix, dir, error, had_err>>

(* The next file of check: a difference is an error, a file that cannot be *)
(* formatted or decoded ends the program.                                  *)
CheckFile ==
  /\ pc = "check" /\ todo # {}
  /\ \E f \in todo :
       /\ todo' = todo \ {f}
       /\ error' = (error \/ kind[f] = "dirty")
       /\ pc' = IF kind[f] = "broken" THEN "raised" ELSE "check"
  /\ UNCHANGED <<kind, fix, dir, had_err>>

(* check returns error, and main assigns it to had_err.                    *)
CheckReturns ==
  /\ \/ pc = "check" /\ todo = {}
     \/ pc = "return"
  /\ had_err' = error
  /\ dir' = dir + 1
  /\ pc' = "dirs"
  /\ UNCHANGED <<kind, fix, todo, error>>

Exit ==
  /\ pc = "dirs" /\ dir > NumDirs
  /\ pc' = "exit"
  /\ UNCHANGED <<kind, fix, dir, todo, error, had_err>>

Next == CallCheck \/ Fix \/ CheckFile \/ CheckReturns \/ Exit

Spec == Init /\ [][Next]_vars

-----------------------------------------------------------------------------

ExitCode == IF pc = "raised" \/ had_err THEN 1 ELSE 0

Dirty(d) == \E f \in Files : f[1] = d /\ kind[f] = "dirty"

TypeOK ==
  /\ kind \in [Files -> Kinds \cup {"clean"}]
  /\ fix \in BOOLEAN
  /\ pc \in {"dirs", "fix", "check", "return", "raised", "exit"}
  /\ dir \in 1..NumDirs + 1
  /\ todo \subseteq Files
  /\ error \in BOOLEAN
  /\ had_err \in BOOLEAN

(* After --fix has ended normally no file needs to be formatted, in any of *)
(* the directories, and none that is excluded has been touched: the exit   *)
(* code 0 of make format can be trusted.                                   *)
FixedAll == fix /\ pc = "exit" => ExitCode = 0 /\ \A d \in Dirs : ~Dirty(d)

(* Without --fix the exit code tells of the last directory only.           *)
LastDirDecides ==
  ~fix /\ pc = "exit" /\ NumDirs > 0 => (ExitCode = 1 <=> Dirty(NumDirs))

(* "runs clang format and exits with a non-zero exit code if any files     *)
(* need to be reformatted" (the target check-format).                      *)
DirtyReported == ~fix /\ pc = "exit" /\ (\E d \in Dirs : Dirty(d)) => ExitCode = 1

=============================================================================
