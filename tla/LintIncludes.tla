---------------------------- MODULE LintIncludes ----------------------------
(***************************************************************************)
(* The includes of a file in build_support/cpplint.py: _IncludeState,      *)
(* which knows the headers that were included and the section of the last  *)
(* one, CheckIncludeLine, which checks the next one, and the checks at the *)
(* end of the file.                                                        *)
(***************************************************************************)
EXTENDS LintNesting

CONSTANTS
  Headers,          \* the names that may be included
  Written,          \* what may stand behind #include: a header, and
                    \*   system: whether it is in angle brackets or in quotes
  HeaderInfo,       \* what the checks read off a name: cpp: of the C++ library,
                    \*   ext: "h", "hpp" or "cc", dir, base, first: its first component,
                    \*   canonical: its place in the alphabet, third_party,
                    \*   own: contains the name of the file's header or is part of it,
                    \*   module: without its extension it ends the file's path
  FileInfo          \* of the file: dir, dir_pub, base, first, is_header

(* The categories of the errors of one file, and the kinds of blocks that  *)
(* are reported as not complete.                                           *)
Categories ==
  {"multiline_comment", "multiline_string", "fn_size", "fn_body", "empty_body",
   "empty_if_body", "include_subdir", "include", "include_cc", "include_order",
   "include_alpha", "header_included", Class, Namespace}

(* The checks tell headers by their names alone.                           *)
ASSUME HeaderAssumption ==
  /\ DOMAIN HeaderInfo = Headers
  /\ \A w \in DOMAIN Written : Written[w].header \in Headers
  /\ Headers \cap Categories = {}
  /\ \A h \in Headers : HeaderInfo[h].canonical \in Nat \ {0}

INITIAL_SECTION == 0
MY_H_SECTION == 1
C_SECTION == 2
CPP_SECTION == 3
OTHER_H_SECTION == 4

NewIncludes == [include_list |-> <<{}>>, section |-> INITIAL_SECTION, last_header |-> 0]

-----------------------------------------------------------------------------
(* _IncludeState *)

(* Mutant: #else keeps the includes before it. *)
ResetSection_else(s, directive) ==
  [include_list |-> IF directive \in If THEN Append(s.include_list, {}) ELSE s.include_list,
   section |-> INITIAL_SECTION, last_header |-> 0]

(* Note that nothing is popped at #endif. *)
ResetSection(s, directive) ==
  [include_list |->
     CASE directive \in If -> Append(s.include_list, {})
       [] directive \in Else -> SetLast(s.include_list, {})
       [] directive \in Endif -> s.include_list,
   section |-> INITIAL_SECTION, last_header |-> 0]

Included(s) == UNION ToSet(s.include_list)
FindHeader(s, header) == {f \in Included(s) : f[1] = header}

(* _ClassifyInclude *)
Kind(written) ==
  LET h == HeaderInfo[written.header]
  IN  CASE written.system /\ h.ext # "hpp" -> IF h.cpp THEN "cpp_system" ELSE "c_system"
        [] OTHER ->
             IF h.base = FileInfo.base /\ h.dir \in {FileInfo.dir, FileInfo.dir_pub}
             THEN "likely_my"
             ELSE IF h.first = FileInfo.first THEN "possible_my" ELSE "other"

(* The section after a header of this kind; it goes back only with an      *)
(* error.                                                                  *)
NextSection(section, kind) ==
  CASE kind = "c_system" -> Max({section, C_SECTION})
    [] kind = "cpp_system" -> Max({section, CPP_SECTION})
    [] kind \in {"likely_my", "possible_my"} ->
         IF section <= MY_H_SECTION THEN MY_H_SECTION ELSE OTHER_H_SECTION
    [] kind = "other" -> OTHER_H_SECTION

(* Mutant: a header of this file may only come first. *)
OutOfOrder_my(section, kind) ==
  \/ kind = "c_system" /\ section > C_SECTION
  \/ kind = "cpp_system" /\ section > CPP_SECTION
  \/ kind = "likely_my" /\ section > MY_H_SECTION

OutOfOrder(section, kind) ==
  \/ kind = "c_system" /\ section > C_SECTION
  \/ kind = "cpp_system" /\ section > CPP_SECTION

(* CheckNextIncludeOrder: last_header belongs to a section. *)
CheckNextIncludeOrder(s, kind) ==
  LET section == NextSection(s.section, kind)
      keep == section = s.section /\ ~OutOfOrder(s.section, kind)
  IN  [s EXCEPT !.section = section, !.last_header = IF keep THEN @ ELSE 0]

(* An include, and one whose header is written out. *)
StartsInclude(line) == Directive(line) = "#include"
IsInclude(line) == StartsInclude(line) /\ Len(line) > 1 /\ line[2] \in DOMAIN Written

IsConditional(line) == Directive(line) \in If \cup Else \cup Endif

(* Mutant: the line before is not looked at. *)
IsInAlphabeticalOrder_any(s, lines, linenum, header) ==
  s.last_header <= HeaderInfo[header].canonical

IsInAlphabeticalOrder(s, lines, linenum, header) ==
  \/ s.last_header <= HeaderInfo[header].canonical
  \/ linenum = 1
  \/ ~StartsInclude(lines[linenum - 1])

-----------------------------------------------------------------------------
(* CheckIncludeLine *)

(* Names that are taken for the header of the file, which is checked even  *)
(* if it looks like one of a third party.                                  *)
OwnHeader(header) == HeaderInfo[header].own

(* The state after the include of a line, and the categories of the errors.*)
CheckIncludeLine(s, lines, linenum) ==
  LET written == Written[lines[linenum][2]]
      header == written.header
      h == HeaderInfo[header]
      ordered == CheckNextIncludeOrder(s, Kind(written))
      listed == [ordered EXCEPT
        !.include_list = SetLast(@, Last(@) \cup {<<header, linenum>>}),
        !.last_header = h.canonical]
      subdir == IF ~written.system /\ h.dir = "" /\ h.ext = "h" /\ ~h.third_party
                THEN {"include_subdir"} ELSE {}
  IN  CASE FindHeader(s, header) # {} -> [state |-> s, errors |-> subdir \cup {"include"}]
        [] FindHeader(s, header) = {} /\ h.ext = "cc" /\ h.dir # FileInfo.dir ->
             [state |-> s, errors |-> subdir \cup {"include_cc"}]
        [] OTHER ->
             IF ~OwnHeader(header) /\ h.third_party THEN [state |-> s, errors |-> subdir]
             ELSE [state |-> listed, errors |-> subdir
               \cup (IF OutOfOrder(s.section, Kind(written)) THEN {"include_order"} ELSE {})
               \cup (IF IsInAlphabeticalOrder(ordered, lines, linenum, header) THEN {}
                     ELSE {"include_alpha"})]

(* The part of CheckLanguage that is about directives. *)
CheckLanguage(s, lines, linenum) ==
  LET line == lines[linenum]
  IN  CASE IsInclude(line) -> CheckIncludeLine(s, lines, linenum)
        [] IsConditional(line) ->
             [state |-> ResetSection(s, Directive(line)), errors |-> {}]
        [] OTHER -> [state |-> s, errors |-> {}]

-----------------------------------------------------------------------------
(* The end of the file *)

(* CheckHeaderFileIncluded: the file has a header if there is one with its *)
(* name.                                                                   *)
CheckHeaderFileIncluded(s, exists) ==
  IF exists /\ ~FileInfo.is_header /\ \A f \in Included(s) : ~OwnHeader(f[1])
  THEN {"header_included"} ELSE {}

(* A header of a source file.                                              *)
FilesBelongToSameModule(header) ==
  LET h == HeaderInfo[header]
  IN  ~FileInfo.is_header /\ h.ext \in {"h", "hpp"} /\ h.module

(* Mutant: a source file is checked although its header was not found. *)
CheckForIncludeWhatYouUse_any(s, required, own) ==
  LET headers == {f[1] : f \in Included(s)}
      opened == headers \cap DOMAIN own
  IN  required \ (headers \cup UNION {own[h] : h \in opened})

(* CheckForIncludeWhatYouUse: the headers that are required, less those    *)
(* that the file or a header of its own module includes.  own maps the     *)
(* headers of the module that can be opened to what they include; without  *)
(* one of these nothing is reported for a source file.                     *)
CheckForIncludeWhatYouUse(s, required, own) ==
  LET headers == {f[1] : f \in Included(s)}
      opened == headers \cap DOMAIN own
      known == headers \cup UNION {own[h] : h \in opened}
  IN  IF opened = {} /\ ~FileInfo.is_header THEN {} ELSE required \ known

-----------------------------------------------------------------------------
(* Reference definitions *)

SystemKinds == {"c_system", "cpp_system"}
MyKinds == {"likely_my", "possible_my"}

(* Of the order "1) for foo.cc, foo.h 2) c system files 3) cpp system      *)
(* files 4) for foo.cc, foo.h (deprecated location) 5) other google        *)
(* headers" the code asks the part that is about system headers: one comes *)
(* too late if since the last directive there was a header of a later      *)
(* group.  No other header ever does: a header of the file that comes      *)
(* after one of group 5 is taken for another one of that group.            *)
TooLate(kinds, ks, kind) ==
  \/ /\ kind = "c_system"
     /\ \E k \in ks : kinds[k] \in {"cpp_system", "other"}
  \/ /\ kind = "cpp_system"
     /\ \E k \in ks : kinds[k] = "other"
  \/ /\ kind \in SystemKinds
     /\ \E k, j \in ks : j < k /\ kinds[k] \in MyKinds /\ kinds[j] \notin MyKinds

=============================================================================
