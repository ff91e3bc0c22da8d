----------------------------- MODULE CpplintFile -----------------------------
(***************************************************************************)
(* ProcessFileData of build_support/cpplint.py: the checks of one file.    *)
(* The text is cleansed as a whole, then ProcessLine is called for each    *)
(* line, with the state of the nesting, of the includes and of the current *)
(* function, and at the end of the file what is left in them is checked.   *)
(*                                                                         *)
(* Any text of a bounded number of lines of some alphabet is checked.  An  *)
(* error is a line and a category, before the NOLINT comments and the      *)
(* filters (see CpplintRun).                                               *)
(***************************************************************************)
EXTENDS LintIncludes

CONSTANTS
  Alphabets,        \* what texts are made of: lines, and max, how many of them
  Trigger,          \* the number of lines a function may have
  Requires,         \* the header that a token requires
  OwnHeaders        \* headers that can be opened, and what they include

ASSUME FileAssumption == Trigger \in Nat /\ \A a \in Alphabets : a.max \in Nat

(* What may be missing are headers of the standard library.                *)
ASSUME RequiresAssumption ==
  \A t \in DOMAIN Requires :
    /\ Requires[t] \in Headers
    /\ ~HeaderInfo[Requires[t]].third_party /\ HeaderInfo[Requires[t]].ext # "cc"

VARIABLES
  alphabet, text,
  pc,
  clean_lines,      \* clean_lines.elided
  line,             \* the number of lines processed
  nesting_state, include_state, function_state,
  errors,           \* those that were reported
  checked           \* history: the lines that are not inline assembly

vars == <<alphabet, text, pc, clean_lines, line, nesting_state, include_state,
          function_state, errors, checked>>

-----------------------------------------------------------------------------
(* _FunctionState and CheckForFunctionLengths *)

FunctionNames == {"f", "asm"}

StartsFunction(l) == Len(l) > 1 /\ l[1] \in FunctionNames /\ l[2] = "("
EndsFunction(l) == l = <<"}">>

(* The first line from l on that has a brace or a semicolon, or *)
(* the one after the last line.                                            *)
BodyLine(lines, l) ==
  Min({k \in l..Len(lines) : ToSet(lines[k]) \cap {";", "{", "}"} # {}} \cup {Len(lines) + 1})

HasBody(lines, l) ==
  LET k == BodyLine(lines, l)
  IN  k <= Len(lines) /\ ToSet(lines[k]) \cap {";", "}"} = {}

(* Mutant: the count is not reset. *)
BeginFunction_keep(f) == [f EXCEPT !.in_a_function = TRUE]

BeginFunction(f) == [f EXCEPT !.in_a_function = TRUE, !.lines_in_function = 0]
CountLine(f) == IF f.in_a_function THEN [f EXCEPT !.lines_in_function = @ + 1] ELSE f
CheckLength(f) == IF f.in_a_function /\ f.lines_in_function > Trigger THEN {"fn_size"} ELSE {}
EndFunction(f) == [f EXCEPT !.in_a_function = FALSE]

CheckForFunctionLengths(f, lines, l) ==
  CASE StartsFunction(lines[l]) ->
         [state |-> IF HasBody(lines, l) THEN BeginFunction(f) ELSE f,
          errors |-> IF BodyLine(lines, l) > Len(lines) THEN {"fn_body"} ELSE {}]
    [] EndsFunction(lines[l]) -> [state |-> EndFunction(f), errors |-> CheckLength(f)]
    [] OTHER -> [state |-> IF lines[l] = <<>> THEN f ELSE CountLine(f), errors |-> {}]

(* CheckForMultilineCommentsAndStrings *)
MultilineErrors(l) ==
  (IF CountOf(l, "/*") > CountOf(l, "*/") THEN {"multiline_comment"} ELSE {})
    \cup (IF IsCppString(l) THEN {"multiline_string"} ELSE {})

-----------------------------------------------------------------------------
(* CheckEmptyBlockBody *)

(* The part of line l that is behind position p. *)
Fragment(lines, p, l) == IF l = p[1] THEN SuffixFrom(lines[l], p[2] + 1) ELSE lines[l]

(* The first token behind p, comments and empty lines passed, or NoPos. *)
NextToken(lines, p) ==
  LET ls == {l \in p[1]..Len(lines) : Fragment(lines, p, l) # <<>>}
  IN  IF ls = {} THEN NoPos
      ELSE IF Min(ls) = p[1] THEN <<p[1], p[2] + 1>> ELSE <<Min(ls), 1>>

TokenAt(lines, p) == IF p = NoPos THEN "" ELSE lines[p[1]][p[2]]

(* Mutant: a line with a comment between the braces is like an empty one. *)
HasEmptyBody_comment(raw, lines, end) ==
  LET opening == NextToken(lines, end)
      closing == CloseExpression(lines, opening)
  IN  /\ TokenAt(lines, opening) = "{" /\ closing # NoPos
      /\ raw[opening[1]] = CleanseComments(raw[opening[1]])
      /\ NextToken(lines, opening) = closing
      /\ TokenAt(lines, NextToken(lines, closing)) # "else"

(* The body behind the condition that ends at end is in braces and empty:  *)
(* no comment follows its opening brace, or stands on a line between the   *)
(* braces - one before the closing brace is not seen - and no else follows.*)
HasEmptyBody(raw, lines, end) ==
  LET opening == NextToken(lines, end)
      closing == CloseExpression(lines, opening)
  IN  /\ TokenAt(lines, opening) = "{" /\ closing # NoPos
      /\ raw[opening[1]] = CleanseComments(raw[opening[1]])
      /\ NextToken(lines, opening) = closing
      /\ \A l \in opening[1] + 1..closing[1] - 1 : raw[l] = <<>>
      /\ TokenAt(lines, NextToken(lines, closing)) # "else"

(* The errors are those of the line where the condition ends. *)
CheckEmptyBlockBody(raw, lines, l) ==
  LET end == CloseExpression(lines, <<l, 2>>)
  IN  IF ~(Len(lines[l]) > 1 /\ lines[l][1] \in {"for", "while", "if"} /\ lines[l][2] = "(")
         \/ end = NoPos
      THEN {}
      ELSE {<<end[1], c>> : c \in
        (IF end[2] < Len(lines[end[1]]) /\ lines[end[1]][end[2] + 1] = ";" THEN {"empty_body"} ELSE {})
          \cup (IF lines[l][1] = "if" /\ HasEmptyBody(raw, lines, end)
                THEN {"empty_if_body"} ELSE {})}

-----------------------------------------------------------------------------

NewFunction == [in_a_function |-> FALSE, lines_in_function |-> 0]

Init ==
  /\ alphabet \in Alphabets
  /\ text = <<>>
  /\ pc = "write"
  /\ clean_lines = <<>> /\ line = 0
  /\ nesting_state = NewNesting
  /\ include_state = NewIncludes
  /\ function_state = NewFunction
  /\ errors = {}
  /\ checked = {}

(* The author of the file. *)
Write ==
  /\ pc = "write" /\ Len(text) < alphabet.max
  /\ \E l \in alphabet.lines : text' = Append(text, l)
  /\ UNCHANGED <<alphabet, pc, clean_lines, line, nesting_state, include_state,
                 function_state, errors, checked>>

(* A comment without an end is reported at the line after its beginning.   *)
Begin ==
  /\ pc = "write"
  /\ pc' = "lines"
  /\ clean_lines' = Elided(text)
  /\ errors' = {<<l + 1, "multiline_comment">> : l \in MultiLineComments(text).error}
  /\ UNCHANGED <<alphabet, text, line, nesting_state, include_state, function_state,
                 checked>>

(* clean_lines.raw_lines *)
RawLines == RemoveMultiLineComments(text)

Reported(l, categories) ==
  errors' = errors \cup {<<l, c>> : c \in categories}
                   \cup CheckEmptyBlockBody(RawLines, clean_lines, l)

(* The nesting is updated first; nothing else is checked in a block of     *)
(* inline assembly.                                                        *)
ProcessLine ==
  /\ pc = "lines" /\ line < Len(clean_lines)
  /\ line' = line + 1
  /\ nesting_state' = Update(nesting_state, clean_lines, line')
  /\ IF InAsmBlock(nesting_state'.stack)
     THEN UNCHANGED <<include_state, function_state, errors, checked>>
     ELSE LET f == CheckForFunctionLengths(function_state, clean_lines, line')
              i == CheckLanguage(include_state, clean_lines, line')
          IN  /\ checked' = checked \cup {line'}
              /\ function_state' = f.state
              /\ include_state' = i.state
              /\ Reported(line', f.errors \cup MultilineErrors(clean_lines[line'])
                                   \cup i.errors)
  /\ UNCHANGED <<alphabet, text, pc, clean_lines>>

Required ==
  {Requires[t] : t \in DOMAIN Requires \cap
     UNION {ToSet(clean_lines[l]) : l \in {k \in DOMAIN clean_lines :
              ~StartsInclude(clean_lines[k]) /\ ~IsConditional(clean_lines[k])}}}

(* What the headers that can be opened include. *)
UpdateIncludeState(found) == [h \in found |-> OwnHeaders[h]]

(* Some of the headers of the module can be opened. *)
EndOfFile ==
  /\ pc = "lines" /\ line = Len(clean_lines)
  /\ pc' = "done"
  /\ \E found \in SUBSET {h \in DOMAIN OwnHeaders : FilesBelongToSameModule(h)},
        exists \in BOOLEAN :
       errors' = errors
         \cup CheckCompletedBlocks(nesting_state.stack)
         \cup {<<0, c>> : c \in CheckHeaderFileIncluded(include_state, exists)}
         \cup {<<0, h>> : h \in CheckForIncludeWhatYouUse(include_state, Required,
                                  UpdateIncludeState(found))}
  /\ UNCHANGED <<alphabet, text, clean_lines, line, nesting_state, include_state,
                 function_state, checked>>

Next == Write \/ Begin \/ ProcessLine \/ EndOfFile

Spec == Init /\ [][Next]_vars

-----------------------------------------------------------------------------

Began == pc = "lines" /\ line = 0
Processed == pc = "lines" /\ line = Len(clean_lines)

(* A raw string that contains the beginning of a comment, and a comment of *)
(* several lines that ends before the end of a line.                       *)
Misleading(lines) ==
  LET states == Scan(lines)
  IN  \E l \in DOMAIN lines : \E i \in DOMAIN lines[l] :
        \/ lines[l][i] = "/*" /\ states[l][i] = "raw"
        \/ /\ lines[l][i] = "*/" /\ i < Len(lines[l])
           /\ \A k \in 1..i : states[l][k] = "comment"

(* "Lint may give bogus warnings": when what the checks see is not the     *)
(* code of the text - comments and strings out, lines kept - one of the    *)
(* lines gets a warning that says so, unless the text is misleading.       *)
MisreadWarned ==
  pc = "done" =>
    \/ clean_lines = CodeOf(text)
    \/ \E e \in errors : e[2] \in {"multiline_comment", "multiline_string"}
    \/ Misleading(text)

(* Where the signs < and > may be operators for one search and brackets    *)
(* for the other: a shift, a comparison with >=, the name of an operator   *)
(* function.                                                               *)
AngleOperators(lines, p, q) ==
  \/ Preceded(lines[p[1]], p[2], "<") \/ Preceded(lines[p[1]], p[2], "operator")
  \/ \E t \in {">=", "operator"} : t \in ToSet(Between(lines, p, q))

(* What CloseExpression finds closes a well-nested piece of the text, and  *)
(* it finds the end of a round, square or curly bracket if and only if     *)
(* there is one.  ReverseCloseExpression finds the way back: from every    *)
(* such bracket, whatever operators are between, and from an angle bracket *)
(* when there is none of the operators that the two searches treat         *)
(* differently, as in a < b >= c, where one finds an end at >= and the     *)
(* other no beginning.                                                     *)
BracketsMatch ==
  Began => \A p \in Positions(clean_lines) :
    LET q == CloseExpression(clean_lines, p)
        open == clean_lines[p[1]][p[2]]
    IN  /\ q # NoPos =>
             /\ WellNested(Between(clean_lines, p, q))
             /\ open \in Open \/ ~AngleOperators(clean_lines, p, q) =>
                  ReverseCloseExpression(clean_lines, q) = p
        /\ open \in Open => (q # NoPos <=>
             \E r \in Positions(clean_lines) :
               /\ Before(p, r) /\ clean_lines[r[1]][r[2]] \in Close
               /\ WellNested(Between(clean_lines, p, r)))

(* The lines of an assembly statement that stands in a block. *)
AsmLines ==
  {l \in DOMAIN clean_lines : \E a \in 1..l :
     /\ StartsAsm(clean_lines[a]) /\ clean_lines[a][2] = "("
     /\ LET r == OpenBlocks(clean_lines, 1..a - 1) IN r.open # <<>> /\ r.parens = 0
     /\ \A k \in a..l - 1 :
          Cardinality({j \in a..k : "(" \in ToSet(clean_lines[j])})
            > Cardinality({j \in a..k : ")" \in ToSet(clean_lines[j])})}

(* "Preprocessor condition evaluates to true from #if up to first #else    *)
(* ... false from #else up to #endif": after the last line the blocks that *)
(* are open are those of the lines a reader of that line sees, and each is *)
(* the namespace or class that its brace belongs to - unless a declaration *)
(* is broken off or there is a brace inside parentheses.  And unless       *)
(* assembly has braces, the lines that are not checked are its statements. *)
NestingExact ==
  LET r == OpenBlocks(clean_lines, Visible(clean_lines, line))
      open == SelectSeq(nesting_state.stack, LAMBDA b : b.seen_open_brace)
      braced == \E l \in 1..line : /\ "{" \in ToSet(clean_lines[l])
                                   /\ StartsAsm(clean_lines[l]) \/ l \in AsmLines
  IN  (Processed /\ ~r.odd) =>
        /\ [i \in DOMAIN open |-> <<open[i].starting_linenum, open[i].kind>>] = r.open
        /\ ~braced => checked = 1..line \ AsmLines

(* The lines of an #else branch before which its #if branch had an #if of  *)
(* its own.                                                                *)
NestedElse(n) ==
  \E i \in Ifs(clean_lines, n) : \E e \in Elses(clean_lines, n, i) :
    \E j \in i + 1..e - 1 : Directive(clean_lines[j]) \in If

UnmatchedElse(n) ==
  \E e \in 1..n : /\ Directive(clean_lines[e]) \in Else
                  /\ \A i \in Ifs(clean_lines, n) : e \notin Elses(clean_lines, n, i)

(* No #if stands before the #else of another one, no #else without its    *)
(* #if, and none of them in inline assembly.                               *)
PlainConditionals ==
  /\ ~NestedElse(line) /\ ~UnmatchedElse(line)
  /\ \A k \in 1..line : IsConditional(clean_lines[k]) => k \in checked

(* The line k was included and line l is not in another branch of the same *)
(* conditional.                                                            *)
SeenFrom(k, l) ==
  ~ \E i \in Ifs(clean_lines, l) : i < k /\ \E e \in Elses(clean_lines, l, i) : k < e

IncludeLines == {k \in 1..line : IsInclude(clean_lines[k]) /\ k \in checked}

HeaderAt(k) == Written[clean_lines[k][2]].header

OnList(k) ==
  /\ k \in IncludeLines
  /\ {<<k, "include">>, <<k, "include_cc">>} \cap errors = {}
  /\ OwnHeader(HeaderAt(k)) \/ ~HeaderInfo[HeaderAt(k)].third_party

(* "we shouldn't include a file more than once": a second include of a     *)
(* header, in quotes or angle brackets, is reported if and only if the     *)
(* first one is not in another branch of a conditional that both are in,   *)
(* or a branch that another one has replaced.                              *)
DuplicatesExact ==
  (Processed /\ PlainConditionals) =>
    \A l \in IncludeLines :
      <<l, "include">> \in errors <=>
        \E k \in 1..l - 1 : OnList(k) /\ HeaderAt(k) = HeaderAt(l) /\ SeenFrom(k, l)

Kinds == [k \in IncludeLines |-> Kind(Written[clean_lines[k][2]])]

(* The includes that were put on the list after the last directive before  *)
(* line l.                                                                 *)
SinceDirective(l) ==
  {k \in 1..l - 1 : /\ OnList(k)
                    /\ \A d \in k + 1..l - 1 :
                         ~(d \in checked /\ IsConditional(clean_lines[d]))}

(* The order of the sections of the includes: an include is reported as    *)
(* out of order if and only if it is one of a system header and since the  *)
(* last directive there was one that belongs behind it.                    *)
IncludeOrderExact ==
  Processed => \A l \in IncludeLines :
    <<l, "include_order">> \in errors <=>
      OnList(l) /\ TooLate(Kinds, SinceDirective(l), Kinds[l])

(* The section an include is in. *)
Group(l) ==
  IF Kinds[l] \in MyKinds
  THEN IF \E k \in SinceDirective(l) : Kinds[k] \notin MyKinds THEN "other" ELSE "my"
  ELSE Kinds[l]

(* The order within a section: an include is reported if the line before   *)
(* is an include and the last header since the last directive is of the    *)
(* same section and after it in the alphabet - unless one of these has     *)
(* been reported as out of its section.                                    *)
AlphabetExact ==
  Processed => \A l \in IncludeLines :
    (\A k \in SinceDirective(l) \cup {l} : <<k, "include_order">> \notin errors) =>
      (<<l, "include_alpha">> \in errors <=>
         /\ OnList(l)
         /\ l > 1 /\ StartsInclude(clean_lines[l - 1])
         /\ \E k \in SinceDirective(l) :
              /\ \A j \in SinceDirective(l) : j <= k
              /\ Group(k) = Group(l)
              /\ HeaderInfo[HeaderAt(k)].canonical > HeaderInfo[HeaderAt(l)].canonical)

FunctionStarts == {k \in checked : StartsFunction(clean_lines[k]) /\ HasBody(clean_lines, k)}
FunctionEnds == {k \in checked : EndsFunction(clean_lines[k])}

(* The function that the line e ends, or is in, began at line s. *)
InFunction(s, e) ==
  /\ s \in FunctionStarts /\ s < e
  /\ (FunctionStarts \cup FunctionEnds) \cap s + 1..e - 1 = {}

(* Its lines that are not empty and no call or declaration at the margin. *)
OwnLines(s, e) ==
  {k \in checked \cap s + 1..e - 1 :
     clean_lines[k] # <<>> /\ ~StartsFunction(clean_lines[k])}

(* A function is reported at its last line if and only if there are more   *)
(* than Trigger lines of its own after the line that began it, whatever    *)
(* functions, declarations and assembly came before.                       *)
FunctionLengthExact ==
  Processed => \A e \in FunctionEnds :
    <<e, "fn_size">> \in errors <=>
      \E s \in FunctionStarts : InFunction(s, e) /\ Cardinality(OwnLines(s, e)) > Trigger

(* "If statements that have completely empty bodies (no comments) and no   *)
(* else clauses" are reported, at the end of their condition, and no other *)
(* statement is, wherever the lines are broken.  The code does not look    *)
(* for a comment in front of the closing brace on its line: nothing is     *)
(* claimed of these bodies.                                                *)
EmptyIfExact ==
  LET all == FlattenSeq([l \in DOMAIN clean_lines |->
               [i \in DOMAIN clean_lines[l] |-> [line |-> l, token |-> clean_lines[l][i]]]])
      token(k) == IF k \in DOMAIN all THEN all[k].token ELSE ""
      condition(k, j) ==
        /\ token(k) = "if" /\ token(k + 1) = "(" /\ token(j) = ")"
        /\ k = 1 \/ all[k - 1].line < all[k].line
        /\ all[k + 1].line = all[k].line
        /\ WellNested([i \in 1..j - k |-> token(k + i)])
      commented(j) ==
        \E l \in {all[j + 1].line} \cup all[j + 1].line..all[j + 2].line - 1 :
          text[l] # clean_lines[l]
      unclear(j) ==
        all[j + 1].line < all[j + 2].line /\ text[all[j + 2].line][1] # "}"
      Empty(l) ==
        {j \in DOMAIN all : /\ all[j].line = l
                            /\ \E k \in 1..j - 1 : condition(k, j)
                            /\ token(j + 1) = "{" /\ token(j + 2) = "}"
                            /\ token(j + 3) # "else"
                            /\ ~commented(j)}
  IN  Processed => \A l \in DOMAIN clean_lines :
        /\ <<l, "empty_if_body">> \in errors => Empty(l) # {}
        /\ (\E j \in Empty(l) : ~unclear(j)) => <<l, "empty_if_body">> \in errors

(* "The policy is that if you #include something in foo.h you don't need   *)
(* to include it again in foo.cc": a required header is not missed when    *)
(* the file includes it, in a branch that no other one has replaced, and   *)
(* nothing is missed in a source file without a header of its own.         *)
MissingHeadersTrue ==
  (pc = "done" /\ PlainConditionals) =>
    \A h \in Headers : <<0, h>> \in errors =>
      /\ \A k \in IncludeLines : HeaderAt(k) = h => ~SeenFrom(k, line)
      /\ FileInfo.is_header \/ \E k \in IncludeLines :
           HeaderInfo[HeaderAt(k)].module

=============================================================================
