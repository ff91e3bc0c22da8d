------------------------------ MODULE LintText ------------------------------
(***************************************************************************)
(* How build_support/cpplint.py reads the text of a file: it takes the     *)
(* comments and the strings out of the lines (CleansedLines) and finds the *)
(* other end of a bracketed expression (CloseExpression).                  *)
(*                                                                         *)
(* A line is a sequence of tokens.  "x" stands for any word, "R(" and ")R" *)
(* for the ends of a raw string; a token that a check tells apart is       *)
(* written as it is.  There is a blank on each side of ">=", and none      *)
(* between the word "operator" and a sign behind it.                       *)
(***************************************************************************)
EXTENDS Integers, FiniteSets, Sequences, SequencesExt, FiniteSetsExt

FirstOf(line, token) == SelectInSeq(line, LAMBDA t : t = token)
SuffixFrom(line, i) == SubSeq(line, i, Len(line))
CountOf(line, token) == Cardinality({i \in DOMAIN line : line[i] = token})
(* The first index from i on that is in S, or Len(lines) + 1. *)
NextIn(lines, i, S) == Min({k \in S : k >= i} \cup {Len(lines) + 1})

-----------------------------------------------------------------------------
(* Comments of several lines *)

CommentStarts(lines) ==
  {i \in DOMAIN lines : lines[i] # <<>> /\ lines[i][1] = "/*" /\ FirstOf(lines[i], "*/") = 0}

CommentEnds(lines) == {i \in DOMAIN lines : lines[i] # <<>> /\ Last(lines[i]) = "*/"}

RemoveMultiLineCommentsFromRange(lines, range) ==
  [i \in DOMAIN lines |-> IF i \in range THEN <<"/*", "*/">> ELSE lines[i]]

(* Mutant: the search goes on at the last line of the comment, which is    *)
(* kept.                                                                   *)
MultiLineComments_end(lines) ==
  LET from[i \in 1..Len(lines) + 1] ==
        LET begin == NextIn(lines, i, CommentStarts(lines))
            end == NextIn(lines, begin, CommentEnds(lines))
        IN  IF begin > Len(lines) THEN [range |-> {}, error |-> {}]
            ELSE IF end > Len(lines) THEN [range |-> {}, error |-> {begin}]
            ELSE [from[end] EXCEPT !.range = @ \cup begin..end - 1]
  IN  from[1]

(* The lines of all comments of several lines, one after the other, and    *)
(* the line of one that has no end.                                        *)
MultiLineComments(lines) ==
  LET from[i \in 1..Len(lines) + 1] ==
        LET begin == NextIn(lines, i, CommentStarts(lines))
            end == NextIn(lines, begin, CommentEnds(lines))
        IN  IF begin > Len(lines) THEN [range |-> {}, error |-> {}]
            ELSE IF end > Len(lines) THEN [range |-> {}, error |-> {begin}]
            ELSE [from[end + 1] EXCEPT !.range = @ \cup begin..end]
  IN  from[1]

RemoveMultiLineComments(lines) ==
  RemoveMultiLineCommentsFromRange(lines, MultiLineComments(lines).range)

-----------------------------------------------------------------------------
(* Strings and comments of one line *)

IsCppString(line) == CountOf(line, "\"") % 2 = 1

(* A "//" that is not in a string. *)
LineComment(line) ==
  {i \in DOMAIN line : line[i] = "//" /\ ~IsCppString(SubSeq(line, 1, i - 1))}

RawStringEnd(line) ==
  IF FirstOf(line, ")R") = 0 THEN [line |-> <<"\"", "\"">>, inside |-> TRUE]
  ELSE [line |-> <<"\"", "\"">> \o SuffixFrom(line, FirstOf(line, ")R") + 1), inside |-> FALSE]

RawStringStart[line \in Seq(STRING)] ==
  LET start == FirstOf(line, "R(")
      head == SubSeq(line, 1, start - 1)
      end == RawStringEnd(SuffixFrom(line, start + 1))
  IN  IF start = 0 \/ LineComment(head) # {} THEN [line |-> line, inside |-> FALSE]
      ELSE IF end.inside THEN [line |-> head \o end.line, inside |-> TRUE]
      ELSE RawStringStart[head \o end.line]

(* A line that begins inside a raw string, or not. *)
CleanseRawLine(line, inside) ==
  LET end == RawStringEnd(line)
  IN  IF inside /\ end.inside THEN end
      ELSE RawStringStart[IF inside THEN end.line ELSE line]

CleanseRawStrings(lines) ==
  LET inside[l \in 0..Len(lines)] ==
        l > 0 /\ CleanseRawLine(lines[l], inside[l - 1]).inside
  IN  [l \in DOMAIN lines |-> CleanseRawLine(lines[l], inside[l - 1]).line]

(* The comments of one line: first the text from "//" on, then each pair   *)
(* of comment marks.                                                       *)
RemoveComments[line \in Seq(STRING)] ==
  LET open == FirstOf(line, "/*")
      ends == {i \in DOMAIN line : i > open /\ line[i] = "*/"}
  IN  IF open = 0 \/ ends = {} THEN line
      ELSE RemoveComments[SubSeq(line, 1, open - 1) \o SuffixFrom(line, Min(ends) + 1)]

CleanseComments(line) ==
  LET slashes == FirstOf(line, "//")
  IN  RemoveComments[IF slashes # 0 /\ ~IsCppString(SubSeq(line, 1, slashes - 1))
                     THEN SubSeq(line, 1, slashes - 1) ELSE line]

(* Each string is replaced by an empty one, which is left out here.        *)
CollapseStrings[line \in Seq(STRING)] ==
  LET quote == FirstOf(line, "\"")
      tail == SuffixFrom(line, quote + 1)
      second == FirstOf(tail, "\"")
  IN  IF quote = 0 \/ second = 0 THEN line
      ELSE SubSeq(line, 1, quote - 1) \o CollapseStrings[SuffixFrom(tail, second + 1)]

(* The strings go before the comments: there may be a "//" in a string.    *)
CleansedLine(line) == CleanseComments(CollapseStrings[line])

(* clean_lines.elided *)
Elided(text) ==
  LET lines == CleanseRawStrings(RemoveMultiLineComments(text))
  IN  [i \in DOMAIN text |-> CleansedLine(lines[i])]

-----------------------------------------------------------------------------
(* Expressions *)

Open == {"(", "[", "{"}
Close == {")", "]", "}"}
Matches(open, close) == <<open, close>> \in {<<"(", ")">>, <<"[", "]">>, <<"{", "}">>}

(* The stack without the angle brackets on top, which must have been       *)
(* operators.                                                              *)
Drop(stack, angle) ==
  SubSeq(stack, 1, Max({0} \cup {i \in DOMAIN stack : stack[i] # angle}))

(* What a scan has found: it goes on with a stack, it has given up, or it  *)
(* has found the end.                                                      *)
Scanning(stack) == [state |-> "scanning", stack |-> stack]
GivenUp == [state |-> "given up", stack |-> <<>>]
Found == [state |-> "found", stack |-> <<>>]
PopOr(stack, empty) == IF Len(stack) = 1 THEN empty ELSE Scanning(Front(stack))

Preceded(line, i, token) == i > 1 /\ line[i - 1] = token

(* What the code takes for the name of an operator function when it looks  *)
(* for the end: it leaves out one character more than the sign, a blank    *)
(* for ">=".  So operator> closes a bracket, the second sign of operator>> *)
(* does not.                                                               *)
OneCharacter == Open \cup Close \cup {"<", ">", ";", ","}
OperatorName(line, i) ==
  IF line[i] = ">=" THEN Preceded(line, i, "operator")
  ELSE i > 1 /\ line[i - 1] \in OneCharacter /\ Preceded(line, i - 1, "operator")

(* A step at token i, where left is the stack behind a closing bracket or  *)
(* a semicolon.                                                            *)
EndStepTo(left, line, i, stack) ==
  LET c == line[i]
  IN  CASE c \in Open -> Scanning(Append(stack, c))
        [] c = "<" /\ Preceded(line, i, "<") ->
             IF stack # <<>> /\ Last(stack) = "<" THEN PopOr(stack, GivenUp)
             ELSE Scanning(stack)
        [] c = "<" /\ ~Preceded(line, i, "<") ->
             IF Preceded(line, i, "operator") THEN Scanning(stack)
             ELSE Scanning(Append(stack, c))
        [] c \in Close ->
             IF left # <<>> /\ Matches(Last(left), c) THEN PopOr(left, Found) ELSE GivenUp
        [] c \in {">", ">="} ->
             IF OperatorName(line, i) \/ stack = <<>> \/ Last(stack) # "<" THEN Scanning(stack)
             ELSE PopOr(stack, Found)
        [] c = ";" -> IF left = <<>> THEN GivenUp ELSE Scanning(left)
        [] OTHER -> Scanning(stack)

(* Mutant: a closing bracket does not drop the angle brackets. *)
EndStep_operators(line, i, stack) ==
  EndStepTo(IF line[i] \in Close THEN stack ELSE Drop(stack, "<"), line, i, stack)

(* The body of the loop of FindEndOfExpressionInLine at token i. *)
EndStep(line, i, stack) == EndStepTo(Drop(stack, "<"), line, i, stack)

(* The end of the expression that begins at pos, by a scan from there on   *)
(* with a stack of brackets: a position, or NoPos.                         *)
NoPos == <<0, 0>>

FindEndOfExpression(lines, pos) ==
  LET from[l \in 1..Len(lines), i \in Nat, stack \in Seq(STRING)] ==
        LET step == EndStep(lines[l], i, stack)
        IN  CASE i > Len(lines[l]) ->
                   IF stack = <<>> \/ l = Len(lines) THEN NoPos ELSE from[l + 1, 1, stack]
              [] i <= Len(lines[l]) /\ step.state = "found" -> <<l, i>>
              [] i <= Len(lines[l]) /\ step.state = "given up" -> NoPos
              [] OTHER -> from[l, i + 1, step.stack]
  IN  from[pos[1], pos[2], <<>>]

CloseExpression(lines, pos) ==
  LET line == lines[pos[1]]
      shift == line[pos[2]] = "<" /\ pos[2] < Len(line) /\ line[pos[2] + 1] \in {"<", "="}
  IN  IF line[pos[2]] \notin Open \cup {"<"} \/ shift THEN NoPos
      ELSE FindEndOfExpression(lines, pos)

(* The body of the loop of FindStartOfExpressionInLine at token i; this    *)
(* search never takes ">=" or "operator>" for a bracket.                   *)
StartStep(line, i, stack) ==
  LET c == line[i]
      left == Drop(stack, ">")
  IN  CASE c \in Close -> Scanning(Append(stack, c))
        [] c = ">" -> Scanning(IF Preceded(line, i, "operator") THEN stack ELSE Append(stack, c))
        [] c = "<" ->
             IF Preceded(line, i, "<") \/ stack = <<>> \/ Last(stack) # ">" THEN Scanning(stack)
             ELSE PopOr(stack, Found)
        [] c \in Open ->
             IF left # <<>> /\ Matches(c, Last(left)) THEN PopOr(left, Found) ELSE GivenUp
        [] c = ";" -> IF left = <<>> THEN GivenUp ELSE Scanning(left)
        [] OTHER -> Scanning(stack)

(* It passes both tokens of a left shift.                                  *)
FindStartOfExpression(lines, pos) ==
  LET from[l \in 1..Len(lines), i \in Int, stack \in Seq(STRING)] ==
        LET step == StartStep(lines[l], i, stack)
            shift == lines[l][i] = "<" /\ Preceded(lines[l], i, "<")
        IN  CASE i < 1 -> IF stack = <<>> \/ l = 1 THEN NoPos
                          ELSE from[l - 1, Len(lines[l - 1]), stack]
              [] i >= 1 /\ step.state = "found" -> <<l, i>>
              [] i >= 1 /\ step.state = "given up" -> NoPos
              [] OTHER -> from[l, i - (IF shift THEN 2 ELSE 1), step.stack]
  IN  from[pos[1], pos[2], <<>>]

ReverseCloseExpression(lines, pos) ==
  IF lines[pos[1]][pos[2]] \notin Close \cup {">", ">="} THEN NoPos
  ELSE FindStartOfExpression(lines, pos)

-----------------------------------------------------------------------------
(* Reference definitions *)

(* The tokens of each line that are code, by a scan of the whole text that *)
(* knows whether it is in a comment, a string or a raw string.             *)
Step(s, t) ==
  CASE s = "code" -> (CASE t = "/*" -> "comment" [] t = "//" -> "line"
                       [] t = "\"" -> "string" [] t = "R(" -> "raw" [] OTHER -> "code")
    [] s = "comment" -> IF t = "*/" THEN "code" ELSE "comment"
    [] s = "string" -> IF t = "\"" THEN "code" ELSE "string"
    [] s = "raw" -> IF t = ")R" THEN "code" ELSE "raw"
    [] s = "line" -> "line"

(* The state after each line, and what it was before each of its tokens.   *)
Scan(lines) ==
  FoldLeft(LAMBDA r, line :
             LET states == FoldLeft(LAMBDA q, t : Append(q, Step(Last(q), t)),
                             <<IF r = <<>> \/ Last(Last(r)) \in {"line", "string"}
                               THEN "code" ELSE Last(Last(r))>>, line)
             IN  Append(r, states), <<>>, lines)

CodeOf(lines) ==
  LET states == Scan(lines)
      code(l) == {i \in DOMAIN lines[l] :
                    states[l][i] = "code" /\ states[l][i + 1] = "code"}
  IN  [l \in DOMAIN lines |->
         LET is == SetToSortSeq(code(l), <) IN [k \in DOMAIN is |-> lines[l][is[k]]]]

(* The round, square and curly brackets between two positions that are     *)
(* well nested.                                                            *)
Positions(lines) == UNION {{<<l, i>> : i \in DOMAIN lines[l]} : l \in DOMAIN lines}

Before(p, q) == p[1] < q[1] \/ (p[1] = q[1] /\ p[2] < q[2])

WellNested(tokens) ==
  FoldLeft(LAMBDA stack, t :
             CASE t \in Open -> Append(stack, t)
               [] t \in Close -> IF stack # <<>> /\ Matches(Last(stack), t)
                                 THEN Front(stack) ELSE <<t>> \o stack
               [] OTHER -> stack,
           <<>>, tokens) = <<>>

Between(lines, p, q) ==
  IF p[1] = q[1] THEN SubSeq(lines[p[1]], p[2], q[2])
  ELSE SuffixFrom(lines[p[1]], p[2])
         \o FlattenSeq([k \in 1..(q[1] - p[1] - 1) |-> lines[p[1] + k]])
         \o SubSeq(lines[q[1]], 1, q[2])

=============================================================================
