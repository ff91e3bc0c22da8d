----------------------------- MODULE LintNesting -----------------------------
(***************************************************************************)
(* NestingState of build_support/cpplint.py: the stack of the namespaces,  *)
(* classes and other blocks a line is in, updated line by line, with the   *)
(* copies that are kept and restored at #if, #else and #endif.             *)
(*                                                                         *)
(* The tokens "namespace", "class" and "extern" stand for themselves and   *)
(* the name or string after them.  What the checks of a block say of its   *)
(* indentation, its access keywords and its closing comment is left out.   *)
(***************************************************************************)
EXTENDS LintText

Namespace == "namespace"
Class == "class"
Block == "block"
ExternC == "extern"

NewBlock(kind, linenum, open) ==
  [kind |-> kind, starting_linenum |-> linenum, seen_open_brace |-> open,
   open_parentheses |-> 0, inline_asm |-> "no"]

NewNesting == [stack |-> <<>>, pp_stack |-> <<>>]

SeenOpenBrace(stack) == stack = <<>> \/ Last(stack).seen_open_brace
InAsmBlock(stack) == stack # <<>> /\ Last(stack).inline_asm # "no"
SetLast(stack, block) == Append(Front(stack), block)

-----------------------------------------------------------------------------
(* Preprocessor directives *)

Directive(line) == IF line = <<>> THEN "" ELSE line[1]
If == {"#if", "#ifdef", "#ifndef"}
Else == {"#else", "#elif"}
Endif == {"#endif"}

(* Mutant: each #elif saves the stack anew. *)
UpdatePreprocessor_elif(n, line) ==
  LET top == Last(n.pp_stack)
  IN  CASE Directive(line) \in If ->
             [n EXCEPT !.pp_stack = Append(@, [stack_before_if |-> n.stack,
                stack_before_else |-> <<>>, seen_else |-> FALSE])]
        [] Directive(line) \in Else /\ n.pp_stack # <<>> ->
             [stack |-> top.stack_before_if,
              pp_stack |-> SetLast(n.pp_stack, [top EXCEPT
                !.seen_else = TRUE, !.stack_before_else = n.stack])]
        [] Directive(line) \in Endif /\ n.pp_stack # <<>> ->
             [stack |-> IF top.seen_else THEN top.stack_before_else ELSE n.stack,
              pp_stack |-> Front(n.pp_stack)]
        [] OTHER -> n

(* An #else or #endif without its #if is ignored. *)
UpdatePreprocessor(n, line) ==
  LET top == Last(n.pp_stack)
  IN  CASE Directive(line) \in If ->
             [n EXCEPT !.pp_stack = Append(@, [stack_before_if |-> n.stack,
                stack_before_else |-> <<>>, seen_else |-> FALSE])]
        [] Directive(line) \in Else /\ n.pp_stack # <<>> ->
             [stack |-> top.stack_before_if,
              pp_stack |-> SetLast(n.pp_stack, IF top.seen_else THEN top
                ELSE [top EXCEPT !.seen_else = TRUE, !.stack_before_else = n.stack])]
        [] Directive(line) \in Endif /\ n.pp_stack # <<>> ->
             [stack |-> IF top.seen_else THEN top.stack_before_else ELSE n.stack,
              pp_stack |-> Front(n.pp_stack)]
        [] OTHER -> n

-----------------------------------------------------------------------------
(* Update *)

StartsAsm(line) == Len(line) > 1 /\ line[1] = "asm" /\ line[2] \in {"(", "{"}

(* The parentheses of the line count for the innermost block, and may      *)
(* begin or end an assembly statement there.                               *)
CountParentheses(stack, line) ==
  LET change == CountOf(line, "(") - CountOf(line, ")")
      block == Last(stack)
      open == block.open_parentheses + change
      asm == CASE block.inline_asm \in {"no", "end"} ->
                    IF change # 0 /\ open = 1 /\ StartsAsm(line) THEN "inside" ELSE "no"
               [] block.inline_asm = "inside" /\ open = 0 -> "end"
               [] OTHER -> block.inline_asm
  IN  IF stack = <<>> THEN stack
      ELSE SetLast(stack, [block EXCEPT !.open_parentheses = open, !.inline_asm = asm])

(* The namespaces that begin the line, and what is left of it.             *)
ConsumeNamespaces(stack, line, linenum) ==
  LET next(rest) == 1 + Max({1, FirstOf(rest, "{")})
      from[rest \in Seq(STRING)] ==
        IF Directive(rest) # "namespace" THEN [blocks |-> <<>>, line |-> rest]
        ELSE LET r == from[SuffixFrom(rest, next(rest))]
             IN  [r EXCEPT !.blocks =
                    <<NewBlock(Namespace, linenum, FirstOf(rest, "{") # 0)>> \o @]
  IN  [stack |-> stack \o from[line].blocks, line |-> from[line].line]

(* Are the tokens from a position on still in a template argument list?    *)
InTemplateArgumentList(lines, linenum, pos) ==
  LET from[l \in Nat, i \in Nat] ==
        IF l > Len(lines) THEN FALSE
        ELSE IF i > Len(lines[l]) THEN from[l + 1, 1]
        ELSE CASE lines[l][i] \in {"{", "}", ";"} -> FALSE
               [] lines[l][i] \in {">", "=", "[", "]", "."} -> TRUE
               [] lines[l][i] = "<" ->
                    LET end == CloseExpression(lines, <<l, i>>)
                    IN  end # NoPos /\ from[end[1], end[2] + 1]
               [] OTHER -> from[l, i + 1]
  IN  from[linenum, pos]

(* A class declaration that begins what is left of the line. *)
ConsumeClass(r, lines, linenum) ==
  LET column == Len(lines[linenum]) - Len(r.line)
  IN  IF /\ r.line # <<>> /\ r.line[1] = "class"
         /\ r.stack = <<>> \/ Last(r.stack).open_parentheses = 0
         /\ ~InTemplateArgumentList(lines, linenum, column + 2)
      THEN [stack |-> Append(r.stack, NewBlock(Class, linenum, FALSE)),
            line |-> Tail(r.line)]
      ELSE r

IsExternC(line) == Len(line) > 1 /\ line[1] = "extern" /\ line[2] = "{"

(* The next brace, semicolon or closing parenthesis; rest is the line from *)
(* the one before it on.                                                   *)
ConsumeToken(stack, token, rest, linenum) ==
  CASE token = "{" ->
         IF ~SeenOpenBrace(stack)
         THEN SetLast(stack, [Last(stack) EXCEPT !.seen_open_brace = TRUE])
         ELSE IF IsExternC(rest) THEN Append(stack, NewBlock(ExternC, linenum, TRUE))
         ELSE Append(stack, [NewBlock(Block, linenum, TRUE) EXCEPT
                !.inline_asm = IF StartsAsm(rest) THEN "block" ELSE "no"])
    [] token \in {";", ")"} -> IF SeenOpenBrace(stack) THEN stack ELSE Front(stack)
    [] token = "}" /\ stack # <<>> -> Front(stack)
    [] OTHER -> stack

Stops == {"{", ";", ")", "}"}

ConsumeTokens(stack, line, linenum) ==
  LET last(k) == Max({0} \cup {i \in 1..k - 1 : line[i] \in Stops})
      after[k \in 0..Len(line)] ==
        IF k = 0 THEN stack
        ELSE IF line[k] \notin Stops THEN after[k - 1]
        ELSE ConsumeToken(after[k - 1], line[k], SuffixFrom(line, last(k) + 1), linenum)
  IN  after[Len(line)]

Update(n, lines, linenum) ==
  LET line == lines[linenum]
      pp == UpdatePreprocessor(n, line)
      head == ConsumeNamespaces(CountParentheses(pp.stack, line), line, linenum)
      body == ConsumeClass(head, lines, linenum)
  IN  [pp EXCEPT !.stack = ConsumeTokens(body.stack, body.line, linenum)]

(* The classes and namespaces that are not complete at the end of a file.  *)
CheckCompletedBlocks(stack) ==
  {<<stack[i].starting_linenum, stack[i].kind>> :
     i \in {k \in DOMAIN stack : stack[k].kind \in {Class, Namespace}}}

-----------------------------------------------------------------------------
(* Reference definitions *)

(* The group of an #if: the #if, its #else lines and its #endif that are   *)
(* among the first n lines.                                                *)
Ends(lines, n, i) ==
  {k \in i + 1..n : Directive(lines[k]) \in Endif
     /\ Cardinality({j \in i..k : Directive(lines[j]) \in If})
          = Cardinality({j \in i..k : Directive(lines[j]) \in Endif})}

End(lines, n, i) == IF Ends(lines, n, i) = {} THEN n + 1 ELSE Min(Ends(lines, n, i))

Inner(lines, n, i) ==
  {k \in i + 1..End(lines, n, i) - 1 :
     \E j \in i + 1..k - 1 : Directive(lines[j]) \in If /\ k <= End(lines, n, j)}

Elses(lines, n, i) ==
  {k \in i + 1..End(lines, n, i) - 1 :
     Directive(lines[k]) \in Else /\ k \notin Inner(lines, n, i)}

Ifs(lines, n) == {i \in 1..n : Directive(lines[i]) \in If}

(* "Preprocessor condition evaluates to true from #if up to first #else/   *)
(* #elif/#endif ... false from #else/#elif up to #endif.  We still perform *)
(* lint checks on these lines": of the first n lines those that a reader   *)
(* of line n sees, in a group that is over the first branch, in one that   *)
(* is not the branch of line n.                                            *)
Visible(lines, n) ==
  {l \in 1..n : \A i \in Ifs(lines, n) : i < l /\ l < End(lines, n, i) =>
     LET elses == Elses(lines, n, i)
     IN  IF End(lines, n, i) <= n THEN \A e \in elses : l < e
         ELSE \A e \in elses : e <= l}

(* The blocks that are open after the lines ls, by their tokens alone: a   *)
(* brace belongs to the namespace or class that has been declared and not  *)
(* yet opened, or to a block; a class in parentheses declares nothing.     *)
(* The text is odd if a declaration is broken off, if there is a brace in  *)
(* parentheses, or a class in parentheses that are in no block.            *)
OpenBlocks(lines, ls) ==
  LET seq == SetToSortSeq(ls, <)
      tokens == FlattenSeq([k \in DOMAIN seq |->
                  [i \in DOMAIN lines[seq[k]] |-> <<seq[k], lines[seq[k]][i]>>]])
      none == <<0, Block>>
      step(r, t) ==
        CASE t[2] \in {"namespace", "class"} /\ r.parens = 0 ->
               [r EXCEPT !.head = t, !.odd = @ \/ r.head # none]
          [] t[2] = "class" /\ r.parens # 0 -> [r EXCEPT !.odd = @ \/ r.open = <<>>]
          [] t[2] = "(" -> [r EXCEPT !.parens = @ + 1, !.odd = @ \/ r.head # none]
          [] t[2] = ")" -> [r EXCEPT !.parens = @ - 1, !.odd = @ \/ r.parens = 0]
          [] t[2] = ";" -> [r EXCEPT !.head = none]
          [] t[2] = "{" ->
               [r EXCEPT !.open = Append(@, IF r.head = none THEN <<t[1], Block>> ELSE r.head),
                         !.head = none, !.odd = @ \/ r.parens # 0]
          [] t[2] = "}" ->
               [r EXCEPT !.open = IF @ = <<>> THEN @ ELSE Front(@),
                         !.odd = @ \/ r.parens # 0 \/ r.head # none]
          [] OTHER -> r
  IN  FoldLeft(step, [open |-> <<>>, head |-> none, parens |-> 0, odd |-> FALSE], tokens)

=============================================================================
