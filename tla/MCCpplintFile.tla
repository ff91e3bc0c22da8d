---------------------------- MODULE MCCpplintFile ----------------------------
(* Instances of CpplintFile for TLC: a source file a/my.cc. *)
EXTENDS CpplintFile, TLC

Header(cpp, ext, dir, base, first, canonical) ==
  [cpp |-> cpp, ext |-> ext, dir |-> dir, base |-> base, first |-> first,
   canonical |-> canonical, third_party |-> base = "lua", own |-> base = "my",
   module |-> base = "my"]

MCHeaderInfo ==
  ("c.h" :> Header(FALSE, "h", "", "c", "c", 2)) @@
  ("string" :> Header(TRUE, "", "", "string", "string", 5)) @@
  ("a/my.h" :> Header(FALSE, "h", "a", "my", "my", 1)) @@
  ("a/n.h" :> Header(FALSE, "h", "a", "n", "n", 3)) @@
  ("b/o.h" :> Header(FALSE, "h", "b", "o", "o", 4)) @@
  ("b/o.cc" :> Header(FALSE, "cc", "b", "o", "o", 4)) @@
  ("lua.h" :> Header(FALSE, "h", "", "lua", "lua", 6))

MCHeaders == DOMAIN MCHeaderInfo

Quoted(header) == [header |-> header, system |-> FALSE]
Angled(header) == [header |-> header, system |-> TRUE]

MCWritten ==
  ("<c.h>" :> Angled("c.h")) @@ ("<string>" :> Angled("string")) @@
  ("'string'" :> Quoted("string")) @@
  ("'a/my.h'" :> Quoted("a/my.h")) @@
  ("'a/n.h'" :> Quoted("a/n.h")) @@ ("<a/n.h>" :> Angled("a/n.h")) @@
  ("'b/o.h'" :> Quoted("b/o.h")) @@ ("'b/o.cc'" :> Quoted("b/o.cc")) @@
  ("'lua.h'" :> Quoted("lua.h"))

MCFileInfo == [dir |-> "a", dir_pub |-> "public", base |-> "my", first |-> "my",
               is_header |-> FALSE]
MCRequires == "string" :> "string"
MCOwnHeaders == ("a/my.h" :> {"c.h"}) @@ ("b/o.h" :> {"string"})

Directives == {<<"#if">>, <<"#else">>, <<"#endif">>}

Blocks ==
  {<<"namespace", "{">>, <<"class">>, <<"{">>, <<"}">>} \cup Directives
Arguments ==
  {<<"namespace", "{">>, <<"f", "(">>, <<"class", ",">>, <<"class", ")", "{">>,
   <<"<", "class", ",">>, <<"class", ">">>, <<"class", "{">>, <<"class", ";">>, <<"}">>}
Includes ==
  {<<"#include", w>> : w \in {"<c.h>", "<string>", "'a/my.h'", "'a/n.h'", "<a/n.h>", "'b/o.h'"}}
    \cup Directives \cup {<<>>, <<"#include", "x">>}
Conditionals ==
  {<<"#include", w>> : w \in {"<c.h>", "'a/n.h'"}} \cup Directives
    \cup {<<"asm", "{">>, <<"}">>}
Uses ==
  {<<"#include", w>> : w \in {"<string>", "'string'", "'a/my.h'", "'b/o.h'", "'b/o.cc'", "'lua.h'"}}
    \cup Directives \cup {<<"string">>}
Functions ==
  {<<"f", "(", ")", "{">>, <<"f", "(">>, <<")", "{">>, <<"}">>, <<"x", ";">>, <<>>,
   <<"asm", "(">>, <<")", ";">>}
Comments ==
  {<<"/*", "x">>, <<"x", "*/">>, <<"x", "/*">>, <<"/*", "*/", "x">>, <<"//", "R(">>,
   <<"R(", "x">>, <<")R", ";">>, <<"\"", "//", "\"", "x">>, <<"x", "\"">>}
Bodies ==
  {<<"if", "(">>, <<")", "{">>, <<")", ";">>, <<"if", "(", ")">>, <<"{">>, <<"}">>,
   <<"else">>, <<>>, <<"//", "x">>, <<"/*", "*/", "}">>}
Brackets ==
  {<<t>> : t \in {"(", ")", "{", "}", "<", ">", ";", ">="}}
    \cup {<<"<", "<", "(">>, <<"<", ")">>, <<"operator", "<", "(">>, <<"operator", ">">>,
           <<"operator", ">", ">">>}

MCAlphabets == {
  [lines |-> Blocks, max |-> 5],
  [lines |-> Arguments, max |-> 4],
  [lines |-> Includes, max |-> 4],
  [lines |-> Conditionals, max |-> 5],
  [lines |-> Uses, max |-> 4],
  [lines |-> Functions, max |-> 5],
  [lines |-> Comments, max |-> 4],
  [lines |-> Bodies, max |-> 4],
  [lines |-> Brackets, max |-> 4]}

=============================================================================
