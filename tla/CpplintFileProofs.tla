-------------------------- MODULE CpplintFileProofs --------------------------
(***************************************************************************)
(* Proofs about CpplintFile, for texts of any length over any lines: what  *)
(* is reported of the includes of a file is what its includes and          *)
(* conditionals say, read as a whole, and what is reported of the lengths  *)
(* of its functions is what their lines say.                               *)
(***************************************************************************)
EXTENDS CpplintFile, SequenceTheorems, FiniteSetTheorems, WellFoundedInduction, TLAPS

IncludeCategories == {"include", "include_cc", "include_order", "include_alpha"}

(* The section that _IncludeState keeps while an include of this group is  *)
(* the last one.                                                           *)
SectionOf(group) ==
  CASE group = "my" -> MY_H_SECTION
    [] group = "c_system" -> C_SECTION
    [] group = "cpp_system" -> CPP_SECTION
    [] OTHER -> OTHER_H_SECTION

(* The values of _IncludeState. *)
IncludeStates ==
  [include_list : Seq(SUBSET (Headers \X Nat)) \ {<<>>},
   section : INITIAL_SECTION..OTHER_H_SECTION, last_header : Nat]

LastOf(S) == {k \in S : \A j \in S : j <= k}

(* The lines of the text, and how far they have been processed.            *)
LineInv ==
  /\ alphabet \in Alphabets
  /\ text \in Seq(UNION {a.lines : a \in Alphabets})
  /\ pc \in {"write", "lines", "done"}
  /\ Len(clean_lines) \in Nat /\ DOMAIN clean_lines = 1..Len(clean_lines)
  /\ line \in 0..Len(clean_lines)
  /\ pc = "write" => line = 0 /\ errors = {} /\ include_state = NewIncludes
  /\ checked \subseteq 1..line
  /\ include_state \in IncludeStates

(* The errors about includes are at lines that have been processed, and    *)
(* what the end of the file adds comes at the end.                         *)
ErrorInv ==
  /\ \A e \in errors : e[2] \in IncludeCategories => e[1] \in IncludeLines
  /\ pc # "done" => \A e \in errors : e[2] \in Categories
  /\ \A k \in IncludeLines : <<k, "include_cc">> \in errors =>
       HeaderInfo[HeaderAt(k)].ext = "cc"

(* The section stands for the kinds of the includes since the last         *)
(* directive, and last_header for the last of them.                        *)
SectionFits(section, kinds, ks) ==
  /\ section >= MY_H_SECTION <=> ks # {}
  /\ section >= C_SECTION <=> \E k \in ks : kinds[k] \notin MyKinds
  /\ section >= CPP_SECTION <=> TooLate(kinds, ks, "c_system")
  /\ section = OTHER_H_SECTION <=> TooLate(kinds, ks, "cpp_system")

SectionInv == SectionFits(include_state.section, Kinds, SinceDirective(line + 1))

LastHeaderInv ==
  LET since == SinceDirective(line + 1)
  IN  /\ since = {} => include_state.last_header = 0
      /\ \A k \in LastOf(since) :
           /\ include_state.last_header = HeaderInfo[HeaderAt(k)].canonical
           /\ <<k, "include_order">> \notin errors =>
                include_state.section = SectionOf(Group(k))

(* The checked lines l with a directive of this kind. *)
CheckedAt(l, directives) == l \in checked /\ Directive(clean_lines[l]) \in directives

(* Line k is forgotten before line l: there is an #else in between, and    *)
(* no #if before that.                                                     *)
Forgotten(k, l) ==
  \E e \in k + 1..l - 1 :
    CheckedAt(e, Else) /\ \A d \in k + 1..e - 1 : ~CheckedAt(d, If)

(* Line k belongs to the last list of includes. *)
Recent(k, l) == \A d \in k + 1..l - 1 : ~CheckedAt(d, If \cup Else)

Entry(k) == <<HeaderAt(k), k>>
Older(s) == UNION ToSet(Front(s.include_list))

(* The last list has the includes since the last #if or #else, the others  *)
(* those before that were not forgotten.                                   *)
ListInv ==
  /\ Last(include_state.include_list) =
       {Entry(k) : k \in {j \in 1..line : OnList(j) /\ Recent(j, line + 1)}}
  /\ Older(include_state) =
       {Entry(k) : k \in {j \in 1..line :
          OnList(j) /\ ~Recent(j, line + 1) /\ ~Forgotten(j, line + 1)}}

(* What has been reported of the include in a line. *)
OrderAt(l) ==
  <<l, "include_order">> \in errors <=>
    OnList(l) /\ TooLate(Kinds, SinceDirective(l), Kinds[l])

AlphabetAt(l) ==
  (\A k \in SinceDirective(l) \cup {l} : <<k, "include_order">> \notin errors) =>
    (<<l, "include_alpha">> \in errors <=>
       /\ OnList(l)
       /\ l > 1 /\ StartsInclude(clean_lines[l - 1])
       /\ \E k \in LastOf(SinceDirective(l)) :
            /\ Group(k) = Group(l)
            /\ HeaderInfo[HeaderAt(k)].canonical > HeaderInfo[HeaderAt(l)].canonical)

DuplicateAt(l) ==
  <<l, "include">> \in errors <=>
    \E k \in 1..l - 1 : OnList(k) /\ HeaderAt(k) = HeaderAt(l) /\ ~Forgotten(k, l)

Reports == \A l \in IncludeLines : OrderAt(l) /\ AlphabetAt(l) /\ DuplicateAt(l)

(* A header that is missing is required and not on a list. *)
MissingReported ==
  pc = "done" => \A h \in Headers : <<0, h>> \in errors =>
    /\ \E t \in DOMAIN Requires : h = Requires[t]
    /\ \A f \in Included(include_state) : f[1] # h
    /\ FileInfo.is_header \/ \E f \in Included(include_state) : HeaderInfo[f[1]].module

IInv ==
  /\ LineInv /\ ErrorInv
  /\ SectionInv /\ LastHeaderInv /\ ListInv
  /\ Reports /\ MissingReported


-----------------------------------------------------------------------------
(* Numbers and sequences                                                   *)

(* A set of numbers has a least one, ... *)
LEMMA LeastExists ==
  ASSUME NEW S \in SUBSET Nat, S # {}
  PROVE  /\ Min(S) \in S
         /\ \A y \in S : Min(S) <= y
<1>1. PICK x \in S : \A y \in S : ~(<<y, x>> \in OpToRel(<, Nat))
  BY NatLessThanWellFounded, WFMin
<1>2. \A y \in S : x <= y
  <2>1. \A y \in S : ~(y < x)
    BY <1>1 DEF OpToRel
  <2>2. x \in Nat /\ \A y \in S : y \in Nat
    OBVIOUS
  <2> QED
    BY <2>1, <2>2
<1> DEFINE P(m) == m \in S /\ \A y \in S : m <= y
<1>3. \E m : P(m)
  BY <1>2
<1>4. Min(S) = CHOOSE m : P(m)
  BY DEF Min
<1> QED
  BY <1>3, <1>4

(* ... and one of the first numbers has a greatest one. *)
LEMMA LastExists ==
  ASSUME NEW n \in Nat, NEW S \in SUBSET (1..n), S # {}
  PROVE  LastOf(S) # {}
<1> DEFINE T == {n - k : k \in S}
<1>1. \A k \in S : k \in 1..n /\ n - k \in Nat
  OBVIOUS
<1>2. T \in SUBSET Nat /\ T # {}
  BY <1>1
<1> HIDE DEF T
<1>3. PICK m \in T : \A y \in T : m <= y
  BY <1>2, LeastExists
<1>4. PICK k \in S : m = n - k
  BY <1>3 DEF T
<1>5. \A j \in S : n - j \in T
  BY DEF T
<1>6. \A j \in S : j <= k
  BY <1>1, <1>3, <1>4, <1>5
<1> QED
  BY <1>6 DEF LastOf

(* What Append does to the parts of a list of sets ... *)
LEMMA AppendParts ==
  ASSUME NEW T, NEW s \in Seq(SUBSET T), NEW x \in SUBSET T
  PROVE  /\ Append(s, x) \in Seq(SUBSET T) \ {<<>>}
         /\ Front(Append(s, x)) = s
         /\ Last(Append(s, x)) = x
<1>1. Append(s, x) \in Seq(SUBSET T) /\ Len(Append(s, x)) = Len(s) + 1
  OBVIOUS
<1>2. Append(s, x)[Len(s) + 1] = x
  OBVIOUS
<1>3. SubSeq(Append(s, x), 1, Len(s)) = s
  BY AppendProperties
<1>4. Append(s, x) # <<>>
  BY <1>1
<1> QED
  BY <1>1, <1>2, <1>3, <1>4 DEF Front, Last

(* ... and what a list has. *)
LEMMA ListParts ==
  ASSUME NEW T, NEW s \in Seq(SUBSET T) \ {<<>>}
  PROVE  /\ Front(s) \in Seq(SUBSET T)
         /\ Last(s) \in SUBSET T
         /\ UNION ToSet(s) = (UNION ToSet(Front(s))) \cup Last(s)
<1>1. Len(s) \in Nat /\ Len(s) > 0 /\ DOMAIN s = 1..Len(s)
  BY EmptySeq
<1>2. /\ Front(s) \in Seq(SUBSET T)
      /\ Len(Front(s)) = Len(s) - 1
      /\ \A i \in 1..Len(s) - 1 : Front(s)[i] = s[i]
  BY <1>1, SubSeqProperties DEF Front
<1>3. DOMAIN Front(s) = 1..Len(s) - 1
  BY <1>2
<1>4. \A n \in Nat \ {0} :
        /\ \A i \in 1..n : i \in 1..n - 1 \/ i = n
        /\ \A i \in 1..n - 1 : i \in 1..n
        /\ n \in 1..n
  OBVIOUS
<1>5. /\ \A i \in 1..Len(s) : i \in 1..Len(s) - 1 \/ i = Len(s)
      /\ \A i \in 1..Len(s) - 1 : i \in 1..Len(s)
      /\ Len(s) \in 1..Len(s)
  <2>1. Len(s) \in Nat \ {0}
    BY <1>1
  <2> HIDE <1>1
  <2> QED
    BY <2>1, <1>4, Zenon
<1>6. s[Len(s)] \in SUBSET T
  BY <1>5, ElementOfSeq
<1>7. \A y : y \in UNION ToSet(s) <=> \E i \in 1..Len(s) : y \in s[i]
  BY <1>1 DEF ToSet
<1>8. \A y : y \in UNION ToSet(Front(s)) <=> \E i \in 1..Len(s) - 1 : y \in s[i]
  BY <1>2, <1>3 DEF ToSet
<1>9. \A y : y \in UNION ToSet(s) <=> y \in UNION ToSet(Front(s)) \/ y \in s[Len(s)]
  BY <1>5, <1>7, <1>8
<1>10. UNION ToSet(s) = (UNION ToSet(Front(s))) \cup s[Len(s)]
  BY <1>9
<1> QED
  BY <1>2, <1>6, <1>10 DEF Last

-----------------------------------------------------------------------------
(* What the helpers of the model return                                    *)

(* The kinds of headers. *)
LEMMA KindIs ==
  ASSUME NEW h
  PROVE  Kind(h) \in {"c_system", "cpp_system", "likely_my", "possible_my", "other"}
BY DEF Kind

(* Cleansing keeps the number of lines. *)
LEMMA ElidedKeepsLines ==
  ASSUME NEW L, NEW t \in Seq(L)
  PROVE  /\ DOMAIN Elided(t) = 1..Len(t)
         /\ Len(Elided(t)) = Len(t)
<1>1. DOMAIN t = 1..Len(t) /\ Len(t) \in Nat
  OBVIOUS
<1>2. \E e : Elided(t) = [i \in 1..Len(t) |-> e[i]]
  <2> DEFINE lines == CleanseRawStrings(RemoveMultiLineComments(t))
             e == [i \in DOMAIN t |-> CleansedLine(lines[i])]
  <2>1. Elided(t) = e
    BY DEF Elided
  <2> HIDE DEF lines
  <2>2. e = [i \in 1..Len(t) |-> e[i]]
    BY <1>1
  <2> QED
    BY <2>1, <2>2
<1>3. PICK e : Elided(t) = [i \in 1..Len(t) |-> e[i]]
  BY <1>2
<1> DEFINE A == {e[i] : i \in 1..Len(t)}
<1>4. [i \in 1..Len(t) |-> e[i]] \in [1..Len(t) -> A]
  OBVIOUS
<1> HIDE DEF A
<1>5. [i \in 1..Len(t) |-> e[i]] \in Seq(A)
  BY <1>1, <1>4, SeqDef
<1>6. Len([i \in 1..Len(t) |-> e[i]]) = Len(t)
  BY <1>1, <1>4, <1>5, LenProperties
<1> QED
  BY <1>3, <1>6


(* The greater of two sections. *)
LEMMA MaxOfSections ==
  ASSUME NEW m \in INITIAL_SECTION..OTHER_H_SECTION
  PROVE  \A n \in {C_SECTION, CPP_SECTION} : Max({m, n}) = IF m <= n THEN n ELSE m
<1> TAKE n \in {C_SECTION, CPP_SECTION}
<1> DEFINE big == IF m <= n THEN n ELSE m
<1>1. m \in Nat /\ n \in Nat
  BY DEF INITIAL_SECTION, OTHER_H_SECTION, C_SECTION, CPP_SECTION
<1>2. big \in {m, n} /\ \A y \in {m, n} : big >= y
  BY <1>1
<1>3. \A x \in {m, n} : (\A y \in {m, n} : x >= y) => x = big
  BY <1>1
<1> HIDE DEF big
<1>4. Max({m, n}) = big
  BY <1>2, <1>3 DEF Max
<1> QED
  BY <1>4 DEF big

(* The section after an include stands for its kind as well, ... *)
LEMMA SectionStep ==
  ASSUME NEW S, NEW l, NEW kinds,
         \A k \in S \cup {l} : kinds[k] \in {Kind(Written[w]) : w \in DOMAIN Written},
         S \subseteq Nat, l \in Nat, \A k \in S : k < l,
         NEW section \in INITIAL_SECTION..OTHER_H_SECTION,
         SectionFits(section, kinds, S)
  PROVE  /\ NextSection(section, kinds[l]) \in INITIAL_SECTION..OTHER_H_SECTION
         /\ SectionFits(NextSection(section, kinds[l]), kinds, S \cup {l})
         /\ OutOfOrder(section, kinds[l]) <=> TooLate(kinds, S, kinds[l])
<1> DEFINE next == NextSection(section, kinds[l])
           K == {"c_system", "cpp_system", "likely_my", "possible_my", "other"}
<1>1. \A k \in S \cup {l} : kinds[k] \in K
  BY KindIs
<1>2. /\ Max({section, C_SECTION}) = IF section <= C_SECTION THEN C_SECTION ELSE section
      /\ Max({section, CPP_SECTION}) = IF section <= CPP_SECTION THEN CPP_SECTION ELSE section
  BY MaxOfSections
<1>3. kinds[l] \in K
  BY <1>1
<1>4. next =
        CASE kinds[l] = "c_system" -> IF section <= C_SECTION THEN C_SECTION ELSE section
          [] kinds[l] = "cpp_system" -> IF section <= CPP_SECTION THEN CPP_SECTION ELSE section
          [] kinds[l] \in MyKinds ->
               IF section <= MY_H_SECTION THEN MY_H_SECTION ELSE OTHER_H_SECTION
          [] kinds[l] = "other" -> OTHER_H_SECTION
  BY <1>2, <1>3 DEF NextSection, MyKinds
<1> DEFINE any == S # {}
           later == \E k \in S : kinds[k] \notin MyKinds
           cpp == TooLate(kinds, S, "c_system")
           other == TooLate(kinds, S, "cpp_system")
           mine == kinds[l] \in MyKinds
           anyL == S \cup {l} # {}
           laterL == \E k \in S \cup {l} : kinds[k] \notin MyKinds
           cppL == TooLate(kinds, S \cup {l}, "c_system")
           otherL == TooLate(kinds, S \cup {l}, "cpp_system")
<1>5. /\ anyL
      /\ laterL <=> later \/ ~mine
  OBVIOUS
<1>6. (\E k, j \in S \cup {l} : j < k /\ kinds[k] \in MyKinds /\ kinds[j] \notin MyKinds)
        <=> \/ \E k, j \in S : j < k /\ kinds[k] \in MyKinds /\ kinds[j] \notin MyKinds
            \/ mine /\ later
  OBVIOUS
<1>7. /\ otherL <=> other \/ kinds[l] = "other" \/ (mine /\ later)
      /\ cppL <=> cpp \/ kinds[l] \in {"cpp_system", "other"} \/ (mine /\ later)
  BY <1>6 DEF TooLate, SystemKinds
<1>8. /\ section >= MY_H_SECTION <=> any
      /\ section >= C_SECTION <=> later
      /\ section >= CPP_SECTION <=> cpp
      /\ section = OTHER_H_SECTION <=> other
  BY DEF SectionFits
<1>9. SectionFits(next, kinds, S \cup {l}) <=>
        /\ next >= MY_H_SECTION <=> anyL
        /\ next >= C_SECTION <=> laterL
        /\ next >= CPP_SECTION <=> cppL
        /\ next = OTHER_H_SECTION <=> otherL
  BY DEF SectionFits
<1>10. OutOfOrder(section, kinds[l]) <=> TooLate(kinds, S, kinds[l])
  BY <1>8, <1>3 DEF OutOfOrder, TooLate, SystemKinds, INITIAL_SECTION, OTHER_H_SECTION,
                    C_SECTION, CPP_SECTION
<1> HIDE DEF any, later, cpp, other, mine, anyL, laterL, cppL, otherL, next, K
<1>11. /\ next \in INITIAL_SECTION..OTHER_H_SECTION
       /\ next >= MY_H_SECTION <=> anyL
       /\ next >= C_SECTION <=> laterL
       /\ next >= CPP_SECTION <=> cppL
       /\ next = OTHER_H_SECTION <=> otherL
  BY <1>4, <1>5, <1>7, <1>8, <1>3
     DEF mine, K, MyKinds, INITIAL_SECTION, MY_H_SECTION, C_SECTION, CPP_SECTION, OTHER_H_SECTION
<1> QED
  BY <1>9, <1>10, <1>11 DEF next

(* ... and it is that of its group, unless the include comes too late. *)
LEMMA SectionOfGroup ==
  ASSUME NEW S, NEW kinds, NEW kind \in {Kind(Written[w]) : w \in DOMAIN Written},
         NEW section \in INITIAL_SECTION..OTHER_H_SECTION,
         SectionFits(section, kinds, S), ~OutOfOrder(section, kind)
  PROVE  NextSection(section, kind) =
           SectionOf(IF kind \in MyKinds
                     THEN IF \E k \in S : kinds[k] \notin MyKinds THEN "other" ELSE "my"
                     ELSE kind)
<1> DEFINE later == \E k \in S : kinds[k] \notin MyKinds
<1>1. kind \in {"c_system", "cpp_system", "likely_my", "possible_my", "other"}
  BY KindIs
<1>2. section >= C_SECTION <=> later
  BY DEF SectionFits
<1> HIDE DEF later
<1>3. CASE kind = "c_system"
  <2>1. section <= C_SECTION
    BY <1>3 DEF OutOfOrder, C_SECTION, INITIAL_SECTION, OTHER_H_SECTION
  <2>2. Max({section, C_SECTION}) = C_SECTION
    BY <2>1, MaxOfSections
  <2> QED
    BY <1>3, <2>2 DEF NextSection, SectionOf, MyKinds
<1>4. CASE kind = "cpp_system"
  <2>1. section <= CPP_SECTION
    BY <1>4 DEF OutOfOrder, CPP_SECTION, INITIAL_SECTION, OTHER_H_SECTION
  <2>2. Max({section, CPP_SECTION}) = CPP_SECTION
    BY <2>1, MaxOfSections
  <2> QED
    BY <1>4, <2>2 DEF NextSection, SectionOf, MyKinds
<1>5. CASE kind \in MyKinds
  BY <1>2, <1>5 DEF NextSection, SectionOf, MyKinds, later, INITIAL_SECTION, MY_H_SECTION,
                    C_SECTION, OTHER_H_SECTION
<1>6. CASE kind = "other"
  BY <1>6 DEF NextSection, SectionOf, MyKinds
<1> QED
  BY <1>1, <1>3, <1>4, <1>5, <1>6 DEF MyKinds

(* An include is put on the list, or changes nothing. *)
Lists(s, header) ==
  /\ FindHeader(s, header) = {}
  /\ ~(HeaderInfo[header].ext = "cc" /\ HeaderInfo[header].dir # FileInfo.dir)
  /\ OwnHeader(header) \/ ~HeaderInfo[header].third_party

(* What CheckIncludeLine reports, by category. *)
LEMMA IncludeErrors ==
  ASSUME NEW s, NEW lines, NEW n
  PROVE  LET written == Written[lines[n][2]]
             header == written.header
             found == CheckIncludeLine(s, lines, n).errors
         IN  /\ "include" \in found <=> FindHeader(s, header) # {}
             /\ "include_cc" \in found <=>
                  /\ FindHeader(s, header) = {}
                  /\ HeaderInfo[header].ext = "cc" /\ HeaderInfo[header].dir # FileInfo.dir
             /\ "include_order" \in found <=>
                  Lists(s, header) /\ OutOfOrder(s.section, Kind(written))
             /\ "include_alpha" \in found <=>
                  /\ Lists(s, header)
                  /\ ~IsInAlphabeticalOrder(CheckNextIncludeOrder(s, Kind(written)), lines, n, header)
             /\ found \subseteq Categories
BY DEF CheckIncludeLine, Lists, Categories

(* An include that is a duplicate or is not checked changes nothing, ... *)
LEMMA IncludeUnlisted ==
  ASSUME NEW s, NEW lines, NEW n, ~Lists(s, Written[lines[n][2]].header)
  PROVE  CheckIncludeLine(s, lines, n).state = s
BY DEF CheckIncludeLine, Lists

(* ... and any other is added to the last list. *)
LEMMA IncludeListed ==
  ASSUME NEW s \in IncludeStates, NEW lines, NEW n \in Nat,
         Lists(s, Written[lines[n][2]].header), lines[n][2] \in DOMAIN Written,
         NextSection(s.section, Kind(Written[lines[n][2]])) \in INITIAL_SECTION..OTHER_H_SECTION
  PROVE  LET t == CheckIncludeLine(s, lines, n).state
             last == Last(s.include_list) \cup {<<Written[lines[n][2]].header, n>>}
         IN  /\ t \in IncludeStates
             /\ t.section = NextSection(s.section, Kind(Written[lines[n][2]]))
             /\ t.last_header = HeaderInfo[Written[lines[n][2]].header].canonical
             /\ Last(t.include_list) = last
             /\ Older(t) = Older(s)
<1> DEFINE written == Written[lines[n][2]]
           header == written.header
           next == NextSection(s.section, Kind(written))
           last == Last(s.include_list) \cup {<<header, n>>}
           t == CheckIncludeLine(s, lines, n).state
<1>1. /\ s.include_list \in Seq(SUBSET (Headers \X Nat)) \ {<<>>}
      /\ s = [include_list |-> s.include_list, section |-> s.section,
              last_header |-> s.last_header]
  BY DEF IncludeStates
<1>2. t = [include_list |-> SetLast(s.include_list, last), section |-> next,
           last_header |-> HeaderInfo[header].canonical]
  <2>1. t = [CheckNextIncludeOrder(s, Kind(written)) EXCEPT
               !.include_list = SetLast(@, Last(@) \cup {<<header, n>>}),
               !.last_header = HeaderInfo[header].canonical]
    BY DEF CheckIncludeLine, Lists
  <2>2. PICK m : CheckNextIncludeOrder(s, Kind(written)) = [s EXCEPT !.section = next, !.last_header = m]
    BY DEF CheckNextIncludeOrder
  <2> HIDE DEF next, header, written, t
  <2> DEFINE u == CheckNextIncludeOrder(s, Kind(written))
             list == SetLast(u.include_list, Last(u.include_list) \cup {<<header, n>>})
  <2>3. u = [include_list |-> s.include_list, section |-> next, last_header |-> m]
    BY <1>1, <2>2
  <2>4. list = SetLast(s.include_list, last)
    BY <2>3 DEF last
  <2>5. t = [u EXCEPT !.include_list = list, !.last_header = HeaderInfo[header].canonical]
    BY <2>1
  <2> HIDE DEF u, list
  <2>6. t = [include_list |-> list, section |-> next,
             last_header |-> HeaderInfo[header].canonical]
    BY <2>3, <2>5
  <2> QED
    BY <2>4, <2>6
<1>3. /\ Last(s.include_list) \in SUBSET (Headers \X Nat)
      /\ Front(s.include_list) \in Seq(SUBSET (Headers \X Nat))
  <2> DEFINE T == Headers \X Nat
  <2>1. s.include_list \in Seq(SUBSET T) \ {<<>>}
    BY <1>1
  <2> HIDE DEF T
  <2>2. Last(s.include_list) \in SUBSET T /\ Front(s.include_list) \in Seq(SUBSET T)
    BY <2>1, ListParts
  <2> QED
    BY <2>2 DEF T
<1>4. last \in SUBSET (Headers \X Nat)
  <2>1. header \in Headers
    BY HeaderAssumption
  <2> HIDE DEF header
  <2> QED
    BY <1>3, <2>1
<1>5. /\ SetLast(s.include_list, last) \in Seq(SUBSET (Headers \X Nat)) \ {<<>>}
      /\ Front(SetLast(s.include_list, last)) = Front(s.include_list)
      /\ Last(SetLast(s.include_list, last)) = last
  <2> HIDE DEF last
  <2> QED
    BY <1>3, <1>4, AppendParts DEF SetLast
<1>6. HeaderInfo[header].canonical \in Nat
  BY HeaderAssumption
<1> HIDE DEF t, last, next, header, written
<1>7. /\ t.include_list = SetLast(s.include_list, last)
      /\ t.section = next /\ t.last_header = HeaderInfo[header].canonical
  BY <1>2
<1>8. t \in IncludeStates
  BY <1>2, <1>5, <1>6 DEF IncludeStates, next, header, written
<1> QED
  BY <1>5, <1>7, <1>8 DEF Older, t, last, next, header, written

(* A directive begins a new list, forgets the last one or neither. *)
LEMMA ResetSectionIs ==
  ASSUME NEW s \in IncludeStates, NEW d \in If \cup Else \cup Endif
  PROVE  LET t == ResetSection(s, d)
         IN  /\ t \in IncludeStates
             /\ t.section = INITIAL_SECTION /\ t.last_header = 0
             /\ d \in If => Last(t.include_list) = {} /\ Older(t) = Included(s)
             /\ d \in Else => Last(t.include_list) = {} /\ Older(t) = Older(s)
             /\ d \in Endif => t.include_list = s.include_list
<1> DEFINE t == ResetSection(s, d)
           lists == Seq(SUBSET (Headers \X Nat))
<1>1. s.include_list \in lists \ {<<>>}
  BY DEF IncludeStates
<1>2. /\ t.section = INITIAL_SECTION /\ t.last_header = 0
      /\ d \in If => t.include_list = Append(s.include_list, {})
      /\ d \in Else => t.include_list = Append(Front(s.include_list), {})
      /\ d \in Endif => t.include_list = s.include_list
      /\ t = [include_list |-> t.include_list, section |-> INITIAL_SECTION, last_header |-> 0]
  BY DEF ResetSection, SetLast, If, Else, Endif
<1>3. Front(s.include_list) \in lists
  BY <1>1, ListParts
<1>4. \A x \in lists : /\ Append(x, {}) \in lists \ {<<>>}
                       /\ Front(Append(x, {})) = x /\ Last(Append(x, {})) = {}
  BY AppendParts
<1> HIDE DEF lists, t
<1>5. t.include_list \in lists \ {<<>>}
  BY <1>1, <1>2, <1>3, <1>4
<1>6. t \in IncludeStates
  BY <1>2, <1>5 DEF IncludeStates, lists, INITIAL_SECTION, OTHER_H_SECTION
<1> QED
  BY <1>1, <1>2, <1>3, <1>4, <1>6 DEF Older, Included, t

(* What is on the lists is on the last one or on an older one. *)
LEMMA IncludedIs ==
  ASSUME NEW s \in IncludeStates
  PROVE  Included(s) = Older(s) \cup Last(s.include_list)
BY ListParts DEF Included, Older, IncludeStates

-----------------------------------------------------------------------------
(* What a step does                                                        *)

(* The next line is checked, or it is in a block of inline assembly and    *)
(* changes nothing.                                                        *)
LEMMA ProcessLineIs ==
  ASSUME LineInv, ErrorInv, ProcessLine
  PROVE  LET l == line + 1
             r == CheckLanguage(include_state, clean_lines, l)
         IN  /\ alphabet' = alphabet /\ text' = text /\ clean_lines' = clean_lines
             /\ pc = "lines" /\ pc' = "lines"
             /\ line' = l /\ l \in 1..Len(clean_lines)
             /\ (checked' = checked /\ l \notin checked') \/ checked' = checked \cup {l}
             /\ l \notin checked' => include_state' = include_state /\ errors' = errors
             /\ l \in checked' =>
                  /\ include_state' = r.state
                  /\ \A k, c : c \in IncludeCategories =>
                       (<<k, c>> \in errors' <=> <<k, c>> \in errors \/ (k = l /\ c \in r.errors))
             /\ \A e \in errors' :
                  \/ e \in errors \/ e[2] \in Categories \ IncludeCategories
                  \/ e[1] = l /\ e[2] \in r.errors
<1> DEFINE l == line + 1
           r == CheckLanguage(include_state, clean_lines, l)
           f == CheckForFunctionLengths(function_state, clean_lines, l)
           m == MultilineErrors(clean_lines[l])
           b == CheckEmptyBlockBody(RawLines, clean_lines, l)
<1>1. /\ alphabet' = alphabet /\ text' = text /\ clean_lines' = clean_lines
      /\ pc = "lines" /\ pc' = "lines"
      /\ line' = l /\ line < Len(clean_lines)
  BY DEF ProcessLine
<1>2. l \in 1..Len(clean_lines)
  BY <1>1 DEF LineInv
<1>3. l \notin checked
  BY <1>2 DEF LineInv
<1>4. /\ f.errors \subseteq {"fn_size", "fn_body"}
      /\ m \subseteq {"multiline_comment", "multiline_string"}
      /\ \A e \in b : e[2] \in {"empty_body", "empty_if_body"}
  <2>1. f.errors \subseteq {"fn_size", "fn_body"}
    BY DEF CheckForFunctionLengths, CheckLength
  <2>2. m \subseteq {"multiline_comment", "multiline_string"}
    BY DEF MultilineErrors
  <2>3. \A e \in b : e[2] \in {"empty_body", "empty_if_body"}
    <3> DEFINE end == CloseExpression(clean_lines, <<l, 2>>)
               all == {<<end[1], c>> : c \in {"empty_body", "empty_if_body"}}
    <3>1. b \subseteq all
      BY ZenonT(30) DEF CheckEmptyBlockBody
    <3> HIDE DEF end, b
    <3> QED
      BY <3>1
  <2> QED
    BY <2>1, <2>2, <2>3
<1>5. CASE InAsmBlock(nesting_state'.stack)
  BY <1>1, <1>2, <1>3, <1>5 DEF ProcessLine
<1>6. CASE ~InAsmBlock(nesting_state'.stack)
  <2>1. /\ checked' = checked \cup {l}
        /\ include_state' = r.state
        /\ errors' = errors \cup {<<l, c>> : c \in f.errors \cup m \cup r.errors} \cup b
    BY <1>1, <1>6 DEF ProcessLine, Reported
  <2> HIDE DEF r, f, m, b, l
  <2>2. ASSUME NEW k, NEW c \in IncludeCategories
        PROVE  <<k, c>> \in errors' <=> <<k, c>> \in errors \/ (k = l /\ c \in r.errors)
    <3>1. c \notin f.errors /\ c \notin m /\ <<k, c>> \notin b
      BY <1>4 DEF IncludeCategories
    <3> QED
      BY <2>1, <3>1
  <2>3. \A e \in errors' :
          \/ e \in errors \/ e[2] \in Categories \ IncludeCategories
          \/ (e[1] = l /\ e[2] \in r.errors)
    <3>1. \A e \in b : e[2] \in Categories \ IncludeCategories
      BY <1>4 DEF Categories, IncludeCategories
    <3>2. \A c \in f.errors \cup m : c \in Categories \ IncludeCategories
      BY <1>4 DEF Categories, IncludeCategories
    <3>3. \A c : <<l, c>>[1] = l /\ <<l, c>>[2] = c
      OBVIOUS
    <3>4. \A e \in errors' :
            e \in errors \/ e \in b \/ \E c \in f.errors \cup m \cup r.errors : e = <<l, c>>
      BY <2>1
    <3> QED
      BY <3>1, <3>2, <3>3, <3>4
  <2>4. l \in checked'
    BY <2>1
  <2> QED
    BY <1>1, <1>2, <2>1, <2>2, <2>3, <2>4 DEF l, r
<1> QED
  BY <1>5, <1>6

(* A step that reports nothing new of the lines before the next one keeps  *)
(* what has been said about them.                                          *)
LEMMA OlderLines ==
  ASSUME LineInv, clean_lines' = clean_lines, line' \in {line, line + 1},
         \A d \in 1..line : d \in checked' <=> d \in checked,
         \A k, c : k \in 1..line /\ c \in IncludeCategories =>
           (<<k, c>> \in errors' <=> <<k, c>> \in errors)
  PROVE  /\ \A k : HeaderAt(k)' = HeaderAt(k)
         /\ \A k \in 1..line : k \in IncludeLines' <=> k \in IncludeLines
         /\ \A k \in 1..line : OnList(k)' <=> OnList(k)
         /\ \A k \in IncludeLines : Kinds'[k] = Kinds[k]
         /\ \A k \in 1..line + 1 : SinceDirective(k)' = SinceDirective(k)
         /\ \A k \in IncludeLines : Group(k)' = Group(k)
         /\ \A k \in 1..line, l \in 1..line + 1 :
              /\ Recent(k, l)' <=> Recent(k, l)
              /\ Forgotten(k, l)' <=> Forgotten(k, l)
<1>1. line \in Nat /\ line' \in Nat /\ line <= line'
  BY DEF LineInv
<1>2. \A k : HeaderAt(k)' = HeaderAt(k)
  BY DEF HeaderAt
<1>3. \A k \in 1..line : k \in IncludeLines' <=> k \in IncludeLines
  BY <1>1 DEF IncludeLines
<1>4. \A k \in 1..line : OnList(k)' <=> OnList(k)
  <2> TAKE k \in 1..line
  <2>1. {<<k, "include">>, <<k, "include_cc">>} \cap errors = {} <=>
          {<<k, "include">>, <<k, "include_cc">>} \cap errors' = {}
    BY DEF IncludeCategories
  <2>2. HeaderAt(k)' = HeaderAt(k)
    BY <1>2
  <2> QED
    BY <1>3, <2>1, <2>2 DEF OnList
<1>5. IncludeLines \subseteq 1..line
  BY DEF IncludeLines
<1>6. \A k \in IncludeLines : Kinds'[k] = Kinds[k]
  <2> TAKE k \in IncludeLines
  <2>1. k \in IncludeLines' /\ HeaderAt(k)' = HeaderAt(k)
    BY <1>2, <1>3, <1>5
  <2> QED
    BY <2>1 DEF Kinds
<1>7. \A k \in 1..line + 1 : SinceDirective(k)' = SinceDirective(k)
  <2> TAKE l \in 1..line + 1
  <2>1. \A k \in 1..l - 1 : k \in 1..line
    BY <1>1
  <2>2. \A k \in 1..l - 1 : \A d \in k + 1..l - 1 : d \in 1..line
    BY <1>1
  <2>3. \A k \in 1..l - 1 :
          (\A d \in k + 1..l - 1 : ~(d \in checked' /\ IsConditional(clean_lines'[d]))) <=>
          (\A d \in k + 1..l - 1 : ~(d \in checked /\ IsConditional(clean_lines[d])))
    BY <2>2
  <2> QED
    BY <1>4, <2>1, <2>3 DEF SinceDirective
<1>8. \A k \in 1..line + 1 : SinceDirective(k) \subseteq IncludeLines
  BY DEF SinceDirective, OnList
<1>9. \A k \in IncludeLines : Group(k)' = Group(k)
  <2> TAKE k \in IncludeLines
  <2>1. SinceDirective(k)' = SinceDirective(k) /\ SinceDirective(k) \subseteq IncludeLines
    BY <1>1, <1>5, <1>7, <1>8
  <2>2. Kinds'[k] = Kinds[k]
    BY <1>6
  <2>3. (\E j \in SinceDirective(k)' : Kinds'[j] \notin MyKinds) <=>
          (\E j \in SinceDirective(k) : Kinds[j] \notin MyKinds)
    BY <1>6, <2>1
  <2> QED
    BY <2>2, <2>3 DEF Group
<1>10. ASSUME NEW k \in 1..line, NEW l \in 1..line + 1
       PROVE  /\ Recent(k, l)' <=> Recent(k, l)
              /\ Forgotten(k, l)' <=> Forgotten(k, l)
  <2>1. \A d \in k + 1..l - 1 : d \in 1..line
    BY <1>1
  <2>2. \A S : \A d \in k + 1..l - 1 : CheckedAt(d, S)' <=> CheckedAt(d, S)
    BY <2>1 DEF CheckedAt
  <2>3. \A e \in k + 1..l - 1 : \A d \in k + 1..e - 1 : d \in k + 1..l - 1
    BY <1>1
  <2>4. Recent(k, l)' <=> Recent(k, l)
    BY <2>2 DEF Recent
  <2>5. Forgotten(k, l)' <=> Forgotten(k, l)
    BY <2>2, <2>3 DEF Forgotten
  <2> QED
    BY <2>4, <2>5
<1> QED
  BY <1>2, <1>3, <1>4, <1>6, <1>7, <1>9, <1>10

(* What the next line adds. *)
NextErrors == CheckIncludeLine(include_state, clean_lines, line + 1).errors

(* The line that is processed, and what is reported at it and before it. *)
LEMMA NextLine ==
  ASSUME LineInv, ErrorInv, ProcessLine, NEW l \in Nat, l = line + 1
  PROVE  LET written == Written[clean_lines[l][2]]
             header == written.header
             conditional == l \in checked' /\ IsConditional(clean_lines[l])
         IN  /\ l \in 1..Len(clean_lines)
             /\ clean_lines' = clean_lines /\ line' = l
             /\ \A d \in 1..line : d \in checked' <=> d \in checked
             /\ \A k, c : k \in 1..line /\ c \in IncludeCategories =>
                  (<<k, c>> \in errors' <=> <<k, c>> \in errors)
             /\ IncludeLines \subseteq IncludeLines'
             /\ IncludeLines' \subseteq IncludeLines \cup {l}
             /\ l \notin IncludeLines
             /\ l \in IncludeLines' => IsInclude(clean_lines[l]) /\ clean_lines[l][2] \in DOMAIN Written
             /\ \A c \in IncludeCategories :
                  <<l, c>> \in errors' <=> l \in IncludeLines' /\ c \in NextErrors
             /\ OnList(l)' <=> l \in IncludeLines' /\ Lists(include_state, header)
             /\ conditional => ~OnList(l)'
             /\ OnList(l)' => include_state' = CheckIncludeLine(include_state, clean_lines, l).state
             /\ conditional => include_state' = ResetSection(include_state, Directive(clean_lines[l]))
             /\ ~conditional /\ ~OnList(l)' => include_state' = include_state
             /\ SinceDirective(l + 1)' =
                  IF conditional THEN {}
                  ELSE SinceDirective(l) \cup (IF OnList(l)' THEN {l} ELSE {})
<1> DEFINE written == Written[clean_lines[l][2]]
           header == written.header
           r == CheckLanguage(include_state, clean_lines, l)
           conditional == l \in checked' /\ IsConditional(clean_lines[l])
<1>1. /\ clean_lines' = clean_lines /\ line' = l /\ l \in 1..Len(clean_lines)
      /\ (checked' = checked /\ l \notin checked') \/ checked' = checked \cup {l}
      /\ l \notin checked' => include_state' = include_state /\ errors' = errors
      /\ l \in checked' =>
           /\ include_state' = r.state
           /\ \A k, c : c \in IncludeCategories =>
                (<<k, c>> \in errors' <=> <<k, c>> \in errors \/ (k = l /\ c \in r.errors))
  BY ProcessLineIs
<1>2. line \in Nat /\ l \in Nat /\ checked \subseteq 1..line /\ line' = line + 1
  BY <1>1 DEF LineInv
<1>3. \A d \in 1..line : d # l /\ (d \in checked' <=> d \in checked)
  BY <1>1, <1>2
<1>4. \A k, c : k \in 1..line /\ c \in IncludeCategories =>
        (<<k, c>> \in errors' <=> <<k, c>> \in errors)
  <2> TAKE k, c
  <2>1. HAVE k \in 1..line /\ c \in IncludeCategories
  <2>2. k # l
    BY <1>3, <2>1
  <2> QED
    BY <1>1, <2>1, <2>2
<1>5. /\ IncludeLines \subseteq 1..line
      /\ \A k : k \in IncludeLines' <=> k \in 1..l /\ IsInclude(clean_lines[k]) /\ k \in checked'
  BY <1>1 DEF IncludeLines
<1>6. 1..l = 1..line \cup {l}
  BY <1>2
<1>7. /\ IncludeLines \subseteq IncludeLines' /\ IncludeLines' \subseteq IncludeLines \cup {l}
      /\ l \notin IncludeLines
  BY <1>3, <1>5, <1>6 DEF IncludeLines
<1>8. l \in IncludeLines' <=> l \in checked' /\ IsInclude(clean_lines[l])
  BY <1>5, <1>6
<1>9. l \in IncludeLines' => IsInclude(clean_lines[l]) /\ clean_lines[l][2] \in DOMAIN Written
  BY <1>8 DEF IsInclude
<1>10. \A line_ : IsInclude(line_) => ~IsConditional(line_)
  BY DEF IsInclude, StartsInclude, IsConditional, If, Else, Endif
<1>11. /\ l \in IncludeLines' => r = CheckIncludeLine(include_state, clean_lines, l)
       /\ conditional => r = [state |-> ResetSection(include_state, Directive(clean_lines[l])),
                              errors |-> {}]
       /\ ~IsInclude(clean_lines[l]) /\ ~IsConditional(clean_lines[l]) =>
            r = [state |-> include_state, errors |-> {}]
  BY <1>8, <1>10 DEF CheckLanguage
<1>12. \A c : c \in IncludeCategories => <<l, c>> \notin errors
  <2> TAKE c
  <2>1. HAVE c \in IncludeCategories
  <2>2. \A e \in errors : e[2] \in IncludeCategories => e[1] \in IncludeLines
    BY DEF ErrorInv
  <2>3. <<l, c>>[2] = c /\ <<l, c>>[1] = l
    OBVIOUS
  <2> QED
    BY <1>7, <2>1, <2>2, <2>3
<1> HIDE DEF header, written
<1>13. ASSUME NEW c \in IncludeCategories
       PROVE  <<l, c>> \in errors' <=> l \in IncludeLines' /\ c \in NextErrors
  <2>1. l \in IncludeLines' => r.errors = NextErrors
    BY <1>11 DEF NextErrors
  <2>2. l \in checked' /\ l \notin IncludeLines' => r.errors = {}
    BY <1>8, <1>11
  <2>3. <<l, c>> \notin errors
    BY <1>12
  <2>4. l \in checked' => (<<l, c>> \in errors' <=> c \in r.errors)
    BY <1>1, <2>3
  <2> QED
    BY <1>1, <1>8, <2>1, <2>2, <2>3, <2>4
<1>14. OnList(l)' <=> l \in IncludeLines' /\ Lists(include_state, header)
  <2>1. HeaderAt(l)' = header
    BY <1>1 DEF HeaderAt, header, written
  <2>2. OnList(l)' <=>
          /\ l \in IncludeLines'
          /\ <<l, "include">> \notin errors' /\ <<l, "include_cc">> \notin errors'
          /\ OwnHeader(header) \/ ~HeaderInfo[header].third_party
    BY <2>1 DEF OnList
  <2>3. /\ "include" \in NextErrors <=> FindHeader(include_state, header) # {}
        /\ "include_cc" \in NextErrors <=>
             /\ FindHeader(include_state, header) = {}
             /\ HeaderInfo[header].ext = "cc" /\ HeaderInfo[header].dir # FileInfo.dir
    BY IncludeErrors DEF NextErrors, header, written
  <2>4. "include" \in IncludeCategories /\ "include_cc" \in IncludeCategories
    BY DEF IncludeCategories
  <2> QED
    BY <1>13, <2>2, <2>3, <2>4 DEF Lists
<1>15. conditional => ~OnList(l)' /\ l \notin IncludeLines'
  BY <1>8, <1>10, <1>14
<1>16. OnList(l)' => include_state' = CheckIncludeLine(include_state, clean_lines, l).state
  BY <1>1, <1>8, <1>11, <1>14
<1>17. conditional => include_state' = ResetSection(include_state, Directive(clean_lines[l]))
  BY <1>1, <1>11
<1>18. ~conditional /\ ~OnList(l)' => include_state' = include_state
  <2>1. l \in IncludeLines' /\ ~OnList(l)' => include_state' = include_state
    BY <1>1, <1>8, <1>11, <1>14, IncludeUnlisted DEF header, written
  <2>2. l \in checked' /\ ~conditional /\ l \notin IncludeLines' => include_state' = include_state
    BY <1>1, <1>8, <1>11
  <2> QED
    BY <1>1, <2>1, <2>2
<1>19. SinceDirective(l + 1)' =
         IF conditional THEN {} ELSE SinceDirective(l) \cup (IF OnList(l)' THEN {l} ELSE {})
  <2>1. SinceDirective(l + 1)' =
          {k \in 1..l : OnList(k)' /\ \A d \in k + 1..l : ~(d \in checked' /\ IsConditional(clean_lines[d]))}
    BY <1>1, <1>2 DEF SinceDirective
  <2>2. SinceDirective(l) =
          {k \in 1..line : OnList(k) /\ \A d \in k + 1..line : ~(d \in checked /\ IsConditional(clean_lines[d]))}
    BY <1>2 DEF SinceDirective
  <2>3. \A k \in 1..line : OnList(k)' <=> OnList(k)
    BY <1>1, <1>2, <1>3, <1>4, OlderLines
  <2>4. ASSUME NEW k \in 1..line
        PROVE  /\ k \in 1..l /\ l \in k + 1..l
               /\ \A d \in k + 1..l : d \in k + 1..line \/ d = l
               /\ \A d \in k + 1..line : d \in k + 1..l /\ d \in 1..line
    BY <1>2
  <2>5. ASSUME NEW k \in 1..line
        PROVE  (\A d \in k + 1..l : ~(d \in checked' /\ IsConditional(clean_lines[d]))) <=>
                 /\ ~conditional
                 /\ \A d \in k + 1..line : ~(d \in checked /\ IsConditional(clean_lines[d]))
    BY <1>3, <2>4
  <2>6. l + 1..l = {} /\ 1..l = 1..line \cup {l}
    BY <1>2
  <2>7. ASSUME NEW k
        PROVE  k \in SinceDirective(l + 1)' <=>
                 ~conditional /\ (k \in SinceDirective(l) \/ (k = l /\ OnList(l)'))
    <3>1. CASE k \in 1..line
      BY <1>3, <2>1, <2>2, <2>3, <2>4, <2>5, <3>1
    <3>2. CASE k = l
      <4>1. k \notin 1..line
        BY <1>3, <3>2
      <4>2. \A d \in k + 1..l : FALSE
        BY <2>6, <3>2
      <4> QED
        BY <1>15, <2>1, <2>2, <2>6, <3>2, <4>1, <4>2
    <3>3. CASE k \notin 1..line /\ k # l
      BY <2>1, <2>2, <2>6, <3>3
    <3> QED
      BY <3>1, <3>2, <3>3
  <2> QED
    BY <2>7
<1> QED
  BY <1>1, <1>2, <1>3, <1>4, <1>7, <1>9, <1>13, <1>14, <1>15, <1>16, <1>17, <1>18, <1>19
     DEF header, written

-----------------------------------------------------------------------------
(* The section and the order                                               *)

(* Only the kinds of the includes since the last directive matter. *)
LEMMA KindsAgree ==
  ASSUME NEW S, NEW kinds, NEW others, \A k \in S : kinds[k] = others[k],
         NEW section, NEW kind
  PROVE  /\ SectionFits(section, kinds, S) <=> SectionFits(section, others, S)
         /\ TooLate(kinds, S, kind) <=> TooLate(others, S, kind)
<1>1. \A c : TooLate(kinds, S, c) <=> TooLate(others, S, c)
  BY DEF TooLate
<1>2. (\E k \in S : kinds[k] \notin MyKinds) <=> (\E k \in S : others[k] \notin MyKinds)
  OBVIOUS
<1> QED
  BY <1>1, <1>2 DEF SectionFits

(* The includes since the last directive are before the line. *)
LEMMA SinceIs ==
  ASSUME LineInv, NEW l \in 1..line + 1
  PROVE  /\ SinceDirective(l) \subseteq IncludeLines
         /\ SinceDirective(l) \subseteq 1..l - 1
         /\ SinceDirective(l) \subseteq Nat
         /\ \A k \in SinceDirective(l) : k < l /\ k \in 1..line + 1
<1>1. line \in Nat /\ l \in Nat
  BY DEF LineInv
<1>2. SinceDirective(l) \subseteq IncludeLines /\ SinceDirective(l) \subseteq 1..l - 1
  BY DEF SinceDirective, OnList
<1>3. \A k \in 1..l - 1 : k < l /\ k \in Nat /\ k \in 1..line + 1
  BY <1>1
<1> QED
  BY <1>2, <1>3

(* An include of a line is of the kind of its header. *)
LEMMA KindOfInclude ==
  ASSUME NEW k \in IncludeLines
  PROVE  /\ Kinds[k] = Kind(Written[clean_lines[k][2]])
         /\ Kinds[k] \in {Kind(Written[w]) : w \in DOMAIN Written}
<1>1. clean_lines[k][2] \in DOMAIN Written
  BY DEF IncludeLines, IsInclude
<1> QED
  BY <1>1 DEF Kinds

(* The next include, if there is one, and the section before it. *)
LEMMA NextInclude ==
  ASSUME IInv, ProcessLine, NEW l \in Nat, l = line + 1, l \in IncludeLines'
  PROVE  LET written == Written[clean_lines[l][2]]
             header == written.header
             section == include_state.section
             next == NextSection(section, Kind(written))
         IN  /\ clean_lines[l][2] \in DOMAIN Written /\ Kinds'[l] = Kind(written)
             /\ SinceDirective(l)' = SinceDirective(l)
             /\ section \in INITIAL_SECTION..OTHER_H_SECTION
             /\ SectionFits(section, Kinds', SinceDirective(l))
             /\ next \in INITIAL_SECTION..OTHER_H_SECTION
             /\ SectionFits(next, Kinds', SinceDirective(l) \cup {l})
             /\ OutOfOrder(section, Kind(written)) <=>
                  TooLate(Kinds', SinceDirective(l), Kind(written))
             /\ ~OutOfOrder(section, Kind(written)) => next = SectionOf(Group(l)')
<1> DEFINE written == Written[clean_lines[l][2]]
           header == written.header
           section == include_state.section
           S == SinceDirective(l)
<1> USE DEF IInv
<1>1. /\ clean_lines' = clean_lines /\ line' = l
      /\ l \in IncludeLines' => IsInclude(clean_lines[l]) /\ clean_lines[l][2] \in DOMAIN Written
      /\ \A d \in 1..line : d \in checked' <=> d \in checked
      /\ \A k, c : k \in 1..line /\ c \in IncludeCategories =>
           (<<k, c>> \in errors' <=> <<k, c>> \in errors)
  BY NextLine
<1>2. line \in Nat /\ l \in 1..line + 1
  BY DEF LineInv
<1>3. /\ \A k \in 1..line : k \in IncludeLines' <=> k \in IncludeLines
      /\ \A k \in IncludeLines : Kinds'[k] = Kinds[k]
      /\ \A k \in 1..line + 1 : SinceDirective(k)' = SinceDirective(k)
  BY <1>1, OlderLines
<1>4. /\ S \subseteq IncludeLines /\ S \subseteq Nat /\ \A k \in S : k < l
      /\ IncludeLines \subseteq 1..line
  BY <1>2, SinceIs DEF IncludeLines
<1>5. clean_lines[l][2] \in DOMAIN Written /\ Kinds'[l] = Kind(written)
  <2>1. HeaderAt(l)' = header
    BY <1>1 DEF HeaderAt
  <2> QED
    BY <1>1, <2>1 DEF Kinds
<1>6. \A k \in S \cup {l} : Kinds'[k] \in {Kind(Written[w]) : w \in DOMAIN Written}
  BY <1>3, <1>4, <1>5, KindOfInclude
<1>7. section \in INITIAL_SECTION..OTHER_H_SECTION
  BY DEF LineInv, IncludeStates
<1>8. SectionFits(section, Kinds, S)
  BY DEF SectionInv
<1> HIDE DEF header, written, S, section, IInv
<1>9. SectionFits(section, Kinds', S)
  BY <1>3, <1>4, <1>8, KindsAgree
<1>10. /\ NextSection(section, Kind(written)) \in INITIAL_SECTION..OTHER_H_SECTION
       /\ SectionFits(NextSection(section, Kind(written)), Kinds', S \cup {l})
       /\ OutOfOrder(section, Kind(written)) <=> TooLate(Kinds', S, Kind(written))
  <2> DEFINE K == Kinds'
  <2>1. \A k \in S \cup {l} : K[k] \in {Kind(Written[w]) : w \in DOMAIN Written}
    BY <1>6
  <2>2. SectionFits(section, K, S)
    BY <1>9
  <2> HIDE DEF K
  <2>3. /\ NextSection(section, K[l]) \in INITIAL_SECTION..OTHER_H_SECTION
        /\ SectionFits(NextSection(section, K[l]), K, S \cup {l})
        /\ OutOfOrder(section, K[l]) <=> TooLate(K, S, K[l])
    BY <1>4, <1>7, <2>1, <2>2, SectionStep
  <2> QED
    BY <1>5, <2>3 DEF K
<1>11. SinceDirective(l)' = S
  BY <1>2, <1>3 DEF S
<1>12. ~OutOfOrder(section, Kind(written)) => NextSection(section, Kind(written)) = SectionOf(Group(l)')
  <2>1. Group(l)' = IF Kind(written) \in MyKinds
                    THEN IF \E k \in S : Kinds'[k] \notin MyKinds THEN "other" ELSE "my"
                    ELSE Kind(written)
    BY <1>5, <1>11 DEF Group
  <2> QED
    BY <1>5, <1>6, <1>7, <1>9, <2>1, SectionOfGroup
<1> QED
  BY <1>5, <1>7, <1>9, <1>10, <1>11, <1>12 DEF header, written, section, S

(* The state of the includes after a line. *)
LEMMA StateKept ==
  ASSUME IInv, ProcessLine
  PROVE  include_state' \in IncludeStates /\ SectionInv'
<1> PICK l \in Nat : l = line + 1
  BY DEF IInv, LineInv
<1> DEFINE written == Written[clean_lines[l][2]]
           header == written.header
           conditional == l \in checked' /\ IsConditional(clean_lines[l])
<1>1. LineInv /\ ErrorInv /\ include_state \in IncludeStates
  BY DEF IInv, LineInv
<1>2. /\ line' = l
      /\ OnList(l)' <=> l \in IncludeLines' /\ Lists(include_state, header)
      /\ conditional => ~OnList(l)'
      /\ OnList(l)' => include_state' = CheckIncludeLine(include_state, clean_lines, l).state
      /\ conditional => include_state' = ResetSection(include_state, Directive(clean_lines[l]))
      /\ ~conditional /\ ~OnList(l)' => include_state' = include_state
      /\ SinceDirective(l + 1)' =
           IF conditional THEN {}
           ELSE SinceDirective(l) \cup (IF OnList(l)' THEN {l} ELSE {})
  BY <1>1, NextLine
<1>3. SectionInv' <=> SectionFits(include_state'.section, Kinds', SinceDirective(l + 1)')
  BY <1>2 DEF SectionInv, SinceDirective
<1>4. CASE OnList(l)'
  <2>1. /\ clean_lines[l][2] \in DOMAIN Written
        /\ NextSection(include_state.section, Kind(written)) \in INITIAL_SECTION..OTHER_H_SECTION
        /\ SectionFits(NextSection(include_state.section, Kind(written)), Kinds', SinceDirective(l) \cup {l})
    BY <1>2, <1>4, NextInclude
  <2>2. /\ include_state' \in IncludeStates
        /\ include_state'.section = NextSection(include_state.section, Kind(written))
    BY <1>1, <1>2, <1>4, <2>1, IncludeListed
  <2> QED
    BY <1>2, <1>3, <1>4, <2>1, <2>2
<1>5. CASE conditional
  <2>1. include_state' \in IncludeStates /\ include_state'.section = INITIAL_SECTION
    BY <1>1, <1>2, <1>5, ResetSectionIs DEF IsConditional
  <2>2. SectionFits(INITIAL_SECTION, Kinds', {})
    BY DEF SectionFits, TooLate, INITIAL_SECTION, MY_H_SECTION, C_SECTION, CPP_SECTION,
           OTHER_H_SECTION
  <2> QED
    BY <1>2, <1>3, <1>5, <2>1, <2>2
<1>6. CASE ~conditional /\ ~OnList(l)'
  <2>1. SinceDirective(l + 1)' = SinceDirective(l) /\ include_state' = include_state
    BY <1>2, <1>6
  <2>2. \A k \in IncludeLines : Kinds'[k] = Kinds[k]
    BY <1>1, NextLine, OlderLines
  <2>3. SinceDirective(l) \subseteq IncludeLines
    BY <1>1, SinceIs DEF LineInv
  <2>4. SectionFits(include_state.section, Kinds, SinceDirective(l))
    BY DEF IInv, SectionInv
  <2>5. SectionFits(include_state.section, Kinds', SinceDirective(l))
    BY <2>2, <2>3, <2>4, KindsAgree
  <2> QED
    BY <1>1, <1>3, <2>1, <2>5
<1> QED
  BY <1>2, <1>4, <1>5, <1>6

(* A line keeps the last header that of the last include in the section. *)
LEMMA LastHeaderKept ==
  ASSUME IInv, ProcessLine
  PROVE  LastHeaderInv'
<1> PICK l \in Nat : l = line + 1
  BY DEF IInv, LineInv
<1> DEFINE written == Written[clean_lines[l][2]]
           header == written.header
           conditional == l \in checked' /\ IsConditional(clean_lines[l])
           since == SinceDirective(l + 1)'
<1>1. LineInv /\ ErrorInv /\ include_state \in IncludeStates
  BY DEF IInv, LineInv
<1>2. /\ line' = l
      /\ clean_lines' = clean_lines
      /\ OnList(l)' <=> l \in IncludeLines' /\ Lists(include_state, header)
      /\ conditional => ~OnList(l)'
      /\ OnList(l)' => include_state' = CheckIncludeLine(include_state, clean_lines, l).state
      /\ conditional => include_state' = ResetSection(include_state, Directive(clean_lines[l]))
      /\ ~conditional /\ ~OnList(l)' => include_state' = include_state
      /\ since =
           IF conditional THEN {}
           ELSE SinceDirective(l) \cup (IF OnList(l)' THEN {l} ELSE {})
      /\ \A c \in IncludeCategories :
           <<l, c>> \in errors' <=> l \in IncludeLines' /\ c \in NextErrors
      /\ \A k, c : k \in 1..line /\ c \in IncludeCategories =>
           (<<k, c>> \in errors' <=> <<k, c>> \in errors)
  BY <1>1, NextLine
<1>3. LastHeaderInv' <=>
        /\ since = {} => include_state'.last_header = 0
        /\ \A k \in LastOf(since) :
             /\ include_state'.last_header = HeaderInfo[HeaderAt(k)'].canonical
             /\ <<k, "include_order">> \notin errors' =>
                  include_state'.section = SectionOf(Group(k)')
  BY <1>2 DEF LastHeaderInv, SinceDirective
<1>4. \A k \in SinceDirective(l) : k \in IncludeLines /\ k \in 1..line /\ k \in Nat /\ k < l
  BY <1>1, SinceIs DEF LineInv, IncludeLines
<1>5. CASE OnList(l)'
  <2>1. /\ clean_lines[l][2] \in DOMAIN Written
        /\ NextSection(include_state.section, Kind(written)) \in INITIAL_SECTION..OTHER_H_SECTION
        /\ ~OutOfOrder(include_state.section, Kind(written)) =>
             NextSection(include_state.section, Kind(written)) = SectionOf(Group(l)')
    BY <1>2, <1>5, NextInclude
  <2>2. /\ include_state'.section = NextSection(include_state.section, Kind(written))
        /\ include_state'.last_header = HeaderInfo[header].canonical
    BY <1>1, <1>2, <1>5, <2>1, IncludeListed
  <2>3. l \in since /\ \A k \in LastOf(since) : k = l
    BY <1>2, <1>4, <1>5 DEF LastOf
  <2>4. HeaderAt(l)' = header
    BY <1>2 DEF HeaderAt
  <2>5. <<l, "include_order">> \notin errors' => ~OutOfOrder(include_state.section, Kind(written))
    <3>1. "include_order" \in NextErrors <=>
            Lists(include_state, header) /\ OutOfOrder(include_state.section, Kind(written))
      BY IncludeErrors DEF NextErrors
    <3> QED
      BY <1>2, <1>5, <3>1 DEF IncludeCategories
  <2> HIDE DEF since
  <2> QED
    BY <1>3, <2>1, <2>2, <2>3, <2>4, <2>5
<1>6. CASE conditional
  <2>1. include_state'.last_header = 0
    BY <1>1, <1>2, <1>6, ResetSectionIs DEF IsConditional
  <2>2. LastOf(since) = {}
    BY <1>2, <1>6 DEF LastOf
  <2> QED
    BY <1>3, <2>1, <2>2
<1>7. CASE ~conditional /\ ~OnList(l)'
  <2>1. since = SinceDirective(l) /\ include_state' = include_state
    BY <1>2, <1>7
  <2>2. \A k \in IncludeLines : Group(k)' = Group(k) /\ HeaderAt(k)' = HeaderAt(k)
    BY <1>1, NextLine, OlderLines
  <2>3. LastOf(since) \subseteq SinceDirective(l)
    BY <2>1 DEF LastOf
  <2>4. /\ since = {} => include_state.last_header = 0
        /\ \A k \in LastOf(since) :
             /\ include_state.last_header = HeaderInfo[HeaderAt(k)].canonical
             /\ <<k, "include_order">> \notin errors =>
                  include_state.section = SectionOf(Group(k))
    BY <2>1 DEF IInv, LastHeaderInv
  <2>5. \A k \in SinceDirective(l) :
          <<k, "include_order">> \in errors' <=> <<k, "include_order">> \in errors
    BY <1>2, <1>4 DEF IncludeCategories
  <2> HIDE DEF since
  <2> QED
    BY <1>3, <1>4, <2>1, <2>2, <2>3, <2>4, <2>5
<1> QED
  BY <1>2, <1>5, <1>6, <1>7

(* A line keeps the reports of the order exact, ... *)
LEMMA OrderKept ==
  ASSUME IInv, ProcessLine, NEW k \in IncludeLines'
  PROVE  OrderAt(k)'
<1> PICK l \in Nat : l = line + 1
  BY DEF IInv, LineInv
<1> DEFINE written == Written[clean_lines[l][2]]
           header == written.header
<1>1. LineInv /\ ErrorInv /\ line \in Nat
  BY DEF IInv, LineInv
<1>2. /\ IncludeLines' \subseteq IncludeLines \cup {l}
      /\ IncludeLines \subseteq 1..line
      /\ \A c \in IncludeCategories :
           <<l, c>> \in errors' <=> l \in IncludeLines' /\ c \in NextErrors
      /\ OnList(l)' <=> l \in IncludeLines' /\ Lists(include_state, header)
      /\ \A j, c : j \in 1..line /\ c \in IncludeCategories =>
           (<<j, c>> \in errors' <=> <<j, c>> \in errors)
  BY <1>1, NextLine DEF IncludeLines
<1>3. OrderAt(k)' <=>
        (<<k, "include_order">> \in errors' <=>
           OnList(k)' /\ TooLate(Kinds', SinceDirective(k)', Kinds'[k]))
  BY DEF OrderAt
<1>4. "include_order" \in IncludeCategories
  BY DEF IncludeCategories
<1>5. CASE k \in IncludeLines
  <2>1. k \in 1..line /\ k \in 1..line + 1
    BY <1>1, <1>2, <1>5
  <2>2. /\ OnList(k)' <=> OnList(k)
        /\ \A j \in IncludeLines : Kinds'[j] = Kinds[j]
        /\ SinceDirective(k)' = SinceDirective(k)
    BY <1>1, <2>1, NextLine, OlderLines
  <2>3. SinceDirective(k) \subseteq IncludeLines
    BY <1>1, <2>1, SinceIs
  <2>4. TooLate(Kinds', SinceDirective(k), Kinds[k]) <=> TooLate(Kinds, SinceDirective(k), Kinds[k])
    BY <2>2, <2>3, KindsAgree
  <2>5. OrderAt(k)
    BY <1>5 DEF IInv, Reports
  <2>6. <<k, "include_order">> \in errors' <=> <<k, "include_order">> \in errors
    BY <1>2, <1>4, <2>1
  <2> QED
    BY <1>3, <1>5, <2>2, <2>4, <2>5, <2>6 DEF OrderAt
<1>6. CASE k = l
  <2>1. l \in IncludeLines'
    BY <1>6
  <2>2. /\ Kinds'[l] = Kind(written) /\ SinceDirective(l)' = SinceDirective(l)
        /\ OutOfOrder(include_state.section, Kind(written)) <=>
             TooLate(Kinds', SinceDirective(l), Kind(written))
    BY <2>1, NextInclude
  <2>3. "include_order" \in NextErrors <=>
          Lists(include_state, header) /\ OutOfOrder(include_state.section, Kind(written))
    BY IncludeErrors DEF NextErrors
  <2> HIDE DEF header, written
  <2>4. <<l, "include_order">> \in errors' <=> "include_order" \in NextErrors
    BY <1>2, <1>4, <2>1
  <2> QED
    BY <1>2, <1>3, <1>6, <2>1, <2>2, <2>3, <2>4
<1> QED
  BY <1>2, <1>5, <1>6

(* Includes of the same section are of the same group, ... *)
LEMMA SectionsOfGroups ==
  ASSUME NEW k \in IncludeLines
  PROVE  /\ Group(k) \in {"my", "c_system", "cpp_system", "other"}
         /\ \A a, b \in {"my", "c_system", "cpp_system", "other"} :
              SectionOf(a) = SectionOf(b) => a = b
<1>1. Kinds[k] \in {"c_system", "cpp_system", "likely_my", "possible_my", "other"}
  BY KindIs, KindOfInclude
<1> QED
  <2>1. Group(k) \in {"my", "c_system", "cpp_system", "other"}
    BY <1>1 DEF Group, MyKinds
  <2>2. \A a, b \in {"my", "c_system", "cpp_system", "other"} : SectionOf(a) = SectionOf(b) => a = b
    BY DEF SectionOf, MY_H_SECTION, C_SECTION, CPP_SECTION, OTHER_H_SECTION
  <2> QED
    BY <2>1, <2>2

(* ... and those of the alphabet. *)
LEMMA AlphabetKept ==
  ASSUME IInv, ProcessLine, NEW k \in IncludeLines'
  PROVE  AlphabetAt(k)'
<1> PICK l \in Nat : l = line + 1
  BY DEF IInv, LineInv
<1> DEFINE written == Written[clean_lines[l][2]]
           header == written.header
           S == SinceDirective(l)
           section == include_state.section
           next == NextSection(section, Kind(written))
           last == include_state.last_header
<1>1. LineInv /\ ErrorInv /\ include_state \in IncludeStates /\ line \in Nat
  BY DEF IInv, LineInv
<1>2. /\ IncludeLines' \subseteq IncludeLines \cup {l}
      /\ IncludeLines \subseteq 1..line
      /\ clean_lines' = clean_lines
      /\ \A c \in IncludeCategories :
           <<l, c>> \in errors' <=> l \in IncludeLines' /\ c \in NextErrors
      /\ OnList(l)' <=> l \in IncludeLines' /\ Lists(include_state, header)
      /\ \A j, c : j \in 1..line /\ c \in IncludeCategories =>
           (<<j, c>> \in errors' <=> <<j, c>> \in errors)
  BY <1>1, NextLine DEF IncludeLines
<1>3. /\ \A j : HeaderAt(j)' = HeaderAt(j)
      /\ \A j \in 1..line : OnList(j)' <=> OnList(j)
      /\ \A j \in 1..line + 1 : SinceDirective(j)' = SinceDirective(j)
      /\ \A j \in IncludeLines : Group(j)' = Group(j)
  BY <1>1, NextLine, OlderLines
<1>4. \A j \in 1..line + 1 : \A i \in SinceDirective(j) : i \in IncludeLines /\ i \in 1..line
  BY <1>1, <1>2, SinceIs
<1>5. {"include_order", "include_alpha"} \subseteq IncludeCategories
  BY DEF IncludeCategories
<1>6. CASE k \in IncludeLines
  <2>1. k \in 1..line /\ k \in 1..line + 1
    BY <1>1, <1>2, <1>6
  <2>2. AlphabetAt(k)
    BY <1>6 DEF IInv, Reports
  <2>3. \A i \in SinceDirective(k) \cup {k} :
          <<i, "include_order">> \in errors' <=> <<i, "include_order">> \in errors
    BY <1>2, <1>4, <1>5, <2>1
  <2>4. <<k, "include_alpha">> \in errors' <=> <<k, "include_alpha">> \in errors
    BY <1>2, <1>5, <2>1
  <2>5. SinceDirective(k)' = SinceDirective(k) /\ (OnList(k)' <=> OnList(k)) /\ Group(k)' = Group(k)
    BY <1>3, <1>6, <2>1
  <2>6. \A i \in LastOf(SinceDirective(k)) : i \in SinceDirective(k) /\ Group(i)' = Group(i)
    BY <1>3, <1>4, <2>1 DEF LastOf
  <2>7. (\E i \in LastOf(SinceDirective(k)') :
           /\ Group(i)' = Group(k)'
           /\ HeaderInfo[HeaderAt(i)'].canonical > HeaderInfo[HeaderAt(k)'].canonical) <=>
        (\E i \in LastOf(SinceDirective(k)) :
           /\ Group(i) = Group(k)
           /\ HeaderInfo[HeaderAt(i)].canonical > HeaderInfo[HeaderAt(k)].canonical)
    BY <1>3, <2>5, <2>6
  <2> QED
    BY <1>2, <2>2, <2>3, <2>4, <2>5, <2>7 DEF AlphabetAt
<1>7. CASE k = l
  <2>1. l \in IncludeLines'
    BY <1>7
  <2>2. /\ clean_lines[l][2] \in DOMAIN Written /\ SinceDirective(l)' = S
        /\ section \in INITIAL_SECTION..OTHER_H_SECTION
        /\ ~OutOfOrder(section, Kind(written)) => next = SectionOf(Group(l)')
    BY <2>1, NextInclude
  <2>3. HeaderAt(l)' = header
    BY <1>2 DEF HeaderAt
  <2>4. /\ "include_order" \in NextErrors <=>
             Lists(include_state, header) /\ OutOfOrder(section, Kind(written))
        /\ "include_alpha" \in NextErrors <=>
             /\ Lists(include_state, header)
             /\ ~IsInAlphabeticalOrder(CheckNextIncludeOrder(include_state, Kind(written)),
                                       clean_lines, l, header)
    BY IncludeErrors DEF NextErrors
  <2>5. /\ <<l, "include_order">> \in errors' <=> "include_order" \in NextErrors
        /\ <<l, "include_alpha">> \in errors' <=> "include_alpha" \in NextErrors
    BY <1>2, <1>5, <2>1
  <2>6. SUFFICES
          ASSUME \A i \in S \cup {l} : <<i, "include_order">> \notin errors', OnList(l)'
          PROVE  <<l, "include_alpha">> \in errors' <=>
                   /\ l > 1 /\ StartsInclude(clean_lines[l - 1])
                   /\ \E i \in LastOf(S) :
                        /\ Group(i)' = Group(l)'
                        /\ HeaderInfo[HeaderAt(i)'].canonical > HeaderInfo[header].canonical
    <3>1. ~OnList(l)' => <<l, "include_alpha">> \notin errors'
      BY <1>2, <2>1, <2>4, <2>5
    <3> HIDE DEF header, written, S
    <3> QED
      BY <1>2, <1>7, <2>2, <2>3, <3>1 DEF AlphabetAt
  <2>7. Lists(include_state, header) /\ ~OutOfOrder(section, Kind(written)) /\ next = SectionOf(Group(l)')
    BY <1>2, <2>2, <2>4, <2>5, <2>6
  <2>8. CheckNextIncludeOrder(include_state, Kind(written)).last_header =
          IF next = section THEN last ELSE 0
    BY <1>1, <2>7 DEF CheckNextIncludeOrder, IncludeStates
  <2>9. HeaderInfo[header].canonical \in Nat \ {0} /\ last \in Nat
    BY <1>1, <2>2, HeaderAssumption DEF IncludeStates
  <2>10. <<l, "include_alpha">> \in errors' <=>
           /\ l > 1 /\ StartsInclude(clean_lines[l - 1])
           /\ next = section /\ last > HeaderInfo[header].canonical
    <3>1. <<l, "include_alpha">> \in errors' <=>
            ~IsInAlphabeticalOrder(CheckNextIncludeOrder(include_state, Kind(written)),
                                   clean_lines, l, header)
      BY <2>4, <2>5, <2>7
    <3>2. l # 1 <=> l > 1
      BY <1>1
    <3> HIDE DEF header, written, next, section, last
    <3> QED
      BY <2>8, <2>9, <3>1, <3>2 DEF IsInAlphabeticalOrder
  <2>11. CASE S = {}
    <3>1. last = 0
      BY <1>1, <2>11 DEF IInv, LastHeaderInv
    <3>2. LastOf(S) = {}
      BY <2>11 DEF LastOf
    <3> QED
      BY <2>9, <2>10, <3>1, <3>2
  <2>12. CASE S # {}
    <3>1. S \in SUBSET (1..line) /\ S \subseteq IncludeLines
      BY <1>1, <1>4
    <3>2. PICK i \in S : \A j \in S : j <= i
      BY <1>1, <2>12, <3>1, LastExists DEF LastOf
    <3>3. i \in LastOf(S)
      BY <3>2 DEF LastOf
    <3>4. \A j \in LastOf(S) : j = i
      BY <3>1, <3>2 DEF LastOf
    <3>5. i \in IncludeLines /\ i \in 1..line
      BY <3>1
    <3>6. <<i, "include_order">> \notin errors
      BY <1>2, <1>5, <2>6, <3>5
    <3>7. last = HeaderInfo[HeaderAt(i)].canonical /\ section = SectionOf(Group(i))
      BY <1>1, <3>3, <3>6 DEF IInv, LastHeaderInv
    <3>8. Group(i)' = Group(i) /\ HeaderAt(i)' = HeaderAt(i)
      BY <1>3, <3>5
    <3>9. Group(l)' \in {"my", "c_system", "cpp_system", "other"}
      <4>1. Kinds'[l] \in {"c_system", "cpp_system", "likely_my", "possible_my", "other"}
        BY <2>1, NextInclude, KindIs
      <4> QED
        BY <4>1 DEF Group, MyKinds
    <3>10. next = section <=> Group(i)' = Group(l)'
      BY <2>7, <3>5, <3>7, <3>8, <3>9, SectionsOfGroups
    <3> HIDE DEF header, written, next, section, last, S
    <3> QED
      BY <2>10, <3>3, <3>4, <3>7, <3>8, <3>10
  <2> QED
    BY <2>11, <2>12
<1> QED
  BY <1>2, <1>6, <1>7

-----------------------------------------------------------------------------
(* The lists and the duplicates                                            *)

(* A line of the last list is not forgotten, and one of the others is not  *)
(* if there was an #if after it.                                           *)
LEMMA RecentOrForgotten ==
  ASSUME NEW k \in Nat, NEW l \in Nat
  PROVE  /\ Recent(k, l) => ~Forgotten(k, l)
         /\ Recent(k, l) => \A d \in k + 1..l - 1 : ~CheckedAt(d, If)
         /\ ~Recent(k, l) /\ ~Forgotten(k, l) => \E d \in k + 1..l - 1 : CheckedAt(d, If)
<1>1. \A d : /\ CheckedAt(d, If \cup Else) <=> CheckedAt(d, If) \/ CheckedAt(d, Else)
  BY DEF CheckedAt
<1>2. Recent(k, l) => ~Forgotten(k, l)
  BY <1>1 DEF Recent, Forgotten
<1>3. Recent(k, l) => \A d \in k + 1..l - 1 : ~CheckedAt(d, If)
  BY <1>1 DEF Recent
<1>4. ASSUME ~Recent(k, l), \A d \in k + 1..l - 1 : ~CheckedAt(d, If)
      PROVE  Forgotten(k, l)
  <2>1. PICK e \in k + 1..l - 1 : CheckedAt(e, Else)
    BY <1>1, <1>4 DEF Recent
  <2>2. \A d \in k + 1..e - 1 : d \in k + 1..l - 1
    OBVIOUS
  <2> QED
    BY <1>4, <2>1, <2>2 DEF Forgotten
<1> QED
  BY <1>2, <1>3, <1>4

(* The lists have the includes that are not forgotten. *)
LEMMA IncludedAre ==
  ASSUME LineInv, ListInv
  PROVE  Included(include_state) =
           {Entry(k) : k \in {j \in 1..line : OnList(j) /\ ~Forgotten(j, line + 1)}}
<1> DEFINE A == {j \in 1..line : OnList(j) /\ Recent(j, line + 1)}
           B == {j \in 1..line : OnList(j) /\ ~Recent(j, line + 1) /\ ~Forgotten(j, line + 1)}
           C == {j \in 1..line : OnList(j) /\ ~Forgotten(j, line + 1)}
<1>1. line \in Nat /\ include_state \in IncludeStates
  BY DEF LineInv
<1>2. \A j \in 1..line : Recent(j, line + 1) => ~Forgotten(j, line + 1)
  BY <1>1, RecentOrForgotten
<1>3. C = A \cup B
  BY <1>2
<1>4. Last(include_state.include_list) = {Entry(k) : k \in A} /\ Older(include_state) = {Entry(k) : k \in B}
  BY DEF ListInv
<1> HIDE DEF A, B, C
<1>5. Included(include_state) = {Entry(k) : k \in A} \cup {Entry(k) : k \in B}
  BY <1>1, <1>4, IncludedIs
<1>6. Included(include_state) = {Entry(k) : k \in C}
  BY <1>3, <1>5
<1> QED
  BY <1>6 DEF C

(* What the next line makes of the lines before it. *)
LEMMA RecentNext ==
  ASSUME LineInv, ErrorInv, ProcessLine, NEW l \in Nat, l = line + 1
  PROVE  /\ \A k \in 1..line :
              /\ Recent(k, l + 1)' <=> Recent(k, l) /\ ~CheckedAt(l, If \cup Else)'
              /\ Forgotten(k, l + 1)' <=>
                   \/ Forgotten(k, l)
                   \/ CheckedAt(l, Else)' /\ \A d \in k + 1..l - 1 : ~CheckedAt(d, If)
         /\ Recent(l, l + 1)' /\ ~Forgotten(l, l + 1)'
<1>1. line \in Nat
  BY DEF LineInv
<1>2. /\ clean_lines' = clean_lines
      /\ \A d \in 1..line : d \in checked' <=> d \in checked
  BY NextLine
<1>3. \A S : \A d \in 1..line : CheckedAt(d, S)' <=> CheckedAt(d, S)
  BY <1>2 DEF CheckedAt
<1>4. ASSUME NEW k \in 1..line
      PROVE  /\ \A d \in k + 1..l : d \in k + 1..l - 1 \/ d = l
             /\ \A d \in k + 1..l - 1 : d \in k + 1..l /\ d \in 1..line
             /\ l \in k + 1..l
             /\ \A e \in k + 1..l - 1 : \A d \in k + 1..e - 1 : d \in 1..line
             /\ (l + 1) - 1 = l
  BY <1>1
<1>5. ASSUME NEW k \in 1..line
      PROVE  Recent(k, l + 1)' <=> Recent(k, l) /\ ~CheckedAt(l, If \cup Else)'
  BY <1>3, <1>4 DEF Recent
<1>6. ASSUME NEW k \in 1..line
      PROVE  Forgotten(k, l + 1)' <=>
               \/ Forgotten(k, l)
               \/ CheckedAt(l, Else)' /\ \A d \in k + 1..l - 1 : ~CheckedAt(d, If)
  <2> DEFINE Else_(e) == CheckedAt(e, Else)' /\ \A d \in k + 1..e - 1 : ~CheckedAt(d, If)'
  <2>1. Forgotten(k, l + 1)' <=> \E e \in k + 1..l : Else_(e)
    BY <1>4 DEF Forgotten
  <2>2. \A e \in k + 1..l - 1 :
          Else_(e) <=> CheckedAt(e, Else) /\ \A d \in k + 1..e - 1 : ~CheckedAt(d, If)
    BY <1>3, <1>4
  <2>3. Else_(l) <=> CheckedAt(l, Else)' /\ \A d \in k + 1..l - 1 : ~CheckedAt(d, If)
    BY <1>3, <1>4
  <2> HIDE DEF Else_
  <2>4. (\E e \in k + 1..l : Else_(e)) <=> (\E e \in k + 1..l - 1 : Else_(e)) \/ Else_(l)
    BY <1>4
  <2> QED
    BY <2>1, <2>2, <2>3, <2>4 DEF Forgotten
<1>7. l + 1..(l + 1) - 1 = {}
  OBVIOUS
<1>8. Recent(l, l + 1)' /\ ~Forgotten(l, l + 1)'
  BY <1>7 DEF Recent, Forgotten
<1> QED
  BY <1>5, <1>6, <1>8

(* A line keeps the lists those of the includes that are not forgotten, ... *)
LEMMA ListKept ==
  ASSUME IInv, ProcessLine
  PROVE  ListInv'
<1> PICK l \in Nat : l = line + 1
  BY DEF IInv, LineInv
<1> DEFINE written == Written[clean_lines[l][2]]
           header == written.header
           conditional == l \in checked' /\ IsConditional(clean_lines[l])
           A == {j \in 1..line : OnList(j) /\ Recent(j, l)}
           B == {j \in 1..line : OnList(j) /\ ~Recent(j, l) /\ ~Forgotten(j, l)}
           newA == {j \in 1..l : OnList(j)' /\ Recent(j, l + 1)'}
           newB == {j \in 1..l : OnList(j)' /\ ~Recent(j, l + 1)' /\ ~Forgotten(j, l + 1)'}
           list == include_state'.include_list
<1>1. LineInv /\ ErrorInv /\ ListInv /\ include_state \in IncludeStates /\ line \in Nat
  BY DEF IInv, LineInv
<1>2. /\ line' = l /\ clean_lines' = clean_lines
      /\ OnList(l)' <=> l \in IncludeLines' /\ Lists(include_state, header)
      /\ conditional => ~OnList(l)'
      /\ OnList(l)' => include_state' = CheckIncludeLine(include_state, clean_lines, l).state
      /\ conditional => include_state' = ResetSection(include_state, Directive(clean_lines[l]))
      /\ ~conditional /\ ~OnList(l)' => include_state' = include_state
  BY <1>1, NextLine
<1>3. \A j \in 1..line : OnList(j)' <=> OnList(j)
  BY <1>1, NextLine, OlderLines
<1>4. \A k : Entry(k)' = Entry(k)
  BY <1>2 DEF Entry, HeaderAt
<1>5. ListInv' <=> /\ Last(list) = {Entry(k) : k \in newA}
                   /\ Older(include_state') = {Entry(k) : k \in newB}
  BY <1>2, <1>4 DEF ListInv, Older, Recent, Forgotten
<1>6. /\ Last(include_state.include_list) = {Entry(k) : k \in A}
      /\ Older(include_state) = {Entry(k) : k \in B}
      /\ Included(include_state) = {Entry(k) : k \in A \cup B}
  <2>1. Last(include_state.include_list) = {Entry(k) : k \in A}
    BY <1>1 DEF ListInv
  <2>2. Older(include_state) = {Entry(k) : k \in B}
    BY <1>1 DEF ListInv
  <2>3. Included(include_state) = Older(include_state) \cup Last(include_state.include_list)
    BY <1>1, IncludedIs
  <2> HIDE DEF A, B
  <2> QED
    BY <2>1, <2>2, <2>3
<1>7. 1..l = 1..line \cup {l} /\ l \notin 1..line
  BY <1>1
<1>8. /\ \A k \in 1..line :
           /\ Recent(k, l + 1)' <=> Recent(k, l) /\ ~CheckedAt(l, If \cup Else)'
           /\ Forgotten(k, l + 1)' <=>
                \/ Forgotten(k, l)
                \/ CheckedAt(l, Else)' /\ \A d \in k + 1..l - 1 : ~CheckedAt(d, If)
      /\ Recent(l, l + 1)' /\ ~Forgotten(l, l + 1)'
  BY <1>1, RecentNext
<1>9. \A k \in 1..line :
        /\ Recent(k, l) => ~Forgotten(k, l)
        /\ Recent(k, l) => \A d \in k + 1..l - 1 : ~CheckedAt(d, If)
        /\ ~Recent(k, l) /\ ~Forgotten(k, l) => \E d \in k + 1..l - 1 : CheckedAt(d, If)
  BY RecentOrForgotten
<1>10. /\ CheckedAt(l, If \cup Else)' <=> l \in checked' /\ Directive(clean_lines[l]) \in If \cup Else
       /\ CheckedAt(l, Else)' <=> l \in checked' /\ Directive(clean_lines[l]) \in Else
  BY <1>2 DEF CheckedAt
<1>11. If \cap Else = {} /\ If \cap Endif = {} /\ Else \cap Endif = {}
  BY DEF If, Else, Endif
<1>12. CASE ~CheckedAt(l, If \cup Else)'
  <2>1. ~CheckedAt(l, Else)'
    BY <1>10, <1>12
  <2>2. /\ newA = A \cup (IF OnList(l)' THEN {l} ELSE {})
        /\ newB = B
    BY <1>3, <1>7, <1>8, <1>12, <2>1
  <2>3. CASE OnList(l)'
    <3>1. clean_lines[l][2] \in DOMAIN Written /\ NextSection(include_state.section, Kind(written)) \in INITIAL_SECTION..OTHER_H_SECTION
      BY <1>2, <2>3, NextInclude
    <3>2. /\ Last(list) = Last(include_state.include_list) \cup {<<header, l>>}
          /\ Older(include_state') = Older(include_state)
      <4>1. Lists(include_state, header)
        BY <1>2, <2>3
      <4>2. LET t == CheckIncludeLine(include_state, clean_lines, l).state
            IN  /\ Last(t.include_list) = Last(include_state.include_list) \cup {<<header, l>>}
                /\ Older(t) = Older(include_state)
        BY <1>1, <3>1, <4>1, IncludeListed
      <4> QED
        BY <1>2, <2>3, <4>2
    <3>3. Entry(l) = <<header, l>>
      BY DEF Entry, HeaderAt
    <3> HIDE DEF newA, newB, A, B, list, header, written
    <3> QED
      BY <1>5, <1>6, <2>2, <2>3, <3>2, <3>3
  <2>4. CASE ~OnList(l)'
    <3>1. CASE conditional
      <4>1. Directive(clean_lines[l]) \in Endif
        BY <1>10, <1>12, <3>1 DEF IsConditional
      <4>2. list = include_state.include_list
        BY <1>1, <1>2, <3>1, <4>1, ResetSectionIs
      <4> HIDE DEF newA, newB, A, B, header, written
      <4> QED
        BY <1>5, <1>6, <2>2, <2>4, <4>2 DEF Older
    <3>2. CASE ~conditional
      <4>1. include_state' = include_state
        BY <1>2, <2>4, <3>2
      <4> HIDE DEF newA, newB, A, B, header, written
      <4> QED
        BY <1>5, <1>6, <2>2, <2>4, <4>1
    <3> QED
      BY <3>1, <3>2
  <2> QED
    BY <2>3, <2>4
<1>13. CASE CheckedAt(l, If \cup Else)'
  <2>1. conditional /\ ~OnList(l)'
    BY <1>2, <1>10, <1>13 DEF IsConditional
  <2>2. newA = {}
    BY <1>3, <1>7, <1>8, <1>13, <2>1
  <2>3. CASE Directive(clean_lines[l]) \in If
    <3>1. ~CheckedAt(l, Else)'
      BY <1>10, <1>11, <2>3
    <3>2. newB = A \cup B
      BY <1>3, <1>7, <1>8, <1>9, <1>13, <2>1, <3>1
    <3>3. Last(list) = {} /\ Older(include_state') = Included(include_state)
      BY <1>1, <1>2, <2>1, <2>3, ResetSectionIs
    <3> HIDE DEF newA, newB, A, B
    <3> QED
      BY <1>5, <1>6, <2>2, <3>2, <3>3
  <2>4. CASE Directive(clean_lines[l]) \in Else
    <3>1. CheckedAt(l, Else)'
      BY <1>10, <1>13, <2>4
    <3>2. \A j \in 1..line :
            ~Forgotten(j, l + 1)' <=> ~Recent(j, l) /\ ~Forgotten(j, l)
      BY <1>8, <1>9, <3>1
    <3>3. newB = B
      BY <1>3, <1>7, <1>8, <1>13, <2>1, <3>2
    <3>4. Last(list) = {} /\ Older(include_state') = Older(include_state)
      BY <1>1, <1>2, <2>1, <2>4, ResetSectionIs
    <3> HIDE DEF newA, newB, A, B
    <3> QED
      BY <1>5, <1>6, <2>2, <3>3, <3>4
  <2> QED
    BY <1>10, <1>13, <2>3, <2>4
<1> QED
  BY <1>12, <1>13

(* ... and the reports of duplicates exact. *)
LEMMA DuplicateKept ==
  ASSUME IInv, ProcessLine, NEW k \in IncludeLines'
  PROVE  DuplicateAt(k)'
<1> PICK l \in Nat : l = line + 1
  BY DEF IInv, LineInv
<1> DEFINE written == Written[clean_lines[l][2]]
           header == written.header
<1>1. LineInv /\ ErrorInv /\ ListInv /\ line \in Nat
  BY DEF IInv, LineInv
<1>2. /\ IncludeLines' \subseteq IncludeLines \cup {l}
      /\ IncludeLines \subseteq 1..line
      /\ clean_lines' = clean_lines
      /\ \A c \in IncludeCategories :
           <<l, c>> \in errors' <=> l \in IncludeLines' /\ c \in NextErrors
      /\ \A j, c : j \in 1..line /\ c \in IncludeCategories =>
           (<<j, c>> \in errors' <=> <<j, c>> \in errors)
  BY <1>1, NextLine DEF IncludeLines
<1>3. /\ \A j : HeaderAt(j)' = HeaderAt(j)
      /\ \A j \in 1..line : OnList(j)' <=> OnList(j)
      /\ \A j \in 1..line, i \in 1..line + 1 : Forgotten(j, i)' <=> Forgotten(j, i)
  BY <1>1, NextLine, OlderLines
<1>4. "include" \in IncludeCategories
  BY DEF IncludeCategories
<1>5. k \in 1..line + 1 /\ k \in Nat /\ \A j \in 1..k - 1 : j \in 1..line
  BY <1>1, <1>2
<1>6. (\E j \in 1..k - 1 : OnList(j)' /\ HeaderAt(j)' = HeaderAt(k)' /\ ~Forgotten(j, k)') <=>
        (\E j \in 1..k - 1 : OnList(j) /\ HeaderAt(j) = HeaderAt(k) /\ ~Forgotten(j, k))
  BY <1>3, <1>5
<1>7. DuplicateAt(k)' <=>
        (<<k, "include">> \in errors' <=>
           \E j \in 1..k - 1 : OnList(j) /\ HeaderAt(j) = HeaderAt(k) /\ ~Forgotten(j, k))
  BY <1>6 DEF DuplicateAt
<1>8. CASE k \in IncludeLines
  BY <1>2, <1>4, <1>7, <1>8 DEF IInv, Reports, DuplicateAt
<1>9. CASE k = l
  <2>1. <<l, "include">> \in errors' <=> FindHeader(include_state, header) # {}
    <3>1. "include" \in NextErrors <=> FindHeader(include_state, header) # {}
      BY IncludeErrors DEF NextErrors
    <3> QED
      BY <1>2, <1>4, <1>9, <3>1
  <2>2. FindHeader(include_state, header) # {} <=> \E f \in Included(include_state) : f[1] = header
    BY DEF FindHeader
  <2>3. Included(include_state) =
          {Entry(j) : j \in {i \in 1..line : OnList(i) /\ ~Forgotten(i, l)}}
    BY <1>1, IncludedAre
  <2>4. (\E f \in Included(include_state) : f[1] = header) <=>
          \E j \in 1..line : OnList(j) /\ ~Forgotten(j, l) /\ HeaderAt(j) = header
    <3>1. \A j : Entry(j)[1] = HeaderAt(j)
      BY DEF Entry
    <3>2. /\ \A f \in Included(include_state) :
               \E j \in 1..line : OnList(j) /\ ~Forgotten(j, l) /\ f = Entry(j)
          /\ \A j \in 1..line : OnList(j) /\ ~Forgotten(j, l) => Entry(j) \in Included(include_state)
      BY <2>3
    <3> HIDE DEF header, written
    <3> QED
      BY <3>1, <3>2
  <2>5. HeaderAt(l) = header /\ l - 1 = line
    BY <1>1 DEF HeaderAt
  <2> QED
    BY <1>7, <1>9, <2>1, <2>2, <2>4, <2>5
<1> QED
  BY <1>2, <1>8, <1>9

-----------------------------------------------------------------------------
(* The invariant                                                           *)

(* A line keeps what is known of the lines and of the errors in general. *)
LEMMA ErrorsKept ==
  ASSUME IInv, ProcessLine
  PROVE  LineInv' /\ ErrorInv'
<1> PICK l \in Nat : l = line + 1
  BY DEF IInv, LineInv
<1> DEFINE written == Written[clean_lines[l][2]]
           header == written.header
           r == CheckLanguage(include_state, clean_lines, l)
<1>1. LineInv /\ ErrorInv /\ line \in Nat
  BY DEF IInv, LineInv
<1>2. /\ IncludeLines \subseteq IncludeLines' /\ IncludeLines' \subseteq IncludeLines \cup {l}
      /\ IncludeLines \subseteq 1..line
      /\ line' = l /\ clean_lines' = clean_lines
      /\ \A c \in IncludeCategories :
           <<l, c>> \in errors' <=> l \in IncludeLines' /\ c \in NextErrors
      /\ \A j, c : j \in 1..line /\ c \in IncludeCategories =>
           (<<j, c>> \in errors' <=> <<j, c>> \in errors)
  BY <1>1, NextLine DEF IncludeLines
<1>3. /\ alphabet' = alphabet /\ text' = text /\ pc = "lines" /\ pc' = "lines"
      /\ l \in 1..Len(clean_lines)
      /\ (checked' = checked /\ l \notin checked') \/ checked' = checked \cup {l}
      /\ l \notin checked' => errors' = errors
      /\ \A e \in errors' :
           \/ e \in errors \/ e[2] \in Categories \ IncludeCategories
           \/ e[1] = l /\ e[2] \in r.errors
  BY <1>1, ProcessLineIs
<1>4. LineInv'
  <2>1. 1..line \subseteq 1..l /\ l \in 1..l /\ l \in 0..Len(clean_lines)
    BY <1>1, <1>3 DEF LineInv
  <2>2. checked' \subseteq 1..l
    BY <1>1, <1>3, <2>1 DEF LineInv
  <2>3. include_state' \in IncludeStates
    BY StateKept
  <2> QED
    BY <1>1, <1>2, <1>3, <2>1, <2>2, <2>3 DEF LineInv
<1>5. r.errors \subseteq Categories /\ (r.errors # {} => IsInclude(clean_lines[l]))
  <2>1. CASE IsInclude(clean_lines[l])
    BY <2>1, IncludeErrors DEF CheckLanguage
  <2>2. CASE ~IsInclude(clean_lines[l])
    BY <2>2 DEF CheckLanguage
  <2> QED
    BY <2>1, <2>2
<1>6. l \in checked' /\ IsInclude(clean_lines[l]) => l \in IncludeLines'
  BY <1>1, <1>2 DEF IncludeLines
<1>7. ASSUME NEW e \in errors'
      PROVE  /\ e[2] \in Categories
             /\ e[2] \in IncludeCategories => e[1] \in IncludeLines'
  <2>1. CASE e \in errors
    BY <1>1, <1>2, <1>3, <2>1 DEF ErrorInv
  <2>2. CASE e \notin errors
    BY <1>3, <1>5, <1>6, <2>2
  <2> QED
    BY <2>1, <2>2
<1>8. ASSUME NEW k \in IncludeLines', <<k, "include_cc">> \in errors'
      PROVE  HeaderInfo[HeaderAt(k)'].ext = "cc"
  <2>1. HeaderAt(k)' = HeaderAt(k) /\ "include_cc" \in IncludeCategories
    BY <1>2 DEF HeaderAt, IncludeCategories
  <2>2. CASE k \in IncludeLines
    BY <1>1, <1>2, <1>8, <2>1, <2>2 DEF ErrorInv
  <2>3. CASE k = l
    <3>1. "include_cc" \in NextErrors
      BY <1>2, <1>8, <2>1, <2>3
    <3>2. HeaderInfo[header].ext = "cc"
      BY <3>1, IncludeErrors DEF NextErrors
    <3> QED
      BY <2>1, <2>3, <3>2 DEF HeaderAt
  <2> QED
    BY <1>2, <2>2, <2>3
<1> QED
  BY <1>3, <1>4, <1>7, <1>8 DEF ErrorInv

(* Before the first line there is nothing to say about. *)
LEMMA NoLine ==
  line = 0 /\ include_state = NewIncludes => SectionInv /\ LastHeaderInv /\ ListInv /\ Reports
<1> SUFFICES ASSUME line = 0, include_state = NewIncludes
             PROVE  SectionInv /\ LastHeaderInv /\ ListInv /\ Reports
  OBVIOUS
<1>1. 1..line = {} /\ 1..(line + 1) - 1 = {}
  OBVIOUS
<1>2. SinceDirective(line + 1) = {} /\ IncludeLines = {}
  BY <1>1 DEF SinceDirective, IncludeLines
<1>3. include_state.section = 0 /\ include_state.last_header = 0 /\ include_state.include_list = <<{}>>
  BY DEF NewIncludes, INITIAL_SECTION
<1>4. SectionInv
  BY <1>2, <1>3 DEF SectionInv, SectionFits, TooLate, MY_H_SECTION, C_SECTION, CPP_SECTION,
                    OTHER_H_SECTION
<1>5. LastHeaderInv
  BY <1>2, <1>3 DEF LastHeaderInv, LastOf
<1>6. ListInv
  <2>1. Last(<<{}>>) = {} /\ Front(<<{}>>) = <<>>
    BY DEF Last, Front
  <2>2. UNION ToSet(<<>>) = {}
    BY DEF ToSet
  <2> QED
    BY <1>1, <1>3, <2>1, <2>2 DEF ListInv, Older
<1> QED
  BY <1>2, <1>4, <1>5, <1>6 DEF Reports

(* A step that leaves the lines alone keeps what is said about them. *)
LEMMA SameLines ==
  ASSUME IInv,
         clean_lines' = clean_lines, line' = line, checked' = checked,
         include_state' = include_state,
         \A k, c : c \in IncludeCategories => (<<k, c>> \in errors' <=> <<k, c>> \in errors)
  PROVE  /\ SectionInv' /\ LastHeaderInv' /\ ListInv' /\ Reports'
         /\ IncludeLines' = IncludeLines
         /\ \A k : HeaderAt(k)' = HeaderAt(k)
<1>1. LineInv /\ line \in Nat
  BY DEF IInv, LineInv
<1>2. IncludeLines' = IncludeLines /\ IncludeLines \subseteq 1..line /\ 1..line \subseteq 1..line + 1
  BY <1>1 DEF IncludeLines
<1>3. /\ \A k : HeaderAt(k)' = HeaderAt(k)
      /\ \A k \in 1..line : OnList(k)' <=> OnList(k)
      /\ \A k \in IncludeLines : Kinds'[k] = Kinds[k]
      /\ \A k \in 1..line + 1 : SinceDirective(k)' = SinceDirective(k)
      /\ \A k \in IncludeLines : Group(k)' = Group(k)
      /\ \A k \in 1..line, l \in 1..line + 1 :
           /\ Recent(k, l)' <=> Recent(k, l)
           /\ Forgotten(k, l)' <=> Forgotten(k, l)
  BY <1>1, OlderLines
<1>4. \A k \in 1..line + 1 : SinceDirective(k) \subseteq IncludeLines
  BY <1>1, SinceIs
<1>5. line + 1 \in 1..line + 1
  BY <1>1
<1>6. SectionInv'
  <2>1. SectionFits(include_state.section, Kinds, SinceDirective(line + 1))
    BY DEF IInv, SectionInv
  <2>2. SectionFits(include_state.section, Kinds', SinceDirective(line + 1))
    BY <1>3, <1>4, <1>5, <2>1, KindsAgree
  <2>3. SinceDirective(line + 1)' = SinceDirective(line + 1)
    BY <1>3, <1>5 DEF SinceDirective
  <2> QED
    BY <2>2, <2>3 DEF SectionInv
<1>7. LastHeaderInv'
  <2>1. SinceDirective(line + 1)' = SinceDirective(line + 1)
    BY <1>3, <1>5 DEF SinceDirective
  <2>2. LastOf(SinceDirective(line + 1)) \subseteq IncludeLines
    BY <1>4, <1>5 DEF LastOf
  <2> QED
    BY <1>3, <2>1, <2>2 DEF IInv, LastHeaderInv, IncludeCategories
<1>8. ListInv'
  <2>1. \A k : Entry(k)' = Entry(k)
    BY <1>3 DEF Entry
  <2>2. {j \in 1..line : OnList(j)' /\ Recent(j, line + 1)'} =
          {j \in 1..line : OnList(j) /\ Recent(j, line + 1)}
    BY <1>3, <1>5 DEF Recent
  <2>3. {j \in 1..line : OnList(j)' /\ ~Recent(j, line + 1)' /\ ~Forgotten(j, line + 1)'} =
          {j \in 1..line : OnList(j) /\ ~Recent(j, line + 1) /\ ~Forgotten(j, line + 1)}
    BY <1>3, <1>5 DEF Recent, Forgotten
  <2>4. ListInv' <=>
          /\ Last(include_state.include_list) =
               {Entry(k) : k \in {j \in 1..line : OnList(j)' /\ Recent(j, line + 1)'}}
          /\ Older(include_state) =
               {Entry(k) : k \in {j \in 1..line :
                  OnList(j)' /\ ~Recent(j, line + 1)' /\ ~Forgotten(j, line + 1)'}}
    BY <2>1 DEF ListInv, Older
  <2> QED
    BY <2>2, <2>3, <2>4 DEF IInv, ListInv
<1>9. ASSUME NEW k \in IncludeLines
      PROVE  OrderAt(k)' /\ AlphabetAt(k)' /\ DuplicateAt(k)'
  <2>1. OrderAt(k) /\ AlphabetAt(k) /\ DuplicateAt(k)
    BY DEF IInv, Reports
  <2>2. k \in 1..line /\ k \in 1..line + 1 /\ \A j \in 1..k - 1 : j \in 1..line
    BY <1>1, <1>2
  <2>3. /\ OnList(k)' <=> OnList(k)
        /\ SinceDirective(k)' = SinceDirective(k) /\ SinceDirective(k) \subseteq IncludeLines
        /\ Kinds'[k] = Kinds[k] /\ Group(k)' = Group(k)
    BY <1>3, <1>4, <2>2
  <2>4. \A j : /\ <<j, "include_order">> \in errors' <=> <<j, "include_order">> \in errors
               /\ <<j, "include_alpha">> \in errors' <=> <<j, "include_alpha">> \in errors
               /\ <<j, "include">> \in errors' <=> <<j, "include">> \in errors
    BY DEF IncludeCategories
  <2>5. OrderAt(k)'
    <3>1. TooLate(Kinds', SinceDirective(k), Kinds[k]) <=> TooLate(Kinds, SinceDirective(k), Kinds[k])
      BY <1>3, <2>3, KindsAgree
    <3> QED
      BY <2>1, <2>3, <2>4, <3>1 DEF OrderAt
  <2>6. AlphabetAt(k)'
    <3>1. \A i \in LastOf(SinceDirective(k)) : Group(i)' = Group(i)
      BY <1>3, <2>3 DEF LastOf
    <3>2. (\E i \in LastOf(SinceDirective(k)') :
             /\ Group(i)' = Group(k)'
             /\ HeaderInfo[HeaderAt(i)'].canonical > HeaderInfo[HeaderAt(k)'].canonical) <=>
          (\E i \in LastOf(SinceDirective(k)) :
             /\ Group(i) = Group(k)
             /\ HeaderInfo[HeaderAt(i)].canonical > HeaderInfo[HeaderAt(k)].canonical)
      BY <1>3, <2>3, <3>1
    <3> QED
      BY <2>1, <2>3, <2>4, <3>2 DEF AlphabetAt
  <2>7. DuplicateAt(k)'
    <3>1. (\E j \in 1..k - 1 : OnList(j)' /\ HeaderAt(j)' = HeaderAt(k)' /\ ~Forgotten(j, k)') <=>
            (\E j \in 1..k - 1 : OnList(j) /\ HeaderAt(j) = HeaderAt(k) /\ ~Forgotten(j, k))
      BY <1>3, <2>2
    <3> QED
      BY <2>1, <2>4, <3>1 DEF DuplicateAt
  <2> QED
    BY <2>5, <2>6, <2>7
<1> QED
  BY <1>2, <1>3, <1>6, <1>7, <1>8, <1>9 DEF Reports

(* What the end of the file reports of the includes are missing headers. *)
LEMMA EndOfFileIs ==
  ASSUME IInv, EndOfFile
  PROVE  /\ \A k, c : c \in IncludeCategories => (<<k, c>> \in errors' <=> <<k, c>> \in errors)
         /\ \A e \in errors' : e \in errors \/ e[2] \notin IncludeCategories
         /\ \A e \in errors' : e[2] = "fn_size" => e \in errors
         /\ MissingReported'
<1>1. /\ pc = "lines" /\ include_state' = include_state
  BY DEF EndOfFile
<1>2. PICK found \in SUBSET {h \in DOMAIN OwnHeaders : FilesBelongToSameModule(h)}, exists \in BOOLEAN :
        errors' = errors
          \cup CheckCompletedBlocks(nesting_state.stack)
          \cup {<<0, c>> : c \in CheckHeaderFileIncluded(include_state, exists)}
          \cup {<<0, h>> : h \in CheckForIncludeWhatYouUse(include_state, Required,
                                   UpdateIncludeState(found))}
  BY DEF EndOfFile
<1> DEFINE own == UpdateIncludeState(found)
           missing == CheckForIncludeWhatYouUse(include_state, Required, own)
<1>3. \A e \in CheckCompletedBlocks(nesting_state.stack) : e[2] \in {Class, Namespace}
  BY DEF CheckCompletedBlocks
<1>4. CheckHeaderFileIncluded(include_state, exists) \subseteq {"header_included"}
  BY DEF CheckHeaderFileIncluded
<1>5. \A h \in Required : h \in Headers /\ \E t \in DOMAIN Requires : h = Requires[t]
  BY RequiresAssumption DEF Required
<1>6. missing \subseteq Required
  BY DEF CheckForIncludeWhatYouUse
<1>7. {Class, Namespace, "header_included"} \cap IncludeCategories = {}
  BY DEF Class, Namespace, IncludeCategories
<1>8. /\ Class \in Categories /\ Namespace \in Categories /\ "header_included" \in Categories
      /\ IncludeCategories \subseteq Categories
  BY DEF Categories, IncludeCategories
<1>9. \A h \in missing : h \in Headers /\ h \notin Categories
  BY <1>5, <1>6, HeaderAssumption
<1> HIDE DEF missing
<1>10. \A e \in errors' :
         \/ e \in errors
         \/ e[2] \in {Class, Namespace, "header_included"}
         \/ \E h \in missing : e = <<0, h>>
  <2>1. \A e \in errors' :
          \/ e \in errors
          \/ e \in CheckCompletedBlocks(nesting_state.stack)
          \/ \E c \in CheckHeaderFileIncluded(include_state, exists) : e = <<0, c>>
          \/ \E h \in missing : e = <<0, h>>
    BY <1>2 DEF missing
  <2>2. \A c : <<0, c>>[2] = c
    OBVIOUS
  <2> QED
    BY <1>3, <1>4, <2>1, <2>2
<1>11. \A e \in errors' : e \in errors \/ e[2] \notin IncludeCategories
  <2>1. \A h : <<0, h>>[2] = h
    OBVIOUS
  <2> QED
    BY <1>7, <1>8, <1>9, <1>10, <2>1
<1>12. \A k, c : c \in IncludeCategories => (<<k, c>> \in errors' <=> <<k, c>> \in errors)
  <2>1. \A k, c : <<k, c>>[2] = c
    OBVIOUS
  <2>2. errors \subseteq errors'
    BY <1>2
  <2> QED
    BY <1>11, <2>1, <2>2
<1>13. ASSUME NEW h \in Headers, <<0, h>> \in errors'
       PROVE  h \in missing
  <2>1. h \notin Categories
    BY HeaderAssumption
  <2>2. <<0, h>> \notin errors
    BY <1>1, <2>1 DEF IInv, ErrorInv
  <2>3. \A g : <<0, h>> = <<0, g>> => h = g
    OBVIOUS
  <2>4. <<0, h>>[2] = h
    OBVIOUS
  <2> QED
    BY <1>8, <1>10, <1>13, <2>1, <2>2, <2>3, <2>4
<1>14. ASSUME NEW h \in missing
       PROVE  /\ \A f \in Included(include_state) : f[1] # h
              /\ FileInfo.is_header \/ \E f \in Included(include_state) : HeaderInfo[f[1]].module
  <2> DEFINE headers == {f[1] : f \in Included(include_state)}
             opened == headers \cap DOMAIN own
  <2>1. /\ opened # {} \/ FileInfo.is_header
        /\ h \notin headers
    BY <1>14 DEF CheckForIncludeWhatYouUse, missing
  <2>2. \A g \in DOMAIN own : HeaderInfo[g].module
    BY DEF UpdateIncludeState, FilesBelongToSameModule
  <2> QED
    BY <2>1, <2>2
<1>15. MissingReported'
  <2>1. \A h \in missing : \E t \in DOMAIN Requires : h = Requires[t]
    BY <1>5, <1>6
  <2> QED
    BY <1>1, <1>13, <1>14, <2>1 DEF MissingReported, Included
<1>16. \A e \in errors' : e[2] = "fn_size" => e \in errors
  <2>1. \A h : <<0, h>>[2] = h
    OBVIOUS
  <2>2. "fn_size" \in Categories /\ "fn_size" \notin {Class, Namespace, "header_included"}
    BY DEF Categories, Class, Namespace
  <2> QED
    BY <1>9, <1>10, <2>1, <2>2
<1> QED
  BY <1>11, <1>12, <1>15, <1>16

(* The invariant holds of a file with no text, ... *)
THEOREM InitIsInductive == Init => IInv
<1> SUFFICES ASSUME Init PROVE IInv
  OBVIOUS
<1>1. NewIncludes \in IncludeStates
  <2>1. <<{}>> \in Seq(SUBSET (Headers \X Nat)) /\ <<{}>> # <<>>
    OBVIOUS
  <2> QED
    BY <2>1 DEF NewIncludes, IncludeStates, INITIAL_SECTION, OTHER_H_SECTION
<1>2. LineInv
  <2>1. Len(<<>>) = 0 /\ DOMAIN <<>> = 1..0
    OBVIOUS
  <2> QED
    BY <1>1, <2>1 DEF Init, LineInv
<1> QED
  BY <1>2, NoLine DEF Init, IInv, ErrorInv, MissingReported, IncludeLines

(* ... and every step keeps it. *)
THEOREM NextIsInductive == IInv /\ [Next]_vars => IInv'
<1> SUFFICES ASSUME IInv, [Next]_vars PROVE IInv'
  OBVIOUS
<1>1. ASSUME /\ UNCHANGED <<alphabet, pc, clean_lines, line, include_state, errors, checked>>
             /\ text' \in Seq(UNION {a.lines : a \in Alphabets})
      PROVE  IInv'
  <2>1. LineInv'
    BY <1>1 DEF IInv, LineInv
  <2>2. SectionInv' /\ LastHeaderInv' /\ ListInv' /\ Reports' /\ IncludeLines' = IncludeLines
    BY <1>1, SameLines
  <2>3. ErrorInv'
    BY <1>1, <2>2 DEF IInv, ErrorInv, HeaderAt
  <2>4. MissingReported'
    BY <1>1 DEF IInv, MissingReported, Included
  <2> QED
    BY <2>1, <2>2, <2>3, <2>4 DEF IInv
<1>2. CASE UNCHANGED vars
  BY <1>1, <1>2 DEF IInv, LineInv, vars
<1>3. CASE Write
  <2>1. PICK l \in alphabet.lines : text' = Append(text, l)
    BY <1>3 DEF Write
  <2>2. /\ text \in Seq(UNION {a.lines : a \in Alphabets})
        /\ l \in UNION {a.lines : a \in Alphabets}
    BY <2>1 DEF IInv, LineInv
  <2>3. text' \in Seq(UNION {a.lines : a \in Alphabets})
    BY <2>1, <2>2, AppendProperties
  <2> QED
    BY <1>1, <1>3, <2>3 DEF Write
<1>4. CASE Begin
  <2>1. /\ line = 0 /\ line' = 0 /\ include_state' = NewIncludes /\ include_state' = include_state
        /\ checked' = checked /\ alphabet' = alphabet /\ text' = text /\ pc' = "lines"
        /\ clean_lines' = Elided(text)
        /\ errors' = {<<l + 1, "multiline_comment">> : l \in MultiLineComments(text).error}
    BY <1>4 DEF Begin, IInv, LineInv
  <2>2. SectionInv' /\ LastHeaderInv' /\ ListInv' /\ Reports'
    <3>1. (line = 0 /\ include_state = NewIncludes)'
      BY <2>1
    <3> QED
      BY <3>1, NoLine, PTL
  <2>3. LineInv'
    <3>1. Len(clean_lines') \in Nat /\ DOMAIN clean_lines' = 1..Len(clean_lines')
      BY <2>1, ElidedKeepsLines DEF IInv, LineInv
    <3>2. 0 \in 0..Len(clean_lines')
      BY <3>1
    <3> QED
      BY <2>1, <3>1, <3>2 DEF IInv, LineInv
  <2>4. ErrorInv'
    <3>1. IncludeLines' = {}
      BY <2>1 DEF IncludeLines
    <3>2. \A e \in errors' : e[2] = "multiline_comment"
      BY <2>1
    <3>3. "multiline_comment" \in Categories /\ "multiline_comment" \notin IncludeCategories
      BY DEF Categories, IncludeCategories
    <3> QED
      BY <3>1, <3>2, <3>3 DEF ErrorInv
  <2> QED
    BY <2>1, <2>2, <2>3, <2>4 DEF IInv, MissingReported
<1>5. CASE ProcessLine
  <2>1. pc' = "lines"
    BY <1>5 DEF ProcessLine
  <2>2. \A k \in IncludeLines' : OrderAt(k)' /\ AlphabetAt(k)' /\ DuplicateAt(k)'
    BY <1>5, OrderKept, AlphabetKept, DuplicateKept
  <2> QED
    BY <1>5, <2>1, <2>2, ErrorsKept, StateKept, LastHeaderKept, ListKept
       DEF IInv, Reports, MissingReported
<1>6. CASE EndOfFile
  <2>1. /\ clean_lines' = clean_lines /\ line' = line /\ checked' = checked
        /\ include_state' = include_state /\ pc' = "done"
        /\ alphabet' = alphabet /\ text' = text
    BY <1>6 DEF EndOfFile
  <2>2. /\ \A k, c : c \in IncludeCategories => (<<k, c>> \in errors' <=> <<k, c>> \in errors)
        /\ \A e \in errors' : e \in errors \/ e[2] \notin IncludeCategories
        /\ MissingReported'
    BY <1>6, EndOfFileIs
  <2>3. /\ SectionInv' /\ LastHeaderInv' /\ ListInv' /\ Reports'
        /\ IncludeLines' = IncludeLines /\ \A k : HeaderAt(k)' = HeaderAt(k)
    BY <2>1, <2>2, SameLines
  <2>4. LineInv'
    BY <2>1 DEF IInv, LineInv
  <2>5. ErrorInv'
    <3>1. "include_cc" \in IncludeCategories
      BY DEF IncludeCategories
    <3> QED
      BY <2>1, <2>2, <2>3, <3>1 DEF IInv, ErrorInv
  <2> QED
    BY <2>2, <2>3, <2>4, <2>5 DEF IInv
<1> QED
  BY <1>2, <1>3, <1>4, <1>5, <1>6 DEF Next

(* The state of the includes stands for the includes of the checked lines, *)
(* and what was reported of each line is what these lines say, between any *)
(* two lines of any text.                                                  *)
THEOREM IncludeInvariant == Spec => []IInv
<1> QED
  BY InitIsInductive, NextIsInductive, PTL DEF Spec

-----------------------------------------------------------------------------
(* Branches                                                                *)

(* An #if ends with the first line that ends it, if it does. *)
LEMMA EndIs ==
  ASSUME NEW lines, NEW n \in Nat, NEW i \in Nat, NEW e \in 1..n
  PROVE  /\ End(lines, n, i) \in Nat /\ End(lines, n, i) <= n + 1
         /\ e < End(lines, n, i) <=> \A k \in Ends(lines, n, i) : e < k
         /\ e <= End(lines, n, i) <=> \A k \in Ends(lines, n, i) : e <= k
<1>1. Ends(lines, n, i) \in SUBSET Nat /\ \A k \in Ends(lines, n, i) : k <= n
  BY DEF Ends
<1>2. CASE Ends(lines, n, i) = {}
  <2>1. End(lines, n, i) = n + 1
    BY <1>2 DEF End
  <2> QED
    BY <1>2, <2>1
<1>3. CASE Ends(lines, n, i) # {}
  <2>1. PICK m \in Ends(lines, n, i) :
          End(lines, n, i) = m /\ \A k \in Ends(lines, n, i) : m <= k
    BY <1>1, <1>3, LeastExists DEF End
  <2>2. m \in Nat /\ m <= n /\ \A k \in Ends(lines, n, i) : k \in Nat
    BY <1>1
  <2> QED
    BY <2>1, <2>2
<1> QED
  BY <1>2, <1>3

(* An #else stays one of its #if when more lines follow. *)
LEMMA ElsesStable ==
  ASSUME NEW lines, NEW n \in Nat, NEW m \in Nat, m <= n, NEW i \in Nat, NEW e \in 1..m
  PROVE  e \in Elses(lines, m, i) <=> e \in Elses(lines, n, i)
<1>1. e \in 1..n /\ e \in Nat
  OBVIOUS
<1>2. ASSUME NEW j \in Nat
      PROVE  \A k \in Nat : k <= e =>
               (k \in Ends(lines, m, j) <=> k \in Ends(lines, n, j))
  <2> TAKE k \in Nat
  <2>1. HAVE k <= e
  <2>2. k \in j + 1..m <=> k \in j + 1..n
    BY <1>1, <2>1
  <2> QED
    BY <2>2 DEF Ends
<1>3. ASSUME NEW j \in Nat
      PROVE  /\ Ends(lines, m, j) \subseteq Nat /\ Ends(lines, n, j) \subseteq Nat
  BY DEF Ends
<1>4. ASSUME NEW j \in Nat
      PROVE  /\ e < End(lines, m, j) <=> e < End(lines, n, j)
             /\ e <= End(lines, m, j) <=> e <= End(lines, n, j)
  <2>1. /\ e < End(lines, m, j) <=> \A k \in Ends(lines, m, j) : e < k
        /\ e <= End(lines, m, j) <=> \A k \in Ends(lines, m, j) : e <= k
    BY EndIs
  <2>2. /\ e < End(lines, n, j) <=> \A k \in Ends(lines, n, j) : e < k
        /\ e <= End(lines, n, j) <=> \A k \in Ends(lines, n, j) : e <= k
    BY <1>1, EndIs
  <2>3. \A k \in Nat : ~(e < k) <=> k <= e
    BY <1>1
  <2>4. \A k \in Nat : ~(e <= k) => k <= e
    BY <1>1
  <2> QED
    BY <1>2, <1>3, <2>1, <2>2, <2>3, <2>4
<1>5. /\ End(lines, m, i) \in Nat /\ End(lines, n, i) \in Nat
  BY <1>1, EndIs
<1>6. /\ e \in i + 1..End(lines, m, i) - 1 <=> i < e /\ e < End(lines, m, i)
      /\ e \in i + 1..End(lines, n, i) - 1 <=> i < e /\ e < End(lines, n, i)
  BY <1>1, <1>5
<1>7. \A j \in i + 1..e - 1 : j \in Nat
  OBVIOUS
<1>8. e \in i + 1..End(lines, m, i) - 1 <=> e \in i + 1..End(lines, n, i) - 1
  BY <1>4, <1>6
<1>9. e \in Inner(lines, m, i) <=> e \in Inner(lines, n, i)
  <2>1. (\E j \in i + 1..e - 1 : Directive(lines[j]) \in If /\ e <= End(lines, m, j)) <=>
          (\E j \in i + 1..e - 1 : Directive(lines[j]) \in If /\ e <= End(lines, n, j))
    BY <1>4, <1>7
  <2> QED
    BY <1>8, <2>1 DEF Inner
<1> QED
  BY <1>8, <1>9 DEF Elses

(* With plain conditionals an include is forgotten after an #else of the   *)
(* conditional it is in, and only then.                                    *)
LEMMA ForgottenIs ==
  ASSUME LineInv, PlainConditionals, NEW k \in IncludeLines, NEW l \in 1..line
  PROVE  SeenFrom(k, l) <=> ~Forgotten(k, l + 1)
<1>1. line \in Nat /\ l \in Nat /\ l <= line /\ k \in 1..line /\ (l + 1) - 1 = l
  BY DEF LineInv, IncludeLines
<1>2. \A d \in 1..line :
        /\ CheckedAt(d, If) <=> Directive(clean_lines[d]) \in If
        /\ CheckedAt(d, Else) <=> Directive(clean_lines[d]) \in Else
  BY DEF PlainConditionals, IsConditional, CheckedAt
<1>3. Directive(clean_lines[k]) \notin If
  BY DEF IncludeLines, IsInclude, StartsInclude, If
<1>4. \A i \in Ifs(clean_lines, line) : i \in 1..line /\ i \in Nat /\ Directive(clean_lines[i]) \in If
  BY <1>1 DEF Ifs
<1>5. ASSUME NEW i \in Ifs(clean_lines, line), NEW e \in Elses(clean_lines, line, i)
      PROVE  /\ Directive(clean_lines[e]) \in Else
             /\ i < e
             /\ \A j \in i + 1..e - 1 : Directive(clean_lines[j]) \notin If
  <2>1. Directive(clean_lines[e]) \in Else /\ e \in i + 1..End(clean_lines, line, i) - 1
    BY DEF Elses
  <2>2. i < e
    BY <1>1, <1>4, <2>1, EndIs
  <2>3. \A j \in i + 1..e - 1 : Directive(clean_lines[j]) \notin If
    BY DEF PlainConditionals, NestedElse
  <2> QED
    BY <2>1, <2>2, <2>3
<1>6. ASSUME ~SeenFrom(k, l)
      PROVE  Forgotten(k, l + 1)
  <2>1. PICK i \in Ifs(clean_lines, l) : i < k /\ \E e \in Elses(clean_lines, l, i) : k < e
    BY <1>6 DEF SeenFrom
  <2>2. PICK e \in Elses(clean_lines, l, i) : k < e
    BY <2>1
  <2>3. i \in Ifs(clean_lines, line) /\ i \in Nat
    BY <1>1 DEF Ifs
  <2>4. e \in k + 1..l /\ e \in 1..l
    <3>1. e \in i + 1..End(clean_lines, l, i) - 1
      BY DEF Elses
    <3>2. End(clean_lines, l, i) \in Nat /\ End(clean_lines, l, i) <= l + 1
      BY <1>1, <2>3, EndIs, l \in 1..l
    <3> QED
      BY <1>1, <2>1, <2>2, <2>3, <3>1, <3>2
  <2>5. e \in Elses(clean_lines, line, i)
    BY <1>1, <2>3, <2>4, ElsesStable
  <2>6. Directive(clean_lines[e]) \in Else /\ \A j \in i + 1..e - 1 : Directive(clean_lines[j]) \notin If
    BY <1>5, <2>3, <2>5
  <2>7. \A d \in k + 1..e - 1 : d \in i + 1..e - 1 /\ d \in 1..line
    BY <1>1, <2>1, <2>3, <2>4
  <2>8. e \in 1..line
    BY <1>1, <2>4
  <2> QED
    BY <1>1, <1>2, <2>4, <2>6, <2>7, <2>8 DEF Forgotten
<1>7. ASSUME Forgotten(k, l + 1)
      PROVE  ~SeenFrom(k, l)
  <2>1. PICK e \in k + 1..l : CheckedAt(e, Else) /\ \A d \in k + 1..e - 1 : ~CheckedAt(d, If)
    BY <1>1, <1>7 DEF Forgotten
  <2>2. e \in 1..line /\ e \in 1..l /\ k < e /\ \A d \in k + 1..e - 1 : d \in 1..line
    BY <1>1
  <2>3. Directive(clean_lines[e]) \in Else /\ \A d \in k + 1..e - 1 : Directive(clean_lines[d]) \notin If
    BY <1>2, <2>1, <2>2
  <2>4. PICK i \in Ifs(clean_lines, line) : e \in Elses(clean_lines, line, i)
    BY <2>2, <2>3 DEF PlainConditionals, UnmatchedElse
  <2>5. i < e /\ i \in 1..line /\ Directive(clean_lines[i]) \in If
    BY <1>4, <1>5, <2>4
  <2>6. i < k
    <3>1. i \notin k + 1..e - 1 /\ i # k
      BY <1>3, <2>3, <2>5
    <3> QED
      BY <1>1, <2>2, <2>5, <3>1
  <2>7. i \in Ifs(clean_lines, l)
    BY <1>1, <2>2, <2>5 DEF Ifs
  <2>8. e \in Elses(clean_lines, l, i)
    BY <1>1, <1>4, <2>2, <2>4, ElsesStable
  <2> QED
    BY <2>2, <2>6, <2>7, <2>8 DEF SeenFrom
<1> QED
  BY <1>6, <1>7

-----------------------------------------------------------------------------
(* The properties                                                          *)

(* CheckNextIncludeOrder sees one section at a time, and yet an include is *)
(* reported as out of order if and only if it is one of a system header    *)
(* and one that belongs behind it was included since the last directive,   *)
(* in every text.                                                          *)
THEOREM OrderIsExact == Spec => []IncludeOrderExact
<1>1. IInv => IncludeOrderExact
  BY DEF IInv, Reports, OrderAt, IncludeOrderExact
<1> QED
  BY <1>1, IncludeInvariant, PTL

(* IsInAlphabeticalOrder sees one header and the line before, and yet an   *)
(* include is reported if and only if the last header of its own group     *)
(* since the last directive is after it, in every text.                    *)
THEOREM AlphabetIsExact == Spec => []AlphabetExact
<1>1. ASSUME IInv, NEW l \in IncludeLines,
             \A k \in SinceDirective(l) \cup {l} : <<k, "include_order">> \notin errors
      PROVE  <<l, "include_alpha">> \in errors <=>
               /\ OnList(l)
               /\ l > 1 /\ StartsInclude(clean_lines[l - 1])
               /\ \E k \in SinceDirective(l) :
                    /\ \A j \in SinceDirective(l) : j <= k
                    /\ Group(k) = Group(l)
                    /\ HeaderInfo[HeaderAt(k)].canonical > HeaderInfo[HeaderAt(l)].canonical
  <2>1. AlphabetAt(l)
    BY <1>1 DEF IInv, Reports
  <2> QED
    BY <1>1, <2>1 DEF AlphabetAt, LastOf
<1>2. IInv => AlphabetExact
  BY <1>1 DEF AlphabetExact
<1> QED
  BY <1>2, IncludeInvariant, PTL

(* A second include of a header is reported if and only if the first one   *)
(* is still seen from its line, for conditionals that ResetSection can     *)
(* follow, however many of them the text has.                              *)
THEOREM DuplicatesAreExact == Spec => []DuplicatesExact
<1>1. ASSUME IInv, PlainConditionals, NEW l \in IncludeLines, NEW k \in 1..l - 1, OnList(k)
      PROVE  SeenFrom(k, l) <=> ~Forgotten(k, l)
  <2>1. /\ k \in IncludeLines /\ l \in 1..line /\ line \in Nat /\ LineInv
        /\ Directive(clean_lines[l]) \notin Else
    BY <1>1 DEF IInv, LineInv, OnList, IncludeLines, IsInclude, StartsInclude, Else
  <2>2. SeenFrom(k, l) <=> ~Forgotten(k, l + 1)
    BY <1>1, <2>1, ForgottenIs
  <2>3. /\ \A e \in k + 1..(l + 1) - 1 : e \in k + 1..l - 1 \/ e = l
        /\ \A e \in k + 1..l - 1 : e \in k + 1..(l + 1) - 1
    BY <2>1
  <2>4. Forgotten(k, l + 1) <=> Forgotten(k, l)
    BY <2>1, <2>3 DEF Forgotten, CheckedAt
  <2> QED
    BY <2>2, <2>4
<1>2. IInv => DuplicatesExact
  BY <1>1 DEF IInv, Reports, DuplicateAt, DuplicatesExact
<1> QED
  BY <1>2, IncludeInvariant, PTL

(* CheckForIncludeWhatYouUse misses no header that the file includes, and  *)
(* nothing in a source file without a header, whatever was included twice, *)
(* in branches or from its own headers.                                    *)
THEOREM MissingAreTrue == Spec => []MissingHeadersTrue
<1>1. ASSUME IInv, pc = "done", PlainConditionals, NEW h \in Headers, <<0, h>> \in errors
      PROVE  /\ \A k \in IncludeLines : HeaderAt(k) = h => ~SeenFrom(k, line)
             /\ FileInfo.is_header \/ \E k \in IncludeLines : HeaderInfo[HeaderAt(k)].module
  <2>1. LineInv /\ line \in Nat /\ IncludeLines \subseteq 1..line
    BY <1>1 DEF IInv, LineInv, IncludeLines
  <2>2. /\ \E t \in DOMAIN Requires : h = Requires[t]
        /\ \A f \in Included(include_state) : f[1] # h
        /\ FileInfo.is_header \/ \E f \in Included(include_state) : HeaderInfo[f[1]].module
    BY <1>1 DEF IInv, MissingReported
  <2>3. Included(include_state) =
          {Entry(k) : k \in {j \in 1..line : OnList(j) /\ ~Forgotten(j, line + 1)}}
    BY <1>1, IncludedAre DEF IInv
  <2>4. \A k : Entry(k)[1] = HeaderAt(k)
    BY DEF Entry
  <2>5. \A k \in 1..line : OnList(k) /\ ~Forgotten(k, line + 1) => HeaderAt(k) # h
    BY <2>2, <2>3, <2>4
  <2>6. FileInfo.is_header \/ \E k \in IncludeLines : HeaderInfo[HeaderAt(k)].module
    BY <2>2, <2>3, <2>4 DEF OnList
  <2>7. ASSUME NEW k \in IncludeLines, HeaderAt(k) = h, SeenFrom(k, line)
        PROVE  FALSE
    <3>1. k \in 1..line /\ line \in 1..line
      BY <2>1
    <3>2. ~Forgotten(k, line + 1)
      BY <1>1, <2>1, <2>7, <3>1, ForgottenIs
    <3>3. ~HeaderInfo[h].third_party /\ HeaderInfo[h].ext # "cc"
      BY <2>2, RequiresAssumption
    <3>4. <<k, "include_cc">> \notin errors
      BY <1>1, <2>7, <3>3 DEF IInv, ErrorInv
    <3>5. CASE <<k, "include">> \notin errors
      <4>1. OnList(k)
        BY <2>7, <3>3, <3>4, <3>5 DEF OnList
      <4> QED
        BY <2>5, <2>7, <3>1, <3>2, <4>1
    <3>6. CASE <<k, "include">> \in errors
      <4>1. PICK j \in 1..k - 1 : OnList(j) /\ HeaderAt(j) = h /\ ~Forgotten(j, k)
        BY <1>1, <2>7, <3>6 DEF IInv, Reports, DuplicateAt
      <4>2. Directive(clean_lines[k]) \notin Else
        BY DEF IncludeLines, IsInclude, StartsInclude, Else
      <4>3. ~CheckedAt(k, Else)
        BY <4>2 DEF CheckedAt
      <4>4. ASSUME NEW e \in j + 1..(line + 1) - 1, CheckedAt(e, Else),
                   \A d \in j + 1..e - 1 : ~CheckedAt(d, If)
            PROVE  FALSE
        <5>1. e # k
          BY <4>3, <4>4
        <5>2. CASE e < k
          <6>1. e \in j + 1..k - 1
            BY <2>1, <3>1, <5>2
          <6> QED
            BY <4>1, <4>4, <6>1 DEF Forgotten
        <5>3. CASE e > k
          <6>1. e \in k + 1..(line + 1) - 1 /\ \A d \in k + 1..e - 1 : d \in j + 1..e - 1
            BY <2>1, <3>1, <5>3
          <6> QED
            BY <3>2, <4>4, <6>1 DEF Forgotten
        <5> QED
          BY <2>1, <3>1, <5>1, <5>2, <5>3
      <4>5. ~Forgotten(j, line + 1)
        BY <4>4 DEF Forgotten
      <4>6. j \in 1..line
        BY <2>1, <3>1
      <4> QED
        BY <2>5, <4>1, <4>5, <4>6
    <3> QED
      BY <3>5, <3>6
  <2> QED
    BY <2>6, <2>7
<1>2. IInv => MissingHeadersTrue
  BY <1>1 DEF MissingHeadersTrue
<1> QED
  BY <1>2, IncludeInvariant, PTL

-----------------------------------------------------------------------------
(* The length of functions                                                 *)

FunctionStates == [in_a_function : BOOLEAN, lines_in_function : Nat]

(* The state of the current function stands for the line that began it and *)
(* the lines of its own so far, and what was reported of the functions     *)
(* before it is what their lines say.                                      *)
FunctionInv ==
  /\ function_state \in FunctionStates
  /\ function_state.in_a_function <=> \E s \in FunctionStarts : InFunction(s, line + 1)
  /\ \A s \in FunctionStarts : InFunction(s, line + 1) =>
       function_state.lines_in_function = Cardinality(OwnLines(s, line + 1))
  /\ \A e \in errors : e[2] = "fn_size" => e[1] \in 1..line
  /\ \A e \in FunctionEnds :
       <<e, "fn_size">> \in errors <=>
         \E s \in FunctionStarts : InFunction(s, e) /\ Cardinality(OwnLines(s, e)) > Trigger

(* Only CheckForFunctionLengths reports a function. *)
LEMMA FunctionErrors ==
  ASSUME LineInv, ErrorInv, ProcessLine, NEW l \in Nat, l = line + 1
  PROVE  LET f == CheckForFunctionLengths(function_state, clean_lines, l)
         IN  /\ l \notin checked' => function_state' = function_state /\ errors' = errors
             /\ l \in checked' =>
                  /\ function_state' = f.state
                  /\ \A k : <<k, "fn_size">> \in errors' <=>
                       <<k, "fn_size">> \in errors \/ (k = l /\ "fn_size" \in f.errors)
             /\ \A e \in errors' : e[2] = "fn_size" => e \in errors \/ e[1] = l
<1> DEFINE f == CheckForFunctionLengths(function_state, clean_lines, l)
           r == CheckLanguage(include_state, clean_lines, l)
           m == MultilineErrors(clean_lines[l])
           b == CheckEmptyBlockBody(RawLines, clean_lines, l)
<1>1. line' = l /\ l \notin checked
  BY DEF ProcessLine, LineInv
<1>2. "fn_size" \notin m
  BY DEF MultilineErrors
<1>3. \A e \in b : e[2] # "fn_size"
  <2> DEFINE end == CloseExpression(clean_lines, <<l, 2>>)
             all == {<<end[1], c>> : c \in {"empty_body", "empty_if_body"}}
  <2>1. b \subseteq all
    BY ZenonT(30) DEF CheckEmptyBlockBody
  <2> HIDE DEF end, b
  <2> QED
    BY <2>1
<1>4. "fn_size" \notin r.errors
  <2>1. "fn_size" \notin CheckIncludeLine(include_state, clean_lines, l).errors
    BY DEF CheckIncludeLine
  <2> QED
    BY <2>1 DEF CheckLanguage
<1>5. CASE InAsmBlock(nesting_state'.stack)
  <2>1. checked' = checked /\ function_state' = function_state /\ errors' = errors
    BY <1>5 DEF ProcessLine
  <2> QED
    BY <1>1, <2>1
<1>6. CASE ~InAsmBlock(nesting_state'.stack)
  <2>1. /\ checked' = checked \cup {l} /\ function_state' = f.state
        /\ errors' = errors \cup {<<l, c>> : c \in f.errors \cup m \cup r.errors} \cup b
    BY <1>1, <1>6 DEF ProcessLine, Reported
  <2> HIDE DEF f, r, m, b
  <2>2. ASSUME NEW k
        PROVE  <<k, "fn_size">> \in errors' <=>
                 <<k, "fn_size">> \in errors \/ (k = l /\ "fn_size" \in f.errors)
    <3>1. <<k, "fn_size">> \notin b
      BY <1>3
    <3> QED
      BY <1>2, <1>4, <2>1, <3>1
  <2>3. ASSUME NEW e \in errors', e[2] = "fn_size"
        PROVE  e \in errors \/ e[1] = l
    <3>1. e \notin b
      BY <1>3, <2>3
    <3>2. \A c : <<l, c>>[1] = l
      OBVIOUS
    <3> QED
      BY <2>1, <3>1, <3>2
  <2> QED
    BY <2>1, <2>2, <2>3 DEF f
<1> QED
  BY <1>5, <1>6

(* What _FunctionState makes of a line that begins a function, ... *)
LEMMA BeginFunctionIs ==
  ASSUME NEW f \in FunctionStates
  PROVE  /\ BeginFunction(f) \in FunctionStates
         /\ BeginFunction(f).in_a_function
         /\ BeginFunction(f).lines_in_function = 0
<1>1. BeginFunction(f) \in FunctionStates
  BY DEF FunctionStates, BeginFunction
<1>2. BeginFunction(f).in_a_function = TRUE
  BY DEF FunctionStates, BeginFunction
<1>3. BeginFunction(f).lines_in_function = 0
  BY DEF FunctionStates, BeginFunction
<1> QED
  BY <1>1, <1>2, <1>3

(* ... of one that ends it ... *)
LEMMA EndFunctionIs ==
  ASSUME NEW f \in FunctionStates
  PROVE  EndFunction(f) \in FunctionStates /\ ~EndFunction(f).in_a_function
<1>1. EndFunction(f) \in FunctionStates
  BY DEF FunctionStates, EndFunction
<1>2. EndFunction(f).in_a_function = FALSE
  BY DEF FunctionStates, EndFunction
<1> QED
  BY <1>1, <1>2

(* ... and of any other. *)
LEMMA CountLineIs ==
  ASSUME NEW f \in FunctionStates
  PROVE  /\ CountLine(f) \in FunctionStates
         /\ CountLine(f).in_a_function = f.in_a_function
         /\ f.in_a_function => CountLine(f).lines_in_function = f.lines_in_function + 1
<1>1. CASE f.in_a_function
  <2>1. CountLine(f) = [f EXCEPT !.lines_in_function = f.lines_in_function + 1]
    BY <1>1 DEF CountLine
  <2>2. f.lines_in_function + 1 \in Nat
    BY DEF FunctionStates
  <2>3. CountLine(f) \in FunctionStates
    BY <2>1, <2>2 DEF FunctionStates
  <2>4. CountLine(f).in_a_function = f.in_a_function
    BY <2>1, <2>2 DEF FunctionStates
  <2>5. CountLine(f).lines_in_function = f.lines_in_function + 1
    BY <2>1, <2>2 DEF FunctionStates
  <2> QED
    BY <2>3, <2>4, <2>5
<1>2. CASE ~f.in_a_function
  BY <1>2 DEF CountLine
<1> QED
  BY <1>1, <1>2

(* A line that starts a function does not end one. *)
LEMMA StartsIsNoEnd ==
  ASSUME NEW x PROVE ~(StartsFunction(x) /\ EndsFunction(x))
<1> SUFFICES ASSUME StartsFunction(x), EndsFunction(x) PROVE FALSE
  OBVIOUS
<1> DEFINE c == "}"
<1>1. Len(x) > 1
  BY Zenon DEF StartsFunction
<1>2. x = <<c>>
  BY Zenon DEF EndsFunction
<1> HIDE DEF c
<1>3. Len(x) = 1
  BY <1>2
<1> QED
  BY <1>1, <1>3

(* What the state of the function is after a line that is checked. *)
LEMMA LengthStep ==
  ASSUME NEW f \in FunctionStates, NEW lines, NEW l
  PROVE  LET r == CheckForFunctionLengths(f, lines, l)
             starts == StartsFunction(lines[l]) /\ HasBody(lines, l)
             counts == lines[l] # <<>> /\ ~StartsFunction(lines[l])
         IN  /\ r.state \in FunctionStates
             /\ ~(StartsFunction(lines[l]) /\ EndsFunction(lines[l]))
             /\ starts => r.state.in_a_function /\ r.state.lines_in_function = 0
             /\ EndsFunction(lines[l]) => ~r.state.in_a_function
             /\ ~starts /\ ~EndsFunction(lines[l]) =>
                  /\ r.state.in_a_function = f.in_a_function
                  /\ f.in_a_function => r.state.lines_in_function =
                       IF counts THEN f.lines_in_function + 1 ELSE f.lines_in_function
             /\ "fn_size" \in r.errors <=>
                  EndsFunction(lines[l]) /\ f.in_a_function /\ f.lines_in_function > Trigger
<1> DEFINE r == CheckForFunctionLengths(f, lines, l)
           S == StartsFunction(lines[l])
           E == EndsFunction(lines[l])
           B == HasBody(lines, l)
           counts == lines[l] # <<>> /\ ~S
           R == r.state \in FunctionStates
           P == /\ S /\ B => r.state.in_a_function /\ r.state.lines_in_function = 0
                /\ E => ~r.state.in_a_function
                /\ ~(S /\ B) /\ ~E =>
                     /\ r.state.in_a_function = f.in_a_function
                     /\ f.in_a_function => r.state.lines_in_function =
                          IF counts THEN f.lines_in_function + 1 ELSE f.lines_in_function
                /\ "fn_size" \in r.errors <=>
                     E /\ f.in_a_function /\ f.lines_in_function > Trigger
<1>1. ~(S /\ E)
  BY StartsIsNoEnd
<1>2. ASSUME S PROVE R /\ P
  <2>1. r = [state |-> IF B THEN BeginFunction(f) ELSE f,
             errors |-> IF BodyLine(lines, l) > Len(lines) THEN {"fn_body"} ELSE {}]
    BY <1>1, <1>2, ZenonT(30) DEF CheckForFunctionLengths
  <2> HIDE DEF S, E, B, r
  <2>2. r.state = (IF B THEN BeginFunction(f) ELSE f) /\ "fn_size" \notin r.errors
    BY <2>1
  <2> QED
    BY <1>1, <1>2, <2>2, BeginFunctionIs
<1>3. ASSUME E PROVE R /\ P
  <2>1. r = [state |-> EndFunction(f), errors |-> CheckLength(f)]
    BY <1>1, <1>3 DEF CheckForFunctionLengths
  <2> HIDE DEF S, E, B, r
  <2>2. r.state = EndFunction(f) /\ r.errors = CheckLength(f)
    BY <2>1
  <2>3. "fn_size" \in r.errors <=> f.in_a_function /\ f.lines_in_function > Trigger
    BY <2>2 DEF CheckLength
  <2> QED
    BY <1>1, <1>3, <2>2, <2>3, EndFunctionIs
<1>4. ASSUME ~S /\ ~E PROVE R /\ P
  <2>1. r = [state |-> IF lines[l] = <<>> THEN f ELSE CountLine(f), errors |-> {}]
    BY <1>4 DEF CheckForFunctionLengths
  <2> HIDE DEF S, E, B, r
  <2>2. r.state = (IF lines[l] = <<>> THEN f ELSE CountLine(f)) /\ r.errors = {}
    BY <2>1
  <2> QED
    BY <1>4, <2>2, CountLineIs
<1>5. R /\ P
  <2> HIDE DEF S, E, R, P
  <2> QED
    BY <1>2, <1>3, <1>4
<1> HIDE DEF R, P
<1> QED
  BY <1>1, <1>5 DEF R, P

(* A line keeps the length of the current function and the reports exact. *)
LEMMA FunctionKept ==
  ASSUME IInv, FunctionInv, ProcessLine
  PROVE  FunctionInv'
<1> PICK l \in Nat : l = line + 1
  BY DEF IInv, LineInv
<1> DEFINE f == function_state
           r == CheckForFunctionLengths(f, clean_lines, l)
           starts == StartsFunction(clean_lines[l]) /\ HasBody(clean_lines, l)
           ends == EndsFunction(clean_lines[l])
           counts == clean_lines[l] # <<>> /\ ~StartsFunction(clean_lines[l])
<1>1. LineInv /\ ErrorInv /\ line \in Nat /\ checked \subseteq 1..line
  BY DEF IInv, LineInv
<1>2. /\ line' = l /\ clean_lines' = clean_lines
      /\ (checked' = checked /\ l \notin checked') \/ checked' = checked \cup {l}
  BY <1>1, ProcessLineIs
<1>3. /\ l \notin checked' => function_state' = f /\ errors' = errors
      /\ l \in checked' =>
           /\ function_state' = r.state
           /\ \A k : <<k, "fn_size">> \in errors' <=>
                <<k, "fn_size">> \in errors \/ (k = l /\ "fn_size" \in r.errors)
      /\ \A e \in errors' : e[2] = "fn_size" => e \in errors \/ e[1] = l
  BY <1>1, FunctionErrors
<1>4. /\ r.state \in FunctionStates
      /\ ~(starts /\ ends)
      /\ starts => r.state.in_a_function /\ r.state.lines_in_function = 0
      /\ ends => ~r.state.in_a_function
      /\ ~starts /\ ~ends =>
           /\ r.state.in_a_function = f.in_a_function
           /\ f.in_a_function => r.state.lines_in_function =
                IF counts THEN f.lines_in_function + 1 ELSE f.lines_in_function
      /\ "fn_size" \in r.errors <=> ends /\ f.in_a_function /\ f.lines_in_function > Trigger
  BY LengthStep DEF FunctionInv
<1>5. /\ FunctionStarts' = FunctionStarts \cup (IF l \in checked' /\ starts THEN {l} ELSE {})
      /\ FunctionEnds' = FunctionEnds \cup (IF l \in checked' /\ ends THEN {l} ELSE {})
  BY <1>2 DEF FunctionStarts, FunctionEnds
<1>6. /\ FunctionStarts \subseteq 1..line /\ FunctionEnds \subseteq 1..line
      /\ l \notin 1..line /\ \A k \in 1..line : k \in Nat /\ k < l
  <2>1. FunctionStarts \subseteq checked /\ FunctionEnds \subseteq checked
    BY Zenon DEF FunctionStarts, FunctionEnds
  <2>2. l \notin 1..line /\ \A k \in 1..line : k \in Nat /\ k < l
    BY <1>1
  <2> QED
    BY <1>1, <2>1, <2>2, Zenon
<1>7. ASSUME NEW e \in 1..line, NEW s
      PROVE  /\ InFunction(s, e)' <=> InFunction(s, e)
             /\ s \in 1..line => OwnLines(s, e)' = OwnLines(s, e)
  <2>1. l \notin s + 1..e - 1 \/ s \notin 1..line
    BY <1>1, <1>6
  <2>2. s \in 1..line => OwnLines(s, e)' = OwnLines(s, e)
    BY <1>2, <2>1 DEF OwnLines
  <2>3. InFunction(s, e)' <=> InFunction(s, e)
    <3>1. s = l => ~(s < e)
      BY <1>6
    <3>2. s \in 1..line => l \notin s + 1..e - 1
      BY <2>1
    <3>3. s \in 1..line => ((FunctionStarts' \cup FunctionEnds') \cap s + 1..e - 1 = {} <=>
                             (FunctionStarts \cup FunctionEnds) \cap s + 1..e - 1 = {})
      BY <1>5, <3>2
    <3> QED
      BY <1>5, <1>6, <3>1, <3>3 DEF InFunction
  <2> QED
    BY <2>2, <2>3
(* What the next line makes of the function it is in. *)
<1>8. ASSUME NEW s \in 1..line
      PROVE  /\ InFunction(s, l + 1)' <=> InFunction(s, l) /\ ~(l \in checked' /\ (starts \/ ends))
             /\ OwnLines(s, l + 1)' = OwnLines(s, l) \cup (IF l \in checked' /\ counts THEN {l} ELSE {})
             /\ l \notin OwnLines(s, l)
  <2>1. s + 1..(l + 1) - 1 = (s + 1..l - 1) \cup {l} /\ l \notin s + 1..l - 1
    BY <1>6
  <2>2. s < l + 1 /\ s < l
    BY <1>6
  <2>3. (FunctionStarts' \cup FunctionEnds') \cap s + 1..(l + 1) - 1 = {} <=>
          /\ (FunctionStarts \cup FunctionEnds) \cap s + 1..l - 1 = {}
          /\ ~(l \in checked' /\ (starts \/ ends))
    <3>1. l \in FunctionStarts' \cup FunctionEnds' <=> l \in checked' /\ (starts \/ ends)
      BY <1>5, <1>6
    <3>2. \A k \in s + 1..l - 1 : k \in FunctionStarts' \cup FunctionEnds' <=>
                                    k \in FunctionStarts \cup FunctionEnds
      BY <1>5, <2>1
    <3> HIDE DEF starts, ends
    <3> QED
      BY <2>1, <3>1, <3>2
  <2>4. s \in FunctionStarts' <=> s \in FunctionStarts
    BY <1>5, <1>6
  <2>5. InFunction(s, l + 1)' <=> InFunction(s, l) /\ ~(l \in checked' /\ (starts \/ ends))
    BY <2>2, <2>3, <2>4 DEF InFunction
  <2>6. OwnLines(s, l + 1)' =
          {k \in checked' \cap s + 1..(l + 1) - 1 :
             clean_lines[k] # <<>> /\ ~StartsFunction(clean_lines[k])}
    BY <1>2 DEF OwnLines
  <2>7. OwnLines(s, l + 1)' = OwnLines(s, l) \cup (IF l \in checked' /\ counts THEN {l} ELSE {})
    BY <1>2, <2>1, <2>6 DEF OwnLines
  <2>8. l \notin OwnLines(s, l)
    BY <2>1 DEF OwnLines
  <2> QED
    BY <2>5, <2>7, <2>8
<1>9. /\ InFunction(l, l + 1)' <=> l \in checked' /\ starts
      /\ OwnLines(l, l + 1)' = {}
  <2>1. l + 1..(l + 1) - 1 = {} /\ l < l + 1
    OBVIOUS
  <2> QED
    BY <1>5, <1>6, <2>1 DEF InFunction, OwnLines
<1>10. \A s : IsFiniteSet(OwnLines(s, l)) /\ Cardinality(OwnLines(s, l)) \in Nat
  <2> TAKE s
  <2>1. IsFiniteSet(1..line) /\ OwnLines(s, l) \subseteq 1..line
    BY <1>1, FS_Interval DEF OwnLines
  <2> QED
    BY <2>1, FS_Subset, FS_CardinalityType
<1>11. function_state' \in FunctionStates
  BY <1>2, <1>3, <1>4 DEF FunctionInv
<1>12. function_state'.in_a_function <=> \E s \in FunctionStarts' : InFunction(s, l + 1)'
  <2>1. f.in_a_function <=> \E s \in FunctionStarts : InFunction(s, l)
    BY DEF FunctionInv
  <2>2. \A s : InFunction(s, l + 1)' => s \in FunctionStarts'
    BY DEF InFunction
  <2>3. CASE l \in checked' /\ starts
    <3>1. l \in FunctionStarts'
      BY <1>5, <2>3
    <3> QED
      BY <1>3, <1>4, <1>9, <2>3, <3>1
  <2>4. CASE l \in checked' /\ ends
    <3>1. ~function_state'.in_a_function
      BY <1>3, <1>4, <2>4
    <3>2. FunctionStarts' \subseteq 1..line
      BY <1>4, <1>5, <1>6, <2>4
    <3> QED
      BY <1>8, <2>4, <3>1, <3>2
  <2>5. CASE ~(l \in checked' /\ (starts \/ ends))
    <3>1. function_state'.in_a_function = f.in_a_function
      BY <1>3, <1>4, <2>5
    <3>2. FunctionStarts' = FunctionStarts
      BY <1>5, <2>5
    <3> QED
      BY <1>6, <1>8, <2>1, <2>5, <3>1, <3>2
  <2> QED
    BY <2>3, <2>4, <2>5
<1>13. ASSUME NEW s \in FunctionStarts', InFunction(s, l + 1)'
       PROVE  function_state'.lines_in_function = Cardinality(OwnLines(s, l + 1)')
  <2>1. CASE s = l
    BY <1>3, <1>4, <1>9, <1>13, <2>1, FS_EmptySet
  <2>2. CASE s # l
    <3>1. s \in FunctionStarts /\ s \in 1..line
      BY <1>5, <1>6, <2>2
    <3>2. InFunction(s, l) /\ ~(l \in checked' /\ (starts \/ ends))
      BY <1>8, <1>13, <3>1
    <3>3. f.lines_in_function = Cardinality(OwnLines(s, l)) /\ f.in_a_function
      BY <3>1, <3>2 DEF FunctionInv
    <3>4. Cardinality(OwnLines(s, l) \cup {l}) = Cardinality(OwnLines(s, l)) + 1
      BY <1>8, <1>10, <3>1, FS_AddElement
    <3>5. CASE l \in checked' /\ counts
      <4>1. function_state'.lines_in_function = f.lines_in_function + 1
        BY <1>3, <1>4, <3>2, <3>3, <3>5
      <4>2. OwnLines(s, l + 1)' = OwnLines(s, l) \cup {l}
        BY <1>8, <3>1, <3>5
      <4> QED
        BY <3>3, <3>4, <4>1, <4>2
    <3>6. CASE ~(l \in checked' /\ counts)
      <4>1. function_state'.lines_in_function = f.lines_in_function
        BY <1>3, <1>4, <3>2, <3>3, <3>6
      <4>2. OwnLines(s, l + 1)' = OwnLines(s, l)
        BY <1>8, <3>1, <3>6
      <4> QED
        BY <3>3, <4>1, <4>2
    <3> QED
      BY <3>5, <3>6
  <2> QED
    BY <2>1, <2>2
<1>14. \A e \in errors' : e[2] = "fn_size" => e[1] \in 1..l
  BY <1>1, <1>3 DEF FunctionInv
<1>15. ASSUME NEW e \in FunctionEnds'
       PROVE  <<e, "fn_size">> \in errors' <=>
                \E s \in FunctionStarts' : InFunction(s, e)' /\ Cardinality(OwnLines(s, e)') > Trigger
  <2>1. \A s, k : InFunction(s, k) => s \in FunctionStarts /\ s \in 1..line
    BY <1>6 DEF InFunction
  <2>2. CASE e \in FunctionEnds
    <3>1. e \in 1..line /\ e # l
      BY <1>6, <2>2
    <3>2. <<e, "fn_size">> \in errors' <=> <<e, "fn_size">> \in errors
      BY <1>3, <3>1
    <3>3. \A s : InFunction(s, e)' <=> InFunction(s, e)
      BY <1>7, <3>1
    <3>4. \A s \in 1..line : OwnLines(s, e)' = OwnLines(s, e)
      BY <1>7, <3>1
    <3>5. (\E s \in FunctionStarts' : InFunction(s, e)' /\ Cardinality(OwnLines(s, e)') > Trigger) <=>
          (\E s \in FunctionStarts : InFunction(s, e) /\ Cardinality(OwnLines(s, e)) > Trigger)
      BY <1>5, <2>1, <3>3, <3>4
    <3> QED
      BY <2>2, <3>2, <3>5 DEF FunctionInv
  <2>3. CASE e = l /\ l \in checked' /\ ends
    <3>1. <<l, "fn_size">> \notin errors
      <4>1. <<l, "fn_size">>[1] = l /\ <<l, "fn_size">>[2] = "fn_size"
        OBVIOUS
      <4> QED
        BY <1>6, <4>1 DEF FunctionInv
    <3>2. <<l, "fn_size">> \in errors' <=> f.in_a_function /\ f.lines_in_function > Trigger
      BY <1>3, <1>4, <2>3, <3>1
    <3>3. \A s \in 1..line : (InFunction(s, l)' <=> InFunction(s, l)) /\ OwnLines(s, l)' = OwnLines(s, l)
      <4> TAKE s \in 1..line
      <4>1. l \notin s + 1..l - 1
        BY <1>1
      <4>2. (FunctionStarts' \cup FunctionEnds') \cap s + 1..l - 1 =
              (FunctionStarts \cup FunctionEnds) \cap s + 1..l - 1
        BY <1>5, <4>1
      <4>3. s \in FunctionStarts' <=> s \in FunctionStarts
        BY <1>5, <1>6
      <4>4. OwnLines(s, l)' = OwnLines(s, l)
        BY <1>2, <4>1 DEF OwnLines
      <4> QED
        BY <4>2, <4>3, <4>4 DEF InFunction
    <3>4. FunctionStarts' = FunctionStarts
      BY <1>4, <1>5, <2>3
    <3>5. f.in_a_function /\ f.lines_in_function > Trigger <=>
            \E s \in FunctionStarts : InFunction(s, l) /\ Cardinality(OwnLines(s, l)) > Trigger
      BY DEF FunctionInv
    <3> QED
      BY <1>6, <2>3, <3>2, <3>3, <3>4, <3>5
  <2> QED
    BY <1>5, <2>2, <2>3
<1> QED
  BY <1>2, <1>11, <1>12, <1>13, <1>14, <1>15 DEF FunctionInv, InFunction, OwnLines

(* Nothing of this depends on anything but the lines, how far they are     *)
(* processed, the state of the function and what is reported of lengths.   *)
LEMMA SameFunctions ==
  ASSUME FunctionInv,
         UNCHANGED <<clean_lines, line, checked, function_state>>,
         \A e \in errors' : e[2] = "fn_size" => e \in errors,
         errors \subseteq errors'
  PROVE  FunctionInv'
<1> PICK l : l = line + 1
  OBVIOUS
<1>1. FunctionStarts' = FunctionStarts /\ FunctionEnds' = FunctionEnds
  BY DEF FunctionStarts, FunctionEnds
<1>2. \A s, e : (InFunction(s, e)' <=> InFunction(s, e)) /\ OwnLines(s, e)' = OwnLines(s, e)
  BY <1>1 DEF InFunction, OwnLines
<1>3. \A k : <<k, "fn_size">> \in errors' <=> <<k, "fn_size">> \in errors
  <2> TAKE k
  <2>1. <<k, "fn_size">>[2] = "fn_size"
    OBVIOUS
  <2> QED
    BY <2>1
<1>4. /\ function_state' \in FunctionStates
      /\ \A e \in errors' : e[2] = "fn_size" => e[1] \in 1..line'
  BY DEF FunctionInv
<1>5. /\ function_state'.in_a_function <=> \E s \in FunctionStarts' : InFunction(s, l)'
      /\ \A s \in FunctionStarts' : InFunction(s, l)' =>
           function_state'.lines_in_function = Cardinality(OwnLines(s, l)')
  BY <1>1, <1>2 DEF FunctionInv
<1>6. ASSUME NEW e \in FunctionEnds'
      PROVE  <<e, "fn_size">> \in errors' <=>
               \E s \in FunctionStarts' : InFunction(s, e)' /\ Cardinality(OwnLines(s, e)') > Trigger
  BY <1>1, <1>2, <1>3 DEF FunctionInv
<1> QED
  BY <1>4, <1>5, <1>6 DEF FunctionInv

(* Every step does. *)
LEMMA FunctionNext == IInv /\ FunctionInv /\ [Next]_vars => FunctionInv'
<1> SUFFICES ASSUME IInv, FunctionInv, [Next]_vars PROVE FunctionInv'
  OBVIOUS
<1>1. CASE Write
  BY <1>1, SameFunctions DEF Write
<1>2. CASE Begin
  <2> USE DEF FunctionInv, FunctionStarts, FunctionEnds, InFunction, OwnLines
  <2>1. /\ line = 0 /\ line' = 0 /\ checked = {} /\ checked' = {} /\ function_state' = function_state
        /\ errors' = {<<l + 1, "multiline_comment">> : l \in MultiLineComments(text).error}
    BY <1>2 DEF Begin, IInv, LineInv
  <2>2. \A e \in errors' : e[2] # "fn_size"
    BY <2>1
  <2> QED
    BY <2>1, <2>2
<1>3. CASE ProcessLine
  BY <1>3, FunctionKept
<1>4. CASE EndOfFile
  <2>1. UNCHANGED <<clean_lines, line, checked, function_state>>
    BY <1>4 DEF EndOfFile
  <2>2. \A e \in errors' : e[2] = "fn_size" => e \in errors
    BY <1>4, EndOfFileIs
  <2>3. errors \subseteq errors'
    BY <1>4 DEF EndOfFile
  <2> QED
    BY <2>1, <2>2, <2>3, SameFunctions
<1>5. CASE UNCHANGED vars
  BY <1>5, SameFunctions DEF vars
<1> QED
  BY <1>1, <1>2, <1>3, <1>4, <1>5 DEF Next

(* A function is reported if and only if it has more than Trigger lines of *)
(* its own, whatever functions, declarations and assembly came before it,  *)
(* in every text.                                                          *)
THEOREM FunctionLengthIsExact == Spec => []FunctionLengthExact
<1>1. Init => FunctionInv
  <2> SUFFICES ASSUME Init PROVE FunctionInv
    OBVIOUS
  <2>1. checked = {} /\ errors = {} /\ function_state = NewFunction
    BY DEF Init
  <2>2. FunctionStarts = {} /\ FunctionEnds = {}
    BY <2>1 DEF FunctionStarts, FunctionEnds
  <2>3. NewFunction \in FunctionStates /\ ~NewFunction.in_a_function
    BY DEF NewFunction, FunctionStates
  <2> QED
    BY <2>1, <2>2, <2>3 DEF FunctionInv
<1>2. FunctionInv => FunctionLengthExact
  BY DEF FunctionInv, FunctionLengthExact
<1> QED
  BY <1>1, <1>2, FunctionNext, IncludeInvariant, PTL DEF Spec

=============================================================================
