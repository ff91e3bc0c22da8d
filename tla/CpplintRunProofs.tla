--------------------------- MODULE CpplintRunProofs ---------------------------
(***************************************************************************)
(* Proofs about CpplintRun: for every tree of directories, every choice of *)
(* CPPLINT.cfg files and every command line the filters are scoped, NOLINT *)
(* comments suppress what they should, and the summary adds up.            *)
(***************************************************************************)
EXTENDS CpplintRun, FiniteSetTheorems, SequenceTheorems, WellFoundedInduction, TLAPS

-----------------------------------------------------------------------------
(* Induction over the natural numbers, for sets.                           *)

LEMMA Induction ==
  ASSUME NEW S, 0 \in S, \A n \in Nat : n \in S => n + 1 \in S
  PROVE  Nat \subseteq S
<1> SUFFICES ASSUME Nat \ S # {}
             PROVE  FALSE
  OBVIOUS
<1>1. PICK x \in Nat \ S : \A y \in Nat \ S : ~(<<y, x>> \in OpToRel(<, Nat))
  <2>1. Nat \ S \subseteq Nat
    OBVIOUS
  <2> QED
    BY <2>1, NatLessThanWellFounded, WFMin
<1>2. \A y \in Nat \ S : ~(y < x)
  BY <1>1 DEF OpToRel
<1>3. x - 1 \in Nat /\ x - 1 < x /\ (x - 1) + 1 = x
  OBVIOUS
<1> QED
  BY <1>2, <1>3

-----------------------------------------------------------------------------
(* The recursive definitions Vals and Nearest are functions that satisfy   *)
(* their equations.                                                        *)

ValsAt(f, opts, name, i) ==
  IF i > Len(opts) THEN <<>>
  ELSE IF opts[i].name = name THEN <<opts[i].val>> \o f[i + 1]
  ELSE f[i + 1]

(* The recursion of Vals goes up to the end of the options, ...          *)
LEMMA ValsExists ==
  ASSUME NEW opts, Len(opts) \in Nat, NEW name
  PROVE  \E f : f = [i \in 1..Len(opts)+1 |-> ValsAt(f, opts, name, i)]
<1> DEFINE N == Len(opts) + 1
           G == {n \in Nat : n < N => \E f : f = [i \in N-n..N |-> ValsAt(f, opts, name, i)]}
<1>1. 0 \in G
  <2> DEFINE f == [i \in N..N |-> <<>>]
  <2>1. \A i \in N..N : ValsAt(f, opts, name, i) = <<>>
    BY DEF ValsAt
  <2>2. f = [i \in N-0..N |-> ValsAt(f, opts, name, i)]
    BY <2>1
  <2> QED
    BY <2>2
<1>2. ASSUME NEW n \in Nat, n \in G
      PROVE  n + 1 \in G
  <2> SUFFICES ASSUME n + 1 < N
               PROVE  \E g : g = [i \in N-(n+1)..N |-> ValsAt(g, opts, name, i)]
    OBVIOUS
  <2>1. PICK f : f = [i \in N-n..N |-> ValsAt(f, opts, name, i)]
    BY <1>2
  <2> DEFINE g == [i \in N-(n+1)..N |-> ValsAt(f, opts, name, i)]
  <2>2. ASSUME NEW i \in N-(n+1)..N
        PROVE  g[i] = ValsAt(g, opts, name, i)
    <3>1. CASE i > Len(opts)
      BY <3>1 DEF ValsAt
    <3>2. CASE ~(i > Len(opts))
      <4>1. i + 1 \in N-n..N /\ i + 1 \in N-(n+1)..N
        BY <3>2
      <4>2. g[i + 1] = f[i + 1]
        BY <2>1, <4>1
      <4> QED
        BY <3>2, <4>2 DEF ValsAt
    <3> QED
      BY <3>1, <3>2
  <2>3. g = [i \in N-(n+1)..N |-> ValsAt(g, opts, name, i)]
    <3> HIDE DEF g
    <3>1. g = [i \in N-(n+1)..N |-> g[i]]
      BY DEF g
    <3> QED
      BY <2>2, <3>1
  <2> QED
    BY <2>3
<1>3. Nat \subseteq G
  <2> HIDE DEF G
  <2> QED
    BY <1>1, <1>2, Induction
<1>4. Len(opts) \in G /\ Len(opts) < N /\ N - Len(opts) = 1
  BY <1>3
<1> QED
  BY <1>4

(* ... so the function it defines satisfies its equation.                *)
LEMMA ValsUnfolds ==
  ASSUME NEW opts, Len(opts) \in Nat, NEW name
  PROVE  /\ DOMAIN Vals(opts, name) = 1..Len(opts)+1
         /\ \A i \in 1..Len(opts)+1 :
              Vals(opts, name)[i] = ValsAt(Vals(opts, name), opts, name, i)
<1> DEFINE P(f) == f = [i \in 1..Len(opts)+1 |-> ValsAt(f, opts, name, i)]
<1>1. \E f : P(f)
  BY ValsExists
<1>2. Vals(opts, name) = CHOOSE f : P(f)
  BY DEF Vals, ValsAt
<1>3. P(Vals(opts, name))
  <2> HIDE DEF P
  <2> QED
    BY <1>1, <1>2, Zenon
<1> HIDE DEF P
<1>4. Vals(opts, name) = [i \in 1..Len(opts)+1 |-> ValsAt(Vals(opts, name), opts, name, i)]
  BY <1>3 DEF P
<1> QED
  BY <1>4

(* The values of V, in a sequence.                                         *)
LEMMA ValsType ==
  ASSUME NEW opts, Len(opts) \in Nat, NEW name, NEW V,
         \A i \in 1..Len(opts) : opts[i].val \in V
  PROVE  \A i \in 1..Len(opts)+1 : Vals(opts, name)[i] \in Seq(V)
<1> DEFINE N == Len(opts) + 1
           v == Vals(opts, name)
           G == {n \in Nat : n < N => v[N - n] \in Seq(V)}
<1>1. \A i \in 1..N : v[i] = ValsAt(v, opts, name, i)
  BY ValsUnfolds
<1> HIDE DEF v
<1>2. 0 \in G
  <2>1. N - 0 = N /\ N \in 1..N /\ N > Len(opts)
    OBVIOUS
  <2>2. v[N] = <<>>
    BY <1>1, <2>1 DEF ValsAt
  <2>3. v[N - 0] \in Seq(V)
    BY <2>1, <2>2, EmptySeq
  <2> QED
    BY <2>3
<1>3. ASSUME NEW n \in Nat, n \in G
      PROVE  n + 1 \in G
  <2> SUFFICES ASSUME n + 1 < N
               PROVE  v[N - (n + 1)] \in Seq(V)
    OBVIOUS
  <2> DEFINE i == N - (n + 1)
  <2>1. i \in 1..Len(opts) /\ i \in 1..N /\ ~(i > Len(opts)) /\ i + 1 = N - n
    OBVIOUS
  <2>2. v[i + 1] \in Seq(V) /\ opts[i].val \in V
    BY <1>3, <2>1
  <2>3. <<opts[i].val>> \o v[i + 1] \in Seq(V)
    BY <2>2
  <2> QED
    BY <1>1, <2>1, <2>2, <2>3 DEF ValsAt
<1>4. Nat \subseteq G
  <2> HIDE DEF G
  <2> QED
    BY <1>2, <1>3, Induction
<1> SUFFICES ASSUME NEW i \in 1..N
             PROVE  v[i] \in Seq(V)
  BY DEF v
<1>5. N - i \in G /\ N - i < N /\ N - (N - i) = i
  BY <1>4
<1> QED
  BY <1>5

Above == Dirs \cup {NONE}

NearestAt(f, cfg, name, d) ==
  IF d = NONE THEN <<>>
  ELSE IF cfg[d] = NONE THEN f[Parent[d]]
  ELSE Vals(cfg[d], name)[1] \o (IF Noparent(cfg[d]) THEN <<>> ELSE f[Parent[d]])

(* The recursion of Nearest goes up a tree of directories.               *)
LEMMA NearestExists ==
  ASSUME NEW cfg, NEW name
  PROVE  \E f : f = [d \in Above |-> NearestAt(f, cfg, name, d)]
<1>1. PICK depth \in [Above -> 0..Cardinality(Dirs)] :
         \A d \in Dirs : depth[Parent[d]] < depth[d]
  BY TreeAssumption DEF Above
<1>2. Cardinality(Dirs) \in Nat /\ \A d \in Dirs : Parent[d] \in Above
  BY TreeAssumption, RunAssumption, FS_CardinalityType DEF Above
<1> DEFINE Below(n) == {d \in Above : depth[d] < n}
           G == {n \in Nat : \E f : f = [d \in Below(n) |-> NearestAt(f, cfg, name, d)]}
<1>3. 0 \in G
  <2>1. Below(0) = {}
    BY <1>1, <1>2
  <2> DEFINE f == [d \in {} |-> <<>>]
  <2>2. f = [d \in Below(0) |-> NearestAt(f, cfg, name, d)]
    BY <2>1
  <2> QED
    BY <2>2
<1>4. ASSUME NEW n \in Nat, n \in G
      PROVE  n + 1 \in G
  <2>1. PICK f : f = [d \in Below(n) |-> NearestAt(f, cfg, name, d)]
    BY <1>4
  <2> DEFINE g == [d \in Below(n + 1) |-> NearestAt(f, cfg, name, d)]
  <2>2. ASSUME NEW d \in Below(n + 1)
        PROVE  g[d] = NearestAt(g, cfg, name, d)
    <3>1. CASE d = NONE
      BY <3>1 DEF NearestAt
    <3>2. CASE d # NONE
      <4>1. d \in Dirs /\ depth[Parent[d]] < depth[d] /\ Parent[d] \in Above
        BY <1>1, <1>2, <3>2 DEF Above
      <4>2. depth[d] < n + 1 /\ depth[d] \in Nat /\ depth[Parent[d]] \in Nat
        BY <1>1, <1>2, <4>1 DEF Above
      <4>3. Parent[d] \in Below(n) /\ Parent[d] \in Below(n + 1)
        BY <4>1, <4>2
      <4>4. g[Parent[d]] = f[Parent[d]]
        BY <2>1, <4>3
      <4> QED
        BY <4>4 DEF NearestAt
    <3> QED
      BY <3>1, <3>2
  <2>3. g = [d \in Below(n + 1) |-> NearestAt(g, cfg, name, d)]
    <3>1. g = [d \in Below(n + 1) |-> g[d]]
      OBVIOUS
    <3> HIDE DEF g, Below
    <3> QED
      BY <2>2, <3>1
  <2> HIDE DEF g, Below
  <2> QED
    BY <2>3
<1>5. Nat \subseteq G
  <2> HIDE DEF G
  <2> QED
    BY <1>3, <1>4, Induction
<1>6. Cardinality(Dirs) + 1 \in G
  <2> HIDE DEF G
  <2> QED
    BY <1>2, <1>5
<1>7. Below(Cardinality(Dirs) + 1) = Above
  BY <1>1, <1>2
<1> QED
  BY <1>6, <1>7

LEMMA NearestUnfolds ==
  ASSUME NEW cfg, NEW name
  PROVE  \A d \in Above : Nearest(cfg, name)[d] = NearestAt(Nearest(cfg, name), cfg, name, d)
<1> DEFINE P(f) == f = [d \in Above |-> NearestAt(f, cfg, name, d)]
<1>1. \E f : P(f)
  BY NearestExists
<1>2. Nearest(cfg, name) = CHOOSE f : P(f)
  BY DEF Nearest, NearestAt, Above
<1>3. P(Nearest(cfg, name))
  <2> HIDE DEF P
  <2> QED
    BY <1>1, <1>2, Zenon
<1> HIDE DEF P
<1>4. Nearest(cfg, name) = [d \in Above |-> NearestAt(Nearest(cfg, name), cfg, name, d)]
  BY <1>3 DEF P
<1> QED
  BY <1>4

(* What the options of the CPPLINT.cfg files hold.                         *)
OptionVals == UNION {{c[i].val : i \in 1..Len(c)} : c \in Configs}

LEMMA ConfigOptions ==
  ASSUME NEW c \in Configs
  PROVE  /\ Len(c) \in Nat
         /\ c \in Seq({c[i] : i \in DOMAIN c})
         /\ \A i \in 1..Len(c) : c[i].val \in OptionVals
BY RunAssumption, LenProperties DEF OptionVals

LEMMA NearestType ==
  ASSUME NEW cfg \in [Dirs -> Configs \cup {NONE}], NEW name
  PROVE  \A d \in Above : Nearest(cfg, name)[d] \in Seq(OptionVals)
<1>1. PICK depth \in [Above -> 0..Cardinality(Dirs)] :
         \A d \in Dirs : depth[Parent[d]] < depth[d]
  BY TreeAssumption DEF Above
<1>2. Cardinality(Dirs) \in Nat /\ \A d \in Dirs : Parent[d] \in Above
  BY TreeAssumption, RunAssumption, FS_CardinalityType DEF Above
<1> DEFINE v == Nearest(cfg, name)
           G == {n \in Nat : \A d \in Above : depth[d] < n => v[d] \in Seq(OptionVals)}
<1>3. \A d \in Above : v[d] = NearestAt(v, cfg, name, d)
  BY NearestUnfolds
<1> HIDE DEF v
<1>4. 0 \in G
  BY <1>1, <1>2
<1>5. ASSUME NEW n \in Nat, n \in G
      PROVE  n + 1 \in G
  <2> SUFFICES ASSUME NEW d \in Above, depth[d] < n + 1
               PROVE  v[d] \in Seq(OptionVals)
    OBVIOUS
  <2>1. CASE d = NONE
    BY <1>3, <2>1, EmptySeq DEF NearestAt
  <2>2. CASE d # NONE
    <3>1. d \in Dirs /\ Parent[d] \in Above /\ depth[Parent[d]] < depth[d]
      BY <1>1, <1>2, <2>2 DEF Above
    <3>2. v[Parent[d]] \in Seq(OptionVals)
      <4>1. depth[Parent[d]] \in Nat /\ depth[d] \in Nat
        BY <1>1, <1>2, <3>1
      <4> QED
        BY <1>5, <3>1, <4>1
    <3>3. CASE cfg[d] = NONE
      BY <1>3, <2>2, <3>2, <3>3 DEF NearestAt
    <3>4. CASE cfg[d] # NONE
      <4>1. cfg[d] \in Configs /\ Len(cfg[d]) \in Nat
        BY <3>1, <3>4, ConfigOptions
      <4>2. Vals(cfg[d], name)[1] \in Seq(OptionVals)
        <5>1. \A i \in 1..Len(cfg[d]) : cfg[d][i].val \in OptionVals
          BY <4>1, ConfigOptions
        <5>2. 1 \in 1..Len(cfg[d])+1
          BY <4>1
        <5> QED
          BY <4>1, <5>1, <5>2, ValsType
      <4> DEFINE rest == IF Noparent(cfg[d]) THEN <<>> ELSE v[Parent[d]]
      <4>3. rest \in Seq(OptionVals)
        BY <3>2, EmptySeq
      <4>4. v[d] = Vals(cfg[d], name)[1] \o rest
        BY <1>3, <2>2, <3>4 DEF NearestAt
      <4> HIDE DEF rest
      <4> QED
        BY <4>2, <4>3, <4>4, ConcatProperties
    <3> QED
      BY <3>3, <3>4
  <2> QED
    BY <2>1, <2>2
<1>6. Nat \subseteq G
  <2> HIDE DEF G
  <2> QED
    BY <1>4, <1>5, Induction
<1> SUFFICES ASSUME NEW d \in Above
             PROVE  v[d] \in Seq(OptionVals)
  BY DEF v
<1>7. Cardinality(Dirs) + 1 \in G /\ depth[d] < Cardinality(Dirs) + 1
  BY <1>1, <1>2, <1>6
<1> QED
  BY <1>7

-----------------------------------------------------------------------------
(* The search for CPPLINT.cfg files: the filters it has found and those    *)
(* that the rest of it will find are together all that speak of the file.  *)

Cli == DefaultFilters \o args.filters

Found == Nearest(config, "filter")[Place[filename]]

(* What is found above a directory whose CPPLINT.cfg is open. *)
Beyond ==
  IF Noparent(config[look]) THEN <<>> ELSE Nearest(config, "filter")[Parent[look]]

SearchType ==
  /\ config \in [Dirs -> Configs \cup {NONE}]
  /\ filenames \in Seq(FileNames)
  /\ pc \notin {"next", "exit"} => filenames # <<>>
  /\ look \in Above
  /\ pc = "config" => look \in Dirs /\ config[look] \in Configs
  /\ cfg_filters \in Seq(OptionVals)

FiltersKept ==
  /\ pc \in {"next", "exit", "look", "config"} => filters = Cli
  /\ pc \notin {"next", "exit"} => filters_backup = Cli

LookInv ==
  pc = "look" =>
    /\ keep_looking => Found = cfg_filters \o Nearest(config, "filter")[look]
    /\ ~keep_looking => \E n \in 0..Len(Found) : cfg_filters = SubSeq(Found, 1, n)

ReadUpTo(i) ==
  /\ options = SubSeq(config[look], i, Len(config[look]))
  /\ keep_looking <=> \A j \in 1..i-1 : config[look][j].name # "set noparent"
  /\ Found = (cfg_filters \o Vals(config[look], "filter")[i]) \o Beyond

ConfigInv == pc = "config" => \E i \in 1..Len(config[look])+1 : ReadUpTo(i)

CheckInv ==
  Checking => \E n \in 0..Len(Found) :
    filters = Cli \o FlattenSeq(Reverse(SubSeq(Found, 1, n)))

SearchInv == SearchType /\ FiltersKept /\ LookInv /\ ConfigInv /\ CheckInv

(* The file that is processed, and what is found for it.                   *)
LEMMA FoundType ==
  ASSUME SearchType, pc \notin {"next", "exit"}
  PROVE  /\ filename \in FileNames /\ Place[filename] \in Dirs
         /\ Found \in Seq(OptionVals) /\ Len(Found) \in Nat
         /\ \A d \in Above : Nearest(config, "filter")[d] \in Seq(OptionVals)
<1>1. filename \in FileNames
  BY DEF SearchType, filename
<1>2. Place[filename] \in Dirs
  BY <1>1, RunAssumption
<1>3. \A d \in Above : Nearest(config, "filter")[d] \in Seq(OptionVals)
  BY NearestType DEF SearchType
<1>4. Found \in Seq(OptionVals)
  BY <1>2, <1>3 DEF Found, Above
<1> QED
  BY <1>1, <1>2, <1>3, <1>4, LenProperties

(* The first sequence of two is a prefix of both together.                 *)
LEMMA PrefixOfConcat ==
  ASSUME NEW S, NEW s \in Seq(S), NEW r \in Seq(S)
  PROVE  \E n \in 0..Len(s \o r) : s = SubSeq(s \o r, 1, n)
<1>1. /\ Len(s \o r) = Len(s) + Len(r)
      /\ Len(s) \in Nat /\ Len(r) \in Nat
  BY ConcatProperties, LenProperties
<1>2. Len(s) \in 0..Len(s \o r)
  BY <1>1
<1>3. SubSeq(s \o r, 1, Len(s)) = s
  <2>1. CASE s = <<>>
    <3>1. Len(s) = 0
      BY <2>1
    <3>2. s \o r \in Seq(S)
      BY ConcatProperties
    <3>3. SubSeq(s \o r, 1, 0) = <<>>
      BY <3>2, SubSeqEmpty
    <3> QED
      BY <2>1, <3>1, <3>3
  <2>2. CASE s # <<>>
    <3>1. SubSeq(s \o r, 1, Len(s)) = SubSeq(s, 1, Len(s))
      BY <1>1, SubSeqOfConcat1
    <3> QED
      BY <3>1, SubSeqFull
  <2> QED
    BY <2>1, <2>2
<1> QED
  BY <1>2, <1>3

LEMMA FoundAssociative ==
  \A s, t, u \in Seq(OptionVals) : (s \o t) \o u = s \o (t \o u)
BY ConcatAssociative

(* An element moves from the front of one sequence to the end of another.  *)
LEMMA AppendMoves ==
  ASSUME NEW S, NEW s \in Seq(S), NEW e \in S, NEW r \in Seq(S)
  PROVE  Append(s, e) \o r = s \o (<<e>> \o r)
<1>1. <<e>> \in Seq(S) /\ Append(s, e) = s \o <<e>>
  BY AppendIsConcat
<1> QED
  BY <1>1, ConcatAssociative

LEMMA FoundAppend ==
  \A s, r \in Seq(OptionVals) : \A e \in OptionVals :
    Append(s, e) \o r = s \o (<<e>> \o r)
BY AppendMoves

(* At the end of the options nothing is left.                            *)
LEMMA SubSeqIsEmpty ==
  ASSUME NEW S, NEW s \in Seq(S), NEW i \in 1..Len(s)+1, SubSeq(s, i, Len(s)) = <<>>
  PROVE  i = Len(s) + 1
<1>1. Len(s) \in Nat /\ \A j \in 1..Len(s) : s[j] \in S
  BY LenProperties, ElementOfSeq
<1>2. Len(SubSeq(s, i, Len(s))) = IF i <= Len(s) THEN Len(s) - i + 1 ELSE 0
  <2>1. i \in Int /\ Len(s) \in Int /\ \A j \in i..Len(s) : s[j] \in S
    BY <1>1
  <2> QED
    BY <2>1, SubSeqProperties
<1>3. Len(SubSeq(s, i, Len(s))) = 0
  OBVIOUS
<1> QED
  BY <1>1, <1>2, <1>3

(* The next option of the open CPPLINT.cfg.                                *)
LEMMA NextOptionIs ==
  ASSUME NEW c \in Configs, NEW i \in 1..Len(c)+1, SubSeq(c, i, Len(c)) # <<>>
  PROVE  /\ i \in 1..Len(c) /\ c[i].val \in OptionVals
         /\ Head(SubSeq(c, i, Len(c))) = c[i]
         /\ Tail(SubSeq(c, i, Len(c))) = SubSeq(c, i + 1, Len(c))
<1> DEFINE S == {c[j] : j \in DOMAIN c}
<1>1. Len(c) \in Nat /\ c \in Seq(S) /\ \A j \in 1..Len(c) : c[j].val \in OptionVals
  BY ConfigOptions
<1>2. \A j \in 1..Len(c) : c[j] \in S
  BY <1>1, LenProperties
<1> HIDE DEF S
<1>3. i \in 1..Len(c)
  <2>1. CASE i = Len(c) + 1
    BY <1>1, <2>1, SubSeqEmpty
  <2> QED
    BY <1>1, <2>1
<1>4. /\ SubSeq(c, i, Len(c)) \in Seq(S) /\ Len(SubSeq(c, i, Len(c))) = Len(c) - i + 1
      /\ \A j \in 1..Len(c)-i+1 : SubSeq(c, i, Len(c))[j] = c[i + j - 1]
  BY <1>1, <1>2, <1>3, SubSeqProperties
<1>5. /\ SubSeq(c, i + 1, Len(c)) \in Seq(S) /\ Len(SubSeq(c, i + 1, Len(c))) = Len(c) - i
      /\ \A j \in 1..Len(c)-i : SubSeq(c, i + 1, Len(c))[j] = c[i + j]
  BY <1>1, <1>2, <1>3, SubSeqProperties
<1>6. /\ Head(SubSeq(c, i, Len(c))) = c[i]
      /\ Tail(SubSeq(c, i, Len(c))) \in Seq(S)
      /\ Len(Tail(SubSeq(c, i, Len(c)))) = Len(c) - i
      /\ \A j \in 1..Len(c)-i : Tail(SubSeq(c, i, Len(c)))[j] = c[i + j]
  BY <1>1, <1>3, <1>4, HeadTailProperties
<1>7. Tail(SubSeq(c, i, Len(c))) = SubSeq(c, i + 1, Len(c))
  BY <1>5, <1>6, SeqEqual
<1> QED
  BY <1>1, <1>3, <1>6, <1>7


LEMMA ParentAbove ==
  \A d \in Dirs : d # NONE /\ d \in Above /\ Parent[d] \in Above
BY RunAssumption, TreeAssumption DEF Above

(* What is read next of the open CPPLINT.cfg.                              *)
LEMMA OptionRead ==
  ASSUME SearchType, ConfigInv, pc = "config", options # <<>>
  PROVE  \E i \in 1..Len(config[look]) :
           /\ ReadUpTo(i)
           /\ Head(options) = config[look][i] /\ Head(options).val \in OptionVals
           /\ Tail(options) = SubSeq(config[look], i + 1, Len(config[look]))
           /\ Vals(config[look], "filter")[i] =
                IF Head(options).name = "filter"
                THEN <<Head(options).val>> \o Vals(config[look], "filter")[i + 1]
                ELSE Vals(config[look], "filter")[i + 1]
           /\ Vals(config[look], "filter")[i + 1] \in Seq(OptionVals)
<1> DEFINE c == config[look]
<1>1. c \in Configs
  BY DEF SearchType
<1>2. PICK i \in 1..Len(c)+1 : ReadUpTo(i)
  BY DEF ConfigInv
<1>3. options = SubSeq(c, i, Len(c))
  BY <1>2 DEF ReadUpTo
<1> HIDE DEF c
<1>4. /\ i \in 1..Len(c) /\ c[i].val \in OptionVals
      /\ Head(options) = c[i] /\ Tail(options) = SubSeq(c, i + 1, Len(c))
  BY <1>1, <1>3, NextOptionIs
<1>5. Len(c) \in Nat /\ \A j \in 1..Len(c) : c[j].val \in OptionVals
  BY <1>1, ConfigOptions
<1>6. i \in 1..Len(c)+1 /\ i + 1 \in 1..Len(c)+1 /\ ~(i > Len(c))
  BY <1>4, <1>5
<1>7. Vals(c, "filter")[i + 1] \in Seq(OptionVals)
  BY <1>5, <1>6, ValsType
<1>8. Vals(c, "filter")[i] = ValsAt(Vals(c, "filter"), c, "filter", i)
  BY <1>5, <1>6, ValsUnfolds
<1>9. Vals(c, "filter")[i] = IF c[i].name = "filter"
                             THEN <<c[i].val>> \o Vals(c, "filter")[i + 1]
                             ELSE Vals(c, "filter")[i + 1]
  BY <1>6, <1>8 DEF ValsAt
<1> QED
  BY <1>2, <1>4, <1>7, <1>9 DEF c

LEMMA FirstIndex == 1..1-1 = {} /\ \A n \in Nat : 1 \in 1..n+1
OBVIOUS

LEMMA NextIndex ==
  /\ \A n \in Nat : \A i \in 1..n : i \in Nat /\ i + 1 \in 1..n+1 /\ i \in 1..(i+1)-1
  /\ \A i \in Nat : /\ \A j \in 1..(i+1)-1 : j \in 1..i-1 \/ j = i
                    /\ \A j \in 1..i-1 : j \in 1..(i+1)-1
OBVIOUS

(* An option that neither adds a filter nor ends the search.               *)
LEMMA OtherOption ==
  ASSUME SearchInv, pc = "config", options # <<>>, NextOption,
         Head(options).name \notin {"filter", "set noparent"},
         UNCHANGED <<args, config, pc, filenames, filters, filters_backup, look,
                     keep_looking, cfg_filters>>
  PROVE  SearchInv'
<1>1. SearchType' /\ FiltersKept'
  BY DEF SearchInv, SearchType, FiltersKept, Cli, Above
<1>2. LookInv' /\ CheckInv'
  BY DEF LookInv, CheckInv, Checking
<1>3. ConfigInv'
  <2>1. PICK i \in 1..Len(config[look]) :
           /\ ReadUpTo(i)
           /\ Head(options) = config[look][i]
           /\ Tail(options) = SubSeq(config[look], i + 1, Len(config[look]))
           /\ Vals(config[look], "filter")[i] = Vals(config[look], "filter")[i + 1]
    BY OptionRead DEF SearchInv
  <2>2. Len(config[look]) \in Nat
    BY ConfigOptions DEF SearchInv, SearchType
  <2>3. i \in Nat /\ i + 1 \in 1..Len(config[look])+1
    BY <2>2, NextIndex, Zenon
  <2>4. Found' = Found /\ Beyond' = Beyond
    BY DEF Found, filename, Beyond
  <2>5. options' = SubSeq(config'[look'], i + 1, Len(config'[look']))
    BY <2>1 DEF NextOption
  <2>6. keep_looking' <=> \A j \in 1..(i+1)-1 : config'[look'][j].name # "set noparent"
    <3>1. \A j \in 1..(i+1)-1 : j \in 1..i-1 \/ j = i
      BY <2>3, NextIndex, Zenon
    <3>2. \A j \in 1..i-1 : j \in 1..(i+1)-1
      BY <2>3, NextIndex, Zenon
    <3>3. config[look][i].name # "set noparent"
      BY <2>1
    <3>4. keep_looking <=> \A j \in 1..i-1 : config[look][j].name # "set noparent"
      BY <2>1 DEF ReadUpTo
    <3> QED
      BY <3>1, <3>2, <3>3, <3>4
  <2>7. Found' = (cfg_filters' \o Vals(config'[look'], "filter")[i + 1]) \o Beyond'
    BY <2>1, <2>4 DEF ReadUpTo
  <2>8. ReadUpTo(i + 1)'
    BY <2>5, <2>6, <2>7 DEF ReadUpTo
  <2> QED
    BY <2>3, <2>8 DEF ConfigInv
<1> QED
  BY <1>1, <1>2, <1>3 DEF SearchInv

(* While a file is checked nothing changes that the search has set.        *)
LEMMA CheckingFrame ==
  ASSUME SearchInv, Checking, Checking',
         UNCHANGED <<args, config, filenames, globals, search>>
  PROVE  SearchInv'
<1>1. pc \notin {"next", "exit", "look", "config"} /\ pc' \notin {"next", "exit", "look", "config"}
  BY DEF Checking
<1>2. SearchType' /\ FiltersKept'
  BY <1>1 DEF SearchInv, SearchType, FiltersKept, Cli, Above, globals, search
<1>3. LookInv' /\ ConfigInv'
  BY <1>1 DEF LookInv, ConfigInv
<1>4. CheckInv'
  <2>1. PICK n \in 0..Len(Found) : filters = Cli \o FlattenSeq(Reverse(SubSeq(Found, 1, n)))
    BY DEF SearchInv, CheckInv
  <2>2. Found' = Found /\ Cli' = Cli /\ filters' = filters
    BY DEF Found, filename, Cli, globals
  <2> QED
    BY <2>1, <2>2 DEF CheckInv
<1> QED
  BY <1>2, <1>3, <1>4 DEF SearchInv

(* After a file the filters are those of the command line again.           *)
LEMMA FileEnds ==
  ASSUME SearchInv, pc \notin {"next", "exit"}, pc' = "next",
         filenames' = Tail(filenames), filters' = filters_backup,
         UNCHANGED <<args, config, filters_backup, look, cfg_filters>>
  PROVE  SearchInv'
<1>1. filenames' \in Seq(FileNames)
  BY DEF SearchInv, SearchType
<1>2. SearchType' /\ FiltersKept'
  BY <1>1 DEF SearchInv, SearchType, FiltersKept, Cli, Above
<1>3. LookInv' /\ ConfigInv' /\ CheckInv'
  BY DEF LookInv, ConfigInv, CheckInv, Checking
<1> QED
  BY <1>2, <1>3 DEF SearchInv

(* The steps of the search, one by one.                                  *)
LEMMA NextFileStep ==
  ASSUME SearchInv, NextFile
  PROVE  SearchInv'
<1>1. filename \in FileNames /\ Place[filename] \in Dirs /\ Place[filename] \in Above
  BY RunAssumption, ParentAbove DEF SearchInv, SearchType, NextFile, filename
<1>2. SearchType' /\ FiltersKept'
  BY <1>1, EmptySeq DEF SearchInv, SearchType, FiltersKept, NextFile, Cli, Above
<1>3. Found' = Nearest(config, "filter")[look']
  BY DEF NextFile, Found, filename
<1>4. Nearest(config, "filter")[look'] \in Seq(OptionVals)
  BY <1>1, NearestType DEF SearchInv, SearchType, NextFile
<1>5. Found' = <<>> \o Nearest(config, "filter")[look']
  BY <1>3, <1>4, ConcatEmptySeq
<1>6. LookInv'
  BY <1>5 DEF LookInv, NextFile
<1>7. ConfigInv' /\ CheckInv'
  BY DEF ConfigInv, CheckInv, Checking, NextFile
<1> QED
  BY <1>2, <1>6, <1>7 DEF SearchInv

LEMMA LookUpStep ==
  ASSUME SearchInv, LookUp
  PROVE  SearchInv'
<1>1. look \in Dirs /\ look # NONE /\ look \in Above /\ Parent[look] \in Above
  BY ParentAbove DEF SearchInv, SearchType, LookUp, Above
<1>2. SearchType' /\ FiltersKept'
  BY <1>1 DEF SearchInv, SearchType, FiltersKept, LookUp, Cli, Above, globals
<1>3. Nearest(config, "filter")[look] = Nearest(config, "filter")[Parent[look]]
  BY <1>1, NearestUnfolds DEF NearestAt, LookUp
<1>4. Found' = Found
  BY DEF LookUp, Found, filename
<1>5. LookInv'
  BY <1>3, <1>4 DEF SearchInv, LookInv, LookUp
<1>6. ConfigInv' /\ CheckInv'
  BY DEF ConfigInv, CheckInv, Checking, LookUp
<1> QED
  BY <1>2, <1>5, <1>6 DEF SearchInv

LEMMA OpenConfigStep ==
  ASSUME SearchInv, OpenConfig
  PROVE  SearchInv'
<1> DEFINE c == config[look]
<1>1. look \in Dirs /\ look # NONE /\ look \in Above /\ c \in Configs
  BY DEF SearchInv, SearchType, OpenConfig, Above
<1>2. SearchType' /\ FiltersKept'
  BY <1>1 DEF SearchInv, SearchType, FiltersKept, OpenConfig, Cli, Above, globals
<1>3. Found' = Found /\ Beyond' = Beyond
  BY DEF OpenConfig, Found, filename, Beyond
<1>4. /\ Beyond \in Seq(OptionVals) /\ Vals(c, "filter")[1] \in Seq(OptionVals)
      /\ Len(c) \in Nat /\ 1 \in 1..Len(c)+1 /\ c = SubSeq(c, 1, Len(c))
  <2>1. Beyond \in Seq(OptionVals)
    BY <1>1, ParentAbove, NearestType, EmptySeq DEF SearchInv, SearchType, Beyond
  <2> HIDE DEF c
  <2>2. Len(c) \in Nat /\ c \in Seq({c[j] : j \in DOMAIN c})
    BY <1>1, ConfigOptions
  <2>3. 1 \in 1..Len(c)+1
    BY <2>2, FirstIndex
  <2>4. Vals(c, "filter")[1] \in Seq(OptionVals)
    BY <1>1, <2>2, <2>3, ConfigOptions, ValsType
  <2>5. c = SubSeq(c, 1, Len(c))
    BY <2>2, SubSeqFull
  <2> QED
    BY <2>1, <2>2, <2>3, <2>4, <2>5
<1>5. Nearest(config, "filter")[look] = Vals(c, "filter")[1] \o Beyond
  BY <1>1, NearestUnfolds DEF NearestAt, OpenConfig, Beyond
<1>6. Found = (cfg_filters \o Vals(c, "filter")[1]) \o Beyond
  <2>1. Found = cfg_filters \o (Vals(c, "filter")[1] \o Beyond)
    <3>1. Found = cfg_filters \o Nearest(config, "filter")[look]
      BY DEF SearchInv, LookInv, OpenConfig
    <3> QED
      BY <1>5, <3>1, Zenon
  <2>2. cfg_filters \in Seq(OptionVals)
    BY DEF SearchInv, SearchType
  <2>3. (cfg_filters \o Vals(c, "filter")[1]) \o Beyond
          = cfg_filters \o (Vals(c, "filter")[1] \o Beyond)
    <3>1. Vals(c, "filter")[1] \in Seq(OptionVals) /\ Beyond \in Seq(OptionVals)
      BY <1>4
    <3> QED
      BY <2>2, <3>1, FoundAssociative, Zenon
  <2> QED
    BY <2>1, <2>3, Zenon
<1>7. ReadUpTo(1)'
  <2>1. options' = SubSeq(config'[look'], 1, Len(config'[look']))
    BY <1>4 DEF OpenConfig
  <2>2. keep_looking'
    BY DEF OpenConfig
  <2>3. Found' = (cfg_filters' \o Vals(config'[look'], "filter")[1]) \o Beyond'
    BY <1>3, <1>6 DEF OpenConfig
  <2>4. 1..1-1 = {}
    BY FirstIndex
  <2> QED
    BY <2>1, <2>2, <2>3, <2>4 DEF ReadUpTo
<1>8. ConfigInv'
  BY <1>4, <1>7 DEF ConfigInv, OpenConfig
<1>9. LookInv' /\ CheckInv'
  BY DEF LookInv, CheckInv, Checking, OpenConfig
<1> QED
  BY <1>2, <1>8, <1>9 DEF SearchInv

LEMMA OpenConfigFailsStep ==
  ASSUME SearchInv, OpenConfigFails
  PROVE  SearchInv'
<1>1. SearchType' /\ FiltersKept'
  BY DEF SearchInv, SearchType, FiltersKept, OpenConfigFails, Cli, Above, globals
<1>2. Found' = Found
  BY DEF OpenConfigFails, Found, filename
<1>3. \E n \in 0..Len(Found) : cfg_filters = SubSeq(Found, 1, n)
  <2>1. Nearest(config, "filter")[look] \in Seq(OptionVals) /\ cfg_filters \in Seq(OptionVals)
    BY NearestType DEF SearchInv, SearchType
  <2>2. Found = cfg_filters \o Nearest(config, "filter")[look]
    BY DEF SearchInv, LookInv, OpenConfigFails
  <2> QED
    BY <2>1, <2>2, PrefixOfConcat
<1>4. LookInv'
  BY <1>2, <1>3 DEF LookInv, OpenConfigFails
<1>5. ConfigInv' /\ CheckInv'
  BY DEF ConfigInv, CheckInv, Checking, OpenConfigFails
<1> QED
  BY <1>1, <1>4, <1>5 DEF SearchInv

LEMMA SetNoparentStep ==
  ASSUME SearchInv, SetNoparent
  PROVE  SearchInv'
<1>0. pc = "config" /\ options # <<>> /\ Head(options).name = "set noparent"
  BY DEF SetNoparent, Option
<1>1. SearchType' /\ FiltersKept'
  BY DEF SearchInv, SearchType, FiltersKept, SetNoparent, Cli, Above, globals
<1>2. LookInv' /\ CheckInv'
  BY <1>0 DEF LookInv, CheckInv, Checking, SetNoparent
<1>3. ConfigInv'
  <2>1. PICK i \in 1..Len(config[look]) :
           /\ ReadUpTo(i)
           /\ Head(options) = config[look][i]
           /\ Tail(options) = SubSeq(config[look], i + 1, Len(config[look]))
           /\ Vals(config[look], "filter")[i] = Vals(config[look], "filter")[i + 1]
    BY <1>0, OptionRead DEF SearchInv
  <2>2. Len(config[look]) \in Nat
    BY <1>0, ConfigOptions DEF SearchInv, SearchType
  <2>3. i \in Nat /\ i + 1 \in 1..Len(config[look])+1 /\ i \in 1..(i+1)-1
    BY <2>2, NextIndex, Zenon
  <2>4. Found' = Found /\ Beyond' = Beyond
    BY DEF Found, filename, Beyond, SetNoparent
  <2>5. options' = SubSeq(config'[look'], i + 1, Len(config'[look']))
    BY <2>1 DEF SetNoparent, NextOption
  <2>6. ~keep_looking' /\ config'[look'][i].name = "set noparent"
    BY <1>0, <2>1 DEF SetNoparent
  <2>7. Found' = (cfg_filters' \o Vals(config'[look'], "filter")[i + 1]) \o Beyond'
    BY <2>1, <2>4 DEF ReadUpTo, SetNoparent
  <2>8. ReadUpTo(i + 1)'
    BY <2>3, <2>5, <2>6, <2>7 DEF ReadUpTo
  <2> QED
    BY <2>3, <2>8 DEF ConfigInv, SetNoparent
<1> QED
  BY <1>1, <1>2, <1>3 DEF SearchInv

LEMMA FilterStep ==
  ASSUME SearchInv, Filter
  PROVE  SearchInv'
<1>0. pc = "config" /\ options # <<>> /\ Head(options).name = "filter"
  BY DEF Filter, Option
<1>1. PICK i \in 1..Len(config[look]) :
         /\ ReadUpTo(i)
         /\ Head(options) = config[look][i] /\ Head(options).val \in OptionVals
         /\ Tail(options) = SubSeq(config[look], i + 1, Len(config[look]))
         /\ Vals(config[look], "filter")[i]
              = <<Head(options).val>> \o Vals(config[look], "filter")[i + 1]
         /\ Vals(config[look], "filter")[i + 1] \in Seq(OptionVals)
  BY <1>0, OptionRead DEF SearchInv
<1>2. cfg_filters \in Seq(OptionVals) /\ cfg_filters' \in Seq(OptionVals)
  BY <1>1, AppendProperties DEF SearchInv, SearchType, Filter
<1>3. SearchType' /\ FiltersKept'
  BY <1>2 DEF SearchInv, SearchType, FiltersKept, Filter, Cli, Above, globals
<1>4. LookInv' /\ CheckInv'
  BY <1>0 DEF LookInv, CheckInv, Checking, Filter
<1>5. ConfigInv'
  <2>2. Len(config[look]) \in Nat
    BY <1>0, ConfigOptions DEF SearchInv, SearchType
  <2>3. i \in Nat /\ i + 1 \in 1..Len(config[look])+1
    BY <2>2, NextIndex, Zenon
  <2>4. Found' = Found /\ Beyond' = Beyond
    BY DEF Found, filename, Beyond, Filter
  <2>5. options' = SubSeq(config'[look'], i + 1, Len(config'[look']))
    BY <1>1 DEF Filter, NextOption
  <2>6. keep_looking' <=> \A j \in 1..(i+1)-1 : config'[look'][j].name # "set noparent"
    <3>1. \A j \in 1..(i+1)-1 : j \in 1..i-1 \/ j = i
      BY <2>3, NextIndex, Zenon
    <3>2. \A j \in 1..i-1 : j \in 1..(i+1)-1
      BY <2>3, NextIndex, Zenon
    <3>3. config[look][i].name # "set noparent"
      BY <1>0, <1>1
    <3>4. keep_looking <=> \A j \in 1..i-1 : config[look][j].name # "set noparent"
      BY <1>1 DEF ReadUpTo
    <3> QED
      BY <3>1, <3>2, <3>3, <3>4 DEF Filter
  <2>7. Found' = (cfg_filters' \o Vals(config'[look'], "filter")[i + 1]) \o Beyond'
    <3>1. Append(cfg_filters, Head(options).val) \o Vals(config[look], "filter")[i + 1]
            = cfg_filters \o Vals(config[look], "filter")[i]
      <4>1. Append(cfg_filters, Head(options).val) \o Vals(config[look], "filter")[i + 1]
              = cfg_filters \o (<<Head(options).val>> \o Vals(config[look], "filter")[i + 1])
        BY <1>1, <1>2, FoundAppend, Zenon
      <4>2. Vals(config[look], "filter")[i]
              = <<Head(options).val>> \o Vals(config[look], "filter")[i + 1]
        BY <1>1
      <4> QED
        BY <4>1, <4>2, Zenon
    <3>2. Found = (cfg_filters \o Vals(config[look], "filter")[i]) \o Beyond
      BY <1>1 DEF ReadUpTo
    <3>3. cfg_filters' = Append(cfg_filters, Head(options).val) /\ config' = config /\ look' = look
      BY DEF Filter
    <3> QED
      BY <2>4, <3>1, <3>2, <3>3
  <2>8. ReadUpTo(i + 1)'
    BY <2>5, <2>6, <2>7 DEF ReadUpTo
  <2> QED
    BY <2>3, <2>8 DEF ConfigInv, Filter
<1> QED
  BY <1>3, <1>4, <1>5 DEF SearchInv

LEMMA ConfigEndsStep ==
  ASSUME SearchInv, ConfigEnds
  PROVE  SearchInv'
<1> DEFINE c == config[look]
<1>1. look \in Dirs /\ Parent[look] \in Above /\ c \in Configs
  BY ParentAbove DEF SearchInv, SearchType, ConfigEnds
<1>2. SearchType' /\ FiltersKept'
  BY <1>1 DEF SearchInv, SearchType, FiltersKept, ConfigEnds, Cli, Above, globals
<1>3. PICK i \in 1..Len(c)+1 : ReadUpTo(i)
  BY DEF SearchInv, ConfigInv, ConfigEnds
<1>4. cfg_filters \in Seq(OptionVals) /\ Beyond \in Seq(OptionVals)
  <2>1. Nearest(config, "filter")[Parent[look]] \in Seq(OptionVals)
    BY <1>1, NearestType DEF SearchInv, SearchType
  <2> QED
    BY <2>1, EmptySeq DEF Beyond, SearchInv, SearchType
<1>5. i = Len(c) + 1 /\ Len(c) \in Nat
  <2>1. SubSeq(c, i, Len(c)) = <<>>
    BY <1>3 DEF ReadUpTo, ConfigEnds
  <2> HIDE DEF c
  <2>2. c \in Seq({c[j] : j \in DOMAIN c}) /\ Len(c) \in Nat
    BY <1>1, ConfigOptions
  <2> QED
    BY <2>1, <2>2, SubSeqIsEmpty
<1>6. Vals(c, "filter")[i] = <<>>
  <2> HIDE DEF c
  <2>1. i \in 1..Len(c)+1 /\ i > Len(c)
    BY <1>5
  <2> QED
    BY <1>5, <2>1, ValsUnfolds DEF ValsAt
<1>7. keep_looking <=> ~Noparent(c)
  <2>1. \A j : j \in 1..i-1 <=> j \in 1..Len(c)
    <3> HIDE DEF c
    <3> QED
      BY <1>5
  <2>2. keep_looking <=> \A j \in 1..i-1 : c[j].name # "set noparent"
    BY <1>3 DEF ReadUpTo
  <2> HIDE DEF c
  <2> QED
    BY <2>1, <2>2 DEF Noparent
<1>8. Found = cfg_filters \o Beyond
  <2>1. Found = (cfg_filters \o Vals(c, "filter")[i]) \o Beyond
    BY <1>3 DEF ReadUpTo
  <2>2. cfg_filters \o <<>> = cfg_filters
    BY <1>4, ConcatEmptySeq
  <2> HIDE DEF c
  <2> QED
    BY <1>6, <2>1, <2>2
<1>9. Found' = Found
  BY DEF Found, filename, ConfigEnds
<1>10. LookInv'
  <2>1. CASE keep_looking
    <3>1. Found' = cfg_filters' \o Nearest(config', "filter")[look']
      BY <1>7, <1>8, <1>9, <2>1 DEF Beyond, ConfigEnds
    <3> QED
      BY <2>1, <3>1 DEF LookInv, ConfigEnds
  <2>2. CASE ~keep_looking
    <3>1. Found = cfg_filters
      BY <1>4, <1>7, <1>8, <2>2, ConcatEmptySeq DEF Beyond
    <3>2. Len(Found) \in 0..Len(Found) /\ cfg_filters = SubSeq(Found, 1, Len(Found))
      BY <1>4, <3>1, SubSeqFull, LenProperties
    <3> QED
      BY <1>9, <2>2, <3>2 DEF LookInv, ConfigEnds
  <2> QED
    BY <2>1, <2>2
<1>11. ConfigInv' /\ CheckInv'
  BY DEF ConfigInv, CheckInv, Checking, ConfigEnds
<1> QED
  BY <1>2, <1>10, <1>11 DEF SearchInv

LEMMA AddFiltersStep ==
  ASSUME SearchInv, AddFilters
  PROVE  SearchInv'
<1>1. SearchType' /\ FiltersKept'
  BY DEF SearchInv, SearchType, FiltersKept, AddFilters, Cli, Above, search
<1>2. Found' = Found /\ Cli' = Cli
  BY DEF Found, filename, Cli, AddFilters
<1>3. \E n \in 0..Len(Found) : cfg_filters = SubSeq(Found, 1, n)
  <2>1. CASE keep_looking
    <3>1. Found = cfg_filters \o Nearest(config, "filter")[NONE]
      BY <2>1 DEF SearchInv, LookInv, AddFilters
    <3>2. Nearest(config, "filter")[NONE] = <<>>
      BY NearestUnfolds DEF NearestAt, Above
    <3>3. cfg_filters \in Seq(OptionVals)
      BY DEF SearchInv, SearchType
    <3>4. Found = cfg_filters
      BY <3>1, <3>2, <3>3, ConcatEmptySeq
    <3> QED
      BY <3>3, <3>4, SubSeqFull, LenProperties
  <2>2. CASE ~keep_looking
    BY <2>2 DEF SearchInv, LookInv, AddFilters
  <2> QED
    BY <2>1, <2>2
<1>4. CheckInv'
  <2>1. filters' = Cli \o FlattenSeq(Reverse(cfg_filters))
    BY DEF SearchInv, FiltersKept, AddFilters
  <2> QED
    BY <1>2, <1>3, <2>1 DEF CheckInv
<1>5. LookInv' /\ ConfigInv'
  BY DEF LookInv, ConfigInv, AddFilters
<1> QED
  BY <1>1, <1>4, <1>5 DEF SearchInv

(* A run that has crashed claims nothing of its filters.                 *)
LEMMA AddFiltersFailsStep ==
  ASSUME SearchInv, AddFiltersFails
  PROVE  SearchInv'
<1>1. SearchType' /\ FiltersKept'
  BY DEF SearchInv, SearchType, FiltersKept, AddFiltersFails, Cli, Above, search
<1>2. LookInv' /\ ConfigInv' /\ CheckInv'
  BY DEF LookInv, ConfigInv, CheckInv, Checking, AddFiltersFails
<1> QED
  BY <1>1, <1>2 DEF SearchInv

(* Every step keeps the invariant of the search.                         *)
LEMMA SearchStep ==
  ASSUME SearchInv, [Next]_vars
  PROVE  SearchInv'
<1>1. CASE NextFile
  BY <1>1, NextFileStep
<1>2. CASE ProcessConfigOverrides
  <2>1. CASE LookUp
    BY <2>1, LookUpStep
  <2>2. CASE OpenConfig
    BY <2>2, OpenConfigStep
  <2>3. CASE OpenConfigFails
    BY <2>3, OpenConfigFailsStep
  <2>4. CASE SetNoparent
    BY <2>4, SetNoparentStep
  <2>5. CASE Filter
    BY <2>5, FilterStep
  <2>6. CASE ExcludeFiles
    BY <2>6, FileEnds DEF ExcludeFiles, Option
  <2>7. CASE ExcludeOthers
    BY <2>7, OtherOption DEF ExcludeOthers, Option, globals
  <2>8. CASE SetLineLength
    BY <2>8, OtherOption DEF SetLineLength, Option
  <2>9. CASE ProcessExtensionsOption
    BY <2>9, OtherOption DEF ProcessExtensionsOption, Option
  <2>10. CASE ProcessHppHeadersOption
    BY <2>10, OtherOption DEF ProcessHppHeadersOption, Option
  <2>11. CASE ConfigEnds
    BY <2>11, ConfigEndsStep
  <2>12. CASE AddFilters
    BY <2>12, AddFiltersStep
  <2>13. CASE AddFiltersFails
    BY <2>13, AddFiltersFailsStep
  <2> QED
    BY <1>2, <2>1, <2>2, <2>3, <2>4, <2>5, <2>6, <2>7, <2>8, <2>9, <2>10, <2>11, <2>12, <2>13
       DEF ProcessConfigOverrides
<1>3. CASE SkipFile
  BY <1>3, FileEnds DEF SkipFile, search
<1>4. CASE CheckFile
  <2>1. CASE ProcessFileData
    BY <2>1, CheckingFrame DEF ProcessFileData, Checking
  <2>2. CASE RemoveMultiLineComments
    BY <2>2, CheckingFrame DEF RemoveMultiLineComments, Checking, lineVars
  <2>3. CASE ProcessLine
    BY <2>3, CheckingFrame DEF ProcessLine, Checking, lineVars
  <2>4. CASE CheckTrailingSemicolon
    BY <2>4, CheckingFrame DEF CheckTrailingSemicolon, Checking, lineVars
  <2>5. CASE CheckEmptyBlockBody
    BY <2>5, CheckingFrame DEF CheckEmptyBlockBody, Checking, lineVars
  <2>6. CASE CheckNewlines
    BY <2>6, CheckingFrame DEF CheckNewlines, Checking, lineVars
  <2>7. CASE FileDone
    BY <2>7, FileEnds DEF FileDone, search
  <2> QED
    BY <1>4, <2>1, <2>2, <2>3, <2>4, <2>5, <2>6, <2>7 DEF CheckFile
<1>5. CASE Exit
  <2>1. SearchType' /\ FiltersKept'
    BY <1>5 DEF SearchInv, SearchType, FiltersKept, Exit, Cli, Above, globals, search
  <2>2. LookInv' /\ ConfigInv' /\ CheckInv'
    BY <1>5 DEF LookInv, ConfigInv, CheckInv, Checking, Exit
  <2> QED
    BY <2>1, <2>2 DEF SearchInv
<1>6. CASE UNCHANGED vars
  <2>1. UNCHANGED <<args, config, pc, filenames, filters, filters_backup, look, options,
                    keep_looking, cfg_filters>>
    BY <1>6 DEF vars, globals, search
  <2>2. Found' = Found /\ Beyond' = Beyond /\ Cli' = Cli
    BY <2>1 DEF Found, filename, Beyond, Cli
  <2>3. SearchType' /\ FiltersKept'
    BY <2>1, <2>2 DEF SearchInv, SearchType, FiltersKept, Above
  <2>4. LookInv' /\ CheckInv'
    BY <2>1, <2>2 DEF SearchInv, LookInv, CheckInv, Checking
  <2>5. ConfigInv'
    <3>1. \A i : ReadUpTo(i) => ReadUpTo(i)'
      BY <2>1, <2>2 DEF ReadUpTo
    <3> QED
      BY <2>1, <3>1 DEF SearchInv, ConfigInv
  <2> QED
    BY <2>3, <2>4, <2>5 DEF SearchInv
<1> QED
  BY <1>1, <1>2, <1>3, <1>4, <1>5, <1>6 DEF Next

LEMMA SearchInit ==
  ASSUME Init
  PROVE  SearchInv
<1>1. filenames \in Seq(FileNames)
  BY RunAssumption DEF Init
<1>2. SearchType
  BY <1>1, EmptySeq DEF Init, SearchType, Above
<1>3. FiltersKept /\ LookInv /\ ConfigInv /\ CheckInv
  BY DEF Init, FiltersKept, Cli, LookInv, ConfigInv, CheckInv, Checking
<1> QED
  BY <1>2, <1>3 DEF SearchInv

(* What the search has found so far, and what the rest of it will find, is *)
(* always what speaks of the file (ProcessConfigOverrides).                *)
THEOREM SearchInvariant == Spec => []SearchInv
BY SearchInit, SearchStep, PTL DEF Spec

(* The filters a file is checked with are those of the command line and    *)
(* of the CPPLINT.cfg files above it, the outermost first - whatever the   *)
(* run did before, and however many directories and options there are.     *)
THEOREM FiltersAreScoped == Spec => []FiltersScoped
<1>1. SearchInv => FiltersScoped
  BY DEF SearchInv, FiltersKept, CheckInv, FiltersScoped, Cli, Found
<1> QED
  BY <1>1, SearchInvariant, PTL

-----------------------------------------------------------------------------
(* The comments: in a file that is being checked the suppressions are      *)
(* those of the comments parsed so far, and an error that the last check   *)
(* has reported was printed if they let it pass.                           *)

Working == {"data", "lines", "braces", "body", "done"}

ReportedInv ==
  \A r \in reported :
    /\ r.printed <=> ShouldPrintError(error_suppressions, r.error)
    /\ ~r.blind => {r.error.line - 1, r.error.line} \cap Lines \subseteq parsed

NolintInv ==
  /\ pc \notin Working => parsed = {} /\ reported = {}
  /\ pc \in Working => error_suppressions = UNION {Suppressed(l) : l \in parsed}
  /\ parsed \subseteq Lines /\ line \in Nat
  /\ pc \in {"braces", "body"} => line \in Lines
  /\ ReportedInv

(* The counts: the table by category is one of numbers, and its sum is the *)
(* number of errors if there is one at all.                                *)
Total == FoldFunction(+, 0, errors_by_category)

CountInv ==
  /\ args \in CommandLines
  /\ error_count \in Nat
  /\ errors_by_category \in [CountKeys -> Nat]
  /\ Total = IF args.counting = "total" THEN 0 ELSE error_count
  /\ \A r \in reported : r.printed => error_count > 0

(* The errors a check reports, and those of them that are printed.         *)
Errors(ls, errors) ==
  errors \cup {[line |-> l, category |-> Nolint, confidence |-> 5] :
                 l \in {k \in ls : comment[k] # NONE /\ comment[k].category = Unknown}}

Asked(ls) == error_suppressions \cup UNION {Suppressed(l) : l \in ls}

Printed(ls, errors) == {e \in Errors(ls, errors) : ShouldPrintError(Asked(ls), e)}

LEMMA ReportIs ==
  ASSUME NEW ls, NEW errors, Report(ls, errors)
  PROVE  /\ error_suppressions' = Asked(ls)
         /\ IncrementErrorCount(Printed(ls, errors))
         /\ parsed' = parsed \cup ls
         /\ reported' = {[error |-> e, printed |-> e \in Printed(ls, errors),
              blind |-> ~({e.line - 1, e.line} \cap Lines \subseteq parsed \cup ls)] :
                e \in Errors(ls, errors)}
BY DEF Report, Errors, Asked, Printed

checkVars == <<args, globals, global_error_suppressions, comment>>

(* A check parses comments and reports: both are recorded.               *)
LEMMA ReportNolint ==
  ASSUME NolintInv, pc \in Working, pc' \in Working, UNCHANGED checkVars,
         line' \in Nat, pc' \in {"braces", "body"} => line' \in Lines,
         NEW ls \in SUBSET Lines, NEW errors, Report(ls, errors)
  PROVE  NolintInv'
<1>1. \A l : Suppressed(l)' = Suppressed(l)
  BY DEF Suppressed, checkVars
<1>2. error_suppressions' = UNION {Suppressed(l)' : l \in parsed'}
  <2>1. error_suppressions = UNION {Suppressed(l) : l \in parsed}
    BY DEF NolintInv
  <2>2. error_suppressions' = UNION {Suppressed(l) : l \in parsed \cup ls}
    BY <2>1, ReportIs DEF Asked
  <2> QED
    BY <1>1, <2>2, ReportIs
<1>3. parsed' \subseteq Lines
  BY ReportIs DEF NolintInv
<1>4. \A e : ShouldPrintError(Asked(ls), e) <=> ShouldPrintError(error_suppressions, e)'
  <2>1. error_suppressions' = Asked(ls)
    BY ReportIs
  <2>2. UNCHANGED <<args, filters, global_error_suppressions>>
    BY DEF checkVars, globals
  <2> QED
    BY <2>1, <2>2 DEF ShouldPrintError, IsErrorSuppressedByNolint, Filtered
<1>5. ReportedInv'
  <2> SUFFICES ASSUME NEW r \in reported'
               PROVE  /\ r.printed <=> ShouldPrintError(error_suppressions, r.error)'
                      /\ ~r.blind => {r.error.line - 1, r.error.line} \cap Lines \subseteq parsed'
    BY DEF ReportedInv
  <2>1. PICK e \in Errors(ls, errors) :
           r = [error |-> e, printed |-> e \in Printed(ls, errors),
                blind |-> ~({e.line - 1, e.line} \cap Lines \subseteq parsed \cup ls)]
    BY ReportIs
  <2>2. r.printed <=> ShouldPrintError(Asked(ls), e)
    BY <2>1 DEF Printed
  <2>3. r.error = e /\ (~r.blind => {e.line - 1, e.line} \cap Lines \subseteq parsed \cup ls)
    BY <2>1
  <2> QED
    BY <1>4, <2>2, <2>3, ReportIs
<1> QED
  BY <1>2, <1>3, <1>5 DEF NolintInv

LEMMA NolintStep ==
  ASSUME NolintInv, [Next]_vars
  PROVE  NolintInv'
<1>1. ASSUME pc \notin Working, pc' \notin Working, UNCHANGED <<parsed, reported, line>>
      PROVE  NolintInv'
  BY <1>1 DEF NolintInv, ReportedInv, Working
<1>2. CASE NextFile
  BY <1>1, <1>2 DEF NextFile, Working, data
<1>3. CASE ProcessConfigOverrides
  BY <1>1, <1>3
     DEF ProcessConfigOverrides, LookUp, OpenConfig, OpenConfigFails, SetNoparent, Filter,
         ExcludeFiles, ExcludeOthers, SetLineLength, ProcessExtensionsOption,
         ProcessHppHeadersOption, ConfigEnds, AddFilters, AddFiltersFails, Option, Working,
         data
<1>4. CASE SkipFile \/ Exit
  BY <1>1, <1>4 DEF SkipFile, Exit, Working, data
<1>5. CASE ProcessFileData
  BY <1>5 DEF ProcessFileData, NolintInv, ReportedInv, Working
<1>6. CASE RemoveMultiLineComments
  BY <1>6, ReportNolint DEF RemoveMultiLineComments, Working, checkVars, lineVars, NolintInv
<1>7. CASE ProcessLine
  <2>1. line + 1 \in Lines /\ line' \in Nat
    BY <1>7, RunAssumption DEF ProcessLine, NolintInv, Lines
  <2> QED
    BY <1>7, <2>1, ReportNolint DEF ProcessLine, Working, checkVars, lineVars
<1>8. CASE CheckTrailingSemicolon
  BY <1>8, ReportNolint DEF CheckTrailingSemicolon, Working, checkVars, lineVars, NolintInv
<1>9. CASE CheckEmptyBlockBody
  BY <1>9, ReportNolint DEF CheckEmptyBlockBody, Working, checkVars, lineVars, NolintInv
<1>10. CASE CheckNewlines
  BY <1>10, ReportNolint DEF CheckNewlines, Working, checkVars, lineVars, NolintInv
<1>11. CASE FileDone
  BY <1>11 DEF FileDone, NolintInv, ReportedInv, Working
<1>12. CASE UNCHANGED vars
  <2>1. UNCHANGED <<pc, args, filters, error_suppressions, global_error_suppressions, comment,
                    line, parsed, reported>>
    BY <1>12 DEF vars, globals, data
  <2> QED
    BY <2>1 DEF NolintInv, ReportedInv, Suppressed, ShouldPrintError,
                IsErrorSuppressedByNolint, Filtered
<1> QED
  BY <1>2, <1>3, <1>4, <1>5, <1>6, <1>7, <1>8, <1>9, <1>10, <1>11, <1>12 DEF Next, CheckFile

LEMMA NolintInit ==
  ASSUME Init
  PROVE  NolintInv
BY DEF Init, NolintInv, ReportedInv, Working

(* A line asks for a suppression only of errors on itself and the next.    *)
LEMMA NolintIsLocal ==
  ASSUME NolintInv, NEW r \in reported, ~r.blind, NEW category
  PROVE  IsErrorSuppressedByNolint(error_suppressions, category, r.error.line)
           <=> IsErrorSuppressedByNolint(UNION {Suppressed(l) : l \in Lines}, category,
                                         r.error.line)
<1> DEFINE n == r.error.line
<1>1. pc \in Working
  BY DEF NolintInv
<1>2. error_suppressions = UNION {Suppressed(l) : l \in parsed} /\ parsed \subseteq Lines
  BY <1>1 DEF NolintInv
<1>3. {n - 1, n} \cap Lines \subseteq parsed
  BY DEF NolintInv, ReportedInv
<1> HIDE DEF n
<1>4. ASSUME NEW c, NEW l \in Lines, <<c, n>> \in Suppressed(l)
      PROVE  <<c, n>> \in error_suppressions
  <2>1. n = l \/ n = l + 1
    BY <1>4 DEF Suppressed
  <2>2. l \in Int
    BY DEF Lines
  <2>3. l \in parsed
    BY <1>3, <2>1, <2>2
  <2> QED
    BY <1>2, <1>4, <2>3
<1>5. \A c : <<c, n>> \in UNION {Suppressed(l) : l \in Lines} => <<c, n>> \in error_suppressions
  BY <1>4
<1>6. error_suppressions \subseteq UNION {Suppressed(l) : l \in Lines}
  BY <1>2
<1> QED
  BY <1>5, <1>6 DEF IsErrorSuppressedByNolint, n

(* NOLINT comments suppress exactly what they ask for, in every file of    *)
(* every run, as long as the check has parsed the comments of the line.    *)
THEOREM NolintIsExact == Spec => []NolintExact
<1>1. Spec => []NolintInv
  BY NolintInit, NolintStep, PTL DEF Spec
<1>2. NolintInv => NolintExact
  <2> SUFFICES ASSUME NolintInv, NEW r \in reported, ~r.blind
               PROVE  r.printed <=>
                        /\ r.error.confidence >= args.verbose
                        /\ ~Filtered(filters, r.error.category)
                        /\ ~IsErrorSuppressedByNolint(UNION {Suppressed(l) : l \in Lines},
                                                      r.error.category, r.error.line)
    BY DEF NolintExact
  <2>1. r.printed <=> ShouldPrintError(error_suppressions, r.error)
    BY DEF NolintInv, ReportedInv
  <2> QED
    BY <2>1, NolintIsLocal DEF ShouldPrintError
<1> QED
  BY <1>1, <1>2, PTL

-----------------------------------------------------------------------------
(* The sum of a function with a finite domain: FoldFunction takes one      *)
(* element after the other out of the domain.                              *)

SumAt(it, f, s) ==
  IF s = {} THEN 0
  ELSE f[CHOOSE x \in s : TRUE] + it[s \ {CHOOSE x \in s : TRUE}]

Sums(f) == CHOOSE it : it = [s \in SUBSET DOMAIN f |-> SumAt(it, f, s)]

TotalIsSum ==
  errors_by_category \in [CountKeys -> Nat] => Total = Sums(errors_by_category)[CountKeys]

LEMMA FoldIsSum == TotalIsSum
BY DEF TotalIsSum, Total, FoldFunction, FoldFunctionOnSet, MapThenFoldSet, Sums, SumAt

(* The recursion of FoldFunction goes down to the empty set.             *)
LEMMA SumsExist ==
  ASSUME NEW f, IsFiniteSet(DOMAIN f)
  PROVE  \E it : it = [s \in SUBSET DOMAIN f |-> SumAt(it, f, s)]
<1> DEFINE K == DOMAIN f
           Below(n) == {s \in SUBSET K : Cardinality(s) < n}
           G == {n \in Nat : \E it : it = [s \in Below(n) |-> SumAt(it, f, s)]}
<1>1. \A s \in SUBSET K : IsFiniteSet(s) /\ Cardinality(s) \in Nat /\ Cardinality(s) <= Cardinality(K)
  BY FS_Subset, FS_CardinalityType
<1>2. 0 \in G
  <2>1. Below(0) = {}
    BY <1>1
  <2> DEFINE it == [s \in {} |-> 0]
  <2>2. it = [s \in Below(0) |-> SumAt(it, f, s)]
    BY <2>1
  <2> QED
    BY <2>2
<1>3. ASSUME NEW n \in Nat, n \in G
      PROVE  n + 1 \in G
  <2>1. PICK jt : jt = [s \in Below(n) |-> SumAt(jt, f, s)]
    BY <1>3
  <2> DEFINE it == [s \in Below(n + 1) |-> SumAt(jt, f, s)]
  <2>2. ASSUME NEW s \in Below(n + 1)
        PROVE  it[s] = SumAt(it, f, s)
    <3>1. CASE s = {}
      BY <3>1 DEF SumAt
    <3>2. CASE s # {}
      <4> DEFINE x == CHOOSE x \in s : TRUE
                 t == s \ {x}
      <4>1. x \in s
        BY <3>2
      <4> HIDE DEF x
      <4>2. t \in SUBSET K /\ Cardinality(t) = Cardinality(s) - 1
        BY <1>1, <4>1, FS_RemoveElement
      <4>3. t \in Below(n) /\ t \in Below(n + 1)
        BY <1>1, <4>2
      <4>4. it[t] = jt[t]
        BY <2>1, <4>3
      <4>5. it[s] = f[x] + jt[t]
        BY <3>2 DEF SumAt, x
      <4>6. SumAt(it, f, s) = f[x] + it[t]
        <5> HIDE DEF it
        <5> QED
          BY <3>2 DEF SumAt, x
      <4> QED
        BY <4>4, <4>5, <4>6
    <3> QED
      BY <3>1, <3>2
  <2>3. it = [s \in Below(n + 1) |-> SumAt(it, f, s)]
    <3>1. it = [s \in Below(n + 1) |-> it[s]]
      OBVIOUS
    <3> HIDE DEF it, Below
    <3> QED
      BY <2>2, <3>1
  <2> HIDE DEF it, Below
  <2> QED
    BY <2>3
<1>4. Nat \subseteq G
  <2> HIDE DEF G
  <2> QED
    BY <1>2, <1>3, Induction
<1>5. Cardinality(K) + 1 \in G /\ Cardinality(K) \in Nat
  <2> HIDE DEF G
  <2> QED
    BY <1>1, <1>4
<1>6. Below(Cardinality(K) + 1) = SUBSET K
  BY <1>1, <1>5
<1> QED
  BY <1>5, <1>6

LEMMA SumsUnfold ==
  ASSUME NEW f, IsFiniteSet(DOMAIN f)
  PROVE  \A s \in SUBSET DOMAIN f : Sums(f)[s] = SumAt(Sums(f), f, s)
<1> DEFINE P(it) == it = [s \in SUBSET DOMAIN f |-> SumAt(it, f, s)]
<1>1. \E it : P(it)
  BY SumsExist
<1>2. Sums(f) = CHOOSE it : P(it)
  BY DEF Sums
<1>3. P(Sums(f))
  <2> HIDE DEF P
  <2> QED
    BY <1>1, <1>2, Zenon
<1> HIDE DEF P
<1>4. Sums(f) = [s \in SUBSET DOMAIN f |-> SumAt(Sums(f), f, s)]
  BY <1>3 DEF P
<1> QED
  BY <1>4

(* Disjoint sets are counted one after the other.                        *)
LEMMA DisjointUnion ==
  ASSUME NEW A, IsFiniteSet(A), NEW B, IsFiniteSet(B), A \cap B = {}
  PROVE  Cardinality(A \cup B) = Cardinality(A) + Cardinality(B)
<1>1. Cardinality(A \cup B) = Cardinality(A) + Cardinality(B) - Cardinality(A \cap B)
  BY FS_Union
<1>2. Cardinality(A) \in Nat /\ Cardinality(B) \in Nat /\ Cardinality(A \cap B) = 0
  BY FS_CardinalityType, FS_EmptySet
<1> QED
  BY <1>1, <1>2

(* Adding to every key the number of the elements that have it adds all of *)
(* them to the sum.                                                        *)
LEMMA SumGrows ==
  ASSUME NEW K, IsFiniteSet(K), NEW f \in [K -> Nat], NEW g \in [K -> Nat],
         NEW E, IsFiniteSet(E), NEW key \in [E -> K],
         \A k \in K : g[k] = f[k] + Cardinality({e \in E : key[e] = k})
  PROVE  Sums(f)[K] \in Nat /\ Sums(g)[K] = Sums(f)[K] + Cardinality(E)
<1> DEFINE With(s) == {e \in E : key[e] \in s}
           Grown(s) == Sums(f)[s] \in Nat /\ Sums(g)[s] = Sums(f)[s] + Cardinality(With(s))
           G == {n \in Nat : \A s \in SUBSET K : Cardinality(s) = n => Grown(s)}
<1>1. \A s \in SUBSET K : IsFiniteSet(s) /\ Cardinality(s) \in Nat
  BY FS_Subset, FS_CardinalityType
<1>2. \A D \in SUBSET E : IsFiniteSet(D) /\ Cardinality(D) \in Nat
  BY FS_Subset, FS_CardinalityType
<1>3. DOMAIN f = K /\ DOMAIN g = K
  OBVIOUS
<1>4. \A s \in SUBSET K : Sums(f)[s] = SumAt(Sums(f), f, s) /\ Sums(g)[s] = SumAt(Sums(g), g, s)
  BY <1>3, SumsUnfold
<1>5. 0 \in G
  <2> SUFFICES ASSUME NEW s \in SUBSET K, Cardinality(s) = 0
               PROVE  Grown(s)
    OBVIOUS
  <2>1. s = {}
    BY <1>1, FS_EmptySet
  <2>2. With(s) = {} /\ Cardinality(With(s)) = 0
    BY <2>1, FS_EmptySet
  <2>3. Sums(f)[s] = 0 /\ Sums(g)[s] = 0
    BY <1>4, <2>1 DEF SumAt
  <2> HIDE DEF With
  <2> QED
    BY <2>2, <2>3
<1>6. ASSUME NEW n \in Nat, n \in G
      PROVE  n + 1 \in G
  <2> SUFFICES ASSUME NEW s \in SUBSET K, Cardinality(s) = n + 1
               PROVE  Grown(s)
    OBVIOUS
  <2> DEFINE x == CHOOSE x \in s : TRUE
             t == s \ {x}
             At == {e \in E : key[e] = x}
  <2>1. s # {}
    BY FS_EmptySet
  <2>2. x \in s /\ x \in K
    BY <2>1
  <2>3. Sums(f)[s] = f[x] + Sums(f)[t] /\ Sums(g)[s] = g[x] + Sums(g)[t]
    BY <1>4, <2>1 DEF SumAt
  <2> HIDE DEF x
  <2>4. t \in SUBSET K /\ Cardinality(t) = n
    BY <1>1, <2>2, FS_RemoveElement
  <2>5. Grown(t)
    <3> HIDE DEF Grown, t
    <3> QED
      BY <1>6, <2>4
  <2>6. Cardinality(With(s)) = Cardinality(With(t)) + Cardinality(At)
    <3>1. With(s) = With(t) \cup At /\ With(t) \cap At = {}
      BY <2>2
    <3>2. IsFiniteSet(With(t)) /\ IsFiniteSet(At)
      BY <1>2
    <3> HIDE DEF With, At, t
    <3> QED
      BY <3>1, <3>2, DisjointUnion
  <2>7. g[x] = f[x] + Cardinality(At) /\ f[x] \in Nat
    BY <2>2
  <2>8. Cardinality(With(t)) \in Nat /\ Cardinality(At) \in Nat
    BY <1>2
  <2>9. Sums(f)[t] \in Nat /\ Sums(g)[t] = Sums(f)[t] + Cardinality(With(t))
    BY <2>5
  <2> HIDE DEF With, At, t
  <2> QED
    BY <2>3, <2>6, <2>7, <2>8, <2>9
<1>7. Nat \subseteq G
  <2> HIDE DEF G
  <2> QED
    BY <1>5, <1>6, Induction
<1>8. Grown(K)
  <2>1. K \in SUBSET K /\ Cardinality(K) \in G
    <3> HIDE DEF G
    <3> QED
      BY <1>1, <1>7
  <2> HIDE DEF Grown
  <2> QED
    BY <2>1
<1>9. With(K) = E
  OBVIOUS
<1> HIDE DEF With
<1> QED
  BY <1>8, <1>9

(* The sum of nothing.                                                     *)
LEMMA SumZero ==
  ASSUME NEW K, IsFiniteSet(K), NEW f, f = [k \in K |-> 0]
  PROVE  Sums(f)[K] = 0
<1> DEFINE G == {n \in Nat : \A s \in SUBSET K : Cardinality(s) = n => Sums(f)[s] = 0}
<1>1. \A s \in SUBSET K : IsFiniteSet(s) /\ Cardinality(s) \in Nat
  BY FS_Subset, FS_CardinalityType
<1>2. \A s \in SUBSET K : Sums(f)[s] = SumAt(Sums(f), f, s)
  BY SumsUnfold
<1>3. 0 \in G
  BY <1>1, <1>2, FS_EmptySet DEF SumAt
<1>4. ASSUME NEW n \in Nat, n \in G
      PROVE  n + 1 \in G
  <2> SUFFICES ASSUME NEW s \in SUBSET K, Cardinality(s) = n + 1
               PROVE  Sums(f)[s] = 0
    OBVIOUS
  <2> DEFINE x == CHOOSE x \in s : TRUE
  <2>1. s # {}
    BY FS_EmptySet
  <2>2. x \in s /\ x \in K
    BY <2>1
  <2>3. Sums(f)[s] = f[x] + Sums(f)[s \ {x}]
    BY <1>2, <2>1 DEF SumAt
  <2> HIDE DEF x
  <2>4. s \ {x} \in SUBSET K /\ Cardinality(s \ {x}) = n
    BY <1>1, <2>2, FS_RemoveElement
  <2>5. Sums(f)[s \ {x}] = 0
    BY <1>4, <2>4
  <2> QED
    BY <2>2, <2>3, <2>5
<1>5. Nat \subseteq G
  <2> HIDE DEF G
  <2> QED
    BY <1>3, <1>4, Induction
<1>6. K \in SUBSET K /\ Cardinality(K) \in G
  <2> HIDE DEF G
  <2> QED
    BY <1>1, <1>5
<1> QED
  BY <1>6

(* What is reported is a finite set of errors of known categories.         *)
LEMMA ImageIsFinite ==
  ASSUME NEW S, IsFiniteSet(S), NEW f, DOMAIN f = S
  PROVE  IsFiniteSet({f[x] : x \in S})
<1> DEFINE T == {f[x] : x \in S}
           g == [x \in S |-> f[x]]
<1>1. g \in Surjection(S, T)
  BY DEF Surjection
<1> HIDE DEF g, T
<1>2. IsFiniteSet(T)
  BY <1>1, FS_Surjection
<1> QED
  BY <1>2 DEF T

(* The lines that errors are reported at: one that begins a comment        *)
(* without an end is reported at the next line.                            *)
ErrorLines == 1..NumLines + 1

LEMMA ErrorsAreFinite ==
  ASSUME NEW ls \in SUBSET ErrorLines, NEW category, NEW confidence
  PROVE  IsFiniteSet({Error(l, category, confidence) : l \in ls})
<1>1. IsFiniteSet(ErrorLines)
  BY RunAssumption, FS_Interval DEF ErrorLines
<1>2. IsFiniteSet(ls)
  BY <1>1, FS_Subset
<1> DEFINE f == [l \in ls |-> Error(l, category, confidence)]
<1>3. IsFiniteSet({f[l] : l \in ls})
  <2>1. DOMAIN f = ls
    OBVIOUS
  <2> HIDE DEF f
  <2> QED
    BY <1>2, <2>1, ImageIsFinite
<1>4. {f[l] : l \in ls} = {Error(l, category, confidence) : l \in ls}
  OBVIOUS
<1> QED
  BY <1>3, <1>4

(* The table has finitely many entries, one for each category at least.  *)
LEMMA CountKeysAreFinite ==
  /\ IsFiniteSet(CountKeys)
  /\ \A counting \in {"toplevel", "detailed"} : \A c \in Categories :
       CountKey(counting, c) \in CountKeys
<1>1. IsFiniteSet(Categories)
  <2>1. \A S, x : IsFiniteSet(S) => IsFiniteSet(S \cup {x})
    BY FS_AddElement
  <2>2. Categories = ((((({} \cup {LineLength}) \cup {Newline}) \cup {EmptyLoopBody})
                         \cup {MultilineComment}) \cup {Braces}) \cup {Nolint}
    BY DEF Categories
  <2> QED
    BY <2>1, <2>2, FS_EmptySet
<1> DEFINE Keys(counting) == {CountKey(counting, c) : c \in Categories}
<1>2. \A counting : IsFiniteSet(Keys(counting))
  <2> SUFFICES ASSUME NEW counting
               PROVE  IsFiniteSet(Keys(counting))
    OBVIOUS
  <2> DEFINE f == [c \in Categories |-> CountKey(counting, c)]
  <2>1. DOMAIN f = Categories /\ Keys(counting) = {f[c] : c \in Categories}
    OBVIOUS
  <2> HIDE DEF f, Keys
  <2> QED
    BY <1>1, <2>1, ImageIsFinite
<1>3. CountKeys = Keys("toplevel") \cup Keys("detailed")
  BY DEF CountKeys
<1>4. IsFiniteSet(CountKeys)
  <2> HIDE DEF Keys
  <2> QED
    BY <1>2, <1>3, FS_Union
<1> QED
  BY <1>4 DEF CountKeys

LEMMA PrintedIsFinite ==
  ASSUME NEW ls \in SUBSET Lines, NEW at \in SUBSET ErrorLines, NEW category \in Categories,
         NEW confidence
  PROVE  LET errors == {Error(l, category, confidence) : l \in at}
         IN  /\ IsFiniteSet(Printed(ls, errors))
             /\ \A e \in Printed(ls, errors) : e.category \in Categories
<1> DEFINE errors == {Error(l, category, confidence) : l \in at}
           asking == {k \in ls : comment[k] # NONE /\ comment[k].category = Unknown}
           unknown == {Error(l, Nolint, 5) : l \in asking}
<1>1. Errors(ls, errors) = errors \cup unknown
  BY DEF Errors, Error
<1>2. IsFiniteSet(errors) /\ IsFiniteSet(unknown)
  <2>1. asking \in SUBSET Lines
    OBVIOUS
  <2> HIDE DEF asking
  <2>2. asking \in SUBSET ErrorLines
    BY <2>1, RunAssumption DEF Lines, ErrorLines
  <2> QED
    BY <2>2, ErrorsAreFinite
<1>3. \A e \in errors \cup unknown : e.category \in Categories
  BY DEF Error, Categories
<1>4. Printed(ls, errors) \in SUBSET (errors \cup unknown)
  BY <1>1 DEF Printed
<1> HIDE DEF errors, unknown
<1>5. IsFiniteSet(errors \cup unknown)
  BY <1>2, FS_Union
<1>6. IsFiniteSet(Printed(ls, errors))
  BY <1>4, <1>5, FS_Subset
<1>7. \A e \in Printed(ls, errors) : e.category \in Categories
  BY <1>3, <1>4
<1> QED
  BY <1>6, <1>7 DEF errors

(* The table and the total grow together.                                  *)
LEMMA IncrementAddsUp ==
  ASSUME CountInv, NEW print, IsFiniteSet(print),
         \A e \in print : e.category \in Categories,
         IncrementErrorCount(print), args' = args
  PROVE  /\ error_count' = error_count + Cardinality(print) /\ Cardinality(print) \in Nat
         /\ errors_by_category' \in [CountKeys -> Nat]
         /\ Total' = IF args'.counting = "total" THEN 0 ELSE error_count'
<1> DEFINE f == errors_by_category
           g == errors_by_category'
<1>1. f \in [CountKeys -> Nat] /\ error_count \in Nat
  BY DEF CountInv
<1>2. args.counting \in {"total", "toplevel", "detailed"}
  BY RunAssumption DEF CountInv
<1>3. error_count' = error_count + Cardinality(print) /\ Cardinality(print) \in Nat
  BY FS_CardinalityType DEF IncrementErrorCount
<1>4. TotalIsSum /\ TotalIsSum'
  BY FoldIsSum, PTL
<1>5. CASE args.counting = "total"
  <2>1. g = [k \in CountKeys |-> f[k] + 0]
    BY <1>5 DEF IncrementErrorCount
  <2>2. g = f
    BY <1>1, <2>1
  <2>3. Total' = Total
    BY <1>1, <1>4, <2>2 DEF TotalIsSum
  <2> QED
    BY <1>1, <1>3, <1>5, <2>2, <2>3 DEF CountInv
<1>6. CASE args.counting # "total"
  <2> DEFINE key == [e \in print |-> CountKey(args.counting, e.category)]
  <2>1. key \in [print -> CountKeys]
    BY <1>2, <1>6, CountKeysAreFinite
  <2>2. g = [k \in CountKeys |-> f[k] +
              Cardinality({e \in print : CountKey(args.counting, e.category) = k})]
    BY <1>2, <1>6 DEF IncrementErrorCount
  <2>3. \A k \in CountKeys : /\ g[k] = f[k] + Cardinality({e \in print : key[e] = k})
                             /\ g[k] \in Nat
    <3> SUFFICES ASSUME NEW k \in CountKeys
                 PROVE  /\ g[k] = f[k] + Cardinality({e \in print : key[e] = k})
                        /\ g[k] \in Nat
      OBVIOUS
    <3>1. {e \in print : key[e] = k}
            = {e \in print : CountKey(args.counting, e.category) = k}
      OBVIOUS
    <3>2. {e \in print : key[e] = k} \in SUBSET print
      OBVIOUS
    <3> HIDE DEF key
    <3>3. Cardinality({e \in print : key[e] = k}) \in Nat
      BY <3>2, FS_Subset, FS_CardinalityType
    <3>4. f[k] \in Nat
      BY <1>1
    <3>5. g[k] = f[k] + Cardinality({e \in print : key[e] = k})
      BY <2>2, <3>1
    <3> HIDE DEF f, g
    <3> QED
      BY <3>3, <3>4, <3>5
  <2> HIDE DEF key
  <2>4. g \in [CountKeys -> Nat]
    <3>1. \A k \in CountKeys : g[k] \in Nat
      BY <2>3
    <3>2. DOMAIN g = CountKeys /\ g = [k \in CountKeys |-> g[k]]
      BY <2>2
    <3> QED
      BY <3>1, <3>2
  <2>5. Sums(f)[CountKeys] \in Nat
        /\ Sums(g)[CountKeys] = Sums(f)[CountKeys] + Cardinality(print)
    <3> HIDE DEF f, g
    <3> QED
      BY <1>1, <2>1, <2>3, <2>4, CountKeysAreFinite, SumGrows
  <2>6. Total = Sums(f)[CountKeys] /\ Total' = Sums(g)[CountKeys]
    BY <1>1, <1>4, <2>4 DEF TotalIsSum
  <2>7. Total = error_count
    BY <1>6 DEF CountInv
  <2> QED
    BY <1>3, <1>6, <2>4, <2>5, <2>6, <2>7
<1> QED
  BY <1>3, <1>5, <1>6

LEMMA ReportAddsUp ==
  ASSUME CountInv, args' = args,
         NEW ls \in SUBSET Lines, NEW at \in SUBSET ErrorLines, NEW category \in Categories,
         NEW confidence, Report(ls, {Error(l, category, confidence) : l \in at})
  PROVE  CountInv'
<1> DEFINE errors == {Error(l, category, confidence) : l \in at}
           print == Printed(ls, errors)
<1>1. IncrementErrorCount(print)
  BY ReportIs
<1>2. IsFiniteSet(print) /\ \A e \in print : e.category \in Categories
  BY PrintedIsFinite
<1>3. ASSUME NEW r \in reported', r.printed
      PROVE  print # {}
  <2>0. Report(ls, errors)
    OBVIOUS
  <2> HIDE DEF errors
  <2>1. PICK e \in Errors(ls, errors) :
           r = [error |-> e, printed |-> e \in Printed(ls, errors),
                blind |-> ~({e.line - 1, e.line} \cap Lines \subseteq parsed \cup ls)]
    BY <2>0, ReportIs
  <2>2. e \in print
    BY <1>3, <2>1
  <2> QED
    BY <2>2
<1> HIDE DEF print
<1>4. /\ error_count' = error_count + Cardinality(print) /\ Cardinality(print) \in Nat
      /\ errors_by_category' \in [CountKeys -> Nat]
      /\ Total' = IF args'.counting = "total" THEN 0 ELSE error_count'
  BY <1>1, <1>2, IncrementAddsUp
<1>5. error_count \in Nat /\ args \in CommandLines
  BY DEF CountInv
<1>6. print # {} => Cardinality(print) > 0
  BY <1>2, <1>4, FS_EmptySet
<1>7. error_count' \in Nat /\ (print # {} => error_count' > 0)
  BY <1>4, <1>5, <1>6
<1>8. \A r \in reported' : r.printed => error_count' > 0
  BY <1>3, <1>7
<1> QED
  BY <1>4, <1>5, <1>7, <1>8 DEF CountInv

(* The reports of the checks have the form that ReportAddsUp speaks of.    *)
LEMMA ReportForms ==
  ASSUME NEW l, NEW category, NEW confidence
  PROVE  /\ {Error(k, category, confidence) : k \in {l}} = {Error(l, category, confidence)}
         /\ {Error(k, category, confidence) : k \in {}} = {}
OBVIOUS

(* Every step keeps the sum.                                             *)
LEMMA CountStep ==
  ASSUME NolintInv, CountInv, [Next]_vars
  PROVE  CountInv'
<1>0. /\ {LineLength, Newline, EmptyLoopBody, MultilineComment, Braces} \subseteq Categories
      /\ {} \in SUBSET Lines /\ SUBSET Lines \subseteq SUBSET ErrorLines
  BY RunAssumption DEF Categories, Lines, ErrorLines
<1>1. ASSUME UNCHANGED <<args, counts>>, reported' \subseteq reported
      PROVE  CountInv'
  <2>1. UNCHANGED <<args, error_count, errors_by_category>>
    BY <1>1 DEF counts
  <2>2. TotalIsSum /\ TotalIsSum'
    BY FoldIsSum, PTL
  <2> QED
    BY <1>1, <2>1, <2>2 DEF CountInv, TotalIsSum
<1>2. CASE NextFile
  BY <1>1, <1>2 DEF NextFile, data
<1>3. CASE ProcessConfigOverrides
  BY <1>1, <1>3
     DEF ProcessConfigOverrides, LookUp, OpenConfig, OpenConfigFails, SetNoparent, Filter,
         ExcludeFiles, ExcludeOthers, SetLineLength, ProcessExtensionsOption,
         ProcessHppHeadersOption, ConfigEnds, AddFilters, AddFiltersFails, data
<1>4. CASE SkipFile \/ Exit
  BY <1>1, <1>4 DEF SkipFile, Exit, data
<1>5. CASE ProcessFileData \/ FileDone
  BY <1>1, <1>5 DEF ProcessFileData, FileDone
<1>6. CASE RemoveMultiLineComments
  <2>1. PICK ls \in {{}} \cup {{l} : l \in Lines} :
           Report({}, {Error(l + 1, MultilineComment, 5) : l \in ls})
    BY <1>6 DEF RemoveMultiLineComments
  <2>2. args' = args
    BY <1>6 DEF RemoveMultiLineComments, lineVars
  <2> DEFINE at == {l + 1 : l \in ls}
  <2>3. at \in SUBSET ErrorLines
    BY RunAssumption DEF Lines, ErrorLines
  <2>4. {Error(l + 1, MultilineComment, 5) : l \in ls} =
          {Error(k, MultilineComment, 5) : k \in at}
    OBVIOUS
  <2>5. Report({}, {Error(k, MultilineComment, 5) : k \in at})
    BY <2>1, <2>4
  <2> HIDE DEF at
  <2> QED
    BY <1>0, <2>2, <2>3, <2>5, ReportAddsUp
<1>7. CASE ProcessLine
  <2>1. PICK width \in Widths :
           Report({line + 1}, {Error(l, LineLength, 2) :
                                 l \in IF width > line_length THEN {line + 1} ELSE {}})
    BY <1>7 DEF ProcessLine
  <2>2. line + 1 \in Lines /\ args' = args
    BY <1>7, RunAssumption DEF ProcessLine, lineVars, NolintInv, Lines
  <2> DEFINE at == IF width > line_length THEN {line + 1} ELSE {}
  <2>3. {line + 1} \in SUBSET Lines /\ at \in SUBSET Lines
    BY <2>2
  <2>4. Report({line + 1}, {Error(l, LineLength, 2) : l \in at})
    BY <2>1
  <2> HIDE DEF at
  <2> QED
    BY <1>0, <2>2, <2>3, <2>4, ReportAddsUp
<1>8. CASE CheckTrailingSemicolon
  <2>1. args' = args
    BY <1>8 DEF CheckTrailingSemicolon, lineVars
  <2>2. ASSUME NEW l \in line..NumLines, Report({l - 1, l} \cap Lines, {Error(l, Braces, 4)})
        PROVE  CountInv'
    <3>1. {l} \in SUBSET Lines /\ {l - 1, l} \cap Lines \in SUBSET Lines
      <4>1. line \in Lines
        BY <1>8 DEF CheckTrailingSemicolon, NolintInv
      <4> QED
        BY <4>1, RunAssumption DEF Lines
    <3> DEFINE at == {l}
    <3>2. Report({l - 1, l} \cap Lines, {Error(k, Braces, 4) : k \in at})
      BY <2>2, ReportForms
    <3>3. at \in SUBSET Lines
      BY <3>1
    <3> HIDE DEF at
    <3> QED
      BY <1>0, <2>1, <3>1, <3>2, <3>3, ReportAddsUp
  <2>3. ASSUME Report({}, {})
        PROVE  CountInv'
    <3>1. Report({}, {Error(k, Braces, 4) : k \in {}})
      BY <2>3, ReportForms
    <3> QED
      BY <1>0, <2>1, <3>1, ReportAddsUp
  <2> QED
    BY <1>8, <2>2, <2>3 DEF CheckTrailingSemicolon
<1>9. CASE CheckEmptyBlockBody
  <2>1. args' = args
    BY <1>9 DEF CheckEmptyBlockBody, lineVars
  <2>2. ASSUME NEW l \in line..NumLines, Report({}, {Error(l, EmptyLoopBody, 5)})
        PROVE  CountInv'
    <3>1. {l} \in SUBSET Lines /\ {} \in SUBSET Lines
      <4>1. line \in Lines
        BY <1>9 DEF CheckEmptyBlockBody, NolintInv
      <4> QED
        BY <4>1, RunAssumption DEF Lines
    <3> DEFINE at == {l}
    <3>2. Report({}, {Error(k, EmptyLoopBody, 5) : k \in at})
      BY <2>2, ReportForms
    <3>3. at \in SUBSET Lines
      BY <3>1
    <3> HIDE DEF at
    <3> QED
      BY <1>0, <2>1, <3>1, <3>2, <3>3, ReportAddsUp
  <2>3. ASSUME Report({}, {})
        PROVE  CountInv'
    <3>1. Report({}, {Error(k, EmptyLoopBody, 5) : k \in {}})
      BY <2>3, ReportForms
    <3> QED
      BY <1>0, <2>1, <3>1, ReportAddsUp
  <2> QED
    BY <1>9, <2>2, <2>3 DEF CheckEmptyBlockBody
<1>10. CASE CheckNewlines
  <2>1. PICK crlf_lines \in SUBSET Lines :
           Report({}, {Error(l, Newline, 1) : l \in crlf_lines})
    BY <1>10 DEF CheckNewlines
  <2>2. args' = args
    BY <1>10 DEF CheckNewlines, lineVars
  <2> QED
    BY <1>0, <2>1, <2>2, ReportAddsUp
<1>11. CASE UNCHANGED vars
  BY <1>1, <1>11 DEF vars, data
<1> QED
  BY <1>2, <1>3, <1>4, <1>5, <1>6, <1>7, <1>8, <1>9, <1>10, <1>11 DEF Next, CheckFile

LEMMA CountInit ==
  ASSUME Init
  PROVE  CountInv
<1>1. errors_by_category = [k \in CountKeys |-> 0] /\ error_count = 0 /\ reported = {}
      /\ args \in CommandLines
  BY DEF Init
<1>2. errors_by_category \in [CountKeys -> Nat]
  BY <1>1
<1>3. Total = 0
  BY <1>1, <1>2, CountKeysAreFinite, SumZero, FoldIsSum DEF TotalIsSum
<1> QED
  BY <1>1, <1>2, <1>3 DEF CountInv

(* The table of the errors by category is kept for the styles that ask for *)
(* it, its sum is the number of errors, and a run that has printed an      *)
(* error does not exit with 0 (IncrementErrorCount, main).                 *)
THEOREM SummaryAddsUp == Spec => []CountsAddUp
<1>1. Spec => [](NolintInv /\ CountInv)
  BY NolintInit, NolintStep, CountInit, CountStep, PTL DEF Spec
<1>2. CountInv => CountsAddUp
  BY DEF CountInv, CountsAddUp, Total, ExitCode
<1> QED
  BY <1>1, <1>2, PTL

=============================================================================
