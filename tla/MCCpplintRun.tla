---------------------------- MODULE MCCpplintRun ----------------------------
(* Instances of CpplintRun for TLC. *)
EXTENDS CpplintRun, TLC

CONSTANTS top, sub, a, b

MCParent == (sub :> top) @@ (top :> NONE)
MCPlace == (a :> sub) @@ (b :> top)
MCExtension == (a :> "cc") @@ (b :> "h")

FilterOption(sign, categories) ==
  [name |-> "filter", val |-> <<[sign |-> sign, categories |-> categories]>>]

(* Configurations that disagree with each other on each option.            *)
MCConfigs == {
  <<FilterOption("-", Categories), [name |-> "linelength", val |-> 1]>>,
  <<FilterOption("+", {Braces}), FilterOption("-", {Newline}),
    [name |-> "set noparent", val |-> NONE]>>,
  <<[name |-> "linelength", val |-> 2], FilterOption("+", {LineLength}),
    [name |-> "exclude_files", val |-> {a}]>>,
  <<FilterOption("", {Braces}), FilterOption("-", {Braces})>>,
  <<[name |-> "extensions", val |-> {"cc"}], [name |-> "headers", val |-> {"cc"}]>> }

CommandLine(names) ==
  [verbose |-> 1, counting |-> "detailed", filters |-> <<>>, line_length |-> 1,
   extensions |-> {}, headers |-> {}, filenames |-> names]

MCCommandLines == {
  CommandLine(<<a, b>>),
  [CommandLine(<<b, a>>) EXCEPT !.counting = "toplevel", !.verbose = 2],
  [CommandLine(<<b, b>>) EXCEPT !.counting = "total",
     !.filters = <<[sign |-> "-", categories |-> {Newline}]>>]}

MCComments == {
  [category |-> All, nextline |-> TRUE],
  [category |-> Braces, nextline |-> FALSE],
  [category |-> Unknown, nextline |-> FALSE]}

=============================================================================
