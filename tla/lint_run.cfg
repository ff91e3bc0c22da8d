\* two directories, one in the other, and two files
CONSTANTS
  top = top
  sub = sub
  a = a
  b = b
  NONE = NONE
  Dirs = {top, sub}
  Parent <- MCParent
  FileNames = {a, b}
  Place <- MCPlace
  Extension <- MCExtension
  Configs <- MCConfigs
  CommandLines <- MCCommandLines
  NumLines = 2
  Comments <- MCComments
  Widths = {1, 2}
  MaxErrors = 2
SPECIFICATION Spec
INVARIANTS
  FiltersScoped
  NolintExact
  CountsAddUp
\* the run ends
CHECK_DEADLOCK FALSE
