\* make check-format: the directories src and test
CONSTANTS
  NumDirs = 2
  Names = {f1, f2}
  Kinds = {"clean", "dirty", "excluded", "broken"}
SPECIFICATION Spec
INVARIANTS
  DirtyReported
CHECK_DEADLOCK FALSE
