\* the argument files selects some of the files of the database
CONSTANTS
  Workers = {w1, w2}
  NumFiles = 2
  Kinds = {"clean", "unmatched"}
SPECIFICATION FairSpec
PROPERTIES
  RunEndsFiltered
CHECK_DEADLOCK FALSE
