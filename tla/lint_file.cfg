\* texts of up to 4 or 5 lines over nine alphabets
CONSTANTS
  Headers <- MCHeaders
  Written <- MCWritten
  HeaderInfo <- MCHeaderInfo
  FileInfo <- MCFileInfo
  Alphabets <- MCAlphabets
  Trigger = 1
  Requires <- MCRequires
  OwnHeaders <- MCOwnHeaders
SPECIFICATION Spec
INVARIANTS
  MisreadWarned
  BracketsMatch
  NestingExact
  DuplicatesExact
  IncludeOrderExact
  AlphabetExact
  FunctionLengthExact
  EmptyIfExact
  MissingHeadersTrue
\* a checked file
CHECK_DEADLOCK FALSE
