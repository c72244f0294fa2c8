CONSTANTS
  Keys <- MCKeys
  Hash <- MCHash
  Main = m
  Coroutines = {c1, c2}
  BASIC_CI_SIZE = 2
  LUAI_MAXCALLS = 4
  LUAI_MAXCCALLS = 3
  CCallsReserve = 2
  MaxOpen = 1
  MaxFrames = 4
  LUA_MAXCAPTURES = 2
  Patterns <- MCPatterns
  RawPatterns <- MCRawPatterns
  Subjects <- MCSubjects
  Replacements <- MCReplacements
  SortCases <- MCSortCases
  MaxSort = 60
  Reserved <- MCReserved
  LexCases <- MCLexCases
  LUAL_BUFFERSIZE = 3
  LIMIT = 3
  MaxAdded = 14
  FileTexts <- MCFileTexts
  BrokenTexts <- MCBrokenTexts
  Formats <- MCFormats
  Modules = {m1, m2}
  MaxFalse = 2
  LFIELDS_PER_FLUSH = 2
  MAXARG_C = 1
  MAXINDEXRK = 2
  StackSize = 30
  MaxNesting = 2
  MaxSteps = 7
  Programs <- MCPrograms
SPECIFICATION Spec
SYMMETRY MCSymmetry
INVARIANTS
  TableIsMap
  TraversalMeetsAll
  BoundaryFound
  CCallsExact
  StacksInStep
  NotReentered
  LexesRight
  BuffersRight
  RequireRight
PROPERTIES
  PatternsRight
  ArraysRight
  CompiledRight
  CodeSound
  ChunksRight
CHECK_DEADLOCK FALSE
