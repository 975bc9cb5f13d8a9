CONSTANTS
  Number <- MCNumber
  FlagNames <- MCFlagNames
  Files <- MCFiles
  Libraries <- MCLibraries
  Limit <- MCLimit
  UseTrace = FALSE
  Forever = 36
  ArgLists <- MCArgLists
  Insts <- MCInsts
  COMMIT_WIDTH = 2
  CAPACITY = 2
  RING = 2
  STUCK_LIMIT = 2
  MaxFetch = 3
SPECIFICATION MCSpec
INVARIANTS FailureEndsRun AlarmIsReal TraceIsWindow BooksAgree FormsAgree TraceNames PatternsAgree UnitUnderstands ShownIsExecuted
PROPERTY Terminates
CHECK_DEADLOCK FALSE
