SPECIFICATION BuilderSpec
CONSTANTS
  DICTIONARY_SIZE = 54
  DATA_STACK_SIZE = 1
  RETURN_STACK_SIZE = 1
  SYSTEM_VARS_SIZE = 2
  WORD_BUFFER_SIZE = 3
  Entries <- MCEntries
  SearchNames = {}
  Scalars = {8}
  CodeWords <- MCCodeWords
  EnterIndex = 3
  ColonLists <- MCColonLists
  BootThreads <- MCBootThreads
  MaxCalls = 3
INVARIANTS ImagesStand ThreadsClosed
PROPERTIES BuildOutcome FindAgrees
\* the host makes a bounded number of calls
CHECK_DEADLOCK FALSE
