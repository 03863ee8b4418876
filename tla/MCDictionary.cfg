SPECIFICATION Spec
CONSTANTS
  DICTIONARY_SIZE = 15
  DATA_STACK_SIZE = 1
  RETURN_STACK_SIZE = 4
  SYSTEM_VARS_SIZE = 2
  WORD_BUFFER_SIZE = 3
  Entries <- MCEntries
  SearchNames <- MCNames
  Scalars = {9}
INVARIANTS TypeOK ChainIsWhole
PROPERTY ImplementsWordList
\* the model ends where a value is lost
CHECK_DEADLOCK FALSE
