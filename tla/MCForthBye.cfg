SPECIFICATION Spec
CONSTANTS
  DICTIONARY_SIZE = 3
  DATA_STACK_SIZE = 3
  RETURN_STACK_SIZE = 1
  SYSTEM_VARS_SIZE = 2
  WORD_BUFFER_SIZE = 1
  Definitions <- MCDefinitions
  Literals <- MCLiterals
  CallNames <- MCCallNames
  Starts <- MCStarts
  MaxCalls = 2
  MaxDepth = 3
  Width = 5
  LabelOf <- MCLabelOf
PROPERTY ByeStops
\* the host makes a bounded number of calls
CHECK_DEADLOCK FALSE
