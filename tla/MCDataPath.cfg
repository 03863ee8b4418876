SPECIFICATION Spec
CONSTANTS
  DICTIONARY_SIZE = 3
  DATA_STACK_SIZE = 2
  RETURN_STACK_SIZE = 2
  SYSTEM_VARS_SIZE = 2
  WORD_BUFFER_SIZE = 1
  Value = {0, 1}
  ClientAddrs <- MCClientAddrs
INVARIANT TypeOK
PROPERTY ImplementsLifo
