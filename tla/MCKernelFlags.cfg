SPECIFICATION KernelSpec
CONSTANTS
  DICTIONARY_SIZE = 390
  DATA_STACK_SIZE = 4
  RETURN_STACK_SIZE = 2
  SYSTEM_VARS_SIZE = 2
  WORD_BUFFER_SIZE = 5
  Registers <- MCRegisters
  Code <- MCCode
  NoProgram = "none"
  Feeds = {}
  Seeds = {}
  Budgets = {}
  MaxCalls = 1
  IntOf <- MCIntOf
  BadTokens = {"-", "#"}
  ColonWords <- MCColonWords
  Boots <- FlagBoots
  Inputs <- NoInput
  MaxSteps = 350
  Width = 4
PROPERTY FlagsAreOneOrZero
\* the host makes one run() call
CHECK_DEADLOCK FALSE
