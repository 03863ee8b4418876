SPECIFICATION Spec
CONSTANTS
  DICTIONARY_SIZE = 390
  DATA_STACK_SIZE = 4
  RETURN_STACK_SIZE = 2
  SYSTEM_VARS_SIZE = 2
  WORD_BUFFER_SIZE = 5
  IntOf <- KernelInts
  BadTokens <- MCBadTokens
  BadMnemonics <- MCBadMnemonics
  Unreadable <- MCUnreadable
  Sources <- MCSources
  RegisterNames <- MCRegisterNames
  RegisterValues <- MCRegisterValues
INVARIANTS
  TypeOK
  TwoPassesAgree
  EmitsNoMalformed
  BranchesLand
  ResultIsProgram
  EveryWordCounts
  PseudoOpsReplace
\* the call ends
CHECK_DEADLOCK FALSE
