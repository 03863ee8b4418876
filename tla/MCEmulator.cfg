SPECIFICATION FairSpec
CONSTANTS
  DICTIONARY_SIZE = 2
  DATA_STACK_SIZE = 2
  RETURN_STACK_SIZE = 2
  SYSTEM_VARS_SIZE = 2
  WORD_BUFFER_SIZE = 0
  Registers <- MCRegisters
  Code <- MCCode
  NoProgram = "none"
  Feeds <- MCFeeds
  Seeds <- MCSeeds
  Budgets = {0, 2, 7}
  MaxCalls = 5
INVARIANT TypeOK
PROPERTIES
  LiveValuesStay
  RefusalsLeaveNoTrace
  RunEnds
  ResumeIsSeamless
  RunsReturn
\* the host makes no more than MaxCalls calls
CHECK_DEADLOCK FALSE
