SPECIFICATION FairSpec
CONSTANTS
  g = g  s = s  h = h
  Req <- MCReq
  endpoint <- MCEndpoint
  max_new_tokens <- MCTokens
INVARIANTS TypeOK OnlyOverwritesLose TablesEmptied
PROPERTIES EveryGeneratorReturns KeepsContract
CHECK_DEADLOCK FALSE
