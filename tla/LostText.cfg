SPECIFICATION Spec
CONSTANTS
  g = g  s = s  h = h
  Req <- MCReq
  endpoint <- MCEndpoint
  max_new_tokens <- MCTokens
INVARIANTS AnswerComplete
CHECK_DEADLOCK FALSE
