SPECIFICATION FairSpec
CONSTANTS
  c1 = c1
  c2 = c2
  c3 = c3
  k1 = k1
  None = None
  Calls <- MCCalls
  Tokens <- MCTokens
  Token <- MCToken
CHECK_DEADLOCK FALSE
INVARIANTS
  TypeOK
  OneRemover
  Remembered
PROPERTIES
  EveryPullGoesOn
