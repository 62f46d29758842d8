SPECIFICATION FairSpec
CONSTANTS
  Servers = {s1, s2}
  None = None
  u1 = u1
  u2 = u2
  tok = tok
  name1 = name1
  Keys <- MCKeys
  Urls <- MCUrls
  Token <- MCToken
  Name <- MCName
  MaxKills = 2
CHECK_DEADLOCK FALSE
INVARIANTS
  TypeOK
  ManagersAgree
  FinishedIsUnlisted
PROPERTIES
  ImplementsDirectory
  FinishReturns
