SPECIFICATION FairSpec
CONSTANTS
  Discards = {TRUE, FALSE}
  mPacketBufferMaxCount = 1
  Limit = 3
  PoolSize = 2
  Packets = 6
  Ignorable <- MCIgnorable
CHECK_DEADLOCK FALSE
INVARIANTS
  TypeOK
  OneOwner
  InOrder
PROPERTIES
  EachIsTaken
