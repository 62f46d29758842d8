SPECIFICATION FairSpec
CONSTANTS
  r1 = r1
  r2 = r2
  f1 = f1
  rtp = rtp
  frame = frame
  Outputs <- MCOutputs
  Types <- MCTypes
  Type <- MCType
  Reviving <- MCReviving
  Websocket <- MCWebsocket
  mOutputEmptyAutoFinish = TRUE
CHECK_DEADLOCK FALSE
INVARIANTS
  TypeOK
  EmptyAfterFinish
  NobodyMissed
  AutoFinished
PROPERTIES
  OutputsEnd
