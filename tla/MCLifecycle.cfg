CONSTANTS
  Conns = {c1, c2}
  Choices <- MCChoices
  NoFile = NoFile
SPECIFICATION Spec
INVARIANTS TypeOK SocketStays FileLeftByAbort ReleasedByClose NestedClosed WaitingThreadSafe
PROPERTIES ThreadEnds
CHECK_DEADLOCK FALSE
