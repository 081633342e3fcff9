CONSTANTS
  Lens <- MCLens
  Times <- MCTimes
  Directions <- MCDirections
  MaxSerial = 6
  CounterMod = 8
  QUEUE_CHUNK = 3
SPECIFICATION Spec
INVARIANTS RoomForAll
