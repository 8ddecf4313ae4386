CONSTANTS
  Preload = 2
  MaxUpdates = 4
SPECIFICATION QueueSpec
INVARIANTS
  TypeOK
  HandledInOrder
PROPERTIES
  BothReturn
  KeepsStream
CHECK_DEADLOCK FALSE
