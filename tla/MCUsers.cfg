CONSTANTS
  Commands = {1, 2, 3, 5}
  Interrupts = TRUE
  MaxUpdates = 5
  MaxStops = 1
  Headers <- MCHeaders
  Lower <- MCLower
  Users <- MCReaders
  Messages <- MCMessages
  ThingOf <- MCThingOf
  MaxEvents = 2
  User = "u1"
  MaxEventsOfOne = 4
SPECIFICATION UsersSpec
INVARIANTS UsersInvariant CommandsCounted
PROPERTIES ButtonsAct LinkLeadsToRequest NoneWaits
CHECK_DEADLOCK FALSE
