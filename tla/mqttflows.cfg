CONSTANTS
  Messages = 2
  Streams = {s1}
  WindowSize = 1
  Limit = 2
SPECIFICATION Spec
INVARIANTS TypeOK InFlightBounded AliasKnown
PROPERTIES ImplementsAtLeastOnce Delivers
CHECK_DEADLOCK FALSE
