CONSTANTS
  Messages = 3
  Capacity = 2
  Kept = 1
  BatchSize = 1
  WindowSize = 1
  Limit <- EachOnce
SPECIFICATION Spec
INVARIANTS TypeOK NoLoss DrainedOnceInOrder
PROPERTY Drains
CHECK_DEADLOCK FALSE
