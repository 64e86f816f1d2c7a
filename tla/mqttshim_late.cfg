CONSTANTS
  Messages = 2
  Capacity = 2
  Kept = 1
  BatchSize = 1
  WindowSize = 1
  Limit <- DownOnce
SPECIFICATION Spec
PROPERTY DrainsEverything
CHECK_DEADLOCK FALSE
