CONSTANTS
  Messages = {m1, m2, m3}
  None = None
  Capacity = 2
  Limit <- CrashOnly
SPECIFICATION Spec
PROPERTIES ImplementsOutbox
