CONSTANTS
  Messages = {m1, m2}
  Streams = {s1, s2}
  Context = Context
  None = None
  Width = 4
  Limit <- EachOnce
SPECIFICATION Spec
INVARIANTS TypeOK AckedKept ResetForgets
PROPERTIES WaitEnds
CHECK_DEADLOCK FALSE
