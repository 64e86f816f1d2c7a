CONSTANTS
  Messages = {m1, m2}
  None = None
  Capacity = 1
  Limit <- EachOnce
SPECIFICATION Spec
INVARIANTS TypeOK NoUnansweredLoss AnsweredInOrder RequestsBounded NeverWedged
PROPERTIES AnsweredNotResent Drains
