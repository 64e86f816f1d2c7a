CONSTANT Workers = {n1}
CONSTANT n1 = n1
CONSTANT Limit = 3
CONSTANT Races = 1
SPECIFICATION Spec
INVARIANTS TypeOK NeverWedged ConnectedMeansConnected NothingLeftBehind OffMeansOff
PROPERTY Recovers
CHECK_DEADLOCK FALSE
