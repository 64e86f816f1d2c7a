CONSTANT Workers = {n1}
CONSTANT n1 = n1
CONSTANT Limit = 1
CONSTANT Races = 0
SPECIFICATION SafeSpec
PROPERTY ForcedConnectIsClean
CHECK_DEADLOCK FALSE
