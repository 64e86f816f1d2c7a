CONSTANTS
  Tasks = {t1}
  Points = 2
  Capacity = 2
  BatchSize = 2
  TickUploads = 2
  Faults = 1
SPECIFICATION SafeSpec
INVARIANT RetryReusesKey
