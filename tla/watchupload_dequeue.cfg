CONSTANTS
  Tasks = {t1, t2}
  Points = 4
  Capacity = 4
  BatchSize = 2
  TickUploads = 2
  Faults = 0
SPECIFICATION SafeSpec
PROPERTY DequeuesWhatWasSent
