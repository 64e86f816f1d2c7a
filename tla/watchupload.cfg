CONSTANTS
  Tasks = {t1, t2}
  Points = 3
  Capacity = 2
  BatchSize = 2
  TickUploads = 2
  Faults = 1
SPECIFICATION Spec
INVARIANTS TypeOK KeepsPoints AckedLeaves QueueIsSuffix
PROPERTIES RecordedInOrder Drains FlagClears
