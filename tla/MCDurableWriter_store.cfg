SPECIFICATION Spec
CONSTANTS
  e1 = e1
  e2 = e2
  e3 = e3
  Events = {e1, e2, e3}
  Stride = 2
  Absent = Absent
  Corrupt = Corrupt
  Capacities = {1, 2}
  CheckpointEvery = 2
  MaxFrame = 2
  MaxRecords = 3
  MaxSegments = 2
SYMMETRY Symmetry
INVARIANTS
  PublishedIsDurable
  MemoryIsTheWal
  ResumeIsExact
PROPERTIES
  ImplementsLog
