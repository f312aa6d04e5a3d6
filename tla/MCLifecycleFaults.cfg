\* Two requests for one dataset; a handler or a lookup may be cut short once.
CONSTANTS
  r1 = r1
  r2 = r2
  d1 = d1
  d2 = d2
  Request = {r1, r2}
  Dataset = {d1}
  Worker = {w1, w2}
  Finder = {f1}
  DatasetOf <- SameDataset
  FileList = {}
  FileCounts = {0, 1}
  None = None
  MaxFaults = 1
SYMMETRY SymmetryOfAll
SPECIFICATION Spec
CHECK_DEADLOCK FALSE
INVARIANTS
  TypeOK
  PublishedCompletesByCount
  FilesWithinSent
  TasksConserved
PROPERTIES
  NeverWaitsAgain
  TransformersServeToTheEnd
