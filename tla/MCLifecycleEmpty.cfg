\* One worker, so no race: a pending request of an empty dataset.
CONSTANTS
  r1 = r1
  r2 = r2
  d1 = d1
  d2 = d2
  Request = {r1, r2}
  Dataset = {d1}
  Worker = {w1}
  Finder = {f1}
  DatasetOf <- SameDataset
  FileList = {}
  FileCounts = {0}
  None = None
  MaxFaults = 0
SYMMETRY SymmetryOfAll
SPECIFICATION Spec
CHECK_DEADLOCK FALSE
INVARIANTS
  EmptyDatasetLeavesNoTransformers
