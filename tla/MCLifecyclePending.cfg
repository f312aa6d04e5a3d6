\* A request that came in during the lookup may be left pending.
CONSTANTS
  r1 = r1
  r2 = r2
  d1 = d1
  d2 = d2
  Request = {r1, r2}
  Dataset = {d1}
  Worker = {w1, w2}
  Finder = {f1}
  DatasetOf <- SameDataset
  FileList = {}
  FileCounts = {1}
  None = None
  MaxFaults = 0
SYMMETRY SymmetryOfAll
SPECIFICATION Spec
CHECK_DEADLOCK FALSE
INVARIANTS
  NobodyStaysPending
