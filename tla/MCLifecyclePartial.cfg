\* One worker, one request: a dataset that comes in two calls.
CONSTANTS
  r1 = r1
  r2 = r2
  d1 = d1
  d2 = d2
  Request = {r1}
  Dataset = {d1}
  Worker = {w1}
  Finder = {f1}
  DatasetOf <- SameDataset
  FileList = {}
  FileCounts = {2}
  None = None
  MaxFaults = 0

SPECIFICATION Spec
CHECK_DEADLOCK FALSE
INVARIANTS
  CompleteMeansFinalFile
