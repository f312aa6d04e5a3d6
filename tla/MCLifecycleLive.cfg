\* A request for a DID and one for a file list, under fairness.
CONSTANTS
  r1 = r1
  r2 = r2
  d1 = d1
  d2 = d2
  Request = {r1, r2}
  Dataset = {d1, d2}
  Worker = {w1, w2}
  Finder = {f1}
  DatasetOf <- OwnDatasets
  FileList = {d2}
  FileCounts = {0, 1}
  None = None
  MaxFaults = 0

SPECIFICATION FairSpec
CHECK_DEADLOCK FALSE
INVARIANTS
  WaitersHaveLookup
PROPERTIES
  PublishedRequestsFinish
  CallsAreAnswered
