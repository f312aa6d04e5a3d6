\* Three reports race through three workers; no faults.
CONSTANTS
  File = {f1, f2, f3}
  Worker = {w1, w2, w3}
  NoFile = NoFile
  MaxFaults = 0
SPECIFICATION Spec
CHECK_DEADLOCK FALSE
INVARIANTS
  LastReportFinishes
PROPERTIES
  ImplementsFairBarrier
