\* Two reports, two workers, and up to two faults.
CONSTANTS
  File = {f1, f2}
  Worker = {w1, w2}
  NoFile = NoFile
  MaxFaults = 2
SYMMETRY Symmetry
SPECIFICATION FaultySpec
CHECK_DEADLOCK FALSE
INVARIANTS
  TypeOK
  Accounting
  FinishedAfterAllCounted
  ExtraCountsNeedFaults
