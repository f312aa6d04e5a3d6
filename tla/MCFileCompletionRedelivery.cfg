\* One file whose task is delivered twice, and two workers.
CONSTANTS
  File = {f1}
  Worker = {w1, w2}
  NoFile = NoFile
  MaxFaults = 1
SPECIFICATION RedeliverySpec
CHECK_DEADLOCK FALSE
INVARIANTS
  FinalFileTerminates
