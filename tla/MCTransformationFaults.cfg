\* The same with one worker, a fault of the pod and a fault of the App.
CONSTANTS
  File = {f1, f2}
  Replicas = 2
  NoFile = NoFile
  MaxStops = 1
  MaxFaults = 1
  Worker = {w1}
  AppFaults = 1
SYMMETRY Symmetry
SPECIFICATION WholeSpec
CHECK_DEADLOCK FALSE
INVARIANTS
  TypeOK
  AnswersItsRequest
  EveryTaskAccounted
  ReportsBounded
  MissingNeedFaults
