\* Two tasks of two replicas, a pod scaled down and replaced, two workers, no faults.
CONSTANTS
  File = {f1, f2}
  Replicas = 2
  NoFile = NoFile
  MaxStops = 1
  MaxFaults = 0
  Worker = {w1, w2}
  AppFaults = 0
SPECIFICATION WholeFairSpec
CHECK_DEADLOCK FALSE
INVARIANTS
  CompleteMeansAllResults
  ShutdownFindsNothingToDo
PROPERTIES
  ImplementsTaskReport
  ImplementsCompletion
  RequestEnds
