CONSTANTS
  Request = {r1}
  InStore = {r1}
  Ender = {e1, e2}
  MinReplicas = 1
  CheckImage = TRUE
  Workers <- AskedFor
  MaxFiles = 1
  MaxFaults = 1
  Bucket = {r1, b1}
  Object = {o1}
  MaxAge = 0
  MaxSize = 1
  NormSize = 0
  MaxDay = 1
  MaxErrors = 1
SPECIFICATION Spec
SYMMETRY Symmetry
CHECK_DEADLOCK FALSE
INVARIANT TypeOK
INVARIANT AcceptedAreServed
INVARIANT LeftoversBounded
INVARIANT TransformersHadBuckets
INVARIANT UnsavedLeaveNothingRunning
INVARIANT ReportedAreGone
INVARIANT StorageBounded
PROPERTY YoungBucketsSurvive
