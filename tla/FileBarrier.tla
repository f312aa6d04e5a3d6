----------------------------- MODULE FileBarrier -----------------------------
(***************************************************************************)
(* What ServiceX promises about the end of a transformation request: every *)
(* file of the request is counted once, only then is the request declared  *)
(* complete, and only a complete request has its transformers terminated.  *)
(* FileCompletion shows how the handlers of the App implement it.          *)
(***************************************************************************)
CONSTANT File          \* the files of one request

VARIABLES reported,    \* the files some report has been counted for
          finished,    \* the request's status is complete
          released     \* its transformers have been terminated

barrierVars == <<reported, finished, released>>

BarrierInit ==
  /\ reported = {}
  /\ finished = FALSE
  /\ released = FALSE

Count(f) ==
  /\ f \notin reported
  /\ reported' = reported \cup {f}
  /\ UNCHANGED <<finished, released>>

Finish ==
  /\ reported = File
  /\ finished' = TRUE
  /\ UNCHANGED <<reported, released>>

Release ==
  /\ finished
  /\ released' = TRUE
  /\ UNCHANGED <<reported, finished>>

BarrierNext ==
  \/ \E f \in File : Count(f)
  \/ Finish
  \/ Release

BarrierSafety == BarrierInit /\ [][BarrierNext]_barrierVars

BarrierSpec ==
  /\ BarrierSafety
  /\ \A f \in File : WF_barrierVars(Count(f))
  /\ WF_barrierVars(Finish)
  /\ WF_barrierVars(Release)
=============================================================================
