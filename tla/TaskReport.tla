----------------------------- MODULE TaskReport -----------------------------
(***************************************************************************)
(* What a transformer promises the App: every task it takes is reported    *)
(* once, and as a success only when its result is where the client will    *)
(* look for it.  Sidecar shows how its three processes implement it.       *)
(***************************************************************************)
EXTENDS Naturals

CONSTANT File          \* the files of one request, one task each

VARIABLES available,   \* the files whose result is in the bucket or the volume
          succeeded,   \* how often each file was reported as a success
          failed       \* how often each file was reported as a failure

reportVars == <<available, succeeded, failed>>

ReportInit ==
  /\ available = {}
  /\ succeeded = [f \in File |-> 0]
  /\ failed = [f \in File |-> 0]

Unreported(f) == succeeded[f] = 0 /\ failed[f] = 0

Produce(f) ==
  /\ f \notin available
  /\ available' = available \cup {f}
  /\ UNCHANGED <<succeeded, failed>>

Succeed(f) ==
  /\ f \in available
  /\ Unreported(f)
  /\ succeeded' = [succeeded EXCEPT ![f] = 1]
  /\ UNCHANGED <<available, failed>>

Fail(f) ==
  /\ Unreported(f)
  /\ failed' = [failed EXCEPT ![f] = 1]
  /\ UNCHANGED <<available, succeeded>>

ReportNext == \E f \in File : Produce(f) \/ Succeed(f) \/ Fail(f)

ReportSafety == ReportInit /\ [][ReportNext]_reportVars

ReportSpec ==
  /\ ReportSafety
  /\ \A f \in File : WF_reportVars(Succeed(f) \/ Fail(f))
=============================================================================
