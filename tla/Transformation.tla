--------------------------- MODULE Transformation ---------------------------
(***************************************************************************)
(* A request from its first task to the shutdown of its transformers: the  *)
(* pod of Sidecar reports its files to the handlers of FileCompletion,     *)
(* which count them, complete the request and delete the deployment.       *)
(*                                                                         *)
(* The pod's variables have the names they have in Sidecar.  A task is     *)
(* finished, for the App, once the pod has reported its file.  The pod     *)
(* waits for the answer to a report; here it may also go on before.        *)
(***************************************************************************)
EXTENDS Sidecar, FiniteSets

CONSTANTS Worker,    \* the gunicorn workers
          AppFaults  \* bound on the faults of the App

ASSUME RequestAssumption == IsFiniteSet(File) /\ File # {}
ASSUME AppAssumption == IsFiniteSet(Worker) /\ AppFaults \in Nat

VARIABLES arriving, filesCompleted, filesFailed, rows, status, deployed,
          handler, counted, appFaults

App == INSTANCE FileCompletion
         WITH todo <- {f \in File : Reported(f) = 0},
              reports <- arriving,
              faults <- appFaults,
              MaxFaults <- AppFaults

database == <<filesCompleted, filesFailed, rows, status>>
appVars == <<arriving, database, deployed, handler, counted, appFaults>>
wholeVars == <<vars, appVars>>

WholeInit == Init /\ App!Init
-----------------------------------------------------------------------------
\* Mutated form of PodStep: the worker also reports what it hands to the uploader.
PodStepBoth ==
  /\ Next
  /\ Replace \/ PodKilled => deployed
  /\ arriving' = [f \in File |-> arriving[f] + Reported(f)' - Reported(f)
                                 + IF HandOver /\ f = task THEN 1 ELSE 0]
  /\ UNCHANGED <<database, deployed, handler, counted, appFaults>>

\* The pod goes on, and what it reports (put_file_complete) is on its way to the App.
\* A pod starts only while its deployment exists.
PodStep ==
  /\ Next
  /\ Replace \/ PodKilled => deployed
  /\ arriving' = [f \in File |-> arriving[f] + Reported(f)' - Reported(f)]
  /\ UNCHANGED <<database, deployed, handler, counted, appFaults>>

\* Mutated form of AsReported: everything that is not a success is one.
AsReportedLoosely(f) == filesFailed' # filesFailed => failure[f] > 0

\* The status in a report says which counter is incremented.
AsReported(f) ==
  /\ filesCompleted' # filesCompleted => success[f] > 0
  /\ filesFailed' # filesFailed => failure[f] > 0

\* Worker w goes on with the report it handles, or takes one.
Handles(w) == UNCHANGED vars /\ App!Step(w) /\ AsReported(handler[w].file)

\* Tasks delivered again are the pod's faults (PodKilled).
AppFails ==
  /\ UNCHANGED vars
  /\ \/ \E w \in Worker : App!Abort(w) \/ App!RetryComplete(w)
     \/ \E f \in File : App!LoseReport(f)

WholeNext == PodStep \/ (\E w \in Worker : Handles(w)) \/ AppFails

WholeSpec == WholeInit /\ [][WholeNext]_wholeVars

\* The three processes of the pod run, a transformation ends, and pods are replaced
\* while the deployment exists; gunicorn gives every worker its turn.
WholeFairness ==
  /\ WF_wholeVars(PodStep /\ WorkerStep)
  /\ WF_wholeVars(PodStep /\ UploaderStep)
  /\ WF_wholeVars(PodStep /\ ScienceStep)
  /\ WF_wholeVars(PodStep /\ Replace)
  /\ \A w \in Worker : WF_wholeVars(Handles(w))

WholeFairSpec == WholeSpec /\ WholeFairness
-----------------------------------------------------------------------------
(***************************************************************************)
(* Properties of every behaviour.                                          *)
(***************************************************************************)
\* A fault makes one file missing at most: when a request is declared complete, or
\* its transformers are shut down, each file that was never reported is owed to a
\* fault of its own, which made the App count another file twice.
MissingNeedFaults ==
  status = "complete" \/ ~deployed =>
    Cardinality({f \in File : Reported(f) = 0}) <= faults + appFaults

FaultFree == faults = 0 /\ appFaults = 0

\* Until something fails, a request is declared complete only when each file was
\* reported once, as a success only if its result is where the client looks for it,
\* and its two counters are what the user is told: the number of results, and the
\* number of files that failed on every replica.
CompleteMeansAllResults ==
  FaultFree /\ status = "complete" =>
    /\ \A f \in File : Reported(f) = 1 /\ (success[f] = 1 => f \in Available)
    /\ filesCompleted = Cardinality({f \in File : success[f] = 1})
    /\ filesFailed = Cardinality({f \in File : failure[f] = 1})

\* Until something fails, the transformers are shut down only when the pod has
\* nothing left to do: no task that waits, none whose file is not reported, and
\* nothing to upload.
ShutdownFindsNothingToDo ==
  FaultFree /\ ~deployed =>
    /\ queue = {} /\ Uploading = {}
    /\ worker \in {"idle", "confirm", "done", "join", "ended"}

(***************************************************************************)
(* Properties of the behaviours without faults.                            *)
(***************************************************************************)
\* What FileCompletion takes for granted is what the pod does: each file is finished,
\* and reported, once, whether by the worker or by its uploader.
ImplementsCompletion == App!Safety

(***************************************************************************)
(* Liveness, under WholeFairness and without faults.                       *)
(***************************************************************************)
\* Every request ends: it is complete, and its transformers are shut down.
RequestEnds == <>[](status = "complete" /\ ~deployed)
=============================================================================
