--------------------------- MODULE FileCompletion ---------------------------
(***************************************************************************)
(* The end of one transformation request: the transformers report each     *)
(* file, gunicorn workers of the App handle the reports concurrently       *)
(* (TransformerFileComplete.put), and the worker that finds no file        *)
(* remaining completes the request and shuts its transformers down.        *)
(*                                                                         *)
(* The request is one whose number of files was committed before the first *)
(* transformer started, so that request.files = Cardinality(File)          *)
(* throughout; RequestLifecycle has the requests for which it is not.      *)
(*                                                                         *)
(* One action is one database transaction, or one read of the request row, *)
(* or one call to Kubernetes.  A tenacity attempt that fails before it     *)
(* reaches the database changes nothing, so a retry is a stuttering step;  *)
(* a handler that gives up, or whose worker dies, is a fault (below).      *)
(***************************************************************************)
EXTENDS Integers, FiniteSets

CONSTANTS File,      \* the files of the request
          Worker,    \* the gunicorn workers (five in boot.sh)
          NoFile,    \* the file of an idle worker
          MaxFaults  \* bound on the number of faults in a behaviour

ASSUME FileAssumption == IsFiniteSet(File) /\ File # {} /\ NoFile \notin File
ASSUME WorkerAssumption == IsFiniteSet(Worker)
ASSUME FaultAssumption == MaxFaults \in Nat

VARIABLES todo,            \* files whose transform task is not finished
          reports,         \* reports[f]: PUTs about f on their way to the App
          filesCompleted,  \* requests.files_completed
          filesFailed,     \* requests.files_failed
          rows,            \* number of rows of transform_result
          status,          \* requests.status
          deployed,        \* the transformer deployment exists
          handler,         \* handler[w]: what worker w is doing
          counted,         \* history: the files some increment was committed for
          faults           \* number of faults so far

vars == <<todo, reports, filesCompleted, filesFailed, rows, status, deployed,
          handler, counted, faults>>

Stage == {"idle", "record", "save", "check", "complete", "shutdown"}

Idle == [pc |-> "idle", file |-> NoFile]

\* files_completed + files_failed (TransformRequest.result_count).
ResultCount == filesCompleted + filesFailed

\* Mutated form of FilesRemaining: the failed files are forgotten.
FilesRemainingIgnoringFailures == Cardinality(File) - filesCompleted

\* TransformRequest.files_remaining of a request whose files is not zero.
FilesRemaining == Cardinality(File) - ResultCount

At(stage) == {w \in Worker : handler[w].pc = stage}

Goto(w, stage) == handler' = [handler EXCEPT ![w].pc = stage]

Return(w) == handler' = [handler EXCEPT ![w] = Idle]
-----------------------------------------------------------------------------
\* Types; a worker that is not idle handles a report about a file of the request.
TypeOK ==
  /\ todo \subseteq File
  /\ reports \in [File -> Nat]
  /\ filesCompleted \in Nat
  /\ filesFailed \in Nat
  /\ rows \in Nat
  /\ status \in {"running", "complete"}
  /\ deployed \in BOOLEAN
  /\ handler \in [Worker -> [pc : Stage, file : File \cup {NoFile}]]
  /\ \A w \in Worker : handler[w].pc # "idle" => handler[w].file \in File
  /\ counted \subseteq File
  /\ faults \in 0..MaxFaults

Init ==
  /\ todo = File
  /\ reports = [f \in File |-> 0]
  /\ filesCompleted = 0
  /\ filesFailed = 0
  /\ rows = 0
  /\ status = "running"
  /\ deployed = TRUE
  /\ handler = [w \in Worker |-> Idle]
  /\ counted = {}
  /\ faults = 0

\* Mutated form of Report: both the sidecar and its uploader report the file.
ReportTwice(f) ==
  /\ f \in todo
  /\ todo' = todo \ {f}
  /\ reports' = [reports EXCEPT ![f] = @ + 2]
  /\ UNCHANGED <<filesCompleted, filesFailed, rows, status, deployed, handler,
                 counted, faults>>

\* A transformer finishes with file f, well or badly, and reports it once:
\* the sidecar itself, or its uploader after the upload.
Report(f) ==
  /\ f \in todo
  /\ todo' = todo \ {f}
  /\ reports' = [reports EXCEPT ![f] = @ + 1]
  /\ UNCHANGED <<filesCompleted, filesFailed, rows, status, deployed, handler,
                 counted, faults>>

\* Mutated form of Receive: a report that two workers handle.
ReceiveShared(w, f) ==
  /\ handler[w].pc = "idle"
  /\ reports[f] > 0 \/ \E v \in Worker : handler[v] = [pc |-> "record", file |-> f]
  /\ reports' = [reports EXCEPT ![f] = @ - 1]
  /\ handler' = [handler EXCEPT ![w] = [pc |-> "record", file |-> f]]
  /\ UNCHANGED <<todo, filesCompleted, filesFailed, rows, status, deployed,
                 counted, faults>>

\* An idle worker takes a PUT .../file-complete about f.
Receive(w, f) ==
  /\ handler[w].pc = "idle"
  /\ reports[f] > 0
  /\ reports' = [reports EXCEPT ![f] = @ - 1]
  /\ handler' = [handler EXCEPT ![w] = [pc |-> "record", file |-> f]]
  /\ UNCHANGED <<todo, filesCompleted, filesFailed, rows, status, deployed,
                 counted, faults>>

\* Mutated form of Record: the addition is done in Python on the value read, so
\* that it may overwrite the increment of a worker that committed meanwhile.
RecordInPython(w) ==
  /\ handler[w].pc = "record"
  /\ \/ filesCompleted' = filesCompleted + 1
     \/ At("save") # {} /\ UNCHANGED filesCompleted
  /\ counted' = counted \cup {handler[w].file}
  /\ Goto(w, "save")
  /\ UNCHANGED <<todo, reports, filesFailed, rows, status, deployed, faults>>

\* record_file_complete: UPDATE ... SET files_x = files_x + 1, and commit.  The
\* addition is done by the database, so it loses no concurrent increment.
Record(w) ==
  /\ handler[w].pc = "record"
  /\ \/ filesCompleted' = filesCompleted + 1 /\ UNCHANGED filesFailed
     \/ filesFailed' = filesFailed + 1 /\ UNCHANGED filesCompleted
  /\ counted' = counted \cup {handler[w].file}
  /\ Goto(w, "save")
  /\ UNCHANGED <<todo, reports, rows, status, deployed, faults>>

\* save_transform_result: INSERT the row of transform_result, and commit.
Save(w) ==
  /\ handler[w].pc = "save"
  /\ rows' = rows + 1
  /\ Goto(w, "check")
  /\ UNCHANGED <<todo, reports, filesCompleted, filesFailed, status, deployed,
                 counted, faults>>

\* Mutated form of Check: off by one, the handler does not count its own file.
CheckEarly(w) ==
  /\ handler[w].pc = "check"
  /\ IF FilesRemaining <= 1 THEN Goto(w, "complete") ELSE Return(w)
  /\ UNCHANGED <<todo, reports, filesCompleted, filesFailed, rows, status,
                 deployed, counted, faults>>

\* Mutated form of Check: the transformers are shut down, the status is not set.
CheckNoStatus(w) ==
  /\ handler[w].pc = "check"
  /\ IF FilesRemaining = 0 THEN Goto(w, "shutdown") ELSE Return(w)
  /\ UNCHANGED <<todo, reports, filesCompleted, filesFailed, rows, status,
                 deployed, counted, faults>>

\* The expired request is read again, in one SELECT, and files_remaining tested.
Check(w) ==
  /\ handler[w].pc = "check"
  /\ IF FilesRemaining = 0 THEN Goto(w, "complete") ELSE Return(w)
  /\ UNCHANGED <<todo, reports, filesCompleted, filesFailed, rows, status,
                 deployed, counted, faults>>

\* transform_complete: the status is committed first ...
Complete(w) ==
  /\ handler[w].pc = "complete"
  /\ status' = "complete"
  /\ Goto(w, "shutdown")
  /\ UNCHANGED <<todo, reports, filesCompleted, filesFailed, rows, deployed,
                 counted, faults>>

\* ... and the transformers are shut down after.  Deleting a deployment that is
\* gone raises an ApiException, which shutdown_transformer_job logs and drops.
Shutdown(w) ==
  /\ handler[w].pc = "shutdown"
  /\ deployed' = FALSE
  /\ Return(w)
  /\ UNCHANGED <<todo, reports, filesCompleted, filesFailed, rows, status,
                 counted, faults>>

Step(w) ==
  \/ \E f \in File : Receive(w, f)
  \/ Record(w)
  \/ Save(w)
  \/ Check(w)
  \/ Complete(w)
  \/ Shutdown(w)

Next ==
  \/ \E f \in File : Report(f)
  \/ \E w \in Worker : Step(w)
-----------------------------------------------------------------------------
(***************************************************************************)
(* Faults.                                                                 *)
(***************************************************************************)
Fault == faults < MaxFaults /\ faults' = faults + 1

\* A handler ends before its work is done: three attempts at a step failed and
\* the App answers 500, which the sidecar takes for an answer (again = FALSE), or
\* the worker was killed (gunicorn's timeout, a restart of the pod) and the
\* sidecar, whose connection broke, may send the report again.
Abort(w) ==
  /\ Fault
  /\ handler[w].pc # "idle"
  /\ \E again \in BOOLEAN :
       reports' = [reports EXCEPT ![handler[w].file] = IF again THEN @ + 1 ELSE @]
  /\ Return(w)
  /\ UNCHANGED <<todo, filesCompleted, filesFailed, rows, status, deployed, counted>>

\* transform_complete as a whole is retried, its commit included.
RetryComplete(w) ==
  /\ Fault
  /\ handler[w].pc = "shutdown"
  /\ Goto(w, "complete")
  /\ UNCHANGED <<todo, reports, filesCompleted, filesFailed, rows, status,
                 deployed, counted>>

\* A transformer dies after its report and before Celery acknowledges the task
\* (acks_late), which the broker then gives to another transformer.
Redeliver(f) ==
  /\ Fault
  /\ f \notin todo
  /\ deployed
  /\ todo' = todo \cup {f}
  /\ UNCHANGED <<reports, filesCompleted, filesFailed, rows, status, deployed,
                 handler, counted>>

\* The sidecar gives up: put_file_complete logs the ConnectionError and returns.
LoseReport(f) ==
  /\ Fault
  /\ reports[f] > 0
  /\ reports' = [reports EXCEPT ![f] = @ - 1]
  /\ UNCHANGED <<todo, filesCompleted, filesFailed, rows, status, deployed,
                 handler, counted>>

FaultyNext ==
  \/ Next
  \/ \E w \in Worker : Abort(w) \/ RetryComplete(w)
  \/ \E f \in File : Redeliver(f) \/ LoseReport(f)
-----------------------------------------------------------------------------
Safety == Init /\ [][Next]_vars

FaultySpec == Init /\ [][FaultyNext]_vars

\* Transformers finish their files, and gunicorn gives every worker its turn:
\* nothing a handler does waits for another handler.
Fairness ==
  /\ \A f \in File : WF_vars(Report(f))
  /\ \A w \in Worker : WF_vars(Step(w))

Spec == Safety /\ Fairness

\* Nothing goes wrong in the App: the only faults are tasks delivered again.
RedeliveryNext == Next \/ \E f \in File : Redeliver(f)

RedeliverySpec == Init /\ [][RedeliveryNext]_vars
-----------------------------------------------------------------------------
(***************************************************************************)
(* Properties of every behaviour, with faults.                             *)
(***************************************************************************)
\* Every counted file has its row in transform_result, or a handler on its way
\* to write it, or a fault that took that handler away; and no row is written
\* for a file that was not counted.  (record_file_complete and
\* save_transform_result are two transactions, in this order, of workers that
\* share the counters.)
Accounting ==
  LET accounted == rows + Cardinality(At("save"))
  IN  accounted <= ResultCount /\ ResultCount <= accounted + faults

\* A request is declared complete, and its transformers are shut down, only
\* after as many reports as it has files were counted, and in this order,
\* whatever is repeated, lost or cut short.
FinishedAfterAllCounted ==
  /\ status = "complete" \/ At("complete") # {} => ResultCount >= Cardinality(File)
  /\ ~deployed \/ At("shutdown") # {} => status = "complete"

\* A file is counted more than once only by a fault: a task delivered again or a
\* report sent again, each of which costs one extra count at most.
ExtraCountsNeedFaults == ResultCount <= Cardinality(counted) + faults

(***************************************************************************)
(* Properties of the behaviours without faults.                            *)
(***************************************************************************)
\* Nobody misses the end: once every file is counted, the request is complete or
\* some worker is still on its way to find that no file remains, although the
\* worker that counted last need not be the worker that reads last; and the
\* transformers are down or some worker is on its way to shut them down.
LastReportFinishes ==
  counted = File =>
    /\ status = "complete" \/ At("save") \cup At("check") \cup At("complete") # {}
    /\ ~deployed \/ At("save") \cup At("check") \cup At("complete")
                     \cup At("shutdown") # {}

\* The handlers implement the barrier of FileBarrier.
Barrier == INSTANCE FileBarrier
             WITH reported <- counted,
                  finished <- status = "complete",
                  released <- ~deployed

ImplementsBarrier == Barrier!BarrierSafety

\* Every file is counted, the request is completed and its transformers are
\* terminated in the end, under the fairness of the handlers alone.
ImplementsFairBarrier == Barrier!BarrierSpec

(***************************************************************************)
(* What a document of the repository says.                                 *)
(***************************************************************************)
\* architecture.md: "When the final file is transformed, the App will terminate
\* the pods".  So once every task is done and every report handled, the
\* transformers of the request are down.
FinalFileTerminates ==
  todo = {} /\ (\A f \in File : reports[f] = 0) /\ At("idle") = Worker => ~deployed
=============================================================================
