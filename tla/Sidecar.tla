------------------------------- MODULE Sidecar -------------------------------
(***************************************************************************)
(* One transformer pod: the Celery worker of the sidecar (transform_file), *)
(* its upload process (ObjectStoreUploader), and the science container,    *)
(* which runs watch.sh and talks to the worker over one socket.            *)
(*                                                                         *)
(* The queue of the request outlives the pod as long as another one is     *)
(* subscribed to it, and a pod that ends is replaced.  Celery, RabbitMQ    *)
(* and Kubernetes are modelled from how the sidecar uses them.             *)
(***************************************************************************)
EXTENDS Integers, Sequences

CONSTANTS File,      \* the files of the request, one task each
          Replicas,  \* the number of replicas a task lists
          NoFile,    \* no task, and the poison pill of the upload queue
          MaxStops,  \* bound on the number of pods that are scaled down
          MaxFaults  \* bound on the number of faults in a behaviour

ASSUME FileAssumption == NoFile \notin File
ASSUME BoundAssumption ==
  Replicas \in Nat \ {0} /\ MaxStops \in Nat /\ MaxFaults \in Nat

VARIABLES
  destination, \* result_destination, which is the same for the whole request
  queue,       \* tasks that wait in the queue of the request
  task,        \* the task the worker has taken and not acknowledged
  replica,     \* the replica it tries, in the order of prioritize_replicas
  worker,      \* what the worker is doing
  toScience,   \* messages on the socket to the science container
  toSidecar,   \* messages on the socket to the sidecar
  science,     \* what watch.sh is doing
  job,         \* the request it works on
  output,      \* the files whose result is on the disk both containers share
  uploads,     \* upload_queue
  uploader,    \* what the upload process is doing
  stored,      \* the files whose result is in the bucket
  success,     \* reports of success sent to the App, per file
  failure,     \* reports of failure sent to the App, per file
  stopping,    \* the pod has got a SIGTERM
  stops,       \* number of SIGTERMs so far
  lost,        \* history: files that a fault took out of the pod's memory
  faults       \* number of faults so far

socket == <<toScience, toSidecar>>
container == <<science, job>>
upload == <<uploads, uploader, stored>>
reports == <<success, failure>>

vars == <<destination, queue, task, replica, worker, socket, container, output,
          upload, reports, stopping, stops, lost, faults>>

Kind == {"GeT", "request", "success", "failure", "confirmed", "stop"}

\* What a status says of the file and the replica is known to this module only.
Message == [kind : Kind, file : File \cup {NoFile}, replica : 0..Replicas]

Say(kind) == [kind |-> kind, file |-> NoFile, replica |-> 0]

WorkerStage == {"idle", "synch", "send", "await", "hand", "confirm", "confirm_next",
                "fail", "error", "done", "join", "ended"}
ScienceStage == {"ask", "read", "run", "confirm", "ended"}
UploaderStage == {"get", "upload", "report", "ended", "dead"}

Waits == [pc |-> "get", file |-> NoFile]

\* The files in the memory of the upload process and of its queue.
Uploading == ({uploads[i] : i \in DOMAIN uploads} \cup {uploader.file}) \ {NoFile}

TypeOK ==
  /\ destination \in {"object-store", "volume"}
  /\ queue \subseteq File
  /\ task \in File \cup {NoFile}
  /\ (task = NoFile) <=> worker \in {"idle", "join", "ended"}
  /\ replica \in 1..Replicas
  /\ worker \in WorkerStage
  /\ toScience \in Seq(Message)
  /\ toSidecar \in Seq(Message)
  /\ science \in ScienceStage
  /\ job \in Message
  /\ output \subseteq File
  /\ uploads \in Seq(File \cup {NoFile})
  /\ uploader \in [pc : UploaderStage, file : File \cup {NoFile}]
  /\ (uploader.file = NoFile) <=> uploader.pc \in {"get", "ended", "dead"}
  /\ stored \subseteq File
  /\ success \in [File -> Nat]
  /\ failure \in [File -> Nat]
  /\ stopping \in BOOLEAN
  /\ stops \in 0..MaxStops
  /\ lost \subseteq File
  /\ faults \in 0..MaxFaults

\* The pod as it starts: init connects the containers and starts the uploader.
PodStarts ==
  /\ worker' = "idle"
  /\ task' = NoFile
  /\ replica' = 1
  /\ toScience' = <<>> /\ toSidecar' = <<>>
  /\ science' = "ask" /\ job' = Say("GeT")
  /\ uploads' = <<>> /\ uploader' = Waits
  /\ output' = IF destination = "volume" THEN output ELSE {}
  /\ stopping' = FALSE

Init ==
  /\ destination \in {"object-store", "volume"}
  /\ queue = File
  /\ task = NoFile
  /\ replica = 1
  /\ worker = "idle"
  /\ toScience = <<>> /\ toSidecar = <<>>
  /\ science = "ask" /\ job = Say("GeT")
  /\ output = {}
  /\ uploads = <<>> /\ uploader = Waits
  /\ stored = {}
  /\ success = [f \in File |-> 0]
  /\ failure = [f \in File |-> 0]
  /\ stopping = FALSE
  /\ stops = 0
  /\ lost = {}
  /\ faults = 0
-----------------------------------------------------------------------------
(***************************************************************************)
(* The Celery worker: transform_file, and the end of the main program.     *)
(***************************************************************************)
\* Celery (concurrency 1, prefetch 1, acks_late) gives the worker a task.
Deliver(f) ==
  /\ worker = "idle" /\ ~stopping
  /\ f \in queue
  /\ queue' = queue \ {f}
  /\ task' = f
  /\ replica' = 1
  /\ worker' = "synch"
  /\ UNCHANGED <<destination, socket, container, output, upload, reports,
                 stopping, stops, lost, faults>>

\* Mutated form of Synch: it is waited for once in a task, before its first replica.
SynchOnce ==
  /\ worker = "synch"
  /\ IF replica = 1
     THEN /\ toSidecar # <<>>
          /\ toSidecar' = Tail(toSidecar)
          /\ worker' = IF Head(toSidecar).kind = "GeT" THEN "send" ELSE "synch"
     ELSE worker' = "send" /\ UNCHANGED toSidecar
  /\ UNCHANGED <<destination, queue, task, replica, toScience, container, output,
                 upload, reports, stopping, stops, lost, faults>>

\* synch reads until the container asks for a file.
Synch ==
  /\ worker = "synch"
  /\ toSidecar # <<>>
  /\ toSidecar' = Tail(toSidecar)
  /\ worker' = IF Head(toSidecar).kind = "GeT" THEN "send" ELSE "synch"
  /\ UNCHANGED <<destination, queue, task, replica, toScience, container, output,
                 upload, reports, stopping, stops, lost, faults>>

\* The container has hung up: the process that runs the task exits.  Celery starts
\* another, and either acknowledges the task as failed or gives it back.
SynchFails ==
  /\ worker = "synch"
  /\ toSidecar = <<>> /\ science = "ended"
  /\ \/ queue' = queue \cup {task} /\ UNCHANGED lost
     \/ lost' = lost \cup {task} /\ UNCHANGED queue
  /\ task' = NoFile
  /\ worker' = "idle"
  /\ UNCHANGED <<destination, replica, socket, container, output, upload, reports,
                 stopping, stops, faults>>

\* The request is sent; on a socket whose peer is gone this may raise.
Send ==
  /\ worker = "send"
  /\ \/ /\ toScience' = Append(toScience, [kind |-> "request", file |-> task,
                                           replica |-> replica])
        /\ worker' = "await"
     \/ science = "ended" /\ worker' = "error" /\ UNCHANGED toScience
  /\ UNCHANGED <<destination, queue, task, replica, toSidecar, container, output,
                 upload, reports, stopping, stops, lost, faults>>

\* await_response, and the log is parsed.  The end of the stream reads as an empty
\* status, which is not a success.
Await ==
  /\ worker = "await"
  /\ \/ /\ toSidecar # <<>>
        /\ toSidecar' = Tail(toSidecar)
        /\ worker' = IF Head(toSidecar).kind = "success" THEN "hand" ELSE "confirm_next"
     \/ /\ toSidecar = <<>> /\ science = "ended"
        /\ worker' = "confirm_next"
        /\ UNCHANGED toSidecar
  /\ UNCHANGED <<destination, queue, task, replica, toScience, container, output,
                 upload, reports, stopping, stops, lost, faults>>

\* A success goes to the uploader, or is reported at once if there is no bucket.
HandOver ==
  /\ worker = "hand"
  /\ IF destination = "object-store"
     THEN uploads' = Append(uploads, task) /\ UNCHANGED success
     ELSE success' = [success EXCEPT ![task] = @ + 1] /\ UNCHANGED uploads
  /\ worker' = "confirm"
  /\ UNCHANGED <<destination, queue, task, replica, socket, container, output,
                 uploader, stored, failure, stopping, stops, lost, faults>>

\* Mutated form of Confirm: the loop is not left after a success.
ConfirmNoBreak ==
  /\ worker = "confirm"
  /\ toScience' = Append(toScience, Say("confirmed"))
  /\ IF replica < Replicas THEN replica' = replica + 1 /\ worker' = "synch"
                           ELSE worker' = "done" /\ UNCHANGED replica
  /\ UNCHANGED <<destination, queue, task, toSidecar, container, output,
                 upload, reports, stopping, stops, lost, faults>>

\* confirm and break.
Confirm ==
  /\ worker = "confirm"
  /\ toScience' = Append(toScience, Say("confirmed"))
  /\ worker' = "done"
  /\ UNCHANGED <<destination, queue, task, replica, toSidecar, container, output,
                 upload, reports, stopping, stops, lost, faults>>

\* Mutated form of ConfirmNext: one replica too many is tried.
ConfirmPastLast ==
  /\ worker = "confirm_next"
  /\ toScience' = Append(toScience, Say("confirmed"))
  /\ IF replica <= Replicas THEN replica' = replica + 1 /\ worker' = "synch"
                            ELSE worker' = "fail" /\ UNCHANGED replica
  /\ UNCHANGED <<destination, queue, task, toSidecar, container, output, upload,
                 reports, stopping, stops, lost, faults>>

\* confirm, and the next replica if there is one.
ConfirmNext ==
  /\ worker = "confirm_next"
  /\ toScience' = Append(toScience, Say("confirmed"))
  /\ IF replica < Replicas THEN replica' = replica + 1 /\ worker' = "synch"
                           ELSE worker' = "fail" /\ UNCHANGED replica
  /\ UNCHANGED <<destination, queue, task, toSidecar, container, output, upload,
                 reports, stopping, stops, lost, faults>>

\* confirm raises because the peer is gone, also after a success was handed over.
ConfirmFails ==
  /\ worker \in {"confirm", "confirm_next"}
  /\ science = "ended"
  /\ worker' = "error"
  /\ UNCHANGED <<destination, queue, task, replica, socket, container, output,
                 upload, reports, stopping, stops, lost, faults>>

\* Mutated form of ReportFailure: a failed task is also put back.
ReportFailureAndRetry ==
  /\ worker \in {"fail", "error"}
  /\ failure' = [failure EXCEPT ![task] = @ + 1]
  /\ queue' = queue \cup {task}
  /\ worker' = "done"
  /\ UNCHANGED <<destination, task, replica, socket, container, output,
                 upload, success, stopping, stops, lost, faults>>

\* No replica could be transformed, or some statement raised an exception.
ReportFailure ==
  /\ worker \in {"fail", "error"}
  /\ failure' = [failure EXCEPT ![task] = @ + 1]
  /\ worker' = "done"
  /\ UNCHANGED <<destination, queue, task, replica, socket, container, output,
                 upload, success, stopping, stops, lost, faults>>

\* transform_file returns and Celery acknowledges the task.
Acknowledge ==
  /\ worker = "done"
  /\ task' = NoFile
  /\ worker' = "idle"
  /\ UNCHANGED <<destination, queue, replica, socket, container, output, upload,
                 reports, stopping, stops, lost, faults>>

\* After a SIGTERM Celery ends its last task, and the main program tells the
\* container to stop and feeds the uploader the poison pill.  If the first raises,
\* the second is not reached; without an uploader it raises.
Close ==
  /\ worker = "idle" /\ stopping
  /\ toScience' = Append(toScience, Say("stop"))
  /\ IF destination = "object-store"
     THEN \/ uploads' = Append(uploads, NoFile)
          \/ science = "ended" /\ UNCHANGED uploads
     ELSE UNCHANGED uploads
  /\ worker' = "join"
  /\ UNCHANGED <<destination, queue, task, replica, toSidecar, container, output,
                 uploader, stored, reports, stopping, stops, lost, faults>>

\* Mutated form of Join: the uploader is not waited for.
JoinNobody ==
  /\ worker = "join"
  /\ worker' = "ended"
  /\ UNCHANGED <<destination, queue, task, replica, socket, container, output,
                 upload, reports, stopping, stops, lost, faults>>

\* uploader.join
Join ==
  /\ worker = "join"
  /\ destination = "object-store" => uploader.pc \in {"ended", "dead"}
  /\ worker' = "ended"
  /\ UNCHANGED <<destination, queue, task, replica, socket, container, output,
                 upload, reports, stopping, stops, lost, faults>>
-----------------------------------------------------------------------------
(***************************************************************************)
(* The upload process.                                                     *)
(***************************************************************************)
\* An item is taken from the queue; the poison pill ends the process.
Take ==
  /\ uploader.pc = "get"
  /\ uploads # <<>>
  /\ uploads' = Tail(uploads)
  /\ uploader' = IF Head(uploads) = NoFile THEN [pc |-> "ended", file |-> NoFile]
                                          ELSE [pc |-> "upload", file |-> Head(uploads)]
  /\ UNCHANGED <<destination, queue, task, replica, worker, socket, container,
                 output, stored, reports, stopping, stops, lost, faults>>

\* upload_file puts the object into the bucket and removes the local file.
Upload ==
  /\ uploader.pc = "upload"
  /\ stored' = stored \cup {uploader.file}
  /\ output' = output \ {uploader.file}
  /\ uploader' = [uploader EXCEPT !.pc = "report"]
  /\ UNCHANGED <<destination, queue, task, replica, worker, socket, container,
                 uploads, reports, stopping, stops, lost, faults>>

ReportUpload ==
  /\ uploader.pc = "report"
  /\ success' = [success EXCEPT ![uploader.file] = @ + 1]
  /\ uploader' = Waits
  /\ UNCHANGED <<destination, queue, task, replica, worker, socket, container,
                 output, uploads, stored, failure, stopping, stops, lost, faults>>
-----------------------------------------------------------------------------
(***************************************************************************)
(* watch.sh in the science container.                                      *)
(***************************************************************************)
Ask ==
  /\ science = "ask"
  /\ toSidecar' = Append(toSidecar, Say("GeT"))
  /\ science' = "read"
  /\ UNCHANGED <<destination, queue, task, replica, worker, toScience, job, output,
                 upload, reports, stopping, stops, lost, faults>>

\* Whatever line comes is taken for a request, unless it is the word to stop.
Read ==
  /\ science = "read"
  /\ toScience # <<>>
  /\ toScience' = Tail(toScience)
  /\ IF Head(toScience).kind = "stop"
     THEN science' = "ended" /\ UNCHANGED job
     ELSE science' = "run" /\ job' = Head(toScience)
  /\ UNCHANGED <<destination, queue, task, replica, worker, toSidecar, output,
                 upload, reports, stopping, stops, lost, faults>>

\* The user's code runs on the file, and its exit code becomes the status.
Run ==
  /\ science = "run"
  /\ \/ /\ job.file \in File
        /\ output' = output \cup {job.file}
        /\ toSidecar' = Append(toSidecar, [job EXCEPT !.kind = "success"])
     \/ /\ toSidecar' = Append(toSidecar, [job EXCEPT !.kind = "failure"])
        /\ UNCHANGED output
  /\ science' = "confirm"
  /\ UNCHANGED <<destination, queue, task, replica, worker, toScience, job,
                 upload, reports, stopping, stops, lost, faults>>

\* Any line is a confirmation.
ReadConfirmation ==
  /\ science = "confirm"
  /\ toScience # <<>>
  /\ toScience' = Tail(toScience)
  /\ science' = "ask"
  /\ UNCHANGED <<destination, queue, task, replica, worker, toSidecar, job, output,
                 upload, reports, stopping, stops, lost, faults>>
-----------------------------------------------------------------------------
(***************************************************************************)
(* Kubernetes: a pod is scaled down (others remain), and replaced.         *)
(***************************************************************************)
Terminate ==
  /\ stops < MaxStops /\ stops' = stops + 1
  /\ ~stopping /\ worker \notin {"join", "ended"}
  /\ stopping' = TRUE
  /\ UNCHANGED <<destination, queue, task, replica, worker, socket, container,
                 output, upload, reports, lost, faults>>

\* What a dead uploader left in its queue is lost with the pod.
Replace ==
  /\ worker = "ended"
  /\ PodStarts
  /\ lost' = IF uploader.pc = "dead" THEN lost \cup Uploading ELSE lost
  /\ UNCHANGED <<destination, queue, stored, reports, stops, faults>>
-----------------------------------------------------------------------------
(***************************************************************************)
(* Faults.                                                                 *)
(***************************************************************************)
Fault == faults < MaxFaults /\ faults' = faults + 1

\* The science container dies.  When it is restarted nobody accepts it any more.
ScienceDies ==
  /\ Fault
  /\ science # "ended"
  /\ science' = "ended"
  /\ UNCHANGED <<destination, queue, task, replica, worker, socket, job, output,
                 upload, reports, stopping, stops, lost>>

\* The parser of the log raises; the container is not told anything.
ParserFails ==
  /\ Fault
  /\ worker = "await" /\ toSidecar # <<>>
  /\ toSidecar' = Tail(toSidecar)
  /\ worker' = "error"
  /\ UNCHANGED <<destination, queue, task, replica, toScience, container, output,
                 upload, reports, stopping, stops, lost>>

\* The upload fails: upload_file logs it, and removes the local file all the same.
UploadFails ==
  /\ Fault
  /\ uploader.pc = "upload"
  /\ output' = output \ {uploader.file}
  /\ uploader' = [uploader EXCEPT !.pc = "report"]
  /\ UNCHANGED <<destination, queue, task, replica, worker, socket, container,
                 uploads, stored, reports, stopping, stops, lost>>

\* convert_to_parquet returns None, whose use as a path ends the upload process; so
\* does an error of the upload that upload_file does not catch.
ConversionFails ==
  /\ Fault
  /\ uploader.pc = "upload"
  /\ uploader' = [pc |-> "dead", file |-> NoFile]
  /\ lost' = lost \cup {uploader.file}
  /\ UNCHANGED <<destination, queue, task, replica, worker, socket, container,
                 output, uploads, stored, reports, stopping, stops>>

\* The pod is killed.  Its task goes back to the queue, which is deleted if no other
\* pod is subscribed to it (auto_delete).
PodKilled ==
  /\ Fault
  /\ worker # "ended"
  /\ PodStarts
  /\ LET tasks == queue \cup ({task} \ {NoFile})
     IN  \/ queue' = tasks /\ lost' = lost \cup Uploading
         \/ queue' = {} /\ lost' = lost \cup Uploading \cup tasks
  /\ UNCHANGED <<destination, stored, reports, stops>>
-----------------------------------------------------------------------------
WorkerStep ==
  \/ \E f \in File : Deliver(f)
  \/ Synch \/ SynchFails \/ Send \/ Await \/ HandOver
  \/ Confirm \/ ConfirmNext \/ ConfirmFails
  \/ ReportFailure \/ Acknowledge \/ Close \/ Join

UploaderStep == Take \/ Upload \/ ReportUpload

ScienceStep == Ask \/ Read \/ Run \/ ReadConfirmation

Faults == ScienceDies \/ ParserFails \/ UploadFails \/ ConversionFails \/ PodKilled

Next == WorkerStep \/ UploaderStep \/ ScienceStep \/ Terminate \/ Replace \/ Faults

Spec == Init /\ [][Next]_vars
-----------------------------------------------------------------------------
(***************************************************************************)
(* Properties of every behaviour, with faults.                             *)
(***************************************************************************)
\* How often the App was told of f.
Reported(f) == success[f] + failure[f]

\* The files whose result is where the client looks for it.
Available == IF destination = "volume" THEN output ELSE stored

\* A status on the wire names no file, so the two ends must never be out of step: a
\* status the worker waits for is the answer to its own request, whatever died or
\* raised before; and a result it hands over is on the disk, until it is uploaded.
AnswersItsRequest ==
  /\ worker = "await" =>
       /\ \A i \in DOMAIN toSidecar :
            /\ toSidecar[i].kind \in {"success", "failure"}
            /\ toSidecar[i].file = task /\ toSidecar[i].replica = replica
       /\ science = "run" => job.file = task /\ job.replica = replica
  /\ worker = "hand" => task \in output
  /\ destination = "object-store" =>
       {uploads[i] : i \in DOMAIN uploads} \ {NoFile} \subseteq output

\* Nobody but a fault loses a file: each is in the queue, with the worker, with the
\* uploader, or reported.  In particular a pod that is scaled down ends only after
\* its uploader has reported what it was handed, although those tasks were
\* acknowledged before.
EveryTaskAccounted ==
  \A f \in File :
    \/ f \in queue \/ f = task \/ f \in Uploading \/ f \in lost
    \/ Reported(f) > 0

\* A file is reported once, and once more for a fault at most: a pod killed before it
\* acknowledged, or a container gone between success and confirmation.
ReportsBounded == \A f \in File : Reported(f) <= 1 + faults

(***************************************************************************)
(* Properties of the behaviours without faults.                            *)
(***************************************************************************)
\* Every task is reported exactly once, and as a success only when its result is
\* available, although worker and uploader report independently of each other and
\* pods come and go.
Promise == INSTANCE TaskReport
             WITH available <- Available,
                  succeeded <- success,
                  failed <- failure

ImplementsTaskReport == Promise!ReportSpec
=============================================================================
