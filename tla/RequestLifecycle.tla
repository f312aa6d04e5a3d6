-------------------------- MODULE RequestLifecycle --------------------------
(***************************************************************************)
(* The life of transformation requests in the ServiceX App.                *)
(*                                                                         *)
(* Users submit and cancel requests; a DID finder that takes a lookup task *)
(* calls the App back with the files of the dataset, in one or more calls, *)
(* and then declares the fileset complete; transformers take the tasks of  *)
(* a request and report every file.  All of these are HTTP handlers run by *)
(* gunicorn workers, which share nothing but the database, the brokers'    *)
(* queues and Kubernetes.                                                  *)
(*                                                                         *)
(* One action is one committed transaction, one read of the database that  *)
(* a later step relies on, one call to a broker or one to Kubernetes.  The *)
(* isolation is READ COMMITTED: a handler keeps what it read while others  *)
(* commit, and an UPDATE waits only for the transaction that already       *)
(* updated the row.  FileCompletion has the details of the reports.        *)
(***************************************************************************)
EXTENDS Integers, FiniteSets

CONSTANTS Request, Dataset, Worker, Finder,
          DatasetOf,   \* DatasetOf[r]: the dataset request r asks for
          FileList,    \* the datasets that are file lists given by users
          FileCounts,  \* the numbers of files a lookup may find
          None,
          MaxFaults    \* bound on the number of faults in a behaviour

ASSUME DatasetAssumption ==
  /\ DatasetOf \in [Request -> Dataset]
  /\ FileList \subseteq Dataset
  /\ FileCounts \subseteq Nat
ASSUME NoneAssumption == None \notin Request \cup Dataset \cup Finder
ASSUME FaultAssumption == MaxFaults \in Nat

VARIABLES
  dsStatus,    \* datasets.lookup_status, or "none" when there is no row
  dsFiles,     \* number of rows of the table files, per dataset
  status,      \* requests.status, or "none" when there is no row
  files,       \* requests.files
  done,        \* requests.files_completed + requests.files_failed
  configmap,   \* the requests whose generated code is in a ConfigMap
  deployment,  \* the requests that have a transformer deployment
  lookups,     \* lookup tasks in the queue of the DID finder, per dataset
  tasks,       \* transform tasks in the queue of each request
  reports,     \* file-complete calls on their way to the App
  finder,      \* what each process of the DID finder is doing
  handler,     \* what each gunicorn worker is doing
  sent,        \* history: transform tasks ever sent, per request
  published,   \* history: requests published by their own submission
  faults       \* number of faults so far

database == <<dsStatus, dsFiles, status, files, done>>
cluster == <<configmap, deployment>>
brokers == <<lookups, tasks, reports, sent>>

vars == <<database, cluster, brokers, finder, handler, published, faults>>
-----------------------------------------------------------------------------
DatasetStatus == {"created", "looking", "complete"}

TransformStatus == {"submitted", "pending_lookup", "lookup", "running",
                    "complete", "canceled"}

\* TransformStatus.is_complete.
Terminal == {"complete", "canceled"}

SubmitStage == {"create", "save", "refresh", "send_lookup", "commit_lookup",
                "publish", "publish_commit", "pend", "start"}
AddStage == {"add_store", "add_next", "add_send", "add_commit"}
FilesetStage == {"fs_pending", "fs_publish", "fs_commit",
                 "fs_empty", "fs_shutdown", "fs_empty_commit"}
FileStage == {"check", "complete", "shutdown"}
CancelStage == {"cancel_shutdown", "cancel_commit"}

Stage == {"idle"} \cup SubmitStage \cup AddStage \cup FilesetStage
           \cup FileStage \cup CancelStage

\* req: the request at hand; finder: the caller; n: the files of an add-files
\* call, or the files of the dataset as read; read: requests.files as read;
\* todo, pend, look: requests still to serve, and as selected by their status.
Handler == [pc : Stage, req : Request \cup {None}, finder : Finder \cup {None},
            n : Nat, read : Nat,
            todo : SUBSET Request, pend : SUBSET Request, look : SUBSET Request]

Idle == [pc |-> "idle", req |-> None, finder |-> None, n |-> 0, read |-> 0,
         todo |-> {}, pend |-> {}, look |-> {}]

\* ds: the dataset under lookup; left: the files still to add of the total;
\* busy: waiting for the App to answer a call.
FinderState == [ds : Dataset \cup {None}, left : Nat, total : Nat, busy : BOOLEAN]

Resting == [ds |-> None, left |-> 0, total |-> 0, busy |-> FALSE]

Serving(w, stage) == handler[w].pc = stage
Become(w, h) == handler' = [handler EXCEPT ![w] = h]
Goto(w, stage) == Become(w, [handler[w] EXCEPT !.pc = stage])
Return(w) == Become(w, Idle)

\* The dataset of the call that worker w serves.
CallDataset(w) == finder[handler[w].finder].ds

\* lookup_running_by_dataset_id and lookup_pending_on_dataset.
LookupRequests(d) == {r \in Request : status[r] = "lookup" /\ DatasetOf[r] = d}
PendingRequests(d) ==
  {r \in Request : status[r] = "pending_lookup" /\ DatasetOf[r] = d}

\* The rows of requests that worker w has updated and not committed.
RowLocks(w) ==
  CASE handler[w].pc \in {"add_commit", "publish_commit"} -> {handler[w].req}
    [] handler[w].pc = "fs_commit" -> handler[w].pend
    [] handler[w].pc = "fs_empty_commit" -> handler[w].look
    [] OTHER -> {}

CanUpdate(w, rs) == \A v \in Worker \ {w} : RowLocks(v) \cap rs = {}

\* A handler has the fields its stage uses, and a finder waits for its call.
InCall(h) == h.pc \in AddStage \cup FilesetStage

HandlerOK(h) ==
  /\ h.pc \in SubmitStage \cup FileStage \cup CancelStage \cup {"add_send", "add_commit"}
       => h.req \in Request
  /\ InCall(h) =>
       h.finder \in Finder /\ finder[h.finder].ds \in Dataset /\ finder[h.finder].busy
  /\ h.pc \in AddStage => h.n <= finder[h.finder].left

\* Types.  A handler that serves a finder's call relies on that finder to wait, on the
\* same dataset, until it is answered; so no two handlers serve one call.
TypeOK ==
  /\ dsStatus \in [Dataset -> DatasetStatus \cup {"none"}]
  /\ dsFiles \in [Dataset -> Nat]
  /\ status \in [Request -> TransformStatus \cup {"none"}]
  /\ files \in [Request -> Nat]
  /\ done \in [Request -> Nat]
  /\ configmap \subseteq Request
  /\ deployment \subseteq Request
  /\ lookups \in [Dataset -> Nat]
  /\ tasks \in [Request -> Nat]
  /\ reports \in [Request -> Nat]
  /\ finder \in [Finder -> FinderState]
  /\ handler \in [Worker -> Handler]
  /\ \A w \in Worker : HandlerOK(handler[w])
  /\ \A v, w \in Worker :
       InCall(handler[v]) /\ InCall(handler[w]) /\ handler[v].finder = handler[w].finder
         => v = w
  /\ sent \in [Request -> Nat]
  /\ published \subseteq Request
  /\ faults \in 0..MaxFaults
-----------------------------------------------------------------------------
Init ==
  /\ dsStatus = [d \in Dataset |-> "none"]
  /\ dsFiles = [d \in Dataset |-> 0]
  /\ status = [r \in Request |-> "none"]
  /\ files = [r \in Request |-> 0]
  /\ done = [r \in Request |-> 0]
  /\ configmap = {}
  /\ deployment = {}
  /\ lookups = [d \in Dataset |-> 0]
  /\ tasks = [r \in Request |-> 0]
  /\ reports = [r \in Request |-> 0]
  /\ finder = [f \in Finder |-> Resting]
  /\ handler = [w \in Worker |-> Idle]
  /\ sent = [r \in Request |-> 0]
  /\ published = {}
  /\ faults = 0

\* add_files_to_processing_queue: n tasks for request r.
SendTasks(r, n) ==
  /\ tasks' = [tasks EXCEPT ![r] = @ + n]
  /\ sent' = [sent EXCEPT ![r] = @ + n]
  /\ UNCHANGED <<lookups, reports>>

\* Mutated form of ShutdownTransformers: the deployment named after the dataset.
ShutdownTransformersOfDataset(r) ==
  LET same == {q \in Request : DatasetOf[q] = DatasetOf[r]}
  IN  /\ configmap' = configmap \ {r}
      /\ deployment' = deployment \ same
      /\ tasks' = [q \in Request |-> IF q \in deployment \cap same THEN 0 ELSE tasks[q]]
      /\ UNCHANGED <<lookups, reports, sent>>

\* shutdown_transformer_job: whatever of it does not exist is logged and passed
\* over.  The queue of the request is deleted with its last consumer.
ShutdownTransformers(r) ==
  /\ configmap' = configmap \ {r}
  /\ deployment' = deployment \ {r}
  /\ tasks' = IF r \in deployment THEN [tasks EXCEPT ![r] = 0] ELSE tasks
  /\ UNCHANGED <<lookups, reports, sent>>
-----------------------------------------------------------------------------
(***************************************************************************)
(* SubmitTransformationRequest.post                                        *)
(***************************************************************************)
\* A user submits r, and the dataset is looked for by name.
Submit(w, r) ==
  /\ Serving(w, "idle")
  /\ status[r] = "none" /\ r \notin configmap
  /\ \A v \in Worker : handler[v].req # r
  /\ Become(w, [Idle EXCEPT !.req = r,
                            !.pc = IF dsStatus[DatasetOf[r]] = "none" THEN "create" ELSE "save"])
  /\ UNCHANGED <<database, cluster, brokers, finder, published, faults>>

\* Mutated form of SubmitCreate: a file list, too, is only created.
SubmitCreateForLookup(w) ==
  LET d == DatasetOf[handler[w].req]
  IN  /\ Serving(w, "create")
      /\ dsStatus[d] = "none"
      /\ dsStatus' = [dsStatus EXCEPT ![d] = "created"]
      /\ Goto(w, "save")
      /\ UNCHANGED <<dsFiles, status, files, done, cluster, brokers, finder,
                     published, faults>>

\* The dataset is inserted.  A file list is complete from the start and has at
\* least a file.  If another worker was first, the unique name raises an
\* IntegrityError, and the submission fails with a 500.
SubmitCreate(w) ==
  LET d == DatasetOf[handler[w].req]
  IN  /\ Serving(w, "create")
      /\ \/ /\ dsStatus[d] = "none"
            /\ IF d \in FileList
               THEN /\ dsStatus' = [dsStatus EXCEPT ![d] = "complete"]
                    /\ \E n \in FileCounts \ {0} : dsFiles' = [dsFiles EXCEPT ![d] = n]
               ELSE /\ dsStatus' = [dsStatus EXCEPT ![d] = "created"]
                    /\ UNCHANGED dsFiles
            /\ Goto(w, "save")
         \/ /\ dsStatus[d] # "none"
            /\ Return(w)
            /\ UNCHANGED <<dsStatus, dsFiles>>
      /\ UNCHANGED <<status, files, done, cluster, brokers, finder, published, faults>>

\* The code is generated into a ConfigMap; then either the image is missing and
\* the submission ends with a 500, or the request is inserted.
SubmitSave(w) ==
  LET r == handler[w].req
  IN  /\ Serving(w, "save")
      /\ configmap' = configmap \cup {r}
      /\ \/ Return(w) /\ UNCHANGED status
         \/ /\ status' = [status EXCEPT ![r] = "submitted"]
            /\ Goto(w, "refresh")
      /\ UNCHANGED <<dsStatus, dsFiles, files, done, deployment, brokers, finder,
                     published, faults>>

\* dataset_manager.refresh, and the choice made on what it read.
SubmitRefresh(w) ==
  LET seen == dsStatus[DatasetOf[handler[w].req]]
  IN  /\ Serving(w, "refresh")
      /\ Goto(w, CASE seen = "complete" -> "publish"
                   [] seen = "looking" -> "pend"
                   [] OTHER -> "send_lookup")
      /\ UNCHANGED <<database, cluster, brokers, finder, published, faults>>

\* The lookup task is sent before the transaction that records it is committed.
SubmitSendLookup(w) ==
  /\ Serving(w, "send_lookup")
  /\ lookups' = [lookups EXCEPT ![DatasetOf[handler[w].req]] = @ + 1]
  /\ Goto(w, "commit_lookup")
  /\ UNCHANGED <<database, cluster, tasks, reports, sent, finder, published, faults>>

SubmitCommitLookup(w) ==
  LET r == handler[w].req
  IN  /\ Serving(w, "commit_lookup")
      /\ CanUpdate(w, {r})
      /\ dsStatus' = [dsStatus EXCEPT ![DatasetOf[r]] = "looking"]
      /\ status' = [status EXCEPT ![r] = "lookup"]
      /\ Goto(w, "start")
      /\ UNCHANGED <<dsFiles, files, done, cluster, brokers, finder, published, faults>>

\* publish_files: files is flushed, and the row locked, by the refresh of the
\* request that building the first task makes.
SubmitPublish(w) ==
  LET r == handler[w].req
      n == dsFiles[DatasetOf[r]]
  IN  /\ Serving(w, "publish")
      /\ CanUpdate(w, {r})
      /\ SendTasks(r, n)
      /\ Become(w, [handler[w] EXCEPT !.pc = "publish_commit", !.n = n])
      /\ UNCHANGED <<database, cluster, finder, published, faults>>

\* Mutated form of SubmitCommitPublish: the number of files is not recorded.
SubmitCommitNoFiles(w) ==
  LET r == handler[w].req
  IN  /\ Serving(w, "publish_commit")
      /\ status' = [status EXCEPT ![r] = "running"]
      /\ published' = published \cup {r}
      /\ Goto(w, "start")
      /\ UNCHANGED <<dsStatus, dsFiles, files, done, cluster, brokers, finder, faults>>

SubmitCommitPublish(w) ==
  LET r == handler[w].req
  IN  /\ Serving(w, "publish_commit")
      /\ files' = [files EXCEPT ![r] = handler[w].n]
      /\ status' = [status EXCEPT ![r] = "running"]
      /\ published' = published \cup {r}
      /\ Goto(w, "start")
      /\ UNCHANGED <<dsStatus, dsFiles, done, cluster, brokers, finder, faults>>

SubmitPend(w) ==
  LET r == handler[w].req
  IN  /\ Serving(w, "pend")
      /\ CanUpdate(w, {r})
      /\ status' = [status EXCEPT ![r] = "pending_lookup"]
      /\ Goto(w, "start")
      /\ UNCHANGED <<dsStatus, dsFiles, files, done, cluster, brokers, finder,
                     published, faults>>

\* start_transformers, whatever became of the request meanwhile.
SubmitStart(w) ==
  /\ Serving(w, "start")
  /\ deployment' = deployment \cup {handler[w].req}
  /\ Return(w)
  /\ UNCHANGED <<database, configmap, brokers, finder, published, faults>>
-----------------------------------------------------------------------------
(***************************************************************************)
(* The DID finder, and its calls AddFileToDataset.put and                  *)
(* FilesetComplete.put                                                     *)
(***************************************************************************)
\* A process of the finder takes a lookup task, and finds some files: all that have
\* a replica, in the datasets of a container, or none if the DID is not known.
Lookup(f, d) ==
  /\ finder[f].ds = None
  /\ lookups[d] > 0
  /\ lookups' = [lookups EXCEPT ![d] = @ - 1]
  /\ \E n \in FileCounts :
       finder' = [finder EXCEPT ![f] = [ds |-> d, left |-> n, total |-> n, busy |-> FALSE]]
  /\ UNCHANGED <<database, cluster, tasks, reports, sent, handler, published, faults>>

\* It is answered: of a call with n files, so many fewer are left.
Answered(f, n) == finder' = [finder EXCEPT ![f].left = @ - n, ![f].busy = FALSE]
LookupOver(f) == finder' = [finder EXCEPT ![f] = Resting]

\* The finder calls with some of its files.  The requests that wait in lookup are
\* selected first.
AddFiles(w, f) ==
  /\ Serving(w, "idle")
  /\ finder[f].ds # None /\ ~finder[f].busy
  /\ \E n \in 1..finder[f].left :
       Become(w, [Idle EXCEPT !.pc = "add_store", !.finder = f, !.n = n,
                              !.todo = LookupRequests(finder[f].ds)])
  /\ finder' = [finder EXCEPT ![f].busy = TRUE]
  /\ UNCHANGED <<database, cluster, brokers, published, faults>>

\* The files join the dataset, in a transaction of their own.
AddStore(w) ==
  /\ Serving(w, "add_store")
  /\ dsFiles' = [dsFiles EXCEPT ![CallDataset(w)] = @ + handler[w].n]
  /\ Goto(w, "add_next")
  /\ UNCHANGED <<dsStatus, status, files, done, cluster, brokers, finder, published, faults>>

\* Mutated form of AddRead: the sum is committed before the tasks are sent.
AddReadAndCommit(w, r) ==
  /\ Serving(w, "add_next")
  /\ r \in handler[w].todo
  /\ files' = [files EXCEPT ![r] = @ + handler[w].n]
  /\ Become(w, [handler[w] EXCEPT !.pc = "add_send", !.req = r, !.read = files[r]])
  /\ UNCHANGED <<dsStatus, dsFiles, status, done, cluster, brokers, finder,
                 published, faults>>

\* request.files += len(files), first half: Python reads the value ...
AddRead(w, r) ==
  /\ Serving(w, "add_next")
  /\ r \in handler[w].todo
  /\ Become(w, [handler[w] EXCEPT !.pc = "add_send", !.req = r, !.read = files[r]])
  /\ UNCHANGED <<database, cluster, brokers, finder, published, faults>>

\* ... the sum is flushed when the first task is built (from here the row is
\* locked), and the tasks are sent ...
AddSend(w) ==
  /\ Serving(w, "add_send")
  /\ CanUpdate(w, {handler[w].req})
  /\ SendTasks(handler[w].req, handler[w].n)
  /\ Goto(w, "add_commit")
  /\ UNCHANGED <<database, cluster, finder, published, faults>>

\* Mutated form of AddCommit: the whole row is written back as it was selected.
AddCommitWholeRow(w) ==
  LET r == handler[w].req
  IN  /\ Serving(w, "add_commit")
      /\ files' = [files EXCEPT ![r] = handler[w].read + handler[w].n]
      /\ status' = [status EXCEPT ![r] = "lookup"]
      /\ Become(w, [handler[w] EXCEPT !.pc = "add_next", !.req = None, !.todo = @ \ {r}])
      /\ UNCHANGED <<dsStatus, dsFiles, done, cluster, brokers, finder, published, faults>>

\* ... and request.save_to_db commits.
AddCommit(w) ==
  LET r == handler[w].req
  IN  /\ Serving(w, "add_commit")
      /\ files' = [files EXCEPT ![r] = handler[w].read + handler[w].n]
      /\ Become(w, [handler[w] EXCEPT !.pc = "add_next", !.req = None, !.todo = @ \ {r}])
      /\ UNCHANGED <<dsStatus, dsFiles, status, done, cluster, brokers, finder,
                     published, faults>>

\* Mutated form of AddReturn: the finder gets no answer.
AddReturnSilently(w) ==
  /\ Serving(w, "add_next")
  /\ handler[w].todo = {}
  /\ Return(w)
  /\ UNCHANGED <<database, cluster, brokers, finder, published, faults>>

AddReturn(w) ==
  /\ Serving(w, "add_next")
  /\ handler[w].todo = {}
  /\ Answered(handler[w].finder, handler[w].n)
  /\ Return(w)
  /\ UNCHANGED <<database, cluster, brokers, published, faults>>

\* After its last file the finder declares the fileset complete, and the dataset
\* is marked so in a transaction of its own.
FilesetComplete(w, f) ==
  /\ Serving(w, "idle")
  /\ finder[f].ds # None /\ ~finder[f].busy /\ finder[f].left = 0
  /\ dsStatus' = [dsStatus EXCEPT ![finder[f].ds] = "complete"]
  /\ Become(w, [Idle EXCEPT !.finder = f,
                            !.pc = IF finder[f].total > 0 THEN "fs_pending" ELSE "fs_empty"])
  /\ finder' = [finder EXCEPT ![f].busy = TRUE]
  /\ UNCHANGED <<dsFiles, status, files, done, cluster, brokers, published, faults>>

\* Some files: the pending requests are selected, and the files of the dataset
\* loaded, once for all of them ...
FilesetPending(w) ==
  /\ Serving(w, "fs_pending")
  /\ LET pend == PendingRequests(CallDataset(w))
     IN  Become(w, [handler[w] EXCEPT !.pc = "fs_publish", !.pend = pend, !.todo = pend,
                                      !.n = dsFiles[CallDataset(w)]])
  /\ UNCHANGED <<database, cluster, brokers, finder, published, faults>>

\* ... each is sent its tasks, its row not yet updated ...
FilesetPublish(w, r) ==
  /\ Serving(w, "fs_publish")
  /\ r \in handler[w].todo
  /\ SendTasks(r, handler[w].n)
  /\ Become(w, [handler[w] EXCEPT !.todo = @ \ {r}])
  /\ UNCHANGED <<database, cluster, finder, published, faults>>

\* ... the next query flushes their rows and selects the requests in lookup ...
FilesetLookup(w) ==
  /\ Serving(w, "fs_publish")
  /\ handler[w].todo = {}
  /\ CanUpdate(w, handler[w].pend)
  /\ Become(w, [handler[w] EXCEPT !.pc = "fs_commit",
                                  !.look = LookupRequests(CallDataset(w))])
  /\ UNCHANGED <<database, cluster, brokers, finder, published, faults>>

\* ... and all of them are committed as running, whatever they are by now.
FilesetCommit(w) ==
  LET h == handler[w]
  IN  /\ Serving(w, "fs_commit")
      /\ CanUpdate(w, h.look)
      /\ files' = [r \in Request |-> IF r \in h.pend THEN h.n ELSE files[r]]
      /\ status' = [r \in Request |-> IF r \in h.pend \cup h.look THEN "running" ELSE status[r]]
      /\ LookupOver(h.finder)
      /\ Return(w)
      /\ UNCHANGED <<dsStatus, dsFiles, done, cluster, brokers, published, faults>>

\* No file: the requests in lookup are selected and shut down one by one ...
FilesetEmpty(w) ==
  /\ Serving(w, "fs_empty")
  /\ LET look == LookupRequests(CallDataset(w))
     IN  Become(w, [handler[w] EXCEPT !.pc = "fs_shutdown", !.look = look, !.todo = look])
  /\ UNCHANGED <<database, cluster, brokers, finder, published, faults>>

FilesetShutdown(w, r) ==
  /\ Serving(w, "fs_shutdown")
  /\ r \in handler[w].todo
  /\ ShutdownTransformers(r)
  /\ Become(w, [handler[w] EXCEPT !.todo = @ \ {r}])
  /\ UNCHANGED <<database, finder, published, faults>>

\* ... the pending ones are selected, which flushes the rows of the former ...
FilesetEmptyPending(w) ==
  /\ Serving(w, "fs_shutdown")
  /\ handler[w].todo = {}
  /\ CanUpdate(w, handler[w].look)
  /\ Become(w, [handler[w] EXCEPT !.pc = "fs_empty_commit",
                                  !.pend = PendingRequests(CallDataset(w))])
  /\ UNCHANGED <<database, cluster, brokers, finder, published, faults>>

\* ... and all of them are committed as complete.
FilesetEmptyCommit(w) ==
  LET h == handler[w]
  IN  /\ Serving(w, "fs_empty_commit")
      /\ CanUpdate(w, h.pend)
      /\ status' = [r \in Request |-> IF r \in h.pend \cup h.look THEN "complete" ELSE status[r]]
      /\ LookupOver(h.finder)
      /\ Return(w)
      /\ UNCHANGED <<dsStatus, dsFiles, files, done, cluster, brokers, published, faults>>
-----------------------------------------------------------------------------
(***************************************************************************)
(* The transformers, and TransformerFileComplete.put                       *)
(***************************************************************************)
\* A transformer of r, which needs the ConfigMap to start, finishes a file.
Transform(r) ==
  /\ r \in deployment \cap configmap
  /\ tasks[r] > 0
  /\ tasks' = [tasks EXCEPT ![r] = @ - 1]
  /\ reports' = [reports EXCEPT ![r] = @ + 1]
  /\ UNCHANGED <<database, cluster, lookups, sent, finder, handler, published, faults>>

\* Mutated form of FileRecord: the increment is retried after its commit.
FileRecordRetried(w, r) ==
  /\ Serving(w, "idle")
  /\ reports[r] > 0
  /\ CanUpdate(w, {r})
  /\ reports' = [reports EXCEPT ![r] = @ - 1]
  /\ \E attempts \in 1..2 : done' = [done EXCEPT ![r] = @ + attempts]
  /\ Become(w, [Idle EXCEPT !.pc = "check", !.req = r])
  /\ UNCHANGED <<dsStatus, dsFiles, status, files, cluster, lookups, tasks, sent,
                 finder, published, faults>>

\* A report is counted and its result saved.
FileRecord(w, r) ==
  /\ Serving(w, "idle")
  /\ reports[r] > 0
  /\ CanUpdate(w, {r})
  /\ reports' = [reports EXCEPT ![r] = @ - 1]
  /\ done' = [done EXCEPT ![r] = @ + 1]
  /\ Become(w, [Idle EXCEPT !.pc = "check", !.req = r])
  /\ UNCHANGED <<dsStatus, dsFiles, status, files, cluster, lookups, tasks, sent,
                 finder, published, faults>>

\* files_remaining, which is None when files is zero.  A status read as complete
\* is not written again.
FileCheck(w) ==
  LET r == handler[w].req
  IN  /\ Serving(w, "check")
      /\ IF files[r] # 0 /\ files[r] - done[r] = 0
         THEN Goto(w, IF status[r] = "complete" THEN "shutdown" ELSE "complete")
         ELSE Return(w)
      /\ UNCHANGED <<database, cluster, brokers, finder, published, faults>>

\* Mutated form of FileComplete: the update selects by dataset.
FileCompleteDataset(w) ==
  LET r == handler[w].req
  IN  /\ Serving(w, "complete")
      /\ CanUpdate(w, {r})
      /\ status' = [q \in Request |-> IF DatasetOf[q] = DatasetOf[r] /\ status[q] = "running"
                                      THEN "complete" ELSE status[q]]
      /\ Goto(w, "shutdown")
      /\ UNCHANGED <<dsStatus, dsFiles, files, done, cluster, brokers, finder,
                     published, faults>>

FileComplete(w) ==
  LET r == handler[w].req
  IN  /\ Serving(w, "complete")
      /\ CanUpdate(w, {r})
      /\ status' = [status EXCEPT ![r] = "complete"]
      /\ Goto(w, "shutdown")
      /\ UNCHANGED <<dsStatus, dsFiles, files, done, cluster, brokers, finder,
                     published, faults>>

FileShutdown(w) ==
  /\ Serving(w, "shutdown")
  /\ ShutdownTransformers(handler[w].req)
  /\ Return(w)
  /\ UNCHANGED <<database, finder, published, faults>>
-----------------------------------------------------------------------------
(***************************************************************************)
(* CancelTransform.get                                                     *)
(***************************************************************************)
Cancel(w, r) ==
  /\ Serving(w, "idle")
  /\ status[r] \in TransformStatus \ Terminal
  /\ Become(w, [Idle EXCEPT !.req = r,
                            !.pc = IF status[r] = "running" THEN "cancel_shutdown"
                                                            ELSE "cancel_commit"])
  /\ UNCHANGED <<database, cluster, brokers, finder, published, faults>>

CancelShutdown(w) ==
  /\ Serving(w, "cancel_shutdown")
  /\ ShutdownTransformers(handler[w].req)
  /\ Goto(w, "cancel_commit")
  /\ UNCHANGED <<database, finder, published, faults>>

\* Mutated form of CancelCommit: the status is written by its display name.
CancelCommitName(w) ==
  /\ Serving(w, "cancel_commit")
  /\ CanUpdate(w, {handler[w].req})
  /\ status' = [status EXCEPT ![handler[w].req] = "Canceled"]
  /\ Return(w)
  /\ UNCHANGED <<dsStatus, dsFiles, files, done, cluster, brokers, finder,
                 published, faults>>

CancelCommit(w) ==
  /\ Serving(w, "cancel_commit")
  /\ CanUpdate(w, {handler[w].req})
  /\ status' = [status EXCEPT ![handler[w].req] = "canceled"]
  /\ Return(w)
  /\ UNCHANGED <<dsStatus, dsFiles, files, done, cluster, brokers, finder,
                 published, faults>>
-----------------------------------------------------------------------------
(***************************************************************************)
(* Faults.                                                                 *)
(***************************************************************************)
Fault == faults < MaxFaults /\ faults' = faults + 1

\* A worker is killed, or one of its calls raises; what it has not committed is rolled
\* back.  A finder so cut short calls again or goes on.  A sidecar whose connection
\* broke sends its report again, counted or not; a 500 it takes for an answer.
Abort(w) ==
  LET h == handler[w]
  IN  /\ Fault
      /\ h.pc # "idle"
      /\ Return(w)
      /\ CASE h.pc \in AddStage -> Answered(h.finder, 0) \/ Answered(h.finder, h.n)
           [] h.pc \in FilesetStage -> Answered(h.finder, 0) \/ LookupOver(h.finder)
           [] OTHER -> UNCHANGED finder
      /\ \/ UNCHANGED reports
         \/ /\ h.pc \in FileStage
            /\ reports' = [reports EXCEPT ![h.req] = @ + 1]
      /\ UNCHANGED <<database, cluster, lookups, tasks, sent, published>>

\* transform_complete as a whole is retried, its commit included.
RetryComplete(w) ==
  /\ Fault
  /\ Serving(w, "shutdown")
  /\ Goto(w, "complete")
  /\ UNCHANGED <<database, cluster, brokers, finder, published>>

\* A report is lost: its sidecar gives up, or takes a 500 for an answer.
LoseReport(r) ==
  /\ Fault
  /\ reports[r] > 0
  /\ reports' = [reports EXCEPT ![r] = @ - 1]
  /\ UNCHANGED <<database, cluster, lookups, tasks, sent, finder, handler, published>>

\* A transformer dies: after a report whose task it has not acknowledged (acks_late),
\* so that the task is delivered again; or as the last consumer of the queue of its
\* request (auto_delete), which goes with it.
TransformerDies(r) ==
  /\ Fault
  /\ r \in deployment
  /\ \/ /\ reports[r] + done[r] > 0
        /\ tasks' = [tasks EXCEPT ![r] = @ + 1]
     \/ tasks' = [tasks EXCEPT ![r] = 0]
  /\ UNCHANGED <<database, cluster, lookups, reports, sent, finder, handler, published>>

\* The process that does the lookup dies between two calls, or find_files raises, at
\* once or after some of the files.
LookupDies(f) ==
  /\ Fault
  /\ finder[f].ds # None /\ ~finder[f].busy
  /\ LookupOver(f)
  /\ UNCHANGED <<database, cluster, brokers, handler, published>>
-----------------------------------------------------------------------------
SubmitStep(w) ==
  \/ SubmitCreate(w) \/ SubmitSave(w) \/ SubmitRefresh(w)
  \/ SubmitSendLookup(w) \/ SubmitCommitLookup(w)
  \/ SubmitPublish(w) \/ SubmitCommitPublish(w)
  \/ SubmitPend(w) \/ SubmitStart(w)

AddStep(w) ==
  \/ \E f \in Finder : AddFiles(w, f)
  \/ AddStore(w)
  \/ \E r \in Request : AddRead(w, r)
  \/ AddSend(w) \/ AddCommit(w) \/ AddReturn(w)

FilesetStep(w) ==
  \/ \E f \in Finder : FilesetComplete(w, f)
  \/ FilesetPending(w)
  \/ \E r \in Request : FilesetPublish(w, r)
  \/ FilesetLookup(w) \/ FilesetCommit(w)
  \/ FilesetEmpty(w)
  \/ \E r \in Request : FilesetShutdown(w, r)
  \/ FilesetEmptyPending(w) \/ FilesetEmptyCommit(w)

FileStep(w) ==
  \/ \E r \in Request : FileRecord(w, r)
  \/ FileCheck(w) \/ FileComplete(w) \/ FileShutdown(w)

CancelStep(w) == CancelShutdown(w) \/ CancelCommit(w)

\* What worker w does once it is called by a finder, a transformer or a user.
WorkerStep(w) ==
  SubmitStep(w) \/ AddStep(w) \/ FilesetStep(w) \/ FileStep(w) \/ CancelStep(w)

User(w) == \E r \in Request : Submit(w, r) \/ Cancel(w, r)

Environment ==
  \/ \E f \in Finder, d \in Dataset : Lookup(f, d)
  \/ \E r \in Request : Transform(r)

Faults ==
  \/ \E w \in Worker : Abort(w) \/ RetryComplete(w)
  \/ \E r \in Request : LoseReport(r) \/ TransformerDies(r)
  \/ \E f \in Finder : LookupDies(f)

Next ==
  \/ \E w \in Worker : WorkerStep(w) \/ User(w)
  \/ Environment
  \/ Faults

Spec == Init /\ [][Next]_vars

\* Gunicorn serves every call, transformers and finders work; nobody has to
\* submit or to cancel anything, and nothing has to fail.
Fairness ==
  /\ \A w \in Worker : WF_vars(WorkerStep(w))
  /\ \A r \in Request : WF_vars(Transform(r))
  /\ \A f \in Finder : WF_vars(\E d \in Dataset : Lookup(f, d))

FairSpec == Spec /\ Fairness
-----------------------------------------------------------------------------
(***************************************************************************)
(* Properties of every behaviour, with faults.                             *)
(***************************************************************************)
\* A request never waits for a file whose task was not sent: publish_files and
\* add_files send before they commit the count, and a lost update of
\* request.files (add_files adds in Python) only makes it smaller.
FilesWithinSent == \A r \in Request : files[r] <= sent[r]

\* Whoever publishes the files of a request and however often, its tasks, reports and
\* counted files are together no more than the tasks sent: only a fault (a report sent
\* again, a task delivered again) makes the App count a file twice.
TasksConserved ==
  \A r \in Request : tasks[r] + reports[r] + done[r] <= sent[r] + faults

\* Once a request is running or complete it never waits for its dataset again:
\* no handler that selected it earlier writes an earlier status back.
NeverWaitsAgain ==
  [][\A r \in Request :
       status[r] \in {"running", "complete"}
         => status'[r] \notin {"none", "submitted", "lookup", "pending_lookup"}]_vars

\* A request that its own submission published (its dataset being complete) is
\* declared complete only when as many files were counted as tasks were sent for it,
\* no matter which handlers of other requests of the dataset run beside it; and the
\* files then missing or counted twice are no more than the faults.
PublishedCompletesByCount ==
  \A r \in published :
    status[r] = "complete" =>
      /\ files[r] > 0 /\ sent[r] = files[r]
      /\ done[r] >= files[r] /\ tasks[r] + reports[r] + done[r] <= files[r] + faults

\* Its transformers are taken down only when its count is full, so that no more tasks
\* and reports are left than there were faults, or by a user who cancels it; never by
\* a lookup of its dataset that finds nothing.
TransformersServeToTheEnd ==
  [][\A r \in published :
       r \in deployment /\ r \notin deployment'
         => \/ done[r] >= files[r] /\ tasks[r] + reports[r] <= faults
            \/ \E w \in Worker : handler[w].req = r /\ Serving(w, "cancel_shutdown")]_vars

\* Requests wait only for a dataset that a DID finder was asked for.  A file list
\* has no DID to ask for (DatasetManager.did is None), so it is never looked up.
WaitersHaveLookup ==
  /\ \A r \in Request :
       status[r] \in {"lookup", "pending_lookup"}
         => DatasetOf[r] \notin FileList /\ dsStatus[DatasetOf[r]] \in {"looking", "complete"}
  /\ \A d \in FileList : lookups[d] = 0 /\ \A f \in Finder : finder[f].ds # d

(***************************************************************************)
(* Liveness, under Fairness and without faults.                            *)
(***************************************************************************)
\* A request published by its own submission with at least a file comes to an end,
\* and if it is complete its transformers are taken down.
PublishedRequestsFinish ==
  \A r \in Request :
    /\ r \in published /\ sent[r] > 0 ~> status[r] \in Terminal
    /\ r \in published /\ status[r] = "complete" ~> r \notin deployment

\* Every call of a DID finder is answered: handlers that wait for rows others have
\* updated do not wait forever.
CallsAreAnswered == \A f \in Finder : finder[f].busy ~> ~finder[f].busy

(***************************************************************************)
(* What comments and documents of the repository say.                      *)
(***************************************************************************)
LookupOverFor(d) ==
  /\ \A w \in Worker : Serving(w, "idle")
  /\ lookups[d] = 0
  /\ \A f \in Finder : finder[f].ds # d

\* fileset_complete.py: "Now time to pick up any transform requests for this dataset
\* that came in while we were still looking up files".  So no request is pending
\* on a dataset whose lookup is over.
NobodyStaysPending ==
  \A r \in Request :
    LookupOverFor(DatasetOf[r]) /\ dsStatus[DatasetOf[r]] = "complete"
      => status[r] # "pending_lookup"

\* fileset_complete.py: "No files found for datasetID. Shutting down transformers".
\* So a request completed for want of files keeps no transformers.
EmptyDatasetLeavesNoTransformers ==
  \A r \in Request :
    LookupOverFor(DatasetOf[r]) /\ status[r] = "complete" => r \notin deployment

\* architecture.md: "When the final file is transformed, the App will terminate the
\* pods".  So a request is not complete while files of its dataset are to come.
CompleteMeansFinalFile ==
  \A r \in Request, f \in Finder :
    status[r] = "complete" /\ finder[f].ds = DatasetOf[r] => finder[f].left = 0
=============================================================================
