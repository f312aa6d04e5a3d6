# ServiceX in TLA+

A verification development for ServiceX: TLA+ modules translated from its source,
TLC configurations that check them on small instances, and proofs, checked by
TLAPS, that hold for every instance.  Paths below are relative to the repository;
`app/` stands for `servicex_app/servicex_app/` and `sidecar/` for
`transformer_sidecar/src/transformer_sidecar/`.

    tlc -workers 2 -config MCLifecycleFaults.cfg MCRequestLifecycle
    tlapm RequestLifecycle_published.tla

## 1. The system

A user submits a request: a dataset (a DID, or a list of files) and a query.  The App
generates code for it, has a DID finder look the dataset up unless that is known
already, puts a task for each file in a queue of the request, and starts transformers
that take the tasks.  Each reports its file, and the report that leaves no file
remaining ends the request.

| component | state it keeps | operations | calls |
|---|---|---|---|
| **App: submission** `app/resources/transformation/submit.py`, `app/dataset_manager.py` | `datasets.lookup_status`, `requests.status`, rows of both | `POST /transformation` | code generator, Kubernetes (ConfigMap, deployment), queue of the finder, queue of the request |
| **App: lookup callbacks** `app/resources/internal/add_file_to_dataset.py`, `fileset_complete.py` | `files` rows, `requests.files`, both statuses | `PUT .../files`, `PUT .../complete` | queue of the request, Kubernetes |
| **App: file completion** `app/resources/internal/transformer_file_complete.py` | `files_completed`, `files_failed`, `transform_result`, `requests.status` | `PUT .../file-complete` | Kubernetes |
| **App: cancel** `app/resources/transformation/cancel.py` | `requests.status` | `GET .../cancel` | Kubernetes |
| **App: status** `app/resources/internal/transform_status.py` | `requests.status`, `failure_description` | `POST .../status` | - |
| **App: users** `app/models.py`, `app/resources/users/*`, `app/web/*`, `app/decorators.py`, `app/cli/user_commands.py` | `users` rows, refresh tokens, sessions | sign-in, registration, claim, approval (Slack, administrator, command line), token renewal and refresh, deletion | Slack, Mailgun, Globus |
| **Transformer manager** `app/transformer_manager.py` | a deployment, an autoscaler and a ConfigMap for each request | start, shutdown | Kubernetes |
| **RabbitMQ adaptor** `app/rabbit_adaptor.py` | a connection | connect, declare, publish: only from `submit.py:_setup_rabbit_queues`, which nothing calls | broker |
| **DID finders** `did_finder_*` | nothing; the replicas they find | `lookup_dataset` | Rucio, CERN Open Data, xrootd, the App's two callbacks (through a library that is not in the repository) |
| **Transformer sidecar** `sidecar/transformer.py`, `servicex_adapter.py` | the task at hand | `transform_file` (Celery, `acks_late`) | science container, uploader, App |
| **Uploader** `sidecar/object_store_uploader.py` | a queue of finished files | upload, report | MinIO, App |
| **Science channel** `sidecar/science_container_command.py`, `transformer_sidecar/scripts/watch.sh` | one socket | GeT / request / status / confirm | science container |
| **MinIO cleanup** `minio_cleanup/`, a cron job | what its survey saw: sizes and ages of the buckets | survey, delete the old ones, delete the oldest above the limit | MinIO |
| **X.509 renewal** `x509_secrets/` | one secret | renew | VOMS, Kubernetes |
| **Code generators** `code_generator_*` | none | query to source text | - |

Everything the App does, it does in handlers that five gunicorn processes run
(`servicex_app/boot.sh`), one call each at a time.  They share nothing in memory.
What is hard is therefore all between transactions:

- a handler reads a row, calls a broker or Kubernetes, and commits later; others commit
  in between (`submit.py:216-234`, `fileset_complete.py:57-86`, `cancel.py:49-74`);
- some columns are incremented by the database (`transformer_file_complete.py:79-85`),
  another in Python from a value read earlier (`dataset_manager.py:164`);
- tasks are sent to the brokers before the transaction that accounts for them commits;
- a worker may be killed at any point, and what it has not committed is rolled back,
  what it sent or created in Kubernetes and the object store is not;
- the launch of a request and any number of handlers that end it create and delete its
  objects one call at a time, side by side;
- the cleanup job decides on what its survey saw, while the transformers go on writing;
- a cookie, a form or a token outlives the row it was given for, and a cookie outlives the
  identity it was given to;
- tasks are acknowledged late and so may run twice, reports are retried, or given up.

What makes each component correct:

| component | correct when |
|---|---|
| file completion | every file is counted once; the request ends after, and only after, all are; its transformers go down after it ended |
| submission, lookup | counts never exceed the tasks sent; a request never goes back to waiting; one that waits has a lookup; one whose files are known is published once, and ended when as many are counted |
| cancel, shutdown | only a request's own end or its user takes its transformers down |
| sidecar, uploader | each task ends in one report; none before its file is in the bucket |
| science channel | both ends agree on what comes next; a crash on one end is noticed on the other |
| objects of a request | an accepted request can run; one that was ended leaves nothing, but for what a refused call explains; one that was never saved runs nothing |
| cleanup | no bucket goes for an age it does not have; what is reported is gone; what is kept is within the limit |
| users | an id that a browser keeps is of somebody who signed in there; a request is its submitter's; where there is a webhook nobody waits for an approval that nobody was asked for |

`PROJECT.json` lists the hazards line by line, with the properties that would catch each.

## 2. Modules

    FileBarrier                  the promise: count every file, then finish, then release
      ^  (refinement)
    FileCompletion               one request: reports, handlers, faults
      MCFileCompletion           instances for TLC
      FileCompletion_proofs      theorems
    RequestLifecycle             many requests, datasets, finders and users
      MCRequestLifecycle         instances for TLC
      RequestLifecycle_proofs    types
        RequestLifecycle_safety      tasks are conserved, counts stay within them
          RequestLifecycle_published     the invariant of each request, and its corollaries
    TaskReport                   the promise: one report per task, a success after its result
      ^  (refinement)
    Sidecar                      one transformer pod: worker, uploader, science container
      Sidecar_proofs             theorems
    Transformation               Sidecar and FileCompletion composed: a request from its
                                 first task to the shutdown of its transformers
      MCTransformation           instances for TLC
      Transformation_proofs      theorems
    TransformerObjects           the Kubernetes objects of requests: launch against end
    BucketCleanup                the object store, its writers and the cleanup job
      RequestResources             both composed: the bucket of a request and its pods
        MCRequestResources           instance for TLC
        RequestResources_proofs      theorems
    UserAccounts                 users, sessions, tokens, and who a request is saved for
      MCUserAccounts             instance for TLC
      UserAccounts_proofs        theorems

### FileCompletion

The handler `TransformerFileComplete.put`, one action per transaction or read:

| action | code |
|---|---|
| `Report` | the sidecar, or its uploader, puts one report for a file |
| `Receive` | a worker takes the PUT |
| `Record` | `record_file_complete`: `UPDATE ... SET files_x = files_x + 1`, commit |
| `Save` | `save_transform_result`: `INSERT` the result row, commit |
| `Check` | the expired row is read again, `files_remaining == 0` |
| `Complete`, `Shutdown` | `transform_complete`: commit the status, then delete the deployment |
| `Abort`, `RetryComplete`, `Redeliver`, `LoseReport` | faults, at most `MaxFaults` |

`requests.files` is a constant here, as for a request published from a complete dataset
before its transformers start; the lifecycle has the others.  A tenacity attempt that
fails before it reaches the database changes nothing and is a stuttering step; the
sidecar takes a 500 for an answer and does not repeat it, but does repeat a call whose
connection broke.  `FileBarrier` says what all this is for in three actions, and
`FileCompletion` implements it under the mapping reported = the files counted, finished =
status is complete, released = the deployment is gone.

### RequestLifecycle

All the handlers that touch requests and datasets, in any number of workers:

| handler | actions |
|---|---|
| `SubmitTransformationRequest.post` | `Submit`, `SubmitCreate`, `SubmitSave`, `SubmitRefresh`, then `SubmitSendLookup`/`SubmitCommitLookup`, or `SubmitPublish`/`SubmitCommitPublish`, or `SubmitPend`, then `SubmitStart` |
| `AddFileToDataset.put` | `AddFiles`, `AddStore`, for each request `AddRead`, `AddSend`, `AddCommit`, then `AddReturn` |
| `FilesetComplete.put` | `FilesetComplete`, then `FilesetPending`, `FilesetPublish` for each request, `FilesetLookup`, `FilesetCommit`; or, without files, `FilesetEmpty`, `FilesetShutdown` for each, `FilesetEmptyPending`, `FilesetEmptyCommit` |
| `TransformerFileComplete.put` | `FileRecord`, `FileCheck`, `FileComplete`, `FileShutdown` |
| `CancelTransform.get` | `Cancel`, `CancelShutdown`, `CancelCommit` |
| DID finder | `Lookup`, `LookupDies`; the batches it calls with are chosen in `AddFiles` |
| transformer | `Transform` |
| faults, at most `MaxFaults` | `Abort`, `RetryComplete`, `LoseReport`, `TransformerDies`, `LookupDies` (the process ends, or `find_files` raises) |

`handler[w]` holds the local variables of the Python function that a later step uses:
what it read (`read`, `n`), whom it selected (`pend`, `look`), whom it has still to serve
(`todo`).  Decisions worth knowing:

- *Isolation is PostgreSQL's READ COMMITTED.*  A read sees what is committed; an UPDATE
  waits for the transaction that holds the row (`CanUpdate`).  `RowLocks` derives the
  locks from where a handler is: SQLAlchemy flushes a changed row at the next query
  (autoflush), or at the refresh that building a task makes, and holds it until commit.
- *A flush writes only the columns that changed.*  So a stale object does not overwrite
  the columns that others changed; `AddCommitWholeRow` is the mutant that does.
- *One action where no other process can tell.*  The SELECT of the pending requests and
  the lazy load of the dataset's files are one step, since all that depends on the second
  is how many tasks are sent; shutdown deletes ConfigMap, deployment and (with its last
  consumer) queue in one step.  The result rows are in `FileCompletion` only.
- *A finder finds a number of files* from `FileCounts`; how is abstracted.  The library
  that calls the App for it is not in the repository: it calls with the files in batches
  of any size, one call at a time, then declares the fileset complete.  With a fault it
  may take an aborted call for answered or not, or stop.
- A file list has at least one file (an empty one is refused as a bad request).
- *A fault may count a file twice.*  When a worker that serves a report is killed, the
  connection breaks and the sidecar sends the report again, whether its file was counted
  or not (`Abort`); a transformer that dies after its report has its task delivered again,
  and the last one takes the queue along (`TransformerDies`).  So a request may be complete
  by its count while a file is missing: the properties say by how much.

### Sidecar

Three processes of one pod, and the queue of the request that outlives it:

| process | code | actions |
|---|---|---|
| Celery worker | `transform_file`, `ScienceContainerCommand` | `Deliver`, then for each replica `Synch`, `Send`, `Await`, and `HandOver`, `Confirm` or `ConfirmNext`; `ReportFailure`, `Acknowledge`; its errors `SynchFails`, `ConfirmFails` |
| main program | after `init` returns | `Close`, `Join` |
| upload process | `ObjectStoreUploader.service_work_queue`, `upload_file` | `Take`, `Upload`, `ReportUpload`; its errors `UploadFails`, `ConversionFails` |
| science container | `watch.sh` | `Ask`, `Read`, `Run`, `ReadConfirmation` |
| Kubernetes, Celery (external) | - | `Terminate`, `Replace`, `PodKilled`, `ScienceDies` |

`TaskReport` is what these promise the App together; `Sidecar` implements it under the
mapping available = the files in the bucket (or the volume), succeeded and failed = the
reports put.
Decisions worth knowing:

- *A status names nothing on the wire.*  Its `file` and `replica` are a history tag,
  which no action of the worker reads; `AnswersItsRequest` compares it with the request.
- *One line, one message.*  Both ends alternate, so that two lines never meet in one
  `recv`; that no second line is on its way is part of what `AnswersItsRequest` checks.
- `NoFile` in `uploads` is the poison pill.  `destination` is chosen once, as all tasks of
  a request have the same; without a bucket the worker itself reports the success.
- *`sys.exit` in a task* (`transformer.py:283`) ends the process Celery runs it in; whether
  Celery then acknowledges or returns the task is left open.
- *The queue is `auto_delete`.*  `PodKilled` leaves open whether another pod is subscribed;
  a pod that is scaled down is one of several.
- `lost` is a history variable: what a fault took from the pod's memory or with the queue.
- The science container asks nobody after a restart, since the sidecar accepts once.
- A report is one step; the retries of the PUT and the PUT that is given up are faults of
  the App's side, in `FileCompletion`.  Names of files, caches, statistics and replicas' order are data: a
  replica is the position in the list that `prioritize_replicas` returns.

### Transformation

The pod of `Sidecar` and the handlers of `FileCompletion`, which is instantiated with
`todo` the files that were not reported yet.  Every file's PUT is one more report on its
way (`PodStep`), the handlers take it from there (`Handles`), and which counter they
increment is what the report says (`AsReported`).  Each side keeps its own faults:
`PodKilled` delivers a task again, so `FileCompletion!Redeliver` is not needed, and
`AppFails` has handlers that are cut short and reports that are lost.  Decisions:

- *Nobody waits.*  In the code the sidecar waits for the answer to its PUT; here it may
  also go on before.  That allows more behaviours, and what is shown holds of all.
- *A deleted deployment starts no pods.*  `PodStep` replaces an ended pod, and the pod
  that `PodKilled` leaves starts, only while the deployment is there.  What a pod that
  remains does after the deletion is left free: it may end, or go on.

### TransformerObjects, BucketCleanup and RequestResources

| code | actions |
|---|---|
| `SubmitTransformationRequest.post`, as to what it creates | `Reject`, `CreateBucket` (composed: `SubmitBucket`), `CreateBucketFails`, `GenerateCode`, `GenerateFails`, `ImageMissing`, `Save`, `Launch`, `LaunchRefused`, `LaunchOfLess`, `CreateScaler`, `ScalerRefused`, `SubmissionBreaks` |
| `shutdown_transformer_job`, by any handler that ends the request | `BeginEnd`, `DeleteScaler`, `DeleteSource`, `DeleteDeployment`, `DeleteRefused`, `EndBreaks` |
| Kubernetes (external) | `PodsStart`, `PodsEnd` |
| the App and the uploader, in the object store | `MakeBucket`, `PutObject` (composed: `Upload`, `Elsewhere`) |
| `S3Store.cleanup_storage`, `get_bucket_info`, `delete_bucket` | `StartCleanup`, `Look`, `ChooseOld`, `RemoveObjects`, `RemoveBucket`, `Measure`, `ChooseOldest`, `Enough`, `EndCleanup`; errors `RemoveObjectsFails`, `RemoveOldBucketFails`, `CleanupFails` |
| the calendar | `Tomorrow` |

`RequestLifecycle` has start and shutdown as one step each; here they are taken apart,
and the rest of the lifecycle is left out: any handler may end a saved request at any
time.  Decisions worth knowing:

- *Two kinds of error.*  An `ApiException` is caught where it is raised, call by call,
  and logged; any other exception, or gunicorn's timeout, ends the handler where it is.
  What was created stays in both cases, also what came after the commit.
- *The end may overtake the launch.*  A request is in the database before it is launched,
  so it can be canceled in between and its deployment created afterwards.  `early` is a
  history variable for that case.
- *A request asks for any number of workers.*  Nothing checks it (`submit.py:74`): for
  zero the deployment has no replicas, and one of less than zero Kubernetes refuses, which
  is logged; the submission is accepted in both cases.  `workerless` is a history variable
  for them, and `AcceptedAreServed` says what such a request has.
- *The survey is not a snapshot.*  Each bucket is looked at in a step of its own while
  pods upload.  `size` and `oldest` are what was seen, and all decisions use them.
- *A bucket's age is a day of an object it holds, or today* (`Days`), as in the code: an
  empty bucket is never old.  Objects have size one; ages are whole days.
- *The old buckets are deleted by threads* in any order and interleaved; the second loop
  has one bucket at a time, the oldest.  A bucket that was written to between the removal
  of its objects and its own is refused by the store, without any fault.
- *Errors differ by loop.*  The first logs an exception and leaves the bucket out of the
  report; the second counts a bucket as deleted when `delete_bucket` returns `False`, and
  lets an exception end the job.  The cron job forbids two at once (`cronjob.yaml`).

### UserAccounts

| code | actions |
|---|---|
| `auth_callback`, `sign_out` | `SignIn`, `SignOut` |
| `create_profile`, `update_refresh_token_by_email` | `CreateProfile`, then `Claim`, or `Register`/`RegisterFails` |
| the same after the commit, `post_signup` | `Answer`/`AnswerFails`, or `Announce`/`AnnounceFails` |
| `edit_profile`, `api_token` | `EditProfile`, `RenewToken` |
| `TokenRefresh.post`, and the end of an access token | `RefreshAccess`, `Expire` |
| `auth_required`, `get_requesting_user` | `Admit`, then `SaveRequest` |
| `SlackInteraction.post`, `AcceptUser.post`, the command line | `AcceptUser`, `ApproveUser`, `AddUser` |
| `DeleteUser.delete`, `AllUsers.delete` | `DeleteUser`, `DeleteAll` |

- *A handler that reads a row and commits it is one step.*  SQLAlchemy writes only the
  columns that were assigned, so the values committed do not depend on what others
  changed in between; if the row is gone, or a unique column would repeat, the commit
  fails and so does the handler.  A handler that queries twice, or reads its row again and
  calls Slack after its commit, has a step for each.
- *A person is an identity of Globus*, with the set of those it is linked to (`linked`,
  the `identity_set`).  `SignIn` takes the id of a row of any of them, as the loop of
  `auth_callback.py:48` does.
- *The session is a cookie of the browser*, which several identities may sign in with, one
  after another.  A sign-in without a row replaces `sub` and leaves the id that is there
  (`session.update`); `signed` is history, the identities that ever signed in with the
  cookie.  A registration works on the cookie that came with its call and its answer
  replaces the browser's, even if somebody signed in or out meanwhile.
- *The webhook is optional* (`SIGNUP_WEBHOOK_URL`): without one, sign-ups are pending and
  Slack shows none (`Answer`).
- *A submission needs a token or the cookie of a session.*  `auth_required` lets any
  signed-in session pass, also one of a pending user or without a row, although its
  docstring (`decorators.py:42`) promises these a 401.  `get_requesting_user` is
  `jwt_required(optional=True)`: with a token in the header as well it finds that user,
  with none the identity is `None` and the request is saved without a submitter.
- *Tokens.*  `token` in a row is the identity the refresh token was made for.  A client
  gets an access token while the row has a refresh token of its own; one that was replaced
  before is refused, which is a step that changes nothing.
- *Administrators act at any time.*  Who may call what they call (`admin` in the cookie,
  the token of an administrator) is not modelled.
- A deleted row keeps its `sub` in `row`, as history: what old ids and requests meant.

## 3. What TLC checks

Passing runs:

| run | instance | properties | shows |
|---|---|---|---|
| `completion` | 3 files, 3 workers, fair | `LastReportFinishes`, `ImplementsFairBarrier` | Nobody misses the last report, and the handlers implement the barrier with its liveness.  With three of each, every pair of handlers races while a third is at any other stage. |
| `completion_faults` | 2 files, 2 workers, 2 faults | `TypeOK`, `Accounting`, `FinishedAfterAllCounted`, `ExtraCountsNeedFaults` | What is left of that when handlers are killed, tasks redelivered, reports lost or repeated.  Two faults are the least that combine (lost and repeated, killed twice). |
| `lifecycle_faults` | 2 requests, 1 dataset of 0 or 1 file, 2 workers, 1 fault | `TypeOK`, `FilesWithinSent`, `TasksConserved`, `NeverWaitsAgain`, `PublishedCompletesByCount`, `TransformersServeToTheEnd` | What no interleaving breaks beside a handler or a lookup cut short, a report lost or sent again, or a task delivered again; among it, that a request which published a complete dataset is ended by its count, beside another lookup of the same dataset.  A repeated report makes the count of a one-file dataset pass its files; that a fault may end a request of more files before all are counted is in `completion_faults` and `transformation_faults`, and in the theorems. |
| `transformation` | 2 tasks, 2 replicas, 1 pod scaled down, 2 workers, no faults, fair | `ImplementsTaskReport`, `ImplementsCompletion`, `CompleteMeansAllResults`, `ShutdownFindsNothingToDo`, `RequestEnds` | Every task is reported once and as a success only when its result is there, with a bucket and with a volume, also when the pod is stopped in the middle; the request is complete, and shut down, no sooner, and in the end it is. |
| `transformation_faults` | the same with 1 worker, 1 fault of the pod (pods killed included) and 1 of the App | `TypeOK`, `AnswersItsRequest`, `EveryTaskAccounted`, `ReportsBounded`, `MissingNeedFaults` | The two ends of the socket never get out of step; nobody but a fault loses a file; a fault costs one more report at most, and one missing file at most in a request that is complete. |
| `lifecycle_live` | a DID and a file list, 0 or 1 file each, 2 workers, fair | `WaitersHaveLookup`, `PublishedRequestsFinish`, `CallsAreAnswered` | Published requests end, their transformers go, and no handler waits for a row for ever. |
| `resources` | 1 request and 1 other bucket, 2 enders, 1 object, 2 days, 1 fault or error, limit 1 and target 0 | `TypeOK`, `AcceptedAreServed`, `LeftoversBounded`, `TransformersHadBuckets`, `UnsavedLeaveNothingRunning`, `ReportedAreGone`, `StorageBounded`, `YoungBucketsSurvive` | Launch against end, each call failing by itself, and the cleanup against the pods that write. |
| `accounts` | 2 identities that share a browser, linked and without a webhook or not linked and with one, 2 addresses, the client of 1, 2 rows ever, 1 request, 1 failure of the webhook | `AccountsTypeOK`, `SessionsKnowTheirUser`, `PendingAreAnnounced`, `SubmitterIsWhoAsked` | Registration, claims, approval and deletion beside each other, in any order, and what cookies, Slack and requests make of it. |

Two workers give every interleaving of two handlers at the grain of transactions, and the
hazards listed are all of that kind: one handler between two of its steps, and one or
more others that commit.  Two requests give one at each end of every pair (published and
looking, pending and looking).  Two files are needed where batches or the order of the
reports matter (`completion`, `lifecycle_partial`), and one is enough elsewhere.  The
proofs lift what they cover to any number of each, all properties of `lifecycle_faults`
among them.  Two tasks of a pod show an answer or an upload of one that meets the
other, and two replicas are the least with a first and a last.  One fault of the pod and
one of the App combine into a file reported twice and a file that is not; that more of
them combine no worse is what the theorems add, which bound nothing, and two handlers
that race are in the run without faults.
One request's objects are not another's, so `resources` follows one; two enders are the
least that race, and two buckets of one object exceed the limit, so that both loops of
the cleanup delete.  Two days tell old from young.  `MaxFaults` and `MaxErrors`
are bounded together by `FewFaults`.  A request asks for -1, 0 or 2 workers: refused,
none, and more than it has files.  Two identities are the least to be linked, or to follow
each other in a browser; two addresses, one of them the administrator's, allow one to be
edited to, claimed by and registered by another identity than the one it was listed for; a
second row is the least after a deletion, and the sub or the address of the first may come
again with it.
Deadlock checking is off since every behaviour ends when all requests are submitted and
done, all tasks of the pod are, or a bound is reached.  Workers, finders, handlers that
end a request, and requests or files, are symmetric in the runs without liveness.

Runs that TLC refutes, each on the smallest instance that shows it.  They state what a
comment or the documentation says, and the counterexample is what the code does:

| run | what is said | what happens |
|---|---|---|
| `lifecycle_pending` | `fileset_complete.py:56`: requests that came in during the lookup are picked up | one that read *looking* and commits *pending_lookup* after the selection is never picked up |
| `lifecycle_empty` | `fileset_complete.py:69`: no files found, shutting down transformers | the transformers of pending requests, started at `submit.py:237`, stay |
| `lifecycle_partial` | `architecture.md:264`: the pods are terminated after the final file | when transformers catch up between two add-files calls the request is completed and shut down |
| `completion_redelivery` | the same | one task delivered twice and counted before either handler reads: remaining is -1 for both, and the pods stay |

### Fairness

`FileCompletion`: each file's `Report` and each worker's `Step` are weakly fair.  A
transformer that runs finishes its task, and nothing a handler does waits for another.
`RequestLifecycle`: the steps of each worker, `Transform` of each request and `Lookup` of
each finder process are weakly fair.  `WorkerStep` includes taking a call that has come
in, since gunicorn serves its backlog; weak fairness is enough as a row lock that blocks
is released by a handler that is itself fair.  Users (`Submit`, `Cancel`) and faults have
no fairness, and the liveness runs have no faults: a killed handler really may leave a
request unfinished.  `Transformation`: the worker, the uploader and the container are processes
of their own and weakly fair (a transformation ends), and so are `Replace`, as Kubernetes
keeps the number of pods, and each worker of the App; `Terminate` and the faults are not.  `RequestResources` and
`UserAccounts` state safety only and have no fairness: a cleanup may be cut short every
time, and whether a user is ever approved is for people to decide.

## 4. What is proved

For any number of files, requests, datasets, workers, finders and faults, from the named
assumptions on the constants only (`FileAssumption`, `BoundAssumption`, `WorkerAssumption`, `RequestAssumption`, `AppAssumption`,
`DatasetAssumption`, `NoneAssumption`, `FaultAssumption`, `ObjectsAssumption`,
`CleanupAssumption`, `ResourcesAssumption`, `AccountsAssumption`):

| theorem | says |
|---|---|
| `FileCompletion_proofs!TypeCorrect` | the types, with faults |
| `AccountingHolds` | counters and rows agree up to handlers between the two commits, and faults |
| `FinishedAfterAllCountedHolds` | completion after as many counts as files, shutdown after completion |
| `ExtraCountsNeedFaultsHolds` | extra counts are at most the faults |
| `LastReportFinishesHolds` | without faults, nobody misses the last report |
| `BarrierImplemented` | the handlers implement the safety of `FileBarrier` |
| `RequestLifecycle_proofs!TypeCorrect` | the types of the lifecycle, with faults |
| `WaitersHaveLookupHolds` | requests wait only for datasets that were asked for |
| `TasksConservedHolds` | no task is done or counted that was not sent, but for one for each fault |
| `FilesWithinSentHolds` | a request never waits for a file whose task was not sent |
| `RequestsOKHolds` | the inductive invariant of each request (below) |
| `PublishedCompletesByCountHolds` | a published request is complete only when as many files were counted as tasks were sent; what is left or was counted twice is within the faults |
| `NeverWaitsAgainHolds` | running and complete requests never go back to waiting |
| `TransformersServeToTheEndHolds` | only a full count, or its user, takes a published request's transformers down |
| `Sidecar_proofs!TypeCorrect` | the types of a pod, with faults |
| `EveryTaskAccountedHolds` | a file is in the queue, with the worker, with the uploader, reported, or was taken by a fault |
| `ReportsBoundedHolds` | a file is reported once, and once more for each fault at most |
| `AnswersItsRequestHolds` | an answer the worker acts on is about the file and the copy it sent |
| `TaskReportImplemented` | without faults a pod implements the safety of `TaskReport` |
| `PodImplemented` | the pod beside the App is `Sidecar`'s: the five theorems before hold of it |
| `CompletionImplemented` | without faults the App beside the pod is `FileCompletion`'s: each file is reported to it once |
| `CompleteMeansAllResultsHolds` | until something fails, complete means: each file reported once, the successes available, the counters right |
| `ShutdownFindsNothingToDoHolds` | until something fails, a shutdown finds no task, no report and no upload left to do |
| `MissingNeedFaultsHolds` | a request that is complete or shut down misses no more files than there were faults |
| `RequestResources_proofs!ResourcesTyped` | the types of objects, buckets and the cleanup job; no bucket is kept and doomed |
| `ResourcesServe` | without faults an accepted request has its row, its code, its autoscaler and, unless it asked for none, replicas |
| `ResourcesReleased` | each object left after an end that began after the launch has a fault of its own |
| `ResourcesHadBuckets` | pods of a request for the object store run only after its bucket was created |
| `ResourcesUnsaved` | a submission that fails before its commit leaves nothing that runs, and no data |
| `ResourcesReported` | without errors of the store, what the job reports is gone |
| `ResourcesBounded` | after a job without errors what is stored is within the limit, but for what was written meanwhile |
| `ResourcesYoungSurvive` | no bucket is deleted for an age it does not have |
| `UserAccounts_proofs!AccountsTyped` | the types of accounts, with unique subs and addresses |
| `AccountsSessions` | the id in a cookie is of a row linked to somebody who signed in with it, for ever |
| `AccountsSubmitters` | a request names the user of its token, or nobody without a token or if that user was deleted |
| `AccountsAnnounced` | with a webhook that does not fail nobody who signed up waits unannounced |

The arguments:

- *Types.*  `TypeOK` of the lifecycle says more than ranges.  A handler in a call of the
  finder needs that finder to be on a dataset and waiting (`HandlerOK`), and two handlers
  never serve the same call; otherwise answering one would pull the dataset from under the
  other.  The proof splits it in `CallsOK` and `DataOK`, and one lemma per way a call
  begins, goes on and ends.
- *Accounting* needs how a step changes the *number* of workers at a stage (`AtEnter`,
  `AtLeave`), so this part uses the library's theorems on cardinality.
- *ExtraCountsNeedFaults* bounds what was counted together with what may still be: tasks
  that are not finished, reports on their way (`Travelling`), workers about to record, and
  files that a fault took away (`Stray`).  A step moves one unit of this `Tally` from one
  to another, and a fault adds one at most.  A file that is not counted is in one of the
  four, so what was counted twice is within the faults.
- *LastReportFinishes* rests on `CountedOnce`: without faults each file is at one place
  only, so the counters equal the number of files counted, and the worker whose increment
  was last reads zero.
- *FilesWithinSent* is not inductive: `files` is committed after the tasks are sent, from
  a value read before.  The strengthening `CountsOK` adds that what each handler is about
  to commit is already within what was sent (`ToCommitSent`).  Its key is that `sent` only
  grows, while `files` may be overwritten by a smaller sum.
- *WaitersHaveLookup* holds because what a submission reads of its dataset lasts: a row is
  never deleted, a lookup under way or over stays so, a file list is complete from its
  creation (`Looks`, for each stage between the reads and the commit).
- *RequestsOK* is the invariant behind the last three.  For each request by itself: until
  its submission commits its decision nobody but a user who cancels it has anything to do
  with it, and it has no transformers and no report (`SubmittingOK`, `UnsubmittedOK`);
  once published, `files = sent`, no finder's handler has chosen it, and a handler about
  to complete or shut it down saw its count full (`PublishedOK`).  Every action either
  leaves a request alone (`Frame`), or frees it from both claims (`Loose`), or is one of
  the few steps shown in full.  With faults a count may pass
  the files, so `done >= files` takes the place of equality, and `TasksConserved` bounds by
  the faults what is left or was counted twice.  TLC checked this invariant
  on the two lifecycle instances before it was proved.
- *EveryTaskAccounted* of a pod is not inductive: a task is acknowledged before its file is
  uploaded, and a pod that ends takes its upload queue along.  `HandedOver` says that the
  worker gives up a task only when its file is settled, and `PillOK` that the poison pill
  is the last item and that a pod ends behind it, so that nothing is in the queue then.
  The proof shows that no step unsettles a file (`SettledStable`).
- *ReportsBounded* counts what is still owed with what was reported: `Due` is one if the
  file is fresh or its task raised, and one if the uploader has it.  Worker and uploader
  both owe a report only after a fault, and the fault comes first: while the container is
  dead under a worker that has not confirmed (`Broken`), the `Budget` of that file is one
  smaller.  `OnceOK` says that nothing is with the uploader twice or while the worker
  still has it, and `StopOK` that a container which was told to stop did not die.
- *AnswersItsRequest* follows from what can be on the socket for each pair of stages of
  worker and container (`BetweenOK`, `SendOK`, `AwaitOK`, `GivenOK`): never more than one
  line.  `OnDiskOK`, that the result of a success is still in the shared volume when it is
  handed over, needs `OnceOK`: the uploader removes no result but the one it has.
- *TaskReport*, with no faults: then a file that is still owed was never reported, by the
  `Budget` above (`OwedUnreported`), and the uploader reports only what it has stored
  (`UploadedOK`).  The map to `TaskReport` is the one of `ImplementsTaskReport`; its
  fairness is left to the run.
- *The whole request.*  The pod's invariants are proved with the hypothesis that no fault
  has happened yet, rather than that none may, so that they say something of every
  behaviour up to its first fault.  Until then a step of the pod is `Report` or nothing for
  the App (`FaultFreeStep`), and `CountedOnce` carries over; `Heard` says that the App knows
  of no file that was not reported, and `Counters` that its counters are the numbers of
  files counted for either report.  A file that is counted and reported once owes nothing
  (`Budget`), which is what a shutdown needs.
- *MissingNeedFaults* is counted on both sides.  The reports are taken one by one, as
  pairs of a file and a number, to have cardinalities in place of sums.  `PaidFor`: all
  reports but the first of each file, those to come included, are at most the pod's faults;
  a container that died after its success (`Pending`) has paid for the failure that will
  be reported, so that this is inductive.  `Flow`: what was counted, is on its way, or is
  about to be counted is at most what was told and the App's faults.  As many counts as
  files (`FinishedAfterAllCounted`) then leave no more files untold than faults.  TLC
  checked `Heard`, `Counters`, `PaidFor` and `Flow` on the instance with faults first.
- *Resources.*  A step of the composition is a step of one part, of the other, or of both
  (`Split`), so each conjunct of the invariant is proved of the part it is about.
  `Launching` says how far a submission and the ends of its request can have got,
  `Served` what it has at each stage, and `FaultsExplain` counts: the objects an end has
  already passed and that are still there are at most the faults.  For the cleanup,
  `Dated` keeps every day that was seen at or after the bucket's creation, `Condemned`
  carries that to the buckets chosen for their age, so that writes after the survey
  cannot make the choice wrong.  `ReportedAreGone` is inductive as bucket names are never
  used twice.  `Surveyed` is behind the bound of what is stored: while the store has no
  errors, the objects of a bucket that are older than the job (`Old`) are at most what the
  survey found there, and what is deleted is taken off the sum of those sizes.  That sum is
  the cardinality of a set of units (`Units`), so that removing a bucket (`TotalRemove`) and
  comparing it with the objects (`TotalBounds`) need no induction.  `Provided` ties a submission past its first step to its bucket.
- *Accounts.*  A row never changes hands (`RowsStay`): no handler assigns `sub`, and ids
  are not reused.  So what a cookie, a form, a token or a request kept (`Known`) stays true
  of the row it names, deleted or not.  `SignedBy` says that a session, and one that a
  registration is about to send, is of somebody who signed in with it, which is whose row
  a new id is.  The proof looks at what a step may make of a cookie and of a form
  (`CookieMoves`, `FormMoves`), instead of at the steps.  A pending user who is neither
  announced nor added by an administrator has a handler on its way to say so: the row and
  the handler appear in one step (`Register`), and it ends by an announcement unless the
  row was approved or deleted.

Only model-checked: the liveness properties and the fair refinements (temporal reasoning
under fairness is out of the prover's reach; of `TaskReport` and `FileBarrier` that is all
that is left), and the four refuted statements.  Every invariant and every action property
of a passing run is a theorem.

## 5. Not modelled, and the bounds of the claims

- *Row-lock cycles.*  `CallsAreAnswered` holds on its instance; a cycle of waits needs two
  lookups of one dataset with different outcomes and more requests.  PostgreSQL would
  abort one of the transactions, which the model has as `Abort`.
- *The regression of a dataset* from complete to looking, by a slow submission that sent a
  second lookup, is a behaviour of the model which no property forbids.
- *Terminal statuses overwritten* by a handler that selected the request earlier: in the
  model, and no document says that it does not happen.
- Two submissions with the same content are two requests; request ids are unique.
- `TransformStatus` "Fatal" and "Bad Dataset" are not written by any handler that succeeds
  (`transform_status.py:25` assigns a value the column refuses).
- *Launch against end.*  An end that begins before the launch is through may leave what
  is created after it; `LeftoversBounded` claims nothing there (`early`).
- *After an error of the store* the second loop of the cleanup counts buckets that are
  still there, and so may stop above its target; `ReportedAreGone` and `StorageBounded`
  hold without errors only.  An empty bucket is never deleted for its age, and nothing
  protects the bucket of a request that still runs, if the limit is exceeded.
- *Users.*  `docs/deployment/user_management.md:32` says that a user created on the command
  line gets access with the first sign-in; in the model, as in the code, the row of one
  without a refresh token stays pending until the profile form claims it or somebody
  approves it, and nobody is told (`listed`).  `servicex_resource.py:55` says that the user
  cannot be `None`; it is for a submission by the cookie of a session, and when the row was
  deleted after the call was admitted.  A claim takes whatever row has the address when it
  commits, and gives it a refresh token of the claimant's identity: no property says whose
  row that is.  `sub` and id of a session may be of different identities, and `edit_profile`
  goes by the one, pages by the other.  `delete_all_pending` (`models.py:126`) raises before
  it changes anything.  Expired sessions, signatures, mails and Globus are not modelled.
- A file whose upload failed is reported as a success: the code does so, and so does
  `UploadFails`; that a success means a stored file is claimed without faults only.
- A pod that hangs (the parser raised and the container waits for its confirmation, or
  the main program for an uploader that never got the poison pill) is a behaviour of
  `Sidecar` with faults until `PodKilled`; no liveness is claimed there.
- `rabbit_adaptor.py` is reached only from `_setup_rabbit_queues`, which nothing calls.
- DID finders: how Rucio, CERN Open Data and xrootd resolve a DID is sequential and
  without state; the library that drives the lookups is not in the repository.
- DID parsing, the routing of tasks, the order of replicas and the hashing of paths are
  sequential functions of strings; the modules have their outcomes.
- Code generators, web pages, read-only resources, X.509 renewal, charts: sequential
  translation, pages without state, a loop around a command, configuration.

## 6. Plan

Done: the core (file completion, the request lifecycle, their proofs), the transformer
pod and its composition with file completion, the objects and buckets of requests with the
cleanup job, and the users.

1. Lifecycle, further: the lifecycle of one published request shown to implement
   `FileBarrier`.
