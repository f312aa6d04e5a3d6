-------------------------- MODULE TransformerObjects --------------------------
(***************************************************************************)
(* What a request owns in Kubernetes: the ConfigMap with its generated     *)
(* code, the deployment of its transformers and, with the autoscaler, a    *)
(* HorizontalPodAutoscaler.  The handler of the submission creates them    *)
(* one after another; any number of handlers that end the request (its     *)
(* last file, a cancellation, an empty dataset) delete them one after      *)
(* another, and may do so while the submission is still creating.          *)
(*                                                                         *)
(* A call to Kubernetes may be refused (ApiException, which is logged, but *)
(* for the ConfigMap) or fail to get through (any other exception, which   *)
(* ends the handler), and gunicorn may end a handler that takes too long.  *)
(***************************************************************************)
EXTENDS Integers, FiniteSets

CONSTANTS Request,
          Ender,        \* the handlers that may end a request
          MinReplicas,  \* TRANSFORMER_MIN_REPLICAS
          CheckImage,   \* TRANSFORMER_VALIDATE_DOCKER_IMAGE
          Workers,      \* the numbers of transformers that a request may ask for
          MaxFiles,     \* bound on the number of files a request has at its launch
          MaxFaults     \* bound on refused and failed calls and aborted handlers

ASSUME ObjectsAssumption ==
  /\ CheckImage \in BOOLEAN
  /\ MinReplicas \in Nat \ {0}
  /\ Workers \subseteq Int
  /\ {MaxFiles, MaxFaults} \subseteq Nat

VARIABLES
  autoscale,   \* TRANSFORMER_AUTOSCALE_ENABLED, which nothing changes
  submission,  \* submission[r]: where the handler of the submission is
  saved,       \* the requests that are in the database
  source,      \* the requests with a ConfigMap,
  deployed,    \* ... a deployment,
  replicas,    \* ... of so many replicas,
  scaler,      \* ... an autoscaler,
  pods,        \* ... transformers that run
  ending,      \* ending[r][e]: where the handler e that ends r is
  early,       \* history: the requests whose end began before they were launched
  workerless,  \* history: the requests launched for no transformer, as they asked
  faults       \* number of faults so far

terms == <<autoscale, workerless>>
objectVars == <<terms, submission, saved, source, deployed, replicas, scaler, pods, ending, early, faults>>
-----------------------------------------------------------------------------
Submitting == {"parse", "generate", "image", "launch", "scale"}
Answer == {"accepted", "rejected", "failed"}
Ending == {"none", "scaler", "source", "deployment", "ended", "broken"}

Largest(a, b) == IF a >= b THEN a ELSE b
Smallest(a, b) == IF a <= b THEN a ELSE b

ObjectsTypeOK ==
  /\ autoscale \in BOOLEAN
  /\ submission \in [Request -> Submitting \cup Answer]
  /\ {saved, source, deployed, scaler, pods, early, workerless} \subseteq SUBSET Request
  /\ replicas \in [Request -> Nat]
  /\ ending \in [Request -> [Ender -> Ending]]
  /\ faults \in 0..MaxFaults

ObjectsInit ==
  /\ autoscale \in BOOLEAN
  /\ submission = [r \in Request |-> "parse"]
  /\ saved = {} /\ source = {} /\ deployed = {} /\ scaler = {} /\ pods = {} /\ early = {}
  /\ workerless = {}
  /\ replicas = [r \in Request |-> 0]
  /\ ending = [r \in Request |-> [e \in Ender |-> "none"]]
  /\ faults = 0

Fault == faults < MaxFaults /\ faults' = faults + 1
Go(r, from, to) == submission[r] = from /\ submission' = [submission EXCEPT ![r] = to]
AfterLaunch == IF autoscale THEN "scale" ELSE "accepted"

\* Mutated form of Replicas: the deployment is scaled to the files there are.
ReplicasForFiles(files, workers) ==
  IF autoscale THEN MinReplicas ELSE Smallest(files, workers)

\* Not more transformers than files, but one if there is no file yet; and not more
\* than were asked for, be that none.
Replicas(files, workers) ==
  IF autoscale THEN MinReplicas ELSE Smallest(Largest(1, files), workers)
-----------------------------------------------------------------------------
(***************************************************************************)
(* The submission                                                          *)
(***************************************************************************)
\* A malformed request, an unknown code generator, a DID with an unknown scheme,
\* or not exactly one of DID and file list.
Reject(r) ==
  /\ Go(r, "parse", "rejected")
  /\ UNCHANGED <<terms, saved, source, deployed, replicas, scaler, pods, ending, early, faults>>

\* create_bucket, if the results go to the object store: the bucket itself is in
\* the module that composes this one with the object store.
CreateBucket(r) ==
  /\ Go(r, "parse", "generate")
  /\ UNCHANGED <<terms, saved, source, deployed, replicas, scaler, pods, ending, early, faults>>

CreateBucketFails(r) ==
  /\ Go(r, "parse", "failed")
  /\ Fault
  /\ UNCHANGED <<terms, saved, source, deployed, replicas, scaler, pods, ending, early>>

\* generate_code_for_selection and create_configmap_from_zip.
GenerateCode(r) ==
  /\ Go(r, "generate", "image")
  /\ source' = source \cup {r}
  /\ UNCHANGED <<terms, saved, deployed, replicas, scaler, pods, ending, early, faults>>

\* The code generator refuses the selection or does not answer, or there is no
\* ConfigMap: its exception is not caught before the handler's own.
GenerateFails(r) ==
  /\ Go(r, "generate", "failed")
  /\ UNCHANGED <<terms, saved, source, deployed, replicas, scaler, pods, ending, early, faults>>

\* The answer is an error; the ConfigMap and the bucket stay.
ImageMissing(r) ==
  /\ CheckImage
  /\ Go(r, "image", "failed")
  /\ UNCHANGED <<terms, saved, source, deployed, replicas, scaler, pods, ending, early, faults>>

\* Mutated form of Save: the row is left to the commit of the caller.
SaveUncommitted(r) ==
  /\ Go(r, "image", "launch")
  /\ UNCHANGED <<terms, saved, source, deployed, replicas, scaler, pods, ending, early, faults>>

\* The image exists, or nobody asked: save_to_db up to the commit.
Save(r) ==
  /\ Go(r, "image", "launch")
  /\ saved' = saved \cup {r}
  /\ UNCHANGED <<terms, source, deployed, replicas, scaler, pods, ending, early, faults>>

\* start_transformers and _create_job.  Nothing checks the number that r asks for.
Launch(r) ==
  /\ Go(r, "launch", AfterLaunch)
  /\ deployed' = deployed \cup {r}
  /\ \E files \in 0..MaxFiles, workers \in Workers :
       /\ Replicas(files, workers) >= 0
       /\ replicas' = [replicas EXCEPT ![r] = Replicas(files, workers)]
       /\ workerless' = IF autoscale \/ workers > 0 THEN workerless ELSE workerless \cup {r}
  /\ UNCHANGED <<autoscale, saved, source, scaler, pods, ending, early, faults>>

\* _create_job and _create_hpa log an ApiException and go on.
LaunchRefused(r) ==
  /\ Go(r, "launch", AfterLaunch)
  /\ Fault
  /\ UNCHANGED <<terms, saved, source, deployed, replicas, scaler, pods, ending, early>>

\* Kubernetes always refuses a deployment of less than no replicas.
LaunchOfLess(r) ==
  /\ Go(r, "launch", AfterLaunch)
  /\ \E files \in 0..MaxFiles, workers \in Workers : Replicas(files, workers) < 0
  /\ workerless' = workerless \cup {r}
  /\ UNCHANGED <<autoscale, saved, source, deployed, replicas, scaler, pods, ending, early, faults>>

\* _create_hpa.
CreateScaler(r) ==
  /\ Go(r, "scale", "accepted")
  /\ scaler' = scaler \cup {r}
  /\ UNCHANGED <<terms, saved, source, deployed, replicas, pods, ending, early, faults>>

ScalerRefused(r) ==
  /\ Go(r, "scale", "accepted")
  /\ Fault
  /\ UNCHANGED <<terms, saved, source, deployed, replicas, scaler, pods, ending, early>>

\* An exception, or the end of the handler by gunicorn: nothing is undone, not
\* even after the commit.
SubmissionBreaks(r) ==
  /\ submission[r] \in Submitting
  /\ submission' = [submission EXCEPT ![r] = "failed"]
  /\ Fault
  /\ UNCHANGED <<terms, saved, source, deployed, replicas, scaler, pods, ending, early>>
-----------------------------------------------------------------------------
(***************************************************************************)
(* shutdown_transformer_job                                                *)
(***************************************************************************)
Move(r, e, from, to) ==
  /\ ending[r][e] = from
  /\ ending' = [ending EXCEPT ![r][e] = to]

\* A handler that finds the request in the database ends it.
BeginEnd(r, e) ==
  /\ r \in saved
  /\ Move(r, e, "none", IF autoscale THEN "scaler" ELSE "source")
  /\ early' = IF submission[r] \in Submitting THEN early \cup {r} ELSE early
  /\ UNCHANGED <<terms, submission, saved, source, deployed, replicas, scaler, pods, faults>>

DeleteScaler(r, e) ==
  /\ Move(r, e, "scaler", "source")
  /\ scaler' = scaler \ {r}
  /\ UNCHANGED <<terms, submission, saved, source, deployed, replicas, pods, early, faults>>

DeleteSource(r, e) ==
  /\ Move(r, e, "source", "deployment")
  /\ source' = source \ {r}
  /\ UNCHANGED <<terms, submission, saved, deployed, replicas, scaler, pods, early, faults>>

\* With cancel_consumer, whatever it raises.
DeleteDeployment(r, e) ==
  /\ Move(r, e, "deployment", "ended")
  /\ deployed' = deployed \ {r}
  /\ replicas' = [replicas EXCEPT ![r] = 0]
  /\ UNCHANGED <<terms, submission, saved, source, scaler, pods, early, faults>>

\* Mutated form of DeleteRefused: one try statement around all calls.
DeleteRefusedEndsAll(r, e) ==
  /\ \E step \in {"scaler", "source", "deployment"} : Move(r, e, step, "ended")
  /\ Fault
  /\ UNCHANGED <<terms, submission, saved, source, deployed, replicas, scaler, pods, early>>

\* Each call has a try statement of its own: after an ApiException the next one
\* is made.
DeleteRefused(r, e) ==
  /\ \/ Move(r, e, "scaler", "source")
     \/ Move(r, e, "source", "deployment")
     \/ Move(r, e, "deployment", "ended")
  /\ Fault
  /\ UNCHANGED <<terms, submission, saved, source, deployed, replicas, scaler, pods, early>>

\* Any other exception, or the end of the handler.
EndBreaks(r, e) ==
  /\ ending[r][e] \in Ending \ {"none", "ended", "broken"}
  /\ ending' = [ending EXCEPT ![r][e] = "broken"]
  /\ Fault
  /\ UNCHANGED <<terms, submission, saved, source, deployed, replicas, scaler, pods, early>>
-----------------------------------------------------------------------------
(***************************************************************************)
(* Kubernetes                                                              *)
(***************************************************************************)
\* A pod mounts the ConfigMap when it starts.
PodsStart(r) ==
  /\ r \in deployed \cap source /\ r \notin pods /\ replicas[r] > 0
  /\ pods' = pods \cup {r}
  /\ UNCHANGED <<terms, submission, saved, source, deployed, replicas, scaler, ending, early, faults>>

\* The pods outlive their deployment for the grace period.
PodsEnd(r) ==
  /\ r \in pods \ deployed
  /\ pods' = pods \ {r}
  /\ UNCHANGED <<terms, submission, saved, source, deployed, replicas, scaler, ending, early, faults>>
-----------------------------------------------------------------------------
SubmissionStep(r) ==
  \/ Reject(r) \/ CreateBucketFails(r) \/ GenerateCode(r) \/ GenerateFails(r)
  \/ ImageMissing(r) \/ Save(r) \/ Launch(r) \/ LaunchRefused(r)
  \/ LaunchOfLess(r) \/ CreateScaler(r) \/ ScalerRefused(r) \/ SubmissionBreaks(r)

EndStep(r, e) ==
  \/ BeginEnd(r, e) \/ DeleteScaler(r, e) \/ DeleteSource(r, e) \/ DeleteDeployment(r, e)
  \/ DeleteRefused(r, e) \/ EndBreaks(r, e)

\* All steps but CreateBucket.
ObjectsStep ==
  \E r \in Request : \/ SubmissionStep(r) \/ PodsStart(r) \/ PodsEnd(r)
                     \/ \E e \in Ender : EndStep(r, e)

ObjectsNext == ObjectsStep \/ \E r \in Request : CreateBucket(r)
ObjectsSpec == ObjectsInit /\ [][ObjectsNext]_objectVars
-----------------------------------------------------------------------------
Ended(r) == \E e \in Ender : ending[r][e] = "ended"
Untouched(r) == \A e \in Ender : ending[r][e] = "none"

\* What a request has in Kubernetes.
Owned(r) == {kind \in {"source", "deployment", "scaler"} :
               \/ kind = "source" /\ r \in source
               \/ kind = "deployment" /\ r \in deployed
               \/ kind = "scaler" /\ r \in scaler}

\* A request that asks for a transformer, or leaves their number to the autoscaler, and
\* whose submission was answered with its id has one at least that can start, from its
\* own code, until something ends it: the answer follows the whole launch, and only
\* faults excuse it (submit.py post, start_transformers).  One that asks for none is
\* accepted as well, and has its code and nobody to run it.
AcceptedAreServed ==
  \A r \in Request : submission[r] = "accepted" /\ Untouched(r) /\ faults = 0 =>
    /\ r \in saved \cap source
    /\ r \notin workerless => r \in deployed /\ replicas[r] > 0
    /\ autoscale => r \in scaler \ workerless

\* When a handler has gone through shutdown_transformer_job, and none did so while
\* the submission was still launching, every fault explains one object that is
\* left at most: each deletion is tried although another one failed.
LeftoversBounded ==
  \A r \in Request \ early :
    Ended(r) /\ submission[r] \in Answer => Cardinality(Owned(r)) <= faults
=============================================================================
