------------------------ MODULE RequestResources_proofs ------------------------
(***************************************************************************)
(* Theorems about RequestResources, for any requests, buckets, objects,    *)
(* limits and numbers of faults.                                           *)
(*                                                                         *)
(* A step of the composition is a step of one part, of the other, or of    *)
(* both; what only one part is about is proved of that part's steps.       *)
(***************************************************************************)
EXTENDS RequestResources, FiniteSetTheorems, TLAPS

USE DEF terms

\* The steps of each part by themselves.
ObjectsMove == ObjectsNext \/ UNCHANGED objectVars
CleanupMove ==
  \/ CleanupStep \/ Tomorrow \/ UNCHANGED cleanupVars
  \/ \E b \in Bucket : MakeBucket(b) \/ \E o \in Object : PutObject(b, o)

LEMMA Split ==
  ASSUME [Next]_vars  PROVE ObjectsMove /\ CleanupMove
<1>1. ASSUME NEW r \in Request, SubmitBucket(r)  PROVE ObjectsMove /\ CleanupMove
  <2>1. Request \subseteq Bucket
    BY ResourcesAssumption
  <2> QED  BY <1>1, <2>1 DEF SubmitBucket, ObjectsMove, CleanupMove, ObjectsNext
<1>2. ASSUME NEW r \in Request, NEW o \in Object, Upload(r, o)  PROVE ObjectsMove /\ CleanupMove
  <2>1. r \in Bucket
    BY ResourcesAssumption
  <2> QED  BY <1>2, <2>1 DEF Upload, ObjectsMove, CleanupMove
<1>3. CASE Elsewhere
  BY <1>3 DEF Elsewhere, ObjectsMove, CleanupMove
<1>4. CASE ObjectsStep /\ UNCHANGED cleanupVars
  BY <1>4 DEF ObjectsMove, CleanupMove, ObjectsNext
<1>5. CASE (CleanupStep \/ Tomorrow) /\ UNCHANGED objectVars
  BY <1>5 DEF ObjectsMove, CleanupMove
<1>6. CASE UNCHANGED vars
  BY <1>6 DEF vars, ObjectsMove, CleanupMove
<1> QED  BY <1>1, <1>2, <1>3, <1>4, <1>5, <1>6 DEF Next
-----------------------------------------------------------------------------
(***************************************************************************)
(* The objects in Kubernetes                                               *)
(***************************************************************************)
LEMMA ObjectsTyped ==
  ASSUME ObjectsTypeOK, ObjectsMove  PROVE ObjectsTypeOK'
<1> USE DEF ObjectsTypeOK, Submitting, Answer, Ending
<1>1. MaxFaults \in Nat /\ MaxFiles \in Nat /\ MinReplicas \in Nat \ {0} /\ Workers \subseteq Int
  BY ObjectsAssumption
<1>2. ASSUME NEW r \in Request, SubmissionStep(r) \/ CreateBucket(r)  PROVE ObjectsTypeOK'
  <2>1. CASE Launch(r)
    <3>1. PICK files \in 0..MaxFiles, workers \in Workers :
            /\ Replicas(files, workers) >= 0
            /\ replicas' = [replicas EXCEPT ![r] = Replicas(files, workers)]
      BY <2>1 DEF Launch
    <3>2. Replicas(files, workers) \in Int
      BY <1>1 DEF Replicas, Smallest, Largest
    <3>3. replicas' \in [Request -> Nat]
      BY <3>1, <3>2
    <3> QED  BY <2>1, <3>3 DEF Launch, Go, AfterLaunch
  <2>2. CASE CreateBucket(r) \/ Reject(r) \/ GenerateCode(r) \/ GenerateFails(r)
             \/ ImageMissing(r) \/ Save(r) \/ CreateScaler(r)
    BY <2>2 DEF CreateBucket, Reject, GenerateCode, GenerateFails, ImageMissing, Save, CreateScaler, Go
  <2>3. CASE CreateBucketFails(r) \/ LaunchRefused(r) \/ ScalerRefused(r) \/ SubmissionBreaks(r)
    BY <2>3, <1>1 DEF CreateBucketFails, LaunchRefused, ScalerRefused, SubmissionBreaks, Go, Fault, AfterLaunch
  <2>4. CASE LaunchOfLess(r)
    BY <2>4 DEF LaunchOfLess, Go, AfterLaunch
  <2> QED  BY <1>2, <2>1, <2>2, <2>3, <2>4 DEF SubmissionStep
<1>3. ASSUME NEW r \in Request, NEW e \in Ender, EndStep(r, e)  PROVE ObjectsTypeOK'
  <2>1. CASE BeginEnd(r, e) \/ DeleteScaler(r, e) \/ DeleteSource(r, e)
    BY <2>1 DEF BeginEnd, DeleteScaler, DeleteSource, Move
  <2>2. CASE DeleteDeployment(r, e)
    BY <2>2 DEF DeleteDeployment, Move
  <2>3. CASE DeleteRefused(r, e) \/ EndBreaks(r, e)
    BY <2>3, <1>1 DEF DeleteRefused, EndBreaks, Move, Fault
  <2> QED  BY <1>3, <2>1, <2>2, <2>3 DEF EndStep
<1>4. ASSUME NEW r \in Request, PodsStart(r) \/ PodsEnd(r)  PROVE ObjectsTypeOK'
  BY <1>4 DEF PodsStart, PodsEnd
<1>5. CASE UNCHANGED objectVars
  BY <1>5 DEF objectVars
<1> QED  BY <1>2, <1>3, <1>4, <1>5 DEF ObjectsMove, ObjectsNext, ObjectsStep
-----------------------------------------------------------------------------
\* How far the submission and the handlers that end the request can have got.
Launching ==
  \A r \in Request :
    /\ submission[r] \in {"launch", "scale", "accepted"} => r \in saved
    /\ r \in saved => submission[r] \in {"launch", "scale", "accepted", "failed"}
    /\ r \in deployed \cup scaler \cup pods => r \in saved
    /\ ~ autoscale => r \notin scaler /\ submission[r] # "scale"
    /\ \A e \in Ender : ending[r][e] # "none" =>
         r \in saved /\ (r \notin early => submission[r] \in Answer)

LEMMA LaunchingKept ==
  ASSUME ObjectsTypeOK, Launching, ObjectsMove  PROVE Launching'
<1> USE DEF ObjectsTypeOK, Launching, Submitting, Answer
<1>1. ASSUME NEW r \in Request, SubmissionStep(r) \/ CreateBucket(r)  PROVE Launching'
  <2>1. CASE CreateBucket(r) \/ Reject(r) \/ GenerateCode(r) \/ GenerateFails(r)
             \/ ImageMissing(r) \/ Save(r)
    BY <2>1 DEF CreateBucket, Reject, GenerateCode, GenerateFails, ImageMissing, Save, Go
  <2>2. CASE CreateBucketFails(r) \/ LaunchRefused(r) \/ LaunchOfLess(r) \/ SubmissionBreaks(r)
    BY <2>2 DEF CreateBucketFails, LaunchRefused, LaunchOfLess, SubmissionBreaks, Go, AfterLaunch
  <2>3. CASE Launch(r)
    BY <2>3 DEF Launch, Go, AfterLaunch
  <2>4. CASE CreateScaler(r) \/ ScalerRefused(r)
    BY <2>4 DEF CreateScaler, ScalerRefused, Go
  <2> QED  BY <1>1, <2>1, <2>2, <2>3, <2>4 DEF SubmissionStep
<1>2. ASSUME NEW r \in Request, NEW e \in Ender, EndStep(r, e)  PROVE Launching'
  <2>1. CASE BeginEnd(r, e)
    BY <2>1 DEF BeginEnd, Move
  <2>2. CASE DeleteScaler(r, e) \/ DeleteSource(r, e) \/ DeleteDeployment(r, e)
    BY <2>2 DEF DeleteScaler, DeleteSource, DeleteDeployment, Move
  <2>3. CASE DeleteRefused(r, e) \/ EndBreaks(r, e)
    BY <2>3 DEF DeleteRefused, EndBreaks, Move
  <2> QED  BY <1>2, <2>1, <2>2, <2>3 DEF EndStep
<1>3. ASSUME NEW r \in Request, PodsStart(r) \/ PodsEnd(r)  PROVE Launching'
  BY <1>3 DEF PodsStart, PodsEnd
<1>4. CASE UNCHANGED objectVars
  BY <1>4 DEF objectVars
<1> QED  BY <1>1, <1>2, <1>3, <1>4 DEF ObjectsMove, ObjectsNext, ObjectsStep

\* What a request has at each stage of its submission if nothing ended or failed.
Served ==
  \A r \in Request : faults = 0 /\ Untouched(r) =>
    /\ submission[r] \in {"image", "launch", "scale", "accepted"} => r \in source
    /\ submission[r] \in {"scale", "accepted"} /\ r \notin workerless
         => r \in deployed /\ replicas[r] > 0
    /\ autoscale => r \notin workerless
    /\ submission[r] = "accepted" /\ autoscale => r \in scaler

LEMMA ServedKept ==
  ASSUME ObjectsTypeOK, Served, ObjectsMove  PROVE Served'
<1> USE DEF ObjectsTypeOK, Served, Untouched, Submitting, Answer
<1>1. ASSUME NEW r \in Request, SubmissionStep(r) \/ CreateBucket(r)  PROVE Served'
  <2>1. CASE CreateBucket(r) \/ Reject(r) \/ GenerateCode(r) \/ GenerateFails(r)
             \/ ImageMissing(r) \/ Save(r)
    BY <2>1 DEF CreateBucket, Reject, GenerateCode, GenerateFails, ImageMissing, Save, Go
  <2>2. CASE CreateBucketFails(r) \/ LaunchRefused(r) \/ SubmissionBreaks(r) \/ ScalerRefused(r)
    BY <2>2 DEF CreateBucketFails, LaunchRefused, SubmissionBreaks, ScalerRefused, Go, Fault
  <2>5. CASE LaunchOfLess(r)
    <3>1. MinReplicas \in Nat \ {0}
      BY ObjectsAssumption
    <3>2. ~ autoscale
      BY <2>5, <3>1 DEF LaunchOfLess, Replicas
    <3> QED  BY <2>5, <3>2 DEF LaunchOfLess, Go, AfterLaunch
  <2>3. CASE Launch(r)
    <3>1. PICK files \in 0..MaxFiles, workers \in Workers :
            /\ replicas' = [replicas EXCEPT ![r] = Replicas(files, workers)]
            /\ workerless' = IF autoscale \/ workers > 0 THEN workerless ELSE workerless \cup {r}
      BY <2>3 DEF Launch
    <3>2. MinReplicas \in Nat \ {0} /\ Workers \subseteq Int /\ files \in Int
      BY ObjectsAssumption
    <3>3. r \notin workerless' => replicas'[r] > 0
      BY <3>1, <3>2 DEF Replicas, Smallest, Largest
    <3> QED  BY <2>3, <3>1, <3>3 DEF Launch, Go, AfterLaunch
  <2>4. CASE CreateScaler(r)
    BY <2>4 DEF CreateScaler, Go
  <2> QED  BY <1>1, <2>1, <2>2, <2>3, <2>4, <2>5 DEF SubmissionStep
<1>2. ASSUME NEW r \in Request, NEW e \in Ender, EndStep(r, e)  PROVE Served'
  <2>0. ~ Untouched(r)'
    BY <1>2 DEF EndStep, BeginEnd, DeleteScaler, DeleteSource, DeleteDeployment, DeleteRefused,
                EndBreaks, Move, Ending
  <2>1. CASE BeginEnd(r, e)
    BY <2>0, <2>1 DEF BeginEnd, Move
  <2>2. CASE DeleteScaler(r, e) \/ DeleteSource(r, e)
    BY <2>0, <2>2 DEF DeleteScaler, DeleteSource, Move
  <2>3. CASE DeleteDeployment(r, e)
    BY <2>0, <2>3 DEF DeleteDeployment, Move
  <2>4. CASE DeleteRefused(r, e) \/ EndBreaks(r, e)
    BY <2>4 DEF DeleteRefused, EndBreaks, Fault
  <2> QED  BY <1>2, <2>1, <2>2, <2>3, <2>4 DEF EndStep
<1>3. ASSUME NEW r \in Request, PodsStart(r) \/ PodsEnd(r)  PROVE Served'
  BY <1>3 DEF PodsStart, PodsEnd
<1>4. CASE UNCHANGED objectVars
  BY <1>4 DEF objectVars
<1> QED  BY <1>1, <1>2, <1>3, <1>4 DEF ObjectsMove, ObjectsNext, ObjectsStep
-----------------------------------------------------------------------------
\* The kinds of objects that a handler has dealt with at each of its stages.
Passed(stage) == CASE stage = "source" -> {"scaler"}
                   [] stage = "deployment" -> {"scaler", "source"}
                   [] stage = "ended" -> {"scaler", "source", "deployment"}
                   [] OTHER -> {}

\* What it has dealt with and is still there.
Missed(r, e) == Owned(r) \cap Passed(ending[r][e])

FaultsExplain ==
  \A r \in Request \ early, e \in Ender : Cardinality(Missed(r, e)) <= faults

LEMMA Kinds ==
  ASSUME NEW S, S \subseteq {"source", "deployment", "scaler"}
  PROVE  IsFiniteSet(S) /\ Cardinality(S) \in Nat
<1>1. IsFiniteSet({"source", "deployment", "scaler"})
  <2>1. IsFiniteSet({"source"})
    BY FS_Singleton
  <2>2. IsFiniteSet({"source"} \cup {"deployment"})
    BY <2>1, FS_AddElement
  <2>3. IsFiniteSet(({"source"} \cup {"deployment"}) \cup {"scaler"})
    BY <2>2, FS_AddElement
  <2>4. ({"source"} \cup {"deployment"}) \cup {"scaler"} = {"source", "deployment", "scaler"}
    OBVIOUS
  <2> QED  BY <2>3, <2>4
<1> QED  BY <1>1, FS_Subset, FS_CardinalityType

LEMMA Fewer ==
  ASSUME NEW S, NEW T, T \subseteq {"source", "deployment", "scaler"}, S \subseteq T
  PROVE  Cardinality(S) <= Cardinality(T)
BY Kinds, FS_Subset

LEMMA OneMore ==
  ASSUME NEW S, NEW T, T \subseteq {"source", "deployment", "scaler"}, NEW k, S \subseteq T \cup {k}
  PROVE  Cardinality(S) <= Cardinality(T) + 1
<1>1. IsFiniteSet(T) /\ Cardinality(T) \in Nat
  BY Kinds
<1>2. IsFiniteSet(T \cup {k}) /\ Cardinality(T \cup {k}) <= Cardinality(T) + 1
                              /\ Cardinality(T \cup {k}) \in Nat
  <2>1. CASE k \in T
    <3>1. T \cup {k} = T
      BY <2>1
    <3> QED  BY <1>1, <3>1
  <2>2. CASE k \notin T
    <3>1. /\ IsFiniteSet(T \cup {k})
          /\ Cardinality(T \cup {k}) = Cardinality(T) + 1
      BY <1>1, <2>2, FS_AddElement
    <3> QED  BY <1>1, <3>1
  <2> QED  BY <2>1, <2>2
<1>3. Cardinality(S) <= Cardinality(T \cup {k}) /\ Cardinality(S) \in Nat
  BY <1>2, FS_Subset, FS_CardinalityType
<1> QED  BY <1>1, <1>2, <1>3

LEMMA FaultsExplainKept ==
  ASSUME ObjectsTypeOK, Launching, FaultsExplain, ObjectsMove
  PROVE  FaultsExplain'
<1>0. faults \in Nat /\ faults' \in Nat /\ faults <= faults'
  <2>1. ObjectsTypeOK'
    BY ObjectsTyped
  <2>2. faults' = faults \/ faults' = faults + 1
    BY DEF ObjectsMove, ObjectsNext, ObjectsStep, SubmissionStep, EndStep, CreateBucket, Reject,
           GenerateCode, GenerateFails, ImageMissing, Save, CreateScaler, CreateBucketFails,
           LaunchRefused, LaunchOfLess, ScalerRefused, SubmissionBreaks, Launch, BeginEnd, DeleteScaler,
           DeleteSource, DeleteDeployment, DeleteRefused, EndBreaks, PodsStart, PodsEnd, Fault,
           objectVars
  <2> QED  BY <2>1, <2>2, ObjectsAssumption DEF ObjectsTypeOK
<1>1. SUFFICES ASSUME NEW r \in Request, r \notin early', NEW e \in Ender
               PROVE  Cardinality(Missed(r, e))' <= faults'
  BY DEF FaultsExplain
<1>2. r \notin early
  BY <1>1 DEF ObjectsMove, ObjectsNext, ObjectsStep, SubmissionStep, EndStep, CreateBucket, Reject,
           GenerateCode, GenerateFails, ImageMissing, Save, CreateScaler, CreateBucketFails,
           LaunchRefused, LaunchOfLess, ScalerRefused, SubmissionBreaks, Launch, BeginEnd, DeleteScaler,
           DeleteSource, DeleteDeployment, DeleteRefused, EndBreaks, PodsStart, PodsEnd, objectVars
<1>3. /\ Cardinality(Missed(r, e)) <= faults
      /\ Cardinality(Missed(r, e)) \in Nat /\ Cardinality(Missed(r, e)') \in Nat
      /\ Missed(r, e) \subseteq {"source", "deployment", "scaler"}
  <2>1. Missed(r, e) \subseteq {"source", "deployment", "scaler"}
        /\ Missed(r, e)' \subseteq {"source", "deployment", "scaler"}
    BY DEF Missed, Owned
  <2> QED  BY <1>2, <2>1, Kinds DEF FaultsExplain
<1>4. SUFFICES \/ Missed(r, e)' \subseteq Missed(r, e)
               \/ faults' = faults + 1 /\ \E k : Missed(r, e)' \subseteq Missed(r, e) \cup {k}
  <2>1. CASE Missed(r, e)' \subseteq Missed(r, e)
    <3>1. Cardinality(Missed(r, e)') <= Cardinality(Missed(r, e))
      BY <1>3, <2>1, Fewer
    <3> QED  BY <1>0, <1>3, <3>1
  <2>2. ASSUME faults' = faults + 1, NEW k, Missed(r, e)' \subseteq Missed(r, e) \cup {k}
        PROVE  Cardinality(Missed(r, e))' <= faults'
    <3>1. Cardinality(Missed(r, e)') <= Cardinality(Missed(r, e)) + 1
      BY <1>3, <2>2, OneMore
    <3> QED  BY <1>0, <1>3, <2>2, <3>1
  <2> QED  BY <1>4, <2>1, <2>2
<1> DEFINE Same == Missed(r, e)' \subseteq Missed(r, e)
<1>5. ASSUME NEW q \in Request, SubmissionStep(q) \/ CreateBucket(q)  PROVE Same
  <2>1. ending' = ending
    BY <1>5 DEF SubmissionStep, CreateBucket, Reject, GenerateCode, GenerateFails, ImageMissing,
                Save, CreateScaler, CreateBucketFails, LaunchRefused, LaunchOfLess,
                ScalerRefused, SubmissionBreaks, Launch
  <2>2. CASE q = r
    <3>1. submission[r] \in Submitting
      BY <1>5, <2>2 DEF SubmissionStep, CreateBucket, Reject, GenerateCode, GenerateFails,
           ImageMissing, Save, CreateScaler, CreateBucketFails, LaunchRefused, LaunchOfLess,
           ScalerRefused, SubmissionBreaks, Launch, Go, Submitting
    <3>2. ending[r][e] = "none"
      BY <1>2, <3>1 DEF Launching, Submitting, Answer
    <3>3. Missed(r, e)' = {}
      BY <2>1, <3>2 DEF Missed, Passed
    <3> QED  BY <3>3
  <2>3. CASE q # r
    <3>1. Owned(r)' = Owned(r)
      BY <1>5, <2>3 DEF Owned, SubmissionStep, CreateBucket, Reject, GenerateCode, GenerateFails,
           ImageMissing, Save, CreateScaler, CreateBucketFails, LaunchRefused, LaunchOfLess,
           ScalerRefused, SubmissionBreaks, Launch
    <3> QED  BY <2>1, <3>1 DEF Missed
  <2> QED  BY <2>2, <2>3
<1>6. ASSUME NEW q \in Request, NEW d \in Ender, EndStep(q, d)
      PROVE  \/ Same
             \/ faults' = faults + 1 /\ \E k : Missed(r, e)' \subseteq Missed(r, e) \cup {k}
  <2>1. Owned(r)' \subseteq Owned(r)
    BY <1>6 DEF Owned, EndStep, BeginEnd, DeleteScaler, DeleteSource, DeleteDeployment,
                DeleteRefused, EndBreaks
  <2>2. CASE q # r \/ d # e
    <3>1. ending'[r][e] = ending[r][e]
      BY <1>6, <2>2 DEF ObjectsTypeOK, EndStep, BeginEnd, DeleteScaler, DeleteSource,
                        DeleteDeployment, DeleteRefused, EndBreaks, Move
    <3> QED  BY <2>1, <3>1 DEF Missed
  <2>3. CASE q = r /\ d = e
    <3>1. CASE BeginEnd(r, e)
      <4>1. r \notin scaler \/ autoscale
        BY DEF Launching
      <4> QED  BY <2>1, <3>1, <4>1 DEF BeginEnd, Move, Missed, Passed, Owned, ObjectsTypeOK
    <3>2. CASE DeleteScaler(r, e)
      BY <3>2 DEF DeleteScaler, Move, Missed, Passed, Owned, ObjectsTypeOK
    <3>3. CASE DeleteSource(r, e)
      BY <3>3 DEF DeleteSource, Move, Missed, Passed, Owned, ObjectsTypeOK
    <3>4. CASE DeleteDeployment(r, e)
      BY <3>4 DEF DeleteDeployment, Move, Missed, Passed, Owned, ObjectsTypeOK
    <3>5. CASE DeleteRefused(r, e)
      <4>1. \E k : Passed(ending'[r][e]) \subseteq Passed(ending[r][e]) \cup {k}
        <5>1. CASE Move(r, e, "scaler", "source")
          <6>1. Passed(ending'[r][e]) \subseteq Passed(ending[r][e]) \cup {"scaler"}
            BY <5>1 DEF Move, Passed, ObjectsTypeOK
          <6> QED  BY <6>1
        <5>2. CASE Move(r, e, "source", "deployment")
          <6>1. Passed(ending'[r][e]) \subseteq Passed(ending[r][e]) \cup {"source"}
            BY <5>2 DEF Move, Passed, ObjectsTypeOK
          <6> QED  BY <6>1
        <5>3. CASE Move(r, e, "deployment", "ended")
          <6>1. Passed(ending'[r][e]) \subseteq Passed(ending[r][e]) \cup {"deployment"}
            BY <5>3 DEF Move, Passed, ObjectsTypeOK
          <6> QED  BY <6>1
        <5> QED  BY <3>5, <5>1, <5>2, <5>3 DEF DeleteRefused
      <4>2. faults' = faults + 1
        BY <3>5 DEF DeleteRefused, Fault
      <4> QED  BY <2>1, <4>1, <4>2 DEF Missed
    <3>6. CASE EndBreaks(r, e)
      BY <3>6 DEF EndBreaks, Missed, Passed, ObjectsTypeOK
    <3> QED  BY <1>6, <2>3, <3>1, <3>2, <3>3, <3>4, <3>5, <3>6 DEF EndStep
  <2> QED  BY <2>2, <2>3
<1>7. ASSUME NEW q \in Request, PodsStart(q) \/ PodsEnd(q)  PROVE Same
  BY <1>7 DEF PodsStart, PodsEnd, Missed, Owned
<1>8. CASE UNCHANGED objectVars
  BY <1>8 DEF objectVars, Missed, Owned
<1> QED  BY <1>5, <1>6, <1>7, <1>8 DEF ObjectsMove, ObjectsNext, ObjectsStep
-----------------------------------------------------------------------------
(***************************************************************************)
(* The object store and its cleanup                                        *)
(***************************************************************************)
LEMMA Amounts ==
  ASSUME CleanupTypeOK, NEW b \in Bucket  PROVE SizeOf[b] \in Amount
<1>1. stored[b] \in SUBSET Object
  BY DEF CleanupTypeOK
<1>2. Cardinality(stored[b]) <= Cardinality(Object) /\ Cardinality(stored[b]) \in Nat
      /\ Cardinality(Object) \in Nat
  BY <1>1, CleanupAssumption, FS_Subset, FS_CardinalityType
<1> QED  BY <1>2 DEF SizeOf, Amount

\* How old things are, what the job works on, and whom it may delete.
Dated ==
  /\ \A b \in Bucket \ made : stored[b] = {}
  /\ \A b \in made : born[b] <= today /\ \A o \in stored[b] : born[b] <= modified[b][o]
  /\ listed \cup kept \cup doomed \cup cleaned \subseteq made
  /\ \A b \in kept \cup doomed : born[b] <= oldest[b]

Condemned ==
  /\ job = "idle" => kept = {}
  /\ doomed # {} => job \in {"age", "size"}
  /\ job = "age" => \A b \in doomed : today - oldest[b] > MaxAge
  /\ job = "size" => \A b \in doomed : used > NormSize /\ doomed = {b}

LEMMA CleanupTyped ==
  ASSUME CleanupTypeOK, Condemned, CleanupMove  PROVE CleanupTypeOK'
<1> USE CleanupAssumption DEF CleanupTypeOK, Day, Job
<1>0. Cardinality(Object) \in Nat /\ 0 \in Amount /\ 0 \in Day
  BY FS_CardinalityType DEF Amount
<1>1. ASSUME NEW b \in Bucket, MakeBucket(b)  PROVE CleanupTypeOK'
  BY <1>1 DEF MakeBucket, work
<1>2. ASSUME NEW b \in Bucket, NEW o \in Object, PutObject(b, o)  PROVE CleanupTypeOK'
  <2>1. stored' \in [Bucket -> SUBSET Object] /\ modified' \in [Bucket -> [Object -> Day]]
    BY <1>2 DEF PutObject
  <2>2. late' \subseteq Bucket \X Object
    BY <1>2 DEF PutObject
  <2> QED  BY <1>2, <2>1, <2>2 DEF PutObject, work
<1>3. CASE Tomorrow
  BY <1>3 DEF Tomorrow, store, work
<1>4. CASE StartCleanup \/ Measure \/ Enough
  BY <1>4 DEF StartCleanup, Measure, Enough, store, work, Condemned
<1>40. CASE ChooseOld
  <2>1. doomed = {} /\ emptied = {}
    BY <1>40 DEF ChooseOld, Condemned
  <2> QED  BY <1>40, <2>1 DEF ChooseOld, store
<1>5. CASE EndCleanup \/ CleanupFails
  <2>1. size' \in [Bucket -> Amount] /\ oldest' \in [Bucket -> Day]
    BY <1>0, <1>5 DEF EndCleanup, CleanupFails, Forget, Clear
  <2>2. errors' \in 0..MaxErrors
    BY <1>5 DEF EndCleanup, CleanupFails, StoreError
  <2>3. UNCHANGED <<store, today>> /\ Forget
    BY <1>5 DEF EndCleanup, CleanupFails, Forget
  <2> QED  BY <2>1, <2>2, <2>3 DEF Forget, store
<1>6. ASSUME NEW b \in Bucket, Look(b)  PROVE CleanupTypeOK'
  <2>1. size' \in [Bucket -> Amount]
    BY <1>6, Amounts DEF Look
  <2>2. Days(b) \subseteq Day
    BY DEF Days
  <2>3. oldest' \in [Bucket -> Day]
    BY <1>6, <2>2 DEF Look
  <2>4. doomed = {} /\ emptied = {}
    BY <1>6 DEF Look, Condemned
  <2> QED  BY <1>6, <2>1, <2>3, <2>4 DEF Look, store
<1>7. ASSUME NEW b \in Bucket, RemoveObjects(b)  PROVE CleanupTypeOK'
  <2>1. stored' \in [Bucket -> SUBSET Object] /\ modified' \in [Bucket -> [Object -> Day]]
    BY <1>0, <1>7 DEF RemoveObjects, Never
  <2> QED  BY <1>7, <2>1 DEF RemoveObjects
<1>8. ASSUME NEW b \in Bucket, RemoveObjectsFails(b)  PROVE CleanupTypeOK'
  <2>1. stored' \in [Bucket -> SUBSET Object]
    BY <1>8 DEF RemoveObjectsFails
  <2>2. modified' \in [Bucket -> [Object -> Day]]
    BY <1>0, <1>8 DEF RemoveObjectsFails
  <2>3. errors' \in 0..MaxErrors
    BY <1>8 DEF RemoveObjectsFails, StoreError
  <2> QED  BY <1>8, <2>1, <2>2, <2>3 DEF RemoveObjectsFails
<1>9. ASSUME NEW b \in Bucket, RemoveBucket(b) \/ RemoveOldBucketFails(b) \/ ChooseOldest(b)
      PROVE CleanupTypeOK'
  BY <1>9 DEF RemoveBucket, RemoveOldBucketFails, ChooseOldest, StoreError, store
<1>10. CASE UNCHANGED cleanupVars
  BY <1>10 DEF cleanupVars, store, work
<1> QED  BY <1>1, <1>2, <1>3, <1>4, <1>40, <1>5, <1>6, <1>7, <1>8, <1>9, <1>10 DEF CleanupMove, CleanupStep

LEMMA DatedKept ==
  ASSUME CleanupTypeOK, Dated, CleanupMove  PROVE Dated'
<1> USE DEF CleanupTypeOK, Dated, Day
<1>1. ASSUME NEW b \in Bucket, MakeBucket(b)  PROVE Dated'
  BY <1>1 DEF MakeBucket, work
<1>2. ASSUME NEW b \in Bucket, NEW o \in Object, PutObject(b, o)  PROVE Dated'
  <2>1. b \in made /\ UNCHANGED <<made, born, today, listed, kept, doomed, cleaned, oldest>>
    BY <1>2 DEF PutObject, work
  <2>2. ASSUME NEW c \in made, NEW p \in stored'[c]  PROVE born[c] <= modified'[c][p]
    BY <1>2, <2>1, <2>2 DEF PutObject
  <2>3. \A c \in Bucket \ made : stored'[c] = {}
    BY <1>2, <2>1 DEF PutObject
  <2> QED  BY <2>1, <2>2, <2>3
<1>3. CASE Tomorrow
  BY <1>3 DEF Tomorrow, store, work
<1>4. CASE StartCleanup \/ ChooseOld \/ Measure \/ Enough
  BY <1>4 DEF StartCleanup, ChooseOld, Measure, Enough, store, work
<1>5. CASE EndCleanup \/ CleanupFails
  BY <1>5 DEF EndCleanup, CleanupFails, Forget, store
<1>6. ASSUME NEW b \in Bucket, Look(b)  PROVE Dated'
  <2>1. b \in made /\ UNCHANGED <<made, born, today, doomed, cleaned, stored, modified>>
    BY <1>6 DEF Look, store
  <2>2. \A day \in Days(b) : born[b] <= day
    BY <2>1 DEF Days
  <2> QED  BY <1>6, <2>1, <2>2 DEF Look
<1>7. ASSUME NEW b \in Bucket, RemoveObjects(b) \/ RemoveObjectsFails(b)  PROVE Dated'
  <2>1. /\ UNCHANGED <<made, born, today, listed, kept, oldest>>
        /\ doomed' \subseteq doomed /\ cleaned' \subseteq cleaned \cup {b} /\ b \in made
    BY <1>7 DEF RemoveObjects, RemoveObjectsFails
  <2>2. \A c \in Bucket : \A o \in stored'[c] : o \in stored[c] /\ modified'[c][o] = modified[c][o]
    <3>1. CASE RemoveObjects(b)
      BY <3>1 DEF RemoveObjects
    <3>2. CASE RemoveObjectsFails(b)
      <4>1. PICK left \in SUBSET stored[b] :
              /\ stored' = [stored EXCEPT ![b] = left]
              /\ modified' = [modified EXCEPT ![b] = [o \in Object |-> IF o \in left THEN @[o] ELSE 0]]
        BY <3>2 DEF RemoveObjectsFails
      <4> QED  BY <4>1
    <3> QED  BY <1>7, <3>1, <3>2
  <2>3. \A c \in Bucket \ made : stored'[c] = {}
    BY <2>2
  <2>4. \A c \in made : \A o \in stored'[c] : born[c] <= modified'[c][o]
    BY <2>2
  <2> QED  BY <2>1, <2>3, <2>4
<1>8. ASSUME NEW b \in Bucket, RemoveBucket(b) \/ RemoveOldBucketFails(b) \/ ChooseOldest(b)
      PROVE Dated'
  BY <1>8 DEF RemoveBucket, RemoveOldBucketFails, ChooseOldest, store
<1>9. CASE UNCHANGED cleanupVars
  BY <1>9 DEF cleanupVars, store, work
<1> QED  BY <1>1, <1>2, <1>3, <1>4, <1>5, <1>6, <1>7, <1>8, <1>9 DEF CleanupMove, CleanupStep

LEMMA CondemnedKept ==
  ASSUME CleanupTypeOK, Condemned, CleanupMove  PROVE Condemned'
<1> USE CleanupAssumption DEF CleanupTypeOK, Condemned, Day, Job
<1>1. ASSUME NEW b \in Bucket, MakeBucket(b) \/ \E o \in Object : PutObject(b, o)
      PROVE Condemned'
  BY <1>1 DEF MakeBucket, PutObject, work
<1>2. CASE Tomorrow
  BY <1>2 DEF Tomorrow, store, work
<1>3. CASE StartCleanup \/ ChooseOld \/ Measure \/ Enough
  BY <1>3 DEF StartCleanup, ChooseOld, Measure, Enough, store, work
<1>4. CASE EndCleanup \/ CleanupFails
  BY <1>4 DEF EndCleanup, CleanupFails, Forget, store
<1>5. ASSUME NEW b \in Bucket, Look(b)  PROVE Condemned'
  BY <1>5 DEF Look, store
<1>6. ASSUME NEW b \in Bucket, RemoveObjects(b)  PROVE Condemned'
  BY <1>6 DEF RemoveObjects
<1>7. ASSUME NEW b \in Bucket, RemoveObjectsFails(b) \/ RemoveBucket(b)  PROVE Condemned'
  BY <1>7 DEF RemoveObjectsFails, RemoveBucket
<1>8. ASSUME NEW b \in Bucket, RemoveOldBucketFails(b) \/ ChooseOldest(b)  PROVE Condemned'
  BY <1>8 DEF RemoveOldBucketFails, ChooseOldest, store
<1>9. CASE UNCHANGED cleanupVars
  BY <1>9 DEF cleanupVars, store, work
<1> QED  BY <1>1, <1>2, <1>3, <1>4, <1>5, <1>6, <1>7, <1>8, <1>9 DEF CleanupMove, CleanupStep

LEMMA ReportedKept ==
  ASSUME CleanupTypeOK, Dated, ReportedAreGone, CleanupMove  PROVE ReportedAreGone'
<1> USE CleanupAssumption DEF CleanupTypeOK, Dated, ReportedAreGone
<1>1. ASSUME NEW b \in Bucket, MakeBucket(b) \/ \E o \in Object : PutObject(b, o)
      PROVE ReportedAreGone'
  BY <1>1 DEF MakeBucket, PutObject, work
<1>2. CASE Tomorrow \/ StartCleanup \/ ChooseOld \/ Measure \/ Enough \/ UNCHANGED cleanupVars
  BY <1>2 DEF Tomorrow, StartCleanup, ChooseOld, Measure, Enough, store, work, cleanupVars
<1>3. CASE EndCleanup \/ CleanupFails
  BY <1>3 DEF EndCleanup, CleanupFails, Forget
<1>4. ASSUME NEW b \in Bucket, Look(b) \/ RemoveObjects(b) \/ RemoveBucket(b) \/ ChooseOldest(b)
      PROVE ReportedAreGone'
  BY <1>4 DEF Look, RemoveObjects, RemoveBucket, ChooseOldest, store
<1>5. ASSUME NEW b \in Bucket, RemoveObjectsFails(b)  PROVE ReportedAreGone'
  <2>1. errors' # 0
    BY <1>5 DEF RemoveObjectsFails, StoreError
  <2> QED  BY <2>1
<1>6. ASSUME NEW b \in Bucket, RemoveOldBucketFails(b)  PROVE ReportedAreGone'
  BY <1>6 DEF RemoveOldBucketFails, StoreError, store
<1> QED  BY <1>1, <1>2, <1>3, <1>4, <1>5, <1>6 DEF CleanupMove, CleanupStep
-----------------------------------------------------------------------------
(***************************************************************************)
(* The amount that is stored                                               *)
(***************************************************************************)
\* The cleanup creates no bucket and no object.
LEMMA OnlyCleansUp ==
  ASSUME CleanupTypeOK, CleanupStep \/ Tomorrow
  PROVE  made' = made /\ \A b \in Bucket : stored'[b] \subseteq stored[b]
<1> USE DEF CleanupTypeOK
<1>1. CASE \/ Tomorrow \/ StartCleanup \/ ChooseOld \/ Measure \/ Enough \/ EndCleanup \/ CleanupFails
           \/ \E b \in Bucket : Look(b) \/ RemoveOldBucketFails(b) \/ ChooseOldest(b)
  BY <1>1 DEF Tomorrow, StartCleanup, ChooseOld, Measure, Enough, EndCleanup, CleanupFails, Forget,
              Look, RemoveOldBucketFails, ChooseOldest, store
<1>2. ASSUME NEW b \in Bucket, RemoveObjects(b) \/ RemoveObjectsFails(b) \/ RemoveBucket(b)
      PROVE  made' = made /\ \A c \in Bucket : stored'[c] \subseteq stored[c]
  BY <1>2 DEF RemoveObjects, RemoveObjectsFails, RemoveBucket
<1> QED  BY <1>1, <1>2 DEF CleanupStep

\* The objects of b that were there when the job started and not written since.
Old(b) == {o \in stored[b] : <<b, o>> \notin late}

\* What the job found in a bucket is an upper bound of its old objects, and nothing old is
\* in a bucket it does not have before it; what it says is used is the sum for the buckets
\* it keeps and the one it is deleting.
Surveyed ==
  errors = 0 /\ job # "idle" =>
    /\ \A b \in kept \cup doomed : Cardinality(Old(b)) <= size[b]
    /\ \A b \in emptied \cup (bucket \ (listed \cup kept \cup doomed)) : Old(b) = {}
    /\ job # "survey" => listed = {}
    /\ job \in {"size", "done"} => used = Total(size, kept \cup doomed)
    /\ job = "done" => doomed = {} /\ used <= MaxSize

LEMMA TotalIsNat ==
  ASSUME CleanupTypeOK, NEW S \in SUBSET Bucket
  PROVE  IsFiniteSet(Units(size, S)) /\ Total(size, S) \in Nat
<1> DEFINE n == Cardinality(Object)
<1>1. n \in Nat
  BY CleanupAssumption, FS_CardinalityType
<1>2. IsFiniteSet(1..n) /\ IsFiniteSet(Bucket)
  BY <1>1, FS_Interval, CleanupAssumption
<1>3. IsFiniteSet(Bucket \X (1..n))
  BY <1>2, FS_Product
<1>4. \A b \in S : size[b] \in 0..n
  BY DEF CleanupTypeOK, Amount
<1>5. Units(size, S) \subseteq Bucket \X (1..n)
  BY <1>1, <1>4 DEF Units
<1> QED  BY <1>3, <1>5, FS_Subset, FS_CardinalityType DEF Total

LEMMA TotalRemove ==
  ASSUME CleanupTypeOK, NEW S \in SUBSET Bucket, NEW b \in S
  PROVE  Total(size, S \ {b}) = Total(size, S) - size[b]
<1> DEFINE U == Units(size, S \ {b})
           V == {b} \X (1..size[b])
<1>1. size[b] \in Nat
  BY CleanupAssumption, FS_CardinalityType DEF CleanupTypeOK, Amount
<1>2. IsFiniteSet(V) /\ Cardinality(V) = size[b]
  <2>1. IsFiniteSet(1..size[b]) /\ Cardinality(1..size[b]) = size[b]
    BY <1>1, FS_Interval
  <2>2. IsFiniteSet({b}) /\ Cardinality({b}) = 1
    BY FS_Singleton
  <2>3. IsFiniteSet(V) /\ Cardinality(V) = 1 * size[b]
    BY <2>1, <2>2, FS_Product
  <2> QED  BY <1>1, <2>3
<1>3. U \cup V = Units(size, S) /\ U \cap V = {}
  BY DEF Units
<1>4. IsFiniteSet(U) /\ Cardinality(U) \in Nat
  BY TotalIsNat DEF Total
<1> HIDE DEF V
<1>5. Cardinality(U \cup V) = Cardinality(U) + size[b] - Cardinality({})
  BY <1>2, <1>3, <1>4, FS_Union
<1>6. Cardinality({}) = 0
  BY FS_EmptySet
<1>7. Total(size, S) = Cardinality(U \cup V)
  <2>1. Total(size, S) = Cardinality(Units(size, S))
    BY DEF Total
  <2> QED  BY <1>3, <2>1
<1>8. Total(size, S \ {b}) = Cardinality(U)
  BY DEF Total
<1> HIDE DEF U
<1> QED  BY <1>1, <1>3, <1>4, <1>5, <1>6, <1>7, <1>8

\* What is bounded bucket by bucket is bounded altogether.
LEMMA TotalBounds ==
  ASSUME CleanupTypeOK, NEW S \in SUBSET Bucket,
         \A b \in S : Cardinality(Old(b)) <= size[b]
  PROVE  Cardinality({x \in S \X Object : x[2] \in Old(x[1])}) <= Total(size, S)
<1> DEFINE X == {x \in S \X Object : x[2] \in Old(x[1])}
           i == [b \in S |-> CHOOSE g : g \in Injection(Old(b), 1..size[b])]
           m == [x \in X |-> <<x[1], i[x[1]][x[2]]>>]
<1>1. ASSUME NEW b \in S  PROVE i[b] \in Injection(Old(b), 1..size[b])
  <2> DEFINE n == Cardinality(Old(b))
  <2>1. Old(b) \in SUBSET Object /\ IsFiniteSet(Object)
    BY CleanupAssumption DEF Old, CleanupTypeOK
  <2>2. IsFiniteSet(Old(b)) /\ n \in Nat
    BY <2>1, FS_Subset, FS_CardinalityType
  <2>3. IsFiniteSet(1..n) /\ Cardinality(1..n) = n
    BY <2>2, FS_Interval
  <2>4. size[b] \in Nat /\ n <= size[b]
    BY CleanupAssumption, FS_CardinalityType DEF CleanupTypeOK, Amount
  <2>5. ExistsBijection(Old(b), 1..n)
    BY <2>2, <2>3, FS_SameCardinalityBij
  <2>6. PICK g : g \in Bijection(Old(b), 1..n)
    BY <2>5 DEF ExistsBijection
  <2>7. g \in Injection(Old(b), 1..size[b])
    BY <2>2, <2>4, <2>6 DEF Bijection, Injection
  <2> QED  BY <2>7
<1>2. \A b \in S : i[b] \in [Old(b) -> 1..size[b]] /\ IsInjective(i[b])
  BY <1>1 DEF Injection
<1> HIDE DEF i
<1>3. ASSUME NEW x \in X  PROVE m[x] \in Units(size, S)
  <2>1. x[1] \in S /\ x[2] \in Old(x[1]) /\ i[x[1]][x[2]] \in 1..size[x[1]]
    BY <1>2
  <2>2. m[x] \in {x[1]} \X (1..size[x[1]])
    BY <2>1
  <2> QED  BY <2>1, <2>2 DEF Units
<1>4. ASSUME NEW x \in X, NEW y \in X, m[x] = m[y]  PROVE x = y
  <2>1. x[1] = y[1] /\ i[x[1]][x[2]] = i[x[1]][y[2]]
    BY <1>4
  <2>2. x[1] \in S /\ x[2] \in Old(x[1]) /\ y[2] \in Old(x[1])
    BY <2>1
  <2>3. x[2] = y[2]
    BY <1>2, <2>1, <2>2 DEF IsInjective
  <2>4. x = <<x[1], x[2]>> /\ y = <<y[1], y[2]>>
    OBVIOUS
  <2> QED  BY <2>1, <2>3, <2>4
<1>5. m \in Injection(X, Units(size, S))
  BY <1>3, <1>4 DEF Injection, IsInjective
<1>6. IsFiniteSet(Units(size, S))
  BY TotalIsNat
<1> HIDE DEF m, X
<1>7. Cardinality(X) <= Cardinality(Units(size, S))
  BY <1>5, <1>6, FS_Injection
<1> QED  BY <1>7 DEF Total, X

\* Only fewer objects are old: what is written while the job runs is not, and nothing
\* else adds an object.
LEMMA OldShrinks ==
  ASSUME CleanupTypeOK, CleanupMove, job # "idle", job' # "idle"
  PROVE  \A b \in Bucket : Old(b)' \subseteq Old(b)
<1> USE DEF CleanupTypeOK, Old
<1>1. ASSUME NEW b \in Bucket, NEW o \in Object, PutObject(b, o)
      PROVE  \A c \in Bucket : Old(c)' \subseteq Old(c)
  BY <1>1 DEF PutObject
<1>2. CASE \/ Tomorrow \/ UNCHANGED cleanupVars \/ CleanupStep
           \/ \E b \in Bucket : MakeBucket(b)
  <2>1. late' = late
    BY <1>2 DEF Tomorrow, cleanupVars, MakeBucket, CleanupStep, StartCleanup, ChooseOld, Measure,
                Enough, EndCleanup, CleanupFails, Forget, Look, RemoveObjects,
                RemoveObjectsFails, RemoveBucket, RemoveOldBucketFails, ChooseOldest
  <2>2. \A c \in Bucket : stored'[c] \subseteq stored[c]
    <3>1. CASE CleanupStep \/ Tomorrow
      BY <3>1, OnlyCleansUp
    <3> QED  BY <1>2, <3>1 DEF MakeBucket, cleanupVars, store
  <2> QED  BY <2>1, <2>2
<1> QED  BY <1>1, <1>2 DEF CleanupMove

LEMMA OldIsFinite ==
  ASSUME CleanupTypeOK, NEW b \in Bucket
  PROVE  IsFiniteSet(Old(b)) /\ Cardinality(Old(b)) \in Nat
<1>1. Old(b) \in SUBSET Object /\ IsFiniteSet(Object)
  BY CleanupAssumption DEF Old, CleanupTypeOK
<1> QED  BY <1>1, FS_Subset, FS_CardinalityType

\* What bounds the old objects now bounds them after the step.
LEMMA OldStaysBounded ==
  ASSUME CleanupTypeOK, CleanupMove, job # "idle", job' # "idle", NEW b \in Bucket
  PROVE  /\ Cardinality(Old(b)') <= Cardinality(Old(b))
         /\ Cardinality(Old(b)') \in Nat /\ Cardinality(Old(b)) \in Nat
<1>1. IsFiniteSet(Old(b)) /\ Cardinality(Old(b)) \in Nat
  BY OldIsFinite
<1>2. Old(b)' \in SUBSET Old(b)
  BY OldShrinks
<1> QED  BY <1>1, <1>2, FS_Subset, FS_CardinalityType

LEMMA SurveyedKept ==
  ASSUME CleanupTypeOK, CleanupTypeOK', Dated, Condemned, Surveyed, CleanupMove
  PROVE  Surveyed'
<1> SUFFICES ASSUME errors' = 0, job' # "idle"
             PROVE  /\ \A b \in kept' \cup doomed' : Cardinality(Old(b)') <= size'[b]
                    /\ \A b \in emptied' \cup (bucket' \ (listed' \cup kept' \cup doomed')) :
                         Old(b)' = {}
                    /\ job' # "survey" => listed' = {}
                    /\ job' \in {"size", "done"} => used' = Total(size, kept \cup doomed)'
                    /\ job' = "done" => doomed' = {} /\ used' <= MaxSize
  BY DEF Surveyed, Old
<1> USE CleanupAssumption
<1>e. errors = 0
  BY DEF CleanupMove, CleanupStep, MakeBucket, PutObject, Tomorrow, StartCleanup, ChooseOld,
         Measure, Enough, EndCleanup, CleanupFails, Forget, Look, RemoveObjects, RemoveObjectsFails,
         RemoveBucket, RemoveOldBucketFails, ChooseOldest, StoreError, cleanupVars, CleanupTypeOK
<1>1. CASE StartCleanup
  BY <1>1 DEF StartCleanup, Condemned, CleanupTypeOK, store
<1> SUFFICES ASSUME ~StartCleanup
             PROVE  /\ \A b \in kept' \cup doomed' : Cardinality(Old(b)') <= size'[b]
                    /\ \A b \in emptied' \cup (bucket' \ (listed' \cup kept' \cup doomed')) :
                         Old(b)' = {}
                    /\ job' # "survey" => listed' = {}
                    /\ job' \in {"size", "done"} => used' = Total(size, kept \cup doomed)'
                    /\ job' = "done" => doomed' = {} /\ used' <= MaxSize
  BY <1>1
<1>i. job # "idle"
  BY DEF CleanupMove, CleanupStep, MakeBucket, PutObject, Tomorrow, ChooseOld,
         Measure, Enough, EndCleanup, CleanupFails, Forget, Look, RemoveObjects, RemoveObjectsFails,
         RemoveBucket, RemoveOldBucketFails, ChooseOldest, cleanupVars
<1>s. /\ \A b \in kept \cup doomed : Cardinality(Old(b)) <= size[b]
      /\ \A b \in emptied \cup (bucket \ (listed \cup kept \cup doomed)) : Old(b) = {}
      /\ job # "survey" => listed = {}
      /\ job \in {"size", "done"} => used = Total(size, kept \cup doomed)
      /\ job = "done" => doomed = {} /\ used <= MaxSize
  BY <1>e, <1>i DEF Surveyed
<1>o. \A b \in Bucket : Old(b)' \subseteq Old(b)
  BY <1>i, OldShrinks
<1>n. \A b \in Bucket : size[b] \in Nat
  BY FS_CardinalityType DEF CleanupTypeOK, Amount
<1>c. \A b \in kept \cup doomed : Cardinality(Old(b)') <= size[b]
  BY <1>i, <1>s, <1>n, OldStaysBounded DEF CleanupTypeOK
<1>m. kept \subseteq Bucket /\ doomed \subseteq Bucket /\ emptied \subseteq Bucket /\ bucket \subseteq Bucket
      /\ kept \cap doomed = {}
  BY DEF CleanupTypeOK
\* The job goes on with what it knows; what was listed is all gone through.
<1>2. CASE \/ \E b \in Bucket : MakeBucket(b) \/ \E o \in Object : PutObject(b, o)
           \/ Tomorrow \/ UNCHANGED cleanupVars
  <2>1. UNCHANGED <<job, listed, kept, doomed, emptied, size, used>> 
    BY <1>2 DEF MakeBucket, PutObject, Tomorrow, cleanupVars, work
  <2>2. \A b \in bucket' \ bucket : b \in Bucket /\ Old(b) = {}
    BY <1>2 DEF MakeBucket, PutObject, Tomorrow, cleanupVars, store, Dated, Old
  <2> QED  BY <1>s, <1>o, <1>c, <1>m, <2>1, <2>2
<1>3. ASSUME NEW b \in Bucket, Look(b)  PROVE Surveyed'
  <2>1. /\ job = "survey" /\ UNCHANGED <<job, bucket, stored, late, doomed, emptied>>
        /\ listed' = listed \ {b} /\ kept' = kept \cup {b}
        /\ size' = [size EXCEPT ![b] = Cardinality(stored[b])]
    BY <1>3 DEF Look, SizeOf, store
  <2>2. Cardinality(Old(b)) <= Cardinality(stored[b])
    <3>1. IsFiniteSet(stored[b]) /\ Old(b) \in SUBSET stored[b]
      BY FS_Subset DEF CleanupTypeOK, Old
    <3> QED  BY <3>1, FS_Subset
  <2>3. size \in [Bucket -> Nat] /\ Old(b)' = Old(b) /\ \A c \in Bucket : Old(c)' = Old(c)
    BY <1>n, <2>1 DEF CleanupTypeOK, Old
  <2> QED  BY <1>s, <1>m, <2>1, <2>2, <2>3 DEF Surveyed
<1>4. CASE ChooseOld
  BY <1>4, <1>s, <1>o, <1>c, <1>m DEF ChooseOld, store, Condemned, CleanupTypeOK
<1>5. ASSUME NEW b \in Bucket, RemoveObjects(b)  PROVE Surveyed'
  <2>1. /\ UNCHANGED <<job, bucket, listed, kept, doomed, size, used>>
        /\ emptied' = emptied \cup {b} /\ stored'[b] = {}
    BY <1>5 DEF RemoveObjects, CleanupTypeOK
  <2>2. Old(b)' = {}
    BY <2>1 DEF Old
  <2> QED  BY <1>s, <1>o, <1>c, <1>m, <2>1, <2>2 DEF Surveyed
<1>6. ASSUME NEW b \in Bucket, RemoveBucket(b)  PROVE Surveyed'
  <2>1. /\ b \in doomed /\ b \in emptied /\ UNCHANGED <<job, listed, kept, size>>
        /\ bucket' = bucket \ {b} /\ doomed' = doomed \ {b} /\ emptied' = emptied \ {b}
        /\ used' = IF job = "size" THEN used - size[b] ELSE used
        /\ job \in {"age", "size"}
    BY <1>6 DEF RemoveBucket, CleanupTypeOK
  <2>2. kept' \cup doomed' = (kept \cup doomed) \ {b}
    BY <1>m, <2>1
  <2>3. Total(size, (kept \cup doomed) \ {b}) = Total(size, kept \cup doomed) - size[b]
    BY <1>m, <2>1, TotalRemove
  <2>4. Total(size, kept \cup doomed)' = Total(size, (kept \cup doomed) \ {b})
    BY <2>1, <2>2
  <2> QED  BY <1>s, <1>o, <1>c, <1>m, <2>1, <2>3, <2>4 DEF Surveyed
<1>7. ASSUME NEW b \in Bucket, RemoveOldBucketFails(b)  PROVE Surveyed'
  <2>1. /\ job = "age" /\ b \in emptied /\ UNCHANGED <<job, bucket, listed, kept, size>>
        /\ doomed' = doomed \ {b} /\ emptied' = emptied \ {b}
    BY <1>7, <1>e DEF RemoveOldBucketFails, StoreError, store
  <2> QED  BY <1>s, <1>o, <1>c, <1>m, <2>1 DEF Surveyed
<1>8. CASE Measure
  <2>1. /\ UNCHANGED <<bucket, listed, kept, doomed, emptied, size>> /\ doomed = {} /\ job = "age"
        /\ used' = Total(size, kept) /\ job' = IF used' > MaxSize THEN "size" ELSE "done"
    BY <1>8 DEF Measure, store
  <2>2. Total(size, kept \cup doomed)' = Total(size, kept)
    <3>1. kept' \cup doomed' = kept
      BY <2>1
    <3> QED  BY <2>1, <3>1
  <2>3. Total(size, kept) \in Nat /\ MaxSize \in Nat
    BY <1>m, TotalIsNat
  <2> QED  BY <1>s, <1>o, <1>c, <1>m, <2>1, <2>2, <2>3
<1>9. ASSUME NEW b \in Bucket, ChooseOldest(b)  PROVE Surveyed'
  <2>1. /\ UNCHANGED <<job, bucket, listed, emptied, size, used>> /\ job = "size" /\ doomed = {}
        /\ b \in kept /\ kept' = kept \ {b} /\ doomed' = {b}
    BY <1>9 DEF ChooseOldest, store
  <2>2. kept' \cup doomed' = kept \cup doomed
    BY <2>1
  <2>3. Total(size, kept \cup doomed)' = Total(size, kept \cup doomed)
    BY <2>1, <2>2
  <2> QED  BY <1>s, <1>o, <1>c, <1>m, <2>1, <2>2, <2>3 DEF Surveyed
<1>10. CASE Enough
  <2>1. /\ UNCHANGED <<bucket, listed, kept, doomed, emptied, size, used>> /\ doomed = {}
        /\ job = "size" /\ job' = "done" /\ (used <= NormSize \/ kept = {})
    BY <1>10 DEF Enough, store, work
  <2>2. used = Total(size, kept)
    <3>1. kept \cup doomed = kept
      BY <2>1
    <3> QED  BY <1>s, <2>1, <3>1
  <2>3. kept = {} => used = 0
    BY <2>2, FS_EmptySet DEF Total, Units
  <2>4. used \in Nat /\ {MaxSize, NormSize} \subseteq Nat /\ NormSize <= MaxSize
    BY <1>m, <2>2, TotalIsNat
  <2>5. used <= MaxSize
    BY <2>1, <2>3, <2>4
  <2>6. Total(size, kept \cup doomed)' = Total(size, kept \cup doomed)
    BY <2>1
  <2> QED  BY <1>s, <1>o, <1>c, <1>m, <2>1, <2>5, <2>6
<1>11. ASSUME NEW b \in Bucket, RemoveObjectsFails(b)  PROVE FALSE
  BY <1>11, <1>e DEF RemoveObjectsFails, StoreError
<1>12. ~EndCleanup /\ ~CleanupFails
  BY DEF EndCleanup, CleanupFails, Forget
<1>13. Surveyed' => /\ \A b \in kept' \cup doomed' : Cardinality(Old(b)') <= size'[b]
                    /\ \A b \in emptied' \cup (bucket' \ (listed' \cup kept' \cup doomed')) :
                         Old(b)' = {}
                    /\ job' # "survey" => listed' = {}
                    /\ job' \in {"size", "done"} => used' = Total(size, kept \cup doomed)'
                    /\ job' = "done" => doomed' = {} /\ used' <= MaxSize
  BY DEF Surveyed
<1> QED  BY <1>2, <1>3, <1>4, <1>5, <1>6, <1>7, <1>8, <1>9, <1>10, <1>11, <1>12, <1>13
         DEF CleanupMove, CleanupStep

-----------------------------------------------------------------------------
(***************************************************************************)
(* A request and its bucket                                                *)
(***************************************************************************)
Provided ==
  \A r \in Request :
    /\ r \in InStore => submission[r] \in {"parse", "rejected", "failed"} \/ r \in made
    /\ r \in InStore \cap saved => r \in made
    /\ r \notin saved => stored[r] = {}
    /\ submission[r] \in {"parse", "rejected"} => r \notin source \cup made

LEMMA ProvidedKept ==
  ASSUME ObjectsTypeOK, CleanupTypeOK, Launching, Provided, [Next]_vars  PROVE Provided'
<1> USE ResourcesAssumption DEF Provided
<1>1. ASSUME NEW r \in Request, SubmitBucket(r)  PROVE Provided'
  <2>1. /\ submission[r] = "parse" /\ UNCHANGED <<saved, source, stored>>
        /\ made' = IF r \in InStore THEN made \cup {r} ELSE made
        /\ submission' = [submission EXCEPT ![r] = "generate"]
    BY <1>1 DEF SubmitBucket, CreateBucket, Go, MakeBucket, cleanupVars, store
  <2> QED  BY <2>1 DEF ObjectsTypeOK
<1>2. ASSUME NEW r \in Request, NEW o \in Object, Upload(r, o)  PROVE Provided'
  <2>1. /\ r \in saved /\ UNCHANGED <<submission, saved, source, made>>
        /\ stored' = [stored EXCEPT ![r] = @ \cup {o}]
    BY <1>2 DEF Upload, PutObject, Launching, objectVars
  <2> QED  BY <2>1 DEF CleanupTypeOK
<1>3. CASE Elsewhere
  <2>1. /\ UNCHANGED <<submission, saved, source>>
        /\ \A q \in Request : stored'[q] = stored[q] /\ (q \in made' <=> q \in made)
    BY <1>3 DEF Elsewhere, PutObject, MakeBucket, objectVars, CleanupTypeOK
  <2> QED  BY <2>1
<1>4. ASSUME NEW r \in Request, SubmissionStep(r), UNCHANGED cleanupVars  PROVE Provided'
  <2> USE <1>4 DEF cleanupVars, store, ObjectsTypeOK
  <2>1. CASE Reject(r) \/ GenerateCode(r) \/ GenerateFails(r) \/ ImageMissing(r) \/ Save(r)
    BY <2>1 DEF Reject, GenerateCode, GenerateFails, ImageMissing, Save, Go
  <2>2. CASE CreateBucketFails(r) \/ LaunchRefused(r) \/ LaunchOfLess(r) \/ SubmissionBreaks(r)
    BY <2>2 DEF CreateBucketFails, LaunchRefused, LaunchOfLess, SubmissionBreaks, Go, AfterLaunch
  <2>3. CASE Launch(r) \/ CreateScaler(r) \/ ScalerRefused(r)
    BY <2>3 DEF Launch, CreateScaler, ScalerRefused, Go, AfterLaunch
  <2> QED  BY <2>1, <2>2, <2>3 DEF SubmissionStep
<1>5. ASSUME NEW r \in Request, UNCHANGED cleanupVars,
             PodsStart(r) \/ PodsEnd(r) \/ \E e \in Ender : EndStep(r, e)
      PROVE  Provided'
  <2>1. UNCHANGED <<submission, saved>> /\ source' \subseteq source
    BY <1>5 DEF PodsStart, PodsEnd, EndStep, BeginEnd, DeleteScaler, DeleteSource,
                DeleteDeployment, DeleteRefused, EndBreaks
  <2> QED  BY <1>5, <2>1 DEF cleanupVars, store
<1>6. CASE (CleanupStep \/ Tomorrow) /\ UNCHANGED objectVars
  <2>1. made' = made /\ \A b \in Bucket : stored'[b] \subseteq stored[b]
    BY <1>6, OnlyCleansUp
  <2>2. UNCHANGED <<submission, saved, source>>
    BY <1>6 DEF objectVars
  <2> QED  BY <2>1, <2>2
<1>7. CASE UNCHANGED vars
  BY <1>7 DEF vars, objectVars, cleanupVars, store
<1> QED  BY <1>1, <1>2, <1>3, <1>4, <1>5, <1>6, <1>7 DEF Next, ObjectsStep
-----------------------------------------------------------------------------
(***************************************************************************)
(* The theorems                                                            *)
(***************************************************************************)
IInv ==
  /\ TypeOK
  /\ Launching /\ Served /\ FaultsExplain
  /\ Dated /\ Condemned /\ ReportedAreGone /\ Surveyed
  /\ Provided

LEMMA Initially == Init => IInv
<1> SUFFICES ASSUME Init  PROVE IInv
  OBVIOUS
<1> USE DEF Init
<1>1. ObjectsTypeOK
  BY ObjectsAssumption DEF ObjectsInit, ObjectsTypeOK, Submitting, Ending
<1>2. CleanupTypeOK
  <2>1. 0 \in Amount /\ 0 \in Day
    BY CleanupAssumption, FS_CardinalityType DEF Amount, Day
  <2> QED  BY <2>1, CleanupAssumption DEF CleanupInit, CleanupTypeOK, Resting, Clear, Never, Job
<1>3. Launching
  BY DEF ObjectsInit, Launching
<1>4. Served
  BY DEF ObjectsInit, Served
<1>5. FaultsExplain
  <2>1. ASSUME NEW r \in Request, NEW e \in Ender  PROVE Missed(r, e) = {}
    BY DEF ObjectsInit, Missed, Passed
  <2> QED  BY <2>1, FS_EmptySet DEF FaultsExplain, ObjectsInit
<1>6. Dated /\ Condemned /\ ReportedAreGone /\ Surveyed
  BY DEF CleanupInit, Resting, Dated, Condemned, ReportedAreGone, Surveyed
<1>7. Provided
  BY ResourcesAssumption DEF ObjectsInit, CleanupInit, Provided
<1> QED  BY <1>1, <1>2, <1>3, <1>4, <1>5, <1>6, <1>7 DEF IInv, TypeOK

LEMMA Inductive == IInv /\ [Next]_vars => IInv'
<1> SUFFICES ASSUME IInv, [Next]_vars  PROVE IInv'
  OBVIOUS
<1>1. ObjectsMove /\ CleanupMove
  BY Split
<1>2. ObjectsTypeOK' /\ Launching' /\ Served' /\ FaultsExplain'
  BY <1>1, ObjectsTyped, LaunchingKept, ServedKept, FaultsExplainKept DEF IInv, TypeOK
<1>3. CleanupTypeOK' /\ Dated' /\ Condemned' /\ ReportedAreGone'
  BY <1>1, CleanupTyped, DatedKept, CondemnedKept, ReportedKept DEF IInv, TypeOK
<1>5. Surveyed'
  BY <1>1, <1>3, SurveyedKept DEF IInv, TypeOK
<1>4. Provided'
  BY ProvidedKept DEF IInv, TypeOK
<1> QED  BY <1>2, <1>3, <1>4, <1>5 DEF IInv, TypeOK

\* The variables keep their types.
THEOREM ResourcesTyped == Spec => []TypeOK
<1>1. IInv => TypeOK
  BY DEF IInv
<1> QED  BY Initially, Inductive, <1>1, PTL DEF Spec

\* An accepted request that nothing ended has transformers that can start.
THEOREM ResourcesServe == Spec => []AcceptedAreServed
<1>1. IInv => AcceptedAreServed
  BY DEF IInv, AcceptedAreServed, Launching, Served
<1> QED  BY Initially, Inductive, <1>1, PTL DEF Spec

\* After shutdown_transformer_job every fault explains one object that is left.
THEOREM ResourcesReleased == Spec => []LeftoversBounded
<1>1. ASSUME IInv  PROVE LeftoversBounded
  <2> SUFFICES ASSUME NEW r \in Request \ early, NEW e \in Ender, ending[r][e] = "ended"
               PROVE  Cardinality(Owned(r)) <= faults
    BY DEF LeftoversBounded, Ended
  <2>1. Passed(ending[r][e]) = {"scaler", "source", "deployment"}
    BY DEF Passed
  <2>2. Missed(r, e) = Owned(r)
    BY <2>1 DEF Missed, Owned
  <2> QED  BY <1>1, <2>2 DEF IInv, FaultsExplain
<1> QED  BY Initially, Inductive, <1>1, PTL DEF Spec

\* The transformers of a request for the object store had its bucket.
THEOREM ResourcesHadBuckets == Spec => []TransformersHadBuckets
<1>1. IInv => TransformersHadBuckets
  BY ResourcesAssumption DEF IInv, TypeOK, ObjectsTypeOK, TransformersHadBuckets, Launching, Provided
<1> QED  BY Initially, Inductive, <1>1, PTL DEF Spec

\* A submission that was not saved has nothing that runs and no data.
THEOREM ResourcesUnsaved == Spec => []UnsavedLeaveNothingRunning
<1>1. ASSUME IInv  PROVE UnsavedLeaveNothingRunning
  <2>1. \A r \in Request \ saved : r \notin pods /\ Owned(r) \subseteq {"source"}
    BY <1>1 DEF IInv, Launching, Owned
  <2> QED  BY <1>1, <2>1 DEF IInv, Provided, UnsavedLeaveNothingRunning
<1> QED  BY Initially, Inductive, <1>1, PTL DEF Spec

\* What a cleanup reports as deleted is gone, unless the store had an error.
THEOREM ResourcesReported == Spec => []ReportedAreGone
<1>1. IInv => ReportedAreGone
  BY DEF IInv
<1> QED  BY Initially, Inductive, <1>1, PTL DEF Spec

\* A job that is done, without errors of the store, leaves no more than the limit, but for
\* what was written since it started.
THEOREM ResourcesBounded == Spec => []StorageBounded
<1>1. ASSUME IInv, job = "done", errors = 0
      PROVE  Cardinality({x \in (bucket \X Object) \ late : x[2] \in stored[x[1]]}) <= MaxSize
  <2> DEFINE X == {x \in (bucket \X Object) \ late : x[2] \in stored[x[1]]}
             Y == {x \in kept \X Object : x[2] \in Old(x[1])}
  <2>1. /\ CleanupTypeOK /\ kept \subseteq Bucket /\ bucket \subseteq Bucket
        /\ listed = {} /\ doomed = {} /\ used <= MaxSize /\ used = Total(size, kept \cup doomed)
        /\ \A b \in kept : Cardinality(Old(b)) <= size[b]
        /\ \A b \in bucket \ kept : Old(b) = {}
    BY <1>1 DEF IInv, TypeOK, CleanupTypeOK, Surveyed
  <2>2. kept \cup doomed = kept
    BY <2>1
  <2>3. used = Total(size, kept) /\ used \in Nat /\ MaxSize \in Nat
    BY <2>1, <2>2, TotalIsNat, CleanupAssumption
  <2>4. ASSUME NEW x \in X  PROVE x \in Y
    <3>1. x = <<x[1], x[2]>> /\ x[1] \in bucket /\ x[2] \in Object
      OBVIOUS
    <3>2. x[2] \in Old(x[1])
      BY <3>1 DEF Old
    <3>3. x[1] \in kept
      BY <2>1, <3>1, <3>2
    <3> QED  BY <3>1, <3>2, <3>3
  <2>5. Cardinality(Y) <= Total(size, kept)
    BY <2>1, TotalBounds
  <2>6. IsFiniteSet(kept \X Object)
    BY <2>1, CleanupAssumption, FS_Subset, FS_Product
  <2>7. Y \in SUBSET (kept \X Object) /\ X \in SUBSET Y
    BY <2>4
  <2> HIDE DEF X, Y
  <2>8. IsFiniteSet(Y)
    BY <2>6, <2>7, FS_Subset
  <2>9. Cardinality(X) <= Cardinality(Y) /\ Cardinality(X) \in Nat /\ Cardinality(Y) \in Nat
    BY <2>7, <2>8, FS_Subset, FS_CardinalityType
  <2>10. Cardinality(X) <= MaxSize
    BY <2>1, <2>3, <2>5, <2>9
  <2> QED  BY <2>10 DEF X
<1>2. IInv => StorageBounded
  BY <1>1 DEF StorageBounded
<1> QED  BY Initially, Inductive, <1>2, PTL DEF Spec

\* A bucket is deleted for its age only if it is that old, and for the size of
\* the store only while that is too large.
THEOREM ResourcesYoungSurvive == Spec => YoungBucketsSurvive
<1> DEFINE Deserved == \A b \in bucket \ bucket' :
             \/ job = "age" /\ today - born[b] > MaxAge
             \/ job = "size" /\ used > NormSize
<1>1. IInv /\ [Next]_vars => [Deserved]_cleanupVars
  <2> SUFFICES ASSUME IInv, [Next]_vars, NEW b \in bucket \ bucket'
               PROVE  \/ job = "age" /\ today - born[b] > MaxAge
                      \/ job = "size" /\ used > NormSize
    OBVIOUS
  <2>1. b \in Bucket /\ RemoveBucket(b)
    <3>1. CleanupMove /\ CleanupTypeOK
      BY Split DEF IInv, TypeOK
    <3> QED  BY <3>1 DEF CleanupTypeOK, CleanupMove, CleanupStep, MakeBucket, PutObject, Tomorrow,
               StartCleanup, ChooseOld, Measure, Enough, EndCleanup, CleanupFails, Forget, Look,
               RemoveObjects, RemoveObjectsFails, RemoveBucket, RemoveOldBucketFails, ChooseOldest,
               store, cleanupVars
  <2>2. b \in doomed /\ job \in {"age", "size"} /\ b \in made
    BY <2>1 DEF RemoveBucket, IInv, TypeOK, CleanupTypeOK
  <2>3. born[b] <= oldest[b] /\ born[b] \in Int /\ oldest[b] \in Int /\ today \in Int
    BY <2>1, <2>2 DEF IInv, TypeOK, CleanupTypeOK, Dated, Day
  <2> QED  BY <2>2, <2>3, CleanupAssumption DEF IInv, Condemned
<1> QED  BY Initially, Inductive, <1>1, PTL DEF Spec, YoungBucketsSurvive
=============================================================================
