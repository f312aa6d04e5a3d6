--------------------------- MODULE RequestResources ---------------------------
(***************************************************************************)
(* The transformers of a request and the bucket they write to, with the    *)
(* job that cleans up the object store: TransformerObjects and             *)
(* BucketCleanup composed.  The bucket of a request has its name; the      *)
(* other buckets are of requests that are not followed.                    *)
(***************************************************************************)
EXTENDS TransformerObjects, BucketCleanup

CONSTANT InStore   \* the requests whose results go to the object store

ASSUME ResourcesAssumption == InStore \subseteq Request /\ Request \subseteq Bucket

vars == <<objectVars, cleanupVars>>

Init == ObjectsInit /\ CleanupInit

\* Mutated form of SubmitBucket: the App's own create_bucket does not raise.
SubmitBucketOrNot(r) ==
  /\ CreateBucket(r)
  /\ \/ r \in InStore /\ MakeBucket(r)
     \/ UNCHANGED cleanupVars

\* The submission creates the bucket first, if its results go to the object store.
SubmitBucket(r) ==
  /\ CreateBucket(r)
  /\ IF r \in InStore THEN MakeBucket(r) ELSE UNCHANGED cleanupVars

\* A transformer of r uploads a file to the bucket of r.
Upload(r, o) ==
  /\ r \in pods \cap InStore
  /\ PutObject(r, o)
  /\ UNCHANGED objectVars

\* The same for the requests that are not followed.
Elsewhere ==
  /\ \E b \in Bucket \ Request : MakeBucket(b) \/ \E o \in Object : PutObject(b, o)
  /\ UNCHANGED objectVars

\* The two bounds on faults together.
FewFaults == faults' + errors' <= Largest(MaxFaults, MaxErrors)

Next ==
  /\ \/ ObjectsStep /\ UNCHANGED cleanupVars
     \/ \E r \in Request : SubmitBucket(r) \/ \E o \in Object : Upload(r, o)
     \/ Elsewhere
     \/ (CleanupStep \/ Tomorrow) /\ UNCHANGED objectVars
  /\ FewFaults

Spec == Init /\ [][Next]_vars
-----------------------------------------------------------------------------
TypeOK == ObjectsTypeOK /\ CleanupTypeOK

\* The transformers of a request for the object store find its bucket, unless the
\* cleanup deleted it for its age or for the size of the store: create_bucket
\* comes before everything else, and if it fails so does the submission.
TransformersHadBuckets == pods \cap InStore \subseteq made

\* A submission that is answered with an error before the commit may leave its
\* ConfigMap, if it got as far, and an empty bucket, which never grows old: never
\* anything that runs, nor any data.  One that is rejected for what it asks
\* leaves nothing (submit.py post).
UnsavedLeaveNothingRunning ==
  \A r \in Request \ saved :
    /\ r \notin pods /\ Owned(r) \subseteq {"source"} /\ stored[r] = {}
    /\ submission[r] \in {"parse", "rejected"} => r \notin source \cup made
=============================================================================
