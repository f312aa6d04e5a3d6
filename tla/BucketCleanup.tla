---------------------------- MODULE BucketCleanup ----------------------------
(***************************************************************************)
(* The object store, and the cron job that cleans it up.                   *)
(*                                                                         *)
(* Every request has a bucket of its own, which the App creates and the    *)
(* transformers fill.  cleanup_storage first looks at each bucket, then    *)
(* deletes the old ones concurrently and, if what it keeps is more than    *)
(* MaxSize, the oldest of these one by one until NormSize is reached.  All *)
(* of it works on what the first pass saw, while the writers go on.  The   *)
(* cron job forbids two jobs at once and restarts one that failed.         *)
(*                                                                         *)
(* An object has size one and carries the day of its last upload.          *)
(***************************************************************************)
EXTENDS Integers, FiniteSets, FiniteSetsExt

CONSTANTS Bucket, Object,
          MaxAge, MaxSize, NormSize,  \* --max-age, --max-size, --norm-size
          MaxDay,                     \* bound on the clock
          MaxErrors                   \* bound on the errors of the store

ASSUME CleanupAssumption ==
  /\ {MaxAge, MaxSize, NormSize, MaxDay, MaxErrors} \subseteq Nat
  /\ NormSize <= MaxSize
  /\ IsFiniteSet(Bucket) /\ IsFiniteSet(Object)

VARIABLES
  bucket,    \* the buckets that exist
  stored,    \* stored[b]: the objects in b
  modified,  \* modified[b][o]: the day o was last written to b
  today,
  job,       \* where the cleanup job is
  listed,    \* the buckets it has still to look at
  size,      \* BucketInfo.size ...
  oldest,    \* ... and BucketInfo.last_modified of those it has looked at
  kept,      \* the buckets it keeps so far
  doomed,    \* the buckets it is about to delete, by age or by size
  emptied,   \* those of them whose objects it has removed
  used,      \* current_size
  cleaned,   \* cleaned_buckets
  made,      \* history: the buckets created so far: their names are uuids
  born,      \* history: the day each bucket was created
  late,      \* history: the objects written since the job started
  errors     \* number of errors of the store so far

store == <<bucket, stored, modified, made, born>>
work == <<listed, size, oldest, kept, doomed, emptied, used, cleaned>>
cleanupVars == <<store, today, job, work, late, errors>>
-----------------------------------------------------------------------------
Day == 0..MaxDay
Job == {"idle", "survey", "age", "size", "done"}
Amount == 0..Cardinality(Object)

\* The sum of f[b] over the buckets b in S: the number of their units of storage.
Units(f, S) == UNION {{b} \X (1..f[b]) : b \in S}
Total(f, S) == Cardinality(Units(f, S))
SizeOf == [b \in Bucket |-> Cardinality(stored[b])]
Clear == [b \in Bucket |-> 0]
Never == [o \in Object |-> 0]

CleanupTypeOK ==
  /\ bucket \subseteq made /\ made \subseteq Bucket
  /\ stored \in [Bucket -> SUBSET Object]
  /\ modified \in [Bucket -> [Object -> Day]]
  /\ born \in [Bucket -> Day]
  /\ today \in Day
  /\ job \in Job
  /\ {listed, kept, doomed, emptied, cleaned} \subseteq SUBSET Bucket
  /\ listed \cap kept = {} /\ kept \cap doomed = {} /\ emptied \subseteq doomed
  /\ size \in [Bucket -> Amount]
  /\ oldest \in [Bucket -> Day]
  /\ late \subseteq Bucket \X Object
  /\ errors \in 0..MaxErrors

Resting == /\ listed = {} /\ kept = {} /\ doomed = {} /\ emptied = {} /\ cleaned = {}
           /\ used = 0 /\ size = Clear /\ oldest = Clear

CleanupInit ==
  /\ bucket = {} /\ made = {}
  /\ stored = [b \in Bucket |-> {}]
  /\ modified = [b \in Bucket |-> Never]
  /\ born = Clear
  /\ today = 0 /\ job = "idle" /\ late = {} /\ errors = 0
  /\ Resting
-----------------------------------------------------------------------------
(***************************************************************************)
(* The App, the transformers and the calendar                              *)
(***************************************************************************)
\* make_bucket, under the name of a new request.
MakeBucket(b) ==
  /\ b \notin made
  /\ bucket' = bucket \cup {b} /\ made' = made \cup {b}
  /\ born' = [born EXCEPT ![b] = today]
  /\ UNCHANGED <<stored, modified, today, job, work, late, errors>>

\* fput_object: a file that is transformed again is written again.
PutObject(b, o) ==
  /\ b \in bucket
  /\ stored' = [stored EXCEPT ![b] = @ \cup {o}]
  /\ modified' = [modified EXCEPT ![b][o] = today]
  /\ late' = IF job = "idle" THEN {} ELSE late \cup {<<b, o>>}
  /\ UNCHANGED <<bucket, made, born, today, job, work, errors>>

Tomorrow ==
  /\ today < MaxDay
  /\ today' = today + 1
  /\ UNCHANGED <<store, job, work, late, errors>>
-----------------------------------------------------------------------------
(***************************************************************************)
(* cleanup_storage                                                         *)
(***************************************************************************)
StoreError == errors < MaxErrors /\ errors' = errors + 1

\* list_buckets.
StartCleanup ==
  /\ job = "idle"
  /\ job' = "survey"
  /\ listed' = bucket
  /\ late' = {}
  /\ UNCHANGED <<store, today, size, oldest, kept, doomed, emptied, used, cleaned, errors>>

\* What get_bucket_info takes the earliest of: today is there from the start.
Days(b) == {today} \cup {modified[b][o] : o \in stored[b]}

\* Mutated form of Look: a bucket without objects is as old as can be.
LookEmptyIsOld(b) ==
  /\ job = "survey" /\ b \in listed
  /\ listed' = listed \ {b}
  /\ kept' = kept \cup {b}
  /\ size' = [size EXCEPT ![b] = SizeOf[b]]
  /\ \E day \in Days(b) :
       /\ \A other \in Days(b) : day <= other
       /\ oldest' = [oldest EXCEPT ![b] = IF stored[b] = {} THEN 0 ELSE day]
  /\ UNCHANGED <<store, today, job, doomed, emptied, used, cleaned, late, errors>>

\* get_bucket_info: the size, and the day of the oldest object.
Look(b) ==
  /\ job = "survey" /\ b \in listed
  /\ listed' = listed \ {b}
  /\ kept' = kept \cup {b}
  /\ size' = [size EXCEPT ![b] = SizeOf[b]]
  /\ \E day \in Days(b) :
       /\ \A other \in Days(b) : day <= other
       /\ oldest' = [oldest EXCEPT ![b] = day]
  /\ UNCHANGED <<store, today, job, doomed, emptied, used, cleaned, late, errors>>

\* Mutated form of ChooseOld: every bucket is kept.
ChooseOldKeepAll ==
  /\ job = "survey" /\ listed = {}
  /\ job' = "age"
  /\ doomed' = {b \in kept : today - oldest[b] > MaxAge}
  /\ UNCHANGED <<store, today, listed, size, oldest, kept, emptied, used, cleaned, late, errors>>

\* The old buckets are handed to the pool of threads.
ChooseOld ==
  /\ job = "survey" /\ listed = {}
  /\ job' = "age"
  /\ doomed' = {b \in kept : today - oldest[b] > MaxAge}
  /\ kept' = kept \ doomed'
  /\ UNCHANGED <<store, today, listed, size, oldest, emptied, used, cleaned, late, errors>>

\* delete_bucket, first half: list_objects and remove_objects.
RemoveObjects(b) ==
  /\ job \in {"age", "size"}
  /\ b \in doomed \ emptied
  /\ stored' = [stored EXCEPT ![b] = {}]
  /\ modified' = [modified EXCEPT ![b] = Never]
  /\ emptied' = emptied \cup {b}
  /\ UNCHANGED <<bucket, made, born, today, job, listed, size, oldest, kept,
                 doomed, used, cleaned, late, errors>>

\* Some objects cannot be removed.  delete_bucket returns False: the old bucket
\* is not reported, but the caller of the second loop does not look at it.
RemoveObjectsFails(b) ==
  /\ job \in {"age", "size"}
  /\ b \in doomed \ emptied
  /\ StoreError
  /\ \E left \in (SUBSET stored[b]) \ {{}} :
       /\ stored' = [stored EXCEPT ![b] = left]
       /\ modified' = [modified EXCEPT ![b] = [o \in Object |-> IF o \in left THEN @[o] ELSE 0]]
  /\ doomed' = doomed \ {b}
  /\ cleaned' = IF job = "size" THEN cleaned \cup {b} ELSE cleaned
  /\ used' = IF job = "size" THEN used - size[b] ELSE used
  /\ UNCHANGED <<bucket, made, born, today, job, listed, size, oldest, kept, emptied, late>>

\* delete_bucket, second half: remove_bucket, of an empty bucket.
RemoveBucket(b) ==
  /\ job \in {"age", "size"}
  /\ b \in emptied /\ stored[b] = {}
  /\ bucket' = bucket \ {b}
  /\ doomed' = doomed \ {b} /\ emptied' = emptied \ {b}
  /\ cleaned' = cleaned \cup {b}
  /\ used' = IF job = "size" THEN used - size[b] ELSE used
  /\ UNCHANGED <<stored, modified, made, born, today, job, listed, size, oldest, kept, late, errors>>

\* Mutated form of RemoveOldBucketFails: what was tried is reported.
RemoveOldBucketReported(b) ==
  /\ job = "age" /\ b \in doomed
  /\ IF b \in emptied /\ stored[b] # {} THEN UNCHANGED errors ELSE StoreError
  /\ doomed' = doomed \ {b} /\ emptied' = emptied \ {b}
  /\ cleaned' = cleaned \cup {b}
  /\ UNCHANGED <<store, today, job, listed, size, oldest, kept, used, late>>

\* Of the first loop: the exception is logged.  Either the bucket that was emptied
\* is not empty any more, or a call to the store failed.
RemoveOldBucketFails(b) ==
  /\ job = "age" /\ b \in doomed
  /\ IF b \in emptied /\ stored[b] # {} THEN UNCHANGED errors ELSE StoreError
  /\ doomed' = doomed \ {b} /\ emptied' = emptied \ {b}
  /\ UNCHANGED <<store, today, job, listed, size, oldest, kept, used, cleaned, late>>

\* Mutated form of Measure: the size of the largest bucket.
MeasureLargest ==
  /\ job = "age" /\ doomed = {}
  /\ used' = Max({0} \cup {size[b] : b \in kept})
  /\ job' = IF used' > MaxSize THEN "size" ELSE "done"
  /\ UNCHANGED <<store, today, listed, size, oldest, kept, doomed, emptied, cleaned, late, errors>>

\* The sum of the sizes, when all old buckets are dealt with.
Measure ==
  /\ job = "age" /\ doomed = {}
  /\ used' = Total(size, kept)
  /\ job' = IF used' > MaxSize THEN "size" ELSE "done"
  /\ UNCHANGED <<store, today, listed, size, oldest, kept, doomed, emptied, cleaned, late, errors>>

\* The next oldest of the kept buckets.
ChooseOldest(b) ==
  /\ job = "size" /\ doomed = {}
  /\ used > NormSize
  /\ b \in kept /\ \A c \in kept : oldest[b] <= oldest[c]
  /\ kept' = kept \ {b} /\ doomed' = {b}
  /\ UNCHANGED <<store, today, job, listed, size, oldest, emptied, used, cleaned, late, errors>>

Enough ==
  /\ job = "size" /\ doomed = {}
  /\ used <= NormSize \/ kept = {}
  /\ job' = "done"
  /\ UNCHANGED <<store, today, work, late, errors>>

Forget ==
  /\ job' = "idle"
  /\ listed' = {} /\ kept' = {} /\ doomed' = {} /\ emptied' = {} /\ cleaned' = {}
  /\ used' = 0 /\ size' = Clear /\ oldest' = Clear
  /\ late' = {}
  /\ UNCHANGED <<store, today>>

\* The job has reported the size and the deleted buckets.
EndCleanup == job = "done" /\ Forget /\ UNCHANGED errors

\* An exception of the survey, or of delete_bucket in the second loop, ends the
\* job; the next one starts from nothing.
CleanupFails ==
  /\ \/ job = "survey" /\ StoreError
     \/ job = "size" /\ doomed # {} /\ StoreError
     \/ job = "size" /\ (\E b \in emptied : stored[b] # {}) /\ UNCHANGED errors
  /\ Forget

CleanupStep ==
  \/ StartCleanup \/ ChooseOld \/ Measure \/ Enough \/ EndCleanup \/ CleanupFails
  \/ \E b \in Bucket : \/ Look(b) \/ RemoveObjects(b) \/ RemoveObjectsFails(b)
                       \/ RemoveBucket(b) \/ RemoveOldBucketFails(b) \/ ChooseOldest(b)

CleanupNext ==
  \/ CleanupStep \/ Tomorrow
  \/ \E b \in Bucket : MakeBucket(b) \/ \E o \in Object : PutObject(b, o)

CleanupSpec == CleanupInit /\ [][CleanupNext]_cleanupVars
-----------------------------------------------------------------------------
\* A bucket that is deleted for its age was created more than MaxAge days ago,
\* whatever was written to it since the survey (cleanup_storage, --max-age);
\* younger ones go only when the survey found more than MaxSize.
YoungBucketsSurvive ==
  [][\A b \in bucket \ bucket' :
       \/ job = "age" /\ today - born[b] > MaxAge
       \/ job = "size" /\ used > NormSize]_cleanupVars

\* What a job reports as deleted does not exist any more, unless the store
\* refused to remove some of its objects.
ReportedAreGone == errors = 0 => cleaned \cap bucket = {}

\* When a job is done, and the store had no errors, what is stored is within the
\* limit, but for what was written while the job was running.
StorageBounded ==
  job = "done" /\ errors = 0 =>
    Cardinality({x \in (bucket \X Object) \ late : x[2] \in stored[x[1]]}) <= MaxSize
=============================================================================
