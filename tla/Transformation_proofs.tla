------------------------ MODULE Transformation_proofs ------------------------
(***************************************************************************)
(* Theorems about a whole request, for any number of files, replicas,      *)
(* workers and faults.  The invariants of the pod (Sidecar_proofs) and of  *)
(* the handlers (FileCompletion_proofs) are taken from there; what is new  *)
(* is what ties them together.                                             *)
(***************************************************************************)
EXTENDS Transformation, Sidecar_proofs, FiniteSetTheorems

\* The facts about the handlers, as they are used here.
AP == INSTANCE FileCompletion_proofs
        WITH todo <- {f \in File : Reported(f) = 0},
             reports <- arriving,
             faults <- appFaults,
             MaxFaults <- AppFaults

\* Finite sets and their sizes are the same things in the instances.
LEMMA SameSizes ==
  \A S : /\ AP!IsFiniteSet(S) <=> IsFiniteSet(S)
         /\ App!Cardinality(S) = Cardinality(S)
         /\ AP!Cardinality(S) = Cardinality(S)
<1>1. \A S : AP!IsFiniteSet(S) <=> IsFiniteSet(S)
  BY DEF AP!IsFiniteSet, IsFiniteSet
<1>2. \A S : App!Cardinality(S) = Cardinality(S)
  BY DEF App!Cardinality, Cardinality
<1>3. \A S : AP!Cardinality(S) = Cardinality(S)
  BY DEF AP!Cardinality, Cardinality
<1> QED  BY <1>1, <1>2, <1>3

\* The same action, seen through the two instances.
LEMMA SameStep == ASSUME NEW w \in Worker, App!Step(w)  PROVE AP!Step(w)
<1> USE DEF App!Goto, AP!Goto, App!Return, AP!Return, App!Idle, AP!Idle
<1>1. ASSUME NEW f \in File, App!Receive(w, f)  PROVE AP!Receive(w, f)
  BY <1>1 DEF App!Receive, AP!Receive
<1>2. CASE App!Record(w)
  BY <1>2 DEF App!Record, AP!Record, AP!Step
<1>3. CASE App!Save(w)
  BY <1>3 DEF App!Save, AP!Save, AP!Step
<1>4. CASE App!Check(w)
  BY <1>4, SameSizes
     DEF App!Check, AP!Check, AP!Step, App!FilesRemaining, AP!FilesRemaining,
         App!ResultCount, AP!ResultCount
<1>5. CASE App!Complete(w)
  BY <1>5 DEF App!Complete, AP!Complete, AP!Step
<1>6. CASE App!Shutdown(w)
  BY <1>6 DEF App!Shutdown, AP!Shutdown, AP!Step
<1> QED  BY <1>1, <1>2, <1>3, <1>4, <1>5, <1>6 DEF App!Step, AP!Step

LEMMA SameFaults ==
  /\ \A w \in Worker : App!Abort(w) => AP!Abort(w)
  /\ \A w \in Worker : App!RetryComplete(w) => AP!RetryComplete(w)
  /\ \A f \in File : App!LoseReport(f) => AP!LoseReport(f)
<1> USE DEF App!Goto, AP!Goto, App!Return, AP!Return, App!Idle, AP!Idle, App!Fault, AP!Fault
<1>1. ASSUME NEW w \in Worker, App!Abort(w)  PROVE AP!Abort(w)
  BY <1>1 DEF App!Abort, AP!Abort
<1>2. ASSUME NEW w \in Worker, App!RetryComplete(w)  PROVE AP!RetryComplete(w)
  BY <1>2 DEF App!RetryComplete, AP!RetryComplete
<1>3. ASSUME NEW f \in File, App!LoseReport(f)  PROVE AP!LoseReport(f)
  BY <1>3 DEF App!LoseReport, AP!LoseReport
<1> QED  BY <1>1, <1>2, <1>3

LEMMA SameNext == [App!Next]_App!vars => [AP!Next]_AP!vars
<1>1. ASSUME NEW f \in File, App!Report(f)  PROVE AP!Report(f)
  BY <1>1 DEF App!Report, AP!Report
<1> QED  BY <1>1, SameStep DEF App!Next, AP!Next, App!vars, AP!vars

LEMMA SameInit == App!Init => AP!Init
BY DEF App!Init, AP!Init, App!Idle, AP!Idle
-----------------------------------------------------------------------------
(***************************************************************************)
(* The steps of the composition are steps of its parts.                    *)
(***************************************************************************)
LEMMA PodSteps == ASSUME [WholeNext]_wholeVars  PROVE [Next]_vars
BY DEF WholeNext, PodStep, Handles, AppFails, wholeVars

\* The App changes nothing of the pod's state and only keeps an ended pod from being
\* replaced once the deployment is gone: every behaviour of the composition is one of
\* the pod, and what Sidecar_proofs proves of the pod holds here.
THEOREM PodImplemented == WholeSpec => Spec
<1>1. WholeInit => Init
  BY DEF WholeInit
<1> QED  BY <1>1, PodSteps, PTL DEF WholeSpec, Spec

\* What the pod reports.
LEMMA ReportedStep ==
  ASSUME TypeOK, [Next]_vars
  PROVE  /\ \A f \in File : Reported(f) \in Nat /\ Reported(f)' \in Nat
         /\ \/ UNCHANGED <<success, failure>>
            \/ \E g \in File :
                 /\ Reported(g)' = Reported(g) + 1
                 /\ \A f \in File \ {g} : /\ success'[f] = success[f]
                                          /\ failure'[f] = failure[f]
                                          /\ Reported(f)' = Reported(f)
<1>1. /\ success \in [File -> Nat] /\ failure \in [File -> Nat]
      /\ success' \in [File -> Nat] /\ failure' \in [File -> Nat]
  BY NextType DEF TypeOK
<1>2. \A f \in File : Reported(f) \in Nat /\ Reported(f)' \in Nat
  BY <1>1 DEF Reported
<1>3. CASE UNCHANGED <<success, failure>>
  BY <1>2, <1>3
<1>4. ASSUME NEW g \in File,
             \/ success' = [success EXCEPT ![g] = @ + 1] /\ UNCHANGED failure
             \/ failure' = [failure EXCEPT ![g] = @ + 1] /\ UNCHANGED success
      PROVE  /\ Reported(g)' = Reported(g) + 1
             /\ \A f \in File \ {g} : /\ success'[f] = success[f]
                                      /\ failure'[f] = failure[f]
                                      /\ Reported(f)' = Reported(f)
  <2>1. CASE success' = [success EXCEPT ![g] = @ + 1] /\ UNCHANGED failure
    BY <1>1, <2>1 DEF Reported
  <2>2. CASE failure' = [failure EXCEPT ![g] = @ + 1] /\ UNCHANGED success
    BY <1>1, <2>2 DEF Reported
  <2> QED  BY <1>4, <2>1, <2>2
<1> QED  BY <1>2, <1>3, <1>4, OneReport

LEMMA AppSteps ==
  ASSUME WholeNext, ~PodStep  PROVE AP!FaultyNext /\ UNCHANGED vars
BY SameStep, SameFaults DEF WholeNext, Handles, AppFails, AP!FaultyNext, AP!Next

\* The types of the App's variables.
LEMMA AppTypeKept ==
  ASSUME TypeOK, AP!TypeOK, [WholeNext]_wholeVars  PROVE AP!TypeOK'
<1>1. CASE PodStep
  <2>1. /\ arriving' = [f \in File |-> arriving[f] + Reported(f)' - Reported(f)]
        /\ UNCHANGED <<filesCompleted, filesFailed, rows, status, deployed, handler,
                       counted, appFaults>>
        /\ Next
    BY <1>1 DEF PodStep, database
  <2>2. \A f \in File : /\ Reported(f) \in Nat
                        /\ Reported(f)' = Reported(f) \/ Reported(f)' = Reported(f) + 1
    BY <2>1, ReportedStep DEF Reported
  <2>3. arriving' \in [File -> Nat]
    BY <2>1, <2>2 DEF AP!TypeOK
  <2> QED  BY <2>1, <2>3 DEF AP!TypeOK, AP!Stage
<1>2. CASE WholeNext /\ ~PodStep
  <2>1. AP!FaultyNext
    BY <1>2, AppSteps
  <2> QED  BY <2>1, AP!TypeKept, SameSizes, FileAssumption, RequestAssumption, AppAssumption
<1>3. CASE UNCHANGED wholeVars
  BY <1>3 DEF wholeVars, appVars, database, AP!TypeOK, AP!Stage
<1> QED  BY <1>1, <1>2, <1>3
-----------------------------------------------------------------------------
(***************************************************************************)
(* What the App knows of a file it knows from the pod.                     *)
(***************************************************************************)
\* The App has counted, handles or is sent reports only about reported files.
Heard ==
  \A f \in File :
    f \in counted \/ arriving[f] > 0 \/ (\E w \in Worker : handler[w].file = f)
      => Reported(f) > 0

LEMMA HeardKept ==
  ASSUME TypeOK, AP!TypeOK, Heard, [WholeNext]_wholeVars  PROVE Heard'
<1>0. \A f \in File : Reported(f) \in Nat /\ Reported(f)' \in Nat
  BY PodSteps, ReportedStep
<1> SUFFICES ASSUME NEW f \in File,
                    \/ f \in counted' \/ arriving'[f] > 0
                    \/ \E w \in Worker : handler'[w].file = f
             PROVE  Reported(f)' > 0
  BY DEF Heard
<1>1. CASE PodStep
  <2>1. /\ arriving'[f] = arriving[f] + Reported(f)' - Reported(f)
        /\ UNCHANGED <<handler, counted>> /\ Next
    BY <1>1 DEF PodStep
  <2>2. Reported(f)' >= Reported(f)
    BY <1>0, <2>1, ReportedStep DEF Reported
  <2>3. arriving[f] \in Nat
    BY DEF AP!TypeOK
  <2> QED  BY <1>0, <2>1, <2>2, <2>3 DEF Heard
<1>2. CASE WholeNext /\ ~PodStep
  <2>0. Reported(f)' = Reported(f) /\ AP!FaultyNext
    BY <1>2, AppSteps DEF vars, reports, Reported
  <2>1. \A w \in Worker : handler[w].file = f => Reported(f) > 0
    BY DEF Heard
  <2>2. /\ handler \in [Worker -> [pc : AP!Stage, file : File \cup {NoFile}]]
        /\ arriving \in [File -> Nat]
        /\ \A w \in Worker : handler[w].pc # "idle" => handler[w].file \in File
        /\ NoFile # f
    BY FileAssumption DEF AP!TypeOK
  <2>3. ASSUME NEW w \in Worker, NEW g \in File, AP!Receive(w, g)
        PROVE  Reported(f)' > 0
    BY <1>0, <2>0, <2>2, <2>3 DEF AP!Receive, Heard
  <2>4. ASSUME NEW w \in Worker, AP!Record(w)  PROVE Reported(f)' > 0
    BY <1>0, <2>0, <2>2, <2>4 DEF AP!Record, AP!Goto, Heard
  <2>5. ASSUME NEW w \in Worker,
               AP!Save(w) \/ AP!Check(w) \/ AP!Complete(w) \/ AP!Shutdown(w)
                 \/ AP!RetryComplete(w)
        PROVE  Reported(f)' > 0
    BY <1>0, <2>0, <2>2, <2>5
       DEF AP!Save, AP!Check, AP!Complete, AP!Shutdown, AP!RetryComplete,
           AP!Goto, AP!Return, AP!Idle, Heard
  <2>6. ASSUME NEW w \in Worker, AP!Abort(w)  PROVE Reported(f)' > 0
    BY <1>0, <2>0, <2>2, <2>6 DEF AP!Abort, AP!Return, AP!Idle, Heard
  <2>7. ASSUME NEW g \in File, AP!LoseReport(g)  PROVE Reported(f)' > 0
    BY <1>0, <2>0, <2>2, <2>7 DEF AP!LoseReport, Heard
  <2>8. \/ \E w \in Worker : App!Step(w)
        \/ \E w \in Worker : App!Abort(w) \/ App!RetryComplete(w)
        \/ \E g \in File : App!LoseReport(g)
    BY <1>2 DEF WholeNext, Handles, AppFails
  <2> QED  BY <2>3, <2>4, <2>5, <2>6, <2>7, <2>8, SameStep, SameFaults DEF AP!Step
<1>3. CASE UNCHANGED wholeVars
  BY <1>3 DEF wholeVars, vars, reports, appVars, Reported, Heard
<1> QED  BY <1>1, <1>2, <1>3
-----------------------------------------------------------------------------
(***************************************************************************)
(* Without faults.                                                         *)
(***************************************************************************)
\* Before the first fault, the handlers see each task finished at most once, as in
\* FileCompletion.
LEMMA FaultFreeStep ==
  ASSUME PodOK, PodOK', AP!TypeOK, [WholeNext]_wholeVars, FaultFree'
  PROVE  FaultFree /\ [App!Next]_App!vars
<1>0. TypeOK /\ (\A f \in File : Budget(f)') /\ faults' = 0 /\ appFaults' = 0
  BY DEF PodOK, FaultFree
<1>1. faults = 0
  BY <1>0, PodSteps, FaultsNever
<1>2. CASE PodStep
  <2>1. /\ arriving' = [f \in File |-> arriving[f] + Reported(f)' - Reported(f)]
        /\ UNCHANGED <<filesCompleted, filesFailed, rows, status, deployed, handler,
                       counted, appFaults>>
        /\ Next
    BY <1>2 DEF PodStep, database
  <2>2. arriving \in [File -> Nat]
    BY DEF AP!TypeOK
  <2>3. \A f \in File : Reported(f) \in Nat /\ Reported(f)' \in Nat
    BY <1>0, <2>1, ReportedStep
  <2>4. \A f \in File : Reported(f)' <= 1
    BY <1>0, <2>3 DEF Budget, Due
  <2>5. CASE UNCHANGED <<success, failure>>
    <3>1. \A f \in File : Reported(f)' = Reported(f)
      BY <2>5 DEF Reported
    <3>2. arriving' = arriving
      BY <2>1, <2>2, <2>3, <3>1
    <3>3. {f \in File : Reported(f) = 0}' = {f \in File : Reported(f) = 0}
      BY <3>1
    <3> QED  BY <1>0, <1>1, <2>1, <3>2, <3>3 DEF FaultFree, App!vars
  <2>6. ASSUME NEW g \in File, Reported(g)' = Reported(g) + 1,
               \A f \in File \ {g} : Reported(f)' = Reported(f)
        PROVE  App!Report(g)
    <3>1. Reported(g) = 0 /\ Reported(g)' = 1
      BY <2>3, <2>4, <2>6
    <3>2. arriving' = [arriving EXCEPT ![g] = @ + 1]
      <4>1. arriving[g] + Reported(g)' - Reported(g) = arriving[g] + 1
        BY <2>2, <3>1
      <4>2. \A f \in File \ {g} : arriving[f] + Reported(f)' - Reported(f) = arriving[f]
        BY <2>2, <2>3, <2>6
      <4> QED  BY <2>1, <2>2, <4>1, <4>2
    <3>3. {f \in File : Reported(f) = 0}' = {f \in File : Reported(f) = 0} \ {g}
      BY <2>6, <3>1
    <3> QED  BY <2>1, <3>1, <3>2, <3>3 DEF App!Report
  <2> QED  BY <1>0, <1>1, <2>1, <2>5, <2>6, ReportedStep DEF FaultFree, App!Next
<1>3. CASE \E w \in Worker : Handles(w)
  <2>1. \E w \in Worker : App!Step(w)
    BY <1>3 DEF Handles
  <2>2. appFaults' = appFaults
    BY <2>1, SameStep
       DEF AP!Step, AP!Receive, AP!Record, AP!Save, AP!Check, AP!Complete, AP!Shutdown
  <2> QED  BY <1>0, <1>1, <2>1, <2>2 DEF FaultFree, App!Next
<1>4. ~AppFails
  <2>1. AppFails => appFaults' = appFaults + 1
    BY DEF AppFails, App!Abort, App!RetryComplete, App!LoseReport, App!Fault
  <2>2. appFaults \in Nat
    BY AppAssumption DEF AP!TypeOK
  <2> QED  BY <1>0, <2>1, <2>2
<1>5. CASE UNCHANGED wholeVars
  <2>1. {f \in File : Reported(f) = 0}' = {f \in File : Reported(f) = 0}
    BY <1>5 DEF wholeVars, vars, reports, Reported
  <2> QED  BY <1>0, <1>1, <1>5, <2>1 DEF FaultFree, App!vars, wholeVars, appVars, database
<1> QED  BY <1>2, <1>3, <1>4, <1>5 DEF WholeNext

\* The two counters are the numbers of files counted for either report.
Counters ==
  /\ filesCompleted = Cardinality({f \in counted : success[f] > 0})
  /\ filesFailed = Cardinality({f \in counted : failure[f] > 0})

LEMMA CountersKept ==
  ASSUME PodOK, PodOK', AP!TypeOK, Heard, AP!CountedOnce, Counters,
         [WholeNext]_wholeVars, FaultFree'
  PROVE  Counters'
<1> DEFINE succeeded == {f \in counted : success[f] > 0}
           failed == {f \in counted : failure[f] > 0}
<1>0. /\ TypeOK /\ counted \in SUBSET File
      /\ success \in [File -> Nat] /\ failure \in [File -> Nat]
      /\ IsFiniteSet(succeeded) /\ IsFiniteSet(failed)
      /\ [Next]_vars
  <2>1. TypeOK /\ counted \in SUBSET File
    BY DEF PodOK, AP!TypeOK
  <2>2. IsFiniteSet(counted)
    BY <2>1, RequestAssumption, FS_Subset
  <2> QED  BY <2>1, <2>2, FS_Subset, PodSteps DEF TypeOK
<1>1. CASE PodStep
  <2>1. UNCHANGED <<filesCompleted, filesFailed, counted>>
    BY <1>1 DEF PodStep, database
  <2>2. \A f \in counted : success'[f] = success[f] /\ failure'[f] = failure[f]
    <3>1. CASE UNCHANGED <<success, failure>>
      BY <3>1
    <3>2. ASSUME NEW g \in File, Reported(g)' = Reported(g) + 1,
                 \A f \in File \ {g} : success'[f] = success[f] /\ failure'[f] = failure[f]
          PROVE  \A f \in counted : success'[f] = success[f] /\ failure'[f] = failure[f]
      <4>1. Reported(g) \in Nat /\ Reported(g)' <= 1
        <5>1. (Reported(g) + Due(g) <= 1 + faults)' /\ faults' = 0 /\ TypeOK'
          BY DEF PodOK, Budget, FaultFree
        <5>2. Reported(g) \in Nat /\ Reported(g)' \in Nat
          BY <1>0, ReportedStep
        <5> QED  BY <5>1, <5>2 DEF Due
      <4>2. g \notin counted
        BY <3>2, <4>1 DEF Heard
      <4> QED  BY <1>0, <3>2, <4>2
    <3> QED  BY <1>0, <3>1, <3>2, ReportedStep
  <2>3. succeeded' = succeeded /\ failed' = failed
    BY <2>1, <2>2
  <2> QED  BY <2>1, <2>3 DEF Counters
<1>2. CASE \E w \in Worker : Handles(w)
  <2> PICK w \in Worker : Handles(w)
    BY <1>2
  <2>1. AP!Step(w) /\ UNCHANGED <<success, failure>>
    BY SameStep DEF Handles, vars, reports
  <2>2. CASE AP!Record(w)
    <3> DEFINE file == handler[w].file
    <3>1. file \in File /\ file \notin counted /\ counted' = counted \cup {file}
      BY <2>2 DEF AP!TypeOK, AP!Record, AP!CountedOnce, AP!Recording
    <3>2. /\ filesCompleted' # filesCompleted => success[file] > 0
          /\ filesFailed' # filesFailed => failure[file] > 0
      BY DEF Handles, AsReported
    <3>3. success[file] + failure[file] <= 1
      <4>1. Reported(file) \in Nat /\ Due(file) \in Nat /\ faults = 0
        BY <1>0, <3>1, FaultFreeStep, BudgetTypes DEF FaultFree
      <4>2. Reported(file) + Due(file) <= 1 + faults
        BY <3>1 DEF PodOK, Budget
      <4> QED  BY <4>1, <4>2 DEF Reported
    <3>4. filesCompleted \in Nat /\ filesFailed \in Nat
      BY DEF AP!TypeOK
    <3>5. CASE filesCompleted' = filesCompleted + 1 /\ UNCHANGED filesFailed
      <4>1. success[file] > 0 /\ ~(failure[file] > 0)
        BY <1>0, <3>1, <3>2, <3>3, <3>4, <3>5
      <4>2. succeeded' = succeeded \cup {file} /\ failed' = failed /\ file \notin succeeded
        BY <2>1, <3>1, <4>1
      <4>3. Cardinality(succeeded \cup {file}) = Cardinality(succeeded) + 1
        BY <1>0, <4>2, FS_AddElement
      <4> QED  BY <3>5, <4>2, <4>3 DEF Counters
    <3>6. CASE filesFailed' = filesFailed + 1 /\ UNCHANGED filesCompleted
      <4>1. failure[file] > 0 /\ ~(success[file] > 0)
        BY <1>0, <3>1, <3>2, <3>3, <3>4, <3>6
      <4>2. failed' = failed \cup {file} /\ succeeded' = succeeded /\ file \notin failed
        BY <2>1, <3>1, <4>1
      <4>3. Cardinality(failed \cup {file}) = Cardinality(failed) + 1
        BY <1>0, <4>2, FS_AddElement
      <4> QED  BY <3>6, <4>2, <4>3 DEF Counters
    <3> QED  BY <2>2, <3>5, <3>6 DEF AP!Record
  <2>3. CASE UNCHANGED <<filesCompleted, filesFailed, counted>>
    BY <2>1, <2>3 DEF Counters
  <2> QED
    BY <2>1, <2>2, <2>3
       DEF AP!Step, AP!Receive, AP!Save, AP!Check, AP!Complete, AP!Shutdown
<1>3. CASE AppFails
  BY <1>3
     DEF AppFails, App!Abort, App!RetryComplete, App!LoseReport, vars, reports, Counters
<1>4. CASE UNCHANGED wholeVars
  BY <1>4 DEF wholeVars, vars, reports, appVars, database, Counters
<1> QED  BY <1>1, <1>2, <1>3, <1>4 DEF WholeNext
-----------------------------------------------------------------------------
(***************************************************************************)
(* The invariant of the composition, and what follows from it.             *)
(***************************************************************************)
WholeOK ==
  /\ PodOK /\ AP!TypeOK /\ AP!FinishedAfterAllCounted /\ Heard
  /\ FaultFree => AP!CountedOnce /\ Counters

LEMMA WholeInitially == ASSUME WholeInit  PROVE WholeOK
<1>1. Init /\ AP!Init /\ PodOK
  BY SameInit, PodInit DEF WholeInit
<1>2. {f \in File : Reported(f) = 0} = File
  BY <1>1 DEF Init, Reported
<1>3. AP!TypeOK
  BY <1>1, AppAssumption DEF AP!Init, AP!TypeOK, AP!Stage, AP!Idle
<1>4. AP!FinishedAfterAllCounted /\ Heard
  BY <1>1, FileAssumption
     DEF AP!Init, AP!FinishedAfterAllCounted, AP!At, AP!Idle, Heard
<1>5. AP!CountedOnce
  <2>1. AP!ResultCount = 0 /\ AP!Cardinality(counted) = 0
    BY <1>1, FS_EmptySet, SameSizes DEF AP!Init, AP!ResultCount
  <2> QED  BY <1>1, <2>1 DEF AP!Init, AP!CountedOnce, AP!Idle, AP!Recording
<1>6. Counters
  <2>1. {f \in counted : success[f] > 0} = {} /\ {f \in counted : failure[f] > 0} = {}
    BY <1>1 DEF AP!Init
  <2> QED  BY <1>1, <2>1, FS_EmptySet DEF AP!Init, Counters
<1> QED  BY <1>1, <1>3, <1>4, <1>5, <1>6 DEF WholeOK

LEMMA WholeKept == ASSUME WholeOK, [WholeNext]_wholeVars  PROVE WholeOK'
<1>0. /\ PodOK /\ TypeOK /\ AP!TypeOK /\ AP!FinishedAfterAllCounted /\ Heard
      /\ FaultFree => AP!CountedOnce /\ Counters
  BY DEF WholeOK, PodOK
<1>1. PodOK' /\ AP!TypeOK' /\ Heard'
  BY <1>0, PodSteps, PodKept, AppTypeKept, HeardKept
<1>2. AP!FinishedAfterAllCounted'
  <2>1. CASE UNCHANGED <<filesCompleted, filesFailed, status, deployed, handler>>
    BY <1>0, <2>1 DEF AP!FinishedAfterAllCounted, AP!ResultCount, AP!At
  <2>2. CASE WholeNext /\ ~PodStep
    BY <1>0, <1>1, <2>2, AppSteps, AP!FinishedKept, SameSizes,
       FileAssumption, RequestAssumption, AppAssumption
  <2> QED  BY <2>1, <2>2 DEF PodStep, database, wholeVars, appVars
<1>3. ASSUME FaultFree'  PROVE AP!CountedOnce' /\ Counters'
  <2>1. FaultFree /\ [AP!Next]_AP!vars
    BY <1>0, <1>1, <1>3, FaultFreeStep, SameNext
  <2>2. AP!CountedOnce'
    BY <1>0, <1>1, <2>1, AP!CountedOnceKept, SameSizes,
       FileAssumption, RequestAssumption, AppAssumption
  <2> QED  BY <1>0, <1>1, <1>3, <2>1, <2>2, CountersKept
<1> QED  BY <1>1, <1>2, <1>3 DEF WholeOK

\* Complete, or shut down, and no fault: every file is counted, and reported once.
LEMMA AllReported ==
  ASSUME WholeOK, FaultFree, status = "complete" \/ ~deployed
  PROVE  counted = File /\ \A f \in File : Reported(f) = 1 /\ Due(f) = 0
<1>1. counted = File
  <2>1. AP!TypeOK /\ AP!CountedOnce /\ AP!FinishedAfterAllCounted
    BY DEF WholeOK
  <2>2. AP!ResultCount >= AP!Cardinality(File)
    BY <2>1 DEF AP!FinishedAfterAllCounted
  <2> QED  BY <2>1, <2>2, AP!AllCounted, SameSizes,
              FileAssumption, RequestAssumption, AppAssumption
<1>2. ASSUME NEW f \in File  PROVE Reported(f) = 1 /\ Due(f) = 0
  <2>1. Reported(f) \in Nat /\ Due(f) \in Nat
    BY BudgetTypes DEF WholeOK, PodOK
  <2>2. Reported(f) > 0
    BY <1>1 DEF WholeOK, Heard
  <2>3. Reported(f) + Due(f) <= 1
    BY DEF WholeOK, PodOK, Budget, FaultFree
  <2> QED  BY <2>1, <2>2, <2>3
<1> QED  BY <1>1, <1>2

\* Until something fails, a request is complete only when every file was reported,
\* with the results where the client looks for them and the counters the user is
\* told: record_file_complete and files_remaining in the App, put_file_complete after
\* the upload in the sidecar.
THEOREM CompleteMeansAllResultsHolds == WholeSpec => []CompleteMeansAllResults
<1>1. WholeOK => CompleteMeansAllResults
  <2> SUFFICES ASSUME WholeOK, FaultFree, status = "complete"
               PROVE  /\ \A f \in File :
                           Reported(f) = 1 /\ (success[f] = 1 => f \in Available)
                      /\ filesCompleted = Cardinality({f \in File : success[f] = 1})
                      /\ filesFailed = Cardinality({f \in File : failure[f] = 1})
    BY DEF CompleteMeansAllResults
  <2>1. counted = File /\ \A f \in File : Reported(f) = 1
    BY AllReported
  <2>2. \A f \in File : success[f] \in Nat /\ failure[f] \in Nat
    BY DEF WholeOK, PodOK, TypeOK
  <2>3. ASSUME NEW f \in File
        PROVE  /\ success[f] > 0 <=> success[f] = 1
               /\ failure[f] > 0 <=> failure[f] = 1
    <3>1. success[f] + failure[f] = 1
      BY <2>1 DEF Reported
    <3> QED  BY <2>2, <3>1
  <2>4. /\ {f \in counted : success[f] > 0} = {f \in File : success[f] = 1}
        /\ {f \in counted : failure[f] > 0} = {f \in File : failure[f] = 1}
    BY <2>1, <2>3
  <2>5. Counters /\ SucceededOK /\ faults = 0
    BY DEF WholeOK, PodOK, FaultFree
  <2> QED  BY <2>1, <2>3, <2>4, <2>5 DEF Counters, SucceededOK
<1> QED  BY <1>1, WholeInitially, WholeKept, PTL DEF WholeSpec

\* Until something fails, shutdown_transformer_job deletes no pod that still has a
\* task, or a file to upload or to report.
THEOREM ShutdownFindsNothingToDoHolds == WholeSpec => []ShutdownFindsNothingToDo
<1>1. WholeOK => ShutdownFindsNothingToDo
  <2> SUFFICES ASSUME WholeOK, FaultFree, ~deployed
               PROVE  /\ queue = {} /\ Uploading = {}
                      /\ worker \in {"idle", "confirm", "done", "join", "ended"}
    BY DEF ShutdownFindsNothingToDo
  <2>1. \A f \in File : Due(f) = 0
    BY AllReported
  <2>2. ASSUME NEW f \in File  PROVE ~Owing(f) /\ f \notin Uploading
    <3>1. (IF Owing(f) THEN 1 ELSE 0) + (IF f \in Uploading THEN 1 ELSE 0) = 0
      BY <2>1 DEF Due
    <3> QED  BY <3>1
  <2>3. TypeOK /\ queue \subseteq File /\ Uploading \subseteq File
    BY UploadingFiles DEF WholeOK, PodOK, TypeOK
  <2>4. queue = {} /\ Uploading = {}
    BY <2>2, <2>3 DEF Owing, Fresh
  <2>5. worker \notin {"synch", "send", "await", "hand", "confirm_next", "fail", "error"}
    BY <2>2, <2>3 DEF Owing, Fresh, TypeOK
  <2> QED  BY <2>3, <2>4, <2>5 DEF TypeOK, WorkerStage
<1> QED  BY <1>1, WholeInitially, WholeKept, PTL DEF WholeSpec

\* Without faults the pod gives the handlers what FileCompletion takes for granted: every
\* file is reported once, and a request is what its protocol and theorems are about.
THEOREM CompletionImplemented ==
  MaxFaults = 0 /\ AppFaults = 0 /\ WholeSpec => ImplementsCompletion
<1> SUFFICES ASSUME MaxFaults = 0, AppFaults = 0  PROVE WholeSpec => ImplementsCompletion
  OBVIOUS
<1>1. WholeOK /\ WholeOK' /\ [WholeNext]_wholeVars => [App!Next]_App!vars
  <2> SUFFICES ASSUME WholeOK, WholeOK', [WholeNext]_wholeVars  PROVE [App!Next]_App!vars
    OBVIOUS
  <2>1. PodOK /\ PodOK' /\ AP!TypeOK /\ AP!TypeOK' /\ TypeOK'
    BY DEF WholeOK, PodOK
  <2>2. faults' = 0
    BY <2>1 DEF TypeOK
  <2>3. appFaults' = 0
    BY <2>1 DEF AP!TypeOK
  <2> QED  BY <2>1, <2>2, <2>3, FaultFreeStep DEF FaultFree
<1>2. WholeInit => App!Init
  BY DEF WholeInit
<1> QED  BY <1>1, <1>2, WholeInitially, WholeKept, PTL
         DEF WholeSpec, ImplementsCompletion, App!Safety
-----------------------------------------------------------------------------
(***************************************************************************)
(* With faults, the pod: all reports about files that were reported or are *)
(* to be reported once more are paid for by a fault each.                  *)
(***************************************************************************)
\* The reports but the first about each file, those to come included, one by one.
Extra == {r \in File \X Nat : r[2] + 1 < Reported(r[1]) + Due(r[1])}

\* The container died after its success, which the worker has not confirmed.
Pending ==
  /\ science = "ended"
  /\ worker \in {"hand", "confirm"} \/ (worker = "await" /\ toSidecar # <<>>)

PaidFor ==
  /\ IsFiniteSet(Extra)
  /\ Cardinality(Extra) + (IF Pending THEN 1 ELSE 0) <= faults

\* Only a fault makes a confirmation fail that is still to come.
LEMMA PendingKept ==
  ASSUME TypeOK, StopOK, LinkOK, [Next]_vars, ~Faults, Pending'  PROVE Pending
<1>1. CASE UNCHANGED <<science, worker, toSidecar>>
  BY <1>1 DEF Pending
<1>2. CASE WorkerStep
  <2>1. Await \/ HandOver \/ Send
    BY <1>2
       DEF WorkerStep, Deliver, Synch, SynchFails, Confirm, ConfirmNext, ConfirmFails,
           ReportFailure, Acknowledge, Close, Join, Pending
  <2>2. CASE Await
    BY <2>2 DEF Await, Pending, container
  <2>3. CASE HandOver
    BY <2>3 DEF HandOver, Pending, container
  <2>4. CASE Send
    BY <2>4 DEF Send, Pending, container, LinkOK, SendOK
  <2> QED  BY <2>1, <2>2, <2>3, <2>4
<1>3. CASE ScienceStep
  <2>1. CASE Read
    <3>1. toScience \in Seq(Message) /\ toScience # <<>> /\ science' = "ended"
          /\ Head(toScience).kind = "stop" /\ worker' = worker
      BY <2>1 DEF Read, Pending, TypeOK
    <3>2. Head(toScience) \in Elements(toScience)
      BY <3>1, TailElements
    <3> QED  BY <3>1, <3>2 DEF StopOK, Pending
  <2>2. CASE Ask \/ Run \/ ReadConfirmation
    BY <2>2 DEF Ask, Run, ReadConfirmation, Pending
  <2> QED  BY <1>3, <2>1, <2>2 DEF ScienceStep
<1>4. CASE UploaderStep \/ Terminate
  BY <1>1, <1>4 DEF UploaderStep, Take, Upload, ReportUpload, Terminate, container, socket
<1>5. CASE Replace
  BY <1>5 DEF Replace, PodStarts, Pending
<1>6. CASE UNCHANGED vars
  BY <1>1, <1>6 DEF vars, socket, container
<1> QED  BY <1>2, <1>3, <1>4, <1>5, <1>6 DEF Next

\* A step adds one extra report at most: a confirmation that fails after a success, or
\* a pod killed with its task.
LEMMA ExtraStep ==
  ASSUME TypeOK, TypeOK', OnceOK, [Next]_vars, IsFiniteSet(Extra)
  PROVE  /\ IsFiniteSet(Extra)' /\ Cardinality(Extra)' \in Nat /\ Cardinality(Extra) \in Nat
         /\ \/ Cardinality(Extra)' <= Cardinality(Extra)
            \/ /\ (ConfirmFails /\ worker = "confirm") \/ PodKilled
               /\ Cardinality(Extra)' <= Cardinality(Extra) + 1
<1>1. \A f \in File : /\ Reported(f) \in Nat /\ Reported(f)' \in Nat
                      /\ Due(f) \in Nat /\ Due(f)' \in Nat
  BY ReportedStep DEF Due
<1>2. Cardinality(Extra) \in Nat
  BY FS_CardinalityType
<1>3. CASE \A f \in File : Reported(f)' + Due(f)' <= Reported(f) + Due(f)
  <2>1. Extra' \in SUBSET Extra
    <3>1. ASSUME NEW f \in File, NEW n \in Nat, n + 1 < Reported(f)' + Due(f)'
          PROVE  n + 1 < Reported(f) + Due(f)
      BY <1>1, <1>3, <3>1
    <3> QED  BY <3>1 DEF Extra
  <2> QED  BY <1>2, <2>1, FS_Subset, FS_CardinalityType
<1>4. ASSUME NEW g \in File, ~(Reported(g)' + Due(g)' <= Reported(g) + Due(g))
      PROVE  /\ IsFiniteSet(Extra)' /\ Cardinality(Extra)' \in Nat
             /\ (ConfirmFails /\ worker = "confirm") \/ PodKilled
             /\ Cardinality(Extra)' <= Cardinality(Extra) + 1
  <2>1. /\ g = task /\ Reported(g)' + Due(g)' = Reported(g) + Due(g) + 1
        /\ (ConfirmFails /\ worker = "confirm") \/ PodKilled
    BY <1>4, DueKept
  <2> DEFINE more == Extra \cup {<<g, Reported(g) + Due(g) - 1>>}
  <2>2. Extra' \in SUBSET more
    <3>1. ASSUME NEW f \in File, NEW n \in Nat, n + 1 < Reported(f)' + Due(f)'
          PROVE  \/ n + 1 < Reported(f) + Due(f)
                 \/ f = g /\ n = Reported(g) + Due(g) - 1
      <4>1. CASE f = g
        BY <1>1, <2>1, <3>1, <4>1
      <4>2. CASE f # g
        <5>1. Reported(f)' + Due(f)' <= Reported(f) + Due(f)
          BY <2>1, <4>2, DueKept
        <5> QED  BY <1>1, <3>1, <5>1
      <4> QED  BY <4>1, <4>2
    <3> QED  BY <3>1 DEF Extra
  <2>3. IsFiniteSet(more) /\ Cardinality(more) <= Cardinality(Extra) + 1
    <3>1. /\ IsFiniteSet(more)
          /\ Cardinality(more) = IF <<g, Reported(g) + Due(g) - 1>> \in Extra
                                 THEN Cardinality(Extra) ELSE Cardinality(Extra) + 1
      BY FS_AddElement
    <3> QED  BY <1>2, <3>1
  <2>4. /\ IsFiniteSet(Extra') /\ Cardinality(Extra') <= Cardinality(more)
        /\ Cardinality(Extra') \in Nat /\ Cardinality(more) \in Nat
    BY <2>2, <2>3, FS_Subset, FS_CardinalityType
  <2> QED  BY <1>2, <2>1, <2>3, <2>4
<1> QED  BY <1>2, <1>3, <1>4

LEMMA PaidForKept ==
  ASSUME PodOK, PodOK', PaidFor, [Next]_vars  PROVE PaidFor'
<1>0. TypeOK /\ TypeOK' /\ StopOK /\ OnceOK /\ LinkOK /\ faults \in Nat
  <2>1. TypeOK /\ TypeOK' /\ StopOK /\ OnceOK /\ LinkOK
    BY DEF PodOK
  <2>2. faults \in Nat
    BY <2>1, BoundAssumption DEF TypeOK
  <2> QED  BY <2>1, <2>2
<1>1. /\ IsFiniteSet(Extra)' /\ Cardinality(Extra)' \in Nat /\ Cardinality(Extra) \in Nat
      /\ \/ Cardinality(Extra)' <= Cardinality(Extra)
         \/ /\ (ConfirmFails /\ worker = "confirm") \/ PodKilled
            /\ Cardinality(Extra)' <= Cardinality(Extra) + 1
  BY <1>0, ExtraStep DEF PaidFor
<1>2. Cardinality(Extra) + (IF Pending THEN 1 ELSE 0) <= faults
  BY DEF PaidFor
<1>3. CASE Faults
  <2>1. faults' = faults + 1
    BY <1>0, <1>3, FaultsCounted
  <2>2. CASE PodKilled
    <3>1. ~Pending'
      BY <2>2 DEF PodKilled, PodStarts, Pending
    <3> QED  BY <1>0, <1>1, <1>2, <2>1, <3>1 DEF PaidFor
  <2>3. CASE ~PodKilled
    <3>1. ~ConfirmFails
      BY <1>0, <2>1 DEF ConfirmFails
    <3> QED  BY <1>0, <1>1, <1>2, <2>1, <2>3, <3>1 DEF PaidFor
  <2> QED  BY <2>2, <2>3
<1>4. CASE ~Faults
  <2>1. faults' = faults /\ (Pending' => Pending) /\ ~PodKilled
    BY <1>0, <1>4, FaultsCounted, PendingKept DEF Faults
  <2>2. CASE ConfirmFails /\ worker = "confirm"
    <3>1. Pending /\ ~Pending'
      BY <2>2 DEF ConfirmFails, Pending
    <3> QED  BY <1>0, <1>1, <1>2, <2>1, <3>1 DEF PaidFor
  <2>3. CASE ~(ConfirmFails /\ worker = "confirm")
    BY <1>0, <1>1, <1>2, <2>1, <2>3 DEF PaidFor
  <2> QED  BY <2>2, <2>3
<1> QED  BY <1>3, <1>4

LEMMA PaidForInit == ASSUME Init  PROVE PaidFor
<1>1. Uploading = {}
  BY DEF Init, Uploading, Waits
<1>2. ASSUME NEW f \in File  PROVE Reported(f) = 0 /\ Due(f) \in 0..1
  <2>1. Reported(f) = 0
    BY DEF Init, Reported
  <2>2. Due(f) = IF Owing(f) THEN 1 ELSE 0
    BY <1>1 DEF Due
  <2> QED  BY <2>1, <2>2
<1>3. Extra = {}
  BY <1>2 DEF Extra
<1>4. ~Pending /\ faults = 0
  BY DEF Init, Pending
<1> QED  BY <1>3, <1>4, FS_EmptySet DEF PaidFor
-----------------------------------------------------------------------------
(***************************************************************************)
(* With faults, the App: it counts no more than it is told, but for those  *)
(* of its faults that send a report again.                                 *)
(***************************************************************************)
\* The reports the pod has sent, one by one.
Told == {r \in File \X Nat : r[2] < Reported(r[1])}

\* The files it has reported.
ToldFiles == {f \in File : Reported(f) > 0}

\* What is counted, on its way, and about to be counted.
Flow ==
  /\ IsFiniteSet(AP!Travelling)
  /\ AP!ResultCount + Cardinality(AP!Travelling) + Cardinality(AP!At("record"))
       <= Cardinality(Told) + appFaults

\* All reports but one for each reported file are extra.
LEMMA ToldBounded ==
  ASSUME TypeOK, PaidFor
  PROVE  /\ IsFiniteSet(Told) /\ Cardinality(Told) \in Nat
         /\ IsFiniteSet(ToldFiles) /\ Cardinality(ToldFiles) \in Nat
         /\ Cardinality(Extra) \in Nat
         /\ Cardinality(Told) <= Cardinality(ToldFiles) + Cardinality(Extra)
<1> DEFINE first == {r \in Told : r[2] = 0}
           later == {r \in Told : r[2] # 0}
           file == [r \in first |-> r[1]]
           before == [r \in later |-> <<r[1], r[2] - 1>>]
<1>1. ASSUME NEW f \in File  PROVE Reported(f) \in Nat /\ Due(f) \in Nat
  <2>1. Reported(f) \in Nat /\ Due(f) \in 0..2
    BY BudgetTypes
  <2> QED  BY <2>1
<1>2. IsFiniteSet(ToldFiles) /\ IsFiniteSet(Extra)
  <2>1. ToldFiles \in SUBSET File
    BY DEF ToldFiles
  <2> QED  BY <2>1, RequestAssumption, FS_Subset DEF PaidFor
<1>3. IsFiniteSet(first) /\ Cardinality(first) <= Cardinality(ToldFiles)
  <2>1. file \in Injection(first, ToldFiles)
    <3>1. \A r \in first : r \in File \X Nat /\ r[2] = 0 /\ r[1] \in ToldFiles
      BY <1>1 DEF Told, ToldFiles
    <3>2. file \in [first -> ToldFiles]
      BY <3>1
    <3>3. \A r, q \in first : file[r] = file[q] => r = q
      BY <3>1
    <3> QED  BY <3>2, <3>3 DEF Injection, IsInjective
  <2> QED  BY <1>2, <2>1, FS_Injection
<1>4. IsFiniteSet(later) /\ Cardinality(later) <= Cardinality(Extra)
  <2>1. before \in Injection(later, Extra)
    <3>1. \A r \in later : r \in File \X Nat /\ r[2] \in Nat \ {0} /\ r[2] < Reported(r[1])
      BY DEF Told
    <3>2. ASSUME NEW r \in later  PROVE <<r[1], r[2] - 1>> \in Extra
      <4>1. r[1] \in File /\ r[2] - 1 \in Nat /\ r[2] - 1 + 1 < Reported(r[1]) + Due(r[1])
        BY <1>1, <3>1
      <4> QED  BY <4>1 DEF Extra
    <3>3. before \in [later -> Extra]
      BY <3>2
    <3>4. \A r, q \in later : before[r] = before[q] => r = q
      <4> SUFFICES ASSUME NEW r \in later, NEW q \in later, before[r] = before[q]
                   PROVE  r = q
        OBVIOUS
      <4>1. r[1] = q[1] /\ r[2] - 1 = q[2] - 1
        OBVIOUS
      <4> QED  BY <3>1, <4>1
    <3> QED  BY <3>3, <3>4 DEF Injection, IsInjective
  <2> QED  BY <1>2, <2>1, FS_Injection
<1>5. Told = first \cup later /\ first \cap later = {}
  OBVIOUS
<1>6. /\ IsFiniteSet(first \cup later)
      /\ Cardinality(first \cup later)
           = Cardinality(first) + Cardinality(later) - Cardinality(first \cap later)
  BY <1>3, <1>4, FS_Union
<1>7. /\ Cardinality(first) \in Nat /\ Cardinality(later) \in Nat
      /\ Cardinality(ToldFiles) \in Nat /\ Cardinality(Extra) \in Nat
      /\ Cardinality(first \cap later) = 0
  BY <1>2, <1>3, <1>4, <1>5, FS_CardinalityType, FS_EmptySet
<1> HIDE DEF first, later
<1>8. IsFiniteSet(Told) /\ Cardinality(Told) = Cardinality(first) + Cardinality(later)
  BY <1>5, <1>6, <1>7
<1> QED  BY <1>2, <1>3, <1>4, <1>7, <1>8

\* The facts about the handlers that the flow needs.
LEMMA FlowTypes ==
  ASSUME AP!TypeOK, AP!TypeOK'
  PROVE  /\ AP!ResultCount \in Nat /\ appFaults \in Nat
         /\ Cardinality(AP!At("record")) \in Nat /\ Cardinality(AP!At("record"))' \in Nat
<1> USE SameSizes, FileAssumption, RequestAssumption, AppAssumption
<1>1. AP!ResultCount \in Nat /\ appFaults \in Nat
  BY DEF AP!TypeOK, AP!ResultCount
<1>2. Cardinality(AP!At("record")) \in Nat /\ Cardinality(AP!At("record"))' \in Nat
  BY AP!AtFinite
<1> QED  BY <1>1, <1>2

\* A worker that takes a report, or leaves one.
LEMMA RecordingChanges ==
  ASSUME AP!TypeOK, AP!TypeOK', NEW w \in Worker,
         \A v \in Worker \ {w} : handler'[v] = handler[v]
  PROVE  Cardinality(AP!At("record"))' =
           Cardinality(AP!At("record"))
             + (IF handler'[w].pc = "record" THEN 1 ELSE 0)
             - (IF handler[w].pc = "record" THEN 1 ELSE 0)
<1> USE SameSizes, FileAssumption, RequestAssumption, AppAssumption
<1>0. Cardinality(AP!At("record")) \in Nat
  BY FlowTypes
<1>1. CASE handler[w].pc # "record" /\ handler'[w].pc = "record"
  <2>1. Cardinality(AP!At("record"))' = Cardinality(AP!At("record")) + 1
    BY <1>1, AP!AtEnter
  <2> QED  BY <1>0, <1>1, <2>1
<1>2. CASE handler[w].pc = "record" /\ handler'[w].pc # "record"
  <2>1. Cardinality(AP!At("record"))' = Cardinality(AP!At("record")) - 1
    BY <1>2, AP!AtLeave
  <2> QED  BY <1>0, <1>2, <2>1
<1>3. CASE handler[w].pc = "record" <=> handler'[w].pc = "record"
  <2>1. AP!At("record")' = AP!At("record")
    BY <1>3, AP!AtSame
  <2> QED  BY <1>0, <1>3, <2>1
<1> QED  BY <1>1, <1>2, <1>3

LEMMA FlowKept ==
  ASSUME TypeOK, AP!TypeOK, AP!TypeOK', PaidFor, Flow, [WholeNext]_wholeVars
  PROVE  Flow'
<1> DEFINE recording == Cardinality(AP!At("record"))
           travelling == Cardinality(AP!Travelling)
           told == Cardinality(Told)
<1>0. /\ AP!ResultCount \in Nat /\ recording \in Nat /\ recording' \in Nat
      /\ travelling \in Nat /\ told \in Nat /\ appFaults \in Nat
      /\ IsFiniteSet(AP!Travelling) /\ IsFiniteSet(Told)
      /\ AP!ResultCount + travelling + recording <= told + appFaults
  BY FlowTypes, ToldBounded, FS_CardinalityType DEF Flow
<1>m. ASSUME NEW f \in File, arriving' = [arriving EXCEPT ![f] = @ + 1]
      PROVE  IsFiniteSet(AP!Travelling)' /\ travelling' = travelling + 1
  BY <1>0, <1>m, AP!MoreTravelling, SameSizes,
     FileAssumption, RequestAssumption, AppAssumption
<1>l. ASSUME NEW f \in File, arriving[f] > 0, arriving' = [arriving EXCEPT ![f] = @ - 1]
      PROVE  IsFiniteSet(AP!Travelling)' /\ travelling' = travelling - 1
  BY <1>0, <1>l, AP!LessTravelling, SameSizes,
     FileAssumption, RequestAssumption, AppAssumption
<1>s. ASSUME UNCHANGED arriving
      PROVE  IsFiniteSet(AP!Travelling)' /\ travelling' = travelling
  BY <1>0, <1>s DEF AP!Travelling
<1>t. ASSUME UNCHANGED <<success, failure>>  PROVE told' = told
  BY <1>t DEF Told, Reported
<1>c. ASSUME UNCHANGED <<filesCompleted, filesFailed>>
      PROVE  AP!ResultCount' = AP!ResultCount
  BY <1>c DEF AP!ResultCount
<1>r. ASSUME \/ filesCompleted' = filesCompleted + 1 /\ UNCHANGED filesFailed
             \/ filesFailed' = filesFailed + 1 /\ UNCHANGED filesCompleted
      PROVE  AP!ResultCount' = AP!ResultCount + 1
  <2>1. filesCompleted \in Nat /\ filesFailed \in Nat
    BY DEF AP!TypeOK
  <2> QED  BY <1>r, <2>1 DEF AP!ResultCount
<1>h. ASSUME UNCHANGED handler  PROVE recording' = recording
  BY <1>h DEF AP!At
<1> HIDE DEF recording, travelling, told
<1>1. CASE PodStep
  <2>1. /\ arriving' = [f \in File |-> arriving[f] + Reported(f)' - Reported(f)]
        /\ UNCHANGED <<filesCompleted, filesFailed, handler, appFaults>> /\ Next
    BY <1>1 DEF PodStep, database
  <2>2. AP!ResultCount' = AP!ResultCount /\ recording' = recording
    BY <2>1, <1>c, <1>h
  <2>3. arriving \in [File -> Nat] /\ \A f \in File : Reported(f) \in Nat
    BY <2>1, ReportedStep DEF AP!TypeOK
  <2>4. CASE UNCHANGED <<success, failure>>
    <3>1. arriving' = arriving
      <4>1. \A f \in File : Reported(f)' = Reported(f)
        BY <2>4 DEF Reported
      <4> QED  BY <2>1, <2>3, <4>1
    <3> QED  BY <1>0, <1>s, <1>t, <2>1, <2>2, <2>4, <3>1 DEF Flow, recording, travelling, told
  <2>5. ASSUME NEW g \in File, Reported(g)' = Reported(g) + 1,
               \A f \in File \ {g} : Reported(f)' = Reported(f)
        PROVE  Flow'
    <3>1. arriving' = [arriving EXCEPT ![g] = @ + 1]
      <4>1. arriving[g] + Reported(g)' - Reported(g) = arriving[g] + 1
        BY <2>3, <2>5
      <4>2. \A f \in File \ {g} : arriving[f] + Reported(f)' - Reported(f) = arriving[f]
        BY <2>3, <2>5
      <4> QED  BY <2>1, <2>3, <4>1, <4>2
    <3>2. Told' = Told \cup {<<g, Reported(g)>>} /\ <<g, Reported(g)>> \notin Told
      <4>1. ASSUME NEW f \in File, NEW n \in Nat
            PROVE  n < Reported(f)' <=> n < Reported(f) \/ (f = g /\ n = Reported(g))
        BY <2>3, <2>5
      <4>2. ~(Reported(g) < Reported(g)) /\ Reported(g) \in Nat
        BY <2>3
      <4> QED  BY <4>1, <4>2 DEF Told
    <3>3. told' = told + 1
      BY <1>0, <3>2, FS_AddElement DEF told
    <3> QED  BY <1>0, <1>m, <2>1, <2>2, <3>1, <3>3 DEF Flow, recording, travelling, told
  <2> QED  BY <2>1, <2>4, <2>5, ReportedStep
<1>2. CASE WholeNext /\ ~PodStep
  <2>0. told' = told
    BY <1>2, <1>t, AppSteps DEF vars, reports
  <2> USE DEF AP!TypeOK
  <2>1. ASSUME NEW w \in Worker, NEW f \in File, AP!Receive(w, f)  PROVE Flow'
    <3>1. recording' = recording + 1
      BY <1>0, <2>1, RecordingChanges DEF AP!Receive, recording
    <3>2. IsFiniteSet(AP!Travelling)' /\ travelling' = travelling - 1
      BY <1>l, <2>1 DEF AP!Receive
    <3>3. AP!ResultCount' = AP!ResultCount /\ appFaults' = appFaults
      BY <1>c, <2>1 DEF AP!Receive
    <3> QED  BY <1>0, <2>0, <3>1, <3>2, <3>3 DEF Flow, recording, travelling, told
  <2>2. ASSUME NEW w \in Worker, AP!Record(w)  PROVE Flow'
    <3>1. recording' = recording - 1
      BY <1>0, <2>2, RecordingChanges DEF AP!Record, AP!Goto, recording
    <3>2. AP!ResultCount' = AP!ResultCount + 1 /\ UNCHANGED <<arriving, appFaults>>
      BY <1>r, <2>2 DEF AP!Record
    <3> QED  BY <1>0, <1>s, <2>0, <3>1, <3>2 DEF Flow, recording, travelling, told
  <2>3. ASSUME NEW w \in Worker,
               \/ AP!Save(w) \/ AP!Check(w) \/ AP!Complete(w) \/ AP!Shutdown(w)
        PROVE  Flow'
    <3>1. recording' = recording
      <4>1. /\ \A v \in Worker \ {w} : handler'[v] = handler[v]
            /\ handler'[w].pc # "record" /\ handler[w].pc # "record"
        BY <2>3 DEF AP!Save, AP!Check, AP!Complete, AP!Shutdown, AP!Goto, AP!Return, AP!Idle
      <4> QED  BY <1>0, <4>1, RecordingChanges DEF recording
    <3>2. UNCHANGED <<arriving, filesCompleted, filesFailed, appFaults>>
      BY <2>3 DEF AP!Save, AP!Check, AP!Complete, AP!Shutdown
    <3> QED  BY <1>0, <1>s, <1>c, <2>0, <3>1, <3>2 DEF Flow, recording, travelling, told
  <2>4. ASSUME NEW w \in Worker, AP!RetryComplete(w)  PROVE Flow'
    <3>1. recording' = recording
      BY <1>0, <2>4, RecordingChanges DEF AP!RetryComplete, AP!Goto, recording
    <3>2. UNCHANGED <<arriving, filesCompleted, filesFailed>> /\ appFaults' = appFaults + 1
      BY <2>4 DEF AP!RetryComplete, AP!Fault
    <3> QED  BY <1>0, <1>s, <1>c, <2>0, <3>1, <3>2 DEF Flow, recording, travelling, told
  <2>5. ASSUME NEW w \in Worker, AP!Abort(w)  PROVE Flow'
    <3>1. recording' <= recording
      <4>1. /\ \A v \in Worker \ {w} : handler'[v] = handler[v]
            /\ handler'[w].pc # "record"
        BY <2>5 DEF AP!Abort, AP!Return, AP!Idle
      <4> QED  BY <1>0, <4>1, RecordingChanges DEF recording
    <3>2. /\ UNCHANGED <<filesCompleted, filesFailed>> /\ appFaults' = appFaults + 1
          /\ handler[w].file \in File
          /\ \/ arriving' = arriving
             \/ arriving' = [arriving EXCEPT ![handler[w].file] = @ + 1]
      BY <2>5 DEF AP!Abort, AP!Fault
    <3>3. IsFiniteSet(AP!Travelling)' /\ travelling' \in {travelling, travelling + 1}
      BY <1>m, <1>s, <3>2
    <3> QED  BY <1>0, <1>c, <2>0, <3>1, <3>2, <3>3 DEF Flow, recording, travelling, told
  <2>6. ASSUME NEW f \in File, AP!LoseReport(f)  PROVE Flow'
    <3>1. IsFiniteSet(AP!Travelling)' /\ travelling' = travelling - 1
      BY <1>l, <2>6 DEF AP!LoseReport
    <3>2. UNCHANGED <<filesCompleted, filesFailed, handler>> /\ appFaults' = appFaults + 1
      BY <2>6 DEF AP!LoseReport, AP!Fault
    <3> QED  BY <1>0, <1>c, <1>h, <2>0, <3>1, <3>2 DEF Flow, recording, travelling, told
  <2>7. \/ \E w \in Worker : App!Step(w)
        \/ \E w \in Worker : App!Abort(w) \/ App!RetryComplete(w)
        \/ \E f \in File : App!LoseReport(f)
    BY <1>2 DEF WholeNext, Handles, AppFails
  <2> QED  BY <2>1, <2>2, <2>3, <2>4, <2>5, <2>6, <2>7, SameStep, SameFaults DEF AP!Step
<1>3. CASE UNCHANGED wholeVars
  <2>1. UNCHANGED <<success, failure, arriving, filesCompleted, filesFailed, handler, appFaults>>
    BY <1>3 DEF wholeVars, vars, reports, appVars, database
  <2> QED
    BY <1>0, <1>c, <1>h, <1>s, <1>t, <2>1 DEF Flow, recording, travelling, told
<1> QED  BY <1>1, <1>2, <1>3

LEMMA FlowInit == ASSUME WholeInit  PROVE Flow
<1>1. AP!Init /\ PaidFor /\ TypeOK
  BY SameInit, PaidForInit, InitType DEF WholeInit
<1>2. AP!Travelling = {} /\ AP!At("record") = {} /\ AP!ResultCount = 0
  BY <1>1 DEF AP!Init, AP!Travelling, AP!At, AP!Idle, AP!ResultCount
<1>3. appFaults = 0 /\ Cardinality(Told) \in Nat
  BY <1>1, ToldBounded DEF AP!Init
<1>4. /\ IsFiniteSet(AP!Travelling) /\ Cardinality(AP!Travelling) = 0
      /\ Cardinality(AP!At("record")) = 0
  BY <1>2, FS_EmptySet
<1> QED  BY <1>2, <1>3, <1>4 DEF Flow

\* What is counted was told, and what is told beyond once for each file was paid for:
\* so each file that is missing when as many as there are have been counted stands
\* against a fault.
LEMMA MissingBounded ==
  ASSUME WholeOK, PaidFor, Flow  PROVE MissingNeedFaults
<1> DEFINE missing == {f \in File : Reported(f) = 0}
<1> SUFFICES ASSUME status = "complete" \/ ~deployed
             PROVE  Cardinality(missing) <= faults + appFaults
  BY DEF MissingNeedFaults
<1>1. TypeOK /\ AP!TypeOK /\ AP!FinishedAfterAllCounted
  BY DEF WholeOK, PodOK
<1>2. AP!ResultCount >= Cardinality(File)
  BY <1>1, SameSizes DEF AP!FinishedAfterAllCounted
<1>3. Cardinality(File) = Cardinality(ToldFiles) + Cardinality(missing)
  <2>1. missing = File \ ToldFiles /\ File \cap ToldFiles = ToldFiles
    <3>1. ASSUME NEW f \in File  PROVE Reported(f) = 0 <=> ~(Reported(f) > 0)
      <4>1. Reported(f) \in Nat
        BY <1>1, BudgetTypes
      <4> QED  BY <4>1
    <3> QED  BY <3>1 DEF ToldFiles
  <2>2. Cardinality(File \ ToldFiles)
          = Cardinality(File) - Cardinality(File \cap ToldFiles)
    BY RequestAssumption, FS_Difference
  <2>3. Cardinality(File) \in Nat /\ Cardinality(ToldFiles) \in Nat
    BY <1>1, ToldBounded, RequestAssumption, FS_CardinalityType
  <2>4. Cardinality(missing) = Cardinality(File) - Cardinality(ToldFiles)
    BY <2>1, <2>2
  <2> HIDE DEF missing
  <2> QED  BY <2>3, <2>4
<1>4. /\ Cardinality(Told) \in Nat /\ Cardinality(ToldFiles) \in Nat
      /\ Cardinality(Extra) \in Nat
      /\ Cardinality(Told) <= Cardinality(ToldFiles) + Cardinality(Extra)
  BY <1>1, ToldBounded
<1>5. /\ Cardinality(Extra) + (IF Pending THEN 1 ELSE 0) <= faults
      /\ AP!ResultCount + Cardinality(AP!Travelling) + Cardinality(AP!At("record"))
           <= Cardinality(Told) + appFaults
      /\ Cardinality(AP!Travelling) \in Nat
  BY FS_CardinalityType DEF PaidFor, Flow
<1>6. /\ AP!ResultCount \in Nat /\ appFaults \in Nat /\ faults \in Nat
      /\ Cardinality(AP!At("record")) \in Nat
      /\ Cardinality(missing) \in Nat /\ Cardinality(File) \in Nat
  <2>1. AP!ResultCount \in Nat /\ appFaults \in Nat
    BY <1>1, AppAssumption DEF AP!TypeOK, AP!ResultCount
  <2>2. Cardinality(AP!At("record")) \in Nat
    BY AP!AtFinite, SameSizes, FileAssumption, RequestAssumption, AppAssumption
  <2>3. faults \in Nat
    BY <1>1, BoundAssumption DEF TypeOK
  <2>4. missing \in SUBSET File
    OBVIOUS
  <2> QED  BY <2>1, <2>2, <2>3, <2>4, RequestAssumption, FS_Subset, FS_CardinalityType
<1> HIDE DEF missing
<1>7. Cardinality(Extra) <= faults
  BY <1>4, <1>5, <1>6
<1>8. AP!ResultCount <= Cardinality(Told) + appFaults
  BY <1>4, <1>5, <1>6
<1> QED  BY <1>2, <1>3, <1>4, <1>6, <1>7, <1>8

\* A request that is complete, or whose transformers are shut down, misses no more
\* files than faults happened, in the pod and in the App: whatever died, was lost, sent
\* again or answered twice, and however many of them.
THEOREM MissingNeedFaultsHolds == WholeSpec => []MissingNeedFaults
<1> DEFINE IInv == WholeOK /\ PaidFor /\ Flow
<1>1. WholeInit => IInv
  BY WholeInitially, PaidForInit, FlowInit DEF WholeInit
<1>2. IInv /\ [WholeNext]_wholeVars => IInv'
  <2> SUFFICES ASSUME IInv, [WholeNext]_wholeVars  PROVE IInv'
    OBVIOUS
  <2>1. WholeOK' /\ [Next]_vars
    BY WholeKept, PodSteps
  <2>2. PodOK /\ PodOK' /\ AP!TypeOK /\ AP!TypeOK' /\ TypeOK
    BY <2>1 DEF WholeOK, PodOK
  <2>3. PaidFor' /\ Flow'
    BY <2>1, <2>2, PaidForKept, FlowKept
  <2> QED  BY <2>1, <2>3
<1>3. IInv => MissingNeedFaults
  BY MissingBounded
<1> QED  BY <1>1, <1>2, <1>3, PTL DEF WholeSpec
=============================================================================
