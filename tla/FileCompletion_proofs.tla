------------------------ MODULE FileCompletion_proofs ------------------------
(***************************************************************************)
(* Proofs about FileCompletion, for every number of files, of workers and  *)
(* of faults.                                                              *)
(***************************************************************************)
EXTENDS FileCompletion, FiniteSetTheorems, TLAPS

\* The types are preserved by every step, the faults included.
LEMMA TypeKept ==
  ASSUME TypeOK, [FaultyNext]_vars
  PROVE  TypeOK'
<1> USE FaultAssumption DEF TypeOK, Stage, Idle, Goto, Return
<1>1. ASSUME NEW f \in File, Report(f)
      PROVE  TypeOK'
  BY <1>1 DEF Report
<1>2. ASSUME NEW w \in Worker, NEW f \in File, Receive(w, f)
      PROVE  TypeOK'
  BY <1>2 DEF Receive
<1>3. ASSUME NEW w \in Worker, Record(w)
      PROVE  TypeOK'
  BY <1>3 DEF Record
<1>4. ASSUME NEW w \in Worker, Save(w)
      PROVE  TypeOK'
  BY <1>4 DEF Save
<1>5. ASSUME NEW w \in Worker, Check(w)
      PROVE  TypeOK'
  BY <1>5 DEF Check
<1>6. ASSUME NEW w \in Worker, Complete(w)
      PROVE  TypeOK'
  BY <1>6 DEF Complete
<1>7. ASSUME NEW w \in Worker, Shutdown(w)
      PROVE  TypeOK'
  BY <1>7 DEF Shutdown
<1>8. ASSUME NEW w \in Worker, Abort(w)
      PROVE  TypeOK'
  BY <1>8 DEF Abort, Fault
<1>9. ASSUME NEW w \in Worker, RetryComplete(w)
      PROVE  TypeOK'
  BY <1>9 DEF RetryComplete, Fault
<1>10. ASSUME NEW f \in File, Redeliver(f)
       PROVE  TypeOK'
  BY <1>10 DEF Redeliver, Fault
<1>11. ASSUME NEW f \in File, LoseReport(f)
       PROVE  TypeOK'
  BY <1>11 DEF LoseReport, Fault
<1>12. CASE UNCHANGED vars
  BY <1>12 DEF vars
<1>13. QED
  BY <1>1, <1>2, <1>3, <1>4, <1>5, <1>6, <1>7, <1>8, <1>9, <1>10, <1>11, <1>12
     DEF FaultyNext, Next, Step

\* The variables keep their types in every behaviour.
THEOREM TypeCorrect == FaultySpec => []TypeOK
<1> USE FileAssumption, FaultAssumption
<1>1. Init => TypeOK
  BY DEF Init, TypeOK, Idle, Stage
<1>2. TypeOK /\ [FaultyNext]_vars => TypeOK'
  BY TypeKept
<1>3. QED
  BY <1>1, <1>2, PTL DEF FaultySpec
-----------------------------------------------------------------------------
(***************************************************************************)
(* How a step of one worker changes the set of workers at a stage.         *)
(***************************************************************************)
LEMMA AtFinite ==
  ASSUME NEW s
  PROVE  /\ IsFiniteSet(At(s)) /\ Cardinality(At(s)) \in Nat
         /\ IsFiniteSet(At(s))' /\ Cardinality(At(s))' \in Nat
<1>1. At(s) \in SUBSET Worker /\ At(s)' \in SUBSET Worker
  BY DEF At
<1>2. QED
  BY <1>1, WorkerAssumption, FS_Subset, FS_CardinalityType

\* One worker more at a stage.
LEMMA AtEnter ==
  ASSUME NEW w \in Worker, NEW s, TypeOK, TypeOK',
         \A v \in Worker \ {w} : handler'[v] = handler[v],
         handler[w].pc # s, handler'[w].pc = s
  PROVE  Cardinality(At(s))' = Cardinality(At(s)) + 1
<1>1. At(s)' = At(s) \cup {w} /\ w \notin At(s)
  BY DEF At
<1>2. QED
  BY <1>1, AtFinite, FS_AddElement

\* One worker less at a stage.
LEMMA AtLeave ==
  ASSUME NEW w \in Worker, NEW s, TypeOK, TypeOK',
         \A v \in Worker \ {w} : handler'[v] = handler[v],
         handler[w].pc = s, handler'[w].pc # s
  PROVE  Cardinality(At(s))' = Cardinality(At(s)) - 1
<1>1. At(s)' = At(s) \ {w} /\ w \in At(s)
  BY DEF At
<1>2. QED
  BY <1>1, AtFinite, FS_RemoveElement

\* As many workers at a stage as before.
LEMMA AtSame ==
  ASSUME NEW w \in Worker, NEW s, TypeOK, TypeOK',
         \A v \in Worker \ {w} : handler'[v] = handler[v],
         handler[w].pc = s <=> handler'[w].pc = s
  PROVE  At(s)' = At(s)
BY DEF At
-----------------------------------------------------------------------------
\* Every counted file has a row, a handler about to write it, or a fault to
\* blame: the two commits of a handler, in their order, keep the balance.
THEOREM AccountingHolds == FaultySpec => []Accounting
<1>1. Init => Accounting
  <2> SUFFICES ASSUME Init PROVE Accounting
    OBVIOUS
  <2>1. At("save") = {}
    BY DEF Init, At, Idle
  <2>2. QED
    BY <2>1, FS_EmptySet DEF Init, Accounting, ResultCount
<1>2. TypeOK /\ TypeOK' /\ Accounting /\ [FaultyNext]_vars => Accounting'
  <2> SUFFICES ASSUME TypeOK, TypeOK', Accounting, [FaultyNext]_vars
               PROVE  Accounting'
    OBVIOUS
  <2> DEFINE saving == Cardinality(At("save"))
  <2>0. saving \in Nat /\ saving' \in Nat
    BY AtFinite
  <2>a. ASSUME UNCHANGED <<rows, filesCompleted, filesFailed>>,
               faults' >= faults, saving' = saving
        PROVE  Accounting'
    BY <2>a, <2>0 DEF TypeOK, Accounting, ResultCount
  <2>b. ASSUME NEW w \in Worker,
               \A v \in Worker \ {w} : handler'[v] = handler[v],
               handler[w].pc = "save" <=> handler'[w].pc = "save"
        PROVE  saving' = saving
    BY <2>b, AtSame
  <2>c. ASSUME UNCHANGED handler
        PROVE  saving' = saving
    BY <2>c DEF At
  <2>1. ASSUME NEW f \in File, Report(f)
        PROVE  Accounting'
    BY <2>1, <2>a, <2>c DEF Report, TypeOK
  <2>2. ASSUME NEW w \in Worker, NEW f \in File, Receive(w, f)
        PROVE  Accounting'
    BY <2>2, <2>a, <2>b DEF Receive, TypeOK
  <2>3. ASSUME NEW w \in Worker, Record(w)
        PROVE  Accounting'
    <3>1. saving' = saving + 1
      BY <2>3, AtEnter DEF Record, Goto, TypeOK
    <3>2. UNCHANGED <<rows, faults>>
      BY <2>3 DEF Record
    <3>3. CASE filesCompleted' = filesCompleted + 1 /\ UNCHANGED filesFailed
      BY <3>1, <3>2, <3>3, <2>0 DEF Accounting, ResultCount, TypeOK
    <3>4. CASE filesFailed' = filesFailed + 1 /\ UNCHANGED filesCompleted
      BY <3>1, <3>2, <3>4, <2>0 DEF Accounting, ResultCount, TypeOK
    <3>5. QED
      BY <2>3, <3>3, <3>4 DEF Record
  <2>4. ASSUME NEW w \in Worker, Save(w)
        PROVE  Accounting'
    <3>1. saving' = saving - 1
      BY <2>4, AtLeave DEF Save, Goto, TypeOK
    <3>2. QED
      BY <2>4, <3>1, <2>0 DEF Save, Accounting, ResultCount, TypeOK
  <2>5. ASSUME NEW w \in Worker, Check(w)
        PROVE  Accounting'
    BY <2>5, <2>a, <2>b DEF Check, Goto, Return, Idle, TypeOK
  <2>6. ASSUME NEW w \in Worker, Complete(w)
        PROVE  Accounting'
    BY <2>6, <2>a, <2>b DEF Complete, Goto, TypeOK
  <2>7. ASSUME NEW w \in Worker, Shutdown(w)
        PROVE  Accounting'
    BY <2>7, <2>a, <2>b DEF Shutdown, Return, Idle, TypeOK
  <2>8. ASSUME NEW w \in Worker, Abort(w)
        PROVE  Accounting'
    <3>1. /\ UNCHANGED <<rows, filesCompleted, filesFailed>>
          /\ faults' = faults + 1
          /\ \A v \in Worker \ {w} : handler'[v] = handler[v]
          /\ handler'[w].pc = "idle"
      BY <2>8 DEF Abort, Fault, Return, Idle, TypeOK
    <3>2. CASE handler[w].pc = "save"
      <4>1. saving' = saving - 1
        BY <3>1, <3>2, AtLeave
      <4>2. QED
        BY <3>1, <4>1, <2>0 DEF Accounting, ResultCount, TypeOK
    <3>3. CASE handler[w].pc # "save"
      BY <3>1, <3>3, <2>a, <2>b DEF TypeOK
    <3>4. QED
      BY <3>2, <3>3
  <2>9. ASSUME NEW w \in Worker, RetryComplete(w)
        PROVE  Accounting'
    BY <2>9, <2>a, <2>b DEF RetryComplete, Fault, Goto, TypeOK
  <2>10. ASSUME NEW f \in File, Redeliver(f) \/ LoseReport(f)
         PROVE  Accounting'
    <3>1. /\ UNCHANGED <<rows, filesCompleted, filesFailed, handler>>
          /\ faults' = faults + 1
      BY <2>10 DEF Redeliver, LoseReport, Fault
    <3>2. QED
      BY <3>1, <2>a, <2>c DEF TypeOK
  <2>11. CASE UNCHANGED vars
    BY <2>11, <2>a, <2>c DEF vars, TypeOK
  <2>12. QED
    BY <2>1, <2>2, <2>3, <2>4, <2>5, <2>6, <2>7, <2>8, <2>9, <2>10, <2>11
       DEF FaultyNext, Next, Step
<1>3. QED
  BY <1>1, <1>2, TypeCorrect, PTL DEF FaultySpec
-----------------------------------------------------------------------------
\* The counters never decrease, and the status is never taken back.
LEMMA FinishedKept ==
  ASSUME TypeOK, TypeOK', FinishedAfterAllCounted, [FaultyNext]_vars
  PROVE  FinishedAfterAllCounted'
<1>n. Cardinality(File) \in Nat
  BY FileAssumption, FS_CardinalityType
<1> USE DEF FinishedAfterAllCounted, At
<1>a. ASSUME UNCHANGED <<filesCompleted, filesFailed, status, deployed>>,
             \A w \in Worker : handler'[w].pc \in {"complete", "shutdown"}
                               => handler'[w].pc = handler[w].pc
      PROVE  FinishedAfterAllCounted'
  BY <1>a DEF ResultCount
<1>1. ASSUME NEW f \in File, Report(f) \/ Redeliver(f) \/ LoseReport(f)
      PROVE  FinishedAfterAllCounted'
  <2>1. UNCHANGED <<filesCompleted, filesFailed, status, deployed, handler>>
    BY <1>1 DEF Report, Redeliver, LoseReport
  <2>2. QED
    BY <2>1, <1>a
<1>2. ASSUME NEW w \in Worker, NEW f \in File, Receive(w, f)
      PROVE  FinishedAfterAllCounted'
  BY <1>2, <1>a DEF Receive, TypeOK
<1>3. ASSUME NEW w \in Worker, Record(w)
      PROVE  FinishedAfterAllCounted'
  <2>1. ResultCount' = ResultCount + 1 /\ ResultCount \in Nat
    <3>1. CASE filesCompleted' = filesCompleted + 1 /\ UNCHANGED filesFailed
      BY <3>1 DEF ResultCount, TypeOK
    <3>2. CASE filesFailed' = filesFailed + 1 /\ UNCHANGED filesCompleted
      BY <3>2 DEF ResultCount, TypeOK
    <3>3. QED
      BY <1>3, <3>1, <3>2 DEF Record
  <2>2. /\ UNCHANGED <<status, deployed>>
        /\ \A v \in Worker : handler'[v].pc \in {"complete", "shutdown"}
                              => handler'[v].pc = handler[v].pc
    BY <1>3 DEF Record, Goto, TypeOK
  <2>3. ResultCount >= Cardinality(File) => ResultCount' >= Cardinality(File)
    BY <2>1, <1>n
  <2>4. QED
    BY <2>2, <2>3
<1>4. ASSUME NEW w \in Worker, Save(w)
      PROVE  FinishedAfterAllCounted'
  BY <1>4, <1>a DEF Save, Goto, TypeOK
<1>5. ASSUME NEW w \in Worker, Check(w)
      PROVE  FinishedAfterAllCounted'
  <2>1. UNCHANGED <<filesCompleted, filesFailed, status, deployed>>
    BY <1>5 DEF Check
  <2>2. CASE FilesRemaining = 0
    <3>1. ResultCount >= Cardinality(File) /\ ResultCount' = ResultCount
      BY <2>1, <2>2, <1>n DEF FilesRemaining, ResultCount, TypeOK
    <3>2. \A v \in Worker : handler'[v].pc = "shutdown" => handler[v].pc = "shutdown"
      BY <1>5, <2>2 DEF Check, Goto, TypeOK
    <3>3. QED
      BY <2>1, <3>1, <3>2
  <2>3. CASE FilesRemaining # 0
    BY <1>5, <2>1, <2>3, <1>a DEF Check, Return, Idle, TypeOK
  <2>4. QED
    BY <2>2, <2>3
<1>6. ASSUME NEW w \in Worker, Complete(w)
      PROVE  FinishedAfterAllCounted'
  <2>1. ResultCount >= Cardinality(File) /\ ResultCount' = ResultCount
    BY <1>6 DEF Complete, ResultCount
  <2>2. QED
    BY <1>6, <2>1 DEF Complete
<1>7. ASSUME NEW w \in Worker, Shutdown(w)
      PROVE  FinishedAfterAllCounted'
  <2>1. /\ status = "complete" /\ status' = status
        /\ ResultCount' = ResultCount
    BY <1>7 DEF Shutdown, ResultCount
  <2>2. QED
    BY <2>1
<1>8. ASSUME NEW w \in Worker, Abort(w)
      PROVE  FinishedAfterAllCounted'
  BY <1>8, <1>a DEF Abort, Return, Idle, TypeOK
<1>9. ASSUME NEW w \in Worker, RetryComplete(w)
      PROVE  FinishedAfterAllCounted'
  <2>1. /\ status = "complete" /\ status' = status
        /\ ResultCount' = ResultCount
    BY <1>9 DEF RetryComplete, ResultCount
  <2>2. QED
    BY <2>1
<1>10. CASE UNCHANGED vars
  BY <1>10, <1>a DEF vars
<1>11. QED
  BY <1>1, <1>2, <1>3, <1>4, <1>5, <1>6, <1>7, <1>8, <1>9, <1>10
     DEF FaultyNext, Next, Step

\* Completion follows the counting and termination follows completion, in every
\* behaviour: the counters never decrease, and the status is never taken back.
THEOREM FinishedAfterAllCountedHolds == FaultySpec => []FinishedAfterAllCounted
<1>1. Init => FinishedAfterAllCounted
  BY DEF Init, FinishedAfterAllCounted, At, Idle
<1>2. TypeOK /\ TypeOK' /\ FinishedAfterAllCounted /\ [FaultyNext]_vars
        => FinishedAfterAllCounted'
  BY FinishedKept
<1>3. QED
  BY <1>1, <1>2, TypeCorrect, PTL DEF FaultySpec
-----------------------------------------------------------------------------
(***************************************************************************)
(* Behaviours without faults.                                              *)
(***************************************************************************)
Recording(w, f) == handler[w].pc = "record" /\ handler[w].file = f

\* Each file is in one place: not finished, reported, in the hands of one
\* worker, or counted; so the counters count the files.
CountedOnce ==
  /\ \A f \in File :
       /\ f \in todo => reports[f] = 0
       /\ reports[f] \in {0, 1}
       /\ f \in todo \/ reports[f] = 1
            => f \notin counted /\ \A w \in Worker : ~Recording(w, f)
  /\ \A w \in Worker : handler[w].pc = "record" => handler[w].file \notin counted
  /\ \A v, w \in Worker :
       handler[v].pc = "record" /\ handler[w].pc = "record"
         /\ handler[v].file = handler[w].file => v = w
  /\ ResultCount = Cardinality(counted)

\* A behaviour without faults is one of the behaviours with faults.
LEMMA SafetyImpliesFaultySpec == Safety => FaultySpec
<1>1. [Next]_vars => [FaultyNext]_vars
  BY DEF FaultyNext
<1>2. QED
  BY <1>1, PTL DEF Safety, FaultySpec

\* Each file goes from one place to the next, and is counted when it leaves the last.
LEMMA CountedOnceKept ==
  ASSUME TypeOK, TypeOK', CountedOnce, [Next]_vars
  PROVE  CountedOnce'
<1> USE DEF CountedOnce, Recording
<1>a. ASSUME UNCHANGED <<filesCompleted, filesFailed, counted>>
      PROVE  ResultCount' = Cardinality(counted)'
  BY <1>a DEF ResultCount
<1>b. ASSUME UNCHANGED <<todo, reports, filesCompleted, filesFailed, counted>>,
             \A w \in Worker : handler'[w].pc = "record" => handler'[w] = handler[w]
      PROVE  CountedOnce'
  <2>1. \A w \in Worker : handler'[w].pc = "record" => handler[w].pc = "record"
                                           /\ handler'[w].file = handler[w].file
    BY <1>b
  <2>2. QED
    BY <1>a, <1>b, <2>1
<1>1. ASSUME NEW f \in File, Report(f)
      PROVE  CountedOnce'
  BY <1>1, <1>a DEF Report, TypeOK
<1>2. ASSUME NEW w \in Worker, NEW f \in File, Receive(w, f)
      PROVE  CountedOnce'
  <2>0. reports[f] = 1
    BY <1>2 DEF Receive
  <2>1. /\ UNCHANGED <<todo, filesCompleted, filesFailed, counted>>
        /\ reports' = [reports EXCEPT ![f] = 0]
        /\ handler'[w].pc = "record" /\ handler'[w].file = f
        /\ \A v \in Worker \ {w} : handler'[v] = handler[v]
    BY <1>2, <2>0 DEF Receive, TypeOK
  <2>2. f \notin todo /\ f \notin counted /\ \A v \in Worker : ~Recording(v, f)
    BY <2>0
  <2>3. \A g \in File \ {f} : reports'[g] = reports[g]
    BY <2>1 DEF TypeOK
  <2>4. reports'[f] = 0
    BY <2>1 DEF TypeOK
  <2>5. QED
    BY <2>1, <2>2, <2>3, <2>4, <1>a
<1>3. ASSUME NEW w \in Worker, Record(w)
      PROVE  CountedOnce'
  <2> DEFINE f == handler[w].file
  <2>1. /\ f \in File /\ f \notin counted /\ handler[w].pc = "record"
        /\ counted' = counted \cup {f}
        /\ UNCHANGED <<todo, reports>>
    BY <1>3 DEF Record, TypeOK
  <2>2. /\ handler'[w].pc = "save"
        /\ \A v \in Worker \ {w} : handler'[v] = handler[v]
    BY <1>3 DEF Record, Goto, TypeOK
  <2>3. IsFiniteSet(counted)
    BY FileAssumption, FS_Subset DEF TypeOK
  <2>4. Cardinality(counted') = Cardinality(counted) + 1
    BY <2>1, <2>3, FS_AddElement
  <2>5. ResultCount' = ResultCount + 1
    <3>1. CASE filesCompleted' = filesCompleted + 1 /\ UNCHANGED filesFailed
      BY <3>1 DEF ResultCount, TypeOK
    <3>2. CASE filesFailed' = filesFailed + 1 /\ UNCHANGED filesCompleted
      BY <3>2 DEF ResultCount, TypeOK
    <3>3. QED
      BY <1>3, <3>1, <3>2 DEF Record
  <2>6. ResultCount' = Cardinality(counted)'
    BY <2>4, <2>5
  <2>7. f \notin todo /\ reports[f] = 0
    BY <2>1
  <2>8. \A v \in Worker \ {w} : handler[v].pc = "record" => handler[v].file # f
    BY <2>1
  <2>9. QED
    BY <2>1, <2>2, <2>6, <2>7, <2>8
<1>4. ASSUME NEW w \in Worker,
             Save(w) \/ Check(w) \/ Complete(w) \/ Shutdown(w)
      PROVE  CountedOnce'
  <2>1. UNCHANGED <<todo, reports, filesCompleted, filesFailed, counted>>
    BY <1>4 DEF Save, Check, Complete, Shutdown
  <2>2. \A v \in Worker : handler'[v].pc = "record" => handler'[v] = handler[v]
    BY <1>4 DEF Save, Check, Complete, Shutdown, Goto, Return, Idle, TypeOK
  <2>3. QED
    BY <2>1, <2>2, <1>b
<1>5. CASE UNCHANGED vars
  BY <1>5, <1>b DEF vars
<1>6. QED
  BY <1>1, <1>2, <1>3, <1>4, <1>5 DEF Next, Step

\* Without faults no file is counted twice: each is with its transformer, on its way,
\* with one worker, or counted.
LEMMA CountedOnceHolds == Safety => []CountedOnce
<1>1. Init => CountedOnce
  <2> SUFFICES ASSUME Init PROVE CountedOnce
    OBVIOUS
  <2>1. ResultCount = Cardinality(counted)
    BY FS_EmptySet DEF Init, ResultCount
  <2>2. QED
    BY <2>1 DEF Init, CountedOnce, Idle, Recording
<1>2. TypeOK /\ TypeOK' /\ CountedOnce /\ [Next]_vars => CountedOnce'
  BY CountedOnceKept
<1>3. QED
  BY <1>1, <1>2, TypeCorrect, SafetyImpliesFaultySpec, PTL DEF Safety
-----------------------------------------------------------------------------
\* No file remains just when every file is counted.
LEMMA AllCounted ==
  ASSUME TypeOK, CountedOnce
  PROVE  /\ FilesRemaining = 0 <=> counted = File
         /\ ResultCount >= Cardinality(File) => counted = File
<1>1. /\ IsFiniteSet(counted)
      /\ Cardinality(counted) <= Cardinality(File)
      /\ Cardinality(counted) = Cardinality(File) => counted = File
  BY FileAssumption, FS_Subset DEF TypeOK
<1>2. Cardinality(counted) \in Nat /\ Cardinality(File) \in Nat
  BY <1>1, FileAssumption, FS_CardinalityType
<1>3. QED
  BY <1>1, <1>2 DEF CountedOnce, FilesRemaining

\* The last report is never missed.  The worker that commits the last increment
\* reads the row after it, so it finds no file remaining; a worker that reads
\* earlier and returns does so when some file is not counted yet.
THEOREM LastReportFinishesHolds == Safety => []LastReportFinishes
<1>1. Init => LastReportFinishes
  BY FileAssumption DEF Init, LastReportFinishes
<1>2. TypeOK /\ TypeOK' /\ CountedOnce /\ FinishedAfterAllCounted
        /\ LastReportFinishes /\ [Next]_vars
        => LastReportFinishes'
  <2> SUFFICES ASSUME TypeOK, TypeOK', CountedOnce, FinishedAfterAllCounted,
                      LastReportFinishes, [Next]_vars
               PROVE  LastReportFinishes'
    OBVIOUS
  <2> SUFFICES ASSUME counted' = File
               PROVE  LastReportFinishes'
    BY DEF LastReportFinishes
  <2> USE DEF At
  <2>a. ASSUME UNCHANGED <<counted, status, deployed>>,
               \A w \in Worker : handler[w].pc \in {"save", "check", "complete", "shutdown"}
                                 => handler'[w].pc = handler[w].pc
        PROVE  LastReportFinishes'
    BY <2>a DEF LastReportFinishes
  <2>b. ASSUME NEW w \in Worker, handler'[w].pc \in {"save", "check", "complete"}
        PROVE  LastReportFinishes'
    BY <2>b DEF LastReportFinishes
  <2>1. ASSUME NEW f \in File, Report(f)
        PROVE  LastReportFinishes'
    BY <2>1, <2>a DEF Report
  <2>2. ASSUME NEW w \in Worker, NEW f \in File, Receive(w, f)
        PROVE  LastReportFinishes'
    BY <2>2, <2>a DEF Receive, TypeOK
  <2>3. ASSUME NEW w \in Worker, Record(w)
        PROVE  LastReportFinishes'
    BY <2>3, <2>b DEF Record, Goto, TypeOK
  <2>4. ASSUME NEW w \in Worker, Save(w)
        PROVE  LastReportFinishes'
    BY <2>4, <2>b DEF Save, Goto, TypeOK
  <2>5. ASSUME NEW w \in Worker, Check(w)
        PROVE  LastReportFinishes'
    <3>1. FilesRemaining = 0
      BY <2>5, AllCounted DEF Check
    <3>2. QED
      BY <2>5, <3>1, <2>b DEF Check, Goto, TypeOK
  <2>6. ASSUME NEW w \in Worker, Complete(w)
        PROVE  LastReportFinishes'
    <3>1. status' = "complete" /\ handler'[w].pc = "shutdown"
      BY <2>6 DEF Complete, Goto, TypeOK
    <3>2. QED
      BY <3>1 DEF LastReportFinishes
  <2>7. ASSUME NEW w \in Worker, Shutdown(w)
        PROVE  LastReportFinishes'
    <3>1. status' = "complete" /\ deployed' = FALSE
      BY <2>7 DEF Shutdown, FinishedAfterAllCounted
    <3>2. QED
      BY <3>1 DEF LastReportFinishes
  <2>8. CASE UNCHANGED vars
    BY <2>8, <2>a DEF vars
  <2>9. QED
    BY <2>1, <2>2, <2>3, <2>4, <2>5, <2>6, <2>7, <2>8 DEF Next, Step
<1>3. QED
  BY <1>1, <1>2, TypeCorrect, CountedOnceHolds, FinishedAfterAllCountedHolds,
     SafetyImpliesFaultySpec, PTL DEF Safety
-----------------------------------------------------------------------------
\* The handlers of the App implement FileBarrier: a committed increment is Count,
\* the commit of the status is Finish, the shutdown is Release, and every other
\* step of a handler leaves the barrier alone.
THEOREM BarrierImplemented == Safety => ImplementsBarrier
<1>1. Init => Barrier!BarrierInit
  BY DEF Init, Barrier!BarrierInit
<1>2. TypeOK /\ CountedOnce /\ FinishedAfterAllCounted /\ [Next]_vars
        => [Barrier!BarrierNext]_Barrier!barrierVars
  <2> SUFFICES ASSUME TypeOK, CountedOnce, FinishedAfterAllCounted, [Next]_vars
               PROVE  [Barrier!BarrierNext]_Barrier!barrierVars
    OBVIOUS
  <2> USE DEF Barrier!BarrierNext, Barrier!barrierVars
  <2>a. ASSUME UNCHANGED <<counted, status, deployed>>
        PROVE  UNCHANGED Barrier!barrierVars
    BY <2>a
  <2>1. ASSUME NEW f \in File, Report(f)
        PROVE  UNCHANGED Barrier!barrierVars
    BY <2>1, <2>a DEF Report
  <2>2. ASSUME NEW w \in Worker,
               Save(w) \/ Check(w) \/ \E f \in File : Receive(w, f)
        PROVE  UNCHANGED Barrier!barrierVars
    BY <2>2, <2>a DEF Save, Check, Receive
  <2>3. ASSUME NEW w \in Worker, Record(w)
        PROVE  Barrier!Count(handler[w].file) /\ handler[w].file \in File
    BY <2>3 DEF Record, Barrier!Count, CountedOnce, TypeOK
  <2>4. ASSUME NEW w \in Worker, Complete(w)
        PROVE  Barrier!Finish
    <3>1. counted = File
      BY <2>4, AllCounted DEF Complete, FinishedAfterAllCounted, At
    <3>2. QED
      BY <2>4, <3>1 DEF Complete, Barrier!Finish
  <2>5. ASSUME NEW w \in Worker, Shutdown(w)
        PROVE  Barrier!Release
    BY <2>5 DEF Shutdown, Barrier!Release, FinishedAfterAllCounted, At
  <2>6. CASE UNCHANGED vars
    BY <2>6, <2>a DEF vars
  <2>7. QED
    BY <2>1, <2>2, <2>3, <2>4, <2>5, <2>6 DEF Next, Step
<1>3. QED
  BY <1>1, <1>2, TypeCorrect, CountedOnceHolds, FinishedAfterAllCountedHolds,
     SafetyImpliesFaultySpec, PTL
     DEF Safety, ImplementsBarrier, Barrier!BarrierSafety
-----------------------------------------------------------------------------
(***************************************************************************)
(* With faults, a file may be counted twice.  What may still be counted is *)
(* bounded: the tasks that are not finished, the reports on their way, and *)
(* the workers about to record one.                                        *)
(***************************************************************************)
\* The reports on their way, one by one.
Travelling == {r \in File \X Nat : r[2] < reports[r[1]]}

\* Files that a fault took away before they were counted.
Stray ==
  {f \in File \ counted :
     f \notin todo /\ reports[f] = 0 /\ \A w \in Worker : ~Recording(w, f)}

\* What was counted, may still be counted, or never will.
Tally ==
  ResultCount + Cardinality(todo) + Cardinality(Travelling)
    + Cardinality(At("record")) + Cardinality(Stray)

\* Without faults the tally stays at the number of files.
Supply == IsFiniteSet(Travelling) /\ Tally <= Cardinality(File) + faults

LEMMA MoreTravelling ==
  ASSUME TypeOK, IsFiniteSet(Travelling), NEW f \in File,
         reports' = [reports EXCEPT ![f] = @ + 1]
  PROVE  /\ IsFiniteSet(Travelling)'
         /\ Cardinality(Travelling)' = Cardinality(Travelling) + 1
<1>1. reports[f] \in Nat /\ \A g \in File : reports[g] \in Nat
  BY DEF TypeOK
<1>2. /\ reports'[f] = reports[f] + 1
      /\ \A g \in File \ {f} : reports'[g] = reports[g]
  BY DEF TypeOK
<1>3. Travelling' = Travelling \cup {<<f, reports[f]>>}
  BY <1>1, <1>2 DEF Travelling
<1>4. <<f, reports[f]>> \notin Travelling
  BY <1>1 DEF Travelling
<1> QED  BY <1>3, <1>4, FS_AddElement

LEMMA LessTravelling ==
  ASSUME TypeOK, IsFiniteSet(Travelling), NEW f \in File, reports[f] > 0,
         reports' = [reports EXCEPT ![f] = @ - 1]
  PROVE  /\ IsFiniteSet(Travelling)'
         /\ Cardinality(Travelling)' = Cardinality(Travelling) - 1
<1>1. reports[f] \in Nat \ {0} /\ \A g \in File : reports[g] \in Nat
  BY DEF TypeOK
<1>2. /\ reports'[f] = reports[f] - 1
      /\ \A g \in File \ {f} : reports'[g] = reports[g]
  BY DEF TypeOK
<1>3. Travelling' = Travelling \ {<<f, reports[f] - 1>>}
  BY <1>1, <1>2 DEF Travelling
<1>4. <<f, reports[f] - 1>> \in Travelling
  BY <1>1 DEF Travelling
<1> QED  BY <1>3, <1>4, FS_RemoveElement

LEMMA SupplyTypes ==
  ASSUME TypeOK, IsFiniteSet(Travelling)
  PROVE  /\ IsFiniteSet(todo) /\ IsFiniteSet(counted) /\ IsFiniteSet(Stray)
         /\ Cardinality(todo) \in Nat /\ Cardinality(Travelling) \in Nat
         /\ Cardinality(At("record")) \in Nat /\ Cardinality(Stray) \in Nat
         /\ Cardinality(counted) \in Nat /\ Cardinality(File) \in Nat
         /\ ResultCount \in Nat /\ faults \in Nat
<1>1. todo \in SUBSET File /\ Stray \in SUBSET File /\ counted \in SUBSET File
  BY DEF TypeOK, Stray
<1>2. IsFiniteSet(todo) /\ IsFiniteSet(Stray) /\ IsFiniteSet(counted)
  BY <1>1, FileAssumption, FS_Subset
<1>3. ResultCount \in Nat /\ faults \in Nat
  BY FaultAssumption DEF TypeOK, ResultCount
<1> QED  BY <1>2, <1>3, FileAssumption, FS_CardinalityType, AtFinite

\* No file strays but f, if f alone lost what stood for it.
LEMMA StrayGrows ==
  ASSUME TypeOK, TypeOK', IsFiniteSet(Travelling), NEW f \in File,
         Stray' \subseteq Stray \cup {f}
  PROVE  Cardinality(Stray)' <= Cardinality(Stray) + 1 /\ Cardinality(Stray)' \in Nat
<1>1. /\ IsFiniteSet(Stray \cup {f})
      /\ Cardinality(Stray \cup {f}) <= Cardinality(Stray) + 1
  <2>1. IsFiniteSet(Stray) /\ Cardinality(Stray) \in Nat
    BY SupplyTypes
  <2>2. CASE f \in Stray
    <3> DEFINE more == Stray \cup {f}
    <3>1. more = Stray
      BY <2>2
    <3> HIDE DEF more
    <3>2. IsFiniteSet(more) /\ Cardinality(more) <= Cardinality(Stray) + 1
      BY <2>1, <3>1
    <3> QED  BY <3>2 DEF more
  <2>3. CASE f \notin Stray
    <3>1. /\ IsFiniteSet(Stray \cup {f})
          /\ Cardinality(Stray \cup {f}) = Cardinality(Stray) + 1
      BY <2>1, <2>3, FS_AddElement
    <3> QED  BY <2>1, <3>1
  <2> QED  BY <2>2, <2>3
<1>2. Cardinality(Stray') <= Cardinality(Stray \cup {f})
  BY <1>1, FS_Subset
<1>3. /\ Cardinality(Stray') \in Nat /\ Cardinality(Stray) \in Nat
      /\ Cardinality(Stray \cup {f}) \in Nat
  <2>1. Stray' \in SUBSET (Stray \cup {f})
    OBVIOUS
  <2> QED  BY <1>1, <2>1, SupplyTypes, FS_Subset, FS_CardinalityType
<1> QED  BY <1>1, <1>2, <1>3

LEMMA StrayShrinks ==
  ASSUME TypeOK, IsFiniteSet(Travelling), Stray' \subseteq Stray
  PROVE  Cardinality(Stray)' <= Cardinality(Stray) /\ Cardinality(Stray)' \in Nat
<1>1. Stray' \in SUBSET Stray
  OBVIOUS
<1> QED  BY <1>1, SupplyTypes, FS_Subset, FS_CardinalityType

LEMMA SupplyKept ==
  ASSUME TypeOK, TypeOK', Supply, [FaultyNext]_vars
  PROVE  Supply'
<1> DEFINE recording == Cardinality(At("record"))
           travelling == Cardinality(Travelling)
           undone == Cardinality(todo)
           stray == Cardinality(Stray)
<1>0. /\ IsFiniteSet(Travelling)
      /\ undone \in Nat /\ travelling \in Nat /\ recording \in Nat /\ stray \in Nat
      /\ ResultCount \in Nat /\ faults \in Nat /\ Cardinality(File) \in Nat
      /\ recording' \in Nat
  BY SupplyTypes, AtFinite DEF Supply
<1>a. ASSUME UNCHANGED <<filesCompleted, filesFailed>>  PROVE ResultCount' = ResultCount
  BY <1>a DEF ResultCount
<1>b. ASSUME UNCHANGED reports  PROVE Travelling' = Travelling
  BY <1>b DEF Travelling
<1>c. ASSUME UNCHANGED handler  PROVE At("record")' = At("record")
  BY <1>c DEF At
<1>1. ASSUME NEW f \in File, Report(f)  PROVE Supply'
  <2>1. /\ f \in todo /\ todo' = todo \ {f}
        /\ reports' = [reports EXCEPT ![f] = @ + 1]
        /\ UNCHANGED <<filesCompleted, filesFailed, handler, counted, faults>>
    BY <1>1 DEF Report
  <2>2. IsFiniteSet(Travelling)' /\ travelling' = travelling + 1
    BY <1>0, <2>1, MoreTravelling
  <2>3. undone' = undone - 1
    BY <1>0, <2>1, SupplyTypes, FS_RemoveElement
  <2>4. stray' <= stray /\ stray' \in Nat
    <3>1. reports'[f] # 0 /\ \A g \in File \ {f} : reports'[g] = reports[g]
      BY <2>1 DEF TypeOK
    <3>2. Stray' \subseteq Stray
      BY <2>1, <3>1 DEF Stray, Recording
    <3> QED  BY <1>0, <3>2, StrayShrinks
  <2>5. recording' = recording
    BY <1>c, <2>1
  <2>6. ResultCount' = ResultCount
    BY <1>a, <2>1
  <2>7. Tally' <= Tally
    BY <1>0, <2>2, <2>3, <2>4, <2>5, <2>6 DEF Tally
  <2> QED  BY <1>0, <2>1, <2>2, <2>3, <2>4, <2>5, <2>6, <2>7 DEF Supply, Tally
<1>2. ASSUME NEW w \in Worker, NEW f \in File, Receive(w, f)  PROVE Supply'
  <2>1. /\ handler[w].pc = "idle" /\ reports[f] > 0
        /\ reports' = [reports EXCEPT ![f] = @ - 1]
        /\ handler'[w].pc = "record" /\ handler'[w].file = f
        /\ \A v \in Worker \ {w} : handler'[v] = handler[v]
        /\ UNCHANGED <<todo, filesCompleted, filesFailed, counted, faults>>
    BY <1>2 DEF Receive, TypeOK
  <2>2. IsFiniteSet(Travelling)' /\ travelling' = travelling - 1
    BY <1>0, <2>1, LessTravelling
  <2>3. recording' = recording + 1
    BY <2>1, AtEnter
  <2>4. stray' <= stray /\ stray' \in Nat
    <3>1. /\ \A g \in File \ {f} : reports'[g] = reports[g]
          /\ \A v \in Worker, g \in File : Recording(v, g) => Recording(v, g)'
          /\ Recording(w, f)'
      BY <2>1 DEF TypeOK, Recording
    <3>2. Stray' \subseteq Stray
      BY <2>1, <3>1 DEF Stray
    <3> QED  BY <1>0, <3>2, StrayShrinks
  <2>5. ResultCount' = ResultCount
    BY <1>a, <2>1
  <2>6. Tally' <= Tally
    BY <1>0, <2>1, <2>2, <2>3, <2>4, <2>5 DEF Tally
  <2> QED  BY <1>0, <2>1, <2>2, <2>3, <2>4, <2>5, <2>6 DEF Supply, Tally
<1>3. ASSUME NEW w \in Worker, Record(w)  PROVE Supply'
  <2>1. /\ handler[w].pc = "record" /\ handler'[w].pc = "save"
        /\ \A v \in Worker \ {w} : handler'[v] = handler[v]
        /\ counted' = counted \cup {handler[w].file}
        /\ UNCHANGED <<todo, reports, faults>>
    BY <1>3 DEF Record, Goto, TypeOK
  <2>2. ResultCount' = ResultCount + 1
    <3>1. CASE filesCompleted' = filesCompleted + 1 /\ UNCHANGED filesFailed
      BY <3>1 DEF ResultCount, TypeOK
    <3>2. CASE filesFailed' = filesFailed + 1 /\ UNCHANGED filesCompleted
      BY <3>2 DEF ResultCount, TypeOK
    <3> QED  BY <1>3, <3>1, <3>2 DEF Record
  <2>3. recording' = recording - 1
    BY <2>1, AtLeave
  <2>4. stray' <= stray /\ stray' \in Nat
    <3>1. \A v \in Worker, g \in File :
            Recording(v, g) => Recording(v, g)' \/ g = handler[w].file
      BY <2>1 DEF Recording
    <3>2. Stray' \subseteq Stray
      BY <2>1, <3>1 DEF Stray
    <3> QED  BY <1>0, <3>2, StrayShrinks
  <2>5. Travelling' = Travelling
    BY <1>b, <2>1
  <2>6. Tally' <= Tally
    BY <1>0, <2>1, <2>2, <2>3, <2>4, <2>5 DEF Tally
  <2> QED  BY <1>0, <2>1, <2>2, <2>3, <2>4, <2>5, <2>6 DEF Supply, Tally
<1>4. ASSUME UNCHANGED <<todo, reports, filesCompleted, filesFailed, counted>>,
             faults' \in {faults, faults + 1},
             \A v \in Worker : (handler[v].pc = "record" \/ handler'[v].pc = "record")
                                 => handler'[v] = handler[v]
      PROVE  Supply'
  <2>1. \A v \in Worker, g \in File : Recording(v, g)' <=> Recording(v, g)
    BY <1>4 DEF Recording
  <2>2. At("record")' = At("record")
    BY <1>4 DEF At
  <2>3. Stray' = Stray
    BY <1>4, <2>1 DEF Stray
  <2>4. Travelling' = Travelling /\ ResultCount' = ResultCount
    BY <1>a, <1>b, <1>4
  <2>5. Tally' = Tally
    BY <1>4, <2>2, <2>3, <2>4 DEF Tally
  <2> QED  BY <1>0, <1>4, <2>4, <2>5 DEF Supply, Tally
<1>5. ASSUME NEW w \in Worker, Save(w) \/ Check(w) \/ Complete(w) \/ Shutdown(w)
      PROVE  Supply'
  <2>1. UNCHANGED <<todo, reports, filesCompleted, filesFailed, counted, faults>>
    BY <1>5 DEF Save, Check, Complete, Shutdown
  <2>2. /\ handler[w].pc # "record" /\ handler'[w].pc # "record"
        /\ \A v \in Worker \ {w} : handler'[v] = handler[v]
    BY <1>5 DEF Save, Check, Complete, Shutdown, Goto, Return, Idle, TypeOK
  <2> QED  BY <1>4, <2>1, <2>2
<1>6. ASSUME NEW w \in Worker, RetryComplete(w)  PROVE Supply'
  <2>1. /\ UNCHANGED <<todo, reports, filesCompleted, filesFailed, counted>>
        /\ faults' = faults + 1
    BY <1>6 DEF RetryComplete, Fault
  <2>2. /\ handler[w].pc # "record" /\ handler'[w].pc # "record"
        /\ \A v \in Worker \ {w} : handler'[v] = handler[v]
    BY <1>6 DEF RetryComplete, Goto, TypeOK
  <2> QED  BY <1>4, <2>1, <2>2
<1>7. ASSUME NEW w \in Worker, Abort(w)  PROVE Supply'
  <2> DEFINE f == handler[w].file
  <2>1. /\ f \in File /\ faults' = faults + 1
        /\ handler[w].pc # "idle" /\ handler'[w].pc = "idle"
        /\ \A v \in Worker \ {w} : handler'[v] = handler[v]
        /\ UNCHANGED <<todo, filesCompleted, filesFailed, counted>>
    BY <1>7 DEF Abort, Fault, Return, Idle, TypeOK
  <2>2. reports' = [reports EXCEPT ![f] = @ + 1] \/ reports' = reports
    BY <1>7 DEF Abort, TypeOK
  <2>3. ResultCount' = ResultCount
    BY <1>a, <2>1
  <2>4. \A v \in Worker, g \in File : Recording(v, g) => Recording(v, g)' \/ g = f
    BY <2>1 DEF Recording
  <2> HIDE DEF f
  <2>5. CASE reports' = [reports EXCEPT ![f] = @ + 1]
    <3>1. IsFiniteSet(Travelling)' /\ travelling' = travelling + 1
      BY <1>0, <2>1, <2>5, MoreTravelling
    <3>2. reports'[f] # 0 /\ \A g \in File \ {f} : reports'[g] = reports[g]
      BY <2>1, <2>5 DEF TypeOK
    <3>3. Stray' \subseteq Stray
      BY <2>1, <2>4, <3>2 DEF Stray
    <3>4. stray' <= stray /\ stray' \in Nat
      BY <1>0, <3>3, StrayShrinks
    <3>5. recording' <= recording
      BY <1>0, <2>1, AtLeave, AtSame
    <3>6. Tally' <= Tally + 1
      BY <1>0, <2>1, <2>3, <3>1, <3>4, <3>5 DEF Tally
    <3> QED  BY <1>0, <2>1, <2>3, <3>1, <3>4, <3>6 DEF Supply, Tally
  <2>6. CASE reports' = reports
    <3>1. Travelling' = Travelling
      BY <1>b, <2>6
    <3>2. Stray' \subseteq Stray \cup {f}
      BY <2>1, <2>4, <2>6 DEF Stray
    <3>3. stray' <= stray + 1 /\ stray' \in Nat
      BY <1>0, <2>1, <3>2, StrayGrows
    <3>4. recording' <= recording
      BY <1>0, <2>1, AtLeave, AtSame
    <3>5. Tally' <= Tally + 1
      BY <1>0, <2>1, <2>3, <3>1, <3>3, <3>4 DEF Tally
    <3> QED  BY <1>0, <2>1, <2>3, <3>1, <3>3, <3>5 DEF Supply, Tally
  <2> QED  BY <2>2, <2>5, <2>6
<1>8. ASSUME NEW f \in File, Redeliver(f)  PROVE Supply'
  <2>1. /\ f \notin todo /\ todo' = todo \cup {f} /\ faults' = faults + 1
        /\ UNCHANGED <<reports, filesCompleted, filesFailed, handler, counted>>
    BY <1>8 DEF Redeliver, Fault
  <2>2. undone' = undone + 1
    BY <1>0, <2>1, SupplyTypes, FS_AddElement
  <2>3. Stray' \subseteq Stray
    BY <2>1 DEF Stray, Recording
  <2>4. stray' <= stray /\ stray' \in Nat
    BY <1>0, <2>3, StrayShrinks
  <2>5. Travelling' = Travelling /\ recording' = recording /\ ResultCount' = ResultCount
    BY <1>a, <1>b, <1>c, <2>1
  <2>6. Tally' <= Tally + 1
    BY <1>0, <2>2, <2>4, <2>5 DEF Tally
  <2> QED  BY <1>0, <2>1, <2>2, <2>4, <2>5, <2>6 DEF Supply, Tally
<1>9. ASSUME NEW f \in File, LoseReport(f)  PROVE Supply'
  <2>1. /\ reports[f] > 0 /\ reports' = [reports EXCEPT ![f] = @ - 1]
        /\ faults' = faults + 1
        /\ UNCHANGED <<todo, filesCompleted, filesFailed, handler, counted>>
    BY <1>9 DEF LoseReport, Fault
  <2>2. IsFiniteSet(Travelling)' /\ travelling' = travelling - 1
    BY <1>0, <2>1, LessTravelling
  <2>3. \A g \in File \ {f} : reports'[g] = reports[g]
    BY <2>1 DEF TypeOK
  <2>4. Stray' \subseteq Stray \cup {f}
    BY <2>1, <2>3 DEF Stray, Recording
  <2>5. stray' <= stray + 1 /\ stray' \in Nat
    BY <1>0, <2>4, StrayGrows
  <2>6. recording' = recording /\ ResultCount' = ResultCount
    BY <1>a, <1>c, <2>1
  <2>7. Tally' <= Tally
    BY <1>0, <2>1, <2>2, <2>5, <2>6 DEF Tally
  <2> QED  BY <1>0, <2>1, <2>2, <2>5, <2>6, <2>7 DEF Supply, Tally
<1>10. CASE UNCHANGED vars
  <2>1. /\ UNCHANGED <<todo, reports, filesCompleted, filesFailed, counted, handler>>
        /\ faults' = faults
    BY <1>10 DEF vars
  <2> QED  BY <1>4, <2>1
<1> QED  BY <1>1, <1>2, <1>3, <1>5, <1>6, <1>7, <1>8, <1>9, <1>10
         DEF FaultyNext, Next, Step

\* Every file is counted, stray, or still to be counted; so the tally bounds what was
\* counted twice.
LEMMA SupplyCovers ==
  ASSUME TypeOK, Supply  PROVE ExtraCountsNeedFaults
<1> DEFINE onWay == {f \in File : reports[f] > 0}
           inHand == {handler[w].file : w \in At("record")}
<1>0. /\ IsFiniteSet(todo) /\ IsFiniteSet(counted) /\ IsFiniteSet(Stray)
      /\ Cardinality(todo) \in Nat /\ Cardinality(Travelling) \in Nat
      /\ Cardinality(At("record")) \in Nat /\ Cardinality(Stray) \in Nat
      /\ Cardinality(counted) \in Nat /\ Cardinality(File) \in Nat
      /\ ResultCount \in Nat /\ faults \in Nat
  BY SupplyTypes DEF Supply
<1>1. IsFiniteSet(onWay) /\ Cardinality(onWay) <= Cardinality(Travelling)
  <2> DEFINE t == [r \in Travelling |-> r[1]]
  <2>1. \A r \in Travelling : r[1] \in onWay
    BY DEF Travelling, TypeOK
  <2>2. \A f \in onWay : <<f, 0>> \in Travelling
    BY DEF Travelling, TypeOK
  <2>3. t \in Surjection(Travelling, onWay)
    BY <2>1, <2>2 DEF Surjection
  <2> HIDE DEF t
  <2> QED  BY <2>3, FS_Surjection DEF Supply
<1>2. IsFiniteSet(inHand) /\ Cardinality(inHand) <= Cardinality(At("record"))
  <2> DEFINE h == [w \in At("record") |-> handler[w].file]
  <2>1. h \in Surjection(At("record"), inHand)
    BY DEF Surjection
  <2> HIDE DEF h
  <2> QED  BY <2>1, AtFinite, FS_Surjection
<1>3. File \subseteq ((counted \cup Stray) \cup todo) \cup (onWay \cup inHand)
  <2> SUFFICES ASSUME NEW f \in File, f \notin counted, f \notin todo, f \notin onWay,
                      f \notin inHand
               PROVE  f \in Stray
    OBVIOUS
  <2>1. reports[f] = 0
    BY DEF TypeOK
  <2>2. \A w \in Worker : ~Recording(w, f)
    BY DEF Recording, At
  <2> QED  BY <2>1, <2>2 DEF Stray
<1> HIDE DEF onWay, inHand
<1>4. \A S, T : IsFiniteSet(S) /\ IsFiniteSet(T)
                  => /\ IsFiniteSet(S \cup T)
                     /\ Cardinality(S \cup T) <= Cardinality(S) + Cardinality(T)
                     /\ Cardinality(S \cup T) \in Nat
  <2> SUFFICES ASSUME NEW S, NEW T, IsFiniteSet(S), IsFiniteSet(T)
               PROVE  /\ IsFiniteSet(S \cup T)
                      /\ Cardinality(S \cup T) <= Cardinality(S) + Cardinality(T)
                      /\ Cardinality(S \cup T) \in Nat
    OBVIOUS
  <2>1. IsFiniteSet(S \cup T) /\ IsFiniteSet(S \cap T)
    BY FS_Union, FS_Intersection
  <2>2. /\ Cardinality(S) \in Nat /\ Cardinality(T) \in Nat
        /\ Cardinality(S \cap T) \in Nat /\ Cardinality(S \cup T) \in Nat
    BY <2>1, FS_CardinalityType
  <2>3. Cardinality(S \cup T) = Cardinality(S) + Cardinality(T) - Cardinality(S \cap T)
    BY FS_Union
  <2> QED  BY <2>1, <2>2, <2>3
<1>5. /\ IsFiniteSet(counted \cup Stray)
      /\ Cardinality(counted \cup Stray) <= Cardinality(counted) + Cardinality(Stray)
      /\ Cardinality(counted \cup Stray) \in Nat
  BY <1>0, <1>4
<1>6. /\ IsFiniteSet((counted \cup Stray) \cup todo)
      /\ Cardinality((counted \cup Stray) \cup todo)
           <= Cardinality(counted \cup Stray) + Cardinality(todo)
      /\ Cardinality((counted \cup Stray) \cup todo) \in Nat
  BY <1>0, <1>4, <1>5
<1>7. /\ IsFiniteSet(onWay \cup inHand)
      /\ Cardinality(onWay \cup inHand) <= Cardinality(onWay) + Cardinality(inHand)
      /\ Cardinality(onWay \cup inHand) \in Nat
      /\ Cardinality(onWay) \in Nat /\ Cardinality(inHand) \in Nat
  BY <1>1, <1>2, <1>4, FS_CardinalityType
<1>8. Cardinality(File) <= Cardinality((counted \cup Stray) \cup todo)
                             + Cardinality(onWay \cup inHand)
  <2> DEFINE all == ((counted \cup Stray) \cup todo) \cup (onWay \cup inHand)
  <2>1. /\ IsFiniteSet(all) /\ Cardinality(all) \in Nat
        /\ Cardinality(all) <= Cardinality((counted \cup Stray) \cup todo)
                                 + Cardinality(onWay \cup inHand)
    BY <1>4, <1>6, <1>7
  <2>2. File \in SUBSET all
    BY <1>3
  <2> HIDE DEF all
  <2>3. Cardinality(File) <= Cardinality(all)
    BY <2>1, <2>2, FS_Subset
  <2> QED  BY <1>0, <1>6, <1>7, <2>1, <2>3
<1>9. Cardinality(File) <= Cardinality(counted) + Cardinality(Stray) + Cardinality(todo)
                             + Cardinality(Travelling) + Cardinality(At("record"))
  BY <1>0, <1>1, <1>2, <1>5, <1>6, <1>7, <1>8
<1> QED  BY <1>0, <1>9 DEF Supply, Tally, ExtraCountsNeedFaults

\* A file is counted more than once only by a fault, one count for each at most: a
\* task delivered again, or a report sent again, brings one report, and nothing else
\* makes a report out of none.
THEOREM ExtraCountsNeedFaultsHolds == FaultySpec => []ExtraCountsNeedFaults
<1>1. Init => Supply
  <2> SUFFICES ASSUME Init  PROVE Supply
    OBVIOUS
  <2>1. Travelling = {} /\ At("record") = {} /\ Stray = {}
    BY DEF Init, Travelling, At, Stray, Idle
  <2>2. ResultCount = 0 /\ todo = File /\ faults = 0
    BY DEF Init, ResultCount
  <2>3. Cardinality(File) \in Nat
    BY FileAssumption, FS_CardinalityType
  <2> QED  BY <2>1, <2>2, <2>3, FS_EmptySet DEF Supply, Tally
<1>2. TypeOK /\ TypeOK' /\ Supply /\ [FaultyNext]_vars => Supply'
  BY SupplyKept
<1>3. TypeOK /\ Supply => ExtraCountsNeedFaults
  BY SupplyCovers
<1> QED  BY <1>1, <1>2, <1>3, TypeCorrect, PTL DEF FaultySpec
=============================================================================
