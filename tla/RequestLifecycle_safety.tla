----------------------- MODULE RequestLifecycle_safety -----------------------
(***************************************************************************)
(* Proofs of the safety properties of RequestLifecycle, from its types.    *)
(***************************************************************************)
EXTENDS RequestLifecycle_proofs

\* What a step of worker w does to the handlers.
LEMMA BecomeOnly ==
  ASSUME TypeOK, NEW w \in Worker, NEW h, Become(w, h)
  PROVE  handler'[w] = h /\ \A v \in Worker \ {w} : handler'[v] = handler[v]
BY DEF TypeOK, Become

\* A handler that returns leaves the other workers alone.
LEMMA ReturnOnly ==
  ASSUME TypeOK, NEW w \in Worker, Return(w)
  PROVE  handler'[w] = Idle /\ \A v \in Worker \ {w} : handler'[v] = handler[v]
BY BecomeOnly DEF Return

\* So does one that goes on.
LEMMA GotoOnly ==
  ASSUME TypeOK, NEW w \in Worker, NEW stage, Goto(w, stage)
  PROVE  /\ handler'[w] = [handler[w] EXCEPT !.pc = stage]
         /\ handler'[w].pc = stage
         /\ \A v \in Worker \ {w} : handler'[v] = handler[v]
BY BecomeOnly DEF Goto, TypeOK, Handler

\* Nobody takes back a task that was sent.
LEMMA SendGrows ==
  ASSUME TypeOK, NEW r \in Request, NEW n \in Nat, SendTasks(r, n)
  PROVE  /\ sent'[r] = sent[r] + n
         /\ tasks'[r] = tasks[r] + n
         /\ \A q \in Request \ {r} : sent'[q] = sent[q] /\ tasks'[q] = tasks[q]
         /\ \A q \in Request : sent[q] <= sent'[q]
BY DEF TypeOK, SendTasks
-----------------------------------------------------------------------------
(***************************************************************************)
(* Tasks are conserved.  The sum is disturbed only by steps that move a    *)
(* task on, send new ones or drop a queue, and by the faults that bring a  *)
(* report or a task back: each adds one at most, to one request.           *)
(***************************************************************************)
LEMMA SameTasks ==
  ASSUME TasksConserved, UNCHANGED <<tasks, reports, done, sent, faults>>
  PROVE  TasksConserved'
BY DEF TasksConserved

\* Sending tasks adds as many to the queue as to what was sent.
LEMMA SendConserves ==
  ASSUME TypeOK, TasksConserved, NEW r \in Request, NEW n \in Nat, SendTasks(r, n),
         UNCHANGED <<done, faults>>
  PROVE  TasksConserved'
<1> SUFFICES ASSUME NEW q \in Request
             PROVE  tasks'[q] + reports'[q] + done'[q] <= sent'[q] + faults'
  BY DEF TasksConserved
<1>1. /\ tasks[q] + reports[q] + done[q] <= sent[q] + faults
      /\ tasks[q] \in Nat /\ reports[q] \in Nat /\ done[q] \in Nat /\ sent[q] \in Nat
      /\ faults \in Nat /\ faults' = faults
      /\ reports' = reports
  BY FaultAssumption DEF TasksConserved, TypeOK, SendTasks
<1>2. CASE q = r
  BY <1>1, <1>2, SendGrows
<1>3. CASE q # r
  BY <1>1, <1>3, SendGrows
<1>4. QED
  BY <1>2, <1>3

\* Shutting down may drop the tasks in the queue, and only makes the sum smaller.
LEMMA ShutdownConserves ==
  ASSUME TypeOK, TasksConserved, NEW r \in Request, ShutdownTransformers(r),
         UNCHANGED <<done, faults>>
  PROVE  TasksConserved'
<1> SUFFICES ASSUME NEW q \in Request
             PROVE  tasks'[q] + reports'[q] + done'[q] <= sent'[q] + faults'
  BY DEF TasksConserved
<1>1. /\ tasks[q] + reports[q] + done[q] <= sent[q] + faults
      /\ tasks[q] \in Nat /\ reports[q] \in Nat /\ done[q] \in Nat /\ sent[q] \in Nat
      /\ faults \in Nat /\ faults' = faults
      /\ reports' = reports /\ sent' = sent
  BY FaultAssumption DEF TasksConserved, TypeOK, ShutdownTransformers
<1>2. tasks'[q] = tasks[q] \/ tasks'[q] = 0
  BY DEF TypeOK, ShutdownTransformers
<1>3. QED
  BY <1>1, <1>2

\* A fault brings back one report or one task of one request, or takes some away.
LEMMA FaultConserves ==
  ASSUME TypeOK, TasksConserved, faults' = faults + 1, UNCHANGED <<done, sent>>,
         tasks' \in [Request -> Nat], reports' \in [Request -> Nat],
         \A r \in Request : tasks'[r] + reports'[r] <= tasks[r] + reports[r] + 1
  PROVE  TasksConserved'
<1> SUFFICES ASSUME NEW q \in Request
             PROVE  tasks'[q] + reports'[q] + done'[q] <= sent'[q] + faults'
  BY DEF TasksConserved
<1>1. /\ tasks[q] + reports[q] + done[q] <= sent[q] + faults
      /\ tasks[q] \in Nat /\ reports[q] \in Nat /\ done[q] \in Nat /\ sent[q] \in Nat
      /\ tasks'[q] \in Nat /\ reports'[q] \in Nat /\ faults \in Nat
  BY FaultAssumption DEF TasksConserved, TypeOK
<1>2. tasks'[q] + reports'[q] <= tasks[q] + reports[q] + 1
  OBVIOUS
<1>3. QED
  BY <1>1, <1>2

\* The App counts no more files than it sent tasks for and had faults, whoever sends.
THEOREM TasksConservedHolds == Spec => []TasksConserved
<1>1. Init => TasksConserved
  BY DEF Init, TasksConserved
<1>2. TypeOK /\ TasksConserved /\ [Next]_vars => TasksConserved'
  <2> SUFFICES ASSUME TypeOK, TasksConserved, [Next]_vars
               PROVE  TasksConserved'
    OBVIOUS
  <2> USE DEF Serving
  <2>0. \A w \in Worker :
          /\ handler[w].n \in Nat
          /\ handler[w].pc \in SubmitStage \cup FileStage \cup CancelStage
                                 \cup {"add_send", "add_commit"}
               => handler[w].req \in Request
    BY DEF TypeOK, Handler, HandlerOK
  <2>1. ASSUME NEW w \in Worker, SubmitStep(w) \/ User(w)
        PROVE  TasksConserved'
    <3>1. CASE SubmitPublish(w)
      <4>1. handler[w].req \in Request /\ dsFiles[DatasetOf[handler[w].req]] \in Nat
        BY <2>0, <3>1, DatasetAssumption DEF SubmitPublish, SubmitStage, TypeOK
      <4>2. QED
        BY <3>1, <4>1, SendConserves DEF SubmitPublish, database
    <3>2. CASE ~SubmitPublish(w)
      BY <2>1, <3>2, SameTasks
         DEF SubmitStep, User, Submit, SubmitCreate, SubmitSave, SubmitRefresh,
             SubmitSendLookup, SubmitCommitLookup, SubmitCommitPublish, SubmitPend,
             SubmitStart, Cancel, database, brokers
    <3>3. QED
      BY <3>1, <3>2
  <2>2. ASSUME NEW w \in Worker, AddStep(w)
        PROVE  TasksConserved'
    <3>1. CASE AddSend(w)
      BY <2>0, <3>1, SendConserves DEF AddSend, database
    <3>2. CASE ~AddSend(w)
      BY <2>2, <3>2, SameTasks
         DEF AddStep, AddFiles, AddStore, AddRead, AddCommit, AddReturn, database, brokers
    <3>3. QED
      BY <3>1, <3>2
  <2>3. ASSUME NEW w \in Worker, FilesetStep(w)
        PROVE  TasksConserved'
    <3>1. ASSUME NEW r \in Request, FilesetPublish(w, r)
          PROVE  TasksConserved'
      BY <2>0, <3>1, SendConserves DEF FilesetPublish, database
    <3>2. ASSUME NEW r \in Request, FilesetShutdown(w, r)
          PROVE  TasksConserved'
      BY <3>2, ShutdownConserves DEF FilesetShutdown, database
    <3>3. CASE ~\E r \in Request : FilesetPublish(w, r) \/ FilesetShutdown(w, r)
      BY <2>3, <3>3, SameTasks
         DEF FilesetStep, FilesetComplete, FilesetPending, FilesetLookup, FilesetCommit,
             FilesetEmpty, FilesetEmptyPending, FilesetEmptyCommit, database, brokers
    <3>4. QED
      BY <3>1, <3>2, <3>3
  <2>4. ASSUME NEW w \in Worker, FileStep(w)
        PROVE  TasksConserved'
    <3>1. ASSUME NEW r \in Request, FileRecord(w, r)
          PROVE  TasksConserved'
      BY <3>1, FaultAssumption DEF FileRecord, TasksConserved, TypeOK
    <3>2. CASE FileShutdown(w)
      BY <2>0, <3>2, ShutdownConserves DEF FileShutdown, database, FileStage
    <3>3. CASE FileCheck(w) \/ FileComplete(w)
      BY <3>3, SameTasks DEF FileCheck, FileComplete, database, brokers
    <3>4. QED
      BY <2>4, <3>1, <3>2, <3>3 DEF FileStep
  <2>5. ASSUME NEW w \in Worker, CancelStep(w)
        PROVE  TasksConserved'
    <3>1. CASE CancelShutdown(w)
      BY <2>0, <3>1, ShutdownConserves DEF CancelShutdown, database, CancelStage
    <3>2. CASE CancelCommit(w)
      BY <3>2, SameTasks DEF CancelCommit, brokers
    <3>3. QED
      BY <2>5, <3>1, <3>2 DEF CancelStep
  <2>6. ASSUME Environment
        PROVE  TasksConserved'
    <3>1. ASSUME NEW f \in Finder, NEW d \in Dataset, Lookup(f, d)
          PROVE  TasksConserved'
      BY <3>1, SameTasks DEF Lookup, database
    <3>2. ASSUME NEW r \in Request, Transform(r)
          PROVE  TasksConserved'
      BY <3>2, FaultAssumption DEF Transform, TasksConserved, TypeOK, database
    <3>3. QED
      BY <2>6, <3>1, <3>2 DEF Environment
  <2>7. CASE Faults
    <3>1. ASSUME NEW w \in Worker, Abort(w)
          PROVE  TasksConserved'
      <4>1. /\ UNCHANGED <<tasks, done, sent>> /\ faults' = faults + 1
            /\ \/ UNCHANGED reports
               \/ /\ handler[w].req \in Request
                  /\ reports' = [reports EXCEPT ![handler[w].req] = @ + 1]
        BY <2>0, <3>1 DEF Abort, Fault, database
      <4>2. /\ tasks' \in [Request -> Nat] /\ reports' \in [Request -> Nat]
            /\ \A r \in Request : tasks'[r] + reports'[r] <= tasks[r] + reports[r] + 1
        BY <4>1 DEF TypeOK
      <4>3. QED
        BY <4>1, <4>2, FaultConserves
    <3>2. ASSUME NEW r \in Request, LoseReport(r) \/ TransformerDies(r)
          PROVE  TasksConserved'
      <4>1. /\ UNCHANGED <<done, sent>> /\ faults' = faults + 1
            /\ \/ /\ UNCHANGED tasks
                  /\ reports[r] > 0 /\ reports' = [reports EXCEPT ![r] = @ - 1]
               \/ /\ UNCHANGED reports
                  /\ \/ tasks' = [tasks EXCEPT ![r] = @ + 1]
                     \/ tasks' = [tasks EXCEPT ![r] = 0]
        BY <3>2 DEF LoseReport, TransformerDies, Fault, database
      <4>2. /\ tasks' \in [Request -> Nat] /\ reports' \in [Request -> Nat]
            /\ \A q \in Request : tasks'[q] + reports'[q] <= tasks[q] + reports[q] + 1
        BY <4>1 DEF TypeOK
      <4>3. QED
        BY <4>1, <4>2, FaultConserves
    <3>3. ASSUME \/ \E w \in Worker : RetryComplete(w)
                 \/ \E f \in Finder : LookupDies(f)
          PROVE  TasksConserved'
      <4>1. UNCHANGED <<tasks, reports, done, sent>> /\ faults' = faults + 1
        BY <3>3 DEF RetryComplete, LookupDies, Fault, database, brokers
      <4>2. /\ tasks' \in [Request -> Nat] /\ reports' \in [Request -> Nat]
            /\ \A r \in Request : tasks'[r] + reports'[r] <= tasks[r] + reports[r] + 1
        BY <4>1 DEF TypeOK
      <4>3. QED
        BY <4>1, <4>2, FaultConserves
    <3>4. QED
      BY <2>7, <3>1, <3>2, <3>3 DEF Faults
  <2>8. CASE UNCHANGED vars
    BY <2>8, SameTasks DEF vars, database, brokers
  <2>9. QED
    BY <2>1, <2>2, <2>3, <2>4, <2>5, <2>6, <2>7, <2>8 DEF Next, WorkerStep
<1>3. QED
  BY <1>1, <1>2, TypeCorrect, PTL DEF Spec
-----------------------------------------------------------------------------
(***************************************************************************)
(* The number of files of a request stays within the tasks sent for it.    *)
(* A handler sends first and commits the number later, so what it is about *)
(* to commit must be within the tasks sent at every stage in between.      *)
(***************************************************************************)
ToCommitSent(w) ==
  LET h == handler[w]
  IN  /\ h.pc = "add_send" => h.read <= sent[h.req]
      /\ h.pc = "add_commit" => h.read + h.n <= sent[h.req]
      /\ h.pc = "publish_commit" => h.n <= sent[h.req]
      /\ h.pc = "fs_publish" => \A r \in h.pend \ h.todo : h.n <= sent[r]
      /\ h.pc = "fs_commit" => \A r \in h.pend : h.n <= sent[r]

\* The inductive invariant: what is committed, and what is about to be, was sent.
CountsOK == FilesWithinSent /\ \A w \in Worker : ToCommitSent(w)

\* The stages at which a handler is about to commit a number of files.
CountingStage == {"add_send", "add_commit", "publish_commit", "fs_publish", "fs_commit"}

\* Tasks that others send do not hurt a handler that waits to commit.
LEMMA WaitingToCommit ==
  ASSUME TypeOK, NEW v \in Worker, ToCommitSent(v), handler'[v] = handler[v],
         sent' \in [Request -> Nat], \A r \in Request : sent[r] <= sent'[r]
  PROVE  ToCommitSent(v)'
<1>1. handler[v] \in Handler /\ HandlerOK(handler[v])
  BY DEF TypeOK
<1>2. handler[v].pc \in {"add_send", "add_commit", "publish_commit"}
        => handler[v].req \in Request
  BY <1>1 DEF HandlerOK, SubmitStage
<1>3. /\ handler[v].n \in Nat /\ handler[v].read \in Nat
      /\ handler[v].pend \subseteq Request
      /\ sent \in [Request -> Nat]
  BY <1>1 DEF Handler, TypeOK
<1>4. QED
  BY <1>2, <1>3 DEF ToCommitSent

\* A step of w that changes neither number and ends at a stage that is not counting.
LEMMA QuietStep ==
  ASSUME TypeOK, CountsOK, NEW w \in Worker,
         \A v \in Worker \ {w} : handler'[v] = handler[v],
         handler'[w].pc \notin CountingStage, UNCHANGED <<files, sent>>
  PROVE  CountsOK'
<1>1. sent' \in [Request -> Nat] /\ \A r \in Request : sent[r] <= sent'[r]
  BY DEF TypeOK
<1>2. \A v \in Worker \ {w} : ToCommitSent(v)'
  BY <1>1, WaitingToCommit DEF CountsOK
<1>3. ToCommitSent(w)'
  BY DEF ToCommitSent, CountingStage
<1>4. QED
  BY <1>2, <1>3 DEF CountsOK, FilesWithinSent

\* Any other step: the numbers it changes, and its own stage.
LEMMA CountingStep ==
  ASSUME TypeOK, CountsOK, NEW w \in Worker,
         \A v \in Worker \ {w} : handler'[v] = handler[v],
         sent' \in [Request -> Nat], \A r \in Request : sent[r] <= sent'[r],
         FilesWithinSent', ToCommitSent(w)'
  PROVE  CountsOK'
BY WaitingToCommit DEF CountsOK

\* Sending never makes a committed number of files too large.
LEMMA SendKeepsFiles ==
  ASSUME TypeOK, FilesWithinSent, UNCHANGED files,
         NEW r \in Request, NEW n \in Nat, SendTasks(r, n)
  PROVE  FilesWithinSent' /\ sent' \in [Request -> Nat]
<1>1. sent' \in [Request -> Nat]
  BY DEF TypeOK, SendTasks
<1>2. QED
  BY <1>1, SendGrows DEF FilesWithinSent, TypeOK

\* The steps of a submission and of a user keep it.
LEMMA SubmitCounts ==
  ASSUME TypeOK, CountsOK, NEW w \in Worker, SubmitStep(w) \/ User(w)
  PROVE  CountsOK'
<1> USE DEF Serving
<1>1. CASE SubmitPublish(w)
  <2> DEFINE r == handler[w].req
  <2> DEFINE n == dsFiles[DatasetOf[r]]
  <2>1. r \in Request /\ n \in Nat
    BY <1>1, DatasetAssumption DEF SubmitPublish, SubmitStage, TypeOK, HandlerOK
  <2>2. /\ handler'[w] = [handler[w] EXCEPT !.pc = "publish_commit", !.n = n]
        /\ \A v \in Worker \ {w} : handler'[v] = handler[v]
    BY <1>1, BecomeOnly DEF SubmitPublish
  <2>3. SendTasks(r, n) /\ UNCHANGED files
    BY <1>1 DEF SubmitPublish, database
  <2>4. sent[r] \in Nat /\ sent'[r] = sent[r] + n
    BY <2>1, <2>3, SendGrows DEF TypeOK
  <2>5. handler'[w].pc = "publish_commit" /\ handler'[w].n = n /\ handler'[w].req = r
    BY <2>2 DEF TypeOK, Handler
  <2>6. ToCommitSent(w)'
    BY <2>1, <2>4, <2>5 DEF ToCommitSent
  <2>7. QED
    BY <2>1, <2>2, <2>3, <2>6, SendGrows, SendKeepsFiles, CountingStep DEF CountsOK
<1>2. CASE SubmitCommitPublish(w)
  <2> DEFINE r == handler[w].req
  <2>1. r \in Request /\ handler[w].n <= sent[r]
    BY <1>2 DEF SubmitCommitPublish, SubmitStage, TypeOK, HandlerOK, CountsOK, ToCommitSent
  <2>2. /\ handler'[w].pc = "start"
        /\ \A v \in Worker \ {w} : handler'[v] = handler[v]
    BY <1>2, GotoOnly DEF SubmitCommitPublish
  <2>3. sent' = sent /\ files' = [files EXCEPT ![r] = handler[w].n]
    BY <1>2 DEF SubmitCommitPublish, brokers
  <2>4. FilesWithinSent'
    BY <2>1, <2>3 DEF FilesWithinSent, CountsOK, TypeOK
  <2>5. ToCommitSent(w)'
    BY <2>2 DEF ToCommitSent
  <2>6. sent' \in [Request -> Nat] /\ \A q \in Request : sent[q] <= sent'[q]
    BY <2>3 DEF TypeOK
  <2>7. QED
    BY <2>2, <2>4, <2>5, <2>6, CountingStep
<1>3. CASE ~SubmitPublish(w) /\ ~SubmitCommitPublish(w)
  <2>1. /\ \A v \in Worker \ {w} : handler'[v] = handler[v]
        /\ handler'[w].pc \notin CountingStage
    <3>1. ASSUME NEW r \in Request, Submit(w, r)
          PROVE  /\ \A v \in Worker \ {w} : handler'[v] = handler[v]
                 /\ handler'[w].pc \in {"create", "save"}
      <4> DEFINE stage == IF dsStatus[DatasetOf[r]] = "none" THEN "create" ELSE "save"
      <4> DEFINE h == [Idle EXCEPT !.req = r, !.pc = stage]
      <4>1. Become(w, h)
        BY <3>1 DEF Submit
      <4>2. h.pc \in {"create", "save"}
        BY DEF Idle
      <4> HIDE DEF h
      <4>3. QED
        BY <4>1, <4>2, BecomeOnly
    <3>2. ASSUME NEW r \in Request, Cancel(w, r)
          PROVE  /\ \A v \in Worker \ {w} : handler'[v] = handler[v]
                 /\ handler'[w].pc \in CancelStage
      <4> DEFINE stage == IF status[r] = "running" THEN "cancel_shutdown" ELSE "cancel_commit"
      <4> DEFINE h == [Idle EXCEPT !.req = r, !.pc = stage]
      <4>1. Become(w, h)
        BY <3>2 DEF Cancel
      <4>2. h.pc \in CancelStage
        BY DEF Idle, CancelStage
      <4> HIDE DEF h
      <4>3. QED
        BY <4>1, <4>2, BecomeOnly
    <3>3. ASSUME Return(w) \/ \E stage \in {"save", "refresh", "start", "commit_lookup", "publish",
                                          "pend", "send_lookup"} : Goto(w, stage)
          PROVE  /\ \A v \in Worker \ {w} : handler'[v] = handler[v]
                 /\ handler'[w].pc \notin CountingStage
      <4>1. CASE Return(w)
        BY <4>1, ReturnOnly DEF Idle, CountingStage
      <4>2. ASSUME NEW stage \in {"save", "refresh", "start", "commit_lookup", "publish",
                                  "pend", "send_lookup"}, Goto(w, stage)
            PROVE  /\ \A v \in Worker \ {w} : handler'[v] = handler[v]
                   /\ handler'[w].pc \notin CountingStage
        BY <4>2, GotoOnly DEF CountingStage
      <4>3. QED
        BY <3>3, <4>1, <4>2
    <3>4. CASE SubmitCreate(w) \/ SubmitSave(w) \/ SubmitStart(w)
      <4>1. Goto(w, "save") \/ Goto(w, "refresh") \/ Return(w)
        BY <3>4 DEF SubmitCreate, SubmitSave, SubmitStart
      <4>2. QED
        BY <3>3, <4>1
    <3>5. CASE SubmitRefresh(w) \/ SubmitSendLookup(w) \/ SubmitCommitLookup(w) \/ SubmitPend(w)
      <4>1. \/ Goto(w, "publish") \/ Goto(w, "pend") \/ Goto(w, "send_lookup")
            \/ Goto(w, "commit_lookup") \/ Goto(w, "start")
        BY <3>5 DEF SubmitRefresh, SubmitSendLookup, SubmitCommitLookup, SubmitPend
      <4>2. QED
        BY <3>3, <4>1
    <3>6. QED
      BY <1>3, <3>1, <3>2, <3>3, <3>4, <3>5 DEF SubmitStep, User, CountingStage, CancelStage
  <2>2. UNCHANGED <<files, sent>>
    BY <1>3 DEF SubmitStep, User, Submit, SubmitCreate, SubmitSave, SubmitRefresh,
         SubmitSendLookup, SubmitCommitLookup, SubmitPend, SubmitStart, Cancel,
         database, brokers
  <2>3. QED
    BY <2>1, <2>2, QuietStep
<1>4. QED
  BY <1>1, <1>2, <1>3

\* The steps of an add-files call keep it.
LEMMA AddCounts ==
  ASSUME TypeOK, CountsOK, NEW w \in Worker, AddStep(w)
  PROVE  CountsOK'
<1> USE DEF Serving
<1>0. handler[w] \in Handler /\ handler[w].n \in Nat /\ handler[w].read \in Nat
  BY DEF TypeOK, Handler
<1>1. ASSUME NEW f \in Finder, AddFiles(w, f)
      PROVE  CountsOK'
  <2>1. PICK n \in 1..finder[f].left :
          Become(w, [Idle EXCEPT !.pc = "add_store", !.finder = f, !.n = n,
                                 !.todo = LookupRequests(finder[f].ds)])
    BY <1>1 DEF AddFiles
  <2> DEFINE h == [Idle EXCEPT !.pc = "add_store", !.finder = f, !.n = n,
                               !.todo = LookupRequests(finder[f].ds)]
  <2>2. h.pc \notin CountingStage
    BY DEF Idle, CountingStage
  <2> HIDE DEF h
  <2>3. QED
    BY <1>1, <2>1, <2>2, BecomeOnly, QuietStep DEF AddFiles, database, brokers, h
<1>2. ASSUME AddStore(w)
      PROVE  CountsOK'
  <2>1. /\ handler'[w].pc = "add_next"
        /\ \A v \in Worker \ {w} : handler'[v] = handler[v]
    BY <1>2, GotoOnly DEF AddStore
  <2>2. UNCHANGED <<files, sent>>
    BY <1>2 DEF AddStore, brokers
  <2>3. QED
    BY <2>1, <2>2, QuietStep DEF CountingStage
<1>3. ASSUME NEW r \in Request, AddRead(w, r)
      PROVE  CountsOK'
  <2> DEFINE h == [handler[w] EXCEPT !.pc = "add_send", !.req = r, !.read = files[r]]
  <2>1. h.pc = "add_send" /\ h.req = r /\ h.read = files[r]
    BY <1>0 DEF Handler
  <2> HIDE DEF h
  <2>2. handler'[w] = h /\ \A v \in Worker \ {w} : handler'[v] = handler[v]
    BY <1>3, BecomeOnly DEF AddRead, h
  <2>3. UNCHANGED <<files, sent>>
    BY <1>3 DEF AddRead, database, brokers
  <2>4. ToCommitSent(w)'
    BY <2>1, <2>2, <2>3 DEF ToCommitSent, CountsOK, FilesWithinSent
  <2>5. FilesWithinSent' /\ sent' \in [Request -> Nat] /\ \A q \in Request : sent[q] <= sent'[q]
    BY <2>3 DEF CountsOK, FilesWithinSent, TypeOK
  <2>6. QED
    BY <2>2, <2>4, <2>5, CountingStep
<1>4. ASSUME AddSend(w)
      PROVE  CountsOK'
  <2> DEFINE r == handler[w].req
  <2> DEFINE n == handler[w].n
  <2>1. r \in Request /\ handler[w].read <= sent[r]
    BY <1>4 DEF AddSend, TypeOK, HandlerOK, CountsOK, ToCommitSent
  <2>2. /\ handler'[w] = [handler[w] EXCEPT !.pc = "add_commit"]
        /\ \A v \in Worker \ {w} : handler'[v] = handler[v]
    BY <1>4, GotoOnly DEF AddSend
  <2>3. /\ handler'[w].pc = "add_commit" /\ handler'[w].req = r
        /\ handler'[w].n = n /\ handler'[w].read = handler[w].read
    BY <1>0, <2>2 DEF Handler
  <2>4. SendTasks(r, n) /\ UNCHANGED files
    BY <1>4 DEF AddSend, database
  <2>5. sent[r] \in Nat /\ sent'[r] = sent[r] + n
    BY <1>0, <2>1, <2>4, SendGrows DEF TypeOK
  <2>6. ToCommitSent(w)'
    BY <1>0, <2>1, <2>3, <2>5 DEF ToCommitSent
  <2>7. QED
    BY <1>0, <2>1, <2>2, <2>4, <2>6, SendGrows, SendKeepsFiles, CountingStep DEF CountsOK
<1>5. ASSUME AddCommit(w)
      PROVE  CountsOK'
  <2> DEFINE r == handler[w].req
  <2> DEFINE h == [handler[w] EXCEPT !.pc = "add_next", !.req = None, !.todo = @ \ {r}]
  <2>1. r \in Request /\ handler[w].read + handler[w].n <= sent[r]
    BY <1>5 DEF AddCommit, TypeOK, HandlerOK, CountsOK, ToCommitSent
  <2>2. handler'[w] = h /\ \A v \in Worker \ {w} : handler'[v] = handler[v]
    BY <1>5, BecomeOnly DEF AddCommit
  <2>3. handler'[w].pc = "add_next"
    BY <1>0, <2>2 DEF Handler
  <2>4. sent' = sent /\ files' = [files EXCEPT ![r] = handler[w].read + handler[w].n]
    BY <1>5 DEF AddCommit, brokers
  <2>5. FilesWithinSent'
    BY <2>1, <2>4 DEF FilesWithinSent, CountsOK, TypeOK
  <2>6. ToCommitSent(w)'
    BY <2>3 DEF ToCommitSent
  <2>7. sent' \in [Request -> Nat] /\ \A q \in Request : sent[q] <= sent'[q]
    BY <2>4 DEF TypeOK
  <2>8. QED
    BY <2>2, <2>5, <2>6, <2>7, CountingStep
<1>6. ASSUME AddReturn(w)
      PROVE  CountsOK'
  BY <1>6, ReturnOnly, QuietStep DEF AddReturn, CountingStage, Idle, database, brokers
<1>7. QED
  BY <1>1, <1>2, <1>3, <1>4, <1>5, <1>6 DEF AddStep

\* The steps of a fileset-complete call keep it.
LEMMA FilesetCounts ==
  ASSUME TypeOK, CountsOK, NEW w \in Worker, FilesetStep(w)
  PROVE  CountsOK'
<1> USE DEF Serving
<1>0. /\ handler[w] \in Handler /\ handler[w].n \in Nat
      /\ handler[w].pend \subseteq Request /\ handler[w].todo \subseteq Request
      /\ sent \in [Request -> Nat] /\ files \in [Request -> Nat]
  BY DEF TypeOK, Handler
<1>a. ASSUME NEW h, h.pc \notin CountingStage, Become(w, h), UNCHANGED <<files, sent>>
      PROVE  CountsOK'
  BY <1>a, BecomeOnly, QuietStep
<1>1. ASSUME NEW f \in Finder, FilesetComplete(w, f)
      PROVE  CountsOK'
  <2> DEFINE stage == IF finder[f].total > 0 THEN "fs_pending" ELSE "fs_empty"
  <2> DEFINE h == [Idle EXCEPT !.finder = f, !.pc = stage]
  <2>1. h.pc \notin CountingStage
    BY DEF Idle, CountingStage
  <2>2. Become(w, h) /\ UNCHANGED <<files, sent>>
    BY <1>1 DEF FilesetComplete, brokers
  <2> HIDE DEF h
  <2>3. QED
    BY <2>1, <2>2, <1>a
<1>2. ASSUME FilesetPending(w)
      PROVE  CountsOK'
  <2> DEFINE p == PendingRequests(CallDataset(w))
  <2> DEFINE h == [handler[w] EXCEPT !.pc = "fs_publish", !.pend = p, !.todo = p,
                                     !.n = dsFiles[CallDataset(w)]]
  <2>1. h.pc = "fs_publish" /\ h.pend = h.todo
    BY <1>0 DEF Handler
  <2>2. Become(w, h) /\ UNCHANGED <<files, sent>>
    BY <1>2 DEF FilesetPending, database, brokers
  <2> HIDE DEF h
  <2>3. handler'[w] = h /\ \A v \in Worker \ {w} : handler'[v] = handler[v]
    BY <2>2, BecomeOnly
  <2>4. ToCommitSent(w)'
    BY <2>1, <2>3 DEF ToCommitSent
  <2>5. FilesWithinSent' /\ sent' \in [Request -> Nat] /\ \A q \in Request : sent[q] <= sent'[q]
    BY <1>0, <2>2 DEF CountsOK, FilesWithinSent
  <2>6. QED
    BY <2>3, <2>4, <2>5, CountingStep
<1>3. ASSUME NEW r \in Request, FilesetPublish(w, r)
      PROVE  CountsOK'
  <2> DEFINE n == handler[w].n
  <2> DEFINE h == [handler[w] EXCEPT !.todo = @ \ {r}]
  <2>1. /\ h.pc = "fs_publish" /\ h.pend = handler[w].pend
        /\ h.todo = handler[w].todo \ {r} /\ h.n = n
    BY <1>0, <1>3 DEF Handler, FilesetPublish
  <2>2. Become(w, h) /\ SendTasks(r, n) /\ UNCHANGED files
    BY <1>3 DEF FilesetPublish, database
  <2> HIDE DEF h
  <2>3. handler'[w] = h /\ \A v \in Worker \ {w} : handler'[v] = handler[v]
    BY <2>2, BecomeOnly
  <2>4. /\ sent'[r] = sent[r] + n
        /\ \A q \in Request : sent[q] <= sent'[q]
        /\ FilesWithinSent' /\ sent' \in [Request -> Nat]
    BY <1>0, <2>2, SendGrows, SendKeepsFiles DEF CountsOK
  <2>5. \A q \in handler[w].pend \ handler[w].todo : n <= sent[q]
    BY <1>3 DEF FilesetPublish, CountsOK, ToCommitSent
  <2>6. \A q \in h.pend \ h.todo : h.n <= sent'[q]
    BY <1>0, <2>1, <2>4, <2>5
  <2>7. ToCommitSent(w)'
    BY <2>1, <2>3, <2>6 DEF ToCommitSent
  <2>8. QED
    BY <2>3, <2>4, <2>7, CountingStep
<1>4. ASSUME FilesetLookup(w)
      PROVE  CountsOK'
  <2> DEFINE h == [handler[w] EXCEPT !.pc = "fs_commit",
                                     !.look = LookupRequests(CallDataset(w))]
  <2>1. h.pc = "fs_commit" /\ h.pend = handler[w].pend /\ h.n = handler[w].n
    BY <1>0 DEF Handler
  <2>2. Become(w, h) /\ UNCHANGED <<files, sent>>
    BY <1>4 DEF FilesetLookup, database, brokers
  <2> HIDE DEF h
  <2>3. handler'[w] = h /\ \A v \in Worker \ {w} : handler'[v] = handler[v]
    BY <2>2, BecomeOnly
  <2>4. \A q \in handler[w].pend : handler[w].n <= sent[q]
    BY <1>4 DEF FilesetLookup, CountsOK, ToCommitSent
  <2>5. ToCommitSent(w)'
    BY <2>1, <2>2, <2>3, <2>4 DEF ToCommitSent
  <2>6. FilesWithinSent' /\ sent' \in [Request -> Nat] /\ \A q \in Request : sent[q] <= sent'[q]
    BY <1>0, <2>2 DEF CountsOK, FilesWithinSent
  <2>7. QED
    BY <2>3, <2>5, <2>6, CountingStep
<1>5. ASSUME FilesetCommit(w)
      PROVE  CountsOK'
  <2>1. \A q \in handler[w].pend : handler[w].n <= sent[q]
    BY <1>5 DEF FilesetCommit, CountsOK, ToCommitSent
  <2>2. /\ handler'[w] = Idle
        /\ \A v \in Worker \ {w} : handler'[v] = handler[v]
    BY <1>5, ReturnOnly DEF FilesetCommit
  <2>3. /\ sent' = sent
        /\ files' = [r \in Request |-> IF r \in handler[w].pend THEN handler[w].n ELSE files[r]]
    BY <1>5 DEF FilesetCommit, brokers
  <2>4. FilesWithinSent'
    BY <2>1, <2>3 DEF FilesWithinSent, CountsOK
  <2>5. ToCommitSent(w)'
    BY <2>2 DEF ToCommitSent, Idle
  <2>6. sent' \in [Request -> Nat] /\ \A q \in Request : sent[q] <= sent'[q]
    BY <1>0, <2>3
  <2>7. QED
    BY <2>2, <2>4, <2>5, <2>6, CountingStep
<1>6. ASSUME FilesetEmpty(w)
      PROVE  CountsOK'
  <2> DEFINE l == LookupRequests(CallDataset(w))
  <2> DEFINE h == [handler[w] EXCEPT !.pc = "fs_shutdown", !.look = l, !.todo = l]
  <2>1. h.pc \notin CountingStage
    BY <1>0 DEF Handler, CountingStage
  <2>2. Become(w, h) /\ UNCHANGED <<files, sent>>
    BY <1>6 DEF FilesetEmpty, database, brokers
  <2> HIDE DEF h
  <2>3. QED
    BY <2>1, <2>2, <1>a
<1>7. ASSUME NEW r \in Request, FilesetShutdown(w, r)
      PROVE  CountsOK'
  <2> DEFINE h == [handler[w] EXCEPT !.todo = @ \ {r}]
  <2>1. h.pc \notin CountingStage
    BY <1>0, <1>7 DEF Handler, FilesetShutdown, CountingStage
  <2>2. Become(w, h) /\ UNCHANGED <<files, sent>>
    BY <1>7 DEF FilesetShutdown, ShutdownTransformers, database
  <2> HIDE DEF h
  <2>3. QED
    BY <2>1, <2>2, <1>a
<1>8. ASSUME FilesetEmptyPending(w)
      PROVE  CountsOK'
  <2> DEFINE h == [handler[w] EXCEPT !.pc = "fs_empty_commit",
                                     !.pend = PendingRequests(CallDataset(w))]
  <2>1. h.pc \notin CountingStage
    BY <1>0 DEF Handler, CountingStage
  <2>2. Become(w, h) /\ UNCHANGED <<files, sent>>
    BY <1>8 DEF FilesetEmptyPending, database, brokers
  <2> HIDE DEF h
  <2>3. QED
    BY <2>1, <2>2, <1>a
<1>9. ASSUME FilesetEmptyCommit(w)
      PROVE  CountsOK'
  BY <1>9, ReturnOnly, QuietStep DEF FilesetEmptyCommit, CountingStage, Idle, brokers
<1>10. QED
  BY <1>1, <1>2, <1>3, <1>4, <1>5, <1>6, <1>7, <1>8, <1>9 DEF FilesetStep

\* Reports and cancellations do not touch the numbers of files.
LEMMA FileAndCancelCounts ==
  ASSUME TypeOK, CountsOK, NEW w \in Worker, FileStep(w) \/ CancelStep(w)
  PROVE  CountsOK'
<1> USE DEF Serving
<1>1. ASSUME NEW r \in Request, FileRecord(w, r)
      PROVE  CountsOK'
  <2> DEFINE h == [Idle EXCEPT !.pc = "check", !.req = r]
  <2>1. h.pc \notin CountingStage
    BY DEF Idle, CountingStage
  <2>2. Become(w, h) /\ UNCHANGED <<files, sent>>
    BY <1>1 DEF FileRecord
  <2> HIDE DEF h
  <2>3. QED
    BY <2>1, <2>2, BecomeOnly, QuietStep
<1>2. CASE FileCheck(w)
  <2>1. Return(w) \/ Goto(w, "shutdown") \/ Goto(w, "complete")
    BY <1>2 DEF FileCheck
  <2>2. /\ handler'[w].pc \in {"idle", "shutdown", "complete"}
        /\ \A v \in Worker \ {w} : handler'[v] = handler[v]
    <3>1. CASE Return(w)
      BY <3>1, ReturnOnly DEF Idle
    <3>2. CASE Goto(w, "shutdown")
      BY <3>2, GotoOnly
    <3>3. CASE Goto(w, "complete")
      BY <3>3, GotoOnly
    <3>4. QED
      BY <2>1, <3>1, <3>2, <3>3
  <2>3. UNCHANGED <<files, sent>>
    BY <1>2 DEF FileCheck, database, brokers
  <2>4. QED
    BY <2>2, <2>3, QuietStep DEF CountingStage
<1>3. CASE FileComplete(w)
  <2>1. /\ handler'[w].pc = "shutdown"
        /\ \A v \in Worker \ {w} : handler'[v] = handler[v]
    BY <1>3, GotoOnly DEF FileComplete
  <2>2. UNCHANGED <<files, sent>>
    BY <1>3 DEF FileComplete, brokers
  <2>3. QED
    BY <2>1, <2>2, QuietStep DEF CountingStage
<1>4. CASE FileShutdown(w)
  BY <1>4, ReturnOnly, QuietStep DEF FileShutdown, ShutdownTransformers, CountingStage, Idle,
                                     database
<1>5. CASE CancelShutdown(w)
  <2>1. /\ handler'[w].pc = "cancel_commit"
        /\ \A v \in Worker \ {w} : handler'[v] = handler[v]
    BY <1>5, GotoOnly DEF CancelShutdown
  <2>2. UNCHANGED <<files, sent>>
    BY <1>5 DEF CancelShutdown, ShutdownTransformers, database
  <2>3. QED
    BY <2>1, <2>2, QuietStep DEF CountingStage
<1>6. CASE CancelCommit(w)
  BY <1>6, ReturnOnly, QuietStep DEF CancelCommit, CountingStage, Idle, brokers
<1>7. QED
  BY <1>1, <1>2, <1>3, <1>4, <1>5, <1>6 DEF FileStep, CancelStep

\* The number of files of a request never exceeds the tasks sent for it, although
\* four handlers write it, two of them from a value they read before others wrote.
THEOREM FilesWithinSentHolds == Spec => []FilesWithinSent
<1>1. Init => CountsOK
  BY DEF Init, CountsOK, FilesWithinSent, ToCommitSent, Idle
<1>2. TypeOK /\ CountsOK /\ [Next]_vars => CountsOK'
  <2> SUFFICES ASSUME TypeOK, CountsOK, [Next]_vars
               PROVE  CountsOK'
    OBVIOUS
  <2>1. ASSUME NEW w \in Worker, WorkerStep(w) \/ User(w)
        PROVE  CountsOK'
    BY <2>1, SubmitCounts, AddCounts, FilesetCounts, FileAndCancelCounts DEF WorkerStep
  <2>2. ASSUME UNCHANGED <<handler, files, sent>>
        PROVE  CountsOK'
    BY <2>2 DEF CountsOK, FilesWithinSent, ToCommitSent
  <2>3. CASE Environment
    BY <2>2, <2>3 DEF Environment, Lookup, Transform, database
  <2>4. ASSUME NEW w \in Worker, Abort(w)
        PROVE  CountsOK'
    BY <2>4, ReturnOnly, QuietStep DEF Abort, CountingStage, Idle, database
  <2>5. ASSUME NEW f \in Finder, LookupDies(f)
        PROVE  CountsOK'
    BY <2>2, <2>5 DEF LookupDies, database, brokers
  <2>6. CASE UNCHANGED vars
    BY <2>2, <2>6 DEF vars, database, brokers
  <2>7. ASSUME NEW w \in Worker, RetryComplete(w)
        PROVE  CountsOK'
    <3>1. Goto(w, "complete") /\ UNCHANGED <<files, sent>>
      BY <2>7 DEF RetryComplete, database, brokers
    <3>2. /\ handler'[w].pc = "complete"
          /\ \A v \in Worker \ {w} : handler'[v] = handler[v]
      BY <3>1, GotoOnly
    <3>3. QED
      BY <3>1, <3>2, QuietStep DEF CountingStage
  <2>8. ASSUME NEW r \in Request, LoseReport(r) \/ TransformerDies(r)
        PROVE  CountsOK'
    BY <2>2, <2>8 DEF LoseReport, TransformerDies, database
  <2>9. QED
    BY <2>1, <2>3, <2>4, <2>5, <2>6, <2>7, <2>8 DEF Next, Faults
<1>3. CountsOK => FilesWithinSent
  BY DEF CountsOK
<1>4. QED
  BY <1>1, <1>2, <1>3, TypeCorrect, PTL DEF Spec
=============================================================================
