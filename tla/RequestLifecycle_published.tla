---------------------- MODULE RequestLifecycle_published ----------------------
(***************************************************************************)
(* Proofs about requests published by their own submission, and that a     *)
(* request which runs never waits again.                                   *)
(*                                                                         *)
(* The argument is one invariant of each request by itself: until its      *)
(* submission has committed a decision, nobody but a user who cancels it   *)
(* has anything to do with it, and once the decision was to publish, no    *)
(* handler of a DID finder ever takes it for one that waits.               *)
(***************************************************************************)
EXTENDS RequestLifecycle_safety

\* The stages of a submission that has not committed its decision.
BeforeCommit == SubmitStage \ {"start"}

\* The stages of a submission whose request is saved and has no task yet.
Asking == {"refresh", "send_lookup", "commit_lookup", "publish", "pend"}

\* The requests a handler selected by their status.
Chosen(h) == h.todo \cup h.pend \cup h.look

\* No transformer works for r, and no handler of a finder knows of it.
Untouched(r) ==
  /\ r \notin deployment
  /\ reports[r] = 0
  /\ \A v \in Worker : r \notin Chosen(handler[v])

\* While r is being submitted only users who cancel it deal with it, and it was sent no
\* task but those its own submission is about to commit.
SubmittingOK(r) ==
  \A w \in Worker :
    handler[w].pc \in BeforeCommit /\ handler[w].req = r =>
      /\ Untouched(r)
      /\ \A v \in Worker \ {w} : handler[v].req = r => handler[v].pc \in CancelStage
      /\ status[r] \in IF handler[w].pc \in {"create", "save"} THEN {"none"}
                                                              ELSE {"submitted", "canceled"}
      /\ sent[r] = IF handler[w].pc = "publish_commit" THEN handler[w].n ELSE 0

\* Before its row is inserted nobody but its submission knows of r.
UnsubmittedOK(r) ==
  status[r] = "none" =>
    /\ Untouched(r)
    /\ sent[r] = 0
    /\ \A v \in Worker : handler[v].req = r => handler[v].pc \in {"create", "save"}

\* Once r is published its number of files is exact, no finder's handler has it for one
\* that waits, and who is about to end it has seen as many files counted.
PublishedOK(r) ==
  r \in published =>
    /\ status[r] \in {"running", "complete", "canceled"}
    /\ files[r] = sent[r]
    /\ status[r] = "complete" => files[r] > 0 /\ done[r] >= files[r]
    /\ \A v \in Worker :
         /\ r \notin Chosen(handler[v])
         /\ handler[v].req = r =>
              /\ handler[v].pc \in {"start"} \cup FileStage \cup CancelStage
              /\ handler[v].pc \in {"complete", "shutdown"}
                   => files[r] > 0 /\ done[r] >= files[r]

RequestOK(r) == SubmittingOK(r) /\ UnsubmittedOK(r) /\ PublishedOK(r)

RequestsOK == \A r \in Request : RequestOK(r)
-----------------------------------------------------------------------------
(***************************************************************************)
(* Two ways to keep the invariant of a request: the step leaves the        *)
(* request and what the worker has to do with it as they are, or the       *)
(* request is submitted, not published, and past its submission.           *)
(***************************************************************************)
Continues(h, h2, r) ==
  /\ r \in Chosen(h2) => r \in Chosen(h)
  /\ h2.req = r =>
       /\ h.req = r
       /\ \/ h2.pc = h.pc /\ h2.n = h.n
          \/ h.pc \in {"create", "save"} /\ h2.pc \in {"create", "save"}
          \/ h.pc \in Asking /\ h2.pc \in Asking
          \/ h.pc \in CancelStage /\ h2.pc \in CancelStage

\* A step that leaves r as it is, and takes no new part in it.
LEMMA Frame ==
  ASSUME NEW r \in Request, RequestOK(r), NEW w \in Worker,
         \A v \in Worker \ {w} : handler'[v] = handler[v],
         Continues(handler[w], handler'[w], r),
         status'[r] = status[r], files'[r] = files[r], done'[r] = done[r],
         sent'[r] = sent[r], reports'[r] = reports[r],
         r \in deployment' => r \in deployment,
         r \in published' <=> r \in published
  PROVE  RequestOK(r)'
<1>1. \A v \in Worker : Continues(handler[v], handler'[v], r)
  BY DEF Continues
<1>2. Untouched(r) => Untouched(r)'
  BY <1>1 DEF Untouched, Continues
<1>3. SubmittingOK(r)'
  <2> SUFFICES ASSUME NEW u \in Worker, handler'[u].pc \in BeforeCommit, handler'[u].req = r
               PROVE  /\ Untouched(r)'
                      /\ \A v \in Worker \ {u} : handler'[v].req = r => handler'[v].pc \in CancelStage
                      /\ status'[r] \in IF handler'[u].pc \in {"create", "save"} THEN {"none"}
                                                              ELSE {"submitted", "canceled"}
                      /\ sent'[r] = IF handler'[u].pc = "publish_commit" THEN handler'[u].n ELSE 0
    BY DEF SubmittingOK
  <2>1. handler[u].req = r
    BY <1>1 DEF Continues
  <2>2. \/ handler'[u].pc = handler[u].pc /\ handler'[u].n = handler[u].n
        \/ handler[u].pc \in {"create", "save"} /\ handler'[u].pc \in {"create", "save"}
        \/ handler[u].pc \in Asking /\ handler'[u].pc \in Asking
    BY <1>1 DEF Continues, BeforeCommit, SubmitStage, CancelStage
  <2>3. handler[u].pc \in BeforeCommit
    BY <2>2 DEF BeforeCommit, SubmitStage, Asking
  <2>4. /\ Untouched(r)
        /\ \A v \in Worker \ {u} : handler[v].req = r => handler[v].pc \in CancelStage
        /\ status[r] \in IF handler[u].pc \in {"create", "save"} THEN {"none"}
                                                       ELSE {"submitted", "canceled"}
        /\ sent[r] = IF handler[u].pc = "publish_commit" THEN handler[u].n ELSE 0
    BY <2>1, <2>3 DEF RequestOK, SubmittingOK
  <2>5. \A v \in Worker \ {u} : handler'[v].req = r => handler'[v].pc \in CancelStage
    BY <1>1, <2>4 DEF Continues, CancelStage, Asking
  <2>6. QED
    BY <1>2, <2>2, <2>4, <2>5 DEF Asking
<1>4. UnsubmittedOK(r)'
  <2> SUFFICES ASSUME status'[r] = "none"
               PROVE  /\ Untouched(r)'
                      /\ sent'[r] = 0
                      /\ \A v \in Worker : handler'[v].req = r => handler'[v].pc \in {"create", "save"}
    BY DEF UnsubmittedOK
  <2>1. /\ Untouched(r) /\ sent[r] = 0
        /\ \A v \in Worker : handler[v].req = r => handler[v].pc \in {"create", "save"}
    BY DEF RequestOK, UnsubmittedOK
  <2>2. QED
    BY <1>1, <1>2, <2>1 DEF Continues, Asking, CancelStage
<1>5. PublishedOK(r)'
  <2> SUFFICES ASSUME r \in published'
               PROVE  /\ status'[r] \in {"running", "complete", "canceled"}
                      /\ files'[r] = sent'[r]
                      /\ status'[r] = "complete" => files'[r] > 0 /\ done'[r] >= files'[r]
                      /\ \A v \in Worker :
                           /\ r \notin Chosen(handler'[v])
                           /\ handler'[v].req = r =>
                                /\ handler'[v].pc \in {"start"} \cup FileStage \cup CancelStage
                                /\ handler'[v].pc \in {"complete", "shutdown"}
                                     => files'[r] > 0 /\ done'[r] >= files'[r]
    BY DEF PublishedOK, Chosen
  <2>1. PublishedOK(r) /\ r \in published
    BY DEF RequestOK
  <2>2. \A v \in Worker : handler'[v].req = r =>
          \/ handler'[v].pc = handler[v].pc /\ handler[v].req = r
          \/ handler'[v].pc \in CancelStage
    BY <1>1, <2>1 DEF Continues, PublishedOK, FileStage, CancelStage, Asking
  <2>3. QED
    BY <1>1, <2>1, <2>2 DEF Continues, PublishedOK, CancelStage
<1>6. QED
  BY <1>3, <1>4, <1>5 DEF RequestOK

\* Nothing is claimed of a request that is submitted and not published.
LEMMA Loose ==
  ASSUME NEW r \in Request, status'[r] # "none", r \notin published',
         \A v \in Worker : handler'[v].pc \in BeforeCommit => handler'[v].req # r
  PROVE  RequestOK(r)'
BY DEF RequestOK, SubmittingOK, UnsubmittedOK, PublishedOK

\* What can be said of a request that waits, and of one that its submission or a
\* transformer is done with.
LEMMA WaitingIsLoose ==
  ASSUME NEW r \in Request, RequestOK(r), status[r] \in {"lookup", "pending_lookup"}
  PROVE  /\ status[r] # "none" /\ r \notin published
         /\ \A v \in Worker : handler[v].pc \in BeforeCommit => handler[v].req # r
BY DEF RequestOK, SubmittingOK, UnsubmittedOK, PublishedOK

\* A handler past the decision, or of a report, has a request that is submitted.
LEMMA LateIsLoose ==
  ASSUME NEW r \in Request, RequestOK(r), NEW w \in Worker,
         handler[w].req = r, handler[w].pc \in {"start"} \cup FileStage
  PROVE  /\ status[r] # "none"
         /\ \A v \in Worker : handler[v].pc \in BeforeCommit => handler[v].req # r
BY DEF RequestOK, SubmittingOK, UnsubmittedOK, BeforeCommit, SubmitStage, FileStage,
       CancelStage

\* A handler that returns takes no part in any request.
LEMMA IdleContinues ==
  ASSUME NEW h, NEW r \in Request
  PROVE  Continues(h, Idle, r)
BY NoneAssumption DEF Continues, Idle, Chosen

\* A step of w that leaves every request as it is, but for transformers taken down.
LEMMA FrameAll ==
  ASSUME RequestsOK, NEW w \in Worker,
         \A v \in Worker \ {w} : handler'[v] = handler[v],
         \A r \in Request : Continues(handler[w], handler'[w], r),
         UNCHANGED <<status, files, done, sent, reports, published>>,
         deployment' \subseteq deployment
  PROVE  RequestsOK'
BY Frame DEF RequestsOK

\* The same, but for one request, of which it has to be shown.
LEMMA FrameButOne ==
  ASSUME TypeOK, RequestsOK, NEW w \in Worker, NEW q \in Request,
         \A v \in Worker \ {w} : handler'[v] = handler[v],
         \A r \in Request \ {q} :
           /\ Continues(handler[w], handler'[w], r)
           /\ status'[r] = status[r] /\ files'[r] = files[r] /\ done'[r] = done[r]
           /\ sent'[r] = sent[r] /\ reports'[r] = reports[r]
           /\ r \in deployment' => r \in deployment
           /\ r \in published' <=> r \in published,
         RequestOK(q)'
  PROVE  RequestsOK'
<1>1. \A r \in Request \ {q} : RequestOK(r)'
  BY Frame DEF RequestsOK
<1>2. QED
  BY <1>1 DEF RequestsOK

\* What a step to another stage leaves of a handler.
LEMMA GotoFields ==
  ASSUME TypeOK, NEW w \in Worker, NEW stage, Goto(w, stage)
  PROVE  /\ handler'[w].pc = stage
         /\ handler'[w].req = handler[w].req
         /\ handler'[w].n = handler[w].n
         /\ Chosen(handler'[w]) = Chosen(handler[w])
         /\ \A v \in Worker \ {w} : handler'[v] = handler[v]
<1>1. /\ handler'[w] = [handler[w] EXCEPT !.pc = stage]
      /\ \A v \in Worker \ {w} : handler'[v] = handler[v]
  BY GotoOnly
<1>2. handler[w] \in Handler
  BY DEF TypeOK
<1> HIDE DEF TypeOK, Goto
<1>3. /\ handler'[w].pc = stage
      /\ handler'[w].req = handler[w].req
      /\ handler'[w].n = handler[w].n
      /\ handler'[w].todo = handler[w].todo
      /\ handler'[w].pend = handler[w].pend
      /\ handler'[w].look = handler[w].look
  BY <1>1, <1>2 DEF Handler
<1>4. QED
  BY <1>1, <1>3 DEF Chosen

\* A handler that goes on within its part of a request.
LEMMA GotoContinues ==
  ASSUME TypeOK, NEW w \in Worker, NEW stage, Goto(w, stage), NEW r \in Request,
         \/ handler[w].req # r
         \/ handler[w].pc \in {"create", "save"} /\ stage \in {"create", "save"}
         \/ handler[w].pc \in Asking /\ stage \in Asking
         \/ handler[w].pc \in CancelStage /\ stage \in CancelStage
  PROVE  Continues(handler[w], handler'[w], r)
<1>1. /\ handler'[w].pc = stage
      /\ handler'[w].req = handler[w].req
      /\ Chosen(handler'[w]) = Chosen(handler[w])
  BY GotoFields
<1>2. QED
  BY <1>1 DEF Continues
-----------------------------------------------------------------------------
\* The steps of a submission.
LEMMA SubmitKeeps ==
  ASSUME TypeOK, RequestsOK, NEW w \in Worker,
         SubmitStep(w) \/ \E r \in Request : Submit(w, r)
  PROVE  RequestsOK'
<1> USE DEF Serving
<1>q. PICK q : q = handler[w].req
  OBVIOUS
<1> USE <1>q
<1>0. handler[w].pc \in SubmitStage => q \in Request
  BY DEF TypeOK, HandlerOK
<1>a. ASSUME handler[w].pc \in BeforeCommit
      PROVE  /\ q \in Request /\ q \notin published
             /\ Untouched(q)
             /\ \A v \in Worker \ {w} : handler[v].req = q => handler[v].pc \in CancelStage
             /\ status[q] \in IF handler[w].pc \in {"create", "save"} THEN {"none"}
                                                              ELSE {"submitted", "canceled"}
             /\ sent[q] = IF handler[w].pc = "publish_commit" THEN handler[w].n ELSE 0
  BY <1>0, <1>a DEF RequestsOK, RequestOK, SubmittingOK, PublishedOK, BeforeCommit,
                    SubmitStage, FileStage, CancelStage
<1>b. \A v \in Worker : handler[v].pc \in CancelStage => handler[v].pc \notin BeforeCommit
  BY DEF CancelStage, BeforeCommit, SubmitStage
<1>1. ASSUME NEW r \in Request, Submit(w, r)
      PROVE  RequestsOK'
  <2> DEFINE stage == IF dsStatus[DatasetOf[r]] = "none" THEN "create" ELSE "save"
  <2> DEFINE h == [Idle EXCEPT !.req = r, !.pc = stage]
  <2>1. Become(w, h)
    BY <1>1 DEF Submit
  <2>2. h.req = r /\ h.pc \in {"create", "save"} /\ Chosen(h) = {}
    BY DEF Idle, Chosen
  <2> HIDE DEF h
  <2>3. handler'[w] = h /\ \A v \in Worker \ {w} : handler'[v] = handler[v]
    BY <2>1, BecomeOnly
  <2>4. UNCHANGED <<status, files, done, sent, reports, published, deployment>>
    BY <1>1 DEF Submit, database, cluster, brokers
  <2>5. \A x \in Request \ {r} : Continues(handler[w], handler'[w], x)
    BY <2>2, <2>3 DEF Continues
  <2>6. status[r] = "none" /\ \A v \in Worker : handler[v].req # r
    BY <1>1 DEF Submit
  <2>7. Untouched(r) /\ sent[r] = 0 /\ r \notin published
    BY <2>6 DEF RequestsOK, RequestOK, UnsubmittedOK, PublishedOK
  <2>8. Untouched(r)'
    BY <2>2, <2>3, <2>4, <2>7 DEF Untouched
  <2>9. RequestOK(r)'
    BY <2>2, <2>3, <2>4, <2>6, <2>7, <2>8 DEF RequestOK, SubmittingOK, UnsubmittedOK, PublishedOK
  <2>10. QED
    BY <2>3, <2>4, <2>5, <2>9, FrameButOne
<1>2. CASE SubmitCreate(w)
  <2>1. Goto(w, "save") \/ Return(w)
    BY <1>2 DEF SubmitCreate
  <2>2. UNCHANGED <<status, files, done, sent, reports, published, deployment>>
    BY <1>2 DEF SubmitCreate, cluster, brokers
  <2>3. CASE Goto(w, "save")
    <3>1. \A r \in Request : Continues(handler[w], handler'[w], r)
      BY <1>2, <2>3, GotoContinues DEF SubmitCreate
    <3>2. QED
      BY <2>2, <2>3, <3>1, GotoOnly, FrameAll
  <2>4. CASE Return(w)
    BY <2>2, <2>4, ReturnOnly, IdleContinues, FrameAll
  <2>5. QED
    BY <2>1, <2>3, <2>4
<1>3. CASE SubmitSave(w)
  <2>1. UNCHANGED <<files, done, sent, reports, published, deployment>>
    BY <1>3 DEF SubmitSave, brokers
  <2>2. CASE Return(w) /\ UNCHANGED status
    BY <2>1, <2>2, ReturnOnly, IdleContinues, FrameAll
  <2>3. CASE status' = [status EXCEPT ![q] = "submitted"] /\ Goto(w, "refresh")
    <3>1. handler[w].pc = "save" /\ handler[w].pc \in BeforeCommit
      BY <1>3 DEF SubmitSave, BeforeCommit, SubmitStage
    <3>2. /\ handler'[w].pc = "refresh" /\ handler'[w].req = q
          /\ Chosen(handler'[w]) = Chosen(handler[w])
          /\ \A v \in Worker \ {w} : handler'[v] = handler[v]
      BY <2>3, GotoFields
    <3>3. Untouched(q)'
      BY <1>a, <2>1, <3>1, <3>2 DEF Untouched
    <3>4. status'[q] = "submitted" /\ sent'[q] = 0
      BY <1>a, <2>1, <2>3, <3>1 DEF TypeOK
    <3>5. RequestOK(q)'
      BY <1>a, <1>b, <2>1, <3>1, <3>2, <3>3, <3>4
         DEF RequestOK, SubmittingOK, UnsubmittedOK, PublishedOK
    <3>6. \A r \in Request \ {q} : Continues(handler[w], handler'[w], r) /\ status'[r] = status[r]
      BY <2>3, GotoContinues DEF TypeOK
    <3>7. QED
      BY <1>a, <2>1, <3>1, <3>2, <3>5, <3>6, FrameButOne
  <2>4. QED
    BY <1>3, <2>2, <2>3 DEF SubmitSave
<1>4. CASE SubmitRefresh(w) \/ SubmitSendLookup(w)
  <2>1. /\ handler[w].pc \in Asking
        /\ \E stage \in Asking : Goto(w, stage)
    BY <1>4 DEF SubmitRefresh, SubmitSendLookup, Asking
  <2>2. UNCHANGED <<status, files, done, sent, reports, published, deployment>>
    BY <1>4 DEF SubmitRefresh, SubmitSendLookup, database, cluster, brokers
  <2>3. \A r \in Request : Continues(handler[w], handler'[w], r)
    BY <2>1, GotoContinues
  <2>4. \A v \in Worker \ {w} : handler'[v] = handler[v]
    BY <2>1, GotoOnly
  <2>5. QED
    BY <2>2, <2>3, <2>4, FrameAll
<1>5. CASE SubmitCommitLookup(w) \/ SubmitPend(w)
  <2>1. handler[w].pc \in BeforeCommit /\ Goto(w, "start")
    BY <1>5 DEF SubmitCommitLookup, SubmitPend, BeforeCommit, SubmitStage
  <2>2. /\ UNCHANGED <<files, done, sent, reports, published, deployment>>
        /\ \E s \in {"lookup", "pending_lookup"} : status' = [status EXCEPT ![q] = s]
    BY <1>5 DEF SubmitCommitLookup, SubmitPend, cluster, brokers
  <2>3. /\ handler'[w].pc = "start"
        /\ \A v \in Worker \ {w} : handler'[v] = handler[v]
    BY <2>1, GotoOnly
  <2>4. \A v \in Worker : handler'[v].pc \in BeforeCommit => handler'[v].req # q
    BY <1>a, <1>b, <2>1, <2>3 DEF BeforeCommit
  <2>5. status'[q] # "none"
    BY <1>a, <2>1, <2>2 DEF TypeOK
  <2>6. RequestOK(q)'
    BY <1>a, <2>1, <2>2, <2>4, <2>5, Loose
  <2>7. \A r \in Request \ {q} : Continues(handler[w], handler'[w], r) /\ status'[r] = status[r]
    BY <2>1, <2>2, GotoContinues DEF TypeOK
  <2>8. QED
    BY <1>a, <2>1, <2>2, <2>3, <2>6, <2>7, FrameButOne
<1>6. CASE SubmitPublish(w)
  <2> DEFINE n == dsFiles[DatasetOf[q]]
  <2> DEFINE h == [handler[w] EXCEPT !.pc = "publish_commit", !.n = n]
  <2>1. handler[w].pc = "publish" /\ handler[w].pc \in BeforeCommit
    BY <1>6 DEF SubmitPublish, BeforeCommit, SubmitStage
  <2>2. q \in Request /\ n \in Nat
    BY <1>a, <2>1, DatasetAssumption DEF TypeOK
  <2>3. Become(w, h) /\ SendTasks(q, n)
    BY <1>6 DEF SubmitPublish
  <2>4. h.pc = "publish_commit" /\ h.n = n /\ h.req = q /\ Chosen(h) = Chosen(handler[w])
    BY DEF TypeOK, Handler, Chosen
  <2> HIDE DEF h
  <2>5. handler'[w] = h /\ \A v \in Worker \ {w} : handler'[v] = handler[v]
    BY <2>3, BecomeOnly
  <2>6. UNCHANGED <<status, files, done, reports, published, deployment>>
    BY <1>6, <2>3 DEF SubmitPublish, SendTasks, database, cluster
  <2>7. sent'[q] = n /\ \A r \in Request \ {q} : sent'[r] = sent[r]
    BY <1>a, <2>1, <2>2, <2>3, SendGrows
  <2>8. Untouched(q)'
    BY <1>a, <2>1, <2>4, <2>5, <2>6 DEF Untouched
  <2>a. /\ \A v \in Worker \ {w} : handler'[v].req = q => handler'[v].pc \in CancelStage
        /\ status'[q] \in {"submitted", "canceled"} /\ q \notin published'
    BY <1>a, <2>1, <2>5, <2>6
  <2>b. /\ handler'[w].pc = "publish_commit" /\ handler'[w].req = q
        /\ sent'[q] = handler'[w].n
    BY <2>4, <2>5, <2>7
  <2>c. \A v \in Worker \ {w} : handler'[v].req = q => handler'[v].pc \notin BeforeCommit
    BY <2>a DEF CancelStage, BeforeCommit, SubmitStage
  <2>d. SubmittingOK(q)'
    BY <2>8, <2>a, <2>b, <2>c DEF SubmittingOK
  <2>9. RequestOK(q)'
    BY <2>a, <2>d DEF RequestOK, UnsubmittedOK, PublishedOK
  <2>10. \A r \in Request \ {q} :
           /\ Continues(handler[w], handler'[w], r)
           /\ status'[r] = status[r] /\ files'[r] = files[r] /\ done'[r] = done[r]
           /\ sent'[r] = sent[r] /\ reports'[r] = reports[r]
           /\ r \in deployment' => r \in deployment
           /\ r \in published' <=> r \in published
    BY <2>4, <2>5, <2>6, <2>7 DEF Continues
  <2> HIDE DEF n
  <2>11. QED
    BY <2>2, <2>5, <2>9, <2>10, FrameButOne
<1>7. CASE SubmitCommitPublish(w)
  <2>1. /\ handler[w].pc = "publish_commit" /\ handler[w].pc \in BeforeCommit
        /\ Goto(w, "start")
    BY <1>7 DEF SubmitCommitPublish, BeforeCommit, SubmitStage
  <2>2. /\ UNCHANGED <<done, sent, reports, deployment>>
        /\ files' = [files EXCEPT ![q] = handler[w].n]
        /\ status' = [status EXCEPT ![q] = "running"]
        /\ published' = published \cup {q}
    BY <1>7 DEF SubmitCommitPublish, cluster, brokers
  <2>3. /\ handler'[w].pc = "start" /\ handler'[w].req = q
        /\ Chosen(handler'[w]) = Chosen(handler[w])
        /\ \A v \in Worker \ {w} : handler'[v] = handler[v]
    BY <2>1, GotoFields
  <2>4. status'[q] = "running" /\ files'[q] = handler[w].n /\ sent'[q] = handler[w].n
    BY <1>a, <2>1, <2>2 DEF TypeOK
  <2>5. \A v \in Worker : /\ q \notin Chosen(handler'[v])
                          /\ handler'[v].req = q => handler'[v].pc \in {"start"} \cup CancelStage
    BY <1>a, <2>1, <2>3 DEF Untouched
  <2>6. RequestOK(q)'
    <3>1. \A v \in Worker : handler'[v].req = q => handler'[v].pc \notin BeforeCommit
      BY <2>5 DEF BeforeCommit, SubmitStage, CancelStage
    <3>2. PublishedOK(q)'
      BY <2>4, <2>5 DEF PublishedOK, FileStage, CancelStage
    <3>3. QED
      BY <2>4, <3>1, <3>2 DEF RequestOK, SubmittingOK, UnsubmittedOK
  <2>7. \A r \in Request \ {q} : Continues(handler[w], handler'[w], r)
    BY <2>1, GotoContinues
  <2>8. \A r \in Request \ {q} :
          /\ status'[r] = status[r] /\ files'[r] = files[r] /\ done'[r] = done[r]
          /\ sent'[r] = sent[r] /\ reports'[r] = reports[r]
          /\ r \in deployment' => r \in deployment
          /\ r \in published' <=> r \in published
    BY <2>2 DEF TypeOK
  <2>9. q \in Request
    BY <1>a, <2>1
  <2>10. QED
    BY <2>3, <2>6, <2>7, <2>8, <2>9, FrameButOne
<1>8. CASE SubmitStart(w)
  <2>1. handler[w].pc = "start" /\ Return(w) /\ q \in Request
    BY <1>0, <1>8 DEF SubmitStart, SubmitStage
  <2>2. /\ UNCHANGED <<status, files, done, sent, reports, published>>
        /\ deployment' = deployment \cup {q}
    BY <1>8 DEF SubmitStart, database, brokers
  <2>3. /\ handler'[w] = Idle
        /\ \A v \in Worker \ {w} : handler'[v] = handler[v]
    BY <2>1, ReturnOnly
  <2>4. /\ status[q] # "none"
        /\ \A v \in Worker : handler[v].pc \in BeforeCommit => handler[v].req # q
    BY <2>1, LateIsLoose DEF RequestsOK
  <2>5. \A v \in Worker : handler'[v].pc \in BeforeCommit => handler'[v].req # q
    BY <2>3, <2>4 DEF Idle, BeforeCommit, SubmitStage
  <2>6. PublishedOK(q)'
    <3>1. q \notin Chosen(Idle) /\ Idle.req # q
      BY <2>1, NoneAssumption DEF Idle, Chosen
    <3>2. PublishedOK(q)
      BY <2>1 DEF RequestsOK, RequestOK
    <3>3. QED
      BY <2>2, <2>3, <3>1, <3>2 DEF PublishedOK
  <2>7. RequestOK(q)'
    BY <2>2, <2>4, <2>5, <2>6 DEF RequestOK, SubmittingOK, UnsubmittedOK
  <2>8. \A r \in Request \ {q} :
          /\ Continues(handler[w], handler'[w], r)
          /\ status'[r] = status[r] /\ files'[r] = files[r] /\ done'[r] = done[r]
          /\ sent'[r] = sent[r] /\ reports'[r] = reports[r]
          /\ r \in deployment' => r \in deployment
          /\ r \in published' <=> r \in published
    BY <2>2, <2>3, IdleContinues
  <2>9. QED
    BY <2>1, <2>3, <2>7, <2>8, FrameButOne
<1>9. QED
  BY <1>1, <1>2, <1>3, <1>4, <1>5, <1>6, <1>7, <1>8 DEF SubmitStep
-----------------------------------------------------------------------------
(***************************************************************************)
(* The calls of a DID finder.  They touch only the requests they chose,    *)
(* and choose only requests that wait.                                     *)
(***************************************************************************)
Waiting == {r \in Request : status[r] \in {"lookup", "pending_lookup"}}

\* The requests that a handler of a finder's call may touch.
Mine(h) == {r \in Request : r \in Chosen(h) \/ (h.req = r /\ InCall(h))}

\* They are submitted and not published, whatever they became since they were chosen.
LEMMA MineIsLoose ==
  ASSUME NEW r \in Request, RequestOK(r), NEW w \in Worker, r \in Mine(handler[w])
  PROVE  /\ status[r] # "none" /\ r \notin published
         /\ \A v \in Worker : handler[v].pc \in BeforeCommit => handler[v].req # r
BY DEF RequestOK, SubmittingOK, UnsubmittedOK, PublishedOK, Untouched, AddStage, FilesetStage,
       BeforeCommit, SubmitStage, FileStage, CancelStage, Mine, InCall

\* A step of such a handler that touches no others and chooses only waiting ones.
LEMMA CallKeeps ==
  ASSUME RequestsOK, NEW w \in Worker,
         \A v \in Worker \ {w} : handler'[v] = handler[v],
         handler'[w].pc \notin BeforeCommit,
         \A r \in Request : handler'[w].req = r => r \in Mine(handler[w]),
         \A r \in Request : r \in Chosen(handler'[w]) => r \in Mine(handler[w]) \cup Waiting,
         \A r \in Request \ Mine(handler[w]) :
           /\ status'[r] = status[r] /\ files'[r] = files[r]
           /\ sent'[r] = sent[r]
           /\ r \in deployment' => r \in deployment,
         \A r \in Mine(handler[w]) : status'[r] # "none",
         UNCHANGED <<done, reports, published>>
  PROVE  RequestsOK'
<1> SUFFICES ASSUME NEW r \in Request
             PROVE  RequestOK(r)'
  BY DEF RequestsOK
<1>1. RequestOK(r)
  BY DEF RequestsOK
<1>2. CASE r \in Mine(handler[w])
  BY <1>1, <1>2, MineIsLoose, Loose
<1>3. CASE r \in Waiting \ Mine(handler[w])
  BY <1>1, <1>3, WaitingIsLoose, Loose DEF Waiting
<1>4. CASE r \notin Waiting /\ r \notin Mine(handler[w])
  <2>1. Continues(handler[w], handler'[w], r)
    BY <1>4 DEF Continues
  <2>2. QED
    BY <1>1, <1>4, <2>1, Frame
<1>5. QED
  BY <1>2, <1>3, <1>4

\* The steps of an add-files call.
LEMMA AddKeeps ==
  ASSUME TypeOK, RequestsOK, NEW w \in Worker, AddStep(w)
  PROVE  RequestsOK'
<1> USE DEF Serving
<1>t. handler[w] \in Handler /\ HandlerOK(handler[w])
  BY DEF TypeOK
<1>c. handler[w].pc \in AddStage => InCall(handler[w])
  BY DEF InCall
<1>s. ASSUME NEW r \in Mine(handler[w])
      PROVE  r \in Request /\ status[r] # "none"
  BY <1>s, MineIsLoose DEF RequestsOK, Mine
<1>1. ASSUME NEW f \in Finder, AddFiles(w, f)
      PROVE  RequestsOK'
  <2>1. PICK n : Become(w, [Idle EXCEPT !.pc = "add_store", !.finder = f, !.n = n,
                                        !.todo = LookupRequests(finder[f].ds)])
    BY <1>1 DEF AddFiles
  <2> DEFINE h == [Idle EXCEPT !.pc = "add_store", !.finder = f, !.n = n,
                               !.todo = LookupRequests(finder[f].ds)]
  <2>2. h.pc = "add_store" /\ h.req = None /\ Chosen(h) \subseteq Waiting
    BY DEF Idle, Chosen, Waiting, LookupRequests
  <2> HIDE DEF h
  <2>3. handler'[w] = h /\ \A v \in Worker \ {w} : handler'[v] = handler[v]
    BY <2>1, BecomeOnly DEF h
  <2>4. UNCHANGED <<status, files, done, sent, reports, published, deployment>>
    BY <1>1 DEF AddFiles, database, cluster, brokers
  <2>5. \A r \in Request : h.req # r
    BY <2>2, NoneAssumption
  <2>6. QED
    BY <1>s, <2>2, <2>3, <2>4, <2>5, CallKeeps DEF BeforeCommit, SubmitStage
<1>2. CASE AddStore(w)
  <2>1. handler[w].pc = "add_store" /\ Goto(w, "add_next")
    BY <1>2 DEF AddStore
  <2>2. UNCHANGED <<status, files, done, sent, reports, published, deployment>>
    BY <1>2 DEF AddStore, cluster, brokers
  <2>3. InCall(handler[w])
    BY <1>c, <2>1 DEF AddStage
  <2>4. /\ handler'[w].pc = "add_next"
        /\ handler'[w].req = handler[w].req
        /\ Chosen(handler'[w]) = Chosen(handler[w])
        /\ \A v \in Worker \ {w} : handler'[v] = handler[v]
    BY <2>1, GotoFields
  <2>5. QED
    BY <1>s, <2>2, <2>3, <2>4, CallKeeps DEF BeforeCommit, SubmitStage, Mine
<1>3. ASSUME NEW r \in Request, AddRead(w, r)
      PROVE  RequestsOK'
  <2> DEFINE h == [handler[w] EXCEPT !.pc = "add_send", !.req = r, !.read = files[r]]
  <2>1. h.pc = "add_send" /\ h.req = r /\ Chosen(h) = Chosen(handler[w])
    BY <1>t DEF Handler, Chosen
  <2> HIDE DEF h
  <2>2. r \in handler[w].todo /\ Become(w, h)
    BY <1>3 DEF AddRead, h
  <2>3. handler'[w] = h /\ \A v \in Worker \ {w} : handler'[v] = handler[v]
    BY <2>2, BecomeOnly
  <2>4. UNCHANGED <<status, files, done, sent, reports, published, deployment>>
    BY <1>3 DEF AddRead, database, cluster, brokers
  <2>5. QED
    BY <1>s, <2>1, <2>2, <2>3, <2>4, CallKeeps DEF BeforeCommit, SubmitStage, Mine, Chosen
<1>4. CASE AddSend(w)
  <2>1. PICK q : q = handler[w].req
    OBVIOUS
  <2>2. /\ handler[w].pc = "add_send" /\ Goto(w, "add_commit")
        /\ SendTasks(q, handler[w].n)
    BY <1>4, <2>1 DEF AddSend
  <2>3. /\ UNCHANGED <<status, files, done, published, deployment>>
        /\ UNCHANGED reports
    BY <1>4, <2>2 DEF AddSend, SendTasks, database, cluster
  <2>4. InCall(handler[w])
    BY <1>c, <2>2 DEF AddStage
  <2>5. q \in Request /\ handler[w].n \in Nat /\ q \in Mine(handler[w])
    BY <1>t, <2>1, <2>2, <2>4 DEF Handler, HandlerOK, Mine
  <2>6. \A r \in Request \ Mine(handler[w]) : sent'[r] = sent[r]
    BY <2>2, <2>5, SendGrows
  <2>7. /\ handler'[w].pc = "add_commit"
        /\ handler'[w].req = handler[w].req
        /\ Chosen(handler'[w]) = Chosen(handler[w])
        /\ \A v \in Worker \ {w} : handler'[v] = handler[v]
    BY <2>2, GotoFields
  <2>8. QED
    BY <1>s, <2>3, <2>4, <2>6, <2>7, CallKeeps DEF BeforeCommit, SubmitStage, Mine
<1>5. CASE AddCommit(w)
  <2>1. PICK q : q = handler[w].req
    OBVIOUS
  <2> DEFINE h == [handler[w] EXCEPT !.pc = "add_next", !.req = None, !.todo = @ \ {q}]
  <2>2. h.pc = "add_next" /\ h.req = None /\ Chosen(h) \subseteq Chosen(handler[w])
    BY <1>t DEF Handler, Chosen
  <2> HIDE DEF h
  <2>3. /\ handler[w].pc = "add_commit" /\ Become(w, h)
        /\ files' = [files EXCEPT ![q] = handler[w].read + handler[w].n]
    BY <1>5, <2>1 DEF AddCommit, h
  <2>4. handler'[w] = h /\ \A v \in Worker \ {w} : handler'[v] = handler[v]
    BY <2>3, BecomeOnly
  <2>5. UNCHANGED <<status, done, sent, reports, published, deployment>>
    BY <1>5 DEF AddCommit, cluster, brokers
  <2>6. q \in Mine(handler[w])
    BY <1>t, <1>c, <2>1, <2>3 DEF HandlerOK, Mine, AddStage
  <2>7. \A r \in Request \ Mine(handler[w]) : files'[r] = files[r]
    BY <2>3, <2>6 DEF TypeOK
  <2>8. \A r \in Request : h.req # r
    BY <2>2, NoneAssumption
  <2>9. QED
    BY <1>s, <2>2, <2>4, <2>5, <2>7, <2>8, CallKeeps DEF BeforeCommit, SubmitStage, Mine
<1>6. CASE AddReturn(w)
  BY <1>6, ReturnOnly, IdleContinues, FrameAll DEF AddReturn, database, cluster, brokers
<1>7. QED
  BY <1>1, <1>2, <1>3, <1>4, <1>5, <1>6 DEF AddStep

\* The steps of a fileset-complete call.
LEMMA FilesetKeeps ==
  ASSUME TypeOK, RequestsOK, NEW w \in Worker, FilesetStep(w)
  PROVE  RequestsOK'
<1> USE DEF Serving
<1>t. handler[w] \in Handler
  BY DEF TypeOK
<1>s. ASSUME NEW r \in Mine(handler[w])
      PROVE  r \in Request /\ status[r] # "none"
  BY <1>s, MineIsLoose DEF RequestsOK, Mine
<1>1. ASSUME NEW f \in Finder, FilesetComplete(w, f)
      PROVE  RequestsOK'
  <2> DEFINE stage == IF finder[f].total > 0 THEN "fs_pending" ELSE "fs_empty"
  <2> DEFINE h == [Idle EXCEPT !.finder = f, !.pc = stage]
  <2>1. h.req = None /\ h.pc \in {"fs_pending", "fs_empty"} /\ Chosen(h) = {}
    BY DEF Idle, Chosen
  <2>2. Become(w, h)
    BY <1>1 DEF FilesetComplete
  <2> HIDE DEF h
  <2>3. handler'[w] = h /\ \A v \in Worker \ {w} : handler'[v] = handler[v]
    BY <2>2, BecomeOnly
  <2>4. UNCHANGED <<status, files, done, sent, reports, published, deployment>>
    BY <1>1 DEF FilesetComplete, cluster, brokers
  <2>5. \A r \in Request : h.req # r
    BY <2>1, NoneAssumption
  <2>6. QED
    BY <1>s, <2>1, <2>3, <2>4, <2>5, CallKeeps DEF BeforeCommit, SubmitStage
<1>2. ASSUME handler[w].pc \in FilesetStage, NEW stage \in FilesetStage,
             handler'[w].pc = stage, handler'[w].req = handler[w].req,
             Chosen(handler'[w]) \subseteq Chosen(handler[w]) \cup Waiting,
             \A v \in Worker \ {w} : handler'[v] = handler[v],
             UNCHANGED <<status, files, done, reports, published>>,
             \A r \in Request \ Mine(handler[w]) :
               sent'[r] = sent[r] /\ (r \in deployment' => r \in deployment)
      PROVE  RequestsOK'
  BY <1>2, <1>s, CallKeeps DEF BeforeCommit, SubmitStage, FilesetStage, Mine, InCall
<1>3. CASE FilesetPending(w)
  <2> DEFINE pend == PendingRequests(CallDataset(w))
  <2> DEFINE h == [handler[w] EXCEPT !.pc = "fs_publish", !.pend = pend, !.todo = pend,
                                     !.n = dsFiles[CallDataset(w)]]
  <2>1. pend \subseteq Waiting
    BY DEF PendingRequests, Waiting
  <2>2. handler[w].pc = "fs_pending" /\ Become(w, h)
    BY <1>3 DEF FilesetPending
  <2> HIDE DEF pend
  <2>3. /\ h.pc = "fs_publish" /\ h.req = handler[w].req
        /\ Chosen(h) \subseteq Chosen(handler[w]) \cup Waiting
    BY <1>t, <2>1 DEF Handler, Chosen
  <2> HIDE DEF h
  <2>4. handler'[w] = h /\ \A v \in Worker \ {w} : handler'[v] = handler[v]
    BY <2>2, BecomeOnly
  <2>5. UNCHANGED <<status, files, done, sent, reports, published, deployment>>
    BY <1>3 DEF FilesetPending, database, cluster, brokers
  <2>6. QED
    BY <1>2, <2>2, <2>3, <2>4, <2>5 DEF FilesetStage
<1>4. ASSUME NEW r \in Request, FilesetPublish(w, r)
      PROVE  RequestsOK'
  <2> DEFINE h == [handler[w] EXCEPT !.todo = @ \ {r}]
  <2>1. h.pc = handler[w].pc /\ h.req = handler[w].req /\ Chosen(h) \subseteq Chosen(handler[w])
    BY <1>t DEF Handler, Chosen
  <2>2. /\ handler[w].pc = "fs_publish" /\ r \in handler[w].todo /\ Become(w, h)
        /\ SendTasks(r, handler[w].n)
    BY <1>4 DEF FilesetPublish
  <2> HIDE DEF h
  <2>3. handler'[w] = h /\ \A v \in Worker \ {w} : handler'[v] = handler[v]
    BY <2>2, BecomeOnly
  <2>4. UNCHANGED <<status, files, done, reports, published, deployment>>
    BY <1>4, <2>2 DEF FilesetPublish, SendTasks, database, cluster
  <2>5. handler[w].n \in Nat /\ r \in Mine(handler[w])
    BY <1>t, <2>2 DEF Handler, Mine, Chosen
  <2>6. \A q \in Request \ Mine(handler[w]) : sent'[q] = sent[q]
    BY <2>2, <2>5, SendGrows
  <2>7. QED
    BY <1>2, <2>1, <2>2, <2>3, <2>4, <2>6 DEF FilesetStage
<1>5. CASE FilesetLookup(w)
  <2> DEFINE look == LookupRequests(CallDataset(w))
  <2> DEFINE h == [handler[w] EXCEPT !.pc = "fs_commit", !.look = look]
  <2>1. look \subseteq Waiting
    BY DEF LookupRequests, Waiting
  <2>2. handler[w].pc = "fs_publish" /\ Become(w, h)
    BY <1>5 DEF FilesetLookup
  <2> HIDE DEF look
  <2>3. /\ h.pc = "fs_commit" /\ h.req = handler[w].req
        /\ Chosen(h) \subseteq Chosen(handler[w]) \cup Waiting
    BY <1>t, <2>1 DEF Handler, Chosen
  <2> HIDE DEF h
  <2>4. handler'[w] = h /\ \A v \in Worker \ {w} : handler'[v] = handler[v]
    BY <2>2, BecomeOnly
  <2>5. UNCHANGED <<status, files, done, sent, reports, published, deployment>>
    BY <1>5 DEF FilesetLookup, database, cluster, brokers
  <2>6. QED
    BY <1>2, <2>2, <2>3, <2>4, <2>5 DEF FilesetStage
<1>6. CASE FilesetEmpty(w)
  <2> DEFINE look == LookupRequests(CallDataset(w))
  <2> DEFINE h == [handler[w] EXCEPT !.pc = "fs_shutdown", !.look = look, !.todo = look]
  <2>1. look \subseteq Waiting
    BY DEF LookupRequests, Waiting
  <2>2. handler[w].pc = "fs_empty" /\ Become(w, h)
    BY <1>6 DEF FilesetEmpty
  <2> HIDE DEF look
  <2>3. /\ h.pc = "fs_shutdown" /\ h.req = handler[w].req
        /\ Chosen(h) \subseteq Chosen(handler[w]) \cup Waiting
    BY <1>t, <2>1 DEF Handler, Chosen
  <2> HIDE DEF h
  <2>4. handler'[w] = h /\ \A v \in Worker \ {w} : handler'[v] = handler[v]
    BY <2>2, BecomeOnly
  <2>5. UNCHANGED <<status, files, done, sent, reports, published, deployment>>
    BY <1>6 DEF FilesetEmpty, database, cluster, brokers
  <2>6. QED
    BY <1>2, <2>2, <2>3, <2>4, <2>5 DEF FilesetStage
<1>7. ASSUME NEW r \in Request, FilesetShutdown(w, r)
      PROVE  RequestsOK'
  <2> DEFINE h == [handler[w] EXCEPT !.todo = @ \ {r}]
  <2>1. h.pc = handler[w].pc /\ h.req = handler[w].req /\ Chosen(h) \subseteq Chosen(handler[w])
    BY <1>t DEF Handler, Chosen
  <2>2. handler[w].pc = "fs_shutdown" /\ Become(w, h)
    BY <1>7 DEF FilesetShutdown
  <2> HIDE DEF h
  <2>3. handler'[w] = h /\ \A v \in Worker \ {w} : handler'[v] = handler[v]
    BY <2>2, BecomeOnly
  <2>4. /\ UNCHANGED <<status, files, done, sent, reports, published>>
        /\ deployment' \subseteq deployment
    BY <1>7 DEF FilesetShutdown, ShutdownTransformers, database
  <2>5. QED
    BY <1>2, <2>1, <2>2, <2>3, <2>4 DEF FilesetStage
<1>8. CASE FilesetEmptyPending(w)
  <2> DEFINE pend == PendingRequests(CallDataset(w))
  <2> DEFINE h == [handler[w] EXCEPT !.pc = "fs_empty_commit", !.pend = pend]
  <2>1. pend \subseteq Waiting
    BY DEF PendingRequests, Waiting
  <2>2. handler[w].pc = "fs_shutdown" /\ Become(w, h)
    BY <1>8 DEF FilesetEmptyPending
  <2> HIDE DEF pend
  <2>3. /\ h.pc = "fs_empty_commit" /\ h.req = handler[w].req
        /\ Chosen(h) \subseteq Chosen(handler[w]) \cup Waiting
    BY <1>t, <2>1 DEF Handler, Chosen
  <2> HIDE DEF h
  <2>4. handler'[w] = h /\ \A v \in Worker \ {w} : handler'[v] = handler[v]
    BY <2>2, BecomeOnly
  <2>5. UNCHANGED <<status, files, done, sent, reports, published, deployment>>
    BY <1>8 DEF FilesetEmptyPending, database, cluster, brokers
  <2>6. QED
    BY <1>2, <2>2, <2>3, <2>4, <2>5 DEF FilesetStage
<1>9. CASE FilesetCommit(w) \/ FilesetEmptyCommit(w)
  <2>1. /\ Return(w)
        /\ UNCHANGED <<done, sent, reports, published, deployment>>
    BY <1>9 DEF FilesetCommit, FilesetEmptyCommit, cluster, brokers
  <2>2. /\ handler'[w] = Idle
        /\ \A v \in Worker \ {w} : handler'[v] = handler[v]
    BY <2>1, ReturnOnly
  <2>3. \A r \in Request :
          /\ r \notin Mine(handler[w]) => status'[r] = status[r] /\ files'[r] = files[r]
          /\ status'[r] \in {"running", "complete", status[r]}
    BY <1>9 DEF FilesetCommit, FilesetEmptyCommit, Mine, Chosen
  <2>4. Idle.pc = "idle" /\ Chosen(Idle) = {} /\ \A r \in Request : Idle.req # r
    BY NoneAssumption DEF Idle, Chosen
  <2>5. QED
    BY <1>s, <2>1, <2>2, <2>3, <2>4, CallKeeps DEF BeforeCommit, SubmitStage
<1>10. QED
  BY <1>1, <1>3, <1>4, <1>5, <1>6, <1>7, <1>8, <1>9 DEF FilesetStep
-----------------------------------------------------------------------------
(***************************************************************************)
(* The reports of transformers.  A published request is completed by a     *)
(* handler that saw its count full, and the count never goes back.         *)
(***************************************************************************)
LEMMA FileKeeps ==
  ASSUME TypeOK, RequestsOK, NEW w \in Worker, FileStep(w) \/ RetryComplete(w)
  PROVE  RequestsOK'
<1> USE DEF Serving
<1>q. PICK q : q = handler[w].req
  OBVIOUS
<1>t. handler[w].pc \in FileStage => q \in Request
  BY <1>q DEF TypeOK, HandlerOK
<1>1. ASSUME NEW r \in Request, FileRecord(w, r)
      PROVE  RequestsOK'
  <2> DEFINE h == [Idle EXCEPT !.pc = "check", !.req = r]
  <2>1. h.pc = "check" /\ h.req = r /\ Chosen(h) = {}
    BY DEF Idle, Chosen
  <2>2. Become(w, h)
    BY <1>1 DEF FileRecord
  <2> HIDE DEF h
  <2>3. handler'[w] = h /\ \A v \in Worker \ {w} : handler'[v] = handler[v]
    BY <2>2, BecomeOnly
  <2>4. /\ reports[r] > 0
        /\ UNCHANGED <<status, files, sent, published, deployment>>
        /\ \A x \in Request \ {r} : done'[x] = done[x] /\ reports'[x] = reports[x]
    BY <1>1 DEF FileRecord, TypeOK, cluster
  <2>5. /\ status[r] # "none"
        /\ \A v \in Worker : handler[v].pc \in BeforeCommit => handler[v].req # r
    BY <2>4 DEF RequestsOK, RequestOK, SubmittingOK, UnsubmittedOK, Untouched, TypeOK
  <2>6. \A v \in Worker : handler'[v].pc \in BeforeCommit => handler'[v].req # r
    BY <2>1, <2>3, <2>5 DEF BeforeCommit, SubmitStage
  <2>7. PublishedOK(r)'
    <3>1. PublishedOK(r)
      BY DEF RequestsOK, RequestOK
    <3>2. done'[r] = done[r] + 1 /\ done[r] \in Nat /\ files[r] \in Nat
      BY <1>1 DEF FileRecord, TypeOK
    <3>3. done[r] >= files[r] => done'[r] >= files[r]
      BY <3>2
    <3>4. \A v \in Worker :
            /\ r \notin Chosen(handler[v]) => r \notin Chosen(handler'[v])
            /\ \/ handler'[v].req = handler[v].req /\ handler'[v].pc = handler[v].pc
               \/ handler'[v].pc = "check"
      BY <2>1, <2>3
    <3>5. QED
      BY <2>4, <3>1, <3>3, <3>4 DEF PublishedOK, FileStage
  <2>8. RequestOK(r)'
    BY <2>4, <2>5, <2>6, <2>7 DEF RequestOK, SubmittingOK, UnsubmittedOK
  <2>9. \A x \in Request \ {r} : Continues(handler[w], handler'[w], x)
    BY <2>1, <2>3 DEF Continues
  <2>10. QED
    BY <2>3, <2>4, <2>8, <2>9, FrameButOne
<1>2. ASSUME handler[w].pc \in FileStage, NEW stage \in FileStage, Goto(w, stage),
             UNCHANGED <<files, done, sent, reports, published, deployment>>,
             status'[q] # "none",
             \A r \in Request \ {q} : status'[r] = status[r],
             PublishedOK(q)'
      PROVE  RequestsOK'
  <2>1. q \in Request
    BY <1>2, <1>t
  <2>2. \A v \in Worker : handler[v].pc \in BeforeCommit => handler[v].req # q
    BY <1>2, <1>q, <2>1, LateIsLoose DEF RequestsOK
  <2>3. handler'[w].pc = stage /\ \A v \in Worker \ {w} : handler'[v] = handler[v]
    BY <1>2, GotoFields
  <2>4. \A v \in Worker : handler'[v].pc \in BeforeCommit => handler'[v].req # q
    BY <1>2, <2>2, <2>3 DEF BeforeCommit, SubmitStage, FileStage
  <2>5. RequestOK(q)'
    BY <1>2, <2>4 DEF RequestOK, SubmittingOK, UnsubmittedOK
  <2>6. \A r \in Request \ {q} : Continues(handler[w], handler'[w], r)
    BY <1>2, <1>q, GotoContinues
  <2>7. QED
    BY <1>2, <2>1, <2>3, <2>5, <2>6, FrameButOne
<1>3. CASE FileCheck(w)
  <2>1. /\ handler[w].pc = "check"
        /\ UNCHANGED <<status, files, done, sent, reports, published, deployment>>
    BY <1>3 DEF FileCheck, database, cluster, brokers
  <2>2. CASE Return(w)
    BY <2>1, <2>2, ReturnOnly, IdleContinues, FrameAll
  <2>3. ASSUME NEW stage \in {"complete", "shutdown"}, Goto(w, stage),
               files[q] # 0 /\ files[q] - done[q] = 0
        PROVE  RequestsOK'
    <3>1. q \in Request
      BY <1>t, <2>1 DEF FileStage
    <3>2. /\ RequestOK(q) /\ PublishedOK(q)
          /\ status[q] # "none"
      BY <1>q, <2>1, <3>1, LateIsLoose DEF RequestsOK, RequestOK, FileStage
    <3>3. files[q] > 0 /\ done[q] >= files[q]
      BY <2>3, <3>1 DEF TypeOK
    <3>4. /\ handler'[w].pc = stage /\ Chosen(handler'[w]) = Chosen(handler[w])
          /\ \A v \in Worker \ {w} : handler'[v] = handler[v]
      BY <2>3, GotoFields
    <3>5. PublishedOK(q)'
      BY <2>1, <3>2, <3>3, <3>4 DEF PublishedOK, FileStage
    <3>6. QED
      BY <1>2, <2>1, <2>3, <3>2, <3>5 DEF FileStage
  <2>4. QED
    BY <1>3, <1>q, <2>2, <2>3 DEF FileCheck
<1>4. CASE FileComplete(w)
  <2>1. /\ handler[w].pc = "complete" /\ Goto(w, "shutdown")
        /\ status' = [status EXCEPT ![q] = "complete"]
        /\ UNCHANGED <<files, done, sent, reports, published, deployment>>
    BY <1>4, <1>q DEF FileComplete, cluster, brokers
  <2>2. q \in Request
    BY <1>t, <2>1 DEF FileStage
  <2>3. status'[q] = "complete" /\ \A r \in Request \ {q} : status'[r] = status[r]
    BY <2>1, <2>2 DEF TypeOK
  <2>4. PublishedOK(q)
    BY <2>2 DEF RequestsOK, RequestOK
  <2>5. /\ handler'[w].pc = "shutdown" /\ Chosen(handler'[w]) = Chosen(handler[w])
        /\ \A v \in Worker \ {w} : handler'[v] = handler[v]
    BY <2>1, GotoFields
  <2>6. PublishedOK(q)'
    BY <1>q, <2>1, <2>3, <2>4, <2>5 DEF PublishedOK, FileStage
  <2>7. QED
    BY <1>2, <2>1, <2>3, <2>6 DEF FileStage
<1>5. CASE FileShutdown(w)
  <2>1. /\ Return(w)
        /\ UNCHANGED <<status, files, done, sent, reports, published>>
        /\ deployment' \subseteq deployment
    BY <1>5 DEF FileShutdown, ShutdownTransformers, database
  <2>2. QED
    BY <2>1, ReturnOnly, IdleContinues, FrameAll
<1>6. CASE RetryComplete(w)
  <2>1. /\ handler[w].pc = "shutdown" /\ Goto(w, "complete")
        /\ UNCHANGED <<status, files, done, sent, reports, published, deployment>>
    BY <1>6 DEF RetryComplete, database, cluster, brokers
  <2>2. q \in Request
    BY <1>t, <2>1 DEF FileStage
  <2>3. status[q] # "none" /\ PublishedOK(q)
    BY <1>q, <2>1, <2>2, LateIsLoose DEF RequestsOK, RequestOK, FileStage
  <2>4. /\ handler'[w].pc = "complete" /\ Chosen(handler'[w]) = Chosen(handler[w])
        /\ \A v \in Worker \ {w} : handler'[v] = handler[v]
    BY <2>1, GotoFields
  <2>5. PublishedOK(q)'
    BY <1>q, <2>1, <2>3, <2>4 DEF PublishedOK, FileStage
  <2>6. QED
    BY <1>2, <2>1, <2>3, <2>5 DEF FileStage
<1>7. QED
  BY <1>1, <1>3, <1>4, <1>5, <1>6 DEF FileStep
-----------------------------------------------------------------------------
(***************************************************************************)
(* Users who cancel, the environment, and faults.                          *)
(***************************************************************************)
LEMMA CancelKeeps ==
  ASSUME TypeOK, RequestsOK, NEW w \in Worker,
         CancelStep(w) \/ \E r \in Request : Cancel(w, r)
  PROVE  RequestsOK'
<1> USE DEF Serving
<1>q. PICK q : q = handler[w].req
  OBVIOUS
<1>t. handler[w].pc \in CancelStage => q \in Request
  BY <1>q DEF TypeOK, HandlerOK
<1>1. ASSUME NEW r \in Request, Cancel(w, r)
      PROVE  RequestsOK'
  <2> DEFINE stage == IF status[r] = "running" THEN "cancel_shutdown" ELSE "cancel_commit"
  <2> DEFINE h == [Idle EXCEPT !.req = r, !.pc = stage]
  <2>1. h.pc \in CancelStage /\ h.req = r /\ Chosen(h) = {}
    BY DEF Idle, Chosen, CancelStage
  <2>2. Become(w, h) /\ status[r] # "none"
    BY <1>1 DEF Cancel, TransformStatus
  <2> HIDE DEF h
  <2>3. handler'[w] = h /\ \A v \in Worker \ {w} : handler'[v] = handler[v]
    BY <2>2, BecomeOnly
  <2>4. UNCHANGED <<status, files, done, sent, reports, published, deployment>>
    BY <1>1 DEF Cancel, database, cluster, brokers
  <2>5. SubmittingOK(r) /\ PublishedOK(r)
    BY DEF RequestsOK, RequestOK
  <2>6. SubmittingOK(r)'
    <3> SUFFICES ASSUME NEW u \in Worker, handler'[u].pc \in BeforeCommit, handler'[u].req = r
                 PROVE  /\ Untouched(r)'
                        /\ \A v \in Worker \ {u} :
                             handler'[v].req = r => handler'[v].pc \in CancelStage
                        /\ status'[r] \in IF handler'[u].pc \in {"create", "save"} THEN {"none"}
                                                                ELSE {"submitted", "canceled"}
                        /\ sent'[r] = IF handler'[u].pc = "publish_commit" THEN handler'[u].n
                                                                           ELSE 0
      BY DEF SubmittingOK
    <3>1. u # w
      BY <2>1, <2>3 DEF BeforeCommit, SubmitStage, CancelStage
    <3>2. /\ Untouched(r)
          /\ \A v \in Worker \ {u} : handler[v].req = r => handler[v].pc \in CancelStage
          /\ status[r] \in IF handler[u].pc \in {"create", "save"} THEN {"none"}
                                                         ELSE {"submitted", "canceled"}
          /\ sent[r] = IF handler[u].pc = "publish_commit" THEN handler[u].n ELSE 0
      BY <2>3, <2>5, <3>1 DEF SubmittingOK
    <3>3. Untouched(r)'
      BY <2>1, <2>3, <2>4, <3>2 DEF Untouched
    <3>4. \A v \in Worker \ {u} : handler'[v].req = r => handler'[v].pc \in CancelStage
      BY <2>1, <2>3, <3>2
    <3>5. QED
      BY <2>3, <2>4, <3>1, <3>2, <3>3, <3>4
  <2>7. PublishedOK(r)'
    BY <2>1, <2>3, <2>4, <2>5 DEF PublishedOK, CancelStage
  <2>8. RequestOK(r)'
    BY <2>2, <2>4, <2>6, <2>7 DEF RequestOK, UnsubmittedOK
  <2>9. \A x \in Request \ {r} : Continues(handler[w], handler'[w], x)
    BY <2>1, <2>3 DEF Continues
  <2>10. QED
    BY <2>3, <2>4, <2>8, <2>9, FrameButOne
<1>2. CASE CancelShutdown(w)
  <2>1. /\ handler[w].pc \in CancelStage /\ Goto(w, "cancel_commit")
        /\ UNCHANGED <<status, files, done, sent, reports, published>>
        /\ deployment' \subseteq deployment
    BY <1>2 DEF CancelShutdown, ShutdownTransformers, database, CancelStage
  <2>2. \A r \in Request : Continues(handler[w], handler'[w], r)
    BY <2>1, GotoContinues DEF CancelStage
  <2>3. QED
    BY <2>1, <2>2, GotoFields, FrameAll
<1>3. CASE CancelCommit(w)
  <2>1. /\ handler[w].pc = "cancel_commit" /\ Return(w)
        /\ status' = [status EXCEPT ![q] = "canceled"]
        /\ UNCHANGED <<files, done, sent, reports, published, deployment>>
    BY <1>3, <1>q DEF CancelCommit, cluster, brokers
  <2>2. /\ handler'[w] = Idle
        /\ \A v \in Worker \ {w} : handler'[v] = handler[v]
    BY <2>1, ReturnOnly
  <2>3. q \in Request
    BY <1>t, <2>1 DEF CancelStage
  <2>4. status'[q] = "canceled" /\ \A r \in Request \ {q} : status'[r] = status[r]
    BY <2>1, <2>3 DEF TypeOK
  <2>5. /\ status[q] # "none"
        /\ SubmittingOK(q) /\ PublishedOK(q)
    BY <1>q, <2>1, <2>3 DEF RequestsOK, RequestOK, UnsubmittedOK
  <2>6. Idle.pc \notin BeforeCommit /\ Chosen(Idle) = {} /\ Idle.req # q
    BY <2>3, NoneAssumption DEF Idle, Chosen, BeforeCommit, SubmitStage
  <2>7. SubmittingOK(q)'
    <3> SUFFICES ASSUME NEW u \in Worker, handler'[u].pc \in BeforeCommit, handler'[u].req = q
                 PROVE  /\ Untouched(q)'
                        /\ \A v \in Worker \ {u} :
                             handler'[v].req = q => handler'[v].pc \in CancelStage
                        /\ status'[q] \in IF handler'[u].pc \in {"create", "save"} THEN {"none"}
                                                                ELSE {"submitted", "canceled"}
                        /\ sent'[q] = IF handler'[u].pc = "publish_commit" THEN handler'[u].n
                                                                           ELSE 0
      BY DEF SubmittingOK
    <3>1. u # w /\ handler'[u] = handler[u]
      BY <2>2, <2>6
    <3>2. /\ Untouched(q)
          /\ \A v \in Worker \ {u} : handler[v].req = q => handler[v].pc \in CancelStage
          /\ status[q] \in IF handler[u].pc \in {"create", "save"} THEN {"none"}
                                                         ELSE {"submitted", "canceled"}
          /\ sent[q] = IF handler[u].pc = "publish_commit" THEN handler[u].n ELSE 0
      BY <2>5, <3>1 DEF SubmittingOK
    <3>3. Untouched(q)'
      BY <2>1, <2>2, <2>6, <3>2 DEF Untouched
    <3>4. \A v \in Worker \ {u} : handler'[v].req = q => handler'[v].pc \in CancelStage
      BY <2>2, <2>6, <3>2
    <3>5. handler[u].pc \notin {"create", "save"}
      BY <2>5, <3>2
    <3>6. QED
      BY <2>1, <2>4, <3>1, <3>2, <3>3, <3>4, <3>5
  <2>8. PublishedOK(q)'
    BY <2>1, <2>2, <2>4, <2>5, <2>6 DEF PublishedOK
  <2>9. RequestOK(q)'
    BY <2>4, <2>7, <2>8 DEF RequestOK, UnsubmittedOK
  <2>10. QED
    BY <2>1, <2>2, <2>3, <2>4, <2>9, IdleContinues, FrameButOne
<1>4. QED
  BY <1>1, <1>2, <1>3 DEF CancelStep

\* A step of the cluster or of a finder: nobody's handler moves.
LEMMA OutsideKeeps ==
  ASSUME RequestsOK, UNCHANGED <<handler, status, files, done, sent, published, deployment>>,
         \A r \in Request : reports'[r] = reports[r] \/ r \in deployment \/ reports[r] # 0
  PROVE  RequestsOK'
<1> SUFFICES ASSUME NEW r \in Request
             PROVE  RequestOK(r)'
  BY DEF RequestsOK
<1>1. RequestOK(r)
  BY DEF RequestsOK
<1>2. Untouched(r) => Untouched(r)'
  BY DEF Untouched, Chosen
<1>3. SubmittingOK(r)'
  BY <1>1, <1>2 DEF RequestOK, SubmittingOK
<1>4. UnsubmittedOK(r)'
  BY <1>1, <1>2 DEF RequestOK, UnsubmittedOK
<1>5. PublishedOK(r)'
  BY <1>1 DEF RequestOK, PublishedOK, Chosen
<1>6. QED
  BY <1>3, <1>4, <1>5 DEF RequestOK

\* A handler is cut short, and the report it served may come again.
LEMMA AbortKeeps ==
  ASSUME TypeOK, RequestsOK, NEW w \in Worker, Abort(w)
  PROVE  RequestsOK'
<1>1. /\ UNCHANGED <<status, files, done, sent, published, deployment>>
      /\ handler'[w] = Idle
      /\ \A v \in Worker \ {w} : handler'[v] = handler[v]
  BY ReturnOnly DEF Abort, database, cluster
<1>2. CASE UNCHANGED reports
  BY <1>1, <1>2, IdleContinues, FrameAll
<1>3. CASE handler[w].pc \in FileStage /\ reports' = [reports EXCEPT ![handler[w].req] = @ + 1]
  <2>1. PICK q \in Request : q = handler[w].req
    BY <1>3 DEF TypeOK, HandlerOK
  <2>2. /\ status[q] # "none" /\ PublishedOK(q)
        /\ \A v \in Worker : handler[v].pc \in BeforeCommit => handler[v].req # q
    BY <1>3, <2>1, LateIsLoose DEF RequestsOK, RequestOK
  <2>3. Idle.pc \notin BeforeCommit /\ Chosen(Idle) = {} /\ Idle.req # q
    BY NoneAssumption DEF Idle, Chosen, BeforeCommit, SubmitStage
  <2>4. \A v \in Worker : handler'[v].pc \in BeforeCommit => handler'[v].req # q
    BY <1>1, <2>2, <2>3
  <2>5. PublishedOK(q)'
    BY <1>1, <2>2, <2>3 DEF PublishedOK
  <2>6. RequestOK(q)'
    BY <1>1, <2>2, <2>4, <2>5 DEF RequestOK, SubmittingOK, UnsubmittedOK
  <2>7. \A r \in Request \ {q} :
          /\ Continues(handler[w], handler'[w], r)
          /\ reports'[r] = reports[r]
    BY <1>1, <1>3, <2>1, IdleContinues DEF TypeOK
  <2>8. QED
    BY <1>1, <2>6, <2>7, FrameButOne
<1>4. QED
  BY <1>2, <1>3 DEF Abort

\* The invariant, from the types alone: a report counted twice only makes a count full
\* early.
THEOREM RequestsOKHolds == Spec => []RequestsOK
<1>1. Init => RequestsOK
  <2> SUFFICES ASSUME Init, NEW r \in Request
               PROVE  RequestOK(r)
    BY DEF RequestsOK
  <2>1. \A w \in Worker : handler[w] = Idle
    BY DEF Init
  <2>2. Idle.pc \notin BeforeCommit /\ Chosen(Idle) = {} /\ Idle.req # r
    BY NoneAssumption DEF Idle, Chosen, BeforeCommit, SubmitStage
  <2>3. Untouched(r)
    BY <2>1, <2>2 DEF Init, Untouched
  <2>4. SubmittingOK(r) /\ UnsubmittedOK(r) /\ PublishedOK(r)
    BY <2>1, <2>2, <2>3 DEF Init, SubmittingOK, UnsubmittedOK, PublishedOK
  <2>5. QED
    BY <2>4 DEF RequestOK
<1>2. TypeOK /\ RequestsOK /\ [Next]_vars => RequestsOK'
  <2> SUFFICES ASSUME TypeOK, RequestsOK, [Next]_vars
               PROVE  RequestsOK'
    OBVIOUS
  <2>1. ASSUME NEW w \in Worker, WorkerStep(w) \/ User(w)
        PROVE  RequestsOK'
    BY <2>1, SubmitKeeps, AddKeeps, FilesetKeeps, FileKeeps, CancelKeeps DEF WorkerStep, User
  <2>2. ASSUME NEW f \in Finder, NEW d \in Dataset, Lookup(f, d)
        PROVE  RequestsOK'
    BY <2>2, OutsideKeeps DEF Lookup, database, cluster
  <2>3. ASSUME NEW r \in Request, Transform(r)
        PROVE  RequestsOK'
    <3>1. \A x \in Request : reports'[x] = reports[x] \/ x \in deployment
      BY <2>3 DEF Transform, TypeOK
    <3>2. QED
      BY <2>3, <3>1, OutsideKeeps DEF Transform, database, cluster
  <2>4. ASSUME NEW w \in Worker, Abort(w)
        PROVE  RequestsOK'
    BY <2>4, AbortKeeps
  <2>5. ASSUME NEW f \in Finder, LookupDies(f)
        PROVE  RequestsOK'
    BY <2>5, OutsideKeeps DEF LookupDies, database, cluster, brokers
  <2>6. CASE UNCHANGED vars
    BY <2>6, OutsideKeeps DEF vars, database, cluster, brokers
  <2>7. ASSUME NEW w \in Worker, RetryComplete(w)
        PROVE  RequestsOK'
    BY <2>7, FileKeeps
  <2>8. ASSUME NEW r \in Request, LoseReport(r) \/ TransformerDies(r)
        PROVE  RequestsOK'
    <3>1. /\ UNCHANGED <<handler, status, files, done, sent, published, deployment>>
          /\ \A q \in Request : reports'[q] = reports[q] \/ q \in deployment \/ reports[q] # 0
      BY <2>8 DEF LoseReport, TransformerDies, TypeOK, database, cluster
    <3>2. QED
      BY <3>1, OutsideKeeps
  <2>9. QED
    BY <2>1, <2>2, <2>3, <2>4, <2>5, <2>6, <2>7, <2>8 DEF Next, Environment, Faults
<1>3. QED
  BY <1>1, <1>2, TypeCorrect, PTL DEF Spec
-----------------------------------------------------------------------------
\* A request published by its own submission is complete only when as many files were
\* counted as tasks were sent, and no more are then missing or counted twice than there
\* were faults: beside any number of handlers, and with any faults.
THEOREM PublishedCompletesByCountHolds == Spec => []PublishedCompletesByCount
<1>1. TypeOK /\ TasksConserved /\ RequestsOK => PublishedCompletesByCount
  <2> SUFFICES ASSUME TypeOK, TasksConserved, RequestsOK, NEW r \in published,
                      status[r] = "complete"
               PROVE  /\ files[r] > 0 /\ sent[r] = files[r]
                      /\ done[r] >= files[r]
                      /\ tasks[r] + reports[r] + done[r] <= files[r] + faults
    BY DEF PublishedCompletesByCount
  <2>1. r \in Request /\ PublishedOK(r)
    BY DEF TypeOK, RequestsOK, RequestOK
  <2>2. files[r] > 0 /\ sent[r] = files[r] /\ done[r] >= files[r]
    BY <2>1 DEF PublishedOK
  <2>3. tasks[r] + reports[r] + done[r] <= sent[r] + faults
    BY <2>1 DEF TasksConserved
  <2>4. QED
    BY <2>2, <2>3
<1>2. QED
  BY <1>1, TypeCorrect, TasksConservedHolds, RequestsOKHolds, PTL

\* A request that runs, or is complete, is never written back to a status in which
\* it waits: only its submission writes those, and only before it has run.
THEOREM NeverWaitsAgainHolds == Spec => NeverWaitsAgain
<1> DEFINE Advances ==
      \A r \in Request :
        status[r] \in {"running", "complete"}
          => status'[r] \notin {"none", "submitted", "lookup", "pending_lookup"}
<1>1. TypeOK /\ RequestsOK /\ [Next]_vars => Advances
  <2> SUFFICES ASSUME TypeOK, RequestsOK, [Next]_vars, NEW r \in Request,
                      status[r] \in {"running", "complete"}
               PROVE  status'[r] \notin {"none", "submitted", "lookup", "pending_lookup"}
    OBVIOUS
  <2> USE DEF Serving
  <2>1. ASSUME NEW w \in Worker, SubmitSave(w) \/ SubmitCommitLookup(w) \/ SubmitPend(w)
        PROVE  status'[r] = status[r]
    <3>1. /\ handler[w].pc \in BeforeCommit
          /\ \E s : status' = [status EXCEPT ![handler[w].req] = s] \/ status' = status
      BY <2>1 DEF SubmitSave, SubmitCommitLookup, SubmitPend, BeforeCommit, SubmitStage
    <3>2. handler[w].req # r
      BY <3>1 DEF RequestsOK, RequestOK, SubmittingOK
    <3>3. QED
      BY <3>1, <3>2 DEF TypeOK
  <2>2. ASSUME NEW w \in Worker,
               SubmitCommitPublish(w) \/ FilesetCommit(w) \/ FilesetEmptyCommit(w)
                 \/ FileComplete(w) \/ CancelCommit(w)
        PROVE  status'[r] \in {"running", "complete", "canceled"}
    BY <2>2 DEF SubmitCommitPublish, FilesetCommit, FilesetEmptyCommit, FileComplete,
                CancelCommit, TypeOK
  <2>3. ASSUME NEW w \in Worker, WorkerStep(w) \/ User(w),
               ~(SubmitSave(w) \/ SubmitCommitLookup(w) \/ SubmitPend(w)),
               ~(SubmitCommitPublish(w) \/ FilesetCommit(w) \/ FilesetEmptyCommit(w)
                   \/ FileComplete(w) \/ CancelCommit(w))
        PROVE  status' = status
    BY <2>3 DEF WorkerStep, User, SubmitStep, AddStep, FilesetStep, FileStep, CancelStep,
                Submit, SubmitCreate, SubmitRefresh, SubmitSendLookup, SubmitPublish,
                SubmitStart, AddFiles, AddStore, AddRead, AddSend, AddCommit, AddReturn,
                FilesetComplete, FilesetPending, FilesetPublish, FilesetLookup, FilesetEmpty,
                FilesetShutdown, FilesetEmptyPending, FileRecord, FileCheck, FileShutdown,
                Cancel, CancelShutdown, database
  <2>4. ASSUME Environment \/ Faults \/ UNCHANGED vars
        PROVE  status' = status
    BY <2>4 DEF Environment, Lookup, Transform, Faults, Abort, RetryComplete, LoseReport,
                TransformerDies, LookupDies, vars, database
  <2>5. QED
    BY <2>1, <2>2, <2>3, <2>4 DEF Next
<1>2. QED
  BY <1>1, TypeCorrect, RequestsOKHolds, PTL DEF Spec, NeverWaitsAgain

\* The transformers of such a request are taken down only when its count is full, so
\* that no more is left than the faults brought about, or by a user who cancels it.
THEOREM TransformersServeToTheEndHolds == Spec => TransformersServeToTheEnd
<1> DEFINE Served ==
      \A r \in published :
        r \in deployment /\ r \notin deployment'
          => \/ done[r] >= files[r] /\ tasks[r] + reports[r] <= faults
             \/ \E w \in Worker : handler[w].req = r /\ Serving(w, "cancel_shutdown")
<1>1. TypeOK /\ TasksConserved /\ RequestsOK /\ [Next]_vars => Served
  <2> SUFFICES ASSUME TypeOK, TasksConserved, RequestsOK, [Next]_vars, NEW r \in published,
                      r \in deployment, r \notin deployment'
               PROVE  \/ done[r] >= files[r] /\ tasks[r] + reports[r] <= faults
                      \/ \E w \in Worker : handler[w].req = r /\ Serving(w, "cancel_shutdown")
    OBVIOUS
  <2>1. r \in Request /\ PublishedOK(r)
    BY DEF TypeOK, RequestsOK, RequestOK
  <2>2. ASSUME NEW w \in Worker, NEW q \in Request, FilesetShutdown(w, q)
        PROVE  FALSE
    BY <2>1, <2>2 DEF FilesetShutdown, ShutdownTransformers, PublishedOK, Chosen
  <2>3. ASSUME NEW w \in Worker, FileShutdown(w)
        PROVE  done[r] >= files[r] /\ tasks[r] + reports[r] <= faults
    <3>1. done[r] >= files[r] /\ files[r] = sent[r]
      BY <2>1, <2>3 DEF FileShutdown, ShutdownTransformers, Serving, PublishedOK
    <3>2. /\ tasks[r] + reports[r] + done[r] <= sent[r] + faults
          /\ tasks[r] \in Nat /\ reports[r] \in Nat /\ done[r] \in Nat /\ sent[r] \in Nat
          /\ faults \in Nat
      BY <2>1, FaultAssumption DEF TasksConserved, TypeOK
    <3>3. QED
      BY <3>1, <3>2
  <2>4. ASSUME NEW w \in Worker, CancelShutdown(w)
        PROVE  handler[w].req = r /\ Serving(w, "cancel_shutdown")
    BY <2>4 DEF CancelShutdown, ShutdownTransformers
  <2>5. ASSUME NEW w \in Worker, WorkerStep(w) \/ User(w),
               ~(\E q \in Request : FilesetShutdown(w, q)),
               ~FileShutdown(w), ~CancelShutdown(w)
        PROVE  deployment \subseteq deployment'
    BY <2>5 DEF WorkerStep, User, SubmitStep, AddStep, FilesetStep, FileStep, CancelStep,
                Submit, SubmitCreate, SubmitSave, SubmitRefresh, SubmitSendLookup,
                SubmitCommitLookup, SubmitPublish, SubmitCommitPublish, SubmitPend,
                SubmitStart, AddFiles, AddStore, AddRead, AddSend, AddCommit, AddReturn,
                FilesetComplete, FilesetPending, FilesetPublish, FilesetLookup, FilesetCommit,
                FilesetEmpty, FilesetEmptyPending, FilesetEmptyCommit, FileRecord, FileCheck,
                FileComplete, Cancel, CancelCommit, cluster
  <2>6. ASSUME Environment \/ Faults \/ UNCHANGED vars
        PROVE  deployment' = deployment
    BY <2>6 DEF Environment, Lookup, Transform, Faults, Abort, RetryComplete, LoseReport,
                TransformerDies, LookupDies, vars, cluster
  <2>7. QED
    BY <2>2, <2>3, <2>4, <2>5, <2>6 DEF Next
<1>2. QED
  BY <1>1, TypeCorrect, TasksConservedHolds, RequestsOKHolds, PTL
     DEF Spec, TransformersServeToTheEnd
=============================================================================
