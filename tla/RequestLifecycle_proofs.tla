----------------------- MODULE RequestLifecycle_proofs -----------------------
(***************************************************************************)
(* Proofs about RequestLifecycle, for every number of requests, datasets,  *)
(* workers, finders and faults.                                            *)
(***************************************************************************)
EXTENDS RequestLifecycle, TLAPS

\* TypeOK in two parts: who is in which call of whom, and everything else.
CallsOK ==
  /\ finder \in [Finder -> FinderState]
  /\ handler \in [Worker -> Handler]
  /\ \A w \in Worker : HandlerOK(handler[w])
  /\ \A v, w \in Worker :
       InCall(handler[v]) /\ InCall(handler[w]) /\ handler[v].finder = handler[w].finder
         => v = w

DataOK ==
  /\ dsStatus \in [Dataset -> DatasetStatus \cup {"none"}]
  /\ dsFiles \in [Dataset -> Nat]
  /\ status \in [Request -> TransformStatus \cup {"none"}]
  /\ files \in [Request -> Nat]
  /\ done \in [Request -> Nat]
  /\ configmap \subseteq Request
  /\ deployment \subseteq Request
  /\ lookups \in [Dataset -> Nat]
  /\ tasks \in [Request -> Nat]
  /\ reports \in [Request -> Nat]
  /\ sent \in [Request -> Nat]
  /\ published \subseteq Request
  /\ faults \in 0..MaxFaults

\* The type invariant is what the calls rely on, and the types of the other data.
LEMMA TypeParts == /\ TypeOK <=> CallsOK /\ DataOK
                   /\ TypeOK' <=> CallsOK' /\ DataOK'
BY DEF TypeOK, CallsOK, DataOK

\* An idle worker serves nobody.
LEMMA IdleOK == Idle \in Handler /\ HandlerOK(Idle) /\ ~InCall(Idle)
BY DEF Idle, Handler, Stage, HandlerOK, InCall, SubmitStage, AddStage, FilesetStage,
       FileStage, CancelStage

\* A step of a handler that changes no finder: it was in the call it is in.
LEMMA OwnStep ==
  ASSUME CallsOK, NEW w \in Worker, NEW h \in Handler, Become(w, h),
         UNCHANGED finder, HandlerOK(h),
         InCall(h) => InCall(handler[w]) /\ h.finder = handler[w].finder
  PROVE  CallsOK'
<1>1. /\ handler' \in [Worker -> Handler]
      /\ handler'[w] = h
      /\ \A v \in Worker \ {w} : handler'[v] = handler[v]
  BY DEF CallsOK, Become
<1>2. \A v \in Worker : HandlerOK(handler'[v])
  BY <1>1 DEF CallsOK
<1>3. \A v \in Worker : HandlerOK(handler[v])'
  BY <1>2 DEF HandlerOK
<1>4. ASSUME NEW u \in Worker, NEW v \in Worker, InCall(handler'[u]),
             InCall(handler'[v]), handler'[u].finder = handler'[v].finder
      PROVE  u = v
  <2>1. \A x \in Worker : InCall(handler'[x]) =>
          InCall(handler[x]) /\ handler'[x].finder = handler[x].finder
    BY <1>1
  <2>2. QED
    BY <1>4, <2>1 DEF CallsOK
<1>5. QED
  BY <1>1, <1>3, <1>4 DEF CallsOK, InCall

\* A finder that was not in a call makes one, and worker w serves it.
LEMMA CallBegins ==
  ASSUME CallsOK, NEW w \in Worker, NEW f \in Finder, NEW h \in Handler, Become(w, h),
         finder[f].ds # None, ~finder[f].busy,
         finder' = [finder EXCEPT ![f].busy = TRUE],
         h.finder = f, InCall(h), h.pc \notin {"add_send", "add_commit"},
         h.pc \in AddStage => h.n <= finder[f].left
  PROVE  CallsOK'
<1>1. /\ handler' \in [Worker -> Handler]
      /\ handler'[w] = h
      /\ \A v \in Worker \ {w} : handler'[v] = handler[v]
  BY DEF CallsOK, Become
<1>2. /\ finder' \in [Finder -> FinderState]
      /\ finder'[f].ds = finder[f].ds /\ finder'[f].left = finder[f].left
      /\ finder'[f].busy
      /\ \A g \in Finder \ {f} : finder'[g] = finder[g]
      /\ finder[f].ds \in Dataset
  BY DEF CallsOK, FinderState
<1>3. \A v \in Worker \ {w} : InCall(handler[v]) => handler[v].finder # f
  BY DEF CallsOK, HandlerOK
<1>4. HandlerOK(handler[w])'
  BY <1>1, <1>2 DEF HandlerOK, InCall, AddStage, FilesetStage, SubmitStage,
                    FileStage, CancelStage
<1>5. ASSUME NEW v \in Worker \ {w}
      PROVE  HandlerOK(handler[v])'
  <2>1. HandlerOK(handler[v]) /\ handler'[v] = handler[v]
    BY <1>1 DEF CallsOK
  <2>2. CASE ~InCall(handler[v])
    BY <2>1, <2>2 DEF HandlerOK, InCall
  <2>3. CASE InCall(handler[v])
    <3>1. handler[v].finder \in Finder \ {f}
      BY <1>3, <2>1, <2>3 DEF HandlerOK
    <3>2. QED
      BY <3>1, <1>2, <2>1, <2>3 DEF HandlerOK, InCall
  <2>4. QED
    BY <2>2, <2>3
<1>6. ASSUME NEW u \in Worker, NEW v \in Worker, InCall(handler'[u]),
             InCall(handler'[v]), handler'[u].finder = handler'[v].finder
      PROVE  u = v
  BY <1>1, <1>3, <1>6 DEF CallsOK
<1>7. QED
  BY <1>1, <1>2, <1>4, <1>5, <1>6 DEF CallsOK, InCall

\* The call that worker w serves ends, and its finder goes on.
LEMMA CallEnds ==
  ASSUME CallsOK, NEW w \in Worker, Return(w), InCall(handler[w]),
         NEW s \in FinderState,
         finder' = [finder EXCEPT ![handler[w].finder] = s]
  PROVE  CallsOK'
<1> DEFINE f == handler[w].finder
<1>0. f \in Finder
  BY DEF CallsOK, HandlerOK
<1>1. /\ handler' \in [Worker -> Handler]
      /\ handler'[w] = Idle
      /\ \A v \in Worker \ {w} : handler'[v] = handler[v]
  BY IdleOK DEF CallsOK, Return, Become
<1>2. /\ finder' \in [Finder -> FinderState]
      /\ \A g \in Finder \ {f} : finder'[g] = finder[g]
  BY <1>0 DEF CallsOK
<1>3. \A v \in Worker \ {w} : InCall(handler[v]) => handler[v].finder # f
  BY DEF CallsOK
<1>4. HandlerOK(handler[w])'
  BY <1>1, IdleOK DEF HandlerOK, InCall, Idle, AddStage, FilesetStage, SubmitStage,
                      FileStage, CancelStage
<1>5. ASSUME NEW v \in Worker \ {w}
      PROVE  HandlerOK(handler[v])'
  <2>1. HandlerOK(handler[v]) /\ handler'[v] = handler[v]
    BY <1>1 DEF CallsOK
  <2>2. CASE ~InCall(handler[v])
    BY <2>1, <2>2 DEF HandlerOK, InCall
  <2>3. CASE InCall(handler[v])
    <3>1. handler[v].finder \in Finder \ {f}
      BY <1>3, <2>1, <2>3 DEF HandlerOK
    <3>2. QED
      BY <3>1, <1>2, <2>1, <2>3 DEF HandlerOK, InCall
  <2>4. QED
    BY <2>2, <2>3
<1>6. ASSUME NEW u \in Worker, NEW v \in Worker, InCall(handler'[u]),
             InCall(handler'[v]), handler'[u].finder = handler'[v].finder
      PROVE  u = v
  BY <1>1, <1>6, IdleOK DEF CallsOK
<1>7. QED
  BY <1>1, <1>2, <1>4, <1>5, <1>6 DEF CallsOK, InCall

\* A finder that no worker serves takes or leaves a lookup.
LEMMA FinderStep ==
  ASSUME CallsOK, NEW f \in Finder, UNCHANGED handler,
         \A v \in Worker : InCall(handler[v]) => handler[v].finder # f,
         NEW s \in FinderState, finder' = [finder EXCEPT ![f] = s]
  PROVE  CallsOK'
<1>1. /\ finder' \in [Finder -> FinderState]
      /\ \A g \in Finder \ {f} : finder'[g] = finder[g]
  BY DEF CallsOK
<1>2. \A v \in Worker : InCall(handler[v]) => handler[v].finder \in Finder \ {f}
  BY DEF CallsOK, HandlerOK
<1>3. \A v \in Worker : HandlerOK(handler[v])'
  BY <1>1, <1>2 DEF CallsOK, HandlerOK, InCall
<1>4. QED
  BY <1>1, <1>3 DEF CallsOK, InCall

\* A handler ends, whoever called it; its finder, if any, was not touched.
LEMMA ReturnStep ==
  ASSUME CallsOK, NEW w \in Worker, Return(w), UNCHANGED finder
  PROVE  CallsOK'
BY IdleOK, OwnStep DEF Return

\* A user or a transformer calls.
LEMMA CallStep ==
  ASSUME CallsOK, NEW w \in Worker, NEW r \in Request,
         NEW stage \in SubmitStage \cup FileStage \cup CancelStage,
         Become(w, [Idle EXCEPT !.req = r, !.pc = stage]), UNCHANGED finder
  PROVE  CallsOK'
<1> DEFINE h == [Idle EXCEPT !.req = r, !.pc = stage]
<1>1. h \in Handler
  BY DEF Idle, Handler, Stage
<1>2. HandlerOK(h) /\ ~InCall(h)
  BY DEF Idle, HandlerOK, InCall, SubmitStage, AddStage, FilesetStage, FileStage,
         CancelStage
<1>3. QED
  BY <1>1, <1>2, OwnStep

\* A handler that serves a user or a transformer goes on, with the same request.
LEMMA GotoStep ==
  ASSUME CallsOK, NEW w \in Worker,
         NEW S \in {SubmitStage, FileStage, CancelStage}, handler[w].pc \in S,
         NEW stage \in S, NEW k \in Nat,
         Become(w, [handler[w] EXCEPT !.pc = stage, !.n = k]), UNCHANGED finder
  PROVE  CallsOK'
<1> DEFINE h == [handler[w] EXCEPT !.pc = stage, !.n = k]
<1>1. h \in Handler
  BY DEF CallsOK, Handler, Stage
<1>2. handler[w].req \in Request /\ h.req = handler[w].req /\ h.pc = stage
  BY DEF CallsOK, HandlerOK, Handler
<1>3. HandlerOK(h) /\ ~InCall(h)
  BY <1>2 DEF HandlerOK, InCall, SubmitStage, AddStage, FilesetStage, FileStage,
              CancelStage
<1>4. QED
  BY <1>1, <1>3, OwnStep

\* A step to another stage of the same call changes nothing that the calls rely on.
LEMMA GotoKeeps ==
  ASSUME CallsOK, NEW w \in Worker,
         NEW S \in {SubmitStage, FileStage, CancelStage}, handler[w].pc \in S,
         NEW stage \in S, Goto(w, stage), UNCHANGED finder
  PROVE  CallsOK'
<1>1. handler[w].n \in Nat
  BY DEF CallsOK, Handler
<1>2. [handler[w] EXCEPT !.pc = stage]
        = [handler[w] EXCEPT !.pc = stage, !.n = handler[w].n]
  BY DEF CallsOK, Handler
<1>3. QED
  BY <1>1, <1>2, GotoStep DEF Goto

\* Sending tasks and taking transformers down keep the types of what they touch.
LEMMA SendType ==
  ASSUME DataOK, NEW r \in Request, NEW n \in Nat, SendTasks(r, n)
  PROVE  /\ tasks' \in [Request -> Nat] /\ sent' \in [Request -> Nat]
         /\ UNCHANGED <<lookups, reports>>
BY DEF DataOK, SendTasks

\* Shutting down the transformers of a request keeps the types.
LEMMA ShutdownType ==
  ASSUME DataOK, NEW r \in Request, ShutdownTransformers(r)
  PROVE  /\ configmap' \subseteq Request /\ deployment' \subseteq Request
         /\ tasks' \in [Request -> Nat]
         /\ UNCHANGED <<lookups, reports, sent>>
BY DEF DataOK, ShutdownTransformers
-----------------------------------------------------------------------------
\* The steps of a submission keep the types.
LEMMA SubmitType ==
  ASSUME TypeOK, NEW w \in Worker, SubmitStep(w) \/ \E r \in Request : Submit(w, r)
  PROVE  TypeOK'
<1> USE TypeParts, DatasetAssumption
<1> USE DEF Serving
<1>0. CallsOK /\ DataOK
  OBVIOUS
<1>a. \A S \in SubmitStage : S \in Stage
  BY DEF Stage
<1>b. handler[w].pc \in SubmitStage =>
        handler[w].req \in Request /\ DatasetOf[handler[w].req] \in Dataset
  BY DEF CallsOK, HandlerOK
<1>1. ASSUME NEW r \in Request, Submit(w, r)
      PROVE  TypeOK'
  <2>1. CallsOK'
    BY <1>1, CallStep DEF Submit, SubmitStage
  <2>2. DataOK'
    BY <1>1 DEF Submit, DataOK, database, cluster, brokers
  <2>3. QED
    BY <2>1, <2>2
<1>2. ASSUME SubmitCreate(w)
      PROVE  TypeOK'
  <2>1. CallsOK'
    BY <1>2, GotoKeeps, ReturnStep DEF SubmitCreate, SubmitStage
  <2>2. DataOK'
    BY <1>2, <1>b DEF SubmitCreate, DataOK, cluster, brokers, DatasetStatus, SubmitStage
  <2>3. QED
    BY <2>1, <2>2
<1>3. ASSUME SubmitSave(w)
      PROVE  TypeOK'
  <2>1. CallsOK'
    BY <1>3, GotoKeeps, ReturnStep DEF SubmitSave, SubmitStage
  <2>2. DataOK'
    BY <1>3, <1>b DEF SubmitSave, DataOK, brokers, TransformStatus, SubmitStage
  <2>3. QED
    BY <2>1, <2>2
<1>4. ASSUME SubmitRefresh(w)
      PROVE  TypeOK'
  <2>1. CallsOK'
    BY <1>4, GotoKeeps DEF SubmitRefresh, SubmitStage
  <2>2. DataOK'
    BY <1>4 DEF SubmitRefresh, DataOK, database, cluster, brokers
  <2>3. QED
    BY <2>1, <2>2
<1>5. ASSUME SubmitSendLookup(w)
      PROVE  TypeOK'
  <2>1. CallsOK'
    BY <1>5, GotoKeeps DEF SubmitSendLookup, SubmitStage
  <2>2. DataOK'
    BY <1>5, <1>b DEF SubmitSendLookup, DataOK, database, cluster, SubmitStage
  <2>3. QED
    BY <2>1, <2>2
<1>6. ASSUME SubmitCommitLookup(w)
      PROVE  TypeOK'
  <2>1. CallsOK'
    BY <1>6, GotoKeeps DEF SubmitCommitLookup, SubmitStage
  <2>2. DataOK'
    BY <1>6, <1>b DEF SubmitCommitLookup, DataOK, cluster, brokers, DatasetStatus,
                      TransformStatus, SubmitStage
  <2>3. QED
    BY <2>1, <2>2
<1>7. ASSUME SubmitPublish(w)
      PROVE  TypeOK'
  <2>1. handler[w].req \in Request /\ dsFiles[DatasetOf[handler[w].req]] \in Nat
    BY <1>7, <1>b DEF SubmitPublish, SubmitStage, DataOK
  <2>2. CallsOK'
    BY <1>7, <2>1, GotoStep DEF SubmitPublish, SubmitStage
  <2>3. DataOK'
    BY <1>7, <2>1, SendType DEF SubmitPublish, DataOK, database, cluster
  <2>4. QED
    BY <2>2, <2>3
<1>8. ASSUME SubmitCommitPublish(w)
      PROVE  TypeOK'
  <2>1. CallsOK'
    BY <1>8, GotoKeeps DEF SubmitCommitPublish, SubmitStage
  <2>2. handler[w].n \in Nat
    BY DEF CallsOK, Handler
  <2>3. DataOK'
    BY <1>8, <2>2, <1>b DEF SubmitCommitPublish, DataOK, cluster, brokers,
                            TransformStatus, SubmitStage
  <2>4. QED
    BY <2>1, <2>3
<1>9. ASSUME SubmitPend(w)
      PROVE  TypeOK'
  <2>1. CallsOK'
    BY <1>9, GotoKeeps DEF SubmitPend, SubmitStage
  <2>2. DataOK'
    BY <1>9, <1>b DEF SubmitPend, DataOK, cluster, brokers, TransformStatus, SubmitStage
  <2>3. QED
    BY <2>1, <2>2
<1>10. ASSUME SubmitStart(w)
       PROVE  TypeOK'
  <2>1. CallsOK'
    BY <1>10, ReturnStep DEF SubmitStart
  <2>2. DataOK'
    BY <1>10, <1>b DEF SubmitStart, DataOK, database, brokers, SubmitStage
  <2>3. QED
    BY <2>1, <2>2
<1>11. QED
  BY <1>1, <1>2, <1>3, <1>4, <1>5, <1>6, <1>7, <1>8, <1>9, <1>10 DEF SubmitStep

\* The steps of an add-files call keep the types.
LEMMA AddType ==
  ASSUME TypeOK, NEW w \in Worker, AddStep(w)
  PROVE  TypeOK'
<1> USE TypeParts
<1> USE DEF Serving
<1>0. CallsOK /\ DataOK /\ handler[w] \in Handler
  BY DEF CallsOK
<1>a. InCall(handler[w]) =>
        /\ handler[w].finder \in Finder
        /\ finder[handler[w].finder] \in FinderState
        /\ finder[handler[w].finder].ds \in Dataset
  BY <1>0 DEF CallsOK, HandlerOK
<1>1. ASSUME NEW f \in Finder, AddFiles(w, f)
      PROVE  TypeOK'
  <2>1. PICK n \in 1..finder[f].left :
          Become(w, [Idle EXCEPT !.pc = "add_store", !.finder = f, !.n = n,
                                 !.todo = LookupRequests(finder[f].ds)])
    BY <1>1 DEF AddFiles
  <2> DEFINE h == [Idle EXCEPT !.pc = "add_store", !.finder = f, !.n = n,
                               !.todo = LookupRequests(finder[f].ds)]
  <2>2. n \in Nat /\ n <= finder[f].left
    BY <1>0 DEF CallsOK, FinderState
  <2>3. h \in Handler
    BY <2>2 DEF Idle, Handler, Stage, AddStage, LookupRequests
  <2>4. CallsOK'
    BY <1>0, <1>1, <2>1, <2>2, <2>3, CallBegins DEF AddFiles, InCall, AddStage, Idle
  <2>5. DataOK'
    BY <1>0, <1>1 DEF AddFiles, DataOK, database, cluster, brokers
  <2>6. QED
    BY <2>4, <2>5
<1>2. ASSUME AddStore(w)
      PROVE  TypeOK'
  <2> DEFINE h == [handler[w] EXCEPT !.pc = "add_next"]
  <2>1. h \in Handler /\ HandlerOK(h) /\ InCall(h) /\ InCall(handler[w])
    BY <1>0, <1>2 DEF AddStore, CallsOK, HandlerOK, Handler, InCall, Stage, AddStage,
                      SubmitStage, FileStage, CancelStage
  <2>2. CallsOK'
    BY <1>0, <1>2, <2>1, OwnStep DEF AddStore, Goto, Handler
  <2>3. handler[w].n \in Nat
    BY <1>0 DEF Handler
  <2>4. DataOK'
    BY <1>0, <1>2, <1>a, <2>1, <2>3 DEF AddStore, DataOK, cluster, brokers, CallDataset
  <2>5. QED
    BY <2>2, <2>4
<1>3. ASSUME NEW r \in Request, AddRead(w, r)
      PROVE  TypeOK'
  <2> DEFINE h == [handler[w] EXCEPT !.pc = "add_send", !.req = r, !.read = files[r]]
  <2>0. files[r] \in Nat
    BY <1>0 DEF DataOK
  <2>1. h \in Handler /\ HandlerOK(h) /\ InCall(h) /\ InCall(handler[w])
    BY <1>0, <1>3, <2>0 DEF AddRead, CallsOK, HandlerOK, Handler, InCall, Stage, AddStage,
                            SubmitStage, FileStage, CancelStage
  <2>2. CallsOK'
    BY <1>0, <1>3, <2>1, OwnStep DEF AddRead, Handler
  <2>3. DataOK'
    BY <1>0, <1>3 DEF AddRead, DataOK, database, cluster, brokers
  <2>4. QED
    BY <2>2, <2>3
<1>4. ASSUME AddSend(w)
      PROVE  TypeOK'
  <2> DEFINE h == [handler[w] EXCEPT !.pc = "add_commit"]
  <2>0. handler[w].req \in Request /\ handler[w].n \in Nat
    BY <1>0, <1>4 DEF AddSend, CallsOK, HandlerOK, Handler
  <2>1. h \in Handler /\ HandlerOK(h) /\ InCall(h) /\ InCall(handler[w])
    BY <1>0, <1>4, <2>0 DEF AddSend, CallsOK, HandlerOK, Handler, InCall, Stage, AddStage,
                            SubmitStage, FileStage, CancelStage
  <2>2. CallsOK'
    BY <1>0, <1>4, <2>1, OwnStep DEF AddSend, Goto, Handler
  <2>3. DataOK'
    BY <1>0, <1>4, <2>0, SendType DEF AddSend, DataOK, database, cluster
  <2>4. QED
    BY <2>2, <2>3
<1>5. ASSUME AddCommit(w)
      PROVE  TypeOK'
  <2> DEFINE r == handler[w].req
  <2> DEFINE h == [handler[w] EXCEPT !.pc = "add_next", !.req = None, !.todo = @ \ {r}]
  <2>0. r \in Request /\ handler[w].n \in Nat /\ handler[w].read \in Nat
    BY <1>0, <1>5 DEF AddCommit, CallsOK, HandlerOK, Handler
  <2>1. h \in Handler /\ HandlerOK(h) /\ InCall(h) /\ InCall(handler[w])
    BY <1>0, <1>5 DEF AddCommit, CallsOK, HandlerOK, Handler, InCall, Stage, AddStage,
                      SubmitStage, FileStage, CancelStage
  <2>2. CallsOK'
    BY <1>0, <1>5, <2>1, OwnStep DEF AddCommit, Handler
  <2>3. DataOK'
    BY <1>0, <1>5, <2>0 DEF AddCommit, DataOK, cluster, brokers
  <2>4. QED
    BY <2>2, <2>3
<1>6. ASSUME AddReturn(w)
      PROVE  TypeOK'
  <2> DEFINE f == handler[w].finder
  <2> DEFINE s == [finder[f] EXCEPT !.left = @ - handler[w].n, !.busy = FALSE]
  <2>1. InCall(handler[w]) /\ handler[w].n \in Nat /\ handler[w].n <= finder[f].left
    BY <1>0, <1>6 DEF AddReturn, CallsOK, HandlerOK, InCall, AddStage, Handler
  <2>2. s \in FinderState
    <3>1. finder[f].left \in Nat
      BY <1>a, <2>1 DEF FinderState
    <3>2. finder[f].left - handler[w].n \in Nat
      BY <2>1, <3>1
    <3>3. QED
      BY <1>a, <2>1, <3>2 DEF FinderState
  <2>3. finder' = [finder EXCEPT ![f] = s]
    BY <1>0, <1>6, <1>a, <2>1 DEF AddReturn, Answered, CallsOK, FinderState
  <2>4. CallsOK'
    BY <1>0, <1>6, <2>1, <2>2, <2>3, CallEnds DEF AddReturn
  <2>5. DataOK'
    BY <1>0, <1>6 DEF AddReturn, DataOK, database, cluster, brokers
  <2>6. QED
    BY <2>4, <2>5
<1>7. QED
  BY <1>1, <1>2, <1>3, <1>4, <1>5, <1>6 DEF AddStep

\* The steps of a fileset-complete call keep the types.
LEMMA FilesetType ==
  ASSUME TypeOK, NEW w \in Worker, FilesetStep(w)
  PROVE  TypeOK'
<1> USE TypeParts, DatasetAssumption
<1> USE DEF Serving
<1>0. CallsOK /\ DataOK /\ handler[w] \in Handler
  BY DEF CallsOK
<1>a. InCall(handler[w]) =>
        /\ handler[w].finder \in Finder
        /\ finder[handler[w].finder] \in FinderState
        /\ finder[handler[w].finder].ds \in Dataset
  BY <1>0 DEF CallsOK, HandlerOK
<1>b. ASSUME NEW h \in Handler, h.finder = handler[w].finder, Become(w, h),
             handler[w].pc \in FilesetStage, h.pc \in FilesetStage, UNCHANGED finder
      PROVE  CallsOK'
  <2>1. HandlerOK(h) /\ InCall(h) /\ InCall(handler[w])
    BY <1>0, <1>b DEF CallsOK, HandlerOK, InCall, AddStage, FilesetStage, SubmitStage,
                      FileStage, CancelStage
  <2>2. QED
    BY <1>0, <1>b, <2>1, OwnStep
<1>c. ASSUME LookupOver(handler[w].finder), Return(w), handler[w].pc \in FilesetStage
      PROVE  CallsOK'
  <2>1. Resting \in FinderState
    BY DEF Resting, FinderState
  <2>2. QED
    BY <1>0, <1>c, <2>1, CallEnds DEF LookupOver, InCall
<1>1. ASSUME NEW f \in Finder, FilesetComplete(w, f)
      PROVE  TypeOK'
  <2> DEFINE stage == IF finder[f].total > 0 THEN "fs_pending" ELSE "fs_empty"
  <2> DEFINE h == [Idle EXCEPT !.finder = f, !.pc = stage]
  <2>0. stage \in FilesetStage
    BY DEF FilesetStage
  <2>1. h \in Handler /\ h.pc = stage /\ h.finder = f
    BY <2>0 DEF Idle, Handler, Stage, FilesetStage
  <2>2. InCall(h) /\ h.pc \notin AddStage
    BY <2>0, <2>1 DEF InCall, AddStage, FilesetStage
  <2>3. CallsOK'
    BY <1>0, <1>1, <2>1, <2>2, CallBegins DEF FilesetComplete, AddStage
  <2>4. finder[f].ds \in Dataset
    BY <1>0, <1>1 DEF FilesetComplete, CallsOK, FinderState
  <2>5. DataOK'
    BY <1>0, <1>1, <2>4 DEF FilesetComplete, DataOK, cluster, brokers, DatasetStatus
  <2>6. QED
    BY <2>3, <2>5
<1>2. ASSUME FilesetPending(w)
      PROVE  TypeOK'
  <2> DEFINE p == PendingRequests(CallDataset(w))
  <2> DEFINE h == [handler[w] EXCEPT !.pc = "fs_publish", !.pend = p, !.todo = p,
                                     !.n = dsFiles[CallDataset(w)]]
  <2>1. dsFiles[CallDataset(w)] \in Nat
    BY <1>0, <1>2, <1>a DEF FilesetPending, InCall, FilesetStage, CallDataset, DataOK
  <2>2. h \in Handler /\ h.finder = handler[w].finder /\ h.pc \in FilesetStage
    BY <1>0, <2>1 DEF Handler, Stage, FilesetStage, PendingRequests
  <2>3. CallsOK'
    BY <1>2, <1>b, <2>2 DEF FilesetPending, FilesetStage
  <2>4. DataOK'
    BY <1>0, <1>2 DEF FilesetPending, DataOK, database, cluster, brokers
  <2>5. QED
    BY <2>3, <2>4
<1>3. ASSUME NEW r \in Request, FilesetPublish(w, r)
      PROVE  TypeOK'
  <2> DEFINE h == [handler[w] EXCEPT !.todo = @ \ {r}]
  <2>1. h \in Handler /\ h.finder = handler[w].finder /\ h.pc = handler[w].pc
    BY <1>0 DEF Handler
  <2>2. CallsOK'
    BY <1>3, <1>b, <2>1 DEF FilesetPublish, FilesetStage
  <2>3. handler[w].n \in Nat
    BY <1>0 DEF Handler
  <2>4. DataOK'
    BY <1>0, <1>3, <2>3, SendType DEF FilesetPublish, DataOK, database, cluster
  <2>5. QED
    BY <2>2, <2>4
<1>4. ASSUME FilesetLookup(w)
      PROVE  TypeOK'
  <2> DEFINE h == [handler[w] EXCEPT !.pc = "fs_commit",
                                     !.look = LookupRequests(CallDataset(w))]
  <2>1. h \in Handler /\ h.finder = handler[w].finder /\ h.pc \in FilesetStage
    BY <1>0 DEF Handler, Stage, FilesetStage, LookupRequests
  <2>2. CallsOK'
    BY <1>4, <1>b, <2>1 DEF FilesetLookup, FilesetStage
  <2>3. DataOK'
    BY <1>0, <1>4 DEF FilesetLookup, DataOK, database, cluster, brokers
  <2>4. QED
    BY <2>2, <2>3
<1>5. ASSUME FilesetCommit(w)
      PROVE  TypeOK'
  <2>1. CallsOK'
    BY <1>5, <1>c DEF FilesetCommit, FilesetStage
  <2>2. handler[w].n \in Nat
    BY <1>0 DEF Handler
  <2>3. DataOK'
    BY <1>0, <1>5, <2>2 DEF FilesetCommit, DataOK, cluster, brokers, TransformStatus
  <2>4. QED
    BY <2>1, <2>3
<1>6. ASSUME FilesetEmpty(w)
      PROVE  TypeOK'
  <2> DEFINE l == LookupRequests(CallDataset(w))
  <2> DEFINE h == [handler[w] EXCEPT !.pc = "fs_shutdown", !.look = l, !.todo = l]
  <2>1. h \in Handler /\ h.finder = handler[w].finder /\ h.pc \in FilesetStage
    BY <1>0 DEF Handler, Stage, FilesetStage, LookupRequests
  <2>2. CallsOK'
    BY <1>6, <1>b, <2>1 DEF FilesetEmpty, FilesetStage
  <2>3. DataOK'
    BY <1>0, <1>6 DEF FilesetEmpty, DataOK, database, cluster, brokers
  <2>4. QED
    BY <2>2, <2>3
<1>7. ASSUME NEW r \in Request, FilesetShutdown(w, r)
      PROVE  TypeOK'
  <2> DEFINE h == [handler[w] EXCEPT !.todo = @ \ {r}]
  <2>1. h \in Handler /\ h.finder = handler[w].finder /\ h.pc = handler[w].pc
    BY <1>0 DEF Handler
  <2>2. CallsOK'
    BY <1>7, <1>b, <2>1 DEF FilesetShutdown, FilesetStage
  <2>3. DataOK'
    BY <1>0, <1>7, ShutdownType DEF FilesetShutdown, DataOK, database
  <2>4. QED
    BY <2>2, <2>3
<1>8. ASSUME FilesetEmptyPending(w)
      PROVE  TypeOK'
  <2> DEFINE h == [handler[w] EXCEPT !.pc = "fs_empty_commit",
                                     !.pend = PendingRequests(CallDataset(w))]
  <2>1. h \in Handler /\ h.finder = handler[w].finder /\ h.pc \in FilesetStage
    BY <1>0 DEF Handler, Stage, FilesetStage, PendingRequests
  <2>2. CallsOK'
    BY <1>8, <1>b, <2>1 DEF FilesetEmptyPending, FilesetStage
  <2>3. DataOK'
    BY <1>0, <1>8 DEF FilesetEmptyPending, DataOK, database, cluster, brokers
  <2>4. QED
    BY <2>2, <2>3
<1>9. ASSUME FilesetEmptyCommit(w)
      PROVE  TypeOK'
  <2>1. CallsOK'
    BY <1>9, <1>c DEF FilesetEmptyCommit, FilesetStage
  <2>2. DataOK'
    BY <1>0, <1>9 DEF FilesetEmptyCommit, DataOK, cluster, brokers, TransformStatus
  <2>3. QED
    BY <2>1, <2>2
<1>10. QED
  BY <1>1, <1>2, <1>3, <1>4, <1>5, <1>6, <1>7, <1>8, <1>9 DEF FilesetStep

\* The steps of a file-complete call keep the types.
LEMMA FileType ==
  ASSUME TypeOK, NEW w \in Worker, FileStep(w)
  PROVE  TypeOK'
<1> USE TypeParts
<1> USE DEF Serving
<1>0. CallsOK /\ DataOK
  OBVIOUS
<1>a. handler[w].pc \in FileStage => handler[w].req \in Request
  BY DEF CallsOK, HandlerOK
<1>1. ASSUME NEW r \in Request, FileRecord(w, r)
      PROVE  TypeOK'
  <2>1. CallsOK'
    BY <1>1, CallStep DEF FileRecord, FileStage
  <2>2. DataOK'
    BY <1>1 DEF FileRecord, DataOK, cluster
  <2>3. QED
    BY <2>1, <2>2
<1>2. ASSUME FileCheck(w)
      PROVE  TypeOK'
  <2>1. CallsOK'
    BY <1>2, GotoKeeps, ReturnStep DEF FileCheck, FileStage
  <2>2. DataOK'
    BY <1>2 DEF FileCheck, DataOK, database, cluster, brokers
  <2>3. QED
    BY <2>1, <2>2
<1>3. ASSUME FileComplete(w)
      PROVE  TypeOK'
  <2>1. CallsOK'
    BY <1>3, GotoKeeps DEF FileComplete, FileStage
  <2>2. DataOK'
    BY <1>3, <1>a DEF FileComplete, DataOK, cluster, brokers, TransformStatus, FileStage
  <2>3. QED
    BY <2>1, <2>2
<1>4. ASSUME FileShutdown(w)
      PROVE  TypeOK'
  <2>1. CallsOK'
    BY <1>4, ReturnStep DEF FileShutdown
  <2>2. DataOK'
    BY <1>4, <1>a, ShutdownType DEF FileShutdown, DataOK, database, FileStage
  <2>3. QED
    BY <2>1, <2>2
<1>5. QED
  BY <1>1, <1>2, <1>3, <1>4 DEF FileStep

\* The steps of a cancellation keep the types.
LEMMA CancelType ==
  ASSUME TypeOK, NEW w \in Worker, CancelStep(w) \/ \E r \in Request : Cancel(w, r)
  PROVE  TypeOK'
<1> USE TypeParts
<1> USE DEF Serving
<1>0. CallsOK /\ DataOK
  OBVIOUS
<1>a. handler[w].pc \in CancelStage => handler[w].req \in Request
  BY DEF CallsOK, HandlerOK
<1>1. ASSUME NEW r \in Request, Cancel(w, r)
      PROVE  TypeOK'
  <2>1. CallsOK'
    BY <1>1, CallStep DEF Cancel, CancelStage
  <2>2. DataOK'
    BY <1>1 DEF Cancel, DataOK, database, cluster, brokers
  <2>3. QED
    BY <2>1, <2>2
<1>2. ASSUME CancelShutdown(w)
      PROVE  TypeOK'
  <2>1. CallsOK'
    BY <1>2, GotoKeeps DEF CancelShutdown, CancelStage
  <2>2. DataOK'
    BY <1>2, <1>a, ShutdownType DEF CancelShutdown, DataOK, database, CancelStage
  <2>3. QED
    BY <2>1, <2>2
<1>3. ASSUME CancelCommit(w)
      PROVE  TypeOK'
  <2>1. CallsOK'
    BY <1>3, ReturnStep DEF CancelCommit
  <2>2. DataOK'
    BY <1>3, <1>a DEF CancelCommit, DataOK, cluster, brokers, TransformStatus, CancelStage
  <2>3. QED
    BY <2>1, <2>2
<1>4. QED
  BY <1>1, <1>2, <1>3 DEF CancelStep

\* The steps of finders and transformers keep the types.
LEMMA EnvironmentType ==
  ASSUME TypeOK, Environment
  PROVE  TypeOK'
<1> USE TypeParts, DatasetAssumption
<1>0. CallsOK /\ DataOK
  OBVIOUS
<1>1. ASSUME NEW f \in Finder, NEW d \in Dataset, Lookup(f, d)
      PROVE  TypeOK'
  <2>1. PICK n \in FileCounts :
          finder' = [finder EXCEPT ![f] = [ds |-> d, left |-> n, total |-> n, busy |-> FALSE]]
    BY <1>1 DEF Lookup
  <2>2. [ds |-> d, left |-> n, total |-> n, busy |-> FALSE] \in FinderState
    BY DEF FinderState
  <2>3. \A v \in Worker : InCall(handler[v]) => handler[v].finder # f
    BY <1>0, <1>1, NoneAssumption DEF Lookup, CallsOK, HandlerOK
  <2>4. CallsOK'
    BY <1>0, <1>1, <2>1, <2>2, <2>3, FinderStep DEF Lookup
  <2>5. DataOK'
    BY <1>0, <1>1 DEF Lookup, DataOK, database, cluster
  <2>6. QED
    BY <2>4, <2>5
<1>2. ASSUME NEW r \in Request, Transform(r)
      PROVE  TypeOK'
  <2>1. CallsOK'
    BY <1>0, <1>2 DEF Transform, CallsOK, HandlerOK, InCall
  <2>2. DataOK'
    BY <1>0, <1>2 DEF Transform, DataOK, database, cluster
  <2>3. QED
    BY <2>1, <2>2
<1>3. QED
  BY <1>1, <1>2 DEF Environment

\* The faults keep the types.
LEMMA FaultsType ==
  ASSUME TypeOK, Faults
  PROVE  TypeOK'
<1> USE TypeParts, FaultAssumption
<1>0. CallsOK /\ DataOK
  OBVIOUS
<1>1. ASSUME NEW w \in Worker, Abort(w)
      PROVE  TypeOK'
  <2> DEFINE h == handler[w]
  <2> DEFINE f == h.finder
  <2>1. DataOK'
    <3>1. faults' \in 0..MaxFaults
      BY <1>0, <1>1 DEF Abort, Fault, DataOK
    <3>2. reports' \in [Request -> Nat]
      BY <1>0, <1>1 DEF Abort, CallsOK, HandlerOK, DataOK
    <3>3. QED
      BY <1>0, <1>1, <3>1, <3>2 DEF Abort, DataOK, database, cluster
  <2>2. CASE ~InCall(h)
    <3>1. UNCHANGED finder /\ Return(w)
      BY <1>1, <2>2 DEF Abort, InCall
    <3>2. QED
      BY <1>0, <2>1, <3>1, ReturnStep
  <2>3. CASE InCall(h)
    <3>1. h.n \in Nat /\ f \in Finder /\ finder[f] \in FinderState /\ finder[f].ds \in Dataset
      BY <1>0, <2>3 DEF CallsOK, HandlerOK, Handler
    <3>2. Resting \in FinderState
      BY DEF Resting, FinderState
    <3>3. ASSUME NEW n \in Nat, n <= finder[f].left, Answered(f, n)
          PROVE  \E s \in FinderState : finder' = [finder EXCEPT ![f] = s]
      <4> DEFINE s == [finder[f] EXCEPT !.left = @ - n, !.busy = FALSE]
      <4>1. finder[f].left - n \in Nat
        BY <3>1, <3>3 DEF FinderState
      <4>2. s \in FinderState
        BY <3>1, <4>1 DEF FinderState
      <4>3. finder' = [finder EXCEPT ![f] = s]
        BY <1>0, <3>1, <3>3 DEF Answered, CallsOK, FinderState
      <4>4. QED
        BY <4>2, <4>3
    <3>4. \E s \in FinderState : finder' = [finder EXCEPT ![f] = s]
      <4>1. 0 <= finder[f].left
        BY <3>1 DEF FinderState
      <4>2. CASE h.pc \in AddStage
        <5>1. h.n <= finder[f].left
          BY <1>0, <4>2 DEF CallsOK, HandlerOK
        <5>2. Answered(f, 0) \/ Answered(f, h.n)
          BY <1>1, <4>2 DEF Abort, AddStage, FilesetStage
        <5>3. QED
          BY <3>1, <3>3, <4>1, <5>1, <5>2
      <4>3. CASE h.pc \in FilesetStage
        <5>1. Answered(f, 0) \/ LookupOver(f)
          BY <1>1, <4>3 DEF Abort, AddStage, FilesetStage
        <5>2. QED
          BY <3>2, <3>3, <4>1, <5>1 DEF LookupOver
      <4>4. QED
        BY <2>3, <4>2, <4>3 DEF InCall
    <3>5. CallsOK'
      BY <1>0, <1>1, <2>3, <3>4, CallEnds DEF Abort
    <3>6. QED
      BY <2>1, <3>5
  <2>4. QED
    BY <2>2, <2>3
<1>2. ASSUME NEW f \in Finder, LookupDies(f)
      PROVE  TypeOK'
  <2>1. Resting \in FinderState
    BY DEF Resting, FinderState
  <2>2. \A v \in Worker : InCall(handler[v]) => handler[v].finder # f
    BY <1>0, <1>2 DEF LookupDies, CallsOK, HandlerOK
  <2>3. CallsOK'
    BY <1>0, <1>2, <2>1, <2>2, FinderStep DEF LookupDies, LookupOver
  <2>4. DataOK'
    BY <1>0, <1>2 DEF LookupDies, Fault, DataOK, database, cluster, brokers
  <2>5. QED
    BY <2>3, <2>4
<1>3. ASSUME NEW w \in Worker, RetryComplete(w)
      PROVE  TypeOK'
  <2>1. CallsOK'
    BY <1>0, <1>3, GotoKeeps DEF RetryComplete, Serving, FileStage
  <2>2. DataOK'
    BY <1>0, <1>3 DEF RetryComplete, Fault, DataOK, database, cluster, brokers
  <2>3. QED
    BY <2>1, <2>2
<1>4. ASSUME NEW r \in Request, LoseReport(r) \/ TransformerDies(r)
      PROVE  TypeOK'
  <2>1. CallsOK'
    BY <1>0, <1>4 DEF LoseReport, TransformerDies, CallsOK, HandlerOK, InCall
  <2>2. faults' \in 0..MaxFaults
    BY <1>0, <1>4 DEF LoseReport, TransformerDies, Fault, DataOK
  <2>3. reports' \in [Request -> Nat] /\ tasks' \in [Request -> Nat]
    BY <1>0, <1>4 DEF LoseReport, TransformerDies, DataOK
  <2>4. DataOK'
    BY <1>0, <1>4, <2>2, <2>3 DEF LoseReport, TransformerDies, DataOK, database, cluster
  <2>5. QED
    BY <2>1, <2>4
<1>5. QED
  BY <1>1, <1>2, <1>3, <1>4 DEF Faults

\* Types of the whole App, and that each call of a finder is served by one worker,
\* which uses the fields its stage needs: preserved by every step.
THEOREM TypeCorrect == Spec => []TypeOK
<1>1. Init => TypeOK
  <2>1. Resting \in FinderState
    BY DEF Resting, FinderState
  <2>2. QED
    BY <2>1, IdleOK, FaultAssumption DEF Init, TypeOK
<1>2. TypeOK /\ [Next]_vars => TypeOK'
  <2> SUFFICES ASSUME TypeOK, [Next]_vars
               PROVE  TypeOK'
    OBVIOUS
  <2>1. ASSUME NEW w \in Worker, WorkerStep(w) \/ User(w)
        PROVE  TypeOK'
    BY <2>1, SubmitType, AddType, FilesetType, FileType, CancelType DEF WorkerStep, User
  <2>2. CASE UNCHANGED vars
    BY <2>2 DEF vars, database, cluster, brokers, TypeOK, HandlerOK, InCall
  <2>3. QED
    BY <2>1, <2>2, EnvironmentType, FaultsType DEF Next
<1>3. QED
  BY <1>1, <1>2, PTL DEF Spec
-----------------------------------------------------------------------------
(***************************************************************************)
(* Requests wait only for a dataset that a DID finder was asked for.       *)
(***************************************************************************)
WaitStatus == {"lookup", "pending_lookup"}

Asked(d) == d \notin FileList /\ dsStatus[d] \in {"looking", "complete"}

\* What a submission read of its dataset remains true while it acts on it.
Looks(w) ==
  /\ handler[w].pc \in {"save", "refresh"} => dsStatus[DatasetOf[handler[w].req]] # "none"
  /\ handler[w].pc \in {"send_lookup", "commit_lookup"} =>
       DatasetOf[handler[w].req] \notin FileList
  /\ handler[w].pc = "pend" => Asked(DatasetOf[handler[w].req])

LookupsOK ==
  /\ \A r \in Request : status[r] \in WaitStatus => Asked(DatasetOf[r])
  /\ \A d \in FileList : dsStatus[d] \in {"none", "complete"} /\ lookups[d] = 0
  /\ \A f \in Finder : finder[f].ds \notin FileList
  /\ \A w \in Worker : Looks(w)

\* What becomes of the workers when one goes on.
LEMMA Becoming ==
  ASSUME handler \in [Worker -> Handler], NEW w \in Worker, NEW h, Become(w, h)
  PROVE  handler'[w] = h /\ \A v \in Worker \ {w} : handler'[v] = handler[v]
BY DEF Become

LEMMA Going ==
  ASSUME handler \in [Worker -> Handler], NEW w \in Worker, NEW s, Goto(w, s)
  PROVE  /\ handler'[w].pc = s /\ handler'[w].req = handler[w].req
         /\ \A v \in Worker \ {w} : handler'[v] = handler[v]
BY DEF Goto, Become, Handler

LEMMA Returning ==
  ASSUME handler \in [Worker -> Handler], NEW w \in Worker, Return(w)
  PROVE  /\ handler'[w].pc = "idle"
         /\ \A v \in Worker \ {w} : handler'[v] = handler[v]
BY DEF Return, Become, Idle

\* A step of worker w, which may insert a dataset or take its lookup further.
LEMMA LookStep ==
  ASSUME TypeOK, LookupsOK, NEW w \in Worker,
         \A d \in Dataset :
           \/ dsStatus'[d] = dsStatus[d]
           \/ dsStatus[d] = "none" /\ dsStatus'[d] # "none"
           \/ dsStatus'[d] \in {"looking", "complete"},
         \A d \in FileList : dsStatus'[d] \in {dsStatus[d], "complete"},
         \A r \in Request : status'[r] \in WaitStatus =>
           status'[r] = status[r] \/ Asked(DatasetOf[r])',
         \A d \in FileList : lookups'[d] = 0,
         \A f \in Finder : finder'[f].ds \notin FileList,
         \A v \in Worker \ {w} : handler'[v] = handler[v],
         Looks(w)'
  PROVE  LookupsOK'
<1>1. \A d \in Dataset : Asked(d) => Asked(d)'
  BY DatasetAssumption DEF Asked
<1>2. \A d \in Dataset : dsStatus[d] # "none" => dsStatus'[d] # "none"
  OBVIOUS
<1>3. ASSUME NEW r \in Request, status'[r] \in WaitStatus  PROVE Asked(DatasetOf[r])'
  BY <1>1, <1>3, DatasetAssumption DEF LookupsOK
<1>4. ASSUME NEW v \in Worker  PROVE Looks(v)'
  <2>1. CASE v = w
    BY <2>1
  <2>2. CASE v # w
    <3>1. handler'[v] = handler[v] /\ Looks(v)
      BY <2>2 DEF LookupsOK
    <3>2. handler[v].pc \in {"save", "refresh", "send_lookup", "commit_lookup", "pend"}
            => DatasetOf[handler[v].req] \in Dataset
      BY DatasetAssumption DEF TypeOK, HandlerOK, SubmitStage
    <3> QED  BY <1>1, <1>2, <3>1, <3>2 DEF Looks
  <2> QED  BY <2>1, <2>2
<1> QED  BY <1>3, <1>4 DEF LookupsOK

\* A step that submits nothing: it asks for no lookup and makes nobody wait.
LEMMA LookElsewhere ==
  ASSUME TypeOK, LookupsOK, NEW w \in Worker, UNCHANGED <<dsStatus, lookups>>,
         \A r \in Request : status'[r] \in WaitStatus => status'[r] = status[r],
         \A f \in Finder : finder'[f].ds \in {finder[f].ds, None},
         \A v \in Worker \ {w} : handler'[v] = handler[v],
         \/ handler'[w] = handler[w]
         \/ handler'[w].pc \notin {"save", "refresh", "send_lookup", "commit_lookup", "pend"}
  PROVE  LookupsOK'
<1>1. \A f \in Finder : finder'[f].ds \notin FileList
  BY DatasetAssumption, NoneAssumption DEF LookupsOK
<1>2. Looks(w)'
  BY DEF LookupsOK, Looks, Asked
<1> QED  BY <1>1, <1>2, LookStep DEF LookupsOK

LEMMA SubmitLooks ==
  ASSUME TypeOK, LookupsOK, NEW w \in Worker, SubmitStep(w) \/ \E r \in Request : Submit(w, r)
  PROVE  LookupsOK'
<1> DEFINE q == handler[w].req
           d == DatasetOf[q]
<1>0. /\ dsStatus \in [Dataset -> DatasetStatus \cup {"none"}]
      /\ status \in [Request -> TransformStatus \cup {"none"}]
      /\ lookups \in [Dataset -> Nat]
      /\ handler \in [Worker -> Handler]
      /\ \A f \in Finder : finder[f].ds \notin FileList
      /\ \A e \in FileList : e \in Dataset /\ lookups[e] = 0
                             /\ dsStatus[e] \in {"none", "complete"}
      /\ handler[w].pc \in SubmitStage => q \in Request /\ d \in Dataset
      /\ Looks(w)
  BY DatasetAssumption DEF TypeOK, HandlerOK, LookupsOK
<1>1. ASSUME NEW r \in Request, Submit(w, r)  PROVE LookupsOK'
  <2>1. /\ handler'[w].req = r /\ DatasetOf[r] \in Dataset
        /\ handler'[w].pc = IF dsStatus[DatasetOf[r]] = "none" THEN "create" ELSE "save"
        /\ \A v \in Worker \ {w} : handler'[v] = handler[v]
        /\ UNCHANGED <<dsStatus, status, lookups, finder>>
    BY <1>0, <1>1, DatasetAssumption DEF Submit, Become, Idle, database, brokers
  <2>2. Looks(w)'
    BY <2>1 DEF Looks
  <2> QED  BY <1>0, <2>1, <2>2, LookStep
<1>2. CASE SubmitCreate(w)
  <2>1. /\ q \in Request /\ d \in Dataset
        /\ \A v \in Worker \ {w} : handler'[v] = handler[v]
        /\ UNCHANGED <<status, lookups, finder>>
    BY <1>0, <1>2
       DEF SubmitCreate, Serving, SubmitStage, Goto, Return, Become, brokers
  <2>2. CASE dsStatus[d] # "none"
    <3>1. handler'[w].pc = "idle" /\ UNCHANGED dsStatus
      BY <1>0, <1>2, <2>2 DEF SubmitCreate, Return, Become, Idle
    <3> QED  BY <2>1, <3>1, LookElsewhere
  <2>3. CASE dsStatus[d] = "none"
    <3>1. /\ handler'[w].pc = "save" /\ handler'[w].req = q
          /\ dsStatus' = [dsStatus EXCEPT ![d] = IF d \in FileList THEN "complete"
                                                                   ELSE "created"]
      BY <1>0, <1>2, <2>3 DEF SubmitCreate, Goto, Become, Handler
    <3>2. /\ \A e \in Dataset \ {d} : dsStatus'[e] = dsStatus[e]
          /\ dsStatus'[d] = IF d \in FileList THEN "complete" ELSE "created"
      BY <1>0, <2>1, <3>1
    <3>3. Looks(w)'
      BY <2>1, <3>1, <3>2 DEF Looks
    <3>4. \A e \in Dataset : \/ dsStatus'[e] = dsStatus[e]
                             \/ dsStatus[e] = "none" /\ dsStatus'[e] # "none"
      BY <2>3, <3>2
    <3>5. \A e \in FileList : dsStatus'[e] \in {dsStatus[e], "complete"}
      BY <1>0, <3>2
    <3> QED  BY <1>0, <2>1, <3>3, <3>4, <3>5, LookStep
  <2> QED  BY <2>2, <2>3
<1>3. CASE SubmitSave(w)
  <2>1. /\ handler[w].pc = "save" /\ handler'[w].pc \in {"idle", "refresh"}
        /\ handler'[w].pc = "refresh" => handler'[w].req = q
        /\ \A v \in Worker \ {w} : handler'[v] = handler[v]
        /\ UNCHANGED <<dsStatus, lookups, finder>>
    BY <1>0, <1>3 DEF SubmitSave, Serving, Goto, Return, Become, Idle, Handler, brokers
  <2>2. \A r \in Request : status'[r] \in WaitStatus => status'[r] = status[r]
    BY <1>0, <1>3 DEF SubmitSave, WaitStatus
  <2>3. Looks(w)'
    BY <1>0, <2>1 DEF Looks
  <2> QED  BY <1>0, <2>1, <2>2, <2>3, LookStep
<1>4. CASE SubmitRefresh(w)
  <2>1. /\ handler[w].pc = "refresh" /\ d \in Dataset
        /\ \A v \in Worker \ {w} : handler'[v] = handler[v]
        /\ UNCHANGED <<dsStatus, status, lookups, finder>>
        /\ handler'[w].req = q
        /\ handler'[w].pc = CASE dsStatus[d] = "complete" -> "publish"
                              [] dsStatus[d] = "looking" -> "pend"
                              [] OTHER -> "send_lookup"
    BY <1>0, <1>4
       DEF SubmitRefresh, Serving, SubmitStage, Goto, Become, Handler, database, brokers
  <2>2. dsStatus[d] # "none" /\ (d \in FileList => dsStatus[d] = "complete")
    BY <1>0, <2>1 DEF Looks
  <2>3. Looks(w)'
    <3>1. CASE dsStatus[d] = "complete"
      BY <2>1, <3>1 DEF Looks
    <3>2. CASE dsStatus[d] = "looking"
      BY <2>1, <2>2, <3>2 DEF Looks, Asked
    <3>3. CASE dsStatus[d] \notin {"complete", "looking"}
      BY <2>1, <2>2, <3>3 DEF Looks
    <3> QED  BY <3>1, <3>2, <3>3
  <2> QED  BY <1>0, <2>1, <2>3, LookStep
<1>5. CASE SubmitSendLookup(w)
  <2>1. /\ handler[w].pc = "send_lookup" /\ handler'[w].pc = "commit_lookup"
        /\ handler'[w].req = q /\ d \in Dataset
        /\ \A v \in Worker \ {w} : handler'[v] = handler[v]
        /\ lookups' = [lookups EXCEPT ![d] = @ + 1]
        /\ UNCHANGED <<dsStatus, status, finder>>
    BY <1>0, <1>5
       DEF SubmitSendLookup, Serving, SubmitStage, Goto, Become, Handler, database
  <2>2. d \notin FileList
    BY <1>0, <2>1 DEF Looks
  <2>3. Looks(w)' /\ \A e \in FileList : lookups'[e] = 0
    BY <1>0, <2>1, <2>2 DEF Looks
  <2> QED  BY <1>0, <2>1, <2>3, LookStep
<1>6. CASE SubmitCommitLookup(w)
  <2>1. /\ handler[w].pc = "commit_lookup" /\ handler'[w].pc = "start"
        /\ q \in Request /\ d \in Dataset /\ handler'[w].req = q
        /\ \A v \in Worker \ {w} : handler'[v] = handler[v]
        /\ dsStatus' = [dsStatus EXCEPT ![d] = "looking"]
        /\ status' = [status EXCEPT ![q] = "lookup"]
        /\ UNCHANGED <<lookups, finder>>
    BY <1>0, <1>6
       DEF SubmitCommitLookup, Serving, SubmitStage, Goto, Become, Handler, brokers
  <2>2. d \notin FileList
    BY <1>0, <2>1 DEF Looks
  <2>3. /\ dsStatus'[d] = "looking" /\ \A e \in Dataset \ {d} : dsStatus'[e] = dsStatus[e]
        /\ \A r \in Request \ {q} : status'[r] = status[r]
    BY <1>0, <2>1
  <2>4. Asked(d)' /\ Looks(w)'
    BY <2>1, <2>2, <2>3 DEF Asked, Looks
  <2>5. /\ \A e \in Dataset : dsStatus'[e] = dsStatus[e]
                              \/ dsStatus'[e] \in {"looking", "complete"}
        /\ \A e \in FileList : dsStatus'[e] \in {dsStatus[e], "complete"}
    BY <1>0, <2>2, <2>3
  <2>6. \A r \in Request : status'[r] = status[r] \/ Asked(DatasetOf[r])'
    BY <2>1, <2>3, <2>4
  <2> QED  BY <1>0, <2>1, <2>4, <2>5, <2>6, LookStep
<1>7. CASE SubmitPend(w)
  <2>1. /\ handler[w].pc = "pend" /\ handler'[w].pc = "start" /\ q \in Request
        /\ handler'[w].req = q
        /\ \A v \in Worker \ {w} : handler'[v] = handler[v]
        /\ status' = [status EXCEPT ![q] = "pending_lookup"]
        /\ UNCHANGED <<dsStatus, lookups, finder>>
    BY <1>0, <1>7
       DEF SubmitPend, Serving, SubmitStage, Goto, Become, Handler, brokers
  <2>2. Asked(d)' /\ Looks(w)'
    BY <1>0, <2>1 DEF Looks, Asked
  <2>3. \A r \in Request : status'[r] = status[r] \/ Asked(DatasetOf[r])'
    BY <1>0, <2>1, <2>2
  <2> QED  BY <1>0, <2>1, <2>2, <2>3, LookStep
<1>8. CASE SubmitPublish(w) \/ SubmitCommitPublish(w) \/ SubmitStart(w)
  <2>1. UNCHANGED <<dsStatus, lookups, finder>>
    BY <1>8
       DEF SubmitPublish, SubmitCommitPublish, SubmitStart, SendTasks, database, brokers
  <2>2. /\ \A v \in Worker \ {w} : handler'[v] = handler[v]
        /\ handler'[w].pc \in {"publish_commit", "start", "idle"}
    <3>1. CASE SubmitPublish(w)
      BY <1>0, <3>1 DEF SubmitPublish, Become, Handler
    <3>2. CASE SubmitCommitPublish(w)
      BY <1>0, <3>2, Going DEF SubmitCommitPublish
    <3>3. CASE SubmitStart(w)
      BY <1>0, <3>3, Returning DEF SubmitStart
    <3> QED  BY <1>8, <3>1, <3>2, <3>3
  <2>3. \A r \in Request : status'[r] \in WaitStatus => status'[r] = status[r]
    BY <1>0, <1>8
       DEF SubmitPublish, SubmitCommitPublish, SubmitStart, database, WaitStatus
  <2> QED  BY <2>1, <2>3, <2>2, LookElsewhere
<1> QED  BY <1>1, <1>2, <1>3, <1>4, <1>5, <1>6, <1>7, <1>8 DEF SubmitStep

LEMMA CallLooks ==
  ASSUME TypeOK, LookupsOK, NEW w \in Worker, AddStep(w) \/ FilesetStep(w)
  PROVE  LookupsOK'
<1>0. /\ handler \in [Worker -> Handler] /\ finder \in [Finder -> FinderState]
      /\ dsStatus \in [Dataset -> DatasetStatus \cup {"none"}]
  BY DEF TypeOK
<1>1. ASSUME NEW f \in Finder, AddFiles(w, f)  PROVE LookupsOK'
  <2>1. /\ UNCHANGED <<dsStatus, lookups, status>>
        /\ \A g \in Finder : finder'[g].ds = finder[g].ds
    BY <1>0, <1>1 DEF AddFiles, database, brokers, FinderState
  <2>2. /\ \A v \in Worker \ {w} : handler'[v] = handler[v]
        /\ handler'[w].pc = "add_store"
    BY <1>0, <1>1 DEF AddFiles, Become, Idle
  <2> QED  BY <2>1, <2>2, LookElsewhere
<1>2. ASSUME NEW f \in Finder, FilesetComplete(w, f)  PROVE LookupsOK'
  <2> DEFINE d == finder[f].ds
  <2>1. /\ d \in Dataset /\ d \notin FileList
        /\ dsStatus' = [dsStatus EXCEPT ![d] = "complete"]
        /\ UNCHANGED <<lookups, status>>
        /\ \A g \in Finder : finder'[g].ds = finder[g].ds
    BY <1>0, <1>2 DEF FilesetComplete, FinderState, LookupsOK, brokers
  <2>2. /\ \A v \in Worker \ {w} : handler'[v] = handler[v]
        /\ handler'[w].pc \in {"fs_pending", "fs_empty"}
    BY <1>0, <1>2 DEF FilesetComplete, Become, Idle
  <2>3. dsStatus'[d] = "complete" /\ \A e \in Dataset \ {d} : dsStatus'[e] = dsStatus[e]
    BY <1>0, <2>1
  <2>4. \A e \in FileList : dsStatus'[e] = dsStatus[e]
    BY <2>1, <2>3, DatasetAssumption
  <2>5. Looks(w)'
    BY <2>2 DEF Looks
  <2> QED  BY <2>1, <2>2, <2>3, <2>4, <2>5, LookStep DEF LookupsOK
<1>3. CASE \/ AddStore(w) \/ AddSend(w) \/ AddCommit(w)
           \/ \E r \in Request : AddRead(w, r)
  <2>1. UNCHANGED <<dsStatus, lookups, status, finder>>
    BY <1>3 DEF AddStore, AddSend, AddCommit, AddRead, SendTasks, database, brokers
  <2>2. /\ \A v \in Worker \ {w} : handler'[v] = handler[v]
        /\ handler'[w].pc \in {"add_next", "add_commit", "add_send"}
    <3>1. CASE AddStore(w)
      BY <1>0, <3>1, Going DEF AddStore
    <3>2. CASE AddSend(w)
      BY <1>0, <3>2, Going DEF AddSend
    <3>3. CASE AddCommit(w)
      BY <1>0, <3>3 DEF AddCommit, Become, Handler
    <3>4. CASE \E r \in Request : AddRead(w, r)
      BY <1>0, <3>4 DEF AddRead, Become, Handler
    <3> QED  BY <1>3, <3>1, <3>2, <3>3, <3>4
  <2> QED  BY <2>1, <2>2, LookElsewhere
<1>4. CASE AddReturn(w)
  <2>1. /\ UNCHANGED <<dsStatus, lookups, status>>
        /\ \A g \in Finder : finder'[g].ds = finder[g].ds
    BY <1>0, <1>4 DEF AddReturn, Answered, FinderState, database, brokers
  <2>2. /\ \A v \in Worker \ {w} : handler'[v] = handler[v]
        /\ handler'[w].pc = "idle"
    BY <1>0, <1>4 DEF AddReturn, Return, Become, Idle
  <2> QED  BY <2>1, <2>2, LookElsewhere
<1>5. CASE \/ FilesetPending(w) \/ FilesetLookup(w) \/ FilesetEmpty(w)
           \/ FilesetEmptyPending(w)
           \/ \E r \in Request : FilesetPublish(w, r) \/ FilesetShutdown(w, r)
  <2>1. UNCHANGED <<dsStatus, lookups, status, finder>>
    BY <1>5
       DEF FilesetPending, FilesetLookup, FilesetEmpty, FilesetEmptyPending,
           FilesetPublish, FilesetShutdown, SendTasks, ShutdownTransformers,
           database, brokers
  <2>2. /\ \A v \in Worker \ {w} : handler'[v] = handler[v]
        /\ handler'[w].pc \in FilesetStage
    <3>1. CASE FilesetPending(w)
      BY <1>0, <3>1 DEF FilesetPending, Become, Handler, FilesetStage
    <3>2. CASE FilesetLookup(w)
      BY <1>0, <3>2 DEF FilesetLookup, Become, Handler, FilesetStage
    <3>3. CASE FilesetEmpty(w)
      BY <1>0, <3>3 DEF FilesetEmpty, Become, Handler, FilesetStage
    <3>4. CASE FilesetEmptyPending(w)
      BY <1>0, <3>4 DEF FilesetEmptyPending, Become, Handler, FilesetStage
    <3>5. CASE \E r \in Request : FilesetPublish(w, r) \/ FilesetShutdown(w, r)
      BY <1>0, <3>5
         DEF FilesetPublish, FilesetShutdown, Serving, Become, Handler, FilesetStage
    <3> QED  BY <1>5, <3>1, <3>2, <3>5, <3>3, <3>4
  <2> QED  BY <2>1, <2>2, LookElsewhere DEF FilesetStage
<1>6. CASE FilesetCommit(w) \/ FilesetEmptyCommit(w)
  <2>1. /\ UNCHANGED <<dsStatus, lookups>>
        /\ \A r \in Request : status'[r] \in WaitStatus => status'[r] = status[r]
    BY <1>6 DEF FilesetCommit, FilesetEmptyCommit, WaitStatus, brokers
  <2>2. \A g \in Finder : finder'[g].ds \in {finder[g].ds, None}
    BY <1>0, <1>6 DEF FilesetCommit, FilesetEmptyCommit, LookupOver, Resting
  <2>3. /\ \A v \in Worker \ {w} : handler'[v] = handler[v]
        /\ handler'[w].pc = "idle"
    BY <1>0, <1>6 DEF FilesetCommit, FilesetEmptyCommit, Return, Become, Idle
  <2> QED  BY <2>1, <2>2, <2>3, LookElsewhere
<1> QED  BY <1>1, <1>2, <1>3, <1>4, <1>5, <1>6 DEF AddStep, FilesetStep

LEMMA OtherLooks ==
  ASSUME TypeOK, LookupsOK, NEW w \in Worker,
         FileStep(w) \/ CancelStep(w) \/ \E r \in Request : Cancel(w, r)
  PROVE  LookupsOK'
<1>0. /\ handler \in [Worker -> Handler]
      /\ status \in [Request -> TransformStatus \cup {"none"}]
  BY DEF TypeOK
<1>1. UNCHANGED <<dsStatus, lookups, finder>>
  BY DEF FileStep, FileRecord, FileCheck, FileComplete, FileShutdown, CancelStep,
         CancelShutdown, CancelCommit, Cancel, ShutdownTransformers, database, brokers
<1>2. \A r \in Request : status'[r] \in WaitStatus => status'[r] = status[r]
  <2>1. \/ status' = status
        \/ status' = [status EXCEPT ![handler[w].req] = "complete"]
        \/ status' = [status EXCEPT ![handler[w].req] = "canceled"]
    BY DEF FileStep, FileRecord, FileCheck, FileComplete, FileShutdown, CancelStep,
           CancelShutdown, CancelCommit, Cancel, database
  <2> QED  BY <1>0, <2>1 DEF WaitStatus
<1>3. /\ \A v \in Worker \ {w} : handler'[v] = handler[v]
      /\ handler'[w].pc \in {"idle", "check", "complete", "shutdown",
                             "cancel_shutdown", "cancel_commit"}
  <2>1. CASE FileCheck(w) \/ FileComplete(w) \/ FileShutdown(w)
    BY <1>0, <2>1, Going, Returning DEF FileCheck, FileComplete, FileShutdown
  <2>2. CASE CancelShutdown(w) \/ CancelCommit(w)
    BY <1>0, <2>2, Going, Returning DEF CancelShutdown, CancelCommit
  <2>3. ASSUME NEW r \in Request, FileRecord(w, r)
        PROVE  /\ \A v \in Worker \ {w} : handler'[v] = handler[v]
               /\ handler'[w].pc = "check"
    BY <1>0, <2>3 DEF FileRecord, Become, Idle
  <2>4. ASSUME NEW r \in Request, Cancel(w, r)
        PROVE  /\ \A v \in Worker \ {w} : handler'[v] = handler[v]
               /\ handler'[w].pc \in {"cancel_shutdown", "cancel_commit"}
    BY <1>0, <2>4 DEF Cancel, Become, Idle
  <2> QED  BY <2>1, <2>2, <2>3, <2>4 DEF FileStep, CancelStep
<1> QED  BY <1>1, <1>2, <1>3, LookElsewhere

LEMMA AroundLooks ==
  ASSUME TypeOK, LookupsOK, Environment \/ Faults \/ UNCHANGED vars  PROVE LookupsOK'
<1>0. /\ handler \in [Worker -> Handler] /\ finder \in [Finder -> FinderState]
      /\ lookups \in [Dataset -> Nat]
      /\ \A d \in FileList : d \in Dataset /\ d # None
  BY DatasetAssumption, NoneAssumption DEF TypeOK
<1>a. ASSUME UNCHANGED <<dsStatus, status, handler>>,
             \A d \in FileList : lookups'[d] = 0,
             \A f \in Finder : finder'[f].ds \notin FileList
      PROVE  LookupsOK'
  BY <1>a DEF LookupsOK, Looks, Asked
<1>1. ASSUME NEW f \in Finder, NEW d \in Dataset, Lookup(f, d)  PROVE LookupsOK'
  <2>1. /\ UNCHANGED <<dsStatus, status, handler>>
        /\ lookups[d] > 0 /\ lookups' = [lookups EXCEPT ![d] = @ - 1]
        /\ finder'[f].ds = d /\ \A g \in Finder \ {f} : finder'[g] = finder[g]
    BY <1>0, <1>1 DEF Lookup, database
  <2>2. d \notin FileList
    BY <2>1 DEF LookupsOK
  <2> QED  BY <1>0, <1>a, <2>1, <2>2 DEF LookupsOK
<1>2. CASE \/ \E r \in Request : Transform(r)
           \/ UNCHANGED vars
  <2>1. UNCHANGED <<dsStatus, status, handler, lookups, finder>>
    BY <1>2 DEF Transform, vars, database, brokers
  <2> QED  BY <1>a, <2>1 DEF LookupsOK
<1>3. ASSUME NEW f \in Finder, LookupDies(f)  PROVE LookupsOK'
  <2>1. /\ UNCHANGED <<dsStatus, status, handler, lookups>>
        /\ \A g \in Finder : finder'[g].ds \in {finder[g].ds, None}
    BY <1>0, <1>3 DEF LookupDies, LookupOver, Resting, database, brokers
  <2> QED  BY <1>0, <1>a, <2>1 DEF LookupsOK
<1>4. ASSUME NEW w \in Worker, Abort(w)  PROVE LookupsOK'
  <2>1. /\ UNCHANGED <<dsStatus, status, lookups>>
        /\ \A v \in Worker \ {w} : handler'[v] = handler[v]
        /\ handler'[w].pc = "idle"
    BY <1>0, <1>4 DEF Abort, Return, Become, Idle, database
  <2>2. \/ UNCHANGED finder
        \/ LookupOver(handler[w].finder)
        \/ \E n \in {0, handler[w].n} : Answered(handler[w].finder, n)
    <3>1. CASE handler[w].pc \in AddStage
      BY <1>4, <3>1 DEF Abort
    <3>2. CASE handler[w].pc \in FilesetStage
      BY <1>4, <3>2 DEF Abort, AddStage, FilesetStage
    <3>3. CASE handler[w].pc \notin AddStage \cup FilesetStage
      BY <1>4, <3>3 DEF Abort
    <3> QED  BY <3>1, <3>2, <3>3
  <2>3. \A g \in Finder : finder'[g].ds \in {finder[g].ds, None}
    BY <1>0, <2>2 DEF LookupOver, Answered, Resting, FinderState
  <2> QED  BY <2>1, <2>3, LookElsewhere
<1>5. ASSUME NEW w \in Worker, RetryComplete(w)  PROVE LookupsOK'
  <2>1. UNCHANGED <<dsStatus, status, lookups, finder>>
    BY <1>5 DEF RetryComplete, database, brokers
  <2>2. /\ \A v \in Worker \ {w} : handler'[v] = handler[v]
        /\ handler'[w].pc = "complete"
    BY <1>0, <1>5, Going DEF RetryComplete
  <2> QED  BY <2>1, <2>2, LookElsewhere
<1>6. ASSUME NEW r \in Request, LoseReport(r) \/ TransformerDies(r)  PROVE LookupsOK'
  <2>1. UNCHANGED <<dsStatus, status, handler, lookups, finder>>
    BY <1>6 DEF LoseReport, TransformerDies, database
  <2> QED  BY <1>a, <2>1 DEF LookupsOK
<1> QED  BY <1>1, <1>2, <1>3, <1>4, <1>5, <1>6 DEF Environment, Faults

\* A request waits only for a dataset a finder was asked for, and no finder is asked
\* for a file list: what a submission read of its dataset cannot be undone by others.
THEOREM WaitersHaveLookupHolds == Spec => []WaitersHaveLookup
<1>1. Init => LookupsOK
  BY DatasetAssumption, NoneAssumption
     DEF Init, LookupsOK, WaitStatus, Looks, Idle, Resting
<1>2. TypeOK /\ LookupsOK /\ [Next]_vars => LookupsOK'
  BY SubmitLooks, CallLooks, OtherLooks, AroundLooks DEF Next, WorkerStep, User
<1>3. LookupsOK => WaitersHaveLookup
  BY DEF LookupsOK, WaitersHaveLookup, Asked, WaitStatus
<1> QED  BY <1>1, <1>2, <1>3, TypeCorrect, PTL DEF Spec
=============================================================================
