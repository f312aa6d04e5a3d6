--------------------------- MODULE Sidecar_proofs ---------------------------
(***************************************************************************)
(* Theorems about Sidecar, with faults, for any number of files, replicas, *)
(* stops and faults.                                                       *)
(***************************************************************************)
EXTENDS Sidecar, TLAPS

\* The elements of a sequence, as in Uploading.
Elements(s) == {s[i] : i \in DOMAIN s}

LEMMA AppendElements ==
  ASSUME NEW S, NEW s \in Seq(S), NEW e \in S
  PROVE  Elements(Append(s, e)) = Elements(s) \cup {e}
<1>1. Elements(Append(s, e)) \subseteq Elements(s) \cup {e}
  BY DEF Elements
<1>2. ASSUME NEW x \in Elements(s)  PROVE x \in Elements(Append(s, e))
  <2>1. PICK i \in DOMAIN s : x = s[i]
    BY <1>2 DEF Elements
  <2>2. i \in DOMAIN Append(s, e) /\ Append(s, e)[i] = x
    BY <2>1
  <2> QED  BY <2>2 DEF Elements
<1>3. e \in Elements(Append(s, e))
  <2>1. Len(s) + 1 \in DOMAIN Append(s, e) /\ Append(s, e)[Len(s) + 1] = e
    OBVIOUS
  <2> QED  BY <2>1 DEF Elements
<1> QED  BY <1>1, <1>2, <1>3

LEMMA TailElements ==
  ASSUME NEW S, NEW s \in Seq(S), s # <<>>
  PROVE  Elements(s) = {Head(s)} \cup Elements(Tail(s))
<1>1. ASSUME NEW x \in Elements(s)  PROVE x = Head(s) \/ x \in Elements(Tail(s))
  <2>1. PICK i \in DOMAIN s : x = s[i]
    BY <1>1 DEF Elements
  <2>2. CASE i = 1
    BY <2>1, <2>2
  <2>3. CASE i # 1
    <3>1. i - 1 \in DOMAIN Tail(s) /\ Tail(s)[i - 1] = x
      BY <2>1, <2>3
    <3> QED  BY <3>1 DEF Elements
  <2> QED  BY <2>2, <2>3
<1>2. ASSUME NEW x \in Elements(Tail(s))  PROVE x \in Elements(s)
  <2>1. PICK i \in DOMAIN Tail(s) : x = Tail(s)[i]
    BY <1>2 DEF Elements
  <2>2. i + 1 \in DOMAIN s /\ s[i + 1] = x
    BY <2>1
  <2> QED  BY <2>2 DEF Elements
<1>3. Head(s) \in Elements(s)
  <2>1. 1 \in DOMAIN s /\ s[1] = Head(s)
    OBVIOUS
  <2> QED  BY <2>1 DEF Elements
<1> QED  BY <1>1, <1>2, <1>3
-----------------------------------------------------------------------------
(***************************************************************************)
(* Types.                                                                  *)
(***************************************************************************)
\* TypeOK in parts, so that each is proved by itself.
TaskOK ==
  /\ destination \in {"object-store", "volume"}
  /\ task \in File \cup {NoFile}
  /\ (task = NoFile) <=> worker \in {"idle", "join", "ended"}
  /\ worker \in WorkerStage
  /\ stopping \in BOOLEAN

FilesOK ==
  /\ queue \subseteq File
  /\ output \subseteq File
  /\ stored \subseteq File
  /\ lost \subseteq File

BoundsOK ==
  /\ replica \in 1..Replicas
  /\ stops \in 0..MaxStops
  /\ faults \in 0..MaxFaults

SocketOK ==
  /\ toScience \in Seq(Message)
  /\ toSidecar \in Seq(Message)
  /\ science \in ScienceStage
  /\ job \in Message

UploadOK ==
  /\ uploads \in Seq(File \cup {NoFile})
  /\ uploader \in [pc : UploaderStage, file : File \cup {NoFile}]
  /\ (uploader.file = NoFile) <=> uploader.pc \in {"get", "ended", "dead"}

ReportsOK ==
  /\ success \in [File -> Nat]
  /\ failure \in [File -> Nat]

LEMMA TypeParts ==
  /\ TypeOK <=> TaskOK /\ FilesOK /\ BoundsOK /\ SocketOK /\ UploadOK /\ ReportsOK
  /\ TypeOK' <=> TaskOK' /\ FilesOK' /\ BoundsOK' /\ SocketOK' /\ UploadOK' /\ ReportsOK'
BY DEF TypeOK, TaskOK, FilesOK, BoundsOK, SocketOK, UploadOK, ReportsOK

\* Every line on the socket is a Message.
LEMMA SayIsMessage == ASSUME NEW k \in Kind  PROVE Say(k) \in Message
BY BoundAssumption DEF Say, Message

\* A pod starts with each of its variables in its type.
LEMMA PodStartsType ==
  ASSUME TypeOK, PodStarts, UNCHANGED <<destination, stored, reports, stops>>,
         queue' \subseteq File, lost' \subseteq File, faults' \in 0..MaxFaults
  PROVE  TypeOK'
<1>0. TypeOK
  OBVIOUS
<1>1. TaskOK'
  BY <1>0 DEF TypeOK, TaskOK, PodStarts, WorkerStage
<1>5. FilesOK'
  BY <1>0 DEF TypeOK, FilesOK, PodStarts
<1>6. BoundsOK'
  BY <1>0, BoundAssumption DEF TypeOK, BoundsOK, PodStarts
<1>2. SocketOK'
  <2>1. Say("GeT") \in Message
    BY SayIsMessage DEF Kind
  <2> QED  BY <2>1 DEF SocketOK, PodStarts, ScienceStage
<1>3. UploadOK'
  BY DEF UploadOK, PodStarts, Waits, UploaderStage
<1>4. ReportsOK'
  BY DEF TypeOK, ReportsOK, reports
<1> QED  BY <1>1, <1>2, <1>3, <1>4, <1>5, <1>6, TypeParts

\* What is uploaded is a file.
LEMMA UploadingFiles == ASSUME TypeOK  PROVE Uploading \subseteq File
BY DEF TypeOK, Uploading

\* The steps that start a pod again.
LEMMA RestartType == ASSUME TypeOK, Replace \/ PodKilled  PROVE TypeOK'
<1>1. queue' \subseteq File /\ lost' \subseteq File /\ faults' \in 0..MaxFaults
  BY UploadingFiles, BoundAssumption DEF Replace, PodKilled, Fault, TypeOK
<1> QED  BY <1>1, PodStartsType DEF Replace, PodKilled, reports

\* All other steps.
Runs ==
  WorkerStep \/ UploaderStep \/ ScienceStep \/ Terminate
  \/ ScienceDies \/ ParserFails \/ UploadFails \/ ConversionFails

LEMMA TaskType == ASSUME TypeOK, Runs  PROVE TaskOK'
<1> USE FileAssumption DEF TaskOK, WorkerStage
<1>0. TaskOK
  BY DEF TypeOK
<1>1. CASE WorkerStep
  BY <1>0, <1>1
     DEF WorkerStep, Deliver, Synch, SynchFails, Send, Await, HandOver, Confirm,
         ConfirmNext, ConfirmFails, ReportFailure, Acknowledge, Close, Join
<1>2. CASE UploaderStep
  BY <1>0, <1>2 DEF UploaderStep, Take, Upload, ReportUpload
<1>3. CASE ScienceStep
  BY <1>0, <1>3 DEF ScienceStep, Ask, Read, Run, ReadConfirmation
<1>4. CASE Terminate \/ ScienceDies \/ ParserFails \/ UploadFails \/ ConversionFails
  BY <1>0, <1>4
     DEF Terminate, ScienceDies, ParserFails, UploadFails, ConversionFails, Fault
<1> QED  BY <1>1, <1>2, <1>3, <1>4 DEF Runs

LEMMA FilesType == ASSUME TypeOK, Runs  PROVE FilesOK'
<1> USE DEF FilesOK
<1>0. /\ FilesOK /\ job \in Message
      /\ worker = "synch" => task \in File
      /\ uploader.pc = "upload" => uploader.file \in File
  BY DEF TypeOK
<1>1. CASE WorkerStep
  BY <1>0, <1>1
     DEF WorkerStep, Deliver, Synch, SynchFails, Send, Await, HandOver, Confirm,
         ConfirmNext, ConfirmFails, ReportFailure, Acknowledge, Close, Join, upload
<1>2. CASE UploaderStep
  BY <1>0, <1>2 DEF UploaderStep, Take, Upload, ReportUpload
<1>3. CASE ScienceStep
  BY <1>0, <1>3 DEF ScienceStep, Ask, Read, Run, ReadConfirmation, upload
<1>4. CASE Terminate \/ ScienceDies \/ ParserFails
  BY <1>0, <1>4 DEF Terminate, ScienceDies, ParserFails, upload
<1>5. CASE UploadFails \/ ConversionFails
  BY <1>0, <1>5 DEF UploadFails, ConversionFails
<1> QED  BY <1>1, <1>2, <1>3, <1>4, <1>5 DEF Runs

LEMMA BoundsType == ASSUME TypeOK, Runs  PROVE BoundsOK'
<1> USE BoundAssumption DEF BoundsOK
<1>0. BoundsOK
  BY DEF TypeOK
<1>1. CASE WorkerStep
  BY <1>0, <1>1
     DEF WorkerStep, Deliver, Synch, SynchFails, Send, Await, HandOver, Confirm,
         ConfirmNext, ConfirmFails, ReportFailure, Acknowledge, Close, Join
<1>2. CASE UploaderStep
  BY <1>0, <1>2 DEF UploaderStep, Take, Upload, ReportUpload
<1>3. CASE ScienceStep
  BY <1>0, <1>3 DEF ScienceStep, Ask, Read, Run, ReadConfirmation
<1>4. CASE Terminate \/ ScienceDies \/ ParserFails \/ UploadFails \/ ConversionFails
  BY <1>0, <1>4
     DEF Terminate, ScienceDies, ParserFails, UploadFails, ConversionFails, Fault
<1> QED  BY <1>1, <1>2, <1>3, <1>4 DEF Runs

LEMMA SocketType == ASSUME TypeOK, Runs  PROVE SocketOK'
<1> USE DEF SocketOK, socket, container, ScienceStage
<1>0. SocketOK /\ task \in File \cup {NoFile} /\ replica \in 0..Replicas
  BY BoundAssumption DEF TypeOK
<1>1. CASE Synch \/ Await \/ ParserFails
  <2>1. /\ toSidecar' = toSidecar \/ (toSidecar # <<>> /\ toSidecar' = Tail(toSidecar))
        /\ UNCHANGED <<toScience, science, job>>
    BY <1>1 DEF Synch, Await, ParserFails
  <2>2. toSidecar # <<>> => Tail(toSidecar) \in Seq(Message)
    BY <1>0
  <2> QED  BY <1>0, <2>1, <2>2
<1>2. CASE Send
  <2>1. [kind |-> "request", file |-> task, replica |-> replica] \in Message
    BY <1>0 DEF Kind, Message
  <2> QED  BY <1>0, <1>2, <2>1 DEF Send
<1>3. CASE Confirm \/ ConfirmNext
  <2>1. Say("confirmed") \in Message
    BY SayIsMessage DEF Kind
  <2>2. /\ toScience' = Append(toScience, Say("confirmed"))
        /\ UNCHANGED <<toSidecar, science, job>>
    BY <1>3 DEF Confirm, ConfirmNext
  <2> QED  BY <1>0, <2>1, <2>2
<1>4. CASE Close
  <2>1. Say("stop") \in Message
    BY SayIsMessage DEF Kind
  <2> QED  BY <1>0, <1>4, <2>1 DEF Close
<1>5. CASE Ask
  <2>1. Say("GeT") \in Message
    BY SayIsMessage DEF Kind
  <2> QED  BY <1>0, <1>5, <2>1 DEF Ask
<1>6. CASE Read \/ ReadConfirmation \/ ScienceDies
  BY <1>0, <1>6 DEF Read, ReadConfirmation, ScienceDies
<1>7. CASE Run
  <2>1. /\ [job EXCEPT !.kind = "success"] \in Message
        /\ [job EXCEPT !.kind = "failure"] \in Message
    BY <1>0 DEF Kind, Message
  <2>2. PICK m \in Message : toSidecar' = Append(toSidecar, m)
    BY <1>7, <2>1 DEF Run
  <2> QED  BY <1>0, <1>7, <2>2 DEF Run
<1>8. CASE \/ \E f \in File : Deliver(f)
           \/ SynchFails \/ HandOver \/ ConfirmFails \/ ReportFailure
           \/ Acknowledge \/ Join \/ Terminate
           \/ UploaderStep \/ UploadFails \/ ConversionFails
  <2>1. UNCHANGED <<toScience, toSidecar, science, job>>
    BY <1>8
       DEF Deliver, SynchFails, HandOver, ConfirmFails, ReportFailure, Acknowledge,
           Join, Terminate, UploaderStep, Take, Upload, ReportUpload, UploadFails,
           ConversionFails
  <2> QED  BY <1>0, <2>1
<1> QED  BY <1>1, <1>2, <1>3, <1>4, <1>5, <1>6, <1>7, <1>8
         DEF Runs, WorkerStep, ScienceStep

LEMMA UploadType == ASSUME TypeOK, Runs  PROVE UploadOK'
<1> USE DEF UploadOK, upload, UploaderStage
<1>0. UploadOK /\ task \in File \cup {NoFile}
  BY DEF TypeOK
<1>1. CASE WorkerStep
  BY <1>0, <1>1
     DEF WorkerStep, Deliver, Synch, SynchFails, Send, Await, HandOver, Confirm,
         ConfirmNext, ConfirmFails, ReportFailure, Acknowledge, Close, Join
<1>2. CASE UploaderStep
  <2>1. CASE Take
    <3>1. /\ uploads' \in Seq(File \cup {NoFile})
          /\ Head(uploads) \in File \cup {NoFile}
      BY <1>0, <2>1 DEF Take
    <3> QED  BY <1>0, <2>1, <3>1 DEF Take
  <2>2. CASE Upload
    BY <1>0, <2>2 DEF Upload
  <2>3. CASE ReportUpload
    BY <1>0, <2>3 DEF ReportUpload, Waits
  <2> QED  BY <1>2, <2>1, <2>2, <2>3 DEF UploaderStep
<1>3. CASE ScienceStep
  BY <1>0, <1>3 DEF ScienceStep, Ask, Read, Run, ReadConfirmation
<1>4. CASE Terminate \/ ScienceDies \/ ParserFails \/ UploadFails \/ ConversionFails
  BY <1>0, <1>4 DEF Terminate, ScienceDies, ParserFails, UploadFails, ConversionFails
<1> QED  BY <1>1, <1>2, <1>3, <1>4 DEF Runs

LEMMA ReportsType == ASSUME TypeOK, Runs  PROVE ReportsOK'
<1> USE DEF ReportsOK, reports
<1>0. ReportsOK
  BY DEF TypeOK
<1>1. CASE WorkerStep
  BY <1>0, <1>1
     DEF WorkerStep, Deliver, Synch, SynchFails, Send, Await, HandOver, Confirm,
         ConfirmNext, ConfirmFails, ReportFailure, Acknowledge, Close, Join
<1>2. CASE UploaderStep
  BY <1>0, <1>2 DEF UploaderStep, Take, Upload, ReportUpload
<1>3. CASE ScienceStep
  BY <1>0, <1>3 DEF ScienceStep, Ask, Read, Run, ReadConfirmation
<1>4. CASE Terminate \/ ScienceDies \/ ParserFails \/ UploadFails \/ ConversionFails
  BY <1>0, <1>4 DEF Terminate, ScienceDies, ParserFails, UploadFails, ConversionFails
<1> QED  BY <1>1, <1>2, <1>3, <1>4 DEF Runs

LEMMA InitType == ASSUME Init  PROVE TypeOK
<1>1. TaskOK
  BY DEF Init, TaskOK, WorkerStage
<1>5. FilesOK
  BY DEF Init, FilesOK
<1>6. BoundsOK
  BY BoundAssumption DEF Init, BoundsOK
<1>2. SocketOK
  <2>1. Say("GeT") \in Message
    BY SayIsMessage DEF Kind
  <2> QED  BY <2>1 DEF Init, SocketOK, ScienceStage
<1>3. UploadOK
  BY DEF Init, UploadOK, Waits, UploaderStage
<1>4. ReportsOK
  BY DEF Init, ReportsOK
<1> QED  BY <1>1, <1>2, <1>3, <1>4, <1>5, <1>6, TypeParts

LEMMA NextType == ASSUME TypeOK, [Next]_vars  PROVE TypeOK'
<1>1. CASE Runs
  BY <1>1, TaskType, FilesType, BoundsType, SocketType, UploadType, ReportsType, TypeParts
<1>2. CASE Replace \/ PodKilled
  BY <1>2, RestartType
<1>3. CASE UNCHANGED vars
  BY <1>3 DEF vars, TypeOK, socket, container, upload, reports
<1> QED  BY <1>1, <1>2, <1>3 DEF Next, Runs, Faults

\* The variables keep their types, with faults: the replica tried is one of those
\* listed, and a worker holds a task exactly while it is in transform_file.
THEOREM TypeCorrect == Spec => []TypeOK
BY InitType, NextType, PTL DEF Spec
-----------------------------------------------------------------------------
(***************************************************************************)
(* Nobody but a fault loses a file.                                        *)
(***************************************************************************)
\* The poison pill is the last item of the queue, and only a main program that is
\* past close has sent it; a pod has ended only when its uploader has.  Without a
\* bucket there is nothing to upload.
PillOK ==
  /\ NoFile \in Elements(uploads) => worker \in {"join", "ended"}
  /\ uploader.pc = "ended" => worker \in {"join", "ended"} /\ uploads = <<>>
  /\ \A i \in DOMAIN uploads : uploads[i] = NoFile => i = Len(uploads)
  /\ destination = "volume" => uploads = <<>> /\ uploader = Waits
  /\ worker = "ended" => destination = "volume" \/ uploader.pc \in {"ended", "dead"}

\* A step of the worker before close.
LEMMA WorkingKeepsPill ==
  ASSUME PillOK, worker \notin {"join", "ended"}, worker' \notin {"join", "ended"},
         UNCHANGED <<destination, uploads, uploader>>
  PROVE  PillOK'
BY DEF PillOK, Elements

\* A step that does not concern the uploader and the stage of the worker.
LEMMA OtherKeepsPill ==
  ASSUME PillOK, UNCHANGED <<destination, uploads, uploader, worker>>
  PROVE  PillOK'
BY DEF PillOK, Elements

LEMMA HandOverKeepsPill == ASSUME TypeOK, PillOK, HandOver  PROVE PillOK'
<1>1. CASE destination = "object-store"
  <2>1. /\ uploads \in Seq(File \cup {NoFile}) /\ task \in File
        /\ destination' = "object-store" /\ worker' = "confirm"
        /\ uploads' = Append(uploads, task) /\ uploader' = uploader
    BY <1>1 DEF HandOver, TypeOK
  <2>2. uploader.pc # "ended" /\ NoFile \notin Elements(uploads)
    BY DEF HandOver, PillOK
  <2>3. NoFile \notin Elements(uploads')
    BY <2>1, <2>2, AppendElements, FileAssumption
  <2>4. \A i \in DOMAIN uploads' : uploads'[i] # NoFile
    BY <2>3 DEF Elements
  <2>5. Elements(uploads)' = Elements(uploads')
    BY DEF Elements
  <2> QED  BY <2>1, <2>2, <2>3, <2>4, <2>5 DEF PillOK
<1>2. CASE destination # "object-store"
  BY <1>2, WorkingKeepsPill DEF HandOver
<1> QED  BY <1>1, <1>2

LEMMA CloseKeepsPill == ASSUME TypeOK, PillOK, Close  PROVE PillOK'
<1>1. CASE uploads' = uploads
  BY <1>1 DEF Close, PillOK, Elements
<1>2. CASE uploads' # uploads
  <2>1. /\ destination = "object-store" /\ destination' = "object-store"
        /\ uploads' = Append(uploads, NoFile) /\ uploader' = uploader
        /\ worker' = "join" /\ uploader.pc # "ended" /\ NoFile \notin Elements(uploads)
    BY <1>2 DEF Close, PillOK
  <2>2. \A i \in DOMAIN uploads : uploads[i] # NoFile
    BY <2>1 DEF Elements
  <2>3. \A i \in DOMAIN uploads' : uploads'[i] = NoFile => i = Len(uploads')
    BY <2>1, <2>2 DEF TypeOK
  <2> QED  BY <2>1, <2>3 DEF PillOK
<1> QED  BY <1>1, <1>2

LEMMA TakeKeepsPill == ASSUME TypeOK, PillOK, Take  PROVE PillOK'
<1>1. /\ uploads \in Seq(File \cup {NoFile}) /\ uploads # <<>>
      /\ uploads' = Tail(uploads)
      /\ UNCHANGED <<destination, worker>>
      /\ destination # "volume" /\ worker # "ended"
      /\ uploader'.pc = IF Head(uploads) = NoFile THEN "ended" ELSE "upload"
  BY DEF Take, TypeOK, PillOK
<1>2. Elements(uploads) = {Head(uploads)} \cup Elements(Tail(uploads))
  BY <1>1, TailElements
<1>3. \A i \in DOMAIN uploads' : uploads'[i] = NoFile => i = Len(uploads')
  <2>1. \A i \in DOMAIN uploads' :
          /\ i + 1 \in DOMAIN uploads /\ uploads'[i] = uploads[i + 1]
          /\ Len(uploads') = Len(uploads) - 1
    BY <1>1
  <2> QED  BY <1>1, <2>1 DEF PillOK
<1>4. Head(uploads) = NoFile => uploads' = <<>>
  <2>1. 1 \in DOMAIN uploads /\ uploads[1] = Head(uploads)
    BY <1>1
  <2>2. Head(uploads) = NoFile => Len(uploads) = 1
    BY <2>1 DEF PillOK
  <2> QED  BY <1>1, <2>2
<1>5. Elements(uploads)' = Elements(Tail(uploads))
  BY <1>1 DEF Elements
<1> QED  BY <1>1, <1>2, <1>3, <1>4, <1>5 DEF PillOK

LEMMA PodStartsPill == ASSUME PodStarts  PROVE PillOK'
BY DEF PodStarts, PillOK, Elements, Waits

LEMMA PillKept == ASSUME TypeOK, PillOK, [Next]_vars  PROVE PillOK'
<1>1. CASE WorkerStep
  <2>1. CASE HandOver
    BY <2>1, HandOverKeepsPill
  <2>2. CASE Close
    BY <2>2, CloseKeepsPill
  <2>3. CASE Join
    BY <2>3 DEF Join, PillOK, Elements, TypeOK, upload
  <2>4. CASE ~HandOver /\ ~Close /\ ~Join
    <3>1. /\ worker \notin {"join", "ended"} /\ worker' \notin {"join", "ended"}
          /\ UNCHANGED <<destination, uploads, uploader>>
      BY <1>1, <2>4
         DEF WorkerStep, Deliver, Synch, SynchFails, Send, Await, Confirm, ConfirmNext,
             ConfirmFails, ReportFailure, Acknowledge, upload
    <3> QED  BY <3>1, WorkingKeepsPill
  <2> QED  BY <2>1, <2>2, <2>3, <2>4
<1>2. CASE Take
  BY <1>2, TakeKeepsPill
<1>3. CASE Upload \/ UploadFails \/ ReportUpload \/ ConversionFails
  <2>1. /\ UNCHANGED <<destination, uploads, worker>>
        /\ uploader.pc \in {"upload", "report"}
        /\ uploader'.pc \in {"report", "get", "dead"}
    BY <1>3 DEF Upload, UploadFails, ReportUpload, ConversionFails, Waits, TypeOK
  <2>2. Elements(uploads)' = Elements(uploads)
    BY <2>1 DEF Elements
  <2> QED  BY <2>1, <2>2 DEF PillOK, Waits
<1>4. CASE ScienceStep \/ Terminate \/ ScienceDies
  BY <1>4, OtherKeepsPill
     DEF ScienceStep, Ask, Read, Run, ReadConfirmation, Terminate, ScienceDies, upload
<1>5. CASE ParserFails
  BY <1>5, WorkingKeepsPill DEF ParserFails, upload
<1>6. CASE Replace \/ PodKilled
  BY <1>6, PodStartsPill DEF Replace, PodKilled
<1>7. CASE UNCHANGED vars
  BY <1>7, OtherKeepsPill DEF vars, upload
<1> QED  BY <1>1, <1>2, <1>3, <1>4, <1>5, <1>6, <1>7 DEF Next, UploaderStep, Faults

LEMMA UploadingIs == Uploading = (Elements(uploads) \cup {uploader.file}) \ {NoFile}
BY DEF Uploading, Elements

LEMMA UploadingIsNext ==
  Uploading' = (Elements(uploads') \cup {uploader'.file}) \ {NoFile}
BY DEF Uploading, Elements

\* What becomes of a file that the worker need not care for any more.
Settled(f) == f \in Uploading \/ f \in lost \/ Reported(f) > 0

\* The worker gives up its task only when the file is settled.
HandedOver == worker \in {"confirm", "done"} => Settled(task)

\* The numbers of reports never shrink.
LEMMA ReportsGrow ==
  ASSUME TypeOK, NEW f \in File, NEW g \in File,
         \/ UNCHANGED <<success, failure>>
         \/ success' = [success EXCEPT ![g] = @ + 1] /\ UNCHANGED failure
         \/ failure' = [failure EXCEPT ![g] = @ + 1] /\ UNCHANGED success
  PROVE  /\ success[f] + failure[f] > 0 => success'[f] + failure'[f] > 0
         /\ ~UNCHANGED <<success, failure>> => success'[g] + failure'[g] > 0
<1>1. ReportsOK
  BY TypeParts
<1> QED  BY <1>1 DEF ReportsOK

\* A file that is settled remains so, if what a step takes from the uploader is lost.
LEMMA SettledSilently ==
  ASSUME NEW f \in File, Settled(f), UNCHANGED <<success, failure>>,
         Uploading \subseteq Uploading' \cup lost', lost \subseteq lost'
  PROVE  Settled(f)'
BY DEF Settled, Reported

LEMMA HandOverSettles ==
  ASSUME TypeOK, HandOver
  PROVE  Settled(task)' /\ \A f \in File : Settled(f) => Settled(f)'
<1>0. task \in File /\ task' = task /\ lost' = lost
  BY DEF HandOver, TypeOK
<1>1. CASE destination = "object-store"
  <2>1. /\ uploads \in Seq(File \cup {NoFile})
        /\ uploads' = Append(uploads, task)
        /\ UNCHANGED <<uploader, success, failure>>
    BY <1>1 DEF HandOver, TypeOK
  <2>2. Elements(uploads') = Elements(uploads) \cup {task}
    BY <1>0, <2>1, AppendElements
  <2>3. Uploading' = Uploading \cup {task}
    BY <1>0, <2>1, <2>2, UploadingIs, UploadingIsNext, FileAssumption
  <2> QED  BY <1>0, <2>1, <2>3 DEF Settled, Reported
<1>2. CASE destination # "object-store"
  <2>1. /\ success' = [success EXCEPT ![task] = @ + 1]
        /\ UNCHANGED <<uploads, uploader, failure>>
    BY <1>2 DEF HandOver
  <2>2. Uploading' = Uploading
    BY <2>1 DEF Uploading
  <2>3. success'[task] + failure'[task] > 0
    <3>1. ReportsOK
      BY TypeParts
    <3> QED  BY <1>0, <2>1, <3>1 DEF ReportsOK
  <2>4. \A f \in File : success[f] + failure[f] > 0 => success'[f] + failure'[f] > 0
    BY <1>0, <2>1, ReportsGrow
  <2> QED  BY <1>0, <2>2, <2>3, <2>4 DEF Settled, Reported
<1> QED  BY <1>1, <1>2

LEMMA ReportFailureSettles ==
  ASSUME TypeOK, ReportFailure
  PROVE  Settled(task)' /\ \A f \in File : Settled(f) => Settled(f)'
<1>1. /\ task \in File
      /\ failure' = [failure EXCEPT ![task] = @ + 1]
      /\ UNCHANGED <<task, uploads, uploader, lost, success>>
  BY DEF ReportFailure, TypeOK, upload
<1>2. Uploading' = Uploading
  BY <1>1 DEF Uploading
<1>3. success'[task] + failure'[task] > 0
  <2>1. ReportsOK
    BY TypeParts
  <2> QED  BY <1>1, <2>1 DEF ReportsOK
<1>4. \A f \in File : success[f] + failure[f] > 0 => success'[f] + failure'[f] > 0
  BY <1>1, ReportsGrow
<1> QED  BY <1>1, <1>2, <1>3, <1>4 DEF Settled, Reported

LEMMA ReportUploadSettles ==
  ASSUME TypeOK, ReportUpload, NEW f \in File, Settled(f)
  PROVE  Settled(f)'
<1>1. /\ uploader.file \in File /\ uploader'.file = NoFile
      /\ success' = [success EXCEPT ![uploader.file] = @ + 1]
      /\ UNCHANGED <<uploads, lost, failure>>
  BY DEF ReportUpload, TypeOK, Waits
<1>2. Uploading \subseteq Uploading' \cup {uploader.file}
  BY <1>1, UploadingIs, UploadingIsNext
<1>3. success'[uploader.file] + failure'[uploader.file] > 0
  <2>1. ReportsOK
    BY TypeParts
  <2> QED  BY <1>1, <2>1 DEF ReportsOK
<1>4. success[f] + failure[f] > 0 => success'[f] + failure'[f] > 0
  BY <1>1, ReportsGrow
<1> QED  BY <1>1, <1>2, <1>3, <1>4 DEF Settled, Reported

LEMMA TakeSettles ==
  ASSUME TypeOK, Take, NEW f \in File, Settled(f)
  PROVE  Settled(f)'
<1>1. /\ uploads \in Seq(File \cup {NoFile}) /\ uploads # <<>>
      /\ uploads' = Tail(uploads)
      /\ uploader.file = NoFile
      /\ uploader'.file = Head(uploads)
      /\ UNCHANGED <<lost, success, failure>>
  BY DEF Take, TypeOK, reports
<1>2. Elements(uploads) = {Head(uploads)} \cup Elements(Tail(uploads))
  BY <1>1, TailElements
<1>3. Uploading \subseteq Uploading'
  BY <1>1, <1>2, UploadingIs, UploadingIsNext
<1> QED  BY <1>1, <1>3, SettledSilently

\* A pod that ends by itself has an empty uploader, or a dead one.
LEMMA ReplaceSettles ==
  ASSUME TypeOK, PillOK, Replace, NEW f \in File, Settled(f)
  PROVE  Settled(f)'
<1>1. UNCHANGED <<success, failure>> /\ lost \subseteq lost'
  BY DEF Replace, reports
<1>2. CASE uploader.pc = "dead"
  BY <1>1, <1>2, SettledSilently DEF Replace
<1>3. CASE uploader.pc # "dead"
  <2>1. uploads = <<>> /\ uploader.file = NoFile
    BY <1>3 DEF Replace, PillOK, TypeOK, Waits
  <2>2. Uploading = {}
    BY <2>1 DEF Uploading
  <2> QED  BY <1>1, <2>2, SettledSilently
<1> QED  BY <1>2, <1>3

LEMMA SettledStable ==
  ASSUME TypeOK, PillOK, [Next]_vars, NEW f \in File, Settled(f)
  PROVE  Settled(f)'
<1>1. CASE HandOver \/ ReportFailure
  BY <1>1, HandOverSettles, ReportFailureSettles
<1>2. CASE Close
  <2>1. /\ uploads \in Seq(File \cup {NoFile})
        /\ uploads' = uploads \/ uploads' = Append(uploads, NoFile)
        /\ UNCHANGED <<uploader, lost, success, failure>>
    BY <1>2 DEF Close, TypeOK, reports
  <2>2. Elements(uploads) \subseteq Elements(uploads')
    <3>1. NoFile \in File \cup {NoFile}
      OBVIOUS
    <3>2. Elements(Append(uploads, NoFile)) = Elements(uploads) \cup {NoFile}
      BY <2>1, <3>1, AppendElements
    <3> QED  BY <2>1, <3>2
  <2>3. Uploading \subseteq Uploading'
    BY <2>1, <2>2, UploadingIs, UploadingIsNext
  <2> QED  BY <2>1, <2>3, SettledSilently
<1>3. CASE Take
  BY <1>3, TakeSettles
<1>4. CASE ReportUpload
  BY <1>4, ReportUploadSettles
<1>5. CASE Upload \/ UploadFails
  <2>1. /\ uploader'.file = uploader.file
        /\ UNCHANGED <<uploads, lost, success, failure>>
    BY <1>5 DEF Upload, UploadFails, TypeOK, reports
  <2>2. Uploading' = Uploading
    BY <2>1 DEF Uploading
  <2> QED  BY <2>1, <2>2, SettledSilently
<1>6. CASE ConversionFails
  <2>1. /\ lost' = lost \cup {uploader.file}
        /\ UNCHANGED <<uploads, success, failure>>
    BY <1>6 DEF ConversionFails, reports
  <2>2. Uploading \subseteq Uploading' \cup {uploader.file}
    BY <2>1, UploadingIs, UploadingIsNext
  <2> QED  BY <2>1, <2>2, SettledSilently
<1>7. CASE Replace
  BY <1>7, ReplaceSettles
<1>8. CASE PodKilled
  BY <1>8, SettledSilently DEF PodKilled, reports
<1>9. CASE UNCHANGED <<uploads, uploader, success, failure>> /\ lost \subseteq lost'
  <2>1. Uploading' = Uploading
    BY <1>9 DEF Uploading
  <2> QED  BY <1>9, <2>1, SettledSilently
<1>10. CASE WorkerStep /\ ~HandOver /\ ~ReportFailure /\ ~Close
  BY <1>9, <1>10
     DEF WorkerStep, Deliver, Synch, SynchFails, Send, Await, Confirm, ConfirmNext,
         ConfirmFails, Acknowledge, Join, upload, reports
<1>11. CASE ScienceStep \/ Terminate \/ ScienceDies \/ ParserFails \/ UNCHANGED vars
  BY <1>9, <1>11
     DEF ScienceStep, Ask, Read, Run, ReadConfirmation, Terminate, ScienceDies,
         ParserFails, vars, upload, reports
<1> QED  BY <1>1, <1>2, <1>3, <1>4, <1>5, <1>6, <1>7, <1>8, <1>10, <1>11
         DEF Next, UploaderStep, Faults

LEMMA HandedOverKept ==
  ASSUME TypeOK, PillOK, HandedOver, [Next]_vars
  PROVE  HandedOver'
<1>1. CASE HandOver \/ ReportFailure
  BY <1>1, HandOverSettles, ReportFailureSettles DEF HandedOver
<1>2. CASE worker' \notin {"confirm", "done"}
  <2>1. ~(worker \in {"confirm", "done"})'
    BY <1>2
  <2> QED  BY <2>1 DEF HandedOver
<1>3. CASE worker \in {"confirm", "done"} /\ task' = task
  <2>1. task \in File
    BY <1>3 DEF TypeOK
  <2>2. Settled(task)'
    BY <1>3, <2>1, SettledStable DEF HandedOver
  <2> QED  BY <2>2 DEF HandedOver
<1>4. CASE WorkerStep /\ ~HandOver /\ ~ReportFailure
  BY <1>2, <1>3, <1>4
     DEF WorkerStep, Deliver, Synch, SynchFails, Send, Await, Confirm, ConfirmNext,
         ConfirmFails, Acknowledge, Close, Join
<1>5. CASE ParserFails \/ Replace \/ PodKilled
  BY <1>2, <1>5 DEF ParserFails, Replace, PodKilled, PodStarts
<1>6. CASE UNCHANGED <<worker, task>>
  BY <1>2, <1>3, <1>6
<1>7. CASE \/ UploaderStep \/ ScienceStep \/ Terminate \/ ScienceDies
           \/ UploadFails \/ ConversionFails \/ UNCHANGED vars
  BY <1>6, <1>7
     DEF UploaderStep, Take, Upload, ReportUpload, ScienceStep, Ask, Read, Run,
         ReadConfirmation, Terminate, ScienceDies, UploadFails, ConversionFails, vars
<1> QED  BY <1>1, <1>4, <1>5, <1>7 DEF Next, Faults

\* A file in the queue or with the worker is passed on, or settled.
LEMMA AccountedKept ==
  ASSUME TypeOK, PillOK, HandedOver, EveryTaskAccounted, [Next]_vars
  PROVE  EveryTaskAccounted'
<1> SUFFICES ASSUME NEW f \in File
             PROVE  f \in queue' \/ f = task' \/ Settled(f)'
  BY DEF EveryTaskAccounted, Settled
<1>1. CASE Settled(f)
  BY <1>1, SettledStable
<1>2. f \in queue \/ f = task \/ Settled(f)
  BY DEF EveryTaskAccounted, Settled
<1>3. CASE UNCHANGED <<queue, task>>
  BY <1>1, <1>2, <1>3
<1>4. CASE \E g \in File : Deliver(g)
  BY <1>1, <1>2, <1>4, FileAssumption DEF Deliver, TypeOK
<1>5. CASE SynchFails
  BY <1>1, <1>2, <1>5 DEF SynchFails, Settled
<1>6. CASE Acknowledge
  BY <1>1, <1>2, <1>6 DEF Acknowledge, HandedOver
<1>7. CASE PodKilled
  BY <1>1, <1>2, <1>7, FileAssumption DEF PodKilled, Settled
<1>8. CASE Replace
  BY <1>1, <1>2, <1>8, FileAssumption DEF Replace, PodStarts, TypeOK
<1>9. CASE /\ WorkerStep
           /\ ~(\E g \in File : Deliver(g)) /\ ~SynchFails /\ ~Acknowledge
  BY <1>3, <1>9
     DEF WorkerStep, Synch, Send, Await, HandOver, Confirm, ConfirmNext, ConfirmFails,
         ReportFailure, Close, Join
<1>10. CASE \/ UploaderStep \/ ScienceStep \/ Terminate \/ ScienceDies \/ ParserFails
            \/ UploadFails \/ ConversionFails \/ UNCHANGED vars
  BY <1>3, <1>10
     DEF UploaderStep, Take, Upload, ReportUpload, ScienceStep, Ask, Read, Run,
         ReadConfirmation, Terminate, ScienceDies, ParserFails, UploadFails,
         ConversionFails, vars
<1> QED  BY <1>4, <1>5, <1>6, <1>7, <1>8, <1>9, <1>10 DEF Next, Faults

\* A file is in the queue, with the worker, with the uploader, reported, or was taken
\* by a fault: a pod that is scaled down loses nothing, although it acknowledged the
\* tasks whose files it has still to upload.
THEOREM EveryTaskAccountedHolds == Spec => []EveryTaskAccounted
<1> DEFINE IInv == TypeOK /\ PillOK /\ HandedOver /\ EveryTaskAccounted
<1>1. Init => IInv
  <2> SUFFICES ASSUME Init  PROVE IInv
    OBVIOUS
  <2>1. PillOK
    BY DEF Init, PillOK, Elements, Waits
  <2>2. HandedOver /\ EveryTaskAccounted
    BY DEF Init, HandedOver, EveryTaskAccounted
  <2> QED  BY <2>1, <2>2, InitType
<1>2. IInv /\ [Next]_vars => IInv'
  BY NextType, PillKept, HandedOverKept, AccountedKept
<1>3. IInv => EveryTaskAccounted
  OBVIOUS
<1> QED  BY <1>1, <1>2, <1>3, PTL DEF Spec
-----------------------------------------------------------------------------
(***************************************************************************)
(* A file is reported once, and once more for a fault at most.             *)
(***************************************************************************)
\* The word to stop is on the socket only when the worker has ended its last task.
StopOK == \A m \in Elements(toScience) : m.kind = "stop" => worker \in {"join", "ended"}

\* The task has not been handed over or reported yet; its file may be in the queue.
Fresh(f) ==
  \/ f \in queue
  \/ f = task /\ worker \in {"synch", "send", "await", "hand", "confirm_next", "fail"}

Distinct(s) == \A i, j \in DOMAIN s : s[i] = s[j] => i = j

\* In one pod, a file is with the uploader once, and only after the worker had it.
OnceOK ==
  /\ Distinct(uploads)
  /\ uploader.file \in Elements(uploads) => uploader.file = NoFile
  /\ \A f \in File : Fresh(f) => f \notin Uploading
  /\ task \notin queue

LEMMA StopKept == ASSUME TypeOK, StopOK, [Next]_vars  PROVE StopOK'
<1>0. toScience \in Seq(Message)
  BY DEF TypeOK
<1>1. CASE UNCHANGED toScience /\ (worker \in {"join", "ended"} => worker' \in {"join", "ended"})
  BY <1>1 DEF StopOK, Elements
<1>2. CASE Send
  <2>1. CASE UNCHANGED toScience
    BY <1>1, <1>2, <2>1 DEF Send
  <2>2. CASE ~UNCHANGED toScience
    <3> DEFINE m == [kind |-> "request", file |-> task, replica |-> replica]
    <3>1. m \in Message /\ m.kind # "stop"
      BY BoundAssumption DEF TypeOK, Message, Kind
    <3>2. toScience' = Append(toScience, m) /\ worker \notin {"join", "ended"}
      BY <1>2, <2>2 DEF Send
    <3>3. Elements(toScience') = Elements(toScience) \cup {m}
      BY <1>0, <3>1, <3>2, AppendElements
    <3>4. Elements(toScience)' = Elements(toScience')
      BY DEF Elements
    <3> HIDE DEF m
    <3> QED  BY <3>1, <3>2, <3>3, <3>4 DEF StopOK
  <2> QED  BY <2>1, <2>2
<1>3. CASE Confirm \/ ConfirmNext
  <2>1. Say("confirmed") \in Message
    BY SayIsMessage DEF Kind
  <2>2. /\ toScience' = Append(toScience, Say("confirmed"))
        /\ worker \notin {"join", "ended"}
    BY <1>3 DEF Confirm, ConfirmNext
  <2>3. Elements(toScience') = Elements(toScience) \cup {Say("confirmed")}
    BY <1>0, <2>1, <2>2, AppendElements
  <2>4. Elements(toScience)' = Elements(toScience') /\ Say("confirmed").kind # "stop"
    BY DEF Elements, Say
  <2> QED  BY <2>2, <2>3, <2>4 DEF StopOK
<1>4. CASE Close
  BY <1>4 DEF Close, StopOK
<1>5. CASE Read \/ ReadConfirmation
  <2>1. toScience # <<>> /\ toScience' = Tail(toScience) /\ worker' = worker
    BY <1>5 DEF Read, ReadConfirmation
  <2>2. Elements(toScience)' \subseteq Elements(toScience)
    <3>1. Elements(toScience)' = Elements(Tail(toScience))
      BY <2>1 DEF Elements
    <3> QED  BY <1>0, <2>1, <3>1, TailElements
  <2> QED  BY <2>1, <2>2 DEF StopOK
<1>6. CASE Replace \/ PodKilled
  BY <1>6 DEF Replace, PodKilled, PodStarts, StopOK, Elements
<1>7. CASE WorkerStep /\ ~Send /\ ~Confirm /\ ~ConfirmNext /\ ~Close
  BY <1>1, <1>7
     DEF WorkerStep, Deliver, Synch, SynchFails, Await, HandOver, ConfirmFails,
         ReportFailure, Acknowledge, Join, socket
<1>8. CASE \/ UploaderStep \/ Ask \/ Run \/ Terminate \/ ScienceDies \/ ParserFails
           \/ UploadFails \/ ConversionFails \/ UNCHANGED vars
  BY <1>1, <1>8
     DEF UploaderStep, Take, Upload, ReportUpload, Ask, Run, Terminate, ScienceDies,
         ParserFails, UploadFails, ConversionFails, vars, socket
<1> QED  BY <1>2, <1>3, <1>4, <1>5, <1>6, <1>7, <1>8 DEF Next, ScienceStep, Faults

LEMMA AppendDistinct ==
  ASSUME NEW S, NEW s \in Seq(S), NEW e \in S, Distinct(s), e \notin Elements(s)
  PROVE  Distinct(Append(s, e))
BY DEF Distinct, Elements

LEMMA TailDistinct ==
  ASSUME NEW S, NEW s \in Seq(S), s # <<>>, Distinct(s)
  PROVE  Distinct(Tail(s)) /\ Head(s) \notin Elements(Tail(s))
<1>1. \A i \in DOMAIN Tail(s) : i + 1 \in DOMAIN s /\ Tail(s)[i] = s[i + 1] /\ i \in Nat /\ i > 0
  OBVIOUS
<1>2. 1 \in DOMAIN s /\ Head(s) = s[1]
  OBVIOUS
<1>3. Distinct(Tail(s))
  BY <1>1 DEF Distinct
<1>4. ASSUME NEW i \in DOMAIN Tail(s), Tail(s)[i] = Head(s)  PROVE FALSE
  BY <1>1, <1>2, <1>4 DEF Distinct
<1> QED  BY <1>3, <1>4 DEF Elements

\* The steps of the worker that hand nothing over, and those of the container.
LEMMA OnceElsewhere ==
  ASSUME OnceOK, UNCHANGED <<uploads, uploader>>,
         \A f \in File : Fresh(f)' => Fresh(f), task' \notin queue'
  PROVE  OnceOK'
<1>1. Uploading' = Uploading /\ Elements(uploads)' = Elements(uploads)
  BY DEF Uploading, Elements
<1> QED  BY <1>1 DEF OnceOK, Distinct

LEMMA OnceKept == ASSUME TypeOK, PillOK, OnceOK, [Next]_vars  PROVE OnceOK'
<1>0. /\ uploads \in Seq(File \cup {NoFile}) /\ Distinct(uploads)
      /\ task \in File \cup {NoFile} /\ queue \subseteq File
  BY DEF TypeOK, OnceOK
<1>1. CASE HandOver /\ destination = "object-store"
  <2>1. /\ task \in File /\ task # NoFile /\ Fresh(task) /\ task \notin queue
        /\ UNCHANGED <<uploader, queue, task>> /\ worker' = "confirm"
        /\ uploads' = Append(uploads, task)
    BY <1>1, FileAssumption DEF HandOver, TypeOK, Fresh, OnceOK
  <2>2. task \notin Uploading
    BY <2>1 DEF OnceOK
  <2>3. task \notin Elements(uploads) /\ task # uploader.file
    BY <2>1, <2>2, UploadingIs
  <2>4. Elements(uploads') = Elements(uploads) \cup {task}
    BY <1>0, <2>1, AppendElements
  <2>5. Distinct(uploads')
    BY <1>0, <2>1, <2>3, AppendDistinct
  <2>6. Uploading' = Uploading \cup {task}
    BY <2>1, <2>4, UploadingIs, UploadingIsNext
  <2>7. \A f \in File : Fresh(f)' => Fresh(f) /\ f # task
    BY <2>1 DEF Fresh
  <2>8. Elements(uploads)' = Elements(uploads') /\ Distinct(uploads)' = Distinct(uploads')
    BY DEF Elements, Distinct
  <2> QED  BY <2>1, <2>3, <2>4, <2>5, <2>6, <2>7, <2>8 DEF OnceOK
<1>2. CASE Close /\ uploads' # uploads
  <2>1. /\ uploads' = Append(uploads, NoFile) /\ UNCHANGED <<uploader, queue, task>>
        /\ worker' = "join" /\ worker = "idle"
    BY <1>2 DEF Close
  <2>2. NoFile \notin Elements(uploads)
    BY <2>1 DEF PillOK
  <2>3. Elements(uploads') = Elements(uploads) \cup {NoFile}
    BY <1>0, <2>1, AppendElements
  <2>4. Distinct(uploads')
    BY <1>0, <2>1, <2>2, AppendDistinct
  <2>5. Uploading' = Uploading
    BY <2>1, <2>3, UploadingIs, UploadingIsNext
  <2>6. \A f \in File : Fresh(f)' => Fresh(f)
    BY <2>1 DEF Fresh
  <2>7. Elements(uploads)' = Elements(uploads') /\ Distinct(uploads)' = Distinct(uploads')
    BY DEF Elements, Distinct
  <2> QED  BY <2>1, <2>3, <2>4, <2>5, <2>6, <2>7 DEF OnceOK
<1>3. CASE Take
  <2>1. /\ uploads # <<>> /\ uploads' = Tail(uploads)
        /\ uploader.file = NoFile /\ uploader'.file = Head(uploads)
        /\ UNCHANGED <<queue, task, worker>>
    BY <1>3 DEF Take, TypeOK
  <2>2. Elements(uploads) = {Head(uploads)} \cup Elements(uploads')
    BY <1>0, <2>1, TailElements
  <2>3. Distinct(uploads') /\ Head(uploads) \notin Elements(uploads')
    BY <1>0, <2>1, TailDistinct
  <2>4. Uploading' = Uploading
    BY <2>1, <2>2, UploadingIs, UploadingIsNext
  <2>5. Elements(uploads)' = Elements(uploads') /\ Distinct(uploads)' = Distinct(uploads')
    BY DEF Elements, Distinct
  <2> QED  BY <2>1, <2>3, <2>4, <2>5 DEF OnceOK, Fresh
<1>4. CASE Upload \/ UploadFails \/ ReportUpload \/ ConversionFails
  <2>1. /\ uploader'.file \in {uploader.file, NoFile}
        /\ UNCHANGED <<uploads, queue, task, worker>>
    BY <1>4 DEF Upload, UploadFails, ReportUpload, ConversionFails, Waits, TypeOK
  <2>2. Uploading' \subseteq Uploading
    BY <2>1, UploadingIs, UploadingIsNext
  <2>3. Elements(uploads)' = Elements(uploads) /\ Distinct(uploads)' = Distinct(uploads)
    BY <2>1 DEF Elements, Distinct
  <2> QED  BY <2>1, <2>2, <2>3 DEF OnceOK, Fresh
<1>5. CASE Replace \/ PodKilled
  <2>1. /\ uploads' = <<>> /\ uploader'.file = NoFile /\ task' = NoFile
        /\ queue' \subseteq File
    BY <1>0, <1>5 DEF Replace, PodKilled, PodStarts, Waits
  <2>2. Uploading' = {}
    BY <2>1 DEF Uploading
  <2> QED  BY <2>1, <2>2, FileAssumption DEF OnceOK, Distinct
<1>6. CASE WorkerStep /\ ~HandOver /\ ~(Close /\ uploads' # uploads)
  <2>1. UNCHANGED <<uploads, uploader>>
    BY <1>6
       DEF WorkerStep, Deliver, Synch, SynchFails, Send, Await, Confirm, ConfirmNext,
           ConfirmFails, ReportFailure, Acknowledge, Close, Join, upload
  <2>2. task \notin queue /\ NoFile \notin queue
    BY <1>0, FileAssumption DEF OnceOK
  <2>3. CASE \E g \in File : Deliver(g)
    BY <2>1, <2>2, <2>3, OnceElsewhere DEF Deliver, Fresh
  <2>4. CASE SynchFails
    <3>1. task # NoFile
      BY <2>4 DEF SynchFails, TypeOK
    <3>2. \A f \in File : Fresh(f)' => Fresh(f)
      BY <2>4 DEF SynchFails, Fresh
    <3>3. task' \notin queue'
      BY <2>2, <2>4, <3>1 DEF SynchFails
    <3> QED  BY <2>1, <3>2, <3>3, OnceElsewhere
  <2>5. CASE Synch \/ Send \/ Await \/ Confirm \/ ConfirmNext \/ ConfirmFails
    <3>1. /\ UNCHANGED <<queue, task>>
          /\ worker' \in {"synch", "send", "await", "hand", "confirm_next", "fail"} =>
               worker \in {"synch", "send", "await", "hand", "confirm_next", "fail"}
      BY <2>5 DEF Synch, Send, Await, Confirm, ConfirmNext, ConfirmFails
    <3> QED  BY <2>1, <2>2, <3>1, OnceElsewhere DEF Fresh
  <2>6. CASE ReportFailure \/ Acknowledge \/ Close \/ Join
    <3>1. /\ queue' = queue /\ task' \in {task, NoFile}
          /\ worker' \in {"done", "idle", "join", "ended"}
      BY <2>6 DEF ReportFailure, Acknowledge, Close, Join
    <3> QED  BY <2>1, <2>2, <3>1, OnceElsewhere DEF Fresh
  <2> QED  BY <1>6, <2>3, <2>4, <2>5, <2>6 DEF WorkerStep
<1>7. CASE HandOver /\ destination # "object-store"
  BY <1>7, OnceElsewhere DEF HandOver, Fresh, OnceOK
<1>8. CASE ScienceStep \/ Terminate \/ ScienceDies \/ ParserFails \/ UNCHANGED vars
  <2>1. /\ UNCHANGED <<uploads, uploader, queue, task>>
        /\ worker' = worker \/ worker' = "error"
    BY <1>8
       DEF ScienceStep, Ask, Read, Run, ReadConfirmation, Terminate, ScienceDies,
           ParserFails, vars, upload
  <2> QED  BY <2>1, OnceElsewhere DEF Fresh, OnceOK
<1> QED  BY <1>1, <1>2, <1>3, <1>4, <1>5, <1>6, <1>7, <1>8
         DEF Next, UploaderStep, WorkerStep, Faults

\* The file has still to be reported: it is fresh, or its task raised.
Owing(f) == Fresh(f) \/ (f = task /\ worker = "error")

\* The reports to come of what is in the memory of the pod, or in the queue.
Due(f) ==
  (IF Owing(f) THEN 1 ELSE 0) + (IF f \in Uploading THEN 1 ELSE 0)

\* The worker may still raise over the file, because the container has died under it.
Broken(f) ==
  /\ science = "ended" /\ worker \notin {"join", "ended"}
  /\ Fresh(f) \/ (f = task /\ worker = "confirm")

\* The fault that makes the worker raise has been counted before it raises.
Budget(f) ==
  /\ Reported(f) + Due(f) <= 1 + faults
  /\ Broken(f) => Reported(f) + Due(f) <= faults

LEMMA BudgetTypes ==
  ASSUME TypeOK, NEW f \in File
  PROVE  Reported(f) \in Nat /\ Due(f) \in 0..2 /\ faults \in Nat
<1>1. ReportsOK /\ BoundsOK
  BY TypeParts
<1> QED  BY <1>1, BoundAssumption DEF ReportsOK, BoundsOK, Reported, Due

\* A step that owes nothing new keeps the budget, if it breaks nothing but by a fault.
LEMMA BudgetCarried ==
  ASSUME TypeOK, TypeOK', NEW f \in File, Budget(f),
         Reported(f)' + Due(f)' <= Reported(f) + Due(f),
         \/ faults' = faults /\ (Broken(f)' => Broken(f))
         \/ faults' = faults + 1
  PROVE  Budget(f)'
<1>1. Reported(f) \in Nat /\ Due(f) \in 0..2 /\ faults \in Nat
  BY BudgetTypes
<1>2. Reported(f)' \in Nat /\ Due(f)' \in 0..2
  <2>1. ReportsOK'
    BY TypeParts
  <2> QED  BY <2>1 DEF ReportsOK, Reported, Due
<1> QED  BY <1>1, <1>2 DEF Budget

\* A step that reports nothing, and puts nothing where it was not before, owes no more.
LEMMA DueElsewhere ==
  ASSUME NEW f \in File, TypeOK, UNCHANGED <<success, failure>>,
         Owing(f)' => Owing(f), Uploading' \subseteq Uploading
  PROVE  Reported(f)' + Due(f)' <= Reported(f) + Due(f)
<1>1. Reported(f)' = Reported(f)
  BY DEF Reported
<1>2. Due(f)' <= Due(f)
  BY DEF Due
<1>3. Reported(f) \in Nat /\ Due(f) \in 0..2 /\ Due(f)' \in 0..2
  BY BudgetTypes DEF Due
<1> QED  BY <1>1, <1>2, <1>3

\* The step from "hand": what the worker owes, the uploader owes, or is reported.
LEMMA HandOverDue ==
  ASSUME TypeOK, OnceOK, HandOver, NEW f \in File
  PROVE  Reported(f)' + Due(f)' <= Reported(f) + Due(f)
<1>1. /\ worker = "hand" /\ worker' = "confirm" /\ task \in File
      /\ UNCHANGED <<queue, task, science, faults, failure>>
      /\ ReportsOK /\ task \notin queue
  BY TypeParts, FileAssumption DEF HandOver, TypeOK, OnceOK, container
<1>3. Owing(f)' => Owing(f) /\ f # task
  BY <1>1 DEF Owing, Fresh
<1>4. Fresh(task) /\ Owing(task) /\ task \notin Uploading
  BY <1>1 DEF Owing, Fresh, OnceOK
<1>5. Reported(f)' + Due(f)' <= Reported(f) + Due(f)
  <2>0. Reported(f) \in Nat /\ Due(f) \in 0..2
    BY BudgetTypes
  <2>1. CASE destination = "object-store"
    <3>1. uploads' = Append(uploads, task) /\ UNCHANGED <<success, uploader>>
      BY <2>1 DEF HandOver
    <3>2. Elements(uploads') = Elements(uploads) \cup {task}
      <4>1. uploads \in Seq(File \cup {NoFile})
        BY DEF TypeOK
      <4> QED  BY <1>1, <3>1, <4>1, AppendElements
    <3>3. Uploading' = Uploading \cup {task}
      BY <1>1, <3>1, <3>2, FileAssumption, UploadingIs, UploadingIsNext
    <3>4. Reported(f)' = Reported(f)
      BY <1>1, <3>1 DEF Reported
    <3>5. Due(f)' <= Due(f)
      BY <1>3, <1>4, <3>3 DEF Due
    <3>6. Due(f)' \in 0..2
      BY DEF Due
    <3> QED  BY <2>0, <3>4, <3>5, <3>6
  <2>2. CASE destination # "object-store"
    <3>1. success' = [success EXCEPT ![task] = @ + 1] /\ UNCHANGED <<uploads, uploader>>
      BY <2>2 DEF HandOver
    <3>2. Uploading' = Uploading
      BY <3>1 DEF Uploading
    <3>3. CASE f = task
      <4>1. Reported(f)' = Reported(f) + 1
        BY <1>1, <3>1, <3>3 DEF ReportsOK, Reported
      <4>2. Due(f)' = 0 /\ Due(f) = 1
        BY <1>3, <1>4, <3>2, <3>3 DEF Due
      <4> QED  BY <2>0, <4>1, <4>2
    <3>4. CASE f # task
      <4>1. Reported(f)' = Reported(f)
        BY <1>1, <3>1, <3>4 DEF ReportsOK, Reported
      <4>2. Due(f)' <= Due(f) /\ Due(f)' \in 0..2
        BY <1>3, <3>2 DEF Due
      <4> QED  BY <2>0, <4>1, <4>2
    <3> QED  BY <3>3, <3>4
  <2> QED  BY <2>1, <2>2
<1> QED  BY <1>5

LEMMA ReportFailureDue ==
  ASSUME TypeOK, OnceOK, ReportFailure, NEW f \in File
  PROVE  Reported(f)' + Due(f)' <= Reported(f) + Due(f)
<1>1. /\ worker \in {"fail", "error"} /\ worker' = "done" /\ task \in File
      /\ UNCHANGED <<queue, task, science, faults, success, uploads, uploader>>
      /\ failure' = [failure EXCEPT ![task] = @ + 1]
      /\ ReportsOK /\ task \notin queue
  BY TypeParts, FileAssumption DEF ReportFailure, TypeOK, OnceOK, container, upload
<1>3. (Owing(f)' => Owing(f) /\ f # task) /\ Owing(task) /\ Uploading' = Uploading
  BY <1>1 DEF Owing, Fresh, Uploading
<1>4. Reported(f) \in Nat /\ Due(f) \in 0..2 /\ Due(f)' \in 0..2
  BY BudgetTypes DEF Due
<1>5. CASE f = task
  <2>1. Reported(f)' = Reported(f) + 1
    BY <1>1, <1>5 DEF ReportsOK, Reported
  <2>2. Due(f)' + 1 <= Due(f)
    BY <1>3, <1>5 DEF Due
  <2> QED  BY <1>4, <2>1, <2>2
<1>6. CASE f # task
  <2>1. Reported(f)' = Reported(f)
    BY <1>1, <1>6 DEF ReportsOK, Reported
  <2>2. Due(f)' <= Due(f)
    BY <1>3 DEF Due
  <2> QED  BY <1>4, <2>1, <2>2
<1> QED  BY <1>5, <1>6

LEMMA ReportUploadDue ==
  ASSUME TypeOK, OnceOK, ReportUpload, NEW f \in File
  PROVE  Reported(f)' + Due(f)' <= Reported(f) + Due(f)
<1> DEFINE g == uploader.file
<1>1. /\ g \in File /\ uploader'.file = NoFile
      /\ UNCHANGED <<queue, task, worker, science, faults, failure, uploads>>
      /\ success' = [success EXCEPT ![g] = @ + 1]
      /\ ReportsOK /\ g \notin Elements(uploads)
  BY TypeParts, FileAssumption DEF ReportUpload, TypeOK, OnceOK, container, Waits
<1>2. Owing(f)' <=> Owing(f)
  BY <1>1 DEF Owing, Fresh
<1>3. Uploading' = Uploading \ {g} /\ g \in Uploading
  BY <1>1, FileAssumption, UploadingIs, UploadingIsNext
<1>4. Reported(f) \in Nat /\ Due(f) \in 0..2 /\ Due(f)' \in 0..2
  BY BudgetTypes DEF Due
<1> HIDE DEF g
<1>5. CASE f = g
  <2>1. Reported(f)' = Reported(f) + 1
    BY <1>1, <1>5 DEF ReportsOK, Reported
  <2>2. Due(f)' + 1 <= Due(f)
    BY <1>2, <1>3, <1>5 DEF Due
  <2> QED  BY <1>4, <2>1, <2>2
<1>6. CASE f # g
  <2>1. Reported(f)' = Reported(f)
    BY <1>1, <1>6 DEF ReportsOK, Reported
  <2>2. Due(f)' <= Due(f)
    BY <1>2, <1>3 DEF Due
  <2> QED  BY <1>4, <2>1, <2>2
<1> QED  BY <1>5, <1>6

\* The worker raises because the container is gone; what it handed over before is then
\* reported twice.
LEMMA ConfirmFailsDue ==
  ASSUME TypeOK, ConfirmFails, NEW f \in File
  PROVE  \/ Reported(f)' + Due(f)' <= Reported(f) + Due(f)
         \/ /\ f = task /\ worker = "confirm"
            /\ Reported(f)' + Due(f)' = Reported(f) + Due(f) + 1
<1>1. /\ worker \in {"confirm", "confirm_next"} /\ worker' = "error"
      /\ UNCHANGED <<queue, task, success, failure, uploads, uploader>>
  BY DEF ConfirmFails, upload, reports
<1>2. Reported(f)' = Reported(f) /\ Uploading' = Uploading
  BY <1>1 DEF Reported, Uploading
<1>3. CASE Owing(f)' => Owing(f)
  BY <1>1, <1>2, <1>3, DueElsewhere
<1>4. CASE Owing(f)' /\ ~Owing(f)
  <2>1. f = task /\ worker = "confirm"
    BY <1>1, <1>4 DEF Owing, Fresh
  <2>2. Due(f)' = Due(f) + 1
    BY <1>2, <1>4 DEF Due
  <2>3. Reported(f) \in Nat /\ Due(f) \in 0..2
    BY BudgetTypes
  <2> QED  BY <1>2, <2>1, <2>2, <2>3
<1> QED  BY <1>3, <1>4

\* The pod is killed: what it owed to the uploader is lost, its task is fresh again.
LEMMA PodKilledDue ==
  ASSUME TypeOK, PodKilled, NEW f \in File
  PROVE  \/ Reported(f)' + Due(f)' <= Reported(f) + Due(f)
         \/ /\ f = task
            /\ Reported(f)' + Due(f)' = Reported(f) + Due(f) + 1
<1>1. /\ UNCHANGED <<success, failure>> /\ task' = NoFile
      /\ uploads' = <<>> /\ uploader'.file = NoFile /\ worker' = "idle"
      /\ queue' \subseteq queue \cup {task}
  BY DEF PodKilled, PodStarts, Waits, reports
<1>2. Reported(f)' = Reported(f) /\ Uploading' = {}
  BY <1>1 DEF Reported, Uploading
<1>3. Owing(f)' => Owing(f) \/ f = task
  BY <1>1, FileAssumption DEF Owing, Fresh
<1>4. CASE Owing(f)' => Owing(f)
  BY <1>1, <1>2, <1>4, DueElsewhere
<1>5. CASE Owing(f)' /\ ~Owing(f)
  <2>1. Due(f)' = 1 /\ (Due(f) = 0 \/ Due(f) = 1)
    BY <1>2, <1>5 DEF Due
  <2>2. Reported(f) \in Nat
    BY BudgetTypes
  <2> QED  BY <1>2, <1>3, <1>5, <2>1, <2>2
<1> QED  BY <1>4, <1>5

\* No other step owes a report more than the one before.
LEMMA DueKept ==
  ASSUME TypeOK, OnceOK, [Next]_vars, NEW f \in File
  PROVE  \/ Reported(f)' + Due(f)' <= Reported(f) + Due(f)
         \/ /\ f = task /\ Reported(f)' + Due(f)' = Reported(f) + Due(f) + 1
            /\ (ConfirmFails /\ worker = "confirm") \/ PodKilled
<1>1. CASE HandOver \/ ReportFailure \/ ReportUpload \/ ConfirmFails \/ PodKilled
  BY <1>1, HandOverDue, ReportFailureDue, ReportUploadDue, ConfirmFailsDue, PodKilledDue
<1>2. CASE (\E g \in File : Deliver(g)) \/ SynchFails
  <2>1. UNCHANGED <<success, failure, uploads, uploader>>
    BY <1>2 DEF Deliver, SynchFails, upload, reports
  <2>2. Owing(f)' => Owing(f)
    BY <1>2 DEF Deliver, SynchFails, Owing, Fresh
  <2> QED  BY <2>1, <2>2, DueElsewhere DEF Uploading
<1>3. CASE Synch \/ Send \/ Await \/ Confirm \/ ConfirmNext
  <2>1. /\ UNCHANGED <<success, failure, uploads, uploader, queue, task>>
        /\ worker \in {"synch", "send", "await", "confirm", "confirm_next"}
        /\ worker' \in {"synch", "send", "await", "hand", "confirm_next", "fail",
                        "error"} =>
             worker # "confirm"
    BY <1>3 DEF Synch, Send, Await, Confirm, ConfirmNext, upload, reports
  <2>2. Owing(f)' => Owing(f)
    BY <2>1 DEF Owing, Fresh
  <2> QED  BY <2>1, <2>2, DueElsewhere DEF Uploading
<1>4. CASE Acknowledge \/ Join \/ Close
  <2>1. /\ UNCHANGED <<success, failure, queue>>
        /\ worker' \in {"idle", "join", "ended"}
    BY <1>4 DEF Acknowledge, Join, Close, reports
  <2>2. Owing(f)' => Owing(f)
    BY <2>1 DEF Owing, Fresh
  <2>3. Uploading' = Uploading
    <3>1. CASE UNCHANGED <<uploads, uploader>>
      BY <3>1 DEF Uploading
    <3>2. CASE uploads' = Append(uploads, NoFile) /\ UNCHANGED uploader
      <4>1. Elements(uploads') = Elements(uploads) \cup {NoFile}
        <5>1. uploads \in Seq(File \cup {NoFile})
          BY DEF TypeOK
        <5> QED  BY <3>2, <5>1, AppendElements
      <4> QED  BY <3>2, <4>1, UploadingIs, UploadingIsNext
    <3> QED  BY <1>4, <3>1, <3>2 DEF Acknowledge, Join, Close, upload
  <2> QED  BY <2>1, <2>2, <2>3, DueElsewhere
<1>5. CASE Take \/ Upload \/ UploadFails \/ ConversionFails
  <2>1. UNCHANGED <<success, failure, queue, task, worker>>
    BY <1>5 DEF Take, Upload, UploadFails, ConversionFails, reports
  <2>2. Owing(f)' => Owing(f)
    BY <2>1 DEF Owing, Fresh
  <2>3. Uploading' \subseteq Uploading
    <3>1. CASE Take
      <4>1. /\ uploads # <<>> /\ uploads' = Tail(uploads)
            /\ uploader'.file = Head(uploads)
        BY <3>1 DEF Take
      <4>2. Elements(uploads) = {Head(uploads)} \cup Elements(uploads')
        <5>1. uploads \in Seq(File \cup {NoFile})
          BY DEF TypeOK
        <5> QED  BY <4>1, <5>1, TailElements
      <4> QED  BY <4>1, <4>2, UploadingIs, UploadingIsNext
    <3>2. CASE Upload \/ UploadFails \/ ConversionFails
      <4>1. uploads' = uploads /\ uploader'.file \in {uploader.file, NoFile}
        <5>1. UploadOK
          BY TypeParts
        <5> QED  BY <3>2, <5>1 DEF Upload, UploadFails, ConversionFails, UploadOK
      <4> QED  BY <4>1, UploadingIs, UploadingIsNext
    <3> QED  BY <1>5, <3>1, <3>2
  <2> QED  BY <2>1, <2>2, <2>3, DueElsewhere
<1>6. CASE ScienceStep \/ Terminate \/ ScienceDies \/ ParserFails \/ UNCHANGED vars
  <2>1. /\ UNCHANGED <<success, failure, uploads, uploader, queue, task>>
        /\ worker' = worker \/ (worker = "await" /\ worker' = "error")
    BY <1>6
       DEF ScienceStep, Ask, Read, Run, ReadConfirmation, Terminate, ScienceDies,
           ParserFails, vars, upload, reports
  <2>2. Owing(f)' => Owing(f)
    BY <2>1 DEF Owing, Fresh
  <2> QED  BY <2>1, <2>2, DueElsewhere DEF Uploading
<1>7. CASE Replace
  <2>1. /\ UNCHANGED <<success, failure, queue>>
        /\ uploads' = <<>> /\ uploader'.file = NoFile /\ worker' = "idle"
    BY <1>7 DEF Replace, PodStarts, Waits, reports
  <2>2. (Owing(f)' => Owing(f)) /\ Uploading' = {}
    BY <2>1 DEF Owing, Fresh, Uploading
  <2> QED  BY <2>1, <2>2, DueElsewhere
<1> QED  BY <1>1, <1>2, <1>3, <1>4, <1>5, <1>6, <1>7
         DEF Next, WorkerStep, UploaderStep, Faults

\* Faults are counted, and nothing but a fault makes the worker raise over a file.
LEMMA FaultsCounted ==
  ASSUME TypeOK, [Next]_vars
  PROVE  IF Faults THEN faults' = faults + 1 ELSE faults' = faults
<1>1. Faults => faults' = faults + 1
  BY DEF Faults, ScienceDies, ParserFails, UploadFails, ConversionFails, PodKilled, Fault
<1>2. ~Faults => faults' = faults
  BY DEF Next, WorkerStep, Deliver, Synch, SynchFails, Send, Await, HandOver, Confirm,
         ConfirmNext, ConfirmFails, ReportFailure, Acknowledge, Close, Join, UploaderStep,
         Take, Upload, ReportUpload, ScienceStep, Ask, Read, Run, ReadConfirmation,
         Terminate, Replace, vars
<1> QED  BY <1>1, <1>2

LEMMA BrokenKept ==
  ASSUME TypeOK, StopOK, [Next]_vars, ~Faults, NEW f \in File, Broken(f)'
  PROVE  Broken(f)
<1>1. CASE WorkerStep
  <2>1. UNCHANGED science
    BY <1>1
       DEF WorkerStep, Deliver, Synch, SynchFails, Send, Await, HandOver, Confirm,
           ConfirmNext, ConfirmFails, ReportFailure, Acknowledge, Close, Join, container
  <2>2. worker \notin {"join", "ended"}
    BY <1>1
       DEF WorkerStep, Deliver, Synch, SynchFails, Send, Await, HandOver, Confirm,
           ConfirmNext, ConfirmFails, ReportFailure, Acknowledge, Close, Join, Broken
  <2>3. Fresh(f) \/ (f = task /\ worker = "confirm")
    BY <1>1
       DEF WorkerStep, Deliver, Synch, SynchFails, Send, Await, HandOver, Confirm,
           ConfirmNext, ConfirmFails, ReportFailure, Acknowledge, Close, Join, Broken, Fresh
  <2> QED  BY <2>1, <2>2, <2>3 DEF Broken
<1>2. CASE Read
  <2>1. science' = "ended" => worker \in {"join", "ended"}
    <3>1. toScience # <<>> /\ toScience \in Seq(Message)
      BY <1>2 DEF Read, TypeOK
    <3>2. Head(toScience) \in Elements(toScience)
      BY <3>1, TailElements
    <3> QED  BY <1>2, <3>2 DEF Read, StopOK
  <2> QED  BY <1>2, <2>1 DEF Read, Broken
<1>3. CASE UploaderStep \/ Ask \/ Run \/ ReadConfirmation \/ Terminate \/ UNCHANGED vars
  <2>1. /\ UNCHANGED <<queue, task, worker>>
        /\ science' = "ended" => science = "ended"
    BY <1>3
       DEF UploaderStep, Take, Upload, ReportUpload, Ask, Run, ReadConfirmation,
           Terminate, vars, container
  <2> QED  BY <2>1 DEF Broken, Fresh
<1>4. CASE Replace
  BY <1>4 DEF Replace, PodStarts, Broken
<1> QED  BY <1>1, <1>2, <1>3, <1>4 DEF Next, ScienceStep

LEMMA BudgetKept ==
  ASSUME TypeOK, TypeOK', StopOK, OnceOK, [Next]_vars, NEW f \in File, Budget(f)
  PROVE  Budget(f)'
<1>0. /\ Reported(f) \in Nat /\ Due(f) \in 0..2 /\ faults \in Nat
      /\ IF Faults THEN faults' = faults + 1 ELSE faults' = faults
  BY BudgetTypes, FaultsCounted
<1>1. CASE Reported(f)' + Due(f)' <= Reported(f) + Due(f)
  <2>1. CASE Faults
    BY <1>0, <1>1, <2>1, BudgetCarried
  <2>2. CASE ~Faults
    <3>1. Broken(f)' => Broken(f)
      BY <2>2, BrokenKept
    <3> QED  BY <1>0, <1>1, <2>2, <3>1, BudgetCarried
  <2> QED  BY <2>1, <2>2
<1>2. CASE /\ f = task /\ Reported(f)' + Due(f)' = Reported(f) + Due(f) + 1
           /\ ConfirmFails /\ worker = "confirm"
  <2>1. Broken(f) /\ ~Broken(f)' /\ faults' = faults
    BY <1>2 DEF ConfirmFails, Broken, Fresh, OnceOK
  <2> QED  BY <1>0, <1>2, <2>1 DEF Budget
<1>3. CASE /\ f = task /\ Reported(f)' + Due(f)' = Reported(f) + Due(f) + 1
           /\ PodKilled
  <2>1. ~Broken(f)' /\ faults' = faults + 1
    BY <1>3 DEF PodKilled, PodStarts, Fault, Broken
  <2> QED  BY <1>0, <1>3, <2>1 DEF Budget
<1> QED  BY <1>1, <1>2, <1>3, DueKept

\* A file is reported once, and once more for each fault at most: what is handed to
\* the uploader is not handed over or reported by the worker as well, unless a fault
\* made the worker raise or gave its task back.
THEOREM ReportsBoundedHolds == Spec => []ReportsBounded
<1> DEFINE Within == \A f \in File : Budget(f)
<1> DEFINE IInv == TypeOK /\ PillOK /\ StopOK /\ OnceOK /\ Within
<1>1. Init => IInv
  <2> SUFFICES ASSUME Init  PROVE IInv
    OBVIOUS
  <2>1. TypeOK
    BY InitType
  <2>2. PillOK /\ StopOK
    BY DEF Init, PillOK, StopOK, Elements, Waits
  <2>3. Uploading = {}
    BY DEF Init, Uploading, Waits
  <2>4. OnceOK
    BY <2>3, FileAssumption DEF Init, OnceOK, Distinct, Elements
  <2>5. ASSUME NEW f \in File  PROVE Budget(f)
    BY <2>3 DEF Init, Budget, Broken, Reported, Due
  <2> QED  BY <2>1, <2>2, <2>4, <2>5
<1>2. IInv /\ [Next]_vars => IInv'
  <2> SUFFICES ASSUME IInv, [Next]_vars  PROVE IInv'
    OBVIOUS
  <2>1. TypeOK' /\ PillOK' /\ StopOK' /\ OnceOK'
    BY NextType, PillKept, StopKept, OnceKept
  <2>2. ASSUME NEW f \in File  PROVE Budget(f)'
    BY <2>1, BudgetKept
  <2> QED  BY <2>1, <2>2
<1>3. IInv => ReportsBounded
  <2>1. ASSUME IInv, NEW f \in File  PROVE success[f] + failure[f] <= 1 + faults
    <3>1. Reported(f) \in Nat /\ Due(f) \in 0..2 /\ faults \in Nat
      BY <2>1, BudgetTypes
    <3>2. Reported(f) + Due(f) <= 1 + faults
      BY <2>1 DEF Budget
    <3> QED  BY <3>1, <3>2 DEF Reported
  <2> HIDE DEF IInv
  <2> QED  BY <2>1 DEF ReportsBounded, Reported
<1> QED  BY <1>1, <1>2, <1>3, PTL DEF Spec
-----------------------------------------------------------------------------
(***************************************************************************)
(* What is on the socket, for each pair of stages: never more than a line. *)
(***************************************************************************)
Between == {"idle", "synch", "done", "fail", "error"}

\* The task at hand, as it is sent, and as it may be answered.
Question == [kind |-> "request", file |-> task, replica |-> replica]

Answer(m) ==
  m.kind \in {"success", "failure"} /\ m.file = task /\ m.replica = replica

Answered == \E m \in Message : Answer(m) /\ toSidecar = <<m>>

\* Between two replicas the container asks, has asked, or waits to be confirmed; after
\* an error it may wait for ever.
BetweenOK ==
  worker \in Between =>
    \/ science = "ask" /\ toScience = <<>> /\ toSidecar = <<>>
    \/ science = "read" /\ toScience = <<>> /\ toSidecar = <<Say("GeT")>>
    \/ science = "confirm" /\ toScience \in {<<>>, <<Say("confirmed")>>} /\ toSidecar = <<>>
    \/ science = "ended" /\ toSidecar \in {<<>>, <<Say("GeT")>>}

SendOK ==
  worker = "send" =>
    toSidecar = <<>> /\ (science = "ended" \/ (science = "read" /\ toScience = <<>>))

\* While the worker waits, its request, the work on it, or the answer is under way.
AwaitOK ==
  worker = "await" =>
    \/ science = "read" /\ toScience = <<Question>> /\ toSidecar = <<>>
    \/ science = "run" /\ toScience = <<>> /\ toSidecar = <<>> /\ job = Question
    \/ science = "confirm" /\ toScience = <<>> /\ Answered
    \/ science = "ended" /\ (toSidecar = <<>> \/ Answered)

GivenOK ==
  worker \in {"hand", "confirm", "confirm_next"} =>
    toSidecar = <<>> /\ (science = "ended" \/ (science = "confirm" /\ toScience = <<>>))

LinkOK == BetweenOK /\ SendOK /\ AwaitOK /\ GivenOK

\* A success is said of a file that is on the disk, which stays until it is uploaded.
OnDiskOK ==
  /\ worker = "await" =>
       \A i \in DOMAIN toSidecar : toSidecar[i].kind = "success" => task \in output
  /\ worker = "hand" => task \in output
  /\ destination = "object-store" => Elements(uploads) \ {NoFile} \subseteq output

LEMMA OneLine ==
  ASSUME NEW m
  PROVE  /\ Append(<<>>, m) = <<m>> /\ Tail(<<m>>) = <<>> /\ Head(<<m>>) = m
         /\ <<m>> # <<>> /\ DOMAIN <<m>> = {1} /\ <<m>>[1] = m
OBVIOUS

LEMMA WorkerLink ==
  ASSUME TypeOK, LinkOK, WorkerStep  PROVE LinkOK'
<1>1. CASE (\E f \in File : Deliver(f)) \/ SynchFails \/ ReportFailure \/ Acknowledge
  <2>1. /\ worker \in Between /\ worker' \in Between
        /\ UNCHANGED <<toScience, toSidecar, science>>
    BY <1>1 DEF Deliver, SynchFails, ReportFailure, Acknowledge, Between, socket, container
  <2> QED  BY <2>1 DEF LinkOK, BetweenOK, SendOK, AwaitOK, GivenOK, Between
<1>2. CASE Synch
  <2>1. /\ worker = "synch" /\ toSidecar # <<>> /\ toSidecar' = Tail(toSidecar)
        /\ worker' = IF Head(toSidecar).kind = "GeT" THEN "send" ELSE "synch"
        /\ UNCHANGED <<toScience, science>>
    BY <1>2 DEF Synch, container
  <2>2. /\ toSidecar = <<Say("GeT")>>
        /\ science = "ended" \/ (science = "read" /\ toScience = <<>>)
    BY <2>1 DEF LinkOK, BetweenOK, Between
  <2>3. worker' = "send" /\ toSidecar' = <<>>
    BY <2>1, <2>2, OneLine DEF Say
  <2> QED  BY <2>1, <2>2, <2>3 DEF LinkOK, BetweenOK, SendOK, AwaitOK, GivenOK, Between
<1>3. CASE Send
  <2>1. /\ worker = "send" /\ UNCHANGED <<toSidecar, science, task, replica>>
        /\ \/ toScience' = Append(toScience, Question) /\ worker' = "await"
           \/ science = "ended" /\ worker' = "error"
    BY <1>3 DEF Send, Question, container
  <2>2. toSidecar = <<>> /\ (science = "ended" \/ (science = "read" /\ toScience = <<>>))
    BY <2>1 DEF LinkOK, SendOK
  <2>3. Question' = Question
    BY <2>1 DEF Question
  <2>4. AwaitOK'
    BY <2>1, <2>2, <2>3, OneLine DEF AwaitOK
  <2> QED  BY <2>1, <2>2, <2>4 DEF LinkOK, BetweenOK, SendOK, GivenOK, Between
<1>4. CASE Await
  <2>1. /\ worker = "await" /\ worker' \in {"hand", "confirm_next"}
        /\ UNCHANGED <<toScience, science>>
        /\ \/ toSidecar # <<>> /\ toSidecar' = Tail(toSidecar)
           \/ toSidecar = <<>> /\ science = "ended" /\ UNCHANGED toSidecar
    BY <1>4 DEF Await, container
  <2>2. CASE toSidecar # <<>>
    <3>1. /\ \E m \in Message : toSidecar = <<m>>
          /\ science = "ended" \/ (science = "confirm" /\ toScience = <<>>)
      BY <2>1, <2>2 DEF LinkOK, AwaitOK, Answered
    <3>2. toSidecar' = <<>>
      BY <2>1, <2>2, <3>1, OneLine
    <3> QED  BY <2>1, <3>1, <3>2 DEF LinkOK, BetweenOK, SendOK, AwaitOK, GivenOK, Between
  <2>3. CASE toSidecar = <<>>
    BY <2>1, <2>3 DEF LinkOK, BetweenOK, SendOK, AwaitOK, GivenOK, Between
  <2> QED  BY <2>2, <2>3
<1>5. CASE HandOver
  <2>1. /\ worker = "hand" /\ worker' = "confirm"
        /\ UNCHANGED <<toScience, toSidecar, science>>
    BY <1>5 DEF HandOver, socket, container
  <2> QED  BY <2>1 DEF LinkOK, BetweenOK, SendOK, AwaitOK, GivenOK, Between
<1>6. CASE Confirm \/ ConfirmNext
  <2>1. /\ worker \in {"confirm", "confirm_next"} /\ worker' \in Between
        /\ toScience' = Append(toScience, Say("confirmed"))
        /\ UNCHANGED <<toSidecar, science>>
    BY <1>6 DEF Confirm, ConfirmNext, Between, container
  <2>2. toSidecar = <<>> /\ (science = "ended" \/ (science = "confirm" /\ toScience = <<>>))
    BY <2>1 DEF LinkOK, GivenOK
  <2>3. toScience = <<>> => toScience' = <<Say("confirmed")>>
    BY <2>1, OneLine
  <2>4. BetweenOK'
    BY <2>1, <2>2, <2>3 DEF BetweenOK, Say
  <2> QED  BY <2>1, <2>4 DEF LinkOK, SendOK, AwaitOK, GivenOK, Between
<1>7. CASE ConfirmFails
  <2>1. /\ worker \in {"confirm", "confirm_next"} /\ worker' = "error"
        /\ science = "ended" /\ UNCHANGED <<toScience, toSidecar, science>>
    BY <1>7 DEF ConfirmFails, socket, container
  <2> QED  BY <2>1 DEF LinkOK, BetweenOK, SendOK, AwaitOK, GivenOK, Between
<1>8. CASE Close \/ Join
  <2>1. worker' \in {"join", "ended"}
    BY <1>8 DEF Close, Join
  <2> QED  BY <2>1 DEF LinkOK, BetweenOK, SendOK, AwaitOK, GivenOK, Between
<1> QED  BY <1>1, <1>2, <1>3, <1>4, <1>5, <1>6, <1>7, <1>8 DEF WorkerStep

LEMMA ScienceLink ==
  ASSUME TypeOK, LinkOK, ScienceStep  PROVE LinkOK'
<1>0. /\ UNCHANGED <<worker, task, replica>> /\ worker \in WorkerStage
      /\ Question' = Question
  BY DEF ScienceStep, Ask, Read, Run, ReadConfirmation, Question, TypeOK
<1>a. CASE worker \in {"join", "ended"}
  BY <1>0, <1>a DEF LinkOK, BetweenOK, SendOK, AwaitOK, GivenOK, Between
<1> SUFFICES ASSUME worker \notin {"join", "ended"}  PROVE LinkOK'
  BY <1>a
<1>1. CASE Ask
  <2>1. /\ science = "ask" /\ science' = "read"
        /\ toSidecar' = Append(toSidecar, Say("GeT")) /\ UNCHANGED toScience
    BY <1>1 DEF Ask
  <2>2. worker \in Between /\ toScience = <<>> /\ toSidecar = <<>>
    BY <1>0, <2>1 DEF LinkOK, BetweenOK, SendOK, AwaitOK, GivenOK, Between, WorkerStage
  <2>3. toSidecar' = <<Say("GeT")>>
    BY <2>1, <2>2, OneLine
  <2>4. BetweenOK'
    BY <2>1, <2>2, <2>3 DEF BetweenOK, Say
  <2> QED  BY <1>0, <2>2, <2>4 DEF LinkOK, SendOK, AwaitOK, GivenOK, Between
<1>2. CASE Read
  <2>1. /\ science = "read" /\ toScience # <<>> /\ toScience' = Tail(toScience)
        /\ IF Head(toScience).kind = "stop" THEN science' = "ended"
           ELSE science' = "run" /\ job' = Head(toScience)
        /\ UNCHANGED toSidecar
    BY <1>2 DEF Read
  <2>2. worker = "await" /\ toScience = <<Question>> /\ toSidecar = <<>>
    BY <1>0, <2>1 DEF LinkOK, BetweenOK, SendOK, AwaitOK, GivenOK, Between, WorkerStage
  <2>3. Question.kind = "request"
    BY DEF Question
  <2>4. toScience' = <<>> /\ science' = "run" /\ job' = Question
    BY <2>1, <2>2, <2>3, OneLine
  <2>5. AwaitOK'
    BY <1>0, <2>1, <2>2, <2>4 DEF AwaitOK
  <2> QED  BY <1>0, <2>2, <2>5 DEF LinkOK, BetweenOK, SendOK, GivenOK, Between
<1>3. CASE Run
  <2>1. /\ science = "run" /\ science' = "confirm" /\ UNCHANGED toScience
        /\ \E k \in {"success", "failure"} :
             toSidecar' = Append(toSidecar, [job EXCEPT !.kind = k])
    BY <1>3 DEF Run
  <2>2. worker = "await" /\ toScience = <<>> /\ toSidecar = <<>> /\ job = Question
    BY <1>0, <2>1 DEF LinkOK, BetweenOK, SendOK, AwaitOK, GivenOK, Between, WorkerStage
  <2>3. PICK k \in {"success", "failure"} :
          toSidecar' = Append(toSidecar, [job EXCEPT !.kind = k])
    BY <2>1
  <2> DEFINE m == [job EXCEPT !.kind = k]
  <2>4. m \in Message /\ m.kind = k /\ m.file = task /\ m.replica = replica
    BY <2>2 DEF TypeOK, Message, Kind, Question
  <2> HIDE DEF m
  <2>5. toSidecar' = <<m>>
    BY <2>2, <2>3, OneLine DEF m
  <2>6. Answered'
    BY <1>0, <2>4, <2>5 DEF Answered, Answer
  <2>7. AwaitOK'
    BY <2>1, <2>2, <2>6 DEF AwaitOK
  <2> QED  BY <1>0, <2>2, <2>7 DEF LinkOK, BetweenOK, SendOK, GivenOK, Between
<1>4. CASE ReadConfirmation
  <2>1. /\ science = "confirm" /\ science' = "ask" /\ toScience # <<>>
        /\ toScience' = Tail(toScience) /\ UNCHANGED toSidecar
    BY <1>4 DEF ReadConfirmation
  <2>2. worker \in Between /\ toScience = <<Say("confirmed")>> /\ toSidecar = <<>>
    BY <1>0, <2>1 DEF LinkOK, BetweenOK, SendOK, AwaitOK, GivenOK, Between, WorkerStage
  <2>3. toScience' = <<>>
    BY <2>1, <2>2, OneLine
  <2>4. BetweenOK'
    BY <2>1, <2>2, <2>3 DEF BetweenOK
  <2> QED  BY <1>0, <2>2, <2>4 DEF LinkOK, SendOK, AwaitOK, GivenOK, Between
<1> QED  BY <1>1, <1>2, <1>3, <1>4 DEF ScienceStep

LEMMA LinkKept == ASSUME TypeOK, LinkOK, [Next]_vars  PROVE LinkOK'
<1>1. CASE WorkerStep \/ ScienceStep
  BY <1>1, WorkerLink, ScienceLink
<1>2. CASE \/ UploaderStep \/ Terminate \/ UploadFails \/ ConversionFails
           \/ UNCHANGED vars
  <2>1. UNCHANGED <<worker, science, toScience, toSidecar, task, replica, job>>
    BY <1>2
       DEF UploaderStep, Take, Upload, ReportUpload, Terminate, UploadFails,
           ConversionFails, vars, socket, container
  <2> QED  BY <2>1
           DEF LinkOK, BetweenOK, SendOK, AwaitOK, GivenOK, Question, Answered, Answer
<1>3. CASE ScienceDies
  <2>1. UNCHANGED <<worker, toScience, toSidecar, task, replica>> /\ science' = "ended"
    BY <1>3 DEF ScienceDies, socket
  <2>2. Answered' = Answered
    BY <2>1 DEF Answered, Answer
  <2> QED  BY <2>1, <2>2 DEF LinkOK, BetweenOK, SendOK, AwaitOK, GivenOK
<1>4. CASE ParserFails
  <2>1. /\ worker = "await" /\ worker' = "error"
        /\ toSidecar # <<>> /\ toSidecar' = Tail(toSidecar)
        /\ UNCHANGED <<science, toScience>>
    BY <1>4 DEF ParserFails, container
  <2>2. /\ \E m \in Message : toSidecar = <<m>>
        /\ science = "ended" \/ (science = "confirm" /\ toScience = <<>>)
    BY <2>1 DEF LinkOK, AwaitOK, Answered
  <2>3. toSidecar' = <<>>
    BY <2>1, <2>2, OneLine
  <2> QED  BY <2>1, <2>2, <2>3 DEF LinkOK, BetweenOK, SendOK, AwaitOK, GivenOK, Between
<1>5. CASE Replace \/ PodKilled
  <2>1. worker' = "idle" /\ science' = "ask" /\ toScience' = <<>> /\ toSidecar' = <<>>
    BY <1>5 DEF Replace, PodKilled, PodStarts
  <2> QED  BY <2>1 DEF LinkOK, BetweenOK, SendOK, AwaitOK, GivenOK
<1> QED  BY <1>1, <1>2, <1>3, <1>4, <1>5 DEF Next, Faults

LEMMA OnDiskKept ==
  ASSUME TypeOK, TypeOK', LinkOK, OnceOK, OnDiskOK, [Next]_vars
  PROVE  OnDiskOK'
<1>0. /\ uploads \in Seq(File \cup {NoFile}) /\ task \in File \cup {NoFile}
      /\ worker \in {"await", "hand"} => task \in File /\ task \notin Uploading
  BY FileAssumption DEF TypeOK, OnceOK, Fresh
<1>1. CASE HandOver
  <2>1. /\ worker = "hand" /\ worker' = "confirm" /\ UNCHANGED <<destination, output, task>>
        /\ uploads' = Append(uploads, task) \/ UNCHANGED uploads
    BY <1>1 DEF HandOver
  <2>2. Elements(Append(uploads, task)) = Elements(uploads) \cup {task}
    BY <1>0, AppendElements
  <2>3. Elements(uploads)' \subseteq Elements(uploads) \cup {task}
    BY <2>1, <2>2 DEF Elements
  <2> QED  BY <2>1, <2>3 DEF OnDiskOK
<1>2. CASE Await
  <2>1. /\ worker = "await" /\ UNCHANGED <<destination, output, task, uploads>>
        /\ worker' \in {"hand", "confirm_next"}
        /\ worker' = "hand" =>
             toSidecar # <<>> /\ Head(toSidecar).kind = "success"
    BY <1>2 DEF Await, upload
  <2>2. toSidecar # <<>> => 1 \in DOMAIN toSidecar /\ toSidecar[1] = Head(toSidecar)
    BY DEF TypeOK
  <2>3. worker' = "hand" => task \in output
    BY <2>1, <2>2 DEF OnDiskOK
  <2>4. Elements(uploads)' = Elements(uploads)
    BY <2>1 DEF Elements
  <2> QED  BY <2>1, <2>3, <2>4 DEF OnDiskOK
<1>3. CASE Send
  <2>1. /\ worker = "send" /\ worker' \in {"await", "error"}
        /\ UNCHANGED <<destination, output, toSidecar, uploads>>
    BY <1>3 DEF Send, upload
  <2>2. DOMAIN toSidecar' = {}
    BY <2>1 DEF LinkOK, SendOK
  <2>3. Elements(uploads)' = Elements(uploads)
    BY <2>1 DEF Elements
  <2> QED  BY <2>1, <2>2, <2>3 DEF OnDiskOK
<1>4. CASE Close
  <2>1. /\ worker' = "join" /\ UNCHANGED <<destination, output>>
        /\ uploads' = Append(uploads, NoFile) \/ UNCHANGED uploads
    BY <1>4 DEF Close
  <2>2. Elements(Append(uploads, NoFile)) = Elements(uploads) \cup {NoFile}
    BY <1>0, AppendElements
  <2>3. Elements(uploads)' \subseteq Elements(uploads) \cup {NoFile}
    BY <2>1, <2>2 DEF Elements
  <2> QED  BY <2>1, <2>3 DEF OnDiskOK
<1>5. CASE WorkerStep /\ ~HandOver /\ ~Await /\ ~Send /\ ~Close
  <2>1. /\ worker' \notin {"await", "hand"}
        /\ UNCHANGED <<destination, output, uploads>>
    BY <1>5
       DEF WorkerStep, Deliver, Synch, SynchFails, Confirm, ConfirmNext, ConfirmFails,
           ReportFailure, Acknowledge, Join, upload
  <2>2. Elements(uploads)' = Elements(uploads)
    BY <2>1 DEF Elements
  <2> QED  BY <2>1, <2>2 DEF OnDiskOK
<1>6. CASE Take
  <2>1. /\ UNCHANGED <<destination, output, worker, task, toSidecar>>
        /\ uploads # <<>> /\ uploads' = Tail(uploads)
    BY <1>6 DEF Take, socket
  <2>2. Elements(uploads)' \subseteq Elements(uploads)
    <3>1. Elements(Tail(uploads)) \subseteq Elements(uploads)
      BY <1>0, <2>1, TailElements
    <3> QED  BY <2>1, <3>1 DEF Elements
  <2> QED  BY <2>1, <2>2 DEF OnDiskOK
<1>7. CASE Upload \/ UploadFails
  <2>1. /\ UNCHANGED <<destination, worker, task, toSidecar, uploads>>
        /\ output' = output \ {uploader.file} /\ uploader.file \in File
    BY <1>7, FileAssumption DEF Upload, UploadFails, socket, TypeOK
  <2>2. uploader.file \in Uploading /\ uploader.file \notin Elements(uploads)
    BY <2>1, FileAssumption, UploadingIs DEF OnceOK
  <2>3. Elements(uploads)' = Elements(uploads)
    BY <2>1 DEF Elements
  <2>4. worker \in {"await", "hand"} => task # uploader.file
    BY <1>0, <2>2
  <2> QED  BY <2>1, <2>2, <2>3, <2>4 DEF OnDiskOK
<1>8. CASE ReportUpload \/ ConversionFails \/ Terminate \/ ScienceDies \/ UNCHANGED vars
  <2>1. UNCHANGED <<destination, worker, task, toSidecar, uploads, output>>
    BY <1>8
       DEF ReportUpload, ConversionFails, Terminate, ScienceDies, vars, socket, upload
  <2>2. Elements(uploads)' = Elements(uploads)
    BY <2>1 DEF Elements
  <2> QED  BY <2>1, <2>2 DEF OnDiskOK
<1>9. CASE Ask \/ Read \/ ReadConfirmation
  <2>1. UNCHANGED <<destination, worker, task, uploads, output>>
    BY <1>9 DEF Ask, Read, ReadConfirmation, upload
  <2>2. worker = "await" => UNCHANGED toSidecar
    BY <1>9 DEF Ask, Read, ReadConfirmation, LinkOK, AwaitOK
  <2>3. Elements(uploads)' = Elements(uploads)
    BY <2>1 DEF Elements
  <2> QED  BY <2>1, <2>2, <2>3 DEF OnDiskOK
<1>10. CASE Run
  <2>1. /\ UNCHANGED <<destination, worker, task, uploads>> /\ output \subseteq output'
        /\ \/ /\ toSidecar' = Append(toSidecar, [job EXCEPT !.kind = "success"])
              /\ job.file \in output'
           \/ toSidecar' = Append(toSidecar, [job EXCEPT !.kind = "failure"])
    BY <1>10 DEF Run, upload
  <2>2. worker = "await" =>
          \A i \in DOMAIN toSidecar' : toSidecar'[i].kind = "success" => task \in output'
    <3> SUFFICES ASSUME worker = "await"
                 PROVE  \A i \in DOMAIN toSidecar' :
                          toSidecar'[i].kind = "success" => task \in output'
      OBVIOUS
    <3>1. toSidecar = <<>> /\ job = Question
      BY <1>10 DEF Run, LinkOK, AwaitOK
    <3>2. \A k : [job EXCEPT !.kind = k].kind = k /\ job.file = task
      BY <3>1 DEF Question
    <3>3. CASE /\ toSidecar' = Append(toSidecar, [job EXCEPT !.kind = "success"])
               /\ job.file \in output'
      BY <3>2, <3>3
    <3>4. CASE toSidecar' = Append(toSidecar, [job EXCEPT !.kind = "failure"])
      <4> DEFINE m == [job EXCEPT !.kind = "failure"]
      <4>1. m.kind # "success"
        BY <3>2
      <4> HIDE DEF m
      <4>2. toSidecar' = <<m>>
        BY <3>1, <3>4, OneLine DEF m
      <4>3. \A i \in DOMAIN toSidecar' : toSidecar'[i] = m
        BY <4>2, OneLine
      <4> QED  BY <4>1, <4>3
    <3> QED  BY <2>1, <3>3, <3>4
  <2>3. Elements(uploads)' = Elements(uploads)
    BY <2>1 DEF Elements
  <2> QED  BY <2>1, <2>2, <2>3 DEF OnDiskOK
<1>11. CASE ParserFails \/ Replace \/ PodKilled
  <2>1. /\ worker' \in {"error", "idle"}
        /\ UNCHANGED <<destination, uploads, output>> \/ uploads' = <<>>
    BY <1>11 DEF ParserFails, Replace, PodKilled, PodStarts, upload
  <2>2. Elements(uploads)' = Elements(uploads) \/ Elements(uploads)' = {}
    BY <2>1 DEF Elements
  <2>3. uploads' = <<>> => Elements(uploads)' = {}
    BY DEF Elements
  <2> QED  BY <2>1, <2>2, <2>3 DEF OnDiskOK, Elements
<1> QED  BY <1>1, <1>2, <1>3, <1>4, <1>5, <1>6, <1>7, <1>8, <1>9, <1>10, <1>11
         DEF Next, UploaderStep, ScienceStep, Faults

\* The two ends are never out of step, whatever dies or raises: a status that the worker
\* waits for answers its own request, and what it hands over is on the disk.
THEOREM AnswersItsRequestHolds == Spec => []AnswersItsRequest
<1> DEFINE IInv == TypeOK /\ PillOK /\ OnceOK /\ LinkOK /\ OnDiskOK
<1>1. Init => IInv
  <2> SUFFICES ASSUME Init  PROVE IInv
    OBVIOUS
  <2>1. PillOK
    BY DEF Init, PillOK, Elements, Waits
  <2>2. Uploading = {}
    BY DEF Init, Uploading, Waits
  <2>3. OnceOK
    BY <2>2, FileAssumption DEF Init, OnceOK, Distinct, Elements
  <2>4. LinkOK
    BY DEF Init, LinkOK, BetweenOK, SendOK, AwaitOK, GivenOK
  <2>5. OnDiskOK
    BY DEF Init, OnDiskOK, Elements
  <2> QED  BY <2>1, <2>3, <2>4, <2>5, InitType
<1>2. IInv /\ [Next]_vars => IInv'
  BY NextType, PillKept, OnceKept, LinkKept, OnDiskKept
<1>3. IInv => AnswersItsRequest
  <2> SUFFICES ASSUME IInv  PROVE AnswersItsRequest
    OBVIOUS
  <2>1. ASSUME worker = "await", NEW i \in DOMAIN toSidecar  PROVE Answer(toSidecar[i])
    <3>1. toSidecar # <<>>
      BY <2>1
    <3>2. PICK m \in Message : Answer(m) /\ toSidecar = <<m>>
      BY <2>1, <3>1 DEF LinkOK, AwaitOK, Answered
    <3>3. i = 1 /\ toSidecar[i] = m
      BY <2>1, <3>2, OneLine
    <3> QED  BY <3>2, <3>3
  <2>2. worker = "await" /\ science = "run" => job.file = task /\ job.replica = replica
    BY DEF LinkOK, AwaitOK, Question
  <2> QED  BY <2>1, <2>2 DEF AnswersItsRequest, OnDiskOK, Elements, Answer
<1> QED  BY <1>1, <1>2, <1>3, PTL DEF Spec
-----------------------------------------------------------------------------
(***************************************************************************)
(* Without faults, the three processes implement the safety of TaskReport. *)
(***************************************************************************)
\* Until a fault, what the uploader is about to report was stored.
UploadedOK == faults = 0 /\ uploader.pc = "report" => uploader.file \in stored

\* Nothing has failed after this step, so nothing had before it.
LEMMA FaultsNever ==
  ASSUME TypeOK, [Next]_vars, faults' = 0
  PROVE  ~Faults /\ faults = 0
<1>1. faults \in Nat
  BY BoundAssumption DEF TypeOK
<1> QED  BY <1>1, FaultsCounted

LEMMA UploadedKept ==
  ASSUME TypeOK, UploadedOK, [Next]_vars  PROVE UploadedOK'
<1> SUFFICES ASSUME faults' = 0  PROVE UploadedOK'
  BY DEF UploadedOK
<1>0. faults = 0 /\ ~Faults
  BY FaultsNever
<1>1. CASE Take \/ ReportUpload \/ Replace
  <2>1. uploader'.pc # "report"
    BY <1>1 DEF Take, ReportUpload, Replace, PodStarts, Waits
  <2> QED  BY <2>1 DEF UploadedOK
<1>2. CASE Upload
  <2>1. uploader'.file = uploader.file /\ stored' = stored \cup {uploader.file}
    BY <1>2 DEF Upload, TypeOK
  <2> QED  BY <2>1 DEF UploadedOK
<1>3. CASE WorkerStep \/ ScienceStep \/ Terminate \/ UNCHANGED vars
  <2>1. UNCHANGED <<uploader, stored>>
    BY <1>3
       DEF WorkerStep, Deliver, Synch, SynchFails, Send, Await, HandOver, Confirm,
           ConfirmNext, ConfirmFails, ReportFailure, Acknowledge, Close, Join,
           ScienceStep, Ask, Read, Run, ReadConfirmation, Terminate, vars, upload
  <2> QED  BY <1>0, <2>1 DEF UploadedOK
<1> QED  BY <1>0, <1>1, <1>2, <1>3 DEF Next, UploaderStep

\* Without faults, a file that is still owed was never reported.
LEMMA OwedUnreported ==
  ASSUME faults = 0, TypeOK, NEW f \in File, Budget(f), Owing(f) \/ f \in Uploading
  PROVE  success[f] = 0 /\ failure[f] = 0
<1>1. ReportsOK /\ faults = 0
  BY TypeParts
<1>2. Reported(f) \in Nat /\ Due(f) \in 1..2
  BY BudgetTypes DEF Due
<1>3. Reported(f) = 0
  BY <1>1, <1>2 DEF Budget
<1> QED  BY <1>1, <1>3 DEF Reported, ReportsOK

\* A step either makes a result available, or reports a file that is still owed.
LEMMA ReportsImplemented ==
  ASSUME TypeOK, PillOK, OnceOK, OnDiskOK, UploadedOK,
         \A f \in File : Budget(f), [Next]_vars, faults' = 0
  PROVE  [Promise!ReportNext]_Promise!reportVars
<1> USE DEF Promise!ReportNext, Promise!reportVars
<1>0. /\ success \in [File -> Nat] /\ failure \in [File -> Nat]
      /\ destination \in {"object-store", "volume"}
      /\ faults = 0 /\ ~Faults
  BY FaultsNever DEF TypeOK
<1>a. ASSUME UNCHANGED <<destination, output, stored, success, failure>>
      PROVE  UNCHANGED Promise!reportVars
  BY <1>a DEF Available
<1>b. ASSUME NEW f \in File, UNCHANGED <<success, failure, destination>>,
             Available' = Available \cup {f}
      PROVE  [Promise!ReportNext]_Promise!reportVars
  <2>1. CASE f \in Available
    BY <1>b, <2>1 DEF Available
  <2>2. CASE f \notin Available
    BY <1>b, <2>2 DEF Available, Promise!Produce
  <2> QED  BY <2>1, <2>2
<1>c. ASSUME NEW f \in File, f \in Available, success[f] = 0, failure[f] = 0,
             success' = [success EXCEPT ![f] = @ + 1], Available' = Available,
             UNCHANGED failure
      PROVE  Promise!Succeed(f)
  <2>1. success' = [success EXCEPT ![f] = 1]
    BY <1>0, <1>c
  <2> QED  BY <1>c, <2>1 DEF Available, Promise!Succeed, Promise!Unreported
<1>1. CASE HandOver /\ destination = "volume"
  <2>1. /\ worker = "hand" /\ success' = [success EXCEPT ![task] = @ + 1]
        /\ UNCHANGED <<destination, output, stored, failure>>
    BY <1>1 DEF HandOver
  <2>2. task \in File /\ Owing(task)
    BY <2>1 DEF TypeOK, Owing, Fresh
  <2>3. task \in Available /\ Available' = Available
    BY <1>1, <2>1 DEF OnDiskOK, Available
  <2>4. Promise!Succeed(task)
    BY <1>0, <1>c, <2>1, <2>2, <2>3, OwedUnreported
  <2> QED  BY <2>2, <2>4
<1>2. CASE ReportFailure
  <2>1. /\ worker \in {"fail", "error"} /\ failure' = [failure EXCEPT ![task] = @ + 1]
        /\ UNCHANGED <<destination, output, stored, success>>
    BY <1>2 DEF ReportFailure, upload
  <2>2. task \in File /\ Owing(task)
    BY <2>1 DEF TypeOK, Owing, Fresh
  <2>3. success[task] = 0 /\ failure[task] = 0
    BY <1>0, <2>2, OwedUnreported
  <2>4. failure' = [failure EXCEPT ![task] = 1]
    BY <1>0, <2>1, <2>2, <2>3
  <2>5. Promise!Fail(task)
    BY <2>1, <2>3, <2>4 DEF Promise!Fail, Promise!Unreported, Available
  <2> QED  BY <2>2, <2>5
<1>3. CASE ReportUpload
  <2> DEFINE g == uploader.file
  <2>1. /\ uploader.pc = "report" /\ success' = [success EXCEPT ![g] = @ + 1]
        /\ UNCHANGED <<destination, output, stored, failure>>
    BY <1>3 DEF ReportUpload
  <2>2. g \in File /\ g \in Uploading /\ g \in stored
    <3>1. g \in File /\ g \in Uploading
      BY <2>1, FileAssumption DEF TypeOK, Uploading
    <3>2. g \in stored
      BY <1>0, <2>1 DEF UploadedOK
    <3> QED  BY <3>1, <3>2
  <2>3. destination = "object-store"
    BY <1>0, <2>1 DEF PillOK, Waits
  <2>4. g \in Available /\ Available' = Available
    BY <2>1, <2>2, <2>3 DEF Available
  <2> HIDE DEF g
  <2>5. Promise!Succeed(g)
    BY <1>0, <1>c, <2>1, <2>2, <2>4, OwedUnreported
  <2> QED  BY <2>2, <2>5
<1>4. CASE Upload
  <2>1. /\ uploader.pc = "upload" /\ stored' = stored \cup {uploader.file}
        /\ UNCHANGED <<destination, success, failure>>
    BY <1>4 DEF Upload, reports
  <2>2. uploader.file \in File
    BY <2>1, FileAssumption DEF TypeOK
  <2>3. destination = "object-store"
    BY <1>0, <2>1 DEF PillOK, Waits
  <2>4. Available' = Available \cup {uploader.file}
    BY <2>1, <2>3 DEF Available
  <2> QED  BY <1>b, <2>1, <2>2, <2>4
<1>5. CASE Run
  <2>1. UNCHANGED <<destination, stored, success, failure>>
    BY <1>5 DEF Run, upload, reports
  <2>2. output' = output \/ (job.file \in File /\ output' = output \cup {job.file})
    BY <1>5 DEF Run
  <2>3. CASE output' = output
    BY <1>a, <2>1, <2>3
  <2>4. CASE output' # output /\ destination = "volume"
    <3>1. job.file \in File /\ Available' = Available \cup {job.file}
      BY <2>1, <2>2, <2>4 DEF Available
    <3> QED  BY <1>b, <2>1, <3>1
  <2>5. CASE destination # "volume"
    BY <2>1, <2>5 DEF Available
  <2> QED  BY <2>3, <2>4, <2>5
<1>6. CASE Replace
  <2>1. /\ UNCHANGED <<destination, stored, success, failure>>
        /\ destination = "volume" => UNCHANGED output
    BY <1>6 DEF Replace, PodStarts, reports
  <2> QED  BY <2>1 DEF Available
<1>7. CASE \/ WorkerStep /\ ~(HandOver /\ destination = "volume") /\ ~ReportFailure
           \/ Take \/ Ask \/ Read \/ ReadConfirmation \/ Terminate \/ UNCHANGED vars
  <2>1. UNCHANGED <<destination, output, stored, success, failure>>
    BY <1>0, <1>7
       DEF WorkerStep, Deliver, Synch, SynchFails, Send, Await, HandOver, Confirm,
           ConfirmNext, ConfirmFails, Acknowledge, Close, Join, Take, Ask, Read,
           ReadConfirmation, Terminate, vars, upload, reports
  <2> QED  BY <1>a, <2>1
<1> QED  BY <1>0, <1>1, <1>2, <1>3, <1>4, <1>5, <1>6, <1>7
         DEF Next, UploaderStep, ScienceStep

\* Until a fault, the App is told of a success only if the result is available.
SucceededOK == faults = 0 => \A f \in File : success[f] > 0 => f \in Available

LEMMA SucceededKept ==
  ASSUME TypeOK, SucceededOK, [Promise!ReportNext]_Promise!reportVars,
         faults' = 0 => faults = 0
  PROVE  SucceededOK'
<1> SUFFICES ASSUME faults = 0, NEW f \in File, success'[f] > 0
             PROVE  f \in Available'
  BY DEF SucceededOK
<1>0. success \in [File -> Nat]
  BY DEF TypeOK
<1>1. Available \subseteq Available' /\ (f \notin Available' => success'[f] = success[f])
  BY <1>0
     DEF Promise!ReportNext, Promise!reportVars, Promise!Produce, Promise!Succeed,
         Promise!Fail
<1> QED  BY <1>1 DEF SucceededOK

\* A step reports at most one file, and once.
LEMMA OneReport ==
  ASSUME TypeOK, [Next]_vars
  PROVE  \/ UNCHANGED <<success, failure>>
         \/ \E g \in File :
              \/ success' = [success EXCEPT ![g] = @ + 1] /\ UNCHANGED failure
              \/ failure' = [failure EXCEPT ![g] = @ + 1] /\ UNCHANGED success
<1>0. /\ task # NoFile => task \in File
      /\ uploader.pc = "report" => uploader.file \in File
      /\ worker \in {"hand", "fail", "error"} => task # NoFile
  BY DEF TypeOK
<1>1. CASE HandOver
  BY <1>0, <1>1 DEF HandOver
<1>2. CASE ReportFailure
  BY <1>0, <1>2 DEF ReportFailure
<1>3. CASE ReportUpload
  BY <1>0, <1>3 DEF ReportUpload
<1>4. CASE WorkerStep /\ ~HandOver /\ ~ReportFailure
  BY <1>4
     DEF WorkerStep, Deliver, Synch, SynchFails, Send, Await, Confirm, ConfirmNext,
         ConfirmFails, Acknowledge, Close, Join, reports
<1>5. CASE Take \/ Upload \/ ScienceStep \/ Terminate \/ UNCHANGED vars
  BY <1>5 DEF Take, Upload, ScienceStep, Ask, Read, Run, ReadConfirmation, Terminate,
              vars, reports
<1>6. CASE Replace \/ Faults
  BY <1>6 DEF Replace, Faults, ScienceDies, ParserFails, UploadFails, ConversionFails,
              PodKilled, reports
<1> QED  BY <1>1, <1>2, <1>3, <1>4, <1>5, <1>6 DEF Next, UploaderStep

\* The invariants of the pod.
PodOK ==
  /\ TypeOK /\ PillOK /\ StopOK /\ OnceOK /\ LinkOK /\ OnDiskOK
  /\ UploadedOK /\ SucceededOK /\ \A f \in File : Budget(f)

LEMMA PodInit == ASSUME Init  PROVE PodOK
<1>1. TypeOK
  BY InitType
<1>2. PillOK /\ StopOK
  BY DEF Init, PillOK, StopOK, Elements, Waits
<1>3. Uploading = {}
  BY DEF Init, Uploading, Waits
<1>4. OnceOK
  BY <1>3, FileAssumption DEF Init, OnceOK, Distinct, Elements
<1>5. LinkOK /\ OnDiskOK /\ UploadedOK /\ SucceededOK
  BY DEF Init, LinkOK, BetweenOK, SendOK, AwaitOK, GivenOK, OnDiskOK, Elements,
         UploadedOK, SucceededOK, Waits
<1>6. ASSUME NEW f \in File  PROVE Budget(f)
  BY <1>3 DEF Init, Budget, Broken, Reported, Due
<1> QED  BY <1>1, <1>2, <1>4, <1>5, <1>6 DEF PodOK

LEMMA PodKept == ASSUME PodOK, [Next]_vars  PROVE PodOK'
<1>0. /\ TypeOK /\ PillOK /\ StopOK /\ OnceOK /\ LinkOK /\ OnDiskOK
      /\ UploadedOK /\ SucceededOK /\ \A f \in File : Budget(f)
  BY DEF PodOK
<1>1. TypeOK' /\ PillOK' /\ StopOK' /\ OnceOK' /\ LinkOK' /\ OnDiskOK' /\ UploadedOK'
  BY <1>0, NextType, PillKept, StopKept, OnceKept, LinkKept, OnDiskKept, UploadedKept
<1>2. ASSUME NEW f \in File  PROVE Budget(f)'
  BY <1>0, <1>1, BudgetKept
<1>3. SucceededOK'
  <2>1. CASE faults' = 0
    <3>1. [Promise!ReportNext]_Promise!reportVars /\ faults = 0
      BY <1>0, <2>1, ReportsImplemented, FaultsNever
    <3> QED  BY <1>0, <3>1, SucceededKept
  <2>2. CASE faults' # 0
    BY <2>2 DEF SucceededOK
  <2> QED  BY <2>1, <2>2
<1> QED  BY <1>1, <1>2, <1>3 DEF PodOK

\* Without faults each task is reported at most once, as a success only if its
\* result is available: whatever the order in which worker, uploader and container run, and
\* however often an ended pod is replaced.
THEOREM TaskReportImplemented == MaxFaults = 0 /\ Spec => Promise!ReportSafety
<1> SUFFICES ASSUME MaxFaults = 0  PROVE Spec => Promise!ReportSafety
  OBVIOUS
<1>1. Init => PodOK
  BY PodInit
<1>2. PodOK /\ [Next]_vars => PodOK'
  BY PodKept
<1>3. PodOK /\ [Next]_vars => [Promise!ReportNext]_Promise!reportVars
  <2> SUFFICES ASSUME PodOK, [Next]_vars
               PROVE  [Promise!ReportNext]_Promise!reportVars
    OBVIOUS
  <2>1. /\ TypeOK /\ PillOK /\ OnceOK /\ OnDiskOK /\ UploadedOK
        /\ \A f \in File : Budget(f)
    BY DEF PodOK
  <2>2. faults' = 0
    BY <2>1, NextType DEF TypeOK
  <2> QED  BY <2>1, <2>2, ReportsImplemented
<1>4. Init => Promise!ReportInit
  BY DEF Init, Promise!ReportInit, Available
<1> QED  BY <1>1, <1>2, <1>3, <1>4, PTL DEF Spec, Promise!ReportSafety
=============================================================================
