-------------------------- MODULE JobServerProofs --------------------------
(***************************************************************************)
(* Proofs about JobServer, for every set of jobs and workers, every queue  *)
(* size and retention limits, and every choice of faults.                  *)
(***************************************************************************)
EXTENDS JobServerRefinement, WorkerPoolProofs, SequenceTheorems

\* What a worker holds agrees with where it stands: a job from recv until the
\* end of finish_job, and a final status from the end of the inference on.
\* Without it neither the type of a record that finish_job updates nor the
\* ownership of a job would be kept by a worker's steps.
WorkersConsistent ==
    \A w \in Workers :
        /\ task[w] \in Jobs <=> wstate[w] \in {"assigned", "inferring", "finishing"}
        /\ finish[w] # "none" <=> wstate[w] = "finishing"
        /\ outcome[w] \in Terminal <=> wstate[w] = "finishing"

IInv == PoolInv /\ TypeOK /\ WorkersConsistent

-----------------------------------------------------------------------------
(* Lemmas about the operators of JobStore and the sequences they build.    *)

\* A line of results.jsonl holds a final status.
LEMMA ResultLineType ==
    ASSUME StoreTypeOK, NEW j \in Jobs, NEW s \in Terminal, AppendResultLine(j, s)
    PROVE  results' \in [Jobs -> Seq(Terminal)]
<1>1. results[j] \in Seq(Terminal)
  BY DEF StoreTypeOK
<1>2. Append(results[j], s) \in Seq(Terminal)
  BY <1>1, AppendProperties
<1>. QED
  BY <1>2 DEF StoreTypeOK, AppendResultLine

\* The files say of a job that it is unknown, queued or finished.
LEMMA StatusOnDiskType ==
    ASSUME StoreTypeOK, NEW j \in Jobs
    PROVE  StatusOnDisk(j) \in Terminal \cup {"queued", "absent"}
<1>1. results[j] \in Seq(Terminal)
  BY DEF StoreTypeOK
<1>2. CASE results[j] # <<>>
  <2>1. Len(results[j]) \in Nat \ {0}
    BY <1>1, <1>2, EmptySeq
  <2>2. results[j][Len(results[j])] \in Terminal
    BY <1>1, <2>1, ElementOfSeq
  <2>. QED
    BY <1>2, <2>2 DEF StatusOnDisk
<1>3. CASE results[j] = <<>>
  BY <1>3 DEF StatusOnDisk
<1>. QED
  BY <1>2, <1>3

\* A stamp keeps the type of the order of stamps.
LEMMA TouchType ==
    ASSUME later \subseteq Jobs \X Jobs, NEW j \in Jobs, Touch(j)
    PROVE  later' \subseteq Jobs \X Jobs
  BY DEF Touch

\* Retention keeps the type of the records.
LEMMA RetainType ==
    ASSUME StoreTypeOK, RetainRecentJobs
    PROVE  jobs' \in [Jobs -> Pending \cup Terminal \cup {"absent"}]
  BY DEF StoreTypeOK, RetainRecentJobs

-----------------------------------------------------------------------------
(* Every step of the server is a step of the worker pool.                  *)

\* Each step of the server is a step of the pool, or leaves the pool alone.
LEMMA NextIsPoolNext == Next => [PoolNext]_poolVars
<1>1. ASSUME NEW j \in Jobs, Submission(j) PROVE UNCHANGED poolVars
  BY <1>1 DEF Submission, Admit, RejectInput, BuildRecord, SaveImage, SaveImageFails,
     CheckFull, InsertRecord, AppendSubmission, AppendSubmissionFails, Enqueue,
     EnqueueFails, RemoveUnqueued, PersistUnqueued, PersistUnqueuedFails, CancelRequest
<1>2. ASSUME NEW w \in Workers, Work(w) PROVE [PoolNext]_poolVars
  BY <1>2 DEF Work, LoadModel, LoadModelFails, ReceiveJob, StartJob, InferenceSucceeds,
     InferenceErrs, InferenceCrashes, InferenceExpires, UpdateRecord, UpdateMissing,
     AppendResult, AppendResultFails, SendWebhook, Cleanup, CleanupFails, Retain,
     EndRequest, PoolNext
<1>3. ASSUME Process PROVE [PoolNext]_poolVars
  BY <1>3 DEF Process, Load, Recover, CompactFirst, CompactSecond, Serve, Crash, PoolNext
<1>. QED
  BY <1>1, <1>2, <1>3 DEF Next

\* In the composed server, too, the ready counter that admits submissions is
\* the number of serving workers, and a worker that runs an inference owns its
\* sessions.
THEOREM ServerPoolInvariance == Spec => []PoolInv
<1>1. Init => PoolInv
  BY PoolInitInv DEF Init
<1>2. PoolInv /\ [Next]_vars => PoolInv'
  <2>1. UNCHANGED vars => UNCHANGED poolVars
    BY DEF vars
  <2>. QED
    BY <2>1, NextIsPoolNext, PoolStepInv
<1>. QED
  BY <1>1, <1>2, PTL DEF Spec, SafetySpec

-----------------------------------------------------------------------------
(* Types.                                                                  *)

\* The invariant holds when the server has not started yet.
LEMMA InitIInv == Init => IInv
<1>. SUFFICES ASSUME Init PROVE IInv
  OBVIOUS
<1>1. PoolInv /\ PoolTypeOK
  BY PoolInitInv DEF Init, PoolInv
<1>2. StoreTypeOK
  BY DEF Init, StoreInit, StoreTypeOK
<1>3. TypeOK
  BY <1>1, <1>2, ServerAssumption DEF Init, TypeOK, Phase, Finish
<1>4. WorkersConsistent
  BY ServerAssumption DEF Init, PoolInit, WorkersConsistent, Terminal
<1>. QED
  BY <1>1, <1>3, <1>4 DEF IInv

\* A submission changes no worker, and each of its writes keeps the types.
LEMMA SubmissionType ==
    ASSUME IInv, NEW j \in Jobs, Submission(j)
    PROVE  IInv'
<1>. USE DEF IInv
<1>1. UNCHANGED <<poolVars, workVars, processVars>>
  BY DEF Submission, Admit, RejectInput, BuildRecord, SaveImage, SaveImageFails,
     CheckFull, InsertRecord, AppendSubmission, AppendSubmissionFails, Enqueue,
     EnqueueFails, RemoveUnqueued, PersistUnqueued, PersistUnqueuedFails, CancelRequest
<1>2. WorkersConsistent'
  BY <1>1 DEF WorkersConsistent, poolVars, workVars
<1>3. PoolInv' /\ PoolTypeOK'
  BY <1>1, PoolStepInv DEF PoolInv
<1>4. handler' \in [Jobs -> {"new"} \cup InFlight \cup Answered]
  BY DEF TypeOK, Submission, Admit, RejectInput, BuildRecord, SaveImage, SaveImageFails,
     CheckFull, InsertRecord, AppendSubmission, AppendSubmissionFails, Enqueue,
     EnqueueFails, RemoveUnqueued, PersistUnqueued, PersistUnqueuedFails, CancelRequest,
     Handle, InFlight, Answered
<1>5. queue' \in Seq(Jobs) /\ images' \subseteq Jobs
  <2>1. Append(queue, j) \in Seq(Jobs)
    BY AppendProperties DEF TypeOK
  <2>. QED
    BY <2>1 DEF TypeOK, Submission, Admit, RejectInput, BuildRecord, SaveImage, SaveImageFails,
       CheckFull, InsertRecord, AppendSubmission, AppendSubmissionFails, Enqueue,
       EnqueueFails, RemoveUnqueued, PersistUnqueued, PersistUnqueuedFails, CancelRequest
<1>6. StoreTypeOK'
  <2>1. CASE BuildRecord(j)
    BY <2>1, TouchType DEF BuildRecord, TypeOK, StoreTypeOK
  <2>2. CASE InsertRecord(j) \/ RemoveUnqueued(j) \/ AppendSubmission(j) \/ AppendSubmissionFails(j)
    BY <2>2 DEF InsertRecord, RemoveUnqueued, AppendSubmission, AppendSubmissionFails, SetStatus, TypeOK,
       StoreTypeOK, Pending
  <2>3. CASE PersistUnqueued(j) \/ PersistUnqueuedFails(j)
    <3>1. results' \in [Jobs -> Seq(Terminal)]
      BY <2>3, ResultLineType DEF PersistUnqueued, PersistUnqueuedFails, TypeOK, StoreTypeOK, Terminal
    <3>. QED
      BY <2>3, <3>1, TouchType DEF PersistUnqueued, PersistUnqueuedFails, TypeOK, StoreTypeOK
  <2>4. CASE UNCHANGED storeVars
    BY <2>4 DEF storeVars, TypeOK, StoreTypeOK
  <2>. QED
    BY <2>1, <2>2, <2>3, <2>4 DEF Submission, Admit, RejectInput, SaveImage, SaveImageFails,
       CheckFull, Enqueue, EnqueueFails, CancelRequest
<1>. QED
  BY <1>1, <1>2, <1>3, <1>4, <1>5, <1>6 DEF TypeOK, workVars, processVars

\* A worker's step keeps the types: what it writes into a record and a file is
\* the final status it holds, and it holds one when it is in finish_job.
LEMMA WorkType ==
    ASSUME IInv, NEW w \in Workers, Work(w)
    PROVE  IInv'
<1>. USE DEF IInv
<1>1. PoolInv' /\ PoolTypeOK'
  BY NextIsPoolNext, PoolStepInv DEF Next, PoolInv
<1>2. CASE LoadModel(w) \/ LoadModelFails(w)
  <2>1. UNCHANGED <<storeVars, requestVars, workVars, processVars>>
    BY <1>2 DEF LoadModel, LoadModelFails
  <2>2. WorkersConsistent'
    BY <1>2 DEF LoadModel, LoadModelFails, InitializeOk, InitializeFails, Goto, workVars,
       WorkersConsistent, TypeOK, PoolTypeOK
  <2>. QED
    BY <1>1, <2>1, <2>2 DEF TypeOK, StoreTypeOK, storeVars, requestVars, workVars, processVars
<1>3. CASE ReceiveJob(w)
  <2>1. Head(queue) \in Jobs /\ Tail(queue) \in Seq(Jobs)
    BY <1>3, HeadTailProperties DEF ReceiveJob, TypeOK
  <2>2. WorkersConsistent'
    BY <1>3, <2>1 DEF ReceiveJob, Receive, Goto, WorkersConsistent, TypeOK, PoolTypeOK
  <2>3. StoreTypeOK'
    BY <1>3 DEF ReceiveJob, storeVars, TypeOK, StoreTypeOK
  <2>. QED
    BY <1>1, <1>3, <2>1, <2>2, <2>3 DEF ReceiveJob, processVars, TypeOK
<1>4. CASE StartJob(w)
  <2>1. StoreTypeOK'
    BY <1>4, TouchType DEF StartJob, SetStatus, Present, Pending, TypeOK, StoreTypeOK
  <2>2. WorkersConsistent'
    BY <1>4 DEF StartJob, SpawnInference, Goto, workVars, WorkersConsistent, TypeOK, PoolTypeOK
  <2>. QED
    BY <1>1, <1>4, <2>1, <2>2 DEF StartJob, requestVars, workVars, processVars, TypeOK
<1>5. CASE InferenceSucceeds(w) \/ InferenceErrs(w) \/ InferenceCrashes(w) \/ InferenceExpires(w)
  <2>1. PICK s \in Terminal : EnterFinish(w, s)
    BY <1>5 DEF InferenceSucceeds, InferenceErrs, InferenceCrashes, InferenceExpires, Terminal
  <2>2. wstate[w] = "inferring" /\ wstate' = [wstate EXCEPT ![w] = "finishing"]
    BY <1>5 DEF InferenceSucceeds, InferenceErrs, InferenceCrashes, InferenceExpires,
       InferenceReturns, InferencePanics, InferenceTimesOut, Goto
  <2>3. WorkersConsistent'
    BY <2>1, <2>2 DEF EnterFinish, WorkersConsistent, TypeOK, PoolTypeOK
  <2>4. StoreTypeOK'
    BY <2>1 DEF EnterFinish, storeVars, TypeOK, StoreTypeOK
  <2>. QED
    BY <1>1, <2>1, <2>3, <2>4 DEF EnterFinish, requestVars, processVars, TypeOK, Finish
<1>6. ASSUME At(w, "update") \/ At(w, "append") \/ At(w, "webhook") \/ At(w, "cleanup")
               \/ At(w, "retain")
      PROVE  wstate[w] = "finishing" /\ task[w] \in Jobs /\ outcome[w] \in Terminal
  BY <1>6 DEF At, WorkersConsistent
<1>7. CASE UpdateRecord(w)
  <2>1. StoreTypeOK'
    BY <1>6, <1>7, TouchType DEF UpdateRecord, SetStatus, TypeOK, StoreTypeOK
  <2>2. WorkersConsistent'
    BY <1>6, <1>7 DEF UpdateRecord, NextStep, poolVars, WorkersConsistent, TypeOK
  <2>. QED
    BY <1>1, <1>7, <2>1, <2>2 DEF UpdateRecord, NextStep, requestVars, processVars, TypeOK, Finish
<1>8. CASE AppendResult(w) \/ AppendResultFails(w)
  <2>1. results' \in [Jobs -> Seq(Terminal)]
    BY <1>6, <1>8, ResultLineType DEF AppendResult, AppendResultFails, TypeOK, StoreTypeOK
  <2>2. StoreTypeOK'
    BY <1>8, <2>1 DEF AppendResult, AppendResultFails, TypeOK, StoreTypeOK
  <2>3. WorkersConsistent'
    BY <1>6, <1>8 DEF AppendResult, AppendResultFails, NextStep, poolVars, WorkersConsistent, TypeOK
  <2>. QED
    BY <1>1, <1>8, <2>2, <2>3 DEF AppendResult, AppendResultFails, NextStep, requestVars, processVars, TypeOK, Finish
<1>9. CASE SendWebhook(w)
  <2>1. posted[task[w]] \in Seq(Terminal)
    BY <1>6, <1>9 DEF SendWebhook, TypeOK
  <2>2. posted' \in [Jobs -> Seq(Terminal)]
    <3>1. Append(posted[task[w]], outcome[w]) \in Seq(Terminal)
      BY <1>6, <1>9, <2>1, AppendProperties DEF SendWebhook
    <3>. QED
      BY <1>9, <3>1 DEF SendWebhook, TypeOK
  <2>3. WorkersConsistent' /\ StoreTypeOK'
    BY <1>6, <1>9 DEF SendWebhook, NextStep, poolVars, storeVars, WorkersConsistent,
       TypeOK, StoreTypeOK
  <2>. QED
    BY <1>1, <1>9, <2>2, <2>3 DEF SendWebhook, NextStep, requestVars, processVars, TypeOK, Finish
<1>10. CASE Cleanup(w) \/ CleanupFails(w)
  <2>1. /\ UNCHANGED <<poolVars, storeVars, handler, queue, task, outcome, posted, processVars>>
        /\ finish[w] = "cleanup"
        /\ finish' = [finish EXCEPT ![w] = "retain"]
        /\ images' \subseteq Jobs
    BY <1>10 DEF Cleanup, CleanupFails, At, NextStep, requestVars, TypeOK
  <2>2. WorkersConsistent'
    BY <2>1 DEF poolVars, WorkersConsistent, TypeOK
  <2>3. StoreTypeOK'
    BY <2>1 DEF storeVars, TypeOK, StoreTypeOK
  <2>. QED
    BY <1>1, <2>1, <2>2, <2>3 DEF processVars, TypeOK, Finish
<1>11. CASE UpdateMissing(w) \/ Retain(w)
  <2>1. EndRequest(w) /\ UNCHANGED <<requestVars, posted, processVars>>
    BY <1>11 DEF UpdateMissing, Retain
  <2>2. WorkersConsistent'
    BY <2>1, ServerAssumption DEF EndRequest, FinishRequest, Goto, WorkersConsistent, TypeOK,
       PoolTypeOK, Terminal
  <2>3. StoreTypeOK'
    BY <1>11, RetainType DEF UpdateMissing, Retain, storeVars, TypeOK, StoreTypeOK
  <2>. QED
    BY <1>1, <2>1, <2>2, <2>3 DEF EndRequest, requestVars, processVars, TypeOK, Finish
<1>. QED
  BY <1>2, <1>3, <1>4, <1>5, <1>7, <1>8, <1>9, <1>10, <1>11 DEF Work

\* Starting and stopping the process keeps the types.
LEMMA ProcessType ==
    ASSUME IInv, Process
    PROVE  IInv'
<1>. USE DEF IInv
<1>0. PoolInv' /\ PoolTypeOK'
  BY NextIsPoolNext, PoolStepInv DEF Next, PoolInv
<1>1. CASE Load
  <2>1. \A j \in Jobs : StatusOnDisk(j) \in Terminal \cup {"queued", "absent"}
    BY StatusOnDiskType DEF TypeOK
  <2>2. jobs' \in [Jobs -> Pending \cup Terminal \cup {"absent"}]
    BY <1>1, <2>1 DEF Load, LoadRecords, Pending, Terminal
  <2>3. StoreTypeOK'
    BY <1>1, <2>2 DEF Load, LoadRecords, TypeOK, StoreTypeOK
  <2>. QED
    BY <1>0, <1>1, <2>3 DEF Load, EnterPhase, poolVars, requestVars, workVars, TypeOK, Phase, WorkersConsistent
<1>2. ASSUME NEW j \in Jobs, Recover(j) PROVE IInv'
  <2>1. results' \in [Jobs -> Seq(Terminal)]
    BY <1>2, ResultLineType DEF Recover, AppendRecovered, TypeOK, Terminal
  <2>2. StoreTypeOK'
    BY <1>2, <2>1, TouchType DEF Recover, AppendRecovered, TypeOK, StoreTypeOK
  <2>. QED
    BY <1>0, <1>2, <2>2 DEF Recover, poolVars, requestVars, workVars, processVars, TypeOK,
       WorkersConsistent
<1>3. CASE CompactFirst
  <2>1. StoreTypeOK'
    BY <1>3 DEF CompactFirst, CompactSubmissions, CompactedRecords, RecentRecords, Present,
       TypeOK, StoreTypeOK
  <2>. QED
    BY <1>0, <1>3, <2>1 DEF CompactFirst, EnterPhase, poolVars, requestVars, workVars, TypeOK, Phase,
       WorkersConsistent
<1>4. CASE CompactSecond
  <2>1. results' \in [Jobs -> Seq(Terminal)]
    BY <1>4 DEF CompactSecond, CompactResults, TypeOK, StoreTypeOK
  <2>2. StoreTypeOK'
    BY <1>4, <2>1 DEF CompactSecond, CompactResults, TypeOK, StoreTypeOK
  <2>. QED
    BY <1>0, <1>4, <2>2 DEF CompactSecond, EnterPhase, poolVars, requestVars, workVars, TypeOK, Phase,
       WorkersConsistent
<1>5. CASE Serve
  <2>1. StoreTypeOK'
    BY <1>5, RetainType DEF Serve, TypeOK, StoreTypeOK
  <2>. QED
    BY <1>0, <1>5, <2>1 DEF Serve, EnterPhase, poolVars, requestVars, workVars, TypeOK, Phase,
       WorkersConsistent
<1>6. CASE Crash
  <2>1. StoreTypeOK'
    BY <1>6 DEF Crash, StoreStops, TypeOK, StoreTypeOK
  <2>2. WorkersConsistent'
    BY <1>6, ServerAssumption DEF Crash, PoolStops, WorkersConsistent, Terminal
  <2>3. crashes' \in 0..MaxCrashes
    BY <1>6, ServerAssumption DEF Crash, TypeOK
  <2>. QED
    BY <1>0, <1>6, <2>1, <2>2, <2>3 DEF Crash, TypeOK, Phase, Finish, InFlight, Answered
<1>. QED
  BY <1>1, <1>2, <1>3, <1>4, <1>5, <1>6 DEF Process

\* A step that changes nothing keeps the invariant.
LEMMA StutterType == IInv /\ UNCHANGED vars => IInv'
<1>. SUFFICES ASSUME IInv, UNCHANGED vars PROVE IInv'
  OBVIOUS
<1>1. PoolInv' /\ PoolTypeOK'
  BY PoolStepInv DEF vars, IInv, PoolInv
<1>. QED
  BY <1>1 DEF IInv, vars, poolVars, storeVars, requestVars, workVars, processVars, TypeOK,
     StoreTypeOK, WorkersConsistent

\* The pool, the types, and who holds which job (worker_loop, process_worker_request).
THEOREM ServerInvariance == Spec => []IInv
<1>1. IInv /\ [Next]_vars => IInv'
  BY SubmissionType, WorkType, ProcessType, StutterType DEF Next
<1>. QED
  BY <1>1, InitIInv, PTL DEF Spec, SafetySpec

\* Every variable of the server keeps its type, whatever fails and however
\* often the process stops.
THEOREM ServerTypeCorrect == Spec => []TypeOK
<1>1. IInv => TypeOK
  BY DEF IInv
<1>. QED
  BY <1>1, ServerInvariance, PTL

-----------------------------------------------------------------------------
(* A job is served by one worker.                                          *)

\* The jobs that are queued or held are all different: what recv hands out is
\* held by nobody, and what try_send takes is not yet anywhere.
LEMMA EnqueueOnce ==
    ASSUME IInv, ServedByOneWorker, NEW j \in Jobs, Enqueue(j)
    PROVE  ServedByOneWorker'
<1>1. /\ handler[j] = "persisted"
      /\ handler' = [handler EXCEPT ![j] = "accepted"]
      /\ queue' = Append(queue, j)
      /\ task' = task
  BY DEF Enqueue, Handle, workVars
<1>2. j \notin QueuedJobs /\ ~Held(j)
  BY <1>1 DEF ServedByOneWorker
<1>3. /\ queue \in Seq(Jobs) /\ Len(queue) \in Nat
      /\ DOMAIN queue = 1..Len(queue)
  BY LenProperties DEF IInv, TypeOK
<1>4. /\ DOMAIN queue' = 1..(Len(queue) + 1)
      /\ \A i \in 1..Len(queue) : queue'[i] = queue[i]
      /\ queue'[Len(queue) + 1] = j
  <2>1. queue' \in Seq(Jobs) /\ Len(queue') = Len(queue) + 1
    BY <1>1, <1>3, AppendProperties
  <2>. QED
    BY <1>1, <1>3, <2>1, AppendProperties, LenProperties
<1>5. QueuedJobs' = QueuedJobs \cup {j}
  BY <1>3, <1>4 DEF QueuedJobs
<1>6. \A i, k \in DOMAIN queue' : queue'[i] = queue'[k] => i = k
  BY <1>2, <1>3, <1>4 DEF ServedByOneWorker, QueuedJobs
<1>. QED
  BY <1>1, <1>2, <1>5, <1>6 DEF ServedByOneWorker, Held, HeldBy, IInv, TypeOK

\* The worker that takes the head of the queue is the only one with that job.
LEMMA ReceiveOnce ==
    ASSUME IInv, ServedByOneWorker, NEW w \in Workers, ReceiveJob(w)
    PROVE  ServedByOneWorker'
<1>1. /\ queue # <<>>
      /\ queue' = Tail(queue)
      /\ task' = [task EXCEPT ![w] = Head(queue)]
      /\ handler' = handler
  BY DEF ReceiveJob
<1>2. /\ queue \in Seq(Jobs) /\ Len(queue) \in Nat
      /\ DOMAIN queue = 1..Len(queue) /\ Len(queue) > 0
  BY <1>1, LenProperties, EmptySeq DEF IInv, TypeOK
<1>3. /\ DOMAIN queue' = 1..(Len(queue) - 1)
      /\ \A i \in 1..(Len(queue) - 1) : queue'[i] = queue[i + 1]
  <2>1. queue' \in Seq(Jobs) /\ Len(queue') = Len(queue) - 1
    BY <1>1, <1>2, HeadTailProperties
  <2>. QED
    BY <1>1, <1>2, <2>1, HeadTailProperties, LenProperties
<1>4. Head(queue) = queue[1] /\ Head(queue) \in Jobs
  BY <1>1, <1>2, HeadTailProperties
<1>5. Head(queue) \in QueuedJobs /\ QueuedJobs' \subseteq QueuedJobs
  <2>1. 1 \in DOMAIN queue
    BY <1>2
  <2>2. Head(queue) \in QueuedJobs
    BY <1>4, <2>1 DEF QueuedJobs
  <2>3. \A i \in DOMAIN queue' : i + 1 \in DOMAIN queue /\ queue'[i] = queue[i + 1]
    BY <1>2, <1>3
  <2>4. QueuedJobs' \subseteq QueuedJobs
    BY <2>3 DEF QueuedJobs
  <2>. QED
    BY <2>2, <2>4
<1>6. Head(queue) \notin QueuedJobs'
  BY <1>2, <1>3, <1>4 DEF QueuedJobs, ServedByOneWorker
<1>7. \A i, k \in DOMAIN queue' : queue'[i] = queue'[k] => i = k
  BY <1>2, <1>3 DEF ServedByOneWorker
<1>8. \A v \in Workers : task[v] # Head(queue)
  BY <1>4, <1>5 DEF ServedByOneWorker, Held, HeldBy
<1>9. \A v, u \in Workers : task'[v] = task'[u] /\ task'[v] # NoJob => v = u
  BY <1>1, <1>8 DEF ServedByOneWorker, IInv, TypeOK
<1>10. \A j \in Jobs : j \in QueuedJobs' => ~Held(j)'
  BY <1>1, <1>5, <1>6 DEF ServedByOneWorker, Held, HeldBy, IInv, TypeOK
<1>11. \A j \in Jobs : j \in QueuedJobs' \/ Held(j)' => handler'[j] = "accepted"
  BY <1>1, <1>4, <1>5 DEF ServedByOneWorker, Held, HeldBy, IInv, TypeOK
<1>. QED
  BY <1>7, <1>9, <1>10, <1>11 DEF ServedByOneWorker

\* No step gives a job to two workers, or to a worker and the queue.
LEMMA OneWorkerStep ==
    ASSUME IInv, ServedByOneWorker, [Next]_vars
    PROVE  ServedByOneWorker'
<1>1. ASSUME NEW j \in Jobs, Submission(j) PROVE ServedByOneWorker'
  <2>1. CASE Enqueue(j)
    BY <2>1, EnqueueOnce
  <2>2. CASE ~Enqueue(j)
    <3>1. PICK s, t : Handle(j, s, t) /\ s # "accepted"
      BY <1>1, <2>2 DEF Submission, Admit, RejectInput, BuildRecord, SaveImage,
         SaveImageFails, CheckFull, InsertRecord, AppendSubmission, AppendSubmissionFails,
         EnqueueFails, RemoveUnqueued, PersistUnqueued, PersistUnqueuedFails,
         CancelRequest, InFlight
    <3>2. UNCHANGED <<queue, task>>
      BY <1>1, <2>2 DEF Submission, Admit, RejectInput, BuildRecord, SaveImage,
         SaveImageFails, CheckFull, InsertRecord, AppendSubmission, AppendSubmissionFails,
         EnqueueFails, RemoveUnqueued, PersistUnqueued, PersistUnqueuedFails,
         CancelRequest, workVars
    <3>3. /\ handler[j] # "accepted"
          /\ \A k \in Jobs : k # j => handler'[k] = handler[k]
      BY <3>1 DEF Handle, IInv, TypeOK
    <3>. QED
      BY <3>2, <3>3 DEF ServedByOneWorker, QueuedJobs, Held, HeldBy
  <2>. QED
    BY <2>1, <2>2
<1>2. ASSUME NEW w \in Workers, Work(w) PROVE ServedByOneWorker'
  <2>1. CASE ReceiveJob(w)
    BY <2>1, ReceiveOnce
  <2>2. CASE UpdateMissing(w) \/ Retain(w)
    <3>1. UNCHANGED <<queue, handler>> /\ task' = [task EXCEPT ![w] = NoJob]
      BY <2>2 DEF UpdateMissing, Retain, EndRequest, requestVars
    <3>2. \A v \in Workers : task'[v] # NoJob => task'[v] = task[v]
      BY <3>1 DEF IInv, TypeOK
    <3>3. QueuedJobs' = QueuedJobs
      BY <3>1 DEF QueuedJobs
    <3>4. \A j \in Jobs : Held(j)' => Held(j)
      BY <3>2, ServerAssumption DEF Held, HeldBy
    <3>5. \A v, u \in Workers : task'[v] = task'[u] /\ task'[v] # NoJob => v = u
      BY <3>2 DEF ServedByOneWorker
    <3>. QED
      BY <3>1, <3>3, <3>4, <3>5 DEF ServedByOneWorker
  <2>3. CASE UNCHANGED <<queue, handler, task>>
    BY <2>3 DEF ServedByOneWorker, QueuedJobs, Held, HeldBy
  <2>. QED
    BY <1>2, <2>1, <2>2, <2>3 DEF Work, LoadModel, LoadModelFails, StartJob, InferenceSucceeds,
       InferenceErrs, InferenceCrashes, InferenceExpires, EnterFinish, UpdateRecord,
       AppendResult, AppendResultFails, SendWebhook, Cleanup, CleanupFails,
       requestVars, workVars
<1>3. ASSUME Process PROVE ServedByOneWorker'
  <2>1. CASE Crash
    <3>1. /\ QueuedJobs' = {} /\ DOMAIN queue' = {}
          /\ \A w \in Workers : task'[w] = NoJob
      BY <2>1 DEF Crash, QueuedJobs
    <3>. QED
      BY <3>1, ServerAssumption DEF ServedByOneWorker, Held, HeldBy
  <2>2. CASE UNCHANGED <<queue, handler, task>>
    BY <2>2 DEF ServedByOneWorker, QueuedJobs, Held, HeldBy
  <2>. QED
    BY <1>3, <2>1, <2>2 DEF Process, Load, Recover, CompactFirst, CompactSecond, Serve,
       requestVars, workVars
<1>4. ASSUME UNCHANGED vars PROVE ServedByOneWorker'
  BY <1>4 DEF vars, requestVars, workVars, ServedByOneWorker, QueuedJobs, Held, HeldBy
<1>. QED
  BY <1>1, <1>2, <1>3, <1>4 DEF Next

\* A job answered 200 is queued once or held by one worker, never both, and a
\* refused or dropped submission is in neither, for any number of handlers,
\* workers and restarts.
THEOREM ServedByOneWorkerCorrect == Spec => []ServedByOneWorker
<1>1. Init => ServedByOneWorker
  <2>. SUFFICES ASSUME Init PROVE ServedByOneWorker
    OBVIOUS
  <2>1. QueuedJobs = {} /\ DOMAIN queue = {} /\ \A w \in Workers : task[w] = NoJob
    BY DEF Init, QueuedJobs
  <2>. QED
    BY <2>1, ServerAssumption DEF ServedByOneWorker, Held, HeldBy
<1>2. IInv /\ ServedByOneWorker /\ [Next]_vars => ServedByOneWorker'
  BY OneWorkerStep
<1>. QED
  BY <1>1, <1>2, ServerInvariance, PTL DEF Spec, SafetySpec

-----------------------------------------------------------------------------
(* Records, lines, queue and workers agree about every job.                *)

\* The phases of load_jobs.
Loading  == {"recovering", "compacting", "retaining"}
\* w runs the inference of its job, or has not recorded its end yet.
Underway(w) == wstate[w] = "inferring" \/ finish[w] = "update"

\* What there is only while the server serves: requests, queued jobs and held
\* jobs; records only from load_jobs on, recovered ones only during it.
Quiet ==
    /\ phase # "serving" =>
         /\ queue = <<>>
         /\ \A j \in Jobs : handler[j] \notin InFlight
         /\ \A w \in Workers : task[w] = NoJob
    /\ phase = "down" => \A j \in Jobs : jobs[j] = "absent"
    /\ phase # "recovering" => recovering = {}

\* What load_jobs has established so far: its records are finished, and are
\* those of the files; what it recovers was queued without a result; after the
\* first write of compact_metadata no submission line is left.
Loaded ==
    /\ phase \in Loading => \A j \in Jobs : jobs[j] \in Terminal \cup {"absent"}
    /\ phase \in {"recovering", "compacting"} =>
         \A j \in Jobs :
            /\ jobs[j] = "absent" <=> results[j] = <<>> /\ j \notin submissions
            /\ results[j] = <<>> => jobs[j] = "absent" \/ j \in recovering
    /\ \A j \in recovering : jobs[j] = "failed" /\ results[j] = <<>> /\ j \in submissions
    /\ phase = "compacting" /\ MetadataRetentionLimit > 0 => submissions = {}

\* Where a submission stands says which lines and which record it has left: no
\* result before it was answered, a submission line from AppendSubmission on,
\* a record between InsertRecord and RemoveUnqueued.
HandlersAgree ==
    \A j \in Jobs :
        /\ handler[j] \in Unposted \cup {"inserted"} => j \notin submissions
        /\ handler[j] \in {"persisted", "rollback", "unrecorded"} => j \in submissions
        /\ handler[j] \in {"new"} \cup InFlight => results[j] = <<>>
        /\ handler[j] \in Unposted \cup {"unrecorded"} => jobs[j] = "absent"
        /\ handler[j] \in {"inserted", "persisted", "rollback"} => jobs[j] \in {"queued", "absent"}

\* A queued job has its submission line, no result, and is shown as queued if
\* retention has not dropped it.
QueueAgrees ==
    \A j \in QueuedJobs :
        j \in submissions /\ results[j] = <<>> /\ jobs[j] \in {"queued", "absent"}

\* The job of a worker has its submission line; what record and results.jsonl
\* say of it is what the worker has done for it so far.
WorkAgreesOf(w) ==
    LET j == task[w] IN
    /\ j \in submissions
    /\ ~Past(w) => results[j] = <<>>
    /\ wstate[w] = "assigned" => jobs[j] \in {"queued", "absent"}
    /\ Underway(w) => jobs[j] \in {"running", "absent"}
    /\ Past(w) => jobs[j] \in {outcome[w], "absent"}
    /\ Past(w) => results[j] \in {<<>>, <<outcome[w]>>}
    /\ finish[w] = "append" => results[j] = <<>>

\* The same of every worker that holds a job.
WorkAgrees == \A w \in Workers : task[w] \in Jobs => WorkAgreesOf(w)

\* At most one line of results.jsonl for each job, and no finished record that
\* contradicts it.
RecordsAgree ==
    \A j \in Jobs :
        /\ results[j] \in {<<>>, <<"succeeded">>, <<"failed">>}
        /\ jobs[j] \in Terminal /\ results[j] # <<>> => results[j] = <<jobs[j]>>

\* The inductive invariant about records and lines.  It holds whatever file
\* operations fail.
RecordInv == Quiet /\ Loaded /\ HandlersAgree /\ QueueAgrees /\ WorkAgrees /\ RecordsAgree

-----------------------------------------------------------------------------

\* The first line of a file: facts about sequences of one element.
LEMMA SingletonLine ==
    ASSUME NEW s
    PROVE  Append(<<>>, s) = <<s>> /\ <<s>> # <<>> /\ Len(<<s>>) = 1 /\ <<s>>[1] = s
<1>1. <<>> \in Seq({s}) /\ <<s>> \in Seq({s}) /\ Append(<<>>, s) \in Seq({s})
  BY AppendProperties, EmptySeq
<1>2. Len(<<>>) = 0 /\ Len(<<s>>) = 1 /\ <<s>>[1] = s
  OBVIOUS
<1>3. Len(Append(<<>>, s)) = 1 /\ Append(<<>>, s)[1] = s
  BY <1>1, <1>2, AppendProperties
<1>. QED
  BY <1>1, <1>2, <1>3, SeqEqual

\* append_jsonl of a job without a line leaves exactly that line.
LEMMA OneResultLine ==
    ASSUME StoreTypeOK, NEW j \in Jobs, NEW s, results[j] = <<>>, AppendResultLine(j, s)
    PROVE  results' = [results EXCEPT ![j] = <<s>>]
  BY SingletonLine DEF AppendResultLine, StoreTypeOK

\* The server starts with nothing recorded.
LEMMA InitRecords == Init => RecordInv
<1>. SUFFICES ASSUME Init PROVE RecordInv
  OBVIOUS
<1>1. QueuedJobs = {}
  BY DEF Init, QueuedJobs
<1>2. Quiet /\ Loaded
  BY DEF Init, StoreInit, Quiet, Loaded, InFlight, Loading
<1>3. HandlersAgree /\ QueueAgrees /\ WorkAgrees /\ RecordsAgree
  BY <1>1, ServerAssumption DEF Init, StoreInit, HandlersAgree, QueueAgrees, WorkAgrees, RecordsAgree,
     Unposted, InFlight, Terminal
<1>. QED
  BY <1>2, <1>3 DEF RecordInv

\* The queue holds jobs.
LEMMA QueuedAreJobs ==
    ASSUME queue \in Seq(Jobs)
    PROVE  QueuedJobs \subseteq Jobs
<1>1. DOMAIN queue = 1..Len(queue) /\ queue \in [1..Len(queue) -> Jobs]
  BY LenProperties
<1>. QED
  BY <1>1 DEF QueuedJobs

\* try_send adds its job to those queued.
LEMMA EnqueuedJobs ==
    ASSUME queue \in Seq(Jobs), NEW j \in Jobs, queue' = Append(queue, j)
    PROVE  QueuedJobs' = QueuedJobs \cup {j}
<1>1. Len(queue) \in Nat /\ DOMAIN queue = 1..Len(queue)
  BY LenProperties
<1>2. queue' \in Seq(Jobs) /\ Len(queue') = Len(queue) + 1
  BY AppendProperties
<1>3. /\ DOMAIN queue' = 1..(Len(queue) + 1)
      /\ \A i \in 1..Len(queue) : queue'[i] = queue[i]
      /\ queue'[Len(queue) + 1] = j
  BY <1>1, <1>2, AppendProperties, LenProperties
<1>. QED
  BY <1>1, <1>3 DEF QueuedJobs

\* recv takes one job, the oldest.
LEMMA ReceivedJobs ==
    ASSUME queue \in Seq(Jobs), queue # <<>>, queue' = Tail(queue)
    PROVE  QueuedJobs = QueuedJobs' \cup {Head(queue)}
<1>1. Len(queue) \in Nat \ {0} /\ DOMAIN queue = 1..Len(queue)
  BY LenProperties, EmptySeq
<1>2. queue' \in Seq(Jobs) /\ Len(queue') = Len(queue) - 1
  BY HeadTailProperties
<1>3. /\ DOMAIN queue' = 1..(Len(queue) - 1)
      /\ \A i \in 1..(Len(queue) - 1) : queue'[i] = queue[i + 1]
  BY <1>1, <1>2, HeadTailProperties, LenProperties
<1>4. Head(queue) = queue[1] /\ 1 \in DOMAIN queue
  BY <1>1, HeadTailProperties
<1>5. \A i \in DOMAIN queue' : i + 1 \in DOMAIN queue /\ queue'[i] = queue[i + 1]
  BY <1>1, <1>3
<1>6. \A i \in DOMAIN queue : i = 1 \/ (i - 1 \in DOMAIN queue' /\ queue'[i - 1] = queue[i])
  <2>. TAKE i \in DOMAIN queue
  <2>. SUFFICES ASSUME i # 1 PROVE i - 1 \in 1..(Len(queue) - 1) /\ queue'[i - 1] = queue[i]
    BY <1>3
  <2>1. i \in Nat /\ i - 1 \in 1..(Len(queue) - 1) /\ (i - 1) + 1 = i
    BY <1>1
  <2>. QED
    BY <1>3, <2>1
<1>7. QueuedJobs' \cup {Head(queue)} \subseteq QueuedJobs
  BY <1>4, <1>5 DEF QueuedJobs
<1>8. QueuedJobs \subseteq QueuedJobs' \cup {Head(queue)}
  <2>. SUFFICES ASSUME NEW i \in DOMAIN queue
                PROVE  queue[i] = Head(queue) \/ queue[i] \in QueuedJobs'
    BY DEF QueuedJobs
  <2>1. CASE i = 1
    BY <2>1, <1>4
  <2>2. CASE i # 1
    <3>1. i - 1 \in DOMAIN queue' /\ queue'[i - 1] = queue[i]
      BY <2>2, <1>6
    <3>. QED
      BY <3>1 DEF QueuedJobs
  <2>. QED
    BY <2>1, <2>2
<1>. QED
  BY <1>7, <1>8

\* Submissions keep RecordInv, step by step; cases with the same effect on
\* records and lines are taken together.
LEMMA SubmissionRecords ==
    ASSUME IInv, ServedByOneWorker, RecordInv, NEW j \in Jobs, Submission(j)
    PROVE  RecordInv'
<1>. USE DEF IInv, TypeOK, RecordInv
<1>1. CASE Admit(j) \/ RejectInput(j) \/ BuildRecord(j) \/ SaveImage(j) \/ SaveImageFails(j)
             \/ CheckFull(j) \/ EnqueueFails(j) \/ CancelRequest(j)
  <2>1. UNCHANGED <<poolVars, workVars, processVars, queue, jobs, submissions, results, recovering>>
    BY <1>1 DEF Admit, RejectInput, BuildRecord, SaveImage, SaveImageFails, CheckFull, EnqueueFails,
       CancelRequest, storeVars
  <2>2. PICK s, t : /\ Handle(j, s, t)
                    /\ \/ s \in Unposted /\ t \in Unposted \cup {"refused", "abandoned"}
                       \/ s = "persisted" /\ t = "rollback"
                       \/ s \in InFlight /\ t = "abandoned"
    BY <1>1 DEF Admit, RejectInput, BuildRecord, SaveImage, SaveImageFails, CheckFull, EnqueueFails,
       CancelRequest, Unposted, InFlight
  <2>3. HandlersAgree'
    BY <2>1, <2>2 DEF Handle, HandlersAgree, Unposted, InFlight
  <2>4. Quiet' /\ Loaded' /\ QueueAgrees' /\ WorkAgrees' /\ RecordsAgree'
    BY <2>1, <2>2 DEF Handle, Quiet, Loaded, QueueAgrees, WorkAgrees, WorkAgreesOf, RecordsAgree, workVars, poolVars,
      processVars, QueuedJobs, Past, Underway
  <2>. QED
    BY <2>3, <2>4
<1>2. CASE InsertRecord(j)
  <2>1. /\ UNCHANGED <<poolVars, workVars, processVars, queue, submissions, results, recovering>>
        /\ Handle(j, "checked", "inserted") /\ jobs' = [jobs EXCEPT ![j] = "queued"]
    BY <1>2 DEF InsertRecord, SetStatus
  <2>2. HandlersAgree'
    BY <2>1 DEF Handle, HandlersAgree, Unposted, InFlight, StoreTypeOK
  <2>3. j \notin QueuedJobs /\ \A w \in Workers : task[w] # j
    BY <2>1 DEF Handle, ServedByOneWorker, Held, HeldBy
  <2>4. Quiet' /\ Loaded' /\ RecordsAgree'
    BY <2>1 DEF Handle, Quiet, Loaded, RecordsAgree, processVars, workVars, Loading, Terminal, StoreTypeOK
  <2>5. QueueAgrees' /\ WorkAgrees'
    BY <2>1, <2>3 DEF QueueAgrees, WorkAgrees, WorkAgreesOf, workVars, poolVars, QueuedJobs, Past, Underway, StoreTypeOK
  <2>. QED
    BY <2>2, <2>4, <2>5
<1>3. CASE AppendSubmission(j) \/ AppendSubmissionFails(j)
  <2>1. /\ UNCHANGED <<poolVars, workVars, processVars, queue, jobs, results, recovering>>
        /\ \/ Handle(j, "inserted", "persisted") /\ submissions' = submissions \cup {j}
           \/ Handle(j, "inserted", "abandoned") /\ submissions' \in {submissions, submissions \cup {j}}
    BY <1>3 DEF AppendSubmission, AppendSubmissionFails
  <2>2. HandlersAgree'
    BY <2>1 DEF Handle, HandlersAgree, Unposted, InFlight, StoreTypeOK
  <2>4. Quiet' /\ Loaded' /\ RecordsAgree'
    BY <2>1 DEF Handle, Quiet, Loaded, RecordsAgree, processVars, workVars, Loading, Terminal, StoreTypeOK
  <2>5. QueueAgrees' /\ WorkAgrees'
    BY <2>1 DEF QueueAgrees, WorkAgrees, WorkAgreesOf, workVars, poolVars, QueuedJobs, Past, Underway, StoreTypeOK
  <2>. QED
    BY <2>2, <2>4, <2>5
<1>4. CASE Enqueue(j)
  <2>1. /\ UNCHANGED <<poolVars, storeVars, workVars, processVars>>
        /\ Handle(j, "persisted", "accepted") /\ queue' = Append(queue, j)
    BY <1>4 DEF Enqueue
  <2>2. QueuedJobs' \subseteq QueuedJobs \cup {j}
    BY <2>1, EnqueuedJobs
  <2>3. HandlersAgree'
    BY <2>1 DEF Handle, HandlersAgree, Unposted, InFlight, storeVars
  <2>4. Quiet' /\ Loaded' /\ RecordsAgree'
    BY <2>1 DEF Handle, Quiet, Loaded, RecordsAgree, processVars, storeVars, Loading
  <2>5. QueueAgrees' /\ WorkAgrees'
    BY <2>1, <2>2 DEF Handle, HandlersAgree, QueueAgrees, WorkAgrees, WorkAgreesOf, workVars, poolVars, storeVars,
       Past, Underway, InFlight
  <2>. QED
    BY <2>3, <2>4, <2>5
<1>5. CASE RemoveUnqueued(j)
  <2>1. /\ UNCHANGED <<poolVars, workVars, processVars, queue, submissions, results, recovering>>
        /\ Handle(j, "rollback", "unrecorded") /\ jobs' = [jobs EXCEPT ![j] = "absent"]
    BY <1>5 DEF RemoveUnqueued, SetStatus
  <2>2. HandlersAgree'
    BY <2>1 DEF Handle, HandlersAgree, Unposted, InFlight, StoreTypeOK
  <2>4. Quiet' /\ Loaded' /\ RecordsAgree'
    BY <2>1 DEF Handle, Quiet, Loaded, RecordsAgree, processVars, workVars, Loading, Terminal, StoreTypeOK
  <2>5. QueueAgrees' /\ WorkAgrees'
    BY <2>1 DEF QueueAgrees, WorkAgrees, WorkAgreesOf, workVars, poolVars, QueuedJobs, Past, Underway, StoreTypeOK
  <2>. QED
    BY <2>2, <2>4, <2>5
<1>6. CASE PersistUnqueued(j) \/ PersistUnqueuedFails(j)
  <2>0. handler[j] = "unrecorded" /\ results[j] = <<>> /\ j \notin QueuedJobs
        /\ \A w \in Workers : task[w] # j
    BY <1>6 DEF PersistUnqueued, PersistUnqueuedFails, Handle, HandlersAgree, InFlight,
       ServedByOneWorker, Held, HeldBy
  <2>1. /\ UNCHANGED <<poolVars, workVars, processVars, queue, submissions, jobs, recovering>>
        /\ Handle(j, "unrecorded", "refused") \/ Handle(j, "unrecorded", "abandoned")
        /\ results' \in {results, [results EXCEPT ![j] = <<"failed">>]}
    BY <1>6, <2>0, OneResultLine DEF PersistUnqueued, PersistUnqueuedFails
  <2>2. HandlersAgree'
    BY <2>1 DEF Handle, HandlersAgree, Unposted, InFlight, StoreTypeOK
  <2>4. Quiet' /\ Loaded' /\ RecordsAgree'
    BY <2>0, <2>1 DEF Handle, Quiet, Loaded, RecordsAgree, HandlersAgree, processVars, workVars, Loading, Terminal, StoreTypeOK
  <2>5. QueueAgrees'
    BY <2>0, <2>1 DEF QueueAgrees, workVars, QueuedJobs, StoreTypeOK
  <2>6. WorkAgrees'
    BY <2>0, <2>1 DEF WorkAgrees, WorkAgreesOf, workVars, poolVars, Past, Underway, StoreTypeOK
  <2>. QED
    BY <2>2, <2>4, <2>5, <2>6
<1>. QED
  BY <1>1, <1>2, <1>3, <1>4, <1>5, <1>6 DEF Submission

\* The job of a worker was accepted, is not queued and nobody else's.
LEMMA HeldJob ==
    ASSUME ServedByOneWorker, NEW w \in Workers, task[w] \in Jobs
    PROVE  /\ handler[task[w]] = "accepted" /\ task[w] \notin QueuedJobs
           /\ \A v \in Workers : task[v] = task[w] => v = w
  BY ServerAssumption DEF ServedByOneWorker, Held, HeldBy

\* A worker that touches nothing but its own job keeps RecordInv if it keeps
\* what WorkAgreesOf and RecordsAgree say of that job.
LEMMA OwnJobStep ==
    ASSUME IInv, ServedByOneWorker, RecordInv, NEW w \in Workers, task[w] \in Jobs,
           phase = "serving",
           UNCHANGED <<submissions, recovering, queue, handler, phase>>,
           \A j \in Jobs : j # task[w] => jobs'[j] = jobs[j] /\ results'[j] = results[j],
           \A v \in Workers : v # w =>
               /\ task'[v] = task[v] /\ wstate'[v] = wstate[v]
               /\ finish'[v] = finish[v] /\ outcome'[v] = outcome[v],
           task'[w] \in Jobs => task'[w] = task[w] /\ WorkAgreesOf(w)',
           results'[task[w]] \in {<<>>, <<"succeeded">>, <<"failed">>},
           jobs'[task[w]] \in Terminal /\ results'[task[w]] # <<>>
               => results'[task[w]] = <<jobs'[task[w]]>>
    PROVE  RecordInv'
<1>. USE DEF RecordInv
<1>1. /\ handler[task[w]] = "accepted" /\ task[w] \notin QueuedJobs
      /\ \A v \in Workers : task[v] = task[w] => v = w
  BY HeldJob
<1>2. QueuedJobs' = QueuedJobs
  BY DEF QueuedJobs
<1>3. HandlersAgree'
  BY <1>1 DEF HandlersAgree, InFlight, Unposted
<1>4. QueueAgrees'
  <2>1. QueuedJobs \subseteq Jobs
    BY QueuedAreJobs DEF IInv, TypeOK
  <2>. QED
    BY <1>1, <1>2, <2>1 DEF QueueAgrees
<1>5. WorkAgrees'
  <2>. SUFFICES ASSUME NEW v \in Workers, task'[v] \in Jobs, v # w PROVE WorkAgreesOf(v)'
    BY DEF WorkAgrees
  <2>1. task[v] \in Jobs /\ WorkAgreesOf(v) /\ task[v] # task[w]
    BY <1>1 DEF WorkAgrees
  <2>. QED
    BY <2>1 DEF WorkAgreesOf, Past, Underway
<1>6. Quiet' /\ Loaded' /\ RecordsAgree'
  BY DEF Quiet, Loaded, RecordsAgree, Loading
<1>. QED
  BY <1>3, <1>4, <1>5, <1>6

\* Dropping records keeps RecordInv: no part of it needs a record to be there.
LEMMA RetainRecords ==
    ASSUME IInv, RecordInv,
           \A j \in Jobs : jobs'[j] \in {jobs[j], "absent"},
           phase \in {"retaining", "serving"} /\ phase' = "serving",
           UNCHANGED <<submissions, recovering, results, queue, handler>>,
           \A v \in Workers : task'[v] \in Jobs =>
               /\ task'[v] = task[v] /\ wstate'[v] = wstate[v]
               /\ finish'[v] = finish[v] /\ outcome'[v] = outcome[v]
    PROVE  RecordInv'
<1>. USE DEF RecordInv
<1>1. QueuedJobs' = QueuedJobs /\ QueuedJobs \subseteq Jobs
  BY QueuedAreJobs DEF QueuedJobs, IInv, TypeOK
<1>2. HandlersAgree' /\ QueueAgrees'
  BY <1>1 DEF HandlersAgree, QueueAgrees
<1>3. WorkAgrees'
  BY DEF WorkAgrees, WorkAgreesOf, Past, Underway
<1>4. Quiet' /\ Loaded' /\ RecordsAgree'
  BY DEF Quiet, Loaded, RecordsAgree, Loading, Terminal
<1>. QED
  BY <1>2, <1>3, <1>4

\* Workers keep RecordInv: most steps touch the own job only.
LEMMA WorkRecords ==
    ASSUME IInv, ServedByOneWorker, RecordInv, NEW w \in Workers, Work(w)
    PROVE  RecordInv'
<1>. USE DEF IInv, TypeOK, RecordInv
<1>1. CASE LoadModel(w) \/ LoadModelFails(w)
  <2>1. /\ UNCHANGED <<storeVars, requestVars, workVars, processVars>>
        /\ phase = "serving" /\ wstate[w] = "starting"
        /\ \E s \in {"idle", "dead"} : wstate' = [wstate EXCEPT ![w] = s]
    BY <1>1 DEF LoadModel, LoadModelFails, InitializeOk, InitializeFails, Goto
  <2>2. WorkAgrees'
    BY <2>1 DEF WorkAgrees, WorkAgreesOf, WorkersConsistent, PoolTypeOK, storeVars, workVars, Past, Underway
  <2>. QED
    BY <2>1, <2>2 DEF Quiet, Loaded, HandlersAgree, QueueAgrees, RecordsAgree, QueuedJobs, storeVars,
       requestVars, workVars, processVars
<1>2. CASE ReceiveJob(w)
  <2>1. /\ UNCHANGED <<storeVars, handler, images, outcome, finish, posted, processVars>>
        /\ phase = "serving" /\ queue # <<>> /\ wstate[w] = "idle"
        /\ wstate' = [wstate EXCEPT ![w] = "assigned"]
        /\ task' = [task EXCEPT ![w] = Head(queue)] /\ queue' = Tail(queue)
    BY <1>2 DEF ReceiveJob, Receive, Goto
  <2>2. Head(queue) \in QueuedJobs /\ QueuedJobs' \subseteq QueuedJobs
    BY <2>1, ReceivedJobs
  <2>3. finish[w] = "none"
    BY <2>1 DEF WorkersConsistent
  <2>4. WorkAgrees'
    BY <2>1, <2>2, <2>3 DEF WorkAgrees, WorkAgreesOf, QueueAgrees, PoolTypeOK, storeVars, Past, Underway
  <2>. QED
    BY <2>1, <2>2, <2>4 DEF Quiet, Loaded, HandlersAgree, QueueAgrees, RecordsAgree, storeVars,
       processVars
<1>3. ASSUME wstate[w] \in {"assigned", "inferring", "finishing"}
      PROVE  task[w] \in Jobs /\ WorkAgreesOf(w) /\ (wstate[w] # "finishing" => finish[w] = "none")
  BY <1>3 DEF WorkersConsistent, WorkAgrees
<1>4. ASSUME At(w, "update") \/ At(w, "append") \/ At(w, "webhook") \/ At(w, "cleanup")
               \/ At(w, "retain")
      PROVE  wstate[w] = "finishing" /\ outcome[w] \in Terminal
  BY <1>4 DEF At, WorkersConsistent
<1>5. CASE StartJob(w)
  <2>1. /\ UNCHANGED <<submissions, results, recovering, requestVars, workVars, processVars>>
        /\ phase = "serving" /\ wstate[w] = "assigned"
        /\ wstate' = [wstate EXCEPT ![w] = "inferring"]
        /\ jobs' = IF task[w] \in Present THEN [jobs EXCEPT ![task[w]] = "running"] ELSE jobs
    BY <1>5 DEF StartJob, SpawnInference, Goto, SetStatus
  <2>2. WorkAgreesOf(w)'
    BY <1>3, <2>1 DEF WorkAgreesOf, PoolTypeOK, StoreTypeOK, workVars, Past, Underway, Present
  <2>3. results[task[w]] = <<>>
    BY <1>3, <2>1 DEF WorkAgreesOf, Past
  <2>. QED
    BY <1>3, <2>1, <2>2, <2>3, OwnJobStep DEF PoolTypeOK, StoreTypeOK, requestVars, workVars, processVars
<1>6. CASE InferenceSucceeds(w) \/ InferenceErrs(w) \/ InferenceCrashes(w) \/ InferenceExpires(w)
  <2>1. /\ UNCHANGED <<storeVars, requestVars, task, posted, processVars>>
        /\ phase = "serving" /\ wstate[w] = "inferring"
        /\ wstate' = [wstate EXCEPT ![w] = "finishing"]
        /\ \E s \in Terminal : outcome' = [outcome EXCEPT ![w] = s]
        /\ finish' = [finish EXCEPT ![w] = "update"]
    BY <1>6 DEF InferenceSucceeds, InferenceErrs, InferenceCrashes, InferenceExpires, EnterFinish,
       InferenceReturns, InferencePanics, InferenceTimesOut, Goto, Terminal
  <2>2. WorkAgreesOf(w)'
    BY <1>3, <2>1 DEF WorkAgreesOf, PoolTypeOK, storeVars, Past, Underway
  <2>3. results[task[w]] = <<>>
    BY <1>3, <2>1 DEF WorkAgreesOf, Past
  <2>. QED
    BY <1>3, <2>1, <2>2, <2>3, OwnJobStep DEF PoolTypeOK, storeVars, requestVars, workVars, processVars
<1>7. CASE UpdateRecord(w)
  <2>1. /\ UNCHANGED <<poolVars, submissions, results, recovering, requestVars, task, outcome, posted, processVars>>
        /\ At(w, "update") /\ phase = "serving" /\ finish[w] = "update"
        /\ jobs' = [jobs EXCEPT ![task[w]] = outcome[w]]
        /\ finish' = [finish EXCEPT ![w] = "append"]
    BY <1>7 DEF UpdateRecord, SetStatus, NextStep, At
  <2>2. task[w] \in Jobs /\ WorkAgreesOf(w) /\ results[task[w]] = <<>>
    BY <1>3, <1>4, <2>1 DEF WorkAgreesOf, Past
  <2>3. WorkAgreesOf(w)'
    BY <1>4, <2>1, <2>2 DEF WorkAgreesOf, StoreTypeOK, Past, Underway, poolVars
  <2>. QED
    BY <2>1, <2>2, <2>3, OwnJobStep DEF StoreTypeOK, poolVars, requestVars, processVars
<1>8. CASE UpdateMissing(w)
  <2>1. /\ UNCHANGED <<storeVars, requestVars, posted, processVars>>
        /\ At(w, "update") /\ phase = "serving" /\ finish[w] = "update"
        /\ task' = [task EXCEPT ![w] = NoJob]
        /\ \A v \in Workers : v # w => /\ task'[v] = task[v] /\ wstate'[v] = wstate[v]
                                       /\ finish'[v] = finish[v] /\ outcome'[v] = outcome[v]
    BY <1>8 DEF UpdateMissing, EndRequest, FinishRequest, Goto, At, PoolTypeOK
  <2>2. task[w] \in Jobs /\ results[task[w]] = <<>>
    BY <1>3, <1>4, <2>1 DEF WorkAgreesOf, Past
  <2>. QED
    BY <2>1, <2>2, OwnJobStep, ServerAssumption DEF storeVars, requestVars, processVars
<1>9. CASE AppendResult(w) \/ AppendResultFails(w)
  <2>1. /\ UNCHANGED <<poolVars, jobs, submissions, recovering, requestVars, task, outcome, posted, processVars>>
        /\ At(w, "append") /\ phase = "serving" /\ finish[w] = "append"
        /\ finish' = [finish EXCEPT ![w] = "webhook"]
        /\ AppendResultLine(task[w], outcome[w]) \/ results' = results
    BY <1>9 DEF AppendResult, AppendResultFails, NextStep, At
  <2>2. /\ task[w] \in Jobs /\ WorkAgreesOf(w) /\ results[task[w]] = <<>>
        /\ outcome[w] \in Terminal
    BY <1>3, <1>4, <2>1 DEF WorkAgreesOf
  <2>3. results' \in {results, [results EXCEPT ![task[w]] = <<outcome[w]>>]}
    BY <2>1, <2>2, OneResultLine
  <2>4. WorkAgreesOf(w)'
    BY <2>1, <2>2, <2>3 DEF WorkAgreesOf, StoreTypeOK, Past, Underway, poolVars
  <2>5. jobs[task[w]] \in {outcome[w], "absent"}
    BY <2>1, <2>2 DEF WorkAgreesOf, Past
  <2>. QED
    BY <2>1, <2>2, <2>3, <2>4, <2>5, OwnJobStep
    DEF StoreTypeOK, poolVars, requestVars, processVars, Terminal
<1>10. CASE SendWebhook(w) \/ Cleanup(w) \/ CleanupFails(w)
  <2>1. /\ UNCHANGED <<poolVars, storeVars, handler, queue, task, outcome, processVars>>
        /\ phase = "serving" /\ finish[w] \in {"webhook", "cleanup"}
        /\ At(w, "webhook") \/ At(w, "cleanup")
        /\ \E s \in {"cleanup", "retain"} : finish' = [finish EXCEPT ![w] = s]
    BY <1>10 DEF SendWebhook, Cleanup, CleanupFails, NextStep, At, requestVars
  <2>2. task[w] \in Jobs /\ WorkAgreesOf(w)
    BY <1>3, <1>4, <2>1
  <2>3. WorkAgreesOf(w)'
    BY <2>1, <2>2 DEF WorkAgreesOf, Past, Underway, poolVars, storeVars
  <2>. QED
    BY <2>1, <2>2, <2>3, OwnJobStep DEF poolVars, storeVars, processVars, RecordsAgree
<1>11. CASE Retain(w)
  <2>1. /\ UNCHANGED <<submissions, results, recovering, requestVars, processVars>>
        /\ phase = "serving" /\ RetainRecentJobs
        /\ task' = [task EXCEPT ![w] = NoJob]
        /\ \A v \in Workers : v # w => /\ task'[v] = task[v] /\ wstate'[v] = wstate[v]
                                       /\ finish'[v] = finish[v] /\ outcome'[v] = outcome[v]
    BY <1>11 DEF Retain, EndRequest, FinishRequest, Goto, At, PoolTypeOK
  <2>2. \A v \in Workers : task'[v] \in Jobs => v # w
    BY <2>1, ServerAssumption
  <2>3. \A j \in Jobs : jobs'[j] \in {jobs[j], "absent"}
    BY <2>1 DEF RetainRecentJobs
  <2>. QED
    BY <2>1, <2>2, <2>3, RetainRecords DEF requestVars, processVars
<1>. QED
  BY <1>1, <1>2, <1>5, <1>6, <1>7, <1>8, <1>9, <1>10, <1>11 DEF Work

\* load_jobs and a stop of the process keep RecordInv.
LEMMA ProcessRecords ==
    ASSUME IInv, RecordInv, Process
    PROVE  RecordInv'
<1>. USE DEF IInv, TypeOK, RecordInv
<1>0. phase # "serving" => queue = <<>> /\ QueuedJobs = {} /\ \A w \in Workers : task[w] \notin Jobs
  BY ServerAssumption DEF Quiet, QueuedJobs
<1>1. CASE Load
  <2>1. /\ phase = "down" /\ phase' = "recovering"
        /\ recovering' = {j \in Jobs : StatusOnDisk(j) \in Pending}
        /\ jobs' = [j \in Jobs |-> IF StatusOnDisk(j) \in Pending THEN "failed" ELSE StatusOnDisk(j)]
        /\ UNCHANGED <<poolVars, submissions, results, requestVars, workVars>>
    BY <1>1 DEF Load, EnterPhase, LoadRecords
  <2>2. ASSUME NEW j \in Jobs
        PROVE  StatusOnDisk(j) = IF results[j] = <<"succeeded">> THEN "succeeded"
                            ELSE IF results[j] = <<"failed">> THEN "failed"
                            ELSE IF j \in submissions THEN "queued" ELSE "absent"
    BY SingletonLine DEF StatusOnDisk, RecordsAgree
  <2>3. QueueAgrees' /\ WorkAgrees'
    BY <1>0, <2>1 DEF QueueAgrees, WorkAgrees, QueuedJobs, requestVars, workVars
  <2>4. HandlersAgree'
    <3>1. \A j \in Jobs : handler'[j] = handler[j] /\ handler[j] \notin InFlight
      BY <2>1 DEF Quiet, requestVars
    <3>2. ASSUME NEW j \in Jobs, handler[j] = "new" PROVE jobs'[j] = "absent"
      <4>1. results[j] = <<>> /\ j \notin submissions
        BY <3>2 DEF HandlersAgree, Unposted
      <4>. QED
        BY <2>1, <2>2, <4>1, SingletonLine DEF Pending
    <3>. QED
      BY <2>1, <3>1, <3>2 DEF HandlersAgree, InFlight, Unposted
  <2>5. Quiet' /\ RecordsAgree'
    BY <2>1, <2>2, SingletonLine DEF Quiet, RecordsAgree, requestVars, workVars, Pending, Terminal
  <2>6. \A j \in Jobs : /\ jobs'[j] \in Terminal \cup {"absent"}
                        /\ jobs'[j] = "absent" <=> results'[j] = <<>> /\ j \notin submissions'
                        /\ results'[j] = <<>> => jobs'[j] = "absent" \/ j \in recovering'
    BY <2>1, <2>2, SingletonLine DEF RecordsAgree, Pending, Terminal
  <2>7. \A j \in recovering' : jobs'[j] = "failed" /\ results'[j] = <<>> /\ j \in submissions'
    BY <2>1, <2>2, SingletonLine DEF RecordsAgree, Pending, Terminal
  <2>8. Loaded'
    BY <2>1, <2>6, <2>7 DEF Loaded
  <2>. QED
    BY <2>3, <2>4, <2>5, <2>8
<1>2. ASSUME NEW j \in Jobs, Recover(j) PROVE RecordInv'
  <2>1. /\ phase = "recovering" /\ j \in recovering /\ recovering' = recovering \ {j}
        /\ results[j] = <<>> /\ jobs[j] = "failed" /\ j \in submissions
        /\ UNCHANGED <<poolVars, jobs, submissions, requestVars, workVars, processVars>>
    BY <1>2 DEF Recover, AppendRecovered, Loaded
  <2>2. results' = [results EXCEPT ![j] = <<"failed">>]
    BY <1>2, <2>1, OneResultLine DEF Recover, AppendRecovered
  <2>3. QueueAgrees' /\ WorkAgrees'
    BY <1>0, <2>1 DEF QueueAgrees, WorkAgrees, QueuedJobs, requestVars, workVars
  <2>4. HandlersAgree'
    BY <2>1, <2>2 DEF HandlersAgree, Quiet, requestVars, InFlight, Unposted, StoreTypeOK
  <2>5. Quiet' /\ Loaded' /\ RecordsAgree'
    BY <2>1, <2>2, SingletonLine DEF Quiet, Loaded, RecordsAgree, requestVars, workVars, processVars, StoreTypeOK
  <2>. QED
    BY <2>3, <2>4, <2>5
<1>3. CASE CompactFirst
  <2>1. /\ phase = "recovering" /\ phase' = "compacting" /\ recovering = {}
        /\ MetadataRetentionLimit = 0 => submissions' = submissions
        /\ MetadataRetentionLimit # 0 => submissions' = {}
        /\ UNCHANGED <<poolVars, jobs, results, recovering, requestVars, workVars>>
    BY <1>3 DEF CompactFirst, EnterPhase, CompactSubmissions, CompactedRecords, RecentRecords, Present,
       Loaded, Loading, Pending, Terminal
  <2>3. QueueAgrees' /\ WorkAgrees'
    BY <1>0, <2>1 DEF QueueAgrees, WorkAgrees, QueuedJobs, requestVars, workVars
  <2>4. HandlersAgree'
    BY <2>1 DEF HandlersAgree, Quiet, requestVars, InFlight, Unposted
  <2>5. Quiet' /\ Loaded' /\ RecordsAgree'
    BY <2>1, RetentionAssumption DEF Quiet, Loaded, RecordsAgree, requestVars, workVars, Loading
  <2>. QED
    BY <2>3, <2>4, <2>5
<1>4. CASE CompactSecond
  <2>1. /\ phase = "compacting" /\ phase' = "retaining"
        /\ \A j \in Jobs : results'[j] \in {results[j], <<>>} \/ (jobs[j] \in Terminal /\ results'[j] = <<jobs[j]>>)
        /\ \A j \in Jobs : results[j] = <<>> => results'[j] = <<>>
        /\ UNCHANGED <<poolVars, jobs, submissions, recovering, requestVars, workVars>>
    BY <1>4 DEF CompactSecond, EnterPhase, CompactResults, Loaded, Quiet, Terminal
  <2>3. QueueAgrees' /\ WorkAgrees'
    BY <1>0, <2>1 DEF QueueAgrees, WorkAgrees, QueuedJobs, requestVars, workVars
  <2>4. HandlersAgree'
    BY <2>1 DEF HandlersAgree, Quiet, requestVars, InFlight, Unposted
  <2>5. Quiet' /\ Loaded' /\ RecordsAgree'
    BY <2>1 DEF Quiet, Loaded, RecordsAgree, requestVars, workVars, Loading, Terminal
  <2>. QED
    BY <2>3, <2>4, <2>5
<1>5. CASE Serve
  <2>1. \A j \in Jobs : jobs'[j] \in {jobs[j], "absent"}
    BY <1>5 DEF Serve, RetainRecentJobs
  <2>. QED
    BY <1>5, <2>1, RetainRecords DEF Serve, EnterPhase, poolVars, requestVars, workVars
<1>6. CASE Crash
  <2>1. /\ phase' = "down" /\ recovering' = {} /\ queue' = <<>> /\ QueuedJobs' = {}
        /\ jobs' = [j \in Jobs |-> "absent"]
        /\ UNCHANGED <<submissions, results>>
        /\ \A w \in Workers : task'[w] = NoJob
        /\ \A j \in Jobs : handler'[j] = IF handler[j] \in InFlight THEN "abandoned" ELSE handler[j]
    BY <1>6 DEF Crash, StoreStops, QueuedJobs
  <2>3. QueueAgrees' /\ WorkAgrees'
    BY <2>1, ServerAssumption DEF QueueAgrees, WorkAgrees
  <2>4. HandlersAgree'
    BY <2>1 DEF HandlersAgree, InFlight, Unposted
  <2>5. Quiet' /\ Loaded' /\ RecordsAgree'
    BY <2>1 DEF Quiet, Loaded, RecordsAgree, Loading, InFlight, Terminal
  <2>. QED
    BY <2>3, <2>4, <2>5
<1>. QED
  BY <1>1, <1>2, <1>3, <1>4, <1>5, <1>6 DEF Process

\* Every step keeps RecordInv.
LEMMA RecordStep == IInv /\ ServedByOneWorker /\ RecordInv /\ [Next]_vars => RecordInv'
<1>1. RecordInv /\ UNCHANGED vars => RecordInv'
  BY DEF vars, poolVars, storeVars, requestVars, workVars, processVars, RecordInv, Quiet, Loaded,
     HandlersAgree, QueueAgrees, WorkAgrees, WorkAgreesOf, RecordsAgree, QueuedJobs, Past, Underway
<1>. QED
  BY <1>1, SubmissionRecords, WorkRecords, ProcessRecords DEF Next

\* Reachable states satisfy RecordInv: the records, both files, the queue and
\* the workers agree about every job, for all constants and all faults
\* (jobs/queue.rs, jobs/worker.rs, jobs/store.rs).
THEOREM RecordInvariance == Spec => []RecordInv
<1>1. Init => RecordInv
  BY InitRecords
<1>2. IInv /\ ServedByOneWorker /\ RecordInv /\ [Next]_vars => RecordInv'
  BY RecordStep
<1>. QED
  BY <1>1, <1>2, ServerInvariance, ServedByOneWorkerCorrect, PTL DEF Spec, SafetySpec

-----------------------------------------------------------------------------
(* What a worker's step leaves alone.                                      *)

\* A worker's step leaves handlers, submissions and the other workers alone.
LEMMA OthersUnmoved ==
    ASSUME IInv, NEW w \in Workers, Work(w)
    PROVE  /\ UNCHANGED <<handler, phase, recovering, submissions>> /\ phase = "serving"
           /\ \A v \in Workers : v # w => /\ task'[v] = task[v] /\ wstate'[v] = wstate[v]
                                          /\ finish'[v] = finish[v] /\ outcome'[v] = outcome[v]
<1>. USE DEF IInv, TypeOK, PoolTypeOK
<1>1. CASE LoadModel(w) \/ LoadModelFails(w) \/ ReceiveJob(w) \/ StartJob(w)
  BY <1>1 DEF LoadModel, LoadModelFails, InitializeOk, InitializeFails, ReceiveJob, Receive, StartJob,
     SpawnInference, Goto, storeVars, requestVars, workVars, processVars
<1>2. CASE InferenceSucceeds(w) \/ InferenceErrs(w) \/ InferenceCrashes(w) \/ InferenceExpires(w)
  BY <1>2 DEF InferenceSucceeds, InferenceErrs, InferenceCrashes, InferenceExpires, EnterFinish,
     InferenceReturns, InferencePanics, InferenceTimesOut, Goto, storeVars, requestVars, processVars
<1>3. CASE UpdateRecord(w) \/ AppendResult(w) \/ AppendResultFails(w) \/ SendWebhook(w) \/ Cleanup(w)
             \/ CleanupFails(w)
  BY <1>3 DEF UpdateRecord, AppendResult, AppendResultFails, SendWebhook, Cleanup, CleanupFails, At,
     NextStep, poolVars, storeVars, requestVars, processVars
<1>4. CASE UpdateMissing(w) \/ Retain(w)
  BY <1>4 DEF UpdateMissing, Retain, At, EndRequest, FinishRequest, Goto, storeVars, requestVars,
     processVars
<1>. QED
  BY <1>1, <1>2, <1>3, <1>4 DEF Work

\* A worker in finish_job has a job and a final status for it.
LEMMA FinishingWorker ==
    ASSUME IInv, NEW w \in Workers, finish[w] # "none"
    PROVE  wstate[w] = "finishing" /\ task[w] \in Jobs /\ outcome[w] \in Terminal
  BY DEF IInv, WorkersConsistent

\* No worker puts a record back to queued, and only mark_running makes one
\* running.
LEMMA NoNewQueuedRecord ==
    ASSUME IInv, NEW w \in Workers, Work(w), NEW j \in Jobs
    PROVE  /\ jobs'[j] = "queued" => jobs[j] = "queued"
           /\ jobs'[j] = "running" => jobs[j] = "running" \/ (StartJob(w) /\ task[w] = j)
<1>. USE DEF IInv, TypeOK, StoreTypeOK
<1>1. CASE StartJob(w)
  BY <1>1 DEF StartJob, SetStatus, Present
<1>2. CASE UpdateRecord(w)
  <2>1. outcome[w] \in Terminal
    BY <1>2, FinishingWorker DEF UpdateRecord, At
  <2>. QED
    BY <1>2, <2>1 DEF UpdateRecord, SetStatus, Terminal
<1>3. CASE Retain(w)
  BY <1>3 DEF Retain, RetainRecentJobs
<1>4. CASE UNCHANGED jobs
  BY <1>4
<1>. QED
  BY <1>1, <1>2, <1>3, <1>4 DEF Work, LoadModel, LoadModelFails, ReceiveJob, InferenceSucceeds,
     InferenceErrs, InferenceCrashes, InferenceExpires, EnterFinish, UpdateMissing, AppendResult,
     AppendResultFails, SendWebhook, Cleanup, CleanupFails, storeVars

\* load_jobs and a stop show nothing as unfinished, and only the stop changes
\* workers and handlers.
LEMMA ProcessQueuesNothing ==
    ASSUME IInv, Process, NEW j \in Jobs
    PROVE  /\ jobs'[j] \in Pending => jobs'[j] = jobs[j]
           /\ ~Crash => UNCHANGED <<poolVars, requestVars, workVars>>
<1>1. CASE Load
  <2>1. StatusOnDisk(j) \in Terminal \cup {"queued", "absent"}
    BY StatusOnDiskType DEF IInv, TypeOK
  <2>. QED
    BY <1>1, <2>1 DEF Load, LoadRecords, Pending, Terminal
<1>2. CASE Serve
  BY <1>2 DEF Serve, RetainRecentJobs, Pending
<1>3. CASE Crash
  BY <1>3 DEF Crash, StoreStops, Pending
<1>4. CASE CompactFirst \/ CompactSecond \/ \E k \in Jobs : Recover(k)
  BY <1>4 DEF CompactFirst, CompactSecond, Recover, AppendRecovered, CompactSubmissions, CompactResults
<1>. QED
  BY <1>1, <1>2, <1>3, <1>4 DEF Process

-----------------------------------------------------------------------------
(* Progress that is shown is made by somebody.                             *)

\* What RunningHasWorker says of the records shown as running.
RunningIsRun == \A j \in Jobs : jobs[j] = "running" => \E w \in Workers : task[w] = j /\ Underway(w)

\* What it says of the finished ones follows from what workers and queue agree
\* on with the records.
LEMMA FinishedIsPast ==
    ASSUME IInv, RecordInv, NEW j \in Jobs, jobs[j] \in Terminal
    PROVE  /\ j \notin QueuedJobs
           /\ \A w \in Workers : task[w] = j => wstate[w] = "finishing" /\ finish[w] # "update"
<1>1. j \notin QueuedJobs
  BY DEF RecordInv, QueueAgrees, Terminal
<1>2. ASSUME NEW w \in Workers, task[w] = j PROVE wstate[w] = "finishing" /\ finish[w] # "update"
  <2>1. WorkAgreesOf(w) /\ wstate[w] \in {"assigned", "inferring", "finishing"}
    BY <1>2 DEF IInv, WorkersConsistent, RecordInv, WorkAgrees
  <2>. QED
    BY <1>2, <2>1 DEF WorkAgreesOf, Underway, Terminal
<1>. QED
  BY <1>1, <1>2

\* RunningIsRun is inductive on top of IInv: one case per step that moves a
\* worker or a record.
LEMMA RunningStep == IInv /\ RunningIsRun /\ [Next]_vars => RunningIsRun'
<1>. USE DEF Underway
<1>. SUFFICES ASSUME IInv, RunningIsRun, [Next]_vars, NEW j \in Jobs, jobs'[j] = "running"
              PROVE  \E w \in Workers : /\ task'[w] = j
                                        /\ wstate'[w] = "inferring" \/ finish'[w] = "update"
  BY DEF RunningIsRun
<1>1. CASE UNCHANGED <<jobs, poolVars, workVars>>
  BY <1>1 DEF RunningIsRun, poolVars, workVars
<1>2. ASSUME NEW k \in Jobs, Submission(k) PROVE jobs[j] = "running" /\ UNCHANGED <<poolVars, workVars>>
  BY <1>2 DEF Submission, Admit, RejectInput, BuildRecord, SaveImage, SaveImageFails,
     CheckFull, InsertRecord, AppendSubmission, AppendSubmissionFails, Enqueue,
     EnqueueFails, RemoveUnqueued, PersistUnqueued, PersistUnqueuedFails, CancelRequest,
     SetStatus, storeVars, IInv, TypeOK, StoreTypeOK
<1>3. ASSUME Process PROVE jobs[j] = "running" /\ UNCHANGED <<poolVars, workVars>>
  BY <1>3, ProcessQueuesNothing DEF Pending, Crash, StoreStops
<1>4. CASE jobs[j] = "running" /\ UNCHANGED <<poolVars, workVars>>
  BY <1>4 DEF RunningIsRun, poolVars, workVars
<1>5. ASSUME NEW w \in Workers, Work(w)
      PROVE  \E v \in Workers : /\ task'[v] = j
                                /\ wstate'[v] = "inferring" \/ finish'[v] = "update"
  <2>1. CASE StartJob(w) /\ task[w] = j
    BY <2>1 DEF StartJob, SpawnInference, Goto, workVars, IInv, TypeOK, PoolTypeOK
  <2>2. CASE jobs[j] = "running" /\ ~StartJob(w)
    <3>1. PICK v \in Workers : task[v] = j /\ (wstate[v] = "inferring" \/ finish[v] = "update")
      BY <2>2 DEF RunningIsRun
    <3>2. CASE v # w
      BY <1>5, <3>1, <3>2, OthersUnmoved
    <3>3. CASE v = w
      <4>1. /\ wstate[w] \in {"inferring", "finishing"}
            /\ wstate[w] = "finishing" => finish[w] = "update"
            /\ wstate[w] = "inferring" => finish[w] = "none"
        BY <3>1, <3>3 DEF IInv, WorkersConsistent
      <4>2. ~UpdateMissing(w)
        BY <2>2, <3>1, <3>3 DEF UpdateMissing, Present
      <4>3. ~UpdateRecord(w)
        <5>1. UpdateRecord(w) => outcome[w] \in Terminal
          BY FinishingWorker DEF UpdateRecord, At
        <5>. QED
          BY <3>1, <3>3, <5>1 DEF UpdateRecord, SetStatus, Terminal, IInv, TypeOK, StoreTypeOK
      <4>4. InferenceSucceeds(w) \/ InferenceErrs(w) \/ InferenceCrashes(w) \/ InferenceExpires(w)
        BY <1>5, <2>2, <4>1, <4>2, <4>3 DEF Work, LoadModel, LoadModelFails, InitializeOk,
           InitializeFails, ReceiveJob, Receive, AppendResult, AppendResultFails,
           SendWebhook, Cleanup, CleanupFails, Retain, At
      <4>5. PICK s : EnterFinish(w, s)
        BY <4>4 DEF InferenceSucceeds, InferenceErrs, InferenceCrashes, InferenceExpires
      <4>. QED
        BY <3>1, <3>3, <4>5 DEF EnterFinish, IInv, TypeOK
    <3>. QED
      BY <3>2, <3>3
  <2>3. CASE jobs[j] = "running" /\ StartJob(w) /\ task[w] # j
    <3>1. PICK v \in Workers : task[v] = j /\ (wstate[v] = "inferring" \/ finish[v] = "update")
      BY <2>3 DEF RunningIsRun
    <3>. QED
      BY <1>5, <2>3, <3>1, OthersUnmoved
  <2>. QED
    BY <1>5, <2>1, <2>2, <2>3, NoNewQueuedRecord
<1>. QED
  BY <1>1, <1>2, <1>3, <1>4, <1>5 DEF Next, vars, storeVars

\* A record a client sees as running has a worker that runs its inference or is
\* about to record its end, and one it sees as finished is neither queued nor
\* run, for any jobs, workers, faults and restarts.
THEOREM RunningHasWorkerCorrect == Spec => []RunningHasWorker
<1>1. Init => RunningIsRun
  BY DEF Init, StoreInit, RunningIsRun
<1>2. IInv /\ RunningIsRun /\ [Next]_vars => RunningIsRun'
  BY RunningStep
<1>3. IInv /\ RecordInv /\ RunningIsRun => RunningHasWorker
  BY FinishedIsPast DEF RunningHasWorker, RunningIsRun, HeldBy, Underway
<1>. QED
  BY <1>1, <1>2, <1>3, ServerInvariance, RecordInvariance, PTL DEF Spec, SafetySpec

\* QueuedIsPending is inductive on top of IInv: a job changes hands from its
\* handler to the queue to a worker without a gap.
LEMMA PendingStep == IInv /\ QueuedIsPending /\ [Next]_vars => QueuedIsPending'
<1>. DEFINE Pends(j) == \/ handler[j] \in {"inserted", "persisted", "rollback", "abandoned"}
                        \/ j \in QueuedJobs
                        \/ \E w \in Workers : task[w] = j /\ wstate[w] = "assigned"
<1>0. QueuedIsPending <=> \A j \in Jobs : jobs[j] = "queued" => Pends(j)
  BY DEF QueuedIsPending, HeldBy
<1>. SUFFICES ASSUME IInv, QueuedIsPending, [Next]_vars, NEW j \in Jobs, jobs'[j] = "queued"
              PROVE  Pends(j)'
  BY DEF QueuedIsPending, HeldBy
<1>1. ASSUME UNCHANGED vars PROVE Pends(j)'
  BY <1>0, <1>1 DEF vars, storeVars, poolVars, requestVars, workVars, QueuedJobs
<1>2. ASSUME NEW k \in Jobs, Submission(k) PROVE Pends(j)'
  <2>1. UNCHANGED <<wstate, task>> /\ \A i \in Jobs : i # k => handler'[i] = handler[i]
    BY <1>2 DEF Submission, Admit, RejectInput, BuildRecord, SaveImage, SaveImageFails,
       CheckFull, InsertRecord, AppendSubmission, AppendSubmissionFails, Enqueue,
       EnqueueFails, RemoveUnqueued, PersistUnqueued, PersistUnqueuedFails, CancelRequest,
       Handle, poolVars, workVars, IInv, TypeOK
  <2>2. CASE Enqueue(k)
    <3>1. QueuedJobs' = QueuedJobs \cup {k}
      BY <2>2, EnqueuedJobs DEF Enqueue, IInv, TypeOK
    <3>2. jobs' = jobs
      BY <2>2 DEF Enqueue, storeVars
    <3>. QED
      BY <1>0, <2>1, <3>1, <3>2
  <2>3. CASE ~Enqueue(k)
    <3>1. QueuedJobs' = QueuedJobs
      BY <1>2, <2>3 DEF Submission, Admit, RejectInput, BuildRecord, SaveImage, SaveImageFails,
         CheckFull, InsertRecord, AppendSubmission, AppendSubmissionFails,
         EnqueueFails, RemoveUnqueued, PersistUnqueued, PersistUnqueuedFails, CancelRequest, QueuedJobs
    <3>2. CASE j # k
      <4>1. jobs'[j] = jobs[j]
        BY <1>2, <3>2 DEF Submission, Admit, RejectInput, BuildRecord, SaveImage, SaveImageFails,
           CheckFull, InsertRecord, AppendSubmission, AppendSubmissionFails, Enqueue,
           EnqueueFails, RemoveUnqueued, PersistUnqueued, PersistUnqueuedFails, CancelRequest,
           SetStatus, storeVars, IInv, TypeOK, StoreTypeOK
      <4>. QED
        BY <1>0, <2>1, <3>1, <3>2, <4>1
    <3>3. CASE j = k /\ (InsertRecord(k) \/ RemoveUnqueued(k))
      BY <3>3 DEF InsertRecord, RemoveUnqueued, Handle, SetStatus, IInv, TypeOK, StoreTypeOK
    <3>4. CASE j = k /\ ~InsertRecord(k) /\ ~RemoveUnqueued(k)
      <4>1. jobs' = jobs
        BY <1>2, <2>3, <3>4 DEF Submission, Admit, RejectInput, BuildRecord, SaveImage, SaveImageFails,
           CheckFull, AppendSubmission, AppendSubmissionFails,
           EnqueueFails, PersistUnqueued, PersistUnqueuedFails, CancelRequest, storeVars
      <4>2. handler[j] \in {"inserted", "persisted", "rollback", "abandoned"}
              => handler'[j] \in {"inserted", "persisted", "rollback", "abandoned"}
        BY <1>2, <2>3, <3>4 DEF Submission, Admit, RejectInput, BuildRecord, SaveImage, SaveImageFails,
           CheckFull, AppendSubmission, AppendSubmissionFails,
           EnqueueFails, PersistUnqueued, PersistUnqueuedFails, CancelRequest, Handle, IInv, TypeOK
      <4>. QED
        BY <1>0, <2>1, <3>1, <4>1, <4>2
    <3>. QED
      BY <3>2, <3>3, <3>4
  <2>. QED
    BY <2>2, <2>3
<1>3. ASSUME NEW w \in Workers, Work(w) PROVE Pends(j)'
  <2>1. jobs[j] = "queued" /\ Pends(j)
    BY <1>0, <1>3, NoNewQueuedRecord
  <2>2. handler' = handler /\ \A v \in Workers : v # w => task'[v] = task[v] /\ wstate'[v] = wstate[v]
    BY <1>3, OthersUnmoved
  <2>3. CASE ReceiveJob(w)
    <3>1. QueuedJobs \subseteq QueuedJobs' \cup {Head(queue)}
      BY <2>3, ReceivedJobs DEF ReceiveJob, IInv, TypeOK
    <3>2. /\ wstate[w] = "idle" /\ task'[w] = Head(queue) /\ wstate'[w] = "assigned"
      BY <2>3 DEF ReceiveJob, Receive, Goto, IInv, TypeOK, PoolTypeOK
    <3>. QED
      BY <2>1, <2>2, <3>1, <3>2
  <2>4. CASE ~ReceiveJob(w)
    <3>1. QueuedJobs' = QueuedJobs
      BY <1>3, <2>4 DEF Work, LoadModel, LoadModelFails, StartJob, InferenceSucceeds,
         InferenceErrs, InferenceCrashes, InferenceExpires, EnterFinish, UpdateRecord, UpdateMissing,
         AppendResult, AppendResultFails, SendWebhook, Cleanup, CleanupFails, Retain,
         requestVars, QueuedJobs
    <3>2. ~(task[w] = j /\ wstate[w] = "assigned")
      <4>. SUFFICES ASSUME task[w] = j, wstate[w] = "assigned" PROVE FALSE
        OBVIOUS
      <4>1. finish[w] = "none"
        BY DEF IInv, WorkersConsistent
      <4>2. StartJob(w)
        BY <1>3, <2>4, <4>1 DEF Work, LoadModel, LoadModelFails, InitializeOk, InitializeFails,
           InferenceSucceeds, InferenceErrs, InferenceCrashes, InferenceExpires, InferenceReturns,
           InferencePanics, InferenceTimesOut, UpdateRecord, UpdateMissing, AppendResult,
           AppendResultFails, SendWebhook, Cleanup, CleanupFails, Retain, At
      <4>. QED
        BY <2>1, <4>2 DEF StartJob, Present, SetStatus, IInv, TypeOK, StoreTypeOK
    <3>. QED
      BY <2>1, <2>2, <3>1, <3>2
  <2>. QED
    BY <2>3, <2>4
<1>4. ASSUME Process PROVE Pends(j)'
  <2>1. jobs[j] = "queued" /\ ~Crash
    BY <1>4, ProcessQueuesNothing DEF Pending, Crash, StoreStops
  <2>2. UNCHANGED <<poolVars, requestVars, workVars>>
    BY <1>4, <2>1, ProcessQueuesNothing
  <2>. QED
    BY <1>0, <2>1, <2>2 DEF poolVars, requestVars, workVars, QueuedJobs
<1>. QED
  BY <1>1, <1>2, <1>3, <1>4 DEF Next

\* A record a client sees as queued is in the hands of its handler, the queue
\* or a worker, unless its handler was dropped or failed after the insert.
THEOREM QueuedIsPendingCorrect == Spec => []QueuedIsPending
<1>1. Init => QueuedIsPending
  BY DEF Init, StoreInit, QueuedIsPending
<1>2. IInv /\ QueuedIsPending /\ [Next]_vars => QueuedIsPending'
  BY PendingStep
<1>. QED
  BY <1>1, <1>2, ServerInvariance, PTL DEF Spec, SafetySpec

-----------------------------------------------------------------------------
(* The uploaded image.                                                     *)

\* From the moment the image of an upload is written until its job leaves the
\* hands of the handler, the file is there, whether or not the job was queued.
SavedImages ==
    \A j \in Uploads :
        handler[j] \in {"stored", "checked", "inserted", "persisted"} => j \in images

\* The inductive invariant about images.
ImageInv == SavedImages /\ ImageOutlivesInference

\* Only the clean-up of a worker that is past its inference deletes an image,
\* and only that of its own job.
LEMMA ImageStep == IInv /\ ServedByOneWorker /\ ImageInv /\ [Next]_vars => ImageInv'
<1>. DEFINE InUse(j) == j \in QueuedJobs
                        \/ \E w \in Workers : task[w] = j /\ wstate[w] \in {"assigned", "inferring"}
<1>0. ImageOutlivesInference <=> \A j \in Uploads : InUse(j) => j \in images
  BY DEF ImageOutlivesInference, HeldBy
<1>. SUFFICES ASSUME IInv, ServedByOneWorker, SavedImages,
                     \A j \in Uploads : InUse(j) => j \in images, [Next]_vars
              PROVE  SavedImages' /\ \A j \in Uploads : InUse(j)' => j \in images'
  BY <1>0 DEF ImageInv, ImageOutlivesInference, HeldBy
<1>. HIDE DEF InUse
<1>1. ASSUME UNCHANGED vars PROVE SavedImages' /\ \A j \in Uploads : InUse(j)' => j \in images'
  BY <1>1 DEF vars, poolVars, requestVars, workVars, QueuedJobs, SavedImages, InUse
<1>2. ASSUME NEW k \in Jobs, Submission(k)
      PROVE  SavedImages' /\ \A j \in Uploads : InUse(j)' => j \in images'
  <2>1. UNCHANGED <<wstate, task>> /\ images \subseteq images'
        /\ \A i \in Jobs : i # k => handler'[i] = handler[i]
    BY <1>2 DEF Submission, Admit, RejectInput, BuildRecord, SaveImage, SaveImageFails,
       CheckFull, InsertRecord, AppendSubmission, AppendSubmissionFails, Enqueue,
       EnqueueFails, RemoveUnqueued, PersistUnqueued, PersistUnqueuedFails, CancelRequest,
       Handle, poolVars, workVars, IInv, TypeOK
  <2>2. SavedImages'
    <3>1. /\ SaveImage(k) => k \in images'
          /\ BuildRecord(k) => k \notin Uploads \/ handler'[k] = "built"
      BY DEF SaveImage, BuildRecord, Handle, IInv, TypeOK
    <3>2. ~SaveImage(k) /\ ~BuildRecord(k)
            => (handler'[k] \in {"stored", "checked", "inserted", "persisted"}
                 => handler[k] \in {"stored", "checked", "inserted", "persisted"})
      BY <1>2 DEF Submission, Admit, RejectInput, SaveImageFails,
         CheckFull, InsertRecord, AppendSubmission, AppendSubmissionFails, Enqueue,
         EnqueueFails, RemoveUnqueued, PersistUnqueued, PersistUnqueuedFails, CancelRequest,
         Handle, IInv, TypeOK
    <3>. QED
      BY <2>1, <3>1, <3>2, ServerAssumption DEF SavedImages
  <2>3. \A j \in Uploads : InUse(j)' => j \in images'
    <3>1. CASE Enqueue(k)
      <4>1. QueuedJobs' = QueuedJobs \cup {k} /\ handler[k] = "persisted"
        BY <3>1, EnqueuedJobs DEF Enqueue, Handle, IInv, TypeOK
      <4>. QED
        BY <2>1, <4>1 DEF SavedImages, InUse
    <3>2. CASE ~Enqueue(k)
      <4>1. QueuedJobs' = QueuedJobs
        BY <1>2, <3>2 DEF Submission, Admit, RejectInput, BuildRecord, SaveImage, SaveImageFails,
           CheckFull, InsertRecord, AppendSubmission, AppendSubmissionFails,
           EnqueueFails, RemoveUnqueued, PersistUnqueued, PersistUnqueuedFails, CancelRequest, QueuedJobs
      <4>. QED
        BY <2>1, <4>1 DEF InUse
    <3>. QED
      BY <3>1, <3>2
  <2>. QED
    BY <2>2, <2>3
<1>3. ASSUME NEW w \in Workers, Work(w)
      PROVE  SavedImages' /\ \A j \in Uploads : InUse(j)' => j \in images'
  <2>1. handler' = handler /\ \A v \in Workers : v # w => task'[v] = task[v] /\ wstate'[v] = wstate[v]
    BY <1>3, OthersUnmoved
  <2>2. CASE Cleanup(w)
    <3>1. /\ images' = images \ ({task[w]} \cap Uploads) /\ finish[w] = "cleanup"
          /\ UNCHANGED <<wstate, task, queue>>
      BY <2>2 DEF Cleanup, At, poolVars
    <3>2. wstate[w] = "finishing" /\ task[w] \in Jobs
      BY <3>1, FinishingWorker
    <3>3. /\ handler[task[w]] = "accepted" /\ task[w] \notin QueuedJobs
          /\ \A v \in Workers : task[v] = task[w] => v = w
      BY <3>2, HeldJob
    <3>4. ~InUse(task[w])
      BY <3>2, <3>3 DEF InUse
    <3>5. \A j \in Uploads : InUse(j)' => InUse(j)
      BY <3>1 DEF InUse, QueuedJobs
    <3>. QED
      BY <2>1, <3>1, <3>3, <3>4, <3>5 DEF SavedImages
  <2>3. CASE ~Cleanup(w)
    <3>1. images' = images
      BY <1>3, <2>3 DEF Work, LoadModel, LoadModelFails, ReceiveJob, StartJob, InferenceSucceeds,
         InferenceErrs, InferenceCrashes, InferenceExpires, EnterFinish, UpdateRecord, UpdateMissing,
         AppendResult, AppendResultFails, SendWebhook, CleanupFails, Retain, requestVars
    <3>2. CASE ReceiveJob(w)
      <4>1. QueuedJobs = QueuedJobs' \cup {Head(queue)} /\ task'[w] = Head(queue)
        BY <3>2, ReceivedJobs DEF ReceiveJob, IInv, TypeOK
      <4>. QED
        BY <2>1, <3>1, <4>1 DEF SavedImages, InUse
    <3>3. CASE ~ReceiveJob(w)
      <4>1. QueuedJobs' = QueuedJobs
        BY <1>3, <2>3, <3>3 DEF Work, LoadModel, LoadModelFails, StartJob, InferenceSucceeds,
           InferenceErrs, InferenceCrashes, InferenceExpires, EnterFinish, UpdateRecord, UpdateMissing,
           AppendResult, AppendResultFails, SendWebhook, CleanupFails, Retain,
           requestVars, QueuedJobs
      <4>2. wstate'[w] \in {"assigned", "inferring"}
              => task'[w] = task[w] /\ wstate[w] \in {"assigned", "inferring"}
        BY <1>3, <2>3, <3>3 DEF Work, LoadModel, LoadModelFails, InitializeOk, InitializeFails, StartJob,
           SpawnInference, InferenceSucceeds, InferenceErrs, InferenceCrashes, InferenceExpires,
           InferenceReturns, InferencePanics, InferenceTimesOut, EnterFinish, UpdateRecord, UpdateMissing,
           AppendResult, AppendResultFails, SendWebhook, CleanupFails, Retain, EndRequest, FinishRequest,
           Goto, poolVars, workVars, IInv, TypeOK, PoolTypeOK
      <4>. QED
        BY <2>1, <3>1, <4>1, <4>2 DEF SavedImages, InUse
    <3>. QED
      BY <3>2, <3>3
  <2>. QED
    BY <2>2, <2>3
<1>4. ASSUME Process PROVE SavedImages' /\ \A j \in Uploads : InUse(j)' => j \in images'
  <2>1. CASE Crash
    <3>1. /\ images' = images /\ QueuedJobs' = {} /\ \A w \in Workers : task'[w] = NoJob
          /\ \A j \in Jobs : handler'[j] \in {handler[j], "abandoned"}
      BY <2>1 DEF Crash, QueuedJobs
    <3>. QED
      BY <3>1, ServerAssumption DEF SavedImages, InUse
  <2>2. CASE ~Crash
    <3>1. Jobs # {} => UNCHANGED <<poolVars, requestVars, workVars>>
      BY <1>4, <2>2, ProcessQueuesNothing
    <3>. QED
      BY <3>1, ServerAssumption DEF poolVars, requestVars, workVars, QueuedJobs, SavedImages, InUse
  <2>. QED
    BY <2>1, <2>2
<1>. QED
  BY <1>1, <1>2, <1>3, <1>4 DEF Next

\* The image of an upload is there while its job is queued, assigned or under
\* inference, in every interleaving of finish_job's clean-up with submissions,
\* other workers and restarts.
THEOREM ImageOutlivesInferenceCorrect == Spec => []ImageOutlivesInference
<1>1. Init => ImageInv
  <2>. SUFFICES ASSUME Init PROVE ImageInv
    OBVIOUS
  <2>1. QueuedJobs = {} /\ \A w \in Workers : task[w] = NoJob
    BY DEF Init, QueuedJobs
  <2>. QED
    BY <2>1, ServerAssumption DEF Init, ImageInv, SavedImages, ImageOutlivesInference, HeldBy
<1>2. IInv /\ ServedByOneWorker /\ ImageInv /\ [Next]_vars => ImageInv'
  BY ImageStep
<1>3. ImageInv => ImageOutlivesInference
  BY DEF ImageInv
<1>. QED
  BY <1>1, <1>2, <1>3, ServerInvariance, ServedByOneWorkerCorrect, PTL DEF Spec, SafetySpec

-----------------------------------------------------------------------------
(* One verdict.                                                            *)

\* Nothing is announced that the files may still contradict: a job is posted
\* only after its line is in results.jsonl, and a job that load_jobs would
\* declare failed was never posted.  finish_job's order of append and webhook
\* is what keeps this across a crash between them.
PostedAgrees ==
    \A j \in Jobs :
        /\ posted[j] \in {<<>>, <<"succeeded">>, <<"failed">>}
        /\ handler[j] \in {"new"} \cup InFlight => posted[j] = <<>>
        /\ j \in submissions /\ results[j] = <<>> => posted[j] = <<>>
        /\ posted[j] # <<>> /\ results[j] # <<>> => results[j] = posted[j]
        /\ posted[j] # <<>> /\ jobs[j] \in Terminal => posted[j] = <<jobs[j]>>

\* finish_job posts after the append and before the clean-up.
PostedInTurnOf(w) ==
    /\ finish[w] = "webhook" => posted[task[w]] = <<>>
    /\ finish[w] \in {"webhook", "cleanup", "retain"} => results[task[w]] # <<>>

\* The inductive invariant about announcements.
PostedInv == PostedAgrees /\ \A w \in Workers : task[w] \in Jobs => PostedInTurnOf(w)

\* A submission touches no other job and no worker.
LEMMA OpenSubmission ==
    ASSUME IInv, NEW j \in Jobs, Submission(j)
    PROVE  /\ handler[j] \in {"new"} \cup InFlight
           /\ UNCHANGED <<poolVars, workVars, processVars, recovering>>
           /\ \A i \in Jobs : i # j => /\ handler'[i] = handler[i] /\ jobs'[i] = jobs[i]
                                       /\ results'[i] = results[i]
                                       /\ i \in submissions' <=> i \in submissions
<1>. USE DEF IInv, TypeOK, StoreTypeOK
<1>1. /\ handler[j] \in {"new"} \cup InFlight
      /\ UNCHANGED <<poolVars, workVars, processVars, recovering>>
      /\ \A i \in Jobs : i # j => handler'[i] = handler[i]
  BY DEF Submission, Admit, RejectInput, BuildRecord, SaveImage, SaveImageFails,
     CheckFull, InsertRecord, AppendSubmission, AppendSubmissionFails, Enqueue,
     EnqueueFails, RemoveUnqueued, PersistUnqueued, PersistUnqueuedFails, CancelRequest,
     Handle, InFlight, storeVars
<1>2. \A i \in Jobs : i # j => jobs'[i] = jobs[i] /\ (i \in submissions' <=> i \in submissions)
  BY DEF Submission, Admit, RejectInput, BuildRecord, SaveImage, SaveImageFails,
     CheckFull, InsertRecord, AppendSubmission, AppendSubmissionFails, Enqueue,
     EnqueueFails, RemoveUnqueued, PersistUnqueued, PersistUnqueuedFails, CancelRequest,
     SetStatus, storeVars
<1>3. \A i \in Jobs : i # j => results'[i] = results[i]
  BY DEF Submission, Admit, RejectInput, BuildRecord, SaveImage, SaveImageFails,
     CheckFull, InsertRecord, AppendSubmission, AppendSubmissionFails, Enqueue,
     EnqueueFails, RemoveUnqueued, PersistUnqueued, PersistUnqueuedFails, CancelRequest,
     AppendResultLine, storeVars
<1>. QED
  BY <1>1, <1>2, <1>3

\* Submissions post nothing, and the job of one that is open was never posted.
LEMMA PostedSubmission ==
    ASSUME IInv, ServedByOneWorker, PostedInv, NEW j \in Jobs, Submission(j)
    PROVE  PostedInv'
<1>1. /\ handler[j] \in {"new"} \cup InFlight
      /\ UNCHANGED <<poolVars, workVars, processVars, recovering>>
      /\ \A i \in Jobs : i # j => /\ handler'[i] = handler[i] /\ jobs'[i] = jobs[i]
                                  /\ results'[i] = results[i]
                                  /\ i \in submissions' <=> i \in submissions
  BY OpenSubmission
<1>2. posted[j] = <<>> /\ posted' = posted
  BY <1>1 DEF PostedInv, PostedAgrees, workVars
<1>3. PostedAgrees'
  BY <1>1, <1>2 DEF PostedInv, PostedAgrees
<1>4. \A w \in Workers : task[w] \in Jobs => task[w] # j
  BY <1>1, HeldJob DEF InFlight
<1>. QED
  BY <1>1, <1>2, <1>3, <1>4 DEF PostedInv, PostedInTurnOf, workVars

\* finish_job posts a job once, after its line was written: without failing
\* file operations the line is there.
LEMMA PostedWork ==
    ASSUME "fs" \notin Faults, IInv, ServedByOneWorker, RecordInv, PostedInv, NEW w \in Workers, Work(w)
    PROVE  PostedInv'
<1>. USE DEF IInv, TypeOK, StoreTypeOK
<1>1. /\ UNCHANGED <<handler, phase, recovering, submissions>> /\ phase = "serving"
      /\ \A v \in Workers : v # w => /\ task'[v] = task[v] /\ wstate'[v] = wstate[v]
                                     /\ finish'[v] = finish[v] /\ outcome'[v] = outcome[v]
  BY OthersUnmoved
<1>2. ASSUME NEW v \in Workers, v # w, task[v] \in Jobs
      PROVE  task[v] # task[w]
  BY <1>2, HeldJob, ServerAssumption DEF ServedByOneWorker
<1>3. ASSUME finish[w] # "none"
      PROVE  task[w] \in Jobs /\ WorkAgreesOf(w) /\ outcome[w] \in Terminal /\ PostedInTurnOf(w)
  BY <1>3, FinishingWorker DEF RecordInv, WorkAgrees, PostedInv
<1>4. CASE /\ UNCHANGED <<results, posted>>
           /\ \A j \in Jobs : jobs'[j] \in Terminal => jobs'[j] = jobs[j]
           /\ task'[w] \in Jobs => finish'[w] \notin {"webhook", "cleanup", "retain"}
  <2>1. PostedAgrees'
    BY <1>1, <1>4 DEF PostedInv, PostedAgrees
  <2>2. ASSUME NEW v \in Workers, task'[v] \in Jobs PROVE PostedInTurnOf(v)'
    BY <1>1, <1>4, <2>2 DEF PostedInv, PostedInTurnOf
  <2>. QED
    BY <2>1, <2>2 DEF PostedInv
<1>5. CASE LoadModel(w) \/ LoadModelFails(w) \/ ReceiveJob(w)
  <2>1. UNCHANGED <<jobs, results, posted, finish>> /\ wstate[w] # "finishing"
    BY <1>5 DEF LoadModel, LoadModelFails, InitializeOk, InitializeFails, ReceiveJob, Receive, storeVars, workVars
  <2>. QED
    BY <1>4, <2>1 DEF WorkersConsistent
<1>6. CASE StartJob(w)
  <2>1. UNCHANGED <<results, posted, finish>> /\ wstate[w] # "finishing"
        /\ \A j \in Jobs : jobs'[j] \in Terminal => jobs'[j] = jobs[j]
    BY <1>6 DEF StartJob, SpawnInference, SetStatus, workVars, Terminal
  <2>. QED
    BY <1>4, <2>1 DEF WorkersConsistent
<1>7. CASE InferenceSucceeds(w) \/ InferenceErrs(w) \/ InferenceCrashes(w) \/ InferenceExpires(w)
  <2>1. UNCHANGED <<jobs, results, posted>> /\ finish'[w] = "update"
    BY <1>7 DEF InferenceSucceeds, InferenceErrs, InferenceCrashes, InferenceExpires, EnterFinish, storeVars
  <2>. QED
    BY <1>4, <2>1
<1>8. CASE UpdateMissing(w) \/ Retain(w)
  <2>1. UNCHANGED <<results, posted>> /\ finish'[w] = "none"
        /\ \A j \in Jobs : jobs'[j] \in Terminal => jobs'[j] = jobs[j]
    BY <1>8 DEF UpdateMissing, Retain, EndRequest, RetainRecentJobs, storeVars, Terminal
  <2>. QED
    BY <1>4, <2>1
<1>9. CASE UpdateRecord(w)
  <2>1. /\ jobs' = [jobs EXCEPT ![task[w]] = outcome[w]] /\ finish[w] = "update"
        /\ UNCHANGED <<results, posted, task>> /\ finish'[w] = "append"
    BY <1>9 DEF UpdateRecord, SetStatus, NextStep, At
  <2>2. posted[task[w]] = <<>>
    BY <1>3, <2>1 DEF WorkAgreesOf, Past, PostedInv, PostedAgrees
  <2>. QED
    BY <1>1, <1>3, <2>1, <2>2 DEF PostedInv, PostedAgrees, PostedInTurnOf
<1>10. CASE AppendResult(w) \/ AppendResultFails(w)
  <2>1. /\ AppendResultLine(task[w], outcome[w]) /\ finish[w] = "append"
        /\ UNCHANGED <<jobs, posted, task>> /\ finish'[w] = "webhook"
    BY <1>10 DEF AppendResult, AppendResultFails, NextStep, At
  <2>2. task[w] \in Jobs /\ results[task[w]] = <<>> /\ posted[task[w]] = <<>>
    BY <1>3, <2>1 DEF WorkAgreesOf, PostedInv, PostedAgrees
  <2>3. results' = [results EXCEPT ![task[w]] = <<outcome[w]>>]
    BY <2>1, <2>2, OneResultLine
  <2>4. PostedAgrees'
    BY <1>1, <2>1, <2>2, <2>3 DEF PostedInv, PostedAgrees
  <2>5. PostedInTurnOf(w)'
    BY <2>1, <2>2, <2>3, SingletonLine DEF PostedInTurnOf
  <2>6. ASSUME NEW v \in Workers, v # w, task'[v] \in Jobs PROVE PostedInTurnOf(v)'
    BY <1>1, <1>2, <2>1, <2>2, <2>3, <2>6 DEF PostedInv, PostedInTurnOf
  <2>. QED
    BY <2>4, <2>5, <2>6 DEF PostedInv
<1>11. CASE SendWebhook(w)
  <2>1. /\ finish[w] = "webhook" /\ UNCHANGED <<jobs, results, task, outcome>> /\ finish'[w] = "cleanup"
        /\ posted' = IF task[w] \in Hooked THEN [posted EXCEPT ![task[w]] = Append(@, outcome[w])] ELSE posted
    BY <1>11 DEF SendWebhook, NextStep, At, storeVars
  <2>2. /\ task[w] \in Jobs /\ posted[task[w]] = <<>> /\ results[task[w]] = <<outcome[w]>>
        /\ jobs[task[w]] \in {outcome[w], "absent"} /\ outcome[w] \in Terminal
        /\ results[task[w]] # <<>> /\ handler[task[w]] = "accepted"
    BY <1>3, <2>1, HeldJob DEF WorkAgreesOf, Past, PostedInTurnOf
  <2>3. posted' \in {posted, [posted EXCEPT ![task[w]] = <<outcome[w]>>]}
    BY <2>1, <2>2, SingletonLine
  <2>4. PostedAgrees'
    BY <1>1, <2>1, <2>2, <2>3 DEF PostedInv, PostedAgrees, InFlight, Terminal
  <2>5. PostedInTurnOf(w)'
    BY <2>1, <2>2 DEF PostedInTurnOf
  <2>6. ASSUME NEW v \in Workers, v # w, task'[v] \in Jobs PROVE PostedInTurnOf(v)'
    BY <1>1, <1>2, <2>1, <2>2, <2>3, <2>6 DEF PostedInv, PostedInTurnOf
  <2>. QED
    BY <2>4, <2>5, <2>6 DEF PostedInv
<1>12. CASE Cleanup(w) \/ CleanupFails(w)
  <2>1. finish[w] = "cleanup" /\ UNCHANGED <<jobs, results, posted, task>> /\ finish'[w] = "retain"
    BY <1>12 DEF Cleanup, CleanupFails, NextStep, At, storeVars
  <2>. QED
    BY <1>1, <1>3, <2>1 DEF PostedInv, PostedAgrees, PostedInTurnOf
<1>. QED
  BY <1>5, <1>6, <1>7, <1>8, <1>9, <1>10, <1>11, <1>12 DEF Work

\* load_jobs condemns only jobs without a result line, and those were never
\* posted.
LEMMA PostedProcess ==
    ASSUME IInv, RecordInv, PostedInv, Process
    PROVE  PostedInv'
<1>. USE DEF IInv, TypeOK, StoreTypeOK
<1>1. CASE Load
  <2>1. /\ UNCHANGED <<submissions, results, handler, posted, task, finish>>
        /\ \A j \in Jobs : jobs'[j] = IF StatusOnDisk(j) \in Pending THEN "failed" ELSE StatusOnDisk(j)
    BY <1>1 DEF Load, LoadRecords, requestVars, workVars
  <2>2. ASSUME NEW j \in Jobs, posted[j] # <<>>, jobs'[j] \in Terminal PROVE posted[j] = <<jobs'[j]>>
    <3>1. CASE results[j] = <<>>
      <4>1. j \notin submissions
        BY <2>2, <3>1 DEF PostedInv, PostedAgrees
      <4>. QED
        BY <2>1, <2>2, <3>1, <4>1 DEF StatusOnDisk, Pending, Terminal
    <3>2. CASE results[j] # <<>>
      <4>1. results[j] = posted[j] /\ results[j] \in {<<"succeeded">>, <<"failed">>}
        BY <2>2, <3>2 DEF PostedInv, PostedAgrees, RecordInv, RecordsAgree
      <4>2. <<StatusOnDisk(j)>> = posted[j] /\ StatusOnDisk(j) \in Terminal
        BY <3>2, <4>1, SingletonLine DEF StatusOnDisk, Terminal
      <4>. QED
        BY <2>1, <4>2 DEF Pending, Terminal
    <3>. QED
      BY <3>1, <3>2
  <2>. QED
    BY <2>1, <2>2 DEF PostedInv, PostedAgrees, PostedInTurnOf
<1>2. ASSUME NEW j \in Jobs, Recover(j) PROVE PostedInv'
  <2>1. /\ phase = "recovering" /\ results[j] = <<>> /\ j \in submissions
        /\ UNCHANGED <<jobs, submissions, handler, posted, task, finish>>
    BY <1>2 DEF Recover, AppendRecovered, RecordInv, Loaded, requestVars, workVars
  <2>2. results' = [results EXCEPT ![j] = <<"failed">>]
    BY <1>2, <2>1, OneResultLine DEF Recover, AppendRecovered
  <2>3. posted[j] = <<>> /\ \A w \in Workers : task[w] \notin Jobs
    BY <2>1, ServerAssumption DEF RecordInv, Quiet, PostedInv, PostedAgrees
  <2>. QED
    BY <2>1, <2>2, <2>3 DEF PostedInv, PostedAgrees
<1>3. CASE CompactFirst
  <2>1. phase = "recovering" /\ UNCHANGED <<jobs, results, handler, posted, task, finish>>
        /\ submissions' \subseteq submissions
    BY <1>3 DEF CompactFirst, EnterPhase, CompactSubmissions, CompactedRecords, RecentRecords, Present,
       RecordInv, Loaded, Loading, Pending, Terminal, requestVars, workVars
  <2>. QED
    BY <2>1 DEF PostedInv, PostedAgrees, PostedInTurnOf
<1>4. CASE CompactSecond
  <2>1. /\ phase = "compacting" /\ UNCHANGED <<jobs, submissions, handler, posted, task, finish>>
        /\ \/ results' = results
           \/ submissions = {} /\ \A j \in Jobs : results'[j] = <<>>
                                     \/ (jobs[j] \in Terminal /\ results'[j] = <<jobs[j]>>)
    BY <1>4, RetentionAssumption DEF CompactSecond, EnterPhase, CompactResults, RecordInv, Loaded,
       requestVars, workVars
  <2>2. \A w \in Workers : task[w] \notin Jobs
    BY <2>1, ServerAssumption DEF RecordInv, Quiet
  <2>. QED
    BY <2>1, <2>2 DEF PostedInv, PostedAgrees
<1>5. CASE Serve
  <2>1. /\ UNCHANGED <<submissions, results, handler, posted, task, finish>>
        /\ \A j \in Jobs : jobs'[j] \in {jobs[j], "absent"}
    BY <1>5 DEF Serve, RetainRecentJobs, requestVars, workVars
  <2>. QED
    BY <2>1 DEF PostedInv, PostedAgrees, PostedInTurnOf, Terminal
<1>6. CASE Crash
  <2>1. /\ UNCHANGED <<submissions, results, posted>>
        /\ \A j \in Jobs : jobs'[j] = "absent" /\ handler'[j] \in {handler[j], "abandoned"}
        /\ \A w \in Workers : task'[w] \notin Jobs
    BY <1>6, ServerAssumption DEF Crash, StoreStops
  <2>. QED
    BY <2>1 DEF PostedInv, PostedAgrees, Terminal, InFlight
<1>. QED
  BY <1>1, <1>2, <1>3, <1>4, <1>5, <1>6 DEF Process

\* Every step keeps PostedInv.
LEMMA PostedStep ==
    "fs" \notin Faults /\ IInv /\ ServedByOneWorker /\ RecordInv /\ PostedInv /\ [Next]_vars => PostedInv'
<1>1. PostedInv /\ UNCHANGED vars => PostedInv'
  BY DEF vars, storeVars, requestVars, workVars, PostedInv, PostedAgrees, PostedInTurnOf
<1>. QED
  BY <1>1, PostedSubmission, PostedWork, PostedProcess DEF Next

\* Where a finished record may be ahead of the files: not appended yet.
Ahead(j) == j \in recovering \/ \E w \in Workers : task[w] = j /\ finish[w] = "append"

\* A finished record is ahead of the files nowhere else.
WrittenInv ==
    \A j \in Jobs : jobs[j] \in Terminal /\ results[j] = <<>> /\ j \in submissions => Ahead(j)

\* A submission ends with no finished record.
LEMMA WrittenSubmission ==
    ASSUME IInv, RecordInv, WrittenInv, NEW j \in Jobs, Submission(j)
    PROVE  WrittenInv'
<1>. USE DEF IInv, TypeOK, StoreTypeOK
<1>1. /\ handler[j] \in {"new"} \cup InFlight
      /\ UNCHANGED <<poolVars, workVars, processVars, recovering>>
      /\ \A i \in Jobs : i # j => /\ handler'[i] = handler[i] /\ jobs'[i] = jobs[i]
                                  /\ results'[i] = results[i]
                                  /\ i \in submissions' <=> i \in submissions
  BY OpenSubmission
<1>2. jobs'[j] \notin Terminal
  <2>1. jobs[j] \in {"queued", "absent"}
    BY <1>1 DEF RecordInv, HandlersAgree, Unposted, InFlight
  <2>2. jobs'[j] \in {jobs[j], "queued", "absent"}
    BY DEF Submission, Admit, RejectInput, BuildRecord, SaveImage, SaveImageFails,
       CheckFull, InsertRecord, AppendSubmission, AppendSubmissionFails, Enqueue,
       EnqueueFails, RemoveUnqueued, PersistUnqueued, PersistUnqueuedFails, CancelRequest,
       SetStatus, storeVars
  <2>. QED
    BY <2>1, <2>2 DEF Terminal
<1>3. \A i \in Jobs : Ahead(i)' <=> Ahead(i)
  BY <1>1 DEF Ahead, workVars
<1>. QED
  BY <1>1, <1>2, <1>3 DEF WrittenInv

\* finish_job appends right after its update.
LEMMA WrittenWork ==
    ASSUME "fs" \notin Faults, IInv, ServedByOneWorker, RecordInv, WrittenInv,
           NEW w \in Workers, Work(w)
    PROVE  WrittenInv'
<1>. USE DEF IInv, TypeOK, StoreTypeOK
<1>1. /\ UNCHANGED <<recovering, submissions>>
      /\ \A v \in Workers : v # w => task'[v] = task[v] /\ finish'[v] = finish[v]
  BY OthersUnmoved
<1>2. ASSUME NEW j \in Jobs, jobs[j] \in Terminal, results[j] = <<>>, j \in submissions,
             ~(task[w] = j /\ finish[w] = "append")
      PROVE  Ahead(j)'
  <2>1. CASE j \in recovering
    BY <1>1, <2>1 DEF Ahead
  <2>2. CASE j \notin recovering
    <3>1. PICK v \in Workers : task[v] = j /\ finish[v] = "append"
      BY <1>2, <2>2 DEF WrittenInv, Ahead
    <3>2. v # w
      BY <1>2, <3>1
    <3>. QED
      BY <1>1, <3>1, <3>2 DEF Ahead
  <2>. QED
    BY <2>1, <2>2
<1>3. CASE /\ results' = results /\ finish[w] # "append"
           /\ \A j \in Jobs : jobs'[j] \in Terminal => jobs'[j] = jobs[j]
  BY <1>1, <1>2, <1>3 DEF WrittenInv
<1>4. CASE LoadModel(w) \/ LoadModelFails(w) \/ ReceiveJob(w) \/ StartJob(w)
  <2>1. results' = results /\ wstate[w] # "finishing"
        /\ \A j \in Jobs : jobs'[j] \in Terminal => jobs'[j] = jobs[j]
    BY <1>4 DEF LoadModel, LoadModelFails, InitializeOk, InitializeFails, ReceiveJob, Receive, StartJob,
       SpawnInference, SetStatus, Terminal, storeVars
  <2>. QED
    BY <1>3, <2>1 DEF WorkersConsistent
<1>5. CASE InferenceSucceeds(w) \/ InferenceErrs(w) \/ InferenceCrashes(w) \/ InferenceExpires(w)
  <2>1. UNCHANGED <<jobs, results>> /\ wstate[w] # "finishing"
    BY <1>5 DEF InferenceSucceeds, InferenceErrs, InferenceCrashes, InferenceExpires, EnterFinish,
       InferenceReturns, InferencePanics, InferenceTimesOut, storeVars
  <2>. QED
    BY <1>3, <2>1 DEF WorkersConsistent
<1>6. CASE UpdateMissing(w) \/ SendWebhook(w) \/ Cleanup(w) \/ CleanupFails(w) \/ Retain(w)
  <2>1. results' = results /\ finish[w] # "append"
        /\ \A j \in Jobs : jobs'[j] \in Terminal => jobs'[j] = jobs[j]
    BY <1>6 DEF UpdateMissing, SendWebhook, Cleanup, CleanupFails, Retain, At, RetainRecentJobs,
       Terminal, storeVars
  <2>. QED
    BY <1>3, <2>1
<1>7. CASE UpdateRecord(w)
  <2>1. /\ jobs' = [jobs EXCEPT ![task[w]] = outcome[w]] /\ finish[w] = "update"
        /\ UNCHANGED <<results, task>> /\ finish'[w] = "append"
    BY <1>7 DEF UpdateRecord, SetStatus, NextStep, At
  <2>2. Ahead(task[w])'
    BY <2>1 DEF Ahead
  <2>. QED
    BY <1>1, <1>2, <2>1, <2>2 DEF WrittenInv
<1>8. CASE AppendResult(w) \/ AppendResultFails(w)
  <2>1. AppendResultLine(task[w], outcome[w]) /\ finish[w] = "append" /\ jobs' = jobs
    BY <1>8 DEF AppendResult, AppendResultFails, At
  <2>2. task[w] \in Jobs /\ results[task[w]] = <<>>
    BY <2>1, FinishingWorker DEF RecordInv, WorkAgrees, WorkAgreesOf
  <2>3. results' = [results EXCEPT ![task[w]] = <<outcome[w]>>]
    BY <2>1, <2>2, OneResultLine
  <2>4. results'[task[w]] # <<>> /\ \A j \in Jobs : j # task[w] => results'[j] = results[j]
    BY <2>2, <2>3, SingletonLine
  <2>. QED
    BY <1>1, <1>2, <2>1, <2>4 DEF WrittenInv
<1>. QED
  BY <1>4, <1>5, <1>6, <1>7, <1>8 DEF Work

\* load_jobs appends what it declares failed before it rewrites the files.
LEMMA WrittenProcess ==
    ASSUME IInv, RecordInv, WrittenInv, Process
    PROVE  WrittenInv'
<1>. USE DEF IInv, TypeOK, StoreTypeOK
<1>1. CASE Load
  <2>1. /\ UNCHANGED <<submissions, results>>
        /\ recovering' = {j \in Jobs : StatusOnDisk(j) \in Pending}
    BY <1>1 DEF Load, LoadRecords
  <2>2. \A j \in Jobs : results[j] = <<>> /\ j \in submissions => StatusOnDisk(j) \in Pending
    BY DEF StatusOnDisk, Pending
  <2>. QED
    BY <2>1, <2>2 DEF WrittenInv, Ahead
<1>2. ASSUME NEW k \in Jobs, Recover(k) PROVE WrittenInv'
  <2>1. /\ results[k] = <<>> /\ recovering' = recovering \ {k}
        /\ UNCHANGED <<jobs, submissions, task, finish>>
    BY <1>2 DEF Recover, AppendRecovered, RecordInv, Loaded, workVars
  <2>2. results' = [results EXCEPT ![k] = <<"failed">>]
    BY <1>2, <2>1, OneResultLine DEF Recover, AppendRecovered
  <2>3. results'[k] # <<>> /\ \A j \in Jobs : j # k => results'[j] = results[j]
    BY <2>2, SingletonLine
  <2>4. \A j \in Jobs : j # k /\ Ahead(j) => Ahead(j)'
    BY <2>1 DEF Ahead
  <2>. QED
    BY <2>1, <2>3, <2>4 DEF WrittenInv
<1>3. CASE CompactFirst
  <2>1. /\ phase = "recovering" /\ recovering = {} /\ UNCHANGED <<jobs, results>>
        /\ submissions' \subseteq submissions
    BY <1>3 DEF CompactFirst, EnterPhase, CompactSubmissions, CompactedRecords, RecentRecords, Present,
       RecordInv, Loaded, Loading, Pending, Terminal
  <2>2. \A j \in Jobs : ~Ahead(j)
    BY <2>1, ServerAssumption DEF RecordInv, Quiet, Ahead
  <2>. QED
    BY <2>1, <2>2 DEF WrittenInv
<1>4. CASE CompactSecond
  <2>1. /\ UNCHANGED <<jobs, submissions, recovering, task, finish>>
        /\ phase = "compacting" /\ CompactResults
    BY <1>4 DEF CompactSecond, EnterPhase, CompactResults, workVars
  <2>2. CASE MetadataRetentionLimit = 0
    <3>1. results' = results
      BY <2>1, <2>2 DEF CompactResults
    <3>. QED
      BY <2>1, <3>1 DEF WrittenInv, Ahead
  <2>3. CASE MetadataRetentionLimit > 0
    BY <2>1, <2>3 DEF WrittenInv, RecordInv, Loaded
  <2>. QED
    BY <2>2, <2>3, RetentionAssumption
<1>5. CASE Serve
  <2>1. /\ UNCHANGED <<submissions, results, recovering, task, finish>>
        /\ \A j \in Jobs : jobs'[j] \in Terminal => jobs'[j] = jobs[j]
    BY <1>5 DEF Serve, RetainRecentJobs, workVars, Terminal
  <2>2. \A j \in Jobs : Ahead(j)' <=> Ahead(j)
    BY <2>1 DEF Ahead
  <2>. QED
    BY <2>1, <2>2 DEF WrittenInv
<1>6. CASE Crash
  <2>1. \A j \in Jobs : jobs'[j] = "absent"
    BY <1>6 DEF Crash, StoreStops
  <2>. QED
    BY <2>1 DEF WrittenInv, Terminal
<1>. QED
  BY <1>1, <1>2, <1>3, <1>4, <1>5, <1>6 DEF Process

\* Every step keeps WrittenInv.
LEMMA WrittenStep ==
    "fs" \notin Faults /\ IInv /\ ServedByOneWorker /\ RecordInv /\ WrittenInv /\ [Next]_vars => WrittenInv'
<1>1. WrittenInv /\ UNCHANGED vars => WrittenInv'
  BY DEF vars, storeVars, workVars, WrittenInv, Ahead
<1>. QED
  BY <1>1, WrittenSubmission, WrittenWork, WrittenProcess DEF Next

\* The three invariants together say that there is one verdict.
LEMMA OneVerdictHolds == RecordInv /\ PostedInv /\ WrittenInv => OneVerdict
<1>. SUFFICES ASSUME RecordInv, PostedInv, WrittenInv, NEW j \in Jobs
              PROVE  /\ \A a, b \in Verdicts(j) : a = b
                     /\ Len(results[j]) <= 1 /\ Len(posted[j]) <= 1
                     /\ jobs[j] \in Terminal /\ StatusOnDisk(j) \in Pending => Ahead(j)
  BY DEF OneVerdict, Ahead, HeldBy
<1>1. /\ results[j] \in {<<>>, <<"succeeded">>, <<"failed">>}
      /\ posted[j] \in {<<>>, <<"succeeded">>, <<"failed">>}
      /\ jobs[j] \in Terminal /\ results[j] # <<>> => results[j] = <<jobs[j]>>
      /\ posted[j] # <<>> /\ results[j] # <<>> => results[j] = posted[j]
      /\ posted[j] # <<>> /\ jobs[j] \in Terminal => posted[j] = <<jobs[j]>>
  BY DEF RecordInv, RecordsAgree, PostedInv, PostedAgrees
<1>2. Len(results[j]) <= 1 /\ Len(posted[j]) <= 1
  <2>1. Len(<<>>) = 0 /\ Len(<<"succeeded">>) = 1 /\ Len(<<"failed">>) = 1
    OBVIOUS
  <2>2. Len(results[j]) \in {0, 1} /\ Len(posted[j]) \in {0, 1}
    BY <1>1, <2>1, Zenon
  <2>3. \A n \in {0, 1} : n <= 1
    OBVIOUS
  <2>. QED
    BY <2>2, <2>3, Zenon
<1>3. ASSUME NEW s, s \in {<<>>, <<"succeeded">>, <<"failed">>}, NEW i \in DOMAIN s
      PROVE  s # <<>> /\ s = <<s[i]>>
  BY <1>3
<1>4. \A a \in Verdicts(j) : \/ jobs[j] \in Terminal /\ a = jobs[j]
                             \/ results[j] # <<>> /\ results[j] = <<a>>
                             \/ posted[j] # <<>> /\ posted[j] = <<a>>
  BY <1>1, <1>3 DEF Verdicts
<1>5. \A a, b : <<a>> = <<b>> => a = b
  OBVIOUS
<1>6. ASSUME jobs[j] \in Terminal, StatusOnDisk(j) \in Pending PROVE Ahead(j)
  <2>1. CASE results[j] = <<>>
    BY <1>6, <2>1 DEF StatusOnDisk, Pending, WrittenInv
  <2>2. CASE results[j] # <<>>
    <3>1. results[j] = <<jobs[j]>>
      BY <1>1, <1>6, <2>2
    <3>2. StatusOnDisk(j) = jobs[j]
      BY <2>2, <3>1, SingletonLine DEF StatusOnDisk
    <3>. QED
      BY <1>6, <3>2 DEF Pending, Terminal
  <2>. QED
    BY <2>1, <2>2
<1>. QED
  BY <1>1, <1>2, <1>4, <1>5, <1>6

\* While file operations succeed, the record, results.jsonl and the webhook of
\* a job never contradict one another and state its end once, whatever
\* inferences, clients and crashes do; and the record is ahead of results.jsonl
\* only in front of an append.
THEOREM OneVerdictCorrect == "fs" \notin Faults => (Spec => []OneVerdict)
<1>. SUFFICES ASSUME "fs" \notin Faults PROVE Spec => []OneVerdict
  OBVIOUS
<1>1. Init => PostedInv /\ WrittenInv
  BY ServerAssumption DEF Init, StoreInit, PostedInv, PostedAgrees, WrittenInv
<1>2. IInv /\ ServedByOneWorker /\ RecordInv /\ PostedInv /\ [Next]_vars => PostedInv'
  BY PostedStep
<1>3. IInv /\ ServedByOneWorker /\ RecordInv /\ WrittenInv /\ [Next]_vars => WrittenInv'
  BY WrittenStep
<1>4. RecordInv /\ PostedInv /\ WrittenInv => OneVerdict
  BY OneVerdictHolds
<1>. QED
  BY <1>1, <1>2, <1>3, <1>4, ServerInvariance, ServedByOneWorkerCorrect, RecordInvariance, PTL DEF Spec, SafetySpec

-----------------------------------------------------------------------------
(* A job that was answered 200 is in the files.                            *)

\* The records stamped after j.
Above(j) == {k \in Jobs : <<k, j>> \in later}

\* Neither file has a line of j; enough others were stamped after it.
OffDisk(j)   == results[j] = <<>> /\ j \notin submissions
Displaced(j) == MetadataRetentionLimit > 0 /\ Cardinality(Above(j)) >= MetadataRetentionLimit

\* The inductive invariant: the property, in terms of lines.
DiskInv == \A j \in Jobs : handler[j] = "accepted" /\ OffDisk(j) => Displaced(j)

\* Sets of jobs are finite, and a subset is no larger.
LEMMA Finite ==
    ASSUME NEW S, S \subseteq Jobs
    PROVE  /\ IsFiniteSet(S) /\ Cardinality(S) \in Nat
           /\ \A T \in SUBSET S : Cardinality(T) \in Nat /\ Cardinality(T) <= Cardinality(S)
  BY JobsAssumption, FS_Subset, FS_CardinalityType

\* A step that does not stamp j leaves everything stamped after j there.
LEMMA OnlyOwnStamp ==
    ASSUME IInv, [Next]_vars, NEW j \in Jobs,
           handler[j] \notin {"admitted", "unrecorded"}, j \notin recovering,
           \A w \in Workers : task[w] = j => jobs[j] = "absent"
    PROVE  Above(j) \subseteq Above(j)'
<1>1. ASSUME NEW i \in Jobs, i # j, Touch(i) PROVE Above(j) \subseteq Above(j)'
  BY <1>1 DEF Touch, Above
<1>2. ASSUME later' = later PROVE Above(j) \subseteq Above(j)'
  BY <1>2 DEF Above
<1>3. ASSUME NEW i \in Jobs, Submission(i) PROVE Above(j) \subseteq Above(j)'
  <2>1. CASE BuildRecord(i) \/ PersistUnqueued(i) \/ PersistUnqueuedFails(i)
    <3>1. Touch(i) /\ i # j
      BY <2>1 DEF BuildRecord, PersistUnqueued, PersistUnqueuedFails, Handle
    <3>. QED
      BY <1>1, <3>1
  <2>2. CASE UNCHANGED later
    BY <1>2, <2>2
  <2>. QED
    BY <1>3, <2>1, <2>2 DEF Submission, Admit, RejectInput, SaveImage, SaveImageFails,
       CheckFull, InsertRecord, AppendSubmission, AppendSubmissionFails, Enqueue,
       EnqueueFails, RemoveUnqueued, CancelRequest, storeVars
<1>4. ASSUME NEW w \in Workers, Work(w) PROVE Above(j) \subseteq Above(j)'
  <2>1. CASE StartJob(w) \/ UpdateRecord(w)
    <3>1. \/ task[w] \in Jobs /\ jobs[task[w]] # "absent" /\ Touch(task[w])
          \/ later' = later
      BY <2>1 DEF StartJob, UpdateRecord, Present
    <3>. QED
      BY <1>1, <1>2, <3>1
  <2>2. CASE UNCHANGED later
    BY <1>2, <2>2
  <2>. QED
    BY <1>4, <2>1, <2>2 DEF Work, LoadModel, LoadModelFails, ReceiveJob, InferenceSucceeds,
       InferenceErrs, InferenceCrashes, InferenceExpires, EnterFinish, UpdateMissing, AppendResult,
       AppendResultFails, SendWebhook, Cleanup, CleanupFails, Retain, storeVars
<1>5. ASSUME Process PROVE Above(j) \subseteq Above(j)'
  <2>1. CASE \E i \in Jobs : Recover(i)
    BY <1>1, <2>1 DEF Recover, AppendRecovered
  <2>2. CASE UNCHANGED later
    BY <1>2, <2>2
  <2>. QED
    BY <1>5, <2>1, <2>2 DEF Process, Load, LoadRecords, CompactFirst, CompactSecond, CompactSubmissions,
       CompactResults, Serve, Crash, StoreStops
<1>6. CASE UNCHANGED vars
  BY <1>2, <1>6 DEF vars, storeVars
<1>. QED
  BY <1>3, <1>4, <1>5, <1>6 DEF Next

\* An accepted job without a line is stamped no more: nobody holds its record.
LEMMA StampsAreAdded ==
    ASSUME IInv, RecordInv, [Next]_vars, NEW j \in Jobs,
           handler[j] = "accepted", OffDisk(j)
    PROVE  Above(j) \subseteq Above(j)'
<1>1. j \notin recovering /\ \A w \in Workers : task[w] # j
  BY DEF RecordInv, Loaded, WorkAgrees, WorkAgreesOf, OffDisk
<1>. QED
  BY <1>1, OnlyOwnStamp

\* So it stays displaced.
LEMMA StaysDisplaced ==
    ASSUME IInv, ServedByOneWorker, RecordInv, DiskInv, [Next]_vars, NEW j \in Jobs,
           handler[j] = "accepted", OffDisk(j)
    PROVE  Displaced(j)'
<1>1. Above(j) \subseteq Above(j)' /\ Above(j)' \subseteq Jobs
  BY StampsAreAdded DEF Above
<1>2. Cardinality(Above(j)) \in Nat /\ Cardinality(Above(j)') \in Nat
      /\ Cardinality(Above(j)) <= Cardinality(Above(j)')
  BY <1>1, Finite
<1>3. Cardinality(Above(j))' = Cardinality(Above(j)')
  OBVIOUS
<1>. QED
  BY <1>2, <1>3, RetentionAssumption DEF DiskInv, Displaced

\* A file that was appended to is not empty.
LEMMA LineIsThere ==
    ASSUME NEW s \in Seq(Terminal), NEW t \in Terminal
    PROVE  Append(s, t) # <<>>
  BY AppendProperties

\* An accepted job loses its last line only in the second write of
\* compact_metadata, and only to enough younger records.
LEMMA LeavesDisk ==
    ASSUME IInv, ServedByOneWorker, RecordInv, [Next]_vars, NEW j \in Jobs,
           handler'[j] = "accepted", OffDisk(j)', ~OffDisk(j)
    PROVE  Displaced(j)'
<1>. USE DEF IInv, TypeOK, StoreTypeOK, RecordInv
<1>1. ASSUME NEW i \in Jobs, Submission(i) PROVE FALSE
  <2>1. j \in submissions => j \in submissions'
    BY <1>1 DEF Submission, Admit, RejectInput, BuildRecord, SaveImage, SaveImageFails,
       CheckFull, InsertRecord, AppendSubmission, AppendSubmissionFails, Enqueue,
       EnqueueFails, RemoveUnqueued, PersistUnqueued, PersistUnqueuedFails, CancelRequest, storeVars
  <2>2. ASSUME NEW k \in Jobs, AppendResultLine(k, "failed")
        PROVE  results'[j] # <<>> \/ results'[j] = results[j]
    <3>1. results[k] \in Seq(Terminal) /\ "failed" \in Terminal
      BY DEF Terminal
    <3>2. Append(results[k], "failed") # <<>>
      BY <3>1, LineIsThere
    <3>. QED
      BY <2>2, <3>2 DEF AppendResultLine
  <2>3. results'[j] # <<>> \/ results'[j] = results[j]
    BY <1>1, <2>2 DEF Submission, Admit, RejectInput, BuildRecord, SaveImage, SaveImageFails,
       CheckFull, InsertRecord, AppendSubmission, AppendSubmissionFails, Enqueue,
       EnqueueFails, RemoveUnqueued, PersistUnqueued, PersistUnqueuedFails, CancelRequest, storeVars
  <2>. QED
    BY <2>1, <2>3 DEF OffDisk
<1>2. ASSUME NEW w \in Workers, Work(w) PROVE FALSE
  <2>1. submissions' = submissions
    BY <1>2, OthersUnmoved
  <2>2. CASE AppendResultLine(task[w], outcome[w]) /\ finish[w] = "append"
    <3>1. task[w] \in Jobs /\ results[task[w]] = <<>>
      BY <2>2, FinishingWorker DEF WorkAgrees, WorkAgreesOf
    <3>2. results' = [results EXCEPT ![task[w]] = <<outcome[w]>>]
      BY <2>2, <3>1, OneResultLine
    <3>. QED
      BY <2>1, <3>1, <3>2, SingletonLine DEF OffDisk
  <2>3. CASE results' = results
    BY <2>1, <2>3 DEF OffDisk
  <2>. QED
    BY <1>2, <2>2, <2>3 DEF Work, LoadModel, LoadModelFails, ReceiveJob, StartJob, InferenceSucceeds,
       InferenceErrs, InferenceCrashes, InferenceExpires, EnterFinish, UpdateRecord, UpdateMissing,
       AppendResult, AppendResultFails, SendWebhook, Cleanup, CleanupFails, Retain, At, storeVars
<1>3. ASSUME Process PROVE Displaced(j)'
  <2>1. CASE CompactFirst
    <3>1. results'[j] = <<>> /\ results' = results /\ phase = "recovering" /\ recovering = {}
      BY <2>1 DEF CompactFirst, EnterPhase, CompactSubmissions, OffDisk
    <3>. QED
      BY <3>1 DEF Loaded, OffDisk
  <2>2. CASE CompactSecond
    <3>1. /\ submissions' = submissions /\ later' = later /\ phase = "compacting" /\ results'[j] = <<>>
          /\ j \notin submissions /\ results[j] # <<>>
      BY <2>2 DEF CompactSecond, EnterPhase, CompactResults, OffDisk
    <3>2. jobs[j] \in Terminal
      BY <3>1 DEF Loaded, Loading, Quiet
    <3>3. MetadataRetentionLimit # 0 /\ j \notin CompactedRecords
      BY <2>2, <3>1, <3>2, SingletonLine DEF CompactSecond, CompactResults
    <3>. DEFINE A == {k \in Present : <<k, j>> \in later}
    <3>4. ~(Cardinality(A) < MetadataRetentionLimit)
      BY <3>2, <3>3 DEF CompactedRecords, RecentRecords, Present, Terminal
    <3>5. A \subseteq Above(j) /\ Above(j) \subseteq Jobs
      BY DEF Above, Present
    <3>. HIDE DEF A
    <3>6. /\ Cardinality(A) \in Nat /\ Cardinality(Above(j)) \in Nat
          /\ Cardinality(A) <= Cardinality(Above(j))
      BY <3>5, Finite
    <3>7. Displaced(j)
      BY <3>3, <3>4, <3>6, RetentionAssumption DEF Displaced
    <3>. QED
      BY <3>1, <3>7 DEF Displaced, Above
  <2>3. CASE \E k \in Jobs : Recover(k)
    <3>1. PICK k \in Jobs : Recover(k)
      BY <2>3
    <3>2. results[k] = <<>> /\ submissions' = submissions /\ AppendResultLine(k, "failed")
      BY <3>1 DEF Recover, AppendRecovered, Loaded
    <3>3. results' = [results EXCEPT ![k] = <<"failed">>]
      BY <3>2, OneResultLine
    <3>. QED
      BY <3>2, <3>3, SingletonLine DEF OffDisk
  <2>4. CASE UNCHANGED <<submissions, results>>
    BY <2>4 DEF OffDisk
  <2>. QED
    BY <1>3, <2>1, <2>2, <2>3, <2>4 DEF Process, Load, LoadRecords, Serve, Crash, StoreStops
<1>4. CASE UNCHANGED vars
  BY <1>4 DEF vars, storeVars, OffDisk
<1>. QED
  BY <1>1, <1>2, <1>3, <1>4 DEF Next

\* Every step keeps DiskInv.
LEMMA DiskStep ==
    IInv /\ ServedByOneWorker /\ RecordInv /\ DiskInv /\ [Next]_vars => DiskInv'
<1>. SUFFICES ASSUME IInv, ServedByOneWorker, RecordInv, DiskInv, [Next]_vars, NEW j \in Jobs,
                     handler'[j] = "accepted", OffDisk(j)'
              PROVE  Displaced(j)'
  BY DEF DiskInv
<1>1. CASE OffDisk(j) /\ handler[j] = "accepted"
  BY <1>1, StaysDisplaced
<1>2. CASE ~OffDisk(j)
  BY <1>2, LeavesDisk
<1>3. CASE OffDisk(j) /\ handler[j] # "accepted"
  <2>1. handler[j] = "persisted"
    <3>1. ASSUME NEW i \in Jobs, Submission(i) PROVE handler[j] = "persisted"
      <4>1. i # j => handler'[j] = handler[j]
        BY <3>1, OpenSubmission
      <4>2. i = j => handler[j] = "persisted"
        BY <3>1 DEF Submission, Admit, RejectInput, BuildRecord, SaveImage, SaveImageFails,
           CheckFull, InsertRecord, AppendSubmission, AppendSubmissionFails, Enqueue,
           EnqueueFails, RemoveUnqueued, PersistUnqueued, PersistUnqueuedFails, CancelRequest, Handle,
           IInv, TypeOK
      <4>. QED
        BY <1>3, <4>1, <4>2
    <3>2. ASSUME NEW w \in Workers, Work(w) PROVE FALSE
      BY <1>3, <3>2, OthersUnmoved
    <3>3. ASSUME Process PROVE FALSE
      BY <1>3, <3>3 DEF Process, Load, Recover, CompactFirst, CompactSecond, Serve, Crash, requestVars
    <3>4. CASE UNCHANGED vars
      BY <1>3, <3>4 DEF vars, requestVars
    <3>. QED
      BY <3>1, <3>2, <3>3, <3>4 DEF Next
  <2>. QED
    BY <1>3, <2>1 DEF RecordInv, HandlersAgree, OffDisk
<1>. QED
  BY <1>1, <1>2, <1>3

\* A job answered 200 stays in one of the two files until enough other records
\* were stamped after it for metadata retention to give it up: for any jobs,
\* limits, order of stamps, failed writes and crashes, also between the two
\* writes of a compaction.
THEOREM AcceptedIsOnDiskCorrect == Spec => []AcceptedIsOnDisk
<1>1. Init => DiskInv
  BY DEF Init, DiskInv
<1>2. IInv /\ ServedByOneWorker /\ RecordInv /\ DiskInv /\ [Next]_vars => DiskInv'
  BY DiskStep
<1>3. IInv /\ DiskInv => AcceptedIsOnDisk
  <2>. SUFFICES ASSUME IInv, DiskInv, NEW j \in Jobs, handler[j] = "accepted", StatusOnDisk(j) = "absent"
                PROVE  MetadataRetentionLimit > 0 /\ Cardinality(Above(j)) >= MetadataRetentionLimit
    BY DEF AcceptedIsOnDisk, Above
  <2>1. OffDisk(j)
    <3>1. results[j] # <<>> => results[j][Len(results[j])] \in Terminal
      <4>1. results[j] \in Seq(Terminal)
        BY DEF IInv, TypeOK, StoreTypeOK
      <4>. QED
        BY <4>1, EmptySeq, ElementOfSeq, LenProperties
    <3>. QED
      BY <3>1 DEF StatusOnDisk, OffDisk, Terminal
  <2>. QED
    BY <2>1 DEF DiskInv, Displaced
<1>. QED
  BY <1>1, <1>2, <1>3, ServerInvariance, ServedByOneWorkerCorrect, RecordInvariance, PTL DEF Spec, SafetySpec

-----------------------------------------------------------------------------
(* Retention.                                                              *)

\* The stamps of the records that are kept somewhere order them strictly, and
\* any two of them are comparable: what recent_records sorts is a total order.
StrictOrder ==
    /\ \A a \in Jobs : <<a, a>> \notin later
    /\ \A a, b, c \in Jobs : <<a, b>> \in later /\ <<b, c>> \in later => <<a, c>> \in later

\* j is comparable with every other job.
Stamped(j) == \A k \in Jobs : k # j => <<j, k>> \in later \/ <<k, j>> \in later

\* There is a record of j somewhere: in the map, in a file or with its handler.
Kept(j) == \/ jobs[j] # "absent" \/ j \in submissions \/ results[j] # <<>>
           \/ handler[j] \in InFlight \ {"admitted"}

\* The inductive invariant about stamps: every record there is was stamped.
StampInv == StrictOrder /\ \A j \in Jobs : Kept(j) => Stamped(j)

\* Touch puts its job on top of a strict order and keeps it one.
LEMMA TouchOrders ==
    ASSUME NEW i \in Jobs, Touch(i), StrictOrder
    PROVE  /\ StrictOrder' /\ Stamped(i)'
           /\ \A j \in Jobs : Stamped(j) => Stamped(j)'
<1>1. \A a, b \in Jobs : <<a, b>> \in later' <=> \/ a = i /\ b # i
                                                 \/ <<a, b>> \in later /\ b # i
  BY DEF Touch
<1>2. StrictOrder'
  BY <1>1 DEF StrictOrder
<1>3. Stamped(i)' /\ \A j \in Jobs : Stamped(j) => Stamped(j)'
  BY <1>1 DEF Stamped
<1>. QED
  BY <1>2, <1>3

\* recent_records keeps at most n of the records it is given, when their
\* stamps are totally ordered.
LEMMA RecentRecordsBound ==
    ASSUME NEW S, S \subseteq Jobs, NEW n \in Nat, StrictOrder, \A j \in S : Stamped(j)
    PROVE  Cardinality(RecentRecords(S, n)) <= n
<1>. DEFINE T == RecentRecords(S, n)
            Below(m) == {k \in T : <<m, k>> \in later}
            Over(m) == {k \in S : <<k, m>> \in later}
<1>. SUFFICES Cardinality(T) <= n
  OBVIOUS
<1>1. T \subseteq S /\ T \subseteq Jobs /\ IsFiniteSet(T) /\ Cardinality(T) \in Nat
  <2>1. T \subseteq S
    BY DEF RecentRecords
  <2>. QED
    BY <2>1, Finite
<1>2. CASE T = {}
  BY <1>2, FS_EmptySet
<1>3. CASE T # {}
  <2>. DEFINE B == {Below(m) : m \in T}
  <2>1. B \subseteq FiniteSubsetsOf(Jobs) /\ B # {}
    <3>1. \A m \in T : Below(m) \subseteq Jobs /\ IsFiniteSet(Below(m))
      <4>. TAKE m \in T
      <4>1. Below(m) \subseteq Jobs
        BY <1>1
      <4>. QED
        BY <4>1, Finite
    <3>. QED
      BY <1>3, <3>1 DEF FiniteSubsetsOf
  <2>2. PICK b \in B : \A c \in B : <<c, b>> \notin StrictSubsetOrdering(Jobs)
    <3>. HIDE DEF B
    <3>. QED
      BY <2>1, FS_StrictSubsetOrderingWellFounded, WFMin
  <2>3. PICK m \in T : b = Below(m)
    OBVIOUS
  <2>4. ASSUME NEW k \in T, <<m, k>> \in later PROVE FALSE
    <3>1. Below(k) \subseteq Below(m) /\ k \in Below(m) /\ k \notin Below(k)
      BY <1>1, <2>3, <2>4 DEF StrictOrder
    <3>2. Below(k) \in B /\ Below(k) \in SUBSET Jobs /\ Below(m) \in SUBSET Jobs
      BY <1>1, <2>4
    <3>. HIDE DEF T, Below, B
    <3>3. <<Below(k), Below(m)>> \in StrictSubsetOrdering(Jobs)
      BY <3>1, <3>2 DEF StrictSubsetOrdering
    <3>. QED
      BY <2>2, <2>3, <3>2, <3>3
  <2>5. T \ {m} \subseteq Over(m)
    BY <1>1, <2>3, <2>4 DEF Stamped
  <2>6. Over(m) \subseteq Jobs /\ Cardinality(Over(m)) < n
    BY <2>3 DEF RecentRecords
  <2>. HIDE DEF T, Over
  <2>7. /\ Cardinality(Over(m)) \in Nat /\ Cardinality(T \ {m}) \in Nat
        /\ Cardinality(T \ {m}) <= Cardinality(Over(m))
    BY <2>5, <2>6, Finite
  <2>8. Cardinality(T \ {m}) = Cardinality(T) - 1
    BY <1>1, <2>3, FS_RemoveElement
  <2>. QED
    BY <1>1, <2>6, <2>7, <2>8
<1>. QED
  BY <1>2, <1>3

\* Every step keeps StampInv: handlers and finish_job stamp before they keep.
LEMMA StampStep == IInv /\ ServedByOneWorker /\ RecordInv /\ StampInv /\ [Next]_vars => StampInv'
<1>. SUFFICES ASSUME IInv, ServedByOneWorker, RecordInv, StampInv, [Next]_vars PROVE StampInv'
  OBVIOUS
<1>. USE DEF IInv, TypeOK, StoreTypeOK, RecordInv, StampInv
<1>1. ASSUME later' = later, \A j \in Jobs : Kept(j)' => Kept(j) PROVE StampInv'
  BY <1>1 DEF StrictOrder, Stamped
<1>2. ASSUME NEW i \in Jobs, Touch(i), \A j \in Jobs : j # i => (Kept(j)' => Kept(j)) PROVE StampInv'
  BY <1>2, TouchOrders
<1>3. ASSUME NEW i \in Jobs, Submission(i) PROVE StampInv'
  <2>1. \A j \in Jobs : j # i => (Kept(j)' => Kept(j))
    BY <1>3, OpenSubmission DEF Kept
  <2>2. CASE Touch(i)
    BY <1>2, <2>1, <2>2
  <2>3. CASE ~Touch(i)
    <3>1. later' = later
      BY <1>3, <2>3 DEF Submission, Admit, RejectInput, BuildRecord, SaveImage, SaveImageFails,
         CheckFull, InsertRecord, AppendSubmission, AppendSubmissionFails, Enqueue,
         EnqueueFails, RemoveUnqueued, PersistUnqueued, PersistUnqueuedFails, CancelRequest, storeVars
    <3>2. Kept(i)' => Kept(i)
      <4>1. CASE Admit(i) \/ RejectInput(i)
        BY <4>1 DEF Admit, RejectInput, Handle, storeVars, Kept, InFlight
      <4>2. CASE CancelRequest(i)
        BY <4>2 DEF CancelRequest, Handle, storeVars, Kept, InFlight
      <4>3. CASE handler[i] \in InFlight \ {"admitted"}
        BY <4>3 DEF Kept
      <4>. QED
        BY <1>3, <2>3, <4>1, <4>2, <4>3 DEF Submission, BuildRecord, SaveImage, SaveImageFails,
           CheckFull, InsertRecord, AppendSubmission, AppendSubmissionFails, Enqueue,
           EnqueueFails, RemoveUnqueued, PersistUnqueued, PersistUnqueuedFails, Handle, InFlight
    <3>. QED
      BY <1>1, <2>1, <3>1, <3>2
  <2>. QED
    BY <2>2, <2>3
<1>4. ASSUME NEW w \in Workers, Work(w) PROVE StampInv'
  <2>1. UNCHANGED <<handler, submissions>>
    BY <1>4, OthersUnmoved
  <2>2. task[w] \in Jobs => Kept(task[w])
    BY DEF WorkAgrees, WorkAgreesOf, Kept
  <2>3. CASE StartJob(w) \/ UpdateRecord(w)
    <3>1. /\ task[w] \in Jobs /\ results' = results
          /\ \A j \in Jobs : j # task[w] => jobs'[j] = jobs[j]
          /\ Touch(task[w]) \/ UNCHANGED <<later, jobs>>
      BY <2>3, FinishingWorker DEF StartJob, SpawnInference, UpdateRecord, SetStatus, At,
         WorkersConsistent
    <3>2. \A j \in Jobs : j # task[w] => (Kept(j)' => Kept(j))
      BY <2>1, <3>1 DEF Kept
    <3>3. CASE Touch(task[w])
      BY <1>2, <3>1, <3>2, <3>3
    <3>4. CASE UNCHANGED <<later, jobs>>
      <4>1. \A j \in Jobs : Kept(j)' => Kept(j)
        BY <2>2, <3>1, <3>2
      <4>. QED
        BY <1>1, <3>4, <4>1
    <3>. QED
      BY <3>1, <3>3, <3>4
  <2>4. CASE AppendResult(w) \/ AppendResultFails(w)
    <3>1. /\ task[w] \in Jobs /\ UNCHANGED <<later, jobs>>
          /\ \A j \in Jobs : j # task[w] => results'[j] = results[j]
      BY <2>4, FinishingWorker DEF AppendResult, AppendResultFails, AppendResultLine, At
    <3>2. \A j \in Jobs : Kept(j)' => Kept(j)
      BY <2>1, <2>2, <3>1 DEF Kept
    <3>. QED
      BY <1>1, <3>1, <3>2
  <2>5. CASE UNCHANGED <<later, results>> /\ \A j \in Jobs : jobs'[j] \in {jobs[j], "absent"}
    BY <1>1, <2>1, <2>5 DEF Kept
  <2>. QED
    BY <1>4, <2>3, <2>4, <2>5 DEF Work, LoadModel, LoadModelFails, ReceiveJob, InferenceSucceeds,
       InferenceErrs, InferenceCrashes, InferenceExpires, EnterFinish, UpdateMissing,
       SendWebhook, Cleanup, CleanupFails, Retain, RetainRecentJobs, storeVars
<1>5. ASSUME Process PROVE StampInv'
  <2>1. CASE Load
    <3>1. /\ UNCHANGED <<handler, later, submissions, results>>
          /\ \A j \in Jobs : OffDisk(j) => jobs'[j] = "absent"
      BY <2>1 DEF Load, LoadRecords, StatusOnDisk, OffDisk, Pending, requestVars
    <3>. QED
      BY <1>1, <3>1 DEF Kept, OffDisk
  <2>2. ASSUME NEW i \in Jobs, Recover(i) PROVE StampInv'
    <3>1. Touch(i) /\ UNCHANGED <<jobs, handler, submissions>>
          /\ \A j \in Jobs : j # i => results'[j] = results[j]
      BY <2>2 DEF Recover, AppendRecovered, AppendResultLine, requestVars
    <3>. QED
      BY <1>2, <3>1 DEF Kept
  <2>3. CASE CompactFirst
    <3>1. /\ UNCHANGED <<handler, later, jobs, results>>
          /\ \A j \in submissions' : j \in submissions \/ jobs[j] # "absent"
      BY <2>3 DEF CompactFirst, CompactSubmissions, CompactedRecords, RecentRecords, Present, requestVars
    <3>. QED
      BY <1>1, <3>1 DEF Kept
  <2>4. CASE CompactSecond
    <3>1. /\ UNCHANGED <<handler, later, jobs, submissions>>
          /\ \A j \in Jobs : results'[j] # <<>> => results[j] # <<>> \/ jobs[j] # "absent"
      BY <2>4 DEF CompactSecond, CompactResults, Terminal, requestVars
    <3>. QED
      BY <1>1, <3>1 DEF Kept
  <2>5. CASE Serve \/ Crash
    <3>1. /\ UNCHANGED <<later, results, submissions>>
          /\ \A j \in Jobs : jobs'[j] \in {jobs[j], "absent"} /\ handler'[j] \in {handler[j], "abandoned"}
      BY <2>5 DEF Serve, Crash, RetainRecentJobs, StoreStops, requestVars
    <3>. QED
      BY <1>1, <3>1 DEF Kept, InFlight
  <2>. QED
    BY <1>5, <2>1, <2>2, <2>3, <2>4, <2>5 DEF Process
<1>6. CASE UNCHANGED vars
  BY <1>1, <1>6 DEF vars, storeVars, requestVars, Kept
<1>. QED
  BY <1>3, <1>4, <1>5, <1>6 DEF Next

\* What recent_records sorts by is a total order on the records there are, in
\* any interleaving of handlers, workers and load_jobs (store.rs, util.rs).
THEOREM StampInvariance == Spec => []StampInv
<1>1. Init => StampInv
  BY DEF Init, StoreInit, StampInv, StrictOrder, Kept, InFlight
<1>2. IInv /\ ServedByOneWorker /\ RecordInv /\ StampInv /\ [Next]_vars => StampInv'
  BY StampStep
<1>. QED
  BY <1>1, <1>2, ServerInvariance, ServedByOneWorkerCorrect, RecordInvariance, PTL DEF Spec, SafetySpec

\* After retain_recent_jobs at most JobRetentionLimit records are left.
LEMMA RetainBound ==
    ASSUME IInv, StampInv, RetainRecentJobs
    PROVE  \A S \in SUBSET Present' : Cardinality(S) <= JobRetentionLimit
<1>. TAKE S \in SUBSET Present'
<1>1. Present \subseteq Jobs /\ \A j \in Present : Stamped(j)
  BY DEF Present, StampInv, Kept
<1>2. Cardinality(RecentRecords(Present, JobRetentionLimit)) <= JobRetentionLimit
  BY <1>1, RecentRecordsBound, RetentionAssumption DEF StampInv
<1>3. S \subseteq RecentRecords(Present, JobRetentionLimit)
      /\ RecentRecords(Present, JobRetentionLimit) \subseteq Jobs
  BY DEF RetainRecentJobs, Present, RecentRecords
<1>4. /\ Cardinality(S) \in Nat /\ Cardinality(RecentRecords(Present, JobRetentionLimit)) \in Nat
      /\ Cardinality(S) <= Cardinality(RecentRecords(Present, JobRetentionLimit))
  BY <1>3, Finite
<1>. QED
  BY <1>2, <1>4, RetentionAssumption

\* The records FinishedRecordsBounded counts.
Settling == {j \in Jobs : jobs[j] \in Terminal /\ ~Held(j)}

\* Only Serve and Retain let a finished record join those counted, and both
\* end with retain_recent_jobs.
LEMMA BoundStep ==
    IInv /\ ServedByOneWorker /\ StampInv /\ FinishedRecordsBounded /\ [Next]_vars => FinishedRecordsBounded'
<1>. SUFFICES ASSUME IInv, ServedByOneWorker, StampInv, FinishedRecordsBounded, [Next]_vars,
                     phase' = "serving"
              PROVE  Cardinality(Settling') <= JobRetentionLimit
  BY DEF FinishedRecordsBounded, Settling
<1>. USE DEF IInv, TypeOK, StoreTypeOK
<1>1. ASSUME phase = "serving", Settling' \subseteq Settling
      PROVE  Cardinality(Settling') <= JobRetentionLimit
  <2>1. Cardinality(Settling) <= JobRetentionLimit
    BY <1>1 DEF FinishedRecordsBounded, Settling
  <2>2. Settling \subseteq Jobs
    BY DEF Settling
  <2>3. /\ Cardinality(Settling) \in Nat /\ Cardinality(Settling') \in Nat
        /\ Cardinality(Settling') <= Cardinality(Settling)
    BY <1>1, <2>2, Finite
  <2>. QED
    BY <2>1, <2>3, RetentionAssumption
<1>2. ASSUME RetainRecentJobs PROVE Cardinality(Settling') <= JobRetentionLimit
  <2>1. Settling' \subseteq Present'
    BY DEF Settling, Present, Terminal
  <2>. QED
    BY <1>2, <2>1, RetainBound
<1>3. ASSUME NEW i \in Jobs, Submission(i) PROVE Cardinality(Settling') <= JobRetentionLimit
  <2>1. phase = "serving" /\ task' = task
    BY <1>3, OpenSubmission DEF workVars, processVars
  <2>2. \A j \in Jobs : jobs'[j] \in Terminal => jobs[j] \in Terminal
    BY <1>3 DEF Submission, Admit, RejectInput, BuildRecord, SaveImage, SaveImageFails,
       CheckFull, InsertRecord, AppendSubmission, AppendSubmissionFails, Enqueue,
       EnqueueFails, RemoveUnqueued, PersistUnqueued, PersistUnqueuedFails, CancelRequest,
       SetStatus, Terminal, storeVars
  <2>. QED
    BY <1>1, <2>1, <2>2 DEF Settling, Held, HeldBy
<1>4. ASSUME NEW w \in Workers, Work(w) PROVE Cardinality(Settling') <= JobRetentionLimit
  <2>1. phase = "serving" /\ \A v \in Workers : v # w => task'[v] = task[v]
    BY <1>4, OthersUnmoved
  <2>2. CASE Retain(w)
    BY <1>2, <2>2 DEF Retain
  <2>3. CASE UpdateMissing(w)
    <3>1. jobs' = jobs /\ (task[w] \in Jobs => jobs[task[w]] = "absent")
      BY <2>3 DEF UpdateMissing, Present, storeVars
    <3>. QED
      BY <1>1, <2>1, <3>1 DEF Settling, Held, HeldBy, Terminal
  <2>4. CASE StartJob(w) \/ UpdateRecord(w)
    <3>1. /\ task' = task /\ task[w] \in Jobs
          /\ \A j \in Jobs : j # task[w] => jobs'[j] = jobs[j]
      BY <2>4, FinishingWorker DEF StartJob, SpawnInference, UpdateRecord, SetStatus, At,
         WorkersConsistent, workVars
    <3>. QED
      BY <1>1, <2>1, <3>1 DEF Settling, Held, HeldBy
  <2>5. CASE ReceiveJob(w)
    <3>1. jobs' = jobs /\ task[w] \notin Jobs
      BY <2>5 DEF ReceiveJob, Receive, WorkersConsistent, storeVars
    <3>. QED
      BY <1>1, <2>1, <3>1 DEF Settling, Held, HeldBy
  <2>6. CASE UNCHANGED <<jobs, task>>
    BY <1>1, <2>1, <2>6 DEF Settling, Held, HeldBy
  <2>. QED
    BY <1>4, <2>2, <2>3, <2>4, <2>5, <2>6 DEF Work, LoadModel, LoadModelFails, InferenceSucceeds,
       InferenceErrs, InferenceCrashes, InferenceExpires, EnterFinish, AppendResult, AppendResultFails,
       SendWebhook, Cleanup, CleanupFails, storeVars, workVars
<1>5. ASSUME Process PROVE Cardinality(Settling') <= JobRetentionLimit
  BY <1>1, <1>2, <1>5 DEF Process, Load, Recover, CompactFirst, CompactSecond, Serve, Crash, EnterPhase,
     processVars
<1>6. CASE UNCHANGED vars
  BY <1>1, <1>6 DEF vars, storeVars, workVars, processVars, Settling, Held, HeldBy
<1>. QED
  BY <1>3, <1>4, <1>5, <1>6 DEF Next

\* While the server serves, the finished records in memory that no worker is
\* still busy with are at most JobRetentionLimit, for any limit and load.
THEOREM FinishedRecordsBoundedCorrect == Spec => []FinishedRecordsBounded
<1>1. Init => FinishedRecordsBounded
  BY DEF Init, FinishedRecordsBounded
<1>2. IInv /\ ServedByOneWorker /\ StampInv /\ FinishedRecordsBounded /\ [Next]_vars
        => FinishedRecordsBounded'
  BY BoundStep
<1>. QED
  BY <1>1, <1>2, ServerInvariance, ServedByOneWorkerCorrect, StampInvariance, PTL DEF Spec, SafetySpec

-----------------------------------------------------------------------------
(* finish_job settles what it owes.                                        *)

\* Retention may have dropped the record of j: that many others were stamped
\* after it.
Forgotten(j) == Cardinality(Above(j)) >= JobRetentionLimit

\* The jobs whose finish_job has not begun to settle them yet.
Awaiting(j) == \/ handler[j] \in {"inserted", "persisted"}
               \/ j \in QueuedJobs
               \/ \E w \in Workers : task[w] = j /\ ~Past(w)

\* What finish_job has settled by the time it is at a step.
SettledBy(w) ==
    /\ finish[w] \in {"cleanup", "retain"} /\ task[w] \in Hooked => posted[task[w]] # <<>>
    /\ finish[w] = "retain" /\ task[w] \in Uploads => task[w] \notin images

\* The inductive invariant: as long as a job awaits its finish_job, its record is
\* there or retention could have dropped it.
SettleInv ==
    crashes = 0 =>
        /\ phase # "serving" => \A j \in Jobs : handler[j] = "new"
        /\ \A j \in Jobs : Awaiting(j) => jobs[j] # "absent" \/ Forgotten(j)
        /\ \A w \in Workers : task[w] \in Jobs => SettledBy(w)
        /\ \A j \in Jobs : Left(j) => Settled(j) \/ Forgotten(j)

\* As long as the process has not stopped, a job that left its worker is settled,
\* or at least JobRetentionLimit records were stamped after its own.
SettledOrForgotten ==
    crashes = 0 => \A j \in Jobs : Left(j) => Settled(j) \/ Forgotten(j)

\* What was stamped after j stays so, and so does its being forgotten.
LEMMA StaysForgotten ==
    ASSUME NEW j \in Jobs, Forgotten(j), Above(j) \subseteq Above(j)'
    PROVE  Forgotten(j)'
<1>1. Above(j) \subseteq Jobs /\ Above(j)' \subseteq Jobs
  BY DEF Above
<1>2. Cardinality(Above(j)) \in Nat /\ Cardinality(Above(j)') \in Nat
      /\ Cardinality(Above(j)) <= Cardinality(Above(j)')
  BY <1>1, Finite
<1>. QED
  BY <1>2, RetentionAssumption DEF Forgotten

\* retain_recent_jobs drops only what it had enough younger records for.
LEMMA DroppedIsForgotten ==
    ASSUME NEW j \in Jobs, RetainRecentJobs, later' = later, jobs[j] # "absent", jobs'[j] = "absent"
    PROVE  Forgotten(j)'
<1>. DEFINE A == {k \in Present : <<k, j>> \in later}
<1>1. ~(Cardinality(A) < JobRetentionLimit)
  BY DEF RetainRecentJobs, RecentRecords, Present
<1>2. A \subseteq Above(j) /\ Above(j) \subseteq Jobs
  BY DEF Above, Present
<1>. HIDE DEF A
<1>3. Cardinality(A) \in Nat /\ Cardinality(Above(j)) \in Nat /\ Cardinality(A) <= Cardinality(Above(j))
  BY <1>2, Finite
<1>4. Forgotten(j)
  BY <1>1, <1>3, RetentionAssumption DEF Forgotten
<1>. QED
  BY <1>4 DEF Forgotten, Above

\* A job that awaits its finish_job is not dropped otherwise, and not stamped
\* again once it was dropped.
LEMMA KeptOrForgotten ==
    ASSUME IInv, RecordInv, NEW j \in Jobs, phase = "serving",
           handler[j] \in {"inserted", "persisted", "accepted"},
           jobs[j] # "absent" \/ Forgotten(j),
           (\E i \in Jobs : Submission(i)) \/ (\E w \in Workers : Work(w))
    PROVE  jobs'[j] # "absent" \/ Forgotten(j)'
<1>1. CASE jobs[j] = "absent"
  <2>1. Next /\ j \notin recovering
    BY DEF Next, RecordInv, Quiet
  <2>2. Above(j) \subseteq Above(j)'
    BY <1>1, <2>1, OnlyOwnStamp
  <2>. QED
    BY <1>1, <2>2, StaysForgotten
<1>2. CASE jobs[j] # "absent"
  <2>. USE DEF IInv, TypeOK, StoreTypeOK
  <2>1. ASSUME NEW i \in Jobs, Submission(i) PROVE jobs'[j] # "absent"
    BY <1>2, <2>1 DEF Submission, Admit, RejectInput, BuildRecord, SaveImage, SaveImageFails,
       CheckFull, InsertRecord, AppendSubmission, AppendSubmissionFails, Enqueue,
       EnqueueFails, RemoveUnqueued, PersistUnqueued, PersistUnqueuedFails, CancelRequest,
       Handle, SetStatus, storeVars
  <2>2. ASSUME NEW w \in Workers, Work(w) PROVE jobs'[j] # "absent" \/ Forgotten(j)'
    <3>1. CASE Retain(w)
      BY <1>2, <3>1, DroppedIsForgotten DEF Retain
    <3>2. CASE StartJob(w) \/ UpdateRecord(w)
      <4>1. UpdateRecord(w) => outcome[w] \in Terminal
        BY FinishingWorker DEF UpdateRecord, At
      <4>. QED
        BY <1>2, <3>2, <4>1 DEF StartJob, UpdateRecord, SetStatus, Terminal
    <3>3. CASE UNCHANGED jobs
      BY <1>2, <3>3
    <3>. QED
      BY <2>2, <3>1, <3>2, <3>3 DEF Work, LoadModel, LoadModelFails, ReceiveJob, InferenceSucceeds,
         InferenceErrs, InferenceCrashes, InferenceExpires, EnterFinish, UpdateMissing, AppendResult,
         AppendResultFails, SendWebhook, Cleanup, CleanupFails, storeVars
  <2>. QED
    BY <2>1, <2>2
<1>. QED
  BY <1>1, <1>2

\* Submissions keep SettleInv.
LEMMA SettleSubmission ==
    ASSUME IInv, ServedByOneWorker, RecordInv, SettleInv, NEW i \in Jobs, Submission(i), crashes = 0
    PROVE  SettleInv'
<1>1. /\ handler[i] \in {"new"} \cup InFlight /\ phase = "serving"
      /\ UNCHANGED <<poolVars, workVars, processVars, recovering>>
      /\ \A j \in Jobs : j # i => handler'[j] = handler[j] /\ jobs'[j] = jobs[j]
  <2>1. phase = "serving"
    BY DEF Submission, Admit, RejectInput, BuildRecord, SaveImage, SaveImageFails,
       CheckFull, InsertRecord, AppendSubmission, AppendSubmissionFails, Enqueue,
       EnqueueFails, RemoveUnqueued, PersistUnqueued, PersistUnqueuedFails, CancelRequest, Handle
  <2>. QED
    BY <2>1, OpenSubmission
<1>2. i \notin QueuedJobs /\ \A w \in Workers : task[w] # i
  BY <1>1 DEF ServedByOneWorker, Held, HeldBy, InFlight
<1>3. /\ QueuedJobs \subseteq QueuedJobs' /\ QueuedJobs' \subseteq QueuedJobs \cup {i}
      /\ handler'[i] = "accepted" => i \in QueuedJobs'
  <2>. USE DEF IInv, TypeOK
  <2>1. CASE Enqueue(i)
    BY <2>1, EnqueuedJobs DEF Enqueue
  <2>2. CASE ~Enqueue(i)
    BY <2>2 DEF Submission, Admit, RejectInput, BuildRecord, SaveImage, SaveImageFails,
       CheckFull, InsertRecord, AppendSubmission, AppendSubmissionFails,
       EnqueueFails, RemoveUnqueued, PersistUnqueued, PersistUnqueuedFails, CancelRequest, Handle, QueuedJobs
  <2>. QED
    BY <2>1, <2>2
<1>4. images' \subseteq images \cup {i}
  BY DEF Submission, Admit, RejectInput, BuildRecord, SaveImage, SaveImageFails,
     CheckFull, InsertRecord, AppendSubmission, AppendSubmissionFails, Enqueue,
     EnqueueFails, RemoveUnqueued, PersistUnqueued, PersistUnqueuedFails, CancelRequest
<1>5. ASSUME Awaiting(i)', ~InsertRecord(i) PROVE Awaiting(i)
  <2>1. handler'[i] \in {"inserted", "persisted"} => handler[i] \in {"inserted", "persisted"}
    BY <1>5 DEF Submission, Admit, RejectInput, BuildRecord, SaveImage, SaveImageFails,
       CheckFull, AppendSubmission, AppendSubmissionFails, Enqueue,
       EnqueueFails, RemoveUnqueued, PersistUnqueued, PersistUnqueuedFails, CancelRequest, Handle,
       IInv, TypeOK
  <2>2. CASE Enqueue(i)
    BY <2>2 DEF Enqueue, Handle, Awaiting
  <2>3. CASE ~Enqueue(i)
    <3>1. QueuedJobs' = QueuedJobs
      BY <2>3 DEF Submission, Admit, RejectInput, BuildRecord, SaveImage, SaveImageFails,
         CheckFull, InsertRecord, AppendSubmission, AppendSubmissionFails,
         EnqueueFails, RemoveUnqueued, PersistUnqueued, PersistUnqueuedFails, CancelRequest, QueuedJobs
    <3>. QED
      BY <1>1, <1>5, <2>1, <3>1 DEF Awaiting, Past, workVars
  <2>. QED
    BY <2>2, <2>3
<1>6. ASSUME NEW j \in Jobs, Awaiting(j)' PROVE jobs'[j] # "absent" \/ Forgotten(j)'
  <2>1. CASE j = i /\ InsertRecord(i)
    BY <2>1 DEF InsertRecord, SetStatus, IInv, TypeOK, StoreTypeOK
  <2>2. CASE ~(j = i /\ InsertRecord(i))
    <3>1. Awaiting(j)
      BY <1>1, <1>3, <1>5, <1>6, <2>2 DEF Awaiting, Past, workVars
    <3>2. handler[j] \in {"inserted", "persisted", "accepted"}
      BY <3>1 DEF Awaiting, ServedByOneWorker, Held, HeldBy
    <3>3. jobs[j] # "absent" \/ Forgotten(j)
      BY <3>1 DEF SettleInv
    <3>. QED
      BY <1>1, <3>2, <3>3, KeptOrForgotten
  <2>. QED
    BY <2>1, <2>2
<1>7. ASSUME NEW w \in Workers, task'[w] \in Jobs PROVE SettledBy(w)'
  BY <1>1, <1>2, <1>4, <1>7 DEF SettleInv, SettledBy, workVars
<1>8. ASSUME NEW j \in Jobs, Left(j)' PROVE Settled(j)' \/ Forgotten(j)'
  <2>1. j # i /\ Left(j)
    BY <1>1, <1>3, <1>8 DEF Left, Held, HeldBy, workVars
  <2>2. CASE Settled(j)
    BY <1>1, <1>4, <2>1, <2>2 DEF Settled, workVars
  <2>3. CASE Forgotten(j)
    <3>1. /\ handler[j] = "accepted" /\ j \notin recovering
          /\ \A w \in Workers : task[w] # j
      BY <1>1, <2>1 DEF Left, Held, HeldBy, RecordInv, Quiet
    <3>2. Above(j) \subseteq Above(j)'
      BY <3>1, OnlyOwnStamp DEF Next
    <3>. QED
      BY <2>3, <3>2, StaysForgotten
  <2>. QED
    BY <2>1, <2>2, <2>3 DEF SettleInv
<1>. QED
  BY <1>1, <1>6, <1>7, <1>8 DEF SettleInv, processVars

\* Workers keep SettleInv: only UpdateMissing lets a job go unsettled.
LEMMA SettleWork ==
    ASSUME "fs" \notin Faults, IInv, ServedByOneWorker, RecordInv, SettleInv,
           NEW w \in Workers, Work(w), crashes = 0
    PROVE  SettleInv'
<1>1. /\ UNCHANGED <<handler, phase, recovering, submissions>> /\ phase = "serving"
      /\ \A v \in Workers : v # w => /\ task'[v] = task[v] /\ wstate'[v] = wstate[v]
                                     /\ finish'[v] = finish[v] /\ outcome'[v] = outcome[v]
  BY OthersUnmoved
<1>2. crashes' = crashes
  BY DEF Work, LoadModel, LoadModelFails, ReceiveJob, StartJob, InferenceSucceeds,
     InferenceErrs, InferenceCrashes, InferenceExpires, EnterFinish, UpdateRecord, UpdateMissing,
     AppendResult, AppendResultFails, SendWebhook, Cleanup, CleanupFails, Retain, processVars
<1>3. CASE ReceiveJob(w)
  <2>1. /\ QueuedJobs = QueuedJobs' \cup {Head(queue)} /\ task'[w] = Head(queue)
        /\ task[w] \notin Jobs /\ UNCHANGED <<finish, posted, images, jobs, later>> /\ finish[w] = "none"
    BY <1>3, ReceivedJobs DEF ReceiveJob, Receive, WorkersConsistent, storeVars, IInv, TypeOK
  <2>2. ASSUME NEW j \in Jobs, Awaiting(j)' PROVE Awaiting(j)
    BY <1>1, <2>1, <2>2 DEF Awaiting, Past
  <2>3. ASSUME NEW j \in Jobs, Left(j)' PROVE Left(j)
    BY <1>1, <2>1, <2>3 DEF Left, Held, HeldBy
  <2>. QED
    BY <1>1, <1>2, <2>1, <2>2, <2>3 DEF SettleInv, SettledBy, Settled, Forgotten, Above
<1>4. CASE ~ReceiveJob(w)
  <2>1. QueuedJobs' = QueuedJobs
    BY <1>4 DEF Work, LoadModel, LoadModelFails, StartJob, InferenceSucceeds,
       InferenceErrs, InferenceCrashes, InferenceExpires, EnterFinish, UpdateRecord, UpdateMissing,
       AppendResult, AppendResultFails, SendWebhook, Cleanup, CleanupFails, Retain,
       requestVars, QueuedJobs
  <2>2. /\ task'[w] \in Jobs => task'[w] = task[w]
        /\ task'[w] \in Jobs /\ Past(w) => Past(w)'
    BY <1>4, ServerAssumption DEF Work, LoadModel, LoadModelFails, StartJob, InferenceSucceeds,
       InferenceErrs, InferenceCrashes, InferenceExpires, InferenceReturns, InferencePanics,
       InferenceTimesOut, EnterFinish, UpdateRecord, UpdateMissing, SpawnInference,
       AppendResult, AppendResultFails, SendWebhook, Cleanup, CleanupFails, Retain, EndRequest,
       NextStep, At, Past, workVars, IInv, TypeOK, WorkersConsistent
  <2>3. ASSUME NEW j \in Jobs, Awaiting(j)' PROVE jobs'[j] # "absent" \/ Forgotten(j)'
    <3>1. Awaiting(j)
      BY <1>1, <2>1, <2>2, <2>3 DEF Awaiting, Past
    <3>2. handler[j] \in {"inserted", "persisted", "accepted"}
      BY <3>1 DEF Awaiting, ServedByOneWorker, Held, HeldBy
    <3>3. jobs[j] # "absent" \/ Forgotten(j)
      BY <3>1 DEF SettleInv
    <3>. QED
      BY <1>1, <3>2, <3>3, KeptOrForgotten
  <2>4. images' \subseteq images /\ \A j \in Jobs : posted[j] # <<>> => posted'[j] # <<>>
    <3>1. CASE SendWebhook(w)
      <4>1. task[w] \in Jobs /\ outcome[w] \in Terminal /\ posted[task[w]] \in Seq(Terminal)
        BY <3>1, FinishingWorker DEF SendWebhook, At, IInv, TypeOK
      <4>2. Append(posted[task[w]], outcome[w]) # <<>>
        BY <4>1, LineIsThere
      <4>. QED
        BY <3>1, <4>1, <4>2 DEF SendWebhook, requestVars, IInv, TypeOK
    <3>2. CASE images' \subseteq images /\ posted' = posted
      BY <3>2
    <3>. QED
      BY <3>1, <3>2 DEF Work, LoadModel, LoadModelFails, ReceiveJob, StartJob, InferenceSucceeds,
       InferenceErrs, InferenceCrashes, InferenceExpires, EnterFinish, UpdateRecord, UpdateMissing,
       AppendResult, AppendResultFails, Cleanup, CleanupFails, Retain, requestVars, workVars
  <2>5. ASSUME task'[w] \in Jobs PROVE SettledBy(w)'
    <3>1. task'[w] = task[w] /\ SettledBy(w)
      BY <2>2, <2>5 DEF SettleInv
    <3>2. CASE SendWebhook(w)
      <4>1. /\ outcome[w] \in Terminal /\ posted[task[w]] \in Seq(Terminal)
            /\ finish'[w] = "cleanup"
        BY <2>5, <3>1, <3>2, FinishingWorker DEF SendWebhook, NextStep, At, IInv, TypeOK
      <4>2. Append(posted[task[w]], outcome[w]) # <<>>
        BY <4>1, LineIsThere
      <4>. QED
        BY <2>5, <3>1, <3>2, <4>1, <4>2 DEF SendWebhook, SettledBy, IInv, TypeOK
    <3>3. CASE Cleanup(w)
      BY <3>1, <3>3 DEF Cleanup, NextStep, At, SettledBy, IInv, TypeOK
    <3>4. CASE ~SendWebhook(w) /\ ~Cleanup(w)
      <4>1. finish'[w] \in {"cleanup", "retain"} => finish'[w] = finish[w]
        BY <1>4, <3>4 DEF Work, LoadModel, LoadModelFails, StartJob, InferenceSucceeds,
           InferenceErrs, InferenceCrashes, InferenceExpires, EnterFinish, UpdateRecord, UpdateMissing,
           AppendResult, AppendResultFails, CleanupFails, Retain, EndRequest, NextStep,
           workVars, IInv, TypeOK
      <4>. QED
        BY <2>4, <2>5, <3>1, <4>1 DEF SettledBy
    <3>. QED
      BY <3>2, <3>3, <3>4
  <2>6. ASSUME NEW v \in Workers, v # w, task'[v] \in Jobs PROVE SettledBy(v)'
    BY <1>1, <2>4, <2>6 DEF SettleInv, SettledBy
  <2>7. ASSUME NEW j \in Jobs, Left(j)' PROVE Settled(j)' \/ Forgotten(j)'
    <3>1. CASE Left(j) /\ Settled(j)
      BY <2>4, <3>1 DEF Settled, Left
    <3>2. CASE Left(j) /\ Forgotten(j)
      <4>1. /\ handler[j] = "accepted" /\ j \notin recovering
            /\ \A v \in Workers : task[v] # j
        BY <1>1, <3>2 DEF Left, Held, HeldBy, RecordInv, Quiet
      <4>2. Above(j) \subseteq Above(j)'
        BY <4>1, OnlyOwnStamp DEF Next
      <4>. QED
        BY <3>2, <4>2, StaysForgotten
    <3>3. CASE ~Left(j)
      <4>1. task[w] = j /\ task'[w] # j
        BY <1>1, <2>1, <2>7, <3>3 DEF Left, Held, HeldBy
      <4>2. UpdateMissing(w) \/ Retain(w)
        BY <1>4, <4>1 DEF Work, LoadModel, LoadModelFails, StartJob, InferenceSucceeds,
           InferenceErrs, InferenceCrashes, InferenceExpires, EnterFinish, UpdateRecord,
           AppendResult, AppendResultFails, SendWebhook, Cleanup, CleanupFails, workVars
      <4>3. CASE UpdateMissing(w)
        <5>1. Awaiting(j) /\ jobs[j] = "absent" /\ later' = later
          BY <4>1, <4>3 DEF UpdateMissing, At, Awaiting, Past, Present, storeVars
        <5>. QED
          BY <5>1 DEF SettleInv, Forgotten, Above
      <4>4. CASE Retain(w)
        <5>1. SettledBy(w) /\ finish[w] = "retain"
          BY <4>1, <4>4 DEF Retain, At, SettleInv
        <5>. QED
          BY <2>4, <4>1, <5>1 DEF SettledBy, Settled
      <4>. QED
        BY <4>2, <4>3, <4>4
    <3>. QED
      BY <3>1, <3>2, <3>3 DEF SettleInv
  <2>. QED
    BY <1>1, <1>2, <2>3, <2>5, <2>6, <2>7 DEF SettleInv
<1>. QED
  BY <1>3, <1>4

\* Every step keeps SettleInv.
LEMMA SettleStep ==
    "fs" \notin Faults /\ IInv /\ ServedByOneWorker /\ RecordInv /\ SettleInv /\ [Next]_vars => SettleInv'
<1>. SUFFICES ASSUME "fs" \notin Faults, IInv, ServedByOneWorker, RecordInv, SettleInv, [Next]_vars,
                     crashes' = 0
              PROVE  SettleInv'
  BY DEF SettleInv
<1>1. ASSUME NEW i \in Jobs, Submission(i) PROVE SettleInv'
  BY <1>1, OpenSubmission, SettleSubmission DEF processVars
<1>2. ASSUME NEW w \in Workers, Work(w) PROVE SettleInv'
  <2>1. crashes' = crashes
    BY <1>2 DEF Work, LoadModel, LoadModelFails, ReceiveJob, StartJob, InferenceSucceeds,
       InferenceErrs, InferenceCrashes, InferenceExpires, EnterFinish, UpdateRecord, UpdateMissing,
       AppendResult, AppendResultFails, SendWebhook, Cleanup, CleanupFails, Retain, processVars
  <2>. QED
    BY <1>2, <2>1, SettleWork
<1>3. ASSUME Process PROVE SettleInv'
  <2>1. ~Crash
    BY ServerAssumption DEF Crash, IInv, TypeOK
  <2>2. phase # "serving" /\ UNCHANGED <<crashes, requestVars, workVars>>
    BY <1>3, <2>1 DEF Process, Load, Recover, CompactFirst, CompactSecond, Serve, EnterPhase, processVars
  <2>3. /\ \A j \in Jobs : handler'[j] = "new" /\ j \notin QueuedJobs'
        /\ \A w \in Workers : task'[w] \notin Jobs
    <3>1. QueuedJobs' = {}
      BY <2>2 DEF RecordInv, Quiet, QueuedJobs, requestVars
    <3>. QED
      BY <2>2, <3>1, ServerAssumption DEF SettleInv, RecordInv, Quiet, requestVars, workVars
  <2>. QED
    BY <2>3 DEF SettleInv, Awaiting, Left
<1>4. CASE UNCHANGED vars
  BY <1>4 DEF vars, poolVars, storeVars, requestVars, workVars, processVars, SettleInv, Awaiting, Past,
     SettledBy, Left, Settled, Held, HeldBy, Forgotten, Above, QueuedJobs
<1>. QED
  BY <1>1, <1>2, <1>3, <1>4 DEF Next

\* While file operations succeed and the process has not stopped, an accepted
\* job that left the queue and its worker has its image deleted and its webhook
\* sent, however its inference ended, unless retention could have dropped its
\* record in the meantime, which takes JobRetentionLimit younger ones.
THEOREM SettledOrForgottenCorrect == "fs" \notin Faults => (Spec => []SettledOrForgotten)
<1>. SUFFICES ASSUME "fs" \notin Faults PROVE Spec => []SettledOrForgotten
  OBVIOUS
<1>1. Init => SettleInv
  <2>. SUFFICES ASSUME Init PROVE SettleInv
    OBVIOUS
  <2>1. QueuedJobs = {} /\ \A w \in Workers : task[w] = NoJob
    BY DEF Init, QueuedJobs
  <2>. QED
    BY <2>1, ServerAssumption DEF Init, SettleInv, Awaiting, Left
<1>2. IInv /\ ServedByOneWorker /\ RecordInv /\ SettleInv /\ [Next]_vars => SettleInv'
  BY SettleStep
<1>3. SettleInv => SettledOrForgotten
  BY DEF SettleInv, SettledOrForgotten
<1>. QED
  BY <1>1, <1>2, <1>3, ServerInvariance, ServedByOneWorkerCorrect, RecordInvariance, PTL DEF Spec, SafetySpec

\* In particular, a server that retains every record settles every job.
THEOREM FinishedIsSettledCorrect ==
    "fs" \notin Faults /\ Cardinality(Jobs) <= JobRetentionLimit => (Spec => []FinishedIsSettled)
<1>. SUFFICES ASSUME "fs" \notin Faults, Cardinality(Jobs) <= JobRetentionLimit
              PROVE  Spec => []FinishedIsSettled
  OBVIOUS
<1>1. StampInv /\ SettledOrForgotten => FinishedIsSettled
  <2>. SUFFICES ASSUME StampInv, NEW j \in Jobs PROVE ~Forgotten(j)
    BY DEF SettledOrForgotten, FinishedIsSettled
  <2>1. Above(j) \in SUBSET Jobs /\ Above(j) # Jobs
    BY DEF Above, StampInv, StrictOrder
  <2>2. /\ Cardinality(Above(j)) \in Nat /\ Cardinality(Jobs) \in Nat
        /\ Cardinality(Above(j)) <= Cardinality(Jobs)
        /\ Cardinality(Above(j)) # Cardinality(Jobs)
    BY <2>1, Finite, JobsAssumption, FS_Subset
  <2>. QED
    BY <2>2, RetentionAssumption DEF Forgotten
<1>2. Spec => []SettledOrForgotten
  BY SettledOrForgottenCorrect
<1>. QED
  BY <1>1, <1>2, StampInvariance, PTL

-----------------------------------------------------------------------------
(* The refinement of JobLifecycle, step by step.                            *)

\* The invariants the refinement needs.
Inv == IInv /\ ServedByOneWorker /\ RecordInv

\* Where the final status s of j can be read off.
Says(j, s) ==
    \/ jobs[j] = s
    \/ \E w \in Workers : task[w] = j /\ Past(w) /\ outcome[w] = s
    \/ results[j] = <<s>>

\* What the lifecycle sees.
Up   == phase = "serving"
View == [j \in Jobs |-> IF phase = "serving" THEN jobs[j] ELSE "absent"]
Used == {j \in Jobs : handler[j] \notin Unposted}
Fate == [j \in Jobs |-> KnownFate(j)]

\* KnownFate is what every source of a final status says, in every order in
\* which they may be asked.
FateIsSaid ==
    \A j \in Jobs : /\ KnownFate(j) \in Terminal \cup {"open"}
                    /\ \A s \in Terminal : KnownFate(j) = s <=> Says(j, s)

\* The sources of a final status agree, so KnownFate is what any of them says.
LEMMA FateIsWhatIsSaid == Inv => FateIsSaid
<1>. SUFFICES ASSUME Inv, NEW j \in Jobs
              PROVE  /\ KnownFate(j) \in Terminal \cup {"open"}
                     /\ \A s \in Terminal : KnownFate(j) = s <=> Says(j, s)
  BY DEF FateIsSaid
<1>. USE DEF Inv
<1>1. /\ results[j] \in {<<>>, <<"succeeded">>, <<"failed">>}
      /\ jobs[j] \in Terminal /\ results[j] # <<>> => results[j] = <<jobs[j]>>
  BY DEF RecordInv, RecordsAgree
<1>2. ASSUME NEW w \in Workers, task[w] = j, Past(w)
      PROVE  /\ outcome[w] \in Terminal
             /\ jobs[j] \in {outcome[w], "absent"} /\ results[j] \in {<<>>, <<outcome[w]>>}
             /\ \A v \in Workers : task[v] = j => v = w
  <2>1. outcome[w] \in Terminal
    BY <1>2, FinishingWorker DEF Past
  <2>2. WorkAgreesOf(w) /\ \A v \in Workers : task[v] = j => v = w
    BY <1>2, HeldJob DEF RecordInv, WorkAgrees
  <2>. QED
    BY <1>2, <2>1, <2>2 DEF WorkAgreesOf
<1>3. \A a, b : <<a>> = <<b>> => a = b
  OBVIOUS
<1>4. \A s : <<s>> # <<>> /\ <<s>>[Len(<<s>>)] = s
  BY SingletonLine
<1>5. "absent" \notin Terminal /\ "open" \notin Terminal
  BY DEF Terminal
<1>6. CASE jobs[j] \in Terminal
  BY <1>1, <1>2, <1>3, <1>4, <1>5, <1>6 DEF KnownFate, Says
<1>7. CASE jobs[j] \notin Terminal /\ \E w \in Workers : task[w] = j /\ Past(w)
  <2>. DEFINE w == CHOOSE w \in Workers : task[w] = j /\ Past(w)
  <2>1. w \in Workers /\ task[w] = j /\ Past(w) /\ KnownFate(j) = outcome[w]
    BY <1>7 DEF KnownFate
  <2>. HIDE DEF w
  <2>. QED
    BY <1>2, <1>3, <1>4, <1>5, <1>7, <2>1 DEF Says
<1>8. CASE jobs[j] \notin Terminal /\ ~\E w \in Workers : task[w] = j /\ Past(w)
  <2>1. KnownFate(j) = IF results[j] # <<>> THEN results[j][Len(results[j])] ELSE "open"
    BY <1>8 DEF KnownFate
  <2>2. \A s \in Terminal : Says(j, s) <=> results[j] = <<s>>
    BY <1>8 DEF Says
  <2>3. CASE results[j] = <<>>
    BY <1>4, <1>5, <2>1, <2>2, <2>3
  <2>4. CASE results[j] # <<>>
    <3>1. PICK s \in Terminal : results[j] = <<s>>
      BY <1>1, <2>4 DEF Terminal
    <3>2. KnownFate(j) = s
      BY <1>4, <2>1, <2>4, <3>1
    <3>. QED
      BY <1>3, <2>2, <3>1, <3>2
  <2>. QED
    BY <2>3, <2>4
<1>. QED
  BY <1>6, <1>7, <1>8

\* The same after a step.
LEMMA FateAfter == Inv' => FateIsSaid'
  BY FateIsWhatIsSaid, PTL

\* A fate changes only with what is said of it.
LEMMA SameFate ==
    ASSUME Inv, Inv', NEW j \in Jobs, \A s \in Terminal : Says(j, s)' <=> Says(j, s)
    PROVE  KnownFate(j)' = KnownFate(j)
  BY FateIsWhatIsSaid, FateAfter DEF FateIsSaid

\* A source that is lost may leave a fate unknown, not another one.
LEMMA ForgottenFate ==
    ASSUME Inv, Inv', NEW j \in Jobs, \A s \in Terminal : Says(j, s)' => Says(j, s)
    PROVE  KnownFate(j)' \in {KnownFate(j), "open"}
  BY FateIsWhatIsSaid, FateAfter DEF FateIsSaid

\* SameFate for all jobs at once.
LEMMA SameFates ==
    ASSUME Inv, Inv', \A j \in Jobs : \A s \in Terminal : Says(j, s)' <=> Says(j, s)
    PROVE  Fate' = Fate
<1>1. \A j \in Jobs : KnownFate(j)' = KnownFate(j)
  BY SameFate
<1>. QED
  BY <1>1 DEF Fate

\* A step that changes nothing the mapping looks at is not seen.
LEMMA Stutters ==
    ASSUME UNCHANGED <<Up, View, Used, Fate>>
    PROVE  UNCHANGED Lifecycle!lifecycleVars
  BY DEF Up, View, Used, Fate, Lifecycle!lifecycleVars

\* What every step has to be.
Refines == [Lifecycle!LifecycleNext]_(Lifecycle!lifecycleVars)

\* A submission posts its record, wastes its id, withdraws the record or
\* condemns the withdrawn job; its other steps are not seen.
LEMMA SubmissionRefines ==
    ASSUME Inv, Inv', NEW i \in Jobs, Submission(i)
    PROVE  Refines
<1>. USE DEF Inv
<1>0. phase = "serving" /\ phase' = "serving" /\ handler \in [Jobs -> {"new"} \cup InFlight \cup Answered]
      /\ jobs \in [Jobs -> Pending \cup Terminal \cup {"absent"}]
      /\ results \in [Jobs -> Seq(Terminal)]
  BY DEF Submission, Admit, RejectInput, BuildRecord, SaveImage, SaveImageFails,
     CheckFull, InsertRecord, AppendSubmission, AppendSubmissionFails, Enqueue,
     EnqueueFails, RemoveUnqueued, PersistUnqueued, PersistUnqueuedFails, CancelRequest,
     Handle, IInv, TypeOK, StoreTypeOK, processVars
<1>1. UNCHANGED <<task, outcome, finish>>
  BY OpenSubmission DEF workVars
<1>2. CASE UNCHANGED <<jobs, results>>
  <2>1. Fate' = Fate
    BY <1>1, <1>2, SameFates DEF Says, Past
  <2>2. PICK t : handler' = [handler EXCEPT ![i] = t] /\ (t \in Unposted => handler[i] \in Unposted)
    BY <1>2 DEF Submission, Admit, RejectInput, BuildRecord, SaveImage, SaveImageFails,
       CheckFull, InsertRecord, AppendSubmission, AppendSubmissionFails, Enqueue,
       EnqueueFails, RemoveUnqueued, PersistUnqueued, PersistUnqueuedFails, CancelRequest,
       Handle, Unposted
  <2>3. CASE t \in Unposted \/ handler[i] \notin Unposted
    <3>1. Used' = Used
      BY <1>0, <2>2, <2>3 DEF Used
    <3>. QED
      BY <1>0, <1>2, <2>1, <3>1, Stutters DEF Up, View, Refines
  <2>4. CASE t \notin Unposted /\ handler[i] \in Unposted
    <3>1. Used' = Used \cup {i}
      BY <1>0, <2>2, <2>4 DEF Used
    <3>2. Lifecycle!Waste(i)
      BY <1>0, <1>2, <2>1, <3>1 DEF Lifecycle!Waste, Used, Fate
    <3>. QED
      BY <3>2 DEF Refines, Lifecycle!LifecycleNext
  <2>. QED
    BY <2>3, <2>4
<1>3. CASE InsertRecord(i)
  <2>1. /\ handler[i] = "checked" /\ handler' = [handler EXCEPT ![i] = "inserted"]
        /\ jobs' = [jobs EXCEPT ![i] = "queued"] /\ results' = results
    BY <1>3 DEF InsertRecord, Handle, SetStatus
  <2>2. jobs[i] = "absent"
    BY <2>1 DEF RecordInv, HandlersAgree, Unposted
  <2>3. Fate' = Fate
    BY <1>0, <1>1, <2>1, <2>2, SameFates DEF Says, Past, Terminal
  <2>4. i \notin Used /\ Used' = Used \cup {i}
    BY <1>0, <2>1 DEF Used, Unposted
  <2>5. View' = [View EXCEPT ![i] = "queued"]
    BY <1>0, <2>1 DEF View
  <2>6. Lifecycle!Post(i)
    BY <1>0, <2>3, <2>4, <2>5 DEF Lifecycle!Post, Used, Fate, View
  <2>. QED
    BY <2>6 DEF Refines, Lifecycle!LifecycleNext
<1>4. CASE RemoveUnqueued(i)
  <2>1. /\ handler[i] = "rollback" /\ handler' = [handler EXCEPT ![i] = "unrecorded"]
        /\ jobs' = [jobs EXCEPT ![i] = "absent"] /\ results' = results
    BY <1>4 DEF RemoveUnqueued, Handle, SetStatus
  <2>2. jobs[i] \in {"queued", "absent"}
    BY <2>1 DEF RecordInv, HandlersAgree
  <2>3. Fate' = Fate
    BY <1>0, <1>1, <2>1, <2>2, SameFates DEF Says, Past, Terminal
  <2>4. Used' = Used
    BY <1>0, <2>1 DEF Used, Unposted
  <2>5. View' = [j \in Jobs |-> IF j \in {i} THEN "absent" ELSE View[j]]
    BY <1>0, <2>1 DEF View
  <2>6. Lifecycle!Hide({i})
    BY <1>0, <2>3, <2>4, <2>5 DEF Lifecycle!Hide, Lifecycle!MayForgetFates, Used, Fate, View
  <2>. QED
    BY <2>6 DEF Refines, Lifecycle!LifecycleNext
<1>5. CASE PersistUnqueued(i) \/ PersistUnqueuedFails(i)
  <2>1. /\ handler[i] = "unrecorded" /\ jobs' = jobs
        /\ AppendResultLine(i, "failed") \/ results' = results
        /\ handler' = [handler EXCEPT ![i] = "refused"] \/ handler' = [handler EXCEPT ![i] = "abandoned"]
    BY <1>5 DEF PersistUnqueued, PersistUnqueuedFails, Handle
  <2>2. results[i] = <<>> /\ jobs[i] = "absent" /\ \A w \in Workers : task[w] # i
    BY <2>1 DEF RecordInv, HandlersAgree, InFlight, ServedByOneWorker, Held, HeldBy
  <2>3. CASE AppendResultLine(i, "failed")
    <3>1. results' = [results EXCEPT ![i] = <<"failed">>]
      BY <2>2, <2>3, OneResultLine DEF IInv, TypeOK
    <3>2. \A s \in Terminal : ~Says(i, s) /\ (Says(i, s)' <=> s = "failed")
      BY <1>0, <1>1, <2>1, <2>2, <3>1, SingletonLine DEF Says, Terminal
    <3>3. KnownFate(i) = "open" /\ KnownFate(i)' = "failed"
      BY <3>2, FateIsWhatIsSaid, FateAfter DEF FateIsSaid, Terminal
    <3>4. ASSUME NEW j \in Jobs, j # i PROVE KnownFate(j)' = KnownFate(j)
      BY <1>1, <2>1, <3>1, <3>4, SameFate DEF Says, Past
    <3>5. Fate' = [j \in Jobs |-> IF j \in {i} THEN "failed" ELSE Fate[j]]
      BY <3>3, <3>4 DEF Fate
    <3>6. Used' = Used /\ i \in Used
      BY <1>0, <2>1 DEF Used, Unposted
    <3>7. View' = View /\ View[i] = "absent"
      BY <1>0, <2>1, <2>2 DEF View
    <3>8. Fate[i] = "open"
      BY <3>3 DEF Fate
    <3>9. Lifecycle!Condemn({i})
      BY <1>0, <3>5, <3>6, <3>7, <3>8 DEF Lifecycle!Condemn, Used, Fate, View
    <3>. QED
      BY <3>9 DEF Refines, Lifecycle!LifecycleNext
  <2>. QED
    BY <1>2, <2>1, <2>3
<1>. QED
  BY <1>2, <1>3, <1>4, <1>5 DEF Submission, Admit, RejectInput, BuildRecord, SaveImage, SaveImageFails,
     CheckFull, AppendSubmission, AppendSubmissionFails, Enqueue, EnqueueFails, CancelRequest, storeVars

\* A step that changes neither records nor lines nor who has decided on what
\* leaves everything a client can see as it was.
LEMMA NothingSeen ==
    ASSUME Inv, Inv', UNCHANGED <<phase, jobs, handler>>,
           \A j \in Jobs : \A s \in Terminal : Says(j, s)' <=> Says(j, s)
    PROVE  Refines
<1>1. Fate' = Fate
  BY SameFates
<1>. QED
  BY <1>1, Stutters DEF Up, View, Used, Refines

\* A step that only takes records away, and with them perhaps what was known,
\* hides them.
LEMMA RecordsHidden ==
    ASSUME Inv, Inv', phase = "serving", UNCHANGED <<phase, handler>>,
           \A j \in Jobs : jobs'[j] \in {jobs[j], "absent"},
           \A j \in Jobs : \A s \in Terminal : Says(j, s)' => Says(j, s)
    PROVE  Refines
<1>0. PICK S \in SUBSET Jobs : S = {j \in Jobs : jobs'[j] # jobs[j]}
  OBVIOUS
<1>1. \A j \in Jobs : KnownFate(j)' \in {KnownFate(j), "open"}
  BY ForgottenFate
<1>2. View' = [j \in Jobs |-> IF j \in S THEN "absent" ELSE View[j]]
  BY <1>0 DEF View
<1>3. Lifecycle!Hide(S)
  BY <1>1, <1>2 DEF Lifecycle!Hide, Lifecycle!MayForgetFates, View, Used
<1>. QED
  BY <1>3 DEF Refines, Lifecycle!LifecycleNext

\* A worker begins, decides or hides; its other steps are not seen.
LEMMA WorkRefines ==
    ASSUME Inv, Inv', NEW w \in Workers, Work(w)
    PROVE  Refines
<1>. USE DEF Inv, IInv, TypeOK
<1>1. ASSUME wstate[w] # "finishing" PROVE finish[w] = "none" /\ ~Past(w)
  BY <1>1 DEF WorkersConsistent, Past
<1>2. ASSUME wstate[w] \in {"assigned", "inferring", "finishing"}
      PROVE  task[w] \in Jobs /\ WorkAgreesOf(w) /\ \A v \in Workers : task[v] = task[w] => v = w
  BY <1>2, HeldJob DEF WorkersConsistent, RecordInv, WorkAgrees
<1>3. ASSUME finish[w] # "none" PROVE wstate[w] = "finishing" /\ outcome[w] \in Terminal
  BY <1>3 DEF WorkersConsistent
<1>4. CASE LoadModel(w) \/ LoadModelFails(w)
  BY <1>4, NothingSeen DEF LoadModel, LoadModelFails, storeVars, requestVars, workVars, processVars, Says, Past
<1>5. CASE ReceiveJob(w)
  <2>1. /\ UNCHANGED <<phase, jobs, results, handler, outcome, finish>>
        /\ wstate[w] = "idle" /\ \A v \in Workers : v # w => task'[v] = task[v]
    BY <1>5 DEF ReceiveJob, Receive, storeVars, processVars
  <2>2. \A v \in Workers : Past(v)' <=> Past(v)
    BY <2>1 DEF Past
  <2>3. \A j \in Jobs : \A s \in Terminal : Says(j, s)' <=> Says(j, s)
    BY <1>1, <2>1, <2>2 DEF Says
  <2>. QED
    BY <2>1, <2>3, NothingSeen
<1>6. CASE StartJob(w)
  <2>1. /\ UNCHANGED <<phase, results, handler, task, outcome, finish>>
        /\ phase = "serving" /\ wstate[w] = "assigned"
        /\ jobs' = IF task[w] \in Present THEN [jobs EXCEPT ![task[w]] = "running"] ELSE jobs
    BY <1>6 DEF StartJob, SpawnInference, SetStatus, requestVars, workVars, processVars
  <2>2. task[w] \in Jobs /\ jobs[task[w]] \in {"queued", "absent"}
    BY <1>2, <2>1 DEF WorkAgreesOf
  <2>3. \A j \in Jobs : \A s \in Terminal : Says(j, s)' <=> Says(j, s)
    BY <2>1, <2>2 DEF Says, Past, Present, StoreTypeOK, Terminal
  <2>4. CASE task[w] \notin Present
    BY <2>1, <2>3, <2>4, NothingSeen
  <2>5. CASE task[w] \in Present
    <3>1. View' = [View EXCEPT ![task[w]] = "running"] /\ View[task[w]] = "queued"
      BY <2>1, <2>2, <2>5 DEF View, Present, StoreTypeOK
    <3>2. Used' = Used /\ Fate' = Fate
      BY <2>1, <2>3, SameFates DEF Used
    <3>3. PICK j \in Jobs : j = task[w]
      BY <2>2
    <3>4. Lifecycle!Begin(j)
      BY <2>1, <3>1, <3>2, <3>3 DEF Lifecycle!Begin, View, Used, Fate
    <3>. QED
      BY <3>4 DEF Refines, Lifecycle!LifecycleNext
  <2>. QED
    BY <2>4, <2>5
<1>7. CASE InferenceSucceeds(w) \/ InferenceErrs(w) \/ InferenceCrashes(w) \/ InferenceExpires(w)
  <2>1. /\ UNCHANGED <<phase, jobs, results, handler, task>>
        /\ wstate[w] = "inferring"
        /\ \E s \in Terminal : outcome' = [outcome EXCEPT ![w] = s]
        /\ finish' = [finish EXCEPT ![w] = "update"]
    BY <1>7 DEF InferenceSucceeds, InferenceErrs, InferenceCrashes, InferenceExpires, EnterFinish,
       InferenceReturns, InferencePanics, InferenceTimesOut, Terminal, storeVars, requestVars, processVars
  <2>2. ~Past(w) /\ ~Past(w)'
    BY <1>1, <2>1 DEF Past
  <2>3. \A v \in Workers : v # w => (Past(v)' <=> Past(v)) /\ outcome'[v] = outcome[v]
    BY <2>1 DEF Past
  <2>4. \A j \in Jobs : \A s \in Terminal : Says(j, s)' <=> Says(j, s)
    BY <2>1, <2>2, <2>3 DEF Says
  <2>. QED
    BY <2>1, <2>4, NothingSeen
<1>8. CASE UpdateRecord(w)
  <2>1. /\ UNCHANGED <<results, handler, task, outcome, phase>>
        /\ phase = "serving" /\ finish[w] = "update" /\ task[w] \in Present
        /\ jobs' = [jobs EXCEPT ![task[w]] = outcome[w]]
        /\ finish' = [finish EXCEPT ![w] = "append"]
    BY <1>8 DEF UpdateRecord, SetStatus, NextStep, At, requestVars, processVars
  <2>2. /\ task[w] \in Jobs /\ jobs[task[w]] = "running" /\ outcome[w] \in Terminal
        /\ \A v \in Workers : task[v] = task[w] => v = w
    BY <1>2, <1>3, <2>1 DEF WorkAgreesOf, Underway, Present
  <2>3. KnownFate(task[w])' = outcome[w]
    <3>1. Says(task[w], outcome[w])'
      BY <2>1, <2>2 DEF Says, StoreTypeOK
    <3>. QED
      BY <2>1, <2>2, <3>1, FateAfter DEF FateIsSaid
  <2>4. ASSUME NEW j \in Jobs, j # task[w] PROVE KnownFate(j)' = KnownFate(j)
    <3>1. \A s \in Terminal : Says(j, s)' <=> Says(j, s)
      BY <2>1, <2>4 DEF Says, Past
    <3>. QED
      BY <3>1, SameFate
  <2>5. View' = [View EXCEPT ![task[w]] = outcome[w]] /\ View[task[w]] = "running"
    BY <2>1, <2>2 DEF View, StoreTypeOK
  <2>6. Used' = Used /\ Fate' = [Fate EXCEPT ![task[w]] = outcome[w]]
    BY <2>1, <2>2, <2>3, <2>4 DEF Used, Fate
  <2>7. PICK j \in Jobs, s \in Lifecycle!Final : j = task[w] /\ s = outcome[w]
    BY <2>2 DEF Lifecycle!Final, Terminal
  <2>8. Lifecycle!Decide(j, s)
    BY <2>1, <2>5, <2>6, <2>7 DEF Lifecycle!Decide, View, Used, Fate
  <2>. QED
    BY <2>8 DEF Refines, Lifecycle!LifecycleNext
<1>9. CASE UpdateMissing(w)
  <2>1. /\ UNCHANGED <<phase, jobs, results, handler>>
        /\ finish[w] = "update" /\ finish' = [finish EXCEPT ![w] = "none"]
        /\ \A v \in Workers : v # w => task'[v] = task[v] /\ outcome'[v] = outcome[v]
    BY <1>9 DEF UpdateMissing, EndRequest, At, storeVars, requestVars, processVars
  <2>2. ~Past(w) /\ ~Past(w)' /\ \A v \in Workers : v # w => (Past(v)' <=> Past(v))
    BY <2>1 DEF Past
  <2>3. \A j \in Jobs : \A s \in Terminal : Says(j, s)' <=> Says(j, s)
    BY <2>1, <2>2 DEF Says
  <2>. QED
    BY <2>1, <2>3, NothingSeen
<1>10. CASE AppendResult(w) \/ AppendResultFails(w)
  <2>1. /\ UNCHANGED <<phase, jobs, handler, task, outcome>>
        /\ finish[w] = "append" /\ finish' = [finish EXCEPT ![w] = "webhook"]
        /\ AppendResultLine(task[w], outcome[w]) \/ results' = results
    BY <1>10 DEF AppendResult, AppendResultFails, NextStep, At, requestVars, processVars
  <2>2. /\ task[w] \in Jobs /\ results[task[w]] = <<>> /\ outcome[w] \in Terminal
    BY <1>2, <1>3, <2>1 DEF WorkAgreesOf
  <2>3. results' \in {results, [results EXCEPT ![task[w]] = <<outcome[w]>>]}
    BY <2>1, <2>2, OneResultLine
  <2>4. Past(w) /\ \A v \in Workers : Past(v)' <=> Past(v)
    BY <2>1 DEF Past
  <2>5. \A s, t : <<s>> = <<t>> => s = t
    OBVIOUS
  <2>6. \A s : <<s>> # <<>>
    BY SingletonLine
  <2>7. \A j \in Jobs : \A s \in Terminal : Says(j, s)' <=> Says(j, s)
    BY <2>1, <2>2, <2>3, <2>4, <2>5, <2>6 DEF Says, StoreTypeOK
  <2>. QED
    BY <2>1, <2>7, NothingSeen
<1>11. CASE SendWebhook(w) \/ Cleanup(w) \/ CleanupFails(w)
  <2>1. /\ UNCHANGED <<phase, jobs, results, handler, task, outcome>>
        /\ finish[w] \in {"webhook", "cleanup"}
        /\ \E s \in {"cleanup", "retain"} : finish' = [finish EXCEPT ![w] = s]
    BY <1>11 DEF SendWebhook, Cleanup, CleanupFails, NextStep, At, storeVars, requestVars, processVars
  <2>2. \A v \in Workers : Past(v)' <=> Past(v)
    BY <2>1 DEF Past
  <2>3. \A j \in Jobs : \A s \in Terminal : Says(j, s)' <=> Says(j, s)
    BY <2>1, <2>2 DEF Says
  <2>. QED
    BY <2>1, <2>3, NothingSeen
<1>12. CASE Retain(w)
  <2>1. /\ UNCHANGED <<phase, results, handler>> /\ phase = "serving"
        /\ finish' = [finish EXCEPT ![w] = "none"]
        /\ \A v \in Workers : v # w => task'[v] = task[v] /\ outcome'[v] = outcome[v]
        /\ \A j \in Jobs : jobs'[j] \in {jobs[j], "absent"}
    BY <1>12 DEF Retain, EndRequest, RetainRecentJobs, At, requestVars, processVars
  <2>2. ~Past(w)' /\ \A v \in Workers : v # w => (Past(v)' <=> Past(v))
    BY <2>1 DEF Past
  <2>3. \A j \in Jobs : \A s \in Terminal : Says(j, s)' => Says(j, s)
    BY <2>1, <2>2 DEF Says, Terminal
  <2>. QED
    BY <2>1, <2>3, RecordsHidden
<1>. QED
  BY <1>4, <1>5, <1>6, <1>7, <1>8, <1>9, <1>10, <1>11, <1>12 DEF Work

\* Loading the files condemns what they leave unfinished, Serve shows what is
\* finished, a crash stops the server; the other steps of load_jobs write down
\* what its records already say.
LEMMA ProcessRefines ==
    ASSUME Inv, Inv', Process
    PROVE  Refines
<1>. USE DEF Inv, IInv, TypeOK
<1>1. phase # "serving" => \A w \in Workers : task[w] \notin Jobs
  BY ServerAssumption DEF RecordInv, Quiet
<1>2. \A s, t : <<s>> = <<t>> => s = t
  OBVIOUS
<1>3. \A s : <<s>> # <<>>
  BY SingletonLine
<1>4. CASE Load
  <2>1. /\ phase = "down" /\ phase' = "recovering"
        /\ recovering' = {j \in Jobs : StatusOnDisk(j) \in Pending}
        /\ jobs' = [j \in Jobs |-> IF StatusOnDisk(j) \in Pending THEN "failed" ELSE StatusOnDisk(j)]
        /\ UNCHANGED <<results, submissions, handler, task, outcome, finish>>
    BY <1>4 DEF Load, EnterPhase, LoadRecords, requestVars, workVars
  <2>2. \A j \in Jobs : jobs[j] = "absent"
    BY <2>1 DEF RecordInv, Quiet
  <2>3. PICK S \in SUBSET Jobs : S = {j \in Jobs : results[j] = <<>> /\ j \in submissions}
    OBVIOUS
  <2>4. ASSUME NEW j \in Jobs
        PROVE  /\ j \in S => jobs'[j] = "failed"
               /\ j \notin S => \A s \in Terminal : jobs'[j] = s <=> results[j] = <<s>>
    <3>1. StatusOnDisk(j) = IF results[j] = <<"succeeded">> THEN "succeeded"
                            ELSE IF results[j] = <<"failed">> THEN "failed"
                            ELSE IF j \in submissions THEN "queued" ELSE "absent"
      BY SingletonLine DEF StatusOnDisk, RecordInv, RecordsAgree
    <3>2. results[j] \in {<<>>, <<"succeeded">>, <<"failed">>}
      BY DEF RecordInv, RecordsAgree
    <3>. QED
      BY <1>2, <1>3, <2>1, <2>3, <3>1, <3>2 DEF Pending, Terminal
  <2>5. ASSUME NEW j \in Jobs, j \in S PROVE KnownFate(j) = "open" /\ KnownFate(j)' = "failed"
    <3>1. \A s \in Terminal : ~Says(j, s)
      BY <1>1, <1>3, <2>1, <2>2, <2>3, <2>5 DEF Says, Terminal
    <3>2. Says(j, "failed")'
      BY <2>4, <2>5 DEF Says
    <3>. QED
      BY <3>1, <3>2, FateIsWhatIsSaid, FateAfter DEF FateIsSaid, Terminal
  <2>6. ASSUME NEW j \in Jobs, j \notin S PROVE KnownFate(j)' = KnownFate(j)
    <3>1. \A s \in Terminal : Says(j, s)' <=> Says(j, s)
      BY <1>1, <2>1, <2>2, <2>4, <2>6 DEF Says, Terminal
    <3>. QED
      BY <3>1, SameFate
  <2>7. \A j \in S : j \in Used /\ View[j] = "absent" /\ Fate[j] = "open"
    BY <2>1, <2>3, <2>5 DEF RecordInv, HandlersAgree, Used, View, Fate
  <2>8. Fate' = [j \in Jobs |-> IF j \in S THEN "failed" ELSE Fate[j]]
    BY <2>5, <2>6 DEF Fate
  <2>9. Lifecycle!Condemn(S)
    BY <2>1, <2>7, <2>8 DEF Lifecycle!Condemn, Used, View, Fate
  <2>. QED
    BY <2>9 DEF Refines, Lifecycle!LifecycleNext
<1>5. ASSUME NEW k \in Jobs, Recover(k) PROVE Refines
  <2>1. /\ jobs[k] = "failed" /\ results[k] = <<>>
        /\ UNCHANGED <<phase, jobs, handler, task, outcome, finish>>
        /\ AppendResultLine(k, "failed")
    BY <1>5 DEF Recover, AppendRecovered, RecordInv, Loaded, requestVars, workVars, processVars
  <2>2. results' = [results EXCEPT ![k] = <<"failed">>]
    BY <2>1, OneResultLine
  <2>3. \A j \in Jobs : \A s \in Terminal : Says(j, s)' <=> Says(j, s)
    BY <1>2, <1>3, <2>1, <2>2 DEF Says, Past, StoreTypeOK
  <2>. QED
    BY <2>1, <2>3, NothingSeen
<1>6. CASE CompactFirst \/ CompactSecond
  <2>1. /\ phase \in {"recovering", "compacting"} /\ phase' \in {"compacting", "retaining"}
        /\ UNCHANGED <<jobs, handler, task, outcome, finish>>
    BY <1>6 DEF CompactFirst, CompactSecond, EnterPhase, CompactSubmissions, CompactResults,
       requestVars, workVars
  <2>2. \A j \in Jobs : \A s \in Terminal : Says(j, s)' <=> Says(j, s)
    <3>1. CASE CompactFirst
      BY <2>1, <3>1 DEF CompactFirst, CompactSubmissions, Says, Past
    <3>2. CASE CompactSecond
      <4>1. phase = "compacting" /\ recovering = {}
        BY <3>2 DEF CompactSecond, EnterPhase, RecordInv, Quiet
      <4>2. \A j \in Jobs : results[j] \in {<<>>, <<jobs[j]>>}
        BY <4>1 DEF RecordInv, Loaded, Loading, RecordsAgree
      <4>3. \A j \in Jobs : results'[j] \in {results[j], <<>>, <<jobs[j]>>}
        BY <3>2 DEF CompactSecond, CompactResults
      <4>. QED
        BY <1>2, <1>3, <2>1, <4>2, <4>3 DEF Says, Past
    <3>. QED
      BY <1>6, <3>1, <3>2
  <2>3. Fate' = Fate
    BY <2>2, SameFates
  <2>4. UNCHANGED <<Up, View, Used>>
    BY <2>1 DEF Up, View, Used
  <2>. QED
    BY <2>3, <2>4, Stutters DEF Refines
<1>7. CASE Serve
  <2>1. /\ phase = "retaining" /\ phase' = "serving"
        /\ \A j \in Jobs : jobs'[j] \in {jobs[j], "absent"}
        /\ UNCHANGED <<results, handler, task, outcome, finish>>
    BY <1>7 DEF Serve, EnterPhase, RetainRecentJobs, requestVars, workVars
  <2>2. \A j \in Jobs : \A s \in Terminal : Says(j, s)' => Says(j, s)
    BY <2>1 DEF Says, Past, Terminal
  <2>3. \A j \in Jobs : KnownFate(j)' \in {KnownFate(j), "open"}
    BY <2>2, ForgottenFate
  <2>4. ASSUME NEW j \in Jobs PROVE jobs'[j] \in {"absent"} \cup ({KnownFate(j)} \cap Terminal)
    <3>1. jobs[j] \in Terminal \cup {"absent"}
      BY <2>1 DEF RecordInv, Loaded, Loading
    <3>2. jobs[j] \in Terminal => KnownFate(j) = jobs[j]
      BY DEF KnownFate
    <3>. QED
      BY <2>1, <3>1, <3>2
  <2>5. Lifecycle!Restart
    BY <2>1, <2>3, <2>4
    DEF Lifecycle!Restart, Lifecycle!MayForgetFates, Lifecycle!Final, Terminal
  <2>. QED
    BY <2>5 DEF Refines, Lifecycle!LifecycleNext
<1>8. CASE Crash
  <2>1. /\ phase' = "down" /\ results' = results
        /\ jobs' = [j \in Jobs |-> "absent"]
        /\ \A w \in Workers : task'[w] = NoJob
        /\ \A j \in Jobs : handler'[j] = IF handler[j] \in InFlight THEN "abandoned" ELSE handler[j]
    BY <1>8 DEF Crash, StoreStops
  <2>2. \A j \in Jobs : \A s \in Terminal : Says(j, s)' => Says(j, s)
    BY <2>1, ServerAssumption DEF Says, Terminal
  <2>3. \A j \in Jobs : KnownFate(j)' \in {KnownFate(j), "open"}
    BY <2>2, ForgottenFate
  <2>4. Used' \in SUBSET Jobs /\ Used \subseteq Used'
    BY <2>1 DEF Used, Unposted
  <2>5. Lifecycle!Stop
    BY <2>1, <2>3, <2>4 DEF Lifecycle!Stop, Lifecycle!MayForgetFates, Used
  <2>. QED
    BY <2>5 DEF Refines, Lifecycle!LifecycleNext
<1>. QED
  BY <1>4, <1>5, <1>6, <1>7, <1>8 DEF Process

\* Every step of the server is a step of the lifecycle or is not seen.
LEMMA StepRefines == Inv /\ Inv' /\ [Next]_vars => Refines
<1>1. ASSUME Inv, Inv', UNCHANGED vars PROVE Refines
  BY <1>1, NothingSeen DEF vars, storeVars, requestVars, workVars, processVars, Says, Past
<1>. QED
  BY <1>1, SubmissionRefines, WorkRefines, ProcessRefines DEF Next

\* Before the first start nobody is served, nothing shown and nothing known.
LEMMA InitRefines == Init => Lifecycle!LifecycleInit
<1>. SUFFICES ASSUME Init PROVE Lifecycle!LifecycleInit
  OBVIOUS
<1>1. \A j \in Jobs : KnownFate(j) = "open"
  BY ServerAssumption DEF Init, StoreInit, KnownFate, Terminal
<1>. QED
  BY <1>1 DEF Init, Lifecycle!LifecycleInit, Unposted

\* What the proofs about the server establish, taken together.
LEMMA ServerInv == Spec => []Inv
  BY ServerInvariance, ServedByOneWorkerCorrect, RecordInvariance, PTL DEF Inv

\* JobServer implements JobLifecycle: whatever requests, workers, files and
\* process stops do, an id shown by GET /v1/jobs/{id} goes from queued to
\* running to one final status, is never shown again in an earlier one, and
\* after a restart shows only final statuses (jobs/queue.rs, worker.rs, store.rs).
THEOREM ImplementsLifecycleCorrect == Spec => ImplementsLifecycle
<1>1. Inv /\ Inv' /\ [Next]_vars => [Lifecycle!LifecycleNext]_(Lifecycle!lifecycleVars)
  BY StepRefines DEF Refines
<1>. QED
  BY <1>1, InitRefines, ServerInv, PTL DEF Spec, SafetySpec, ImplementsLifecycle, Lifecycle!LifecycleSpec

-----------------------------------------------------------------------------
(* What follows of it.                                                     *)

\* j can only be shown as failed from here on: it is not new, nobody will run
\* it, and no success of it is known anywhere.
Doomed(j) ==
    /\ j \in Used
    /\ Fate[j] # "succeeded"
    /\ View[j] \in {"absent", "failed"}

\* Only Lifecycle's actions are needed to see that this stays so.
LEMMA StaysDoomed ==
    ASSUME NEW j \in Jobs, Doomed(j), Refines
    PROVE  Doomed(j)'
  BY DEF Doomed, Refines, Used, Fate, View, Lifecycle!LifecycleNext, Lifecycle!lifecycleVars,
     Lifecycle!Post, Lifecycle!Waste, Lifecycle!Begin, Lifecycle!Decide, Lifecycle!Condemn,
     Lifecycle!Hide, Lifecycle!Stop, Lifecycle!Restart, Lifecycle!MayForgetFates, Lifecycle!Final

\* A job shown as failed is doomed.
LEMMA ShownAsFailed ==
    ASSUME Inv, NEW j \in Jobs, phase = "serving", jobs[j] = "failed"
    PROVE  Doomed(j)
<1>1. handler[j] \notin Unposted
  BY DEF Inv, RecordInv, HandlersAgree
<1>2. KnownFate(j) = "failed"
  BY DEF KnownFate, Terminal
<1>. QED
  BY <1>1, <1>2 DEF Doomed, Used, Fate, View

\* A client that was once told that its job failed is never told that it
\* succeeded, by this process or by one started later on the same files,
\* whatever file operations fail.
THEOREM FailedIsFinalCorrect == Spec => FailedIsFinal
<1>1. ASSUME NEW j \in Jobs
      PROVE  Spec => [](phase = "serving" /\ jobs[j] = "failed"
                          => [](phase = "serving" => jobs[j] # "succeeded"))
  <2>1. Inv /\ (phase = "serving" /\ jobs[j] = "failed") => Doomed(j)
    BY ShownAsFailed
  <2>2. Doomed(j) /\ Inv /\ Inv' /\ [Next]_vars => Doomed(j)'
    BY StepRefines, StaysDoomed
  <2>3. Doomed(j) => (phase = "serving" => jobs[j] # "succeeded")
    BY DEF Doomed, View
  <2>. QED
    BY <2>1, <2>2, <2>3, ServerInv, PTL DEF Spec, SafetySpec
<1>. QED
  BY <1>1 DEF FailedIsFinal

=============================================================================
