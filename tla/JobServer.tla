------------------------------ MODULE JobServer ------------------------------
(***************************************************************************)
(* The server: submission handlers (api/submit.rs, jobs/queue.rs), the     *)
(* bounded queue, the model workers (jobs/worker.rs), the job records and  *)
(* their files (jobs/store.rs), and the start and stop of the process      *)
(* (main.rs).                                                              *)
(*                                                                         *)
(* A handler or a worker runs without interruption up to its next await,   *)
(* so an action is the code between two awaits; a request can be dropped   *)
(* at any await and the process can stop between any two actions.          *)
(***************************************************************************)
EXTENDS WorkerPool, JobStore

CONSTANTS
    NoJob,          \* what a worker holds between two requests
    Uploads,        \* the jobs whose image the server saved (input_kind "upload")
    Hooked,         \* the jobs submitted with a webhook_url
    QueueSize,      \* config.queue_size
    Faults,         \* which faults the environment may inject
    MaxCrashes      \* bound on the number of process stops

\* "fs": a file operation fails; "init": a model does not load; "panic": an
\* inference thread panics; "cancel": a client goes away or the 408 timeout
\* of the router drops the handler.
ASSUME ServerAssumption ==
    /\ NoJob \notin Jobs
    /\ Uploads \subseteq Jobs
    /\ Hooked \subseteq Jobs
    /\ QueueSize \in Nat \ {0}
    /\ Faults \subseteq {"fs", "init", "panic", "cancel"}
    /\ MaxCrashes \in Nat

VARIABLES
    phase,      \* where the process stands, from load_jobs to serving
    crashes,    \* process stops so far, at most MaxCrashes
    handler,    \* the submission request of each job
    queue,      \* the async_channel between handlers and workers
    task,       \* the job a worker holds
    outcome,    \* the status its inference calls for
    finish,     \* the step of finish_job it is at
    images,     \* uploads whose file is in data/images
    posted      \* the statuses announced to the webhook of a job

requestVars == <<handler, queue, images>>
workVars    == <<task, outcome, finish, posted>>
processVars == <<phase, crashes>>
vars == <<poolVars, storeVars, requestVars, workVars, processVars>>

\* A request that passed ensure_workers_ready and has no response yet.
\*   "admitted"   reading the body           "persisted"  submission line written
\*   "built"      record made, saving image  "rollback"   try_send gave it back
\*   "stored"     image written              "unrecorded" removed from the map
\*   "checked"    the queue was not full
\*   "inserted"   record in the map
InFlight == {"admitted", "built", "stored", "checked", "inserted", "persisted",
             "rollback", "unrecorded"}

\* "accepted": 200; "refused": 503 or 400; "abandoned": 500, or the handler
\* was dropped before it answered.
Answered == {"accepted", "refused", "abandoned"}

Phase  == {"down", "recovering", "compacting", "retaining", "serving"}
Finish == {"none", "update", "append", "webhook", "cleanup", "retain"}

Handle(j, from, to) ==
    /\ phase = "serving"
    /\ handler[j] = from
    /\ handler' = [handler EXCEPT ![j] = to]

QueueIsFull   == Len(queue) >= QueueSize
QueueIsClosed == Dead = Workers       \* every clone of queue_rx is dropped
QueuedJobs    == {queue[i] : i \in DOMAIN queue}

Init ==
    /\ PoolInit
    /\ StoreInit
    /\ phase = "down"
    /\ crashes = 0
    /\ handler = [j \in Jobs |-> "new"]
    /\ queue = <<>>
    /\ images = {}
    /\ task = [w \in Workers |-> NoJob]
    /\ outcome = [w \in Workers |-> "none"]
    /\ finish = [w \in Workers |-> "none"]
    /\ posted = [j \in Jobs |-> <<>>]

-----------------------------------------------------------------------------
(* Submission: submit_multipart_job or submit_inference_path, then         *)
(* enqueue_record.                                                         *)

\* ensure_workers_ready: refused with 503, and nothing done, when it is not.
Admit(j) ==
    /\ IsReady
    /\ Handle(j, "new", "admitted")
    /\ UNCHANGED <<poolVars, storeVars, queue, images, workVars, processVars>>

\* The body or the task is invalid: 400.
RejectInput(j) ==
    /\ Handle(j, "admitted", "refused")
    /\ UNCHANGED <<poolVars, storeVars, queue, images, workVars, processVars>>

\* Mutant of BuildRecord: an upload is treated like a local path.
BuildRecordWithoutImage(j) ==
    /\ Handle(j, "admitted", "stored")
    /\ Touch(j)
    /\ UNCHANGED <<poolVars, jobs, submissions, results, recovering, queue, images,
                   workVars, processVars>>

\* The record gets its stamp before the image of an upload is saved.
BuildRecord(j) ==
    /\ Handle(j, "admitted", IF j \in Uploads THEN "built" ELSE "stored")
    /\ Touch(j)
    /\ UNCHANGED <<poolVars, jobs, submissions, results, recovering, queue, images,
                   workVars, processVars>>

SaveImage(j) ==
    /\ Handle(j, "built", "stored")
    /\ images' = images \cup {j}
    /\ UNCHANGED <<poolVars, storeVars, queue, workVars, processVars>>

\* The write failed, or was cut short and left a file behind.
SaveImageFails(j) ==
    /\ "fs" \in Faults
    /\ Handle(j, "built", "abandoned")
    /\ images' \in {images, images \cup {j}}
    /\ UNCHANGED <<poolVars, storeVars, queue, workVars, processVars>>

\* enqueue_record looks at the queue before it touches anything.
CheckFull(j) ==
    /\ Handle(j, "stored", IF QueueIsFull THEN "refused" ELSE "checked")
    /\ UNCHANGED <<poolVars, storeVars, queue, images, workVars, processVars>>

InsertRecord(j) ==
    /\ Handle(j, "checked", "inserted")
    /\ SetStatus(j, "queued")
    /\ UNCHANGED <<poolVars, later, submissions, results, recovering, queue, images,
                   workVars, processVars>>

AppendSubmission(j) ==
    /\ Handle(j, "inserted", "persisted")
    /\ submissions' = submissions \cup {j}
    /\ UNCHANGED <<poolVars, jobs, later, results, recovering, queue, images,
                   workVars, processVars>>

\* The `?` of enqueue_record returns Persist: the record stays in the map.  A
\* write cut short before its newline leaves a line that load_jobs can read.
AppendSubmissionFails(j) ==
    /\ "fs" \in Faults
    /\ Handle(j, "inserted", "abandoned")
    /\ submissions' \in {submissions, submissions \cup {j}}
    /\ UNCHANGED <<poolVars, jobs, later, results, recovering, queue, images,
                   workVars, processVars>>

\* Mutant of Enqueue: the result of try_send is ignored.
EnqueueUnchecked(j) ==
    /\ Handle(j, "persisted", "accepted")
    /\ queue' = IF QueueIsFull THEN queue ELSE Append(queue, j)
    /\ UNCHANGED <<poolVars, storeVars, images, workVars, processVars>>

\* try_send succeeds, and the 200 response follows without another await.
Enqueue(j) ==
    /\ ~QueueIsClosed /\ ~QueueIsFull
    /\ Handle(j, "persisted", "accepted")
    /\ queue' = Append(queue, j)
    /\ UNCHANGED <<poolVars, storeVars, images, workVars, processVars>>

\* The queue filled up or closed since CheckFull.
EnqueueFails(j) ==
    /\ QueueIsClosed \/ QueueIsFull
    /\ Handle(j, "persisted", "rollback")
    /\ UNCHANGED <<poolVars, storeVars, queue, images, workVars, processVars>>

\* Mutant of RemoveUnqueued: the record stays in the map.
RemoveUnqueuedKeeps(j) ==
    /\ Handle(j, "rollback", "unrecorded")
    /\ UNCHANGED <<poolVars, storeVars, queue, images, workVars, processVars>>

\* rollback_unqueued_record: the record leaves the map ...
RemoveUnqueued(j) ==
    /\ Handle(j, "rollback", "unrecorded")
    /\ SetStatus(j, "absent")
    /\ UNCHANGED <<poolVars, later, submissions, results, recovering, queue, images,
                   workVars, processVars>>

\* ... and persist_unqueued_record writes it down as failed.
PersistUnqueued(j) ==
    /\ Handle(j, "unrecorded", "refused")
    /\ Touch(j)
    /\ AppendResultLine(j, "failed")
    /\ UNCHANGED <<poolVars, jobs, submissions, recovering, queue, images,
                   workVars, processVars>>

PersistUnqueuedFails(j) ==
    /\ "fs" \in Faults
    /\ Handle(j, "unrecorded", "abandoned")
    /\ Touch(j)
    /\ AppendResultLine(j, "failed") \/ UNCHANGED results
    /\ UNCHANGED <<poolVars, jobs, submissions, recovering, queue, images,
                   workVars, processVars>>

\* The handler is dropped at an await: TimeoutLayer, or the client left.
CancelRequest(j) ==
    /\ "cancel" \in Faults
    /\ handler[j] \in InFlight
    /\ Handle(j, handler[j], "abandoned")
    /\ UNCHANGED <<poolVars, storeVars, queue, images, workVars, processVars>>

Submission(j) ==
    \/ Admit(j) \/ RejectInput(j) \/ BuildRecord(j)
    \/ SaveImage(j) \/ SaveImageFails(j)
    \/ CheckFull(j) \/ InsertRecord(j)
    \/ AppendSubmission(j) \/ AppendSubmissionFails(j)
    \/ Enqueue(j) \/ EnqueueFails(j)
    \/ RemoveUnqueued(j) \/ PersistUnqueued(j) \/ PersistUnqueuedFails(j)
    \/ CancelRequest(j)

-----------------------------------------------------------------------------
(* A worker: worker_loop, process_worker_request and finish_job.           *)

LoadModel(w) ==
    /\ phase = "serving"
    /\ InitializeOk(w)
    /\ UNCHANGED <<storeVars, requestVars, workVars, processVars>>

LoadModelFails(w) ==
    /\ phase = "serving"
    /\ "init" \in Faults
    /\ InitializeFails(w)
    /\ UNCHANGED <<storeVars, requestVars, workVars, processVars>>

\* Mutant of ReceiveJob: the request is looked at but not taken.
ReceiveJobByPeeking(w) ==
    /\ phase = "serving" /\ queue # <<>>
    /\ Receive(w)
    /\ task' = [task EXCEPT ![w] = Head(queue)]
    /\ UNCHANGED <<storeVars, requestVars, outcome, finish, posted, processVars>>

ReceiveJob(w) ==
    /\ phase = "serving"
    /\ queue # <<>>
    /\ Receive(w)
    /\ task' = [task EXCEPT ![w] = Head(queue)]
    /\ queue' = Tail(queue)
    /\ UNCHANGED <<storeVars, handler, images, outcome, finish, posted, processVars>>

\* Mutant of StartJob: a record that retention dropped is put back.
StartJobInserts(w) ==
    /\ phase = "serving"
    /\ SpawnInference(w)
    /\ SetStatus(task[w], "running") /\ Touch(task[w])
    /\ UNCHANGED <<submissions, results, recovering, requestVars, workVars, processVars>>

\* mark_running, which only warns when retention dropped the record, and then
\* spawn_inference.
StartJob(w) ==
    /\ phase = "serving"
    /\ SpawnInference(w)
    /\ IF task[w] \in Present
         THEN SetStatus(task[w], "running") /\ Touch(task[w])
         ELSE UNCHANGED <<jobs, later>>
    /\ UNCHANGED <<submissions, results, recovering, requestVars, workVars, processVars>>

\* The inference of w is over and finish_job starts, with status s.
EnterFinish(w, s) ==
    /\ phase = "serving"
    /\ outcome' = [outcome EXCEPT ![w] = s]
    /\ finish' = [finish EXCEPT ![w] = "update"]
    /\ UNCHANGED <<storeVars, requestVars, task, posted, processVars>>

\* infer opens the image file, so it cannot succeed without it.
InferenceSucceeds(w) ==
    /\ task[w] \in Uploads => task[w] \in images
    /\ InferenceReturns(w)
    /\ EnterFinish(w, "succeeded")

InferenceErrs(w)    == InferenceReturns(w) /\ EnterFinish(w, "failed")
InferenceCrashes(w) == /\ "panic" \in Faults
                       /\ InferencePanics(w)
                       /\ EnterFinish(w, "failed")
\* Mutant of InferenceExpires: the error of the timeout is not passed on.
InferenceExpiresSilently(w) == InferenceTimesOut(w) /\ EnterFinish(w, outcome[w])

InferenceExpires(w) == InferenceTimesOut(w) /\ EnterFinish(w, "failed")

\* The request is over: back to recv, or reload the model.
EndRequest(w) ==
    /\ FinishRequest(w)
    /\ task' = [task EXCEPT ![w] = NoJob]
    /\ outcome' = [outcome EXCEPT ![w] = "none"]
    /\ finish' = [finish EXCEPT ![w] = "none"]

At(w, step) == phase = "serving" /\ finish[w] = step
NextStep(w, step) == finish' = [finish EXCEPT ![w] = step]

\* Mutant of UpdateRecord: an error leaves the status as it was.
UpdateRecordOnSuccess(w) ==
    /\ At(w, "update") /\ task[w] \in Present
    /\ SetStatus(task[w], IF outcome[w] = "failed" THEN jobs[task[w]] ELSE outcome[w])
    /\ Touch(task[w])
    /\ NextStep(w, "append")
    /\ UNCHANGED <<poolVars, submissions, results, recovering, requestVars,
                   task, outcome, posted, processVars>>

\* finish_job: the record takes its final status and is cloned.
UpdateRecord(w) ==
    /\ At(w, "update")
    /\ task[w] \in Present
    /\ SetStatus(task[w], outcome[w])
    /\ Touch(task[w])
    /\ NextStep(w, "append")
    /\ UNCHANGED <<poolVars, submissions, results, recovering, requestVars,
                   task, outcome, posted, processVars>>

\* finish_job: retention dropped the record; the outcome is only logged.
UpdateMissing(w) ==
    /\ At(w, "update")
    /\ task[w] \notin Present
    /\ EndRequest(w)
    /\ UNCHANGED <<storeVars, requestVars, posted, processVars>>

AppendResult(w) ==
    /\ At(w, "append")
    /\ AppendResultLine(task[w], outcome[w])
    /\ NextStep(w, "webhook")
    /\ UNCHANGED <<poolVars, jobs, later, submissions, recovering, requestVars,
                   task, outcome, posted, processVars>>

\* The append failed, with or without a readable line: logged, and finish_job
\* goes on.
AppendResultFails(w) ==
    /\ "fs" \in Faults
    /\ At(w, "append")
    /\ AppendResultLine(task[w], outcome[w]) \/ UNCHANGED results
    /\ NextStep(w, "webhook")
    /\ UNCHANGED <<poolVars, jobs, later, submissions, recovering, requestVars,
                   task, outcome, posted, processVars>>

\* send_webhook.  Its attempts, retries and dead letter are WebhookDelivery's.
SendWebhook(w) ==
    /\ At(w, "webhook")
    /\ posted' = IF task[w] \in Hooked
                   THEN [posted EXCEPT ![task[w]] = Append(@, outcome[w])]
                   ELSE posted
    /\ NextStep(w, "cleanup")
    /\ UNCHANGED <<poolVars, storeVars, requestVars, task, outcome, processVars>>

\* Mutant of Cleanup: the image of a failed job is kept.
CleanupOnSuccess(w) ==
    /\ At(w, "cleanup")
    /\ images' = IF outcome[w] = "succeeded" THEN images \ ({task[w]} \cap Uploads) ELSE images
    /\ NextStep(w, "retain")
    /\ UNCHANGED <<poolVars, storeVars, handler, queue, task, outcome, posted, processVars>>

\* cleanup_job_artifacts: should_delete_image holds for uploads only.
Cleanup(w) ==
    /\ At(w, "cleanup")
    /\ images' = images \ ({task[w]} \cap Uploads)
    /\ NextStep(w, "retain")
    /\ UNCHANGED <<poolVars, storeVars, handler, queue, task, outcome, posted, processVars>>

\* remove_file failed: counted in cleanup_failures, and finish_job goes on.
CleanupFails(w) ==
    /\ "fs" \in Faults
    /\ At(w, "cleanup")
    /\ NextStep(w, "retain")
    /\ UNCHANGED <<poolVars, storeVars, requestVars, task, outcome, posted, processVars>>

\* Mutant of Retain: a failed job is put back into the queue.
RetainAndRetry(w) ==
    /\ At(w, "retain")
    /\ RetainRecentJobs
    /\ EndRequest(w)
    /\ queue' = IF outcome[w] = "failed" /\ ~QueueIsFull THEN Append(queue, task[w]) ELSE queue
    /\ UNCHANGED <<later, submissions, results, recovering, handler, images, posted, processVars>>

Retain(w) ==
    /\ At(w, "retain")
    /\ RetainRecentJobs
    /\ EndRequest(w)
    /\ UNCHANGED <<later, submissions, results, recovering, requestVars, posted, processVars>>

Work(w) ==
    \/ LoadModel(w) \/ LoadModelFails(w)
    \/ ReceiveJob(w) \/ StartJob(w)
    \/ InferenceSucceeds(w) \/ InferenceErrs(w) \/ InferenceCrashes(w) \/ InferenceExpires(w)
    \/ UpdateRecord(w) \/ UpdateMissing(w)
    \/ AppendResult(w) \/ AppendResultFails(w)
    \/ SendWebhook(w)
    \/ Cleanup(w) \/ CleanupFails(w)
    \/ Retain(w)

-----------------------------------------------------------------------------
(* The process: build_runtime_parts awaits load_jobs before it serves.     *)

EnterPhase(from, to) == phase = from /\ phase' = to /\ UNCHANGED crashes

Load ==
    /\ EnterPhase("down", "recovering")
    /\ LoadRecords
    /\ UNCHANGED <<poolVars, requestVars, workVars>>

Recover(j) ==
    /\ phase = "recovering"
    /\ AppendRecovered(j)
    /\ UNCHANGED <<poolVars, requestVars, workVars, processVars>>

CompactFirst ==
    /\ recovering = {}
    /\ EnterPhase("recovering", "compacting")
    /\ CompactSubmissions
    /\ UNCHANGED <<poolVars, requestVars, workVars>>

CompactSecond ==
    /\ EnterPhase("compacting", "retaining")
    /\ CompactResults
    /\ UNCHANGED <<poolVars, requestVars, workVars>>

Serve ==
    /\ EnterPhase("retaining", "serving")
    /\ RetainRecentJobs
    /\ UNCHANGED <<poolVars, later, submissions, results, recovering, requestVars, workVars>>

\* The process stops: killed, an error out of load_jobs, or the end of a
\* graceful shutdown, which drops the runtime and every task in it.
Crash ==
    /\ phase # "down"
    /\ crashes < MaxCrashes
    /\ phase' = "down"
    /\ crashes' = crashes + 1
    /\ PoolStops
    /\ StoreStops
    /\ handler' = [j \in Jobs |->
                     IF handler[j] \in InFlight THEN "abandoned" ELSE handler[j]]
    /\ queue' = <<>>
    /\ task' = [w \in Workers |-> NoJob]
    /\ outcome' = [w \in Workers |-> "none"]
    /\ finish' = [w \in Workers |-> "none"]
    /\ UNCHANGED <<images, posted>>

Process ==
    \/ Load
    \/ \E j \in Jobs : Recover(j)
    \/ CompactFirst \/ CompactSecond \/ Serve
    \/ Crash

Next ==
    \/ \E j \in Jobs : Submission(j)
    \/ \E w \in Workers : Work(w)
    \/ Process

-----------------------------------------------------------------------------
(* Specification and fairness.                                             *)

\* A handler or worker that can take its next step takes it: tokio polls what
\* is ready, file operations return, and the model loads or fails to.  Clients
\* need not submit, an inference need not return, the process need not stop.
Answering(j) ==
    \/ BuildRecord(j) \/ SaveImage(j) \/ CheckFull(j) \/ InsertRecord(j)
    \/ AppendSubmission(j) \/ Enqueue(j) \/ EnqueueFails(j)
    \/ RemoveUnqueued(j) \/ PersistUnqueued(j)

Finishing(w) ==
    \/ UpdateRecord(w) \/ UpdateMissing(w) \/ AppendResult(w) \/ SendWebhook(w)
    \/ Cleanup(w) \/ Retain(w)

Starting ==
    \/ Load
    \/ \E j \in Jobs : Recover(j)
    \/ CompactFirst \/ CompactSecond \/ Serve

Fairness ==
    /\ \A j \in Jobs : WF_vars(Answering(j))
    /\ \A w \in Workers :
         /\ WF_vars(LoadModel(w))
         /\ WF_vars(ReceiveJob(w))
         /\ WF_vars(StartJob(w))
         /\ WF_vars(InferenceExpires(w))
         /\ WF_vars(Finishing(w))
    /\ WF_vars(Starting)

SafetySpec == Init /\ [][Next]_vars

Spec == SafetySpec /\ Fairness

-----------------------------------------------------------------------------
(* Properties.                                                             *)

\* Type invariant of the composed server.
TypeOK ==
    /\ PoolTypeOK
    /\ StoreTypeOK
    /\ phase \in Phase
    /\ crashes \in 0..MaxCrashes
    /\ handler \in [Jobs -> {"new"} \cup InFlight \cup Answered]
    /\ queue \in Seq(Jobs)
    /\ task \in [Workers -> Jobs \cup {NoJob}]
    /\ outcome \in [Workers -> Terminal \cup {"none"}]
    /\ finish \in [Workers -> Finish]
    /\ images \subseteq Jobs
    /\ posted \in [Jobs -> Seq(Terminal)]

HeldBy(w, j) == task[w] = j
Held(j)      == \E w \in Workers : HeldBy(w, j)

\* A job that was answered 200 is served at most once: it sits once in the
\* queue or is held by one worker, never both, and a job whose submission was
\* refused or dropped is in neither (enqueue_record's try_send against
\* process_worker_queue's recv, across restarts of workers and process).
ServedByOneWorker ==
    /\ \A i, k \in DOMAIN queue : queue[i] = queue[k] => i = k
    /\ \A w, v \in Workers : task[w] = task[v] /\ task[w] # NoJob => w = v
    /\ \A j \in Jobs : j \in QueuedJobs => ~Held(j)
    /\ \A j \in Jobs : j \in QueuedJobs \/ Held(j) => handler[j] = "accepted"

\* At any one time, all that states the outcome of a job states the same one:
\* the record a client polls, every line of results.jsonl, and every webhook
\* event.  And the record runs ahead of results.jsonl only from the update of
\* finish_job to its append, or while load_jobs has yet to append: what was
\* polled in that window is lost if the process stops there, and the next start
\* says failed.  Holds while file operations succeed, across stops at any point
\* of finish_job and of load_jobs.
Verdicts(j) ==
    ({jobs[j]} \cap Terminal)
      \cup {results[j][i] : i \in DOMAIN results[j]}
      \cup {posted[j][i] : i \in DOMAIN posted[j]}

OneVerdict ==
    \A j \in Jobs :
        /\ \A a, b \in Verdicts(j) : a = b
        /\ Len(results[j]) <= 1
        /\ Len(posted[j]) <= 1
        /\ jobs[j] \in Terminal /\ StatusOnDisk(j) \in Pending =>
              j \in recovering \/ \E w \in Workers : HeldBy(w, j) /\ finish[w] = "append"

\* A job that was answered 200 stays in one of the files, whatever process
\* stops and compactions follow, until at least MetadataRetentionLimit other
\* jobs were stamped after it (submissions.jsonl is written before try_send;
\* load_jobs appends what it recovered before compact_metadata rewrites).
AcceptedIsOnDisk ==
    \A j \in Jobs :
        handler[j] = "accepted" /\ StatusOnDisk(j) = "absent" =>
            /\ MetadataRetentionLimit > 0
            /\ Cardinality({k \in Jobs : <<k, j>> \in later}) >= MetadataRetentionLimit

\* The uploaded image is there as long as an inference may still read it.
ImageOutlivesInference ==
    \A j \in Uploads :
        \/ j \in QueuedJobs
        \/ \E w \in Workers : HeldBy(w, j) /\ wstate[w] \in {"assigned", "inferring"}
        => j \in images

\* A record shown as queued has somebody who will take it further: its
\* handler, the queue, or the worker that received it.  The exception is a
\* handler that was dropped, or failed, after its insert (enqueue_record has no
\* guard that removes the record then).
QueuedIsPending ==
    \A j \in Jobs :
        jobs[j] = "queued" =>
            \/ handler[j] \in {"inserted", "persisted", "rollback", "abandoned"}
            \/ j \in QueuedJobs
            \/ \E w \in Workers : HeldBy(w, j) /\ wstate[w] = "assigned"

\* A record shown as running is being run, and one shown as finished is past
\* its inference: no worker runs it any more, or ever will.
RunningHasWorker ==
    \A j \in Jobs :
        /\ jobs[j] = "running" =>
              \E w \in Workers :
                  HeldBy(w, j) /\ (wstate[w] = "inferring" \/ finish[w] = "update")
        /\ jobs[j] \in Terminal =>
              /\ j \notin QueuedJobs
              /\ \A w \in Workers :
                    HeldBy(w, j) => wstate[w] = "finishing" /\ finish[w] # "update"

\* At most JobRetentionLimit finished records stay in memory, apart from those
\* whose finish_job has not reached its retain_recent_jobs yet.
FinishedRecordsBounded ==
    phase = "serving" =>
        Cardinality({j \in Jobs : jobs[j] \in Terminal /\ ~Held(j)}) <= JobRetentionLimit

\* What finish_job owes an accepted job that is in no queue and with no worker:
\* its upload is gone, and a webhook_url was told how it ended.
Settled(j) ==
    /\ j \in Uploads => j \notin images
    /\ j \in Hooked => posted[j] # <<>>

Left(j) == handler[j] = "accepted" /\ j \notin QueuedJobs /\ ~Held(j)

\* As long as the process has not stopped, an accepted job that left the queue
\* and its worker is settled, however its inference ended (finish_job runs its
\* steps on every path out of process_worker_request).  That takes a retention
\* limit that spares unfinished jobs: finish_job gives up on a job whose record
\* retain_recent_jobs has removed.
FinishedIsSettled == crashes = 0 => \A j \in Jobs : Left(j) => Settled(j)

\* The same of the jobs load_jobs finds unfinished and declares failed: once
\* the server serves again, they are settled as well.
RecoveredIsSettled ==
    phase = "serving" => \A j \in Jobs : Left(j) /\ jobs[j] \in Terminal => Settled(j)

\* Every accepted job gets an outcome in results.jsonl, even if its inference
\* hangs or panics, its worker reloads, or the process stops and restarts.
AcceptedGetsOutcome ==
    \A j \in Jobs :
        handler[j] = "accepted" /\ StatusOnDisk(j) \in Pending
            ~> StatusOnDisk(j) \in Terminal

\* Every accepted job with a webhook_url is announced to it, unless the
\* process stops first.
AcceptedGetsWebhook ==
    \A j \in Hooked : handler[j] = "accepted" ~> posted[j] # <<>> \/ crashes > 0

=============================================================================
